------------------------- MODULE CrossClusterPlugin -------------------------
(***************************************************************************)
(* pkg/coredns/plugins/crosscluster: what the dns-server answers from the  *)
(* records cache.  ServeDNS and Services change nothing, so they are       *)
(* operators on the state of DNSCache; CacheNext moves the state.          *)
(*                                                                         *)
(* The record builders of CoreDNS (plugin.A, plugin.CNAME, plugin.SOA) are *)
(* external and modelled from how ServeDNS uses them and from what they    *)
(* ask the plugin: Services for records, and for an alias out of the zone  *)
(* Lookup, which is not implemented.  A question for the apex of a zone is *)
(* rewritten by CoreDNS before it is looked up and is not in the model.    *)
(***************************************************************************)
EXTENDS DNSCache

CONSTANTS
    Arguments,          \* names after "crosscluster" in the Corefile, in order
    ServerBlockKeys,    \* names of the server block it stands in
    Questions,          \* names that are asked for, as written
    TargetOf            \* the name that an address which is no IP stands for

ASSUME PluginAssumption ==
    /\ Questions \cup ToSet(Arguments) \cup ToSet(ServerBlockKeys) \subseteq Seq(Labels)
    /\ TargetOf \in [Addresses \ IPs -> Seq(Labels)]
    /\ IsFiniteSet(Questions) /\ IsFiniteSet(Addresses)

QTypes == {"A", "CNAME", "SOA", "AAAA"}

-----------------------------------------------------------------------------
(* Zones. *)

(* setupController: the arguments, or else the server block's names, in    *)
(* normal form.                                                            *)
Zones ==
    LET names == IF Arguments = <<>> THEN ServerBlockKeys ELSE Arguments
    IN  {CanonicalName(names[i]) : i \in DOMAIN names}

(* dns.IsSubDomain(parent, child) *)
IsSubDomain(parent, child) ==
    /\ Len(parent) <= Len(child)
    /\ SubSeq(CanonicalName(child), Len(child) - Len(parent) + 1, Len(child))
          = CanonicalName(parent)

(* plugin.Zones.Matches: the longest zone the name is in. *)
MatchingZones(name) == {z \in Zones : IsSubDomain(z, name)}
ZoneOf(name) ==
    CHOOSE z \in MatchingZones(name) : \A y \in MatchingZones(name) : Len(y) <= Len(z)

-----------------------------------------------------------------------------
(* Records of an answer.  Their order is not kept. *)

ARecord(name, ip) == [owner |-> name, type |-> "A", value |-> ip]
CNAMERecord(name, a) == [owner |-> name, type |-> "CNAME", value |-> TargetOf[a]]
SOARecord(zone) == [owner |-> zone, type |-> "SOA", value |-> zone]

(* Mutant: only the first entry of the name is read. *)
ServicesOfFirstEntry(name) ==
    LET found == Lookup(name) IN IF found = <<>> THEN <<>> ELSE found[1].Addresses

(* One service per address of every entry found; IsNameError distinguishes *)
(* that none was found, which ends in the same answer.                     *)
Services(name) == AddressesOf(Lookup(name))

(* The names it is called for, the aliases it can meet, and the number of  *)
(* them after which plugin.A follows no more: len(previousRecords) > 7.    *)
AliasNodes == Questions \cup {TargetOf[a] : a \in Addresses \ IPs}
AliasRecords == {CNAMERecord(n, a) : n \in AliasNodes, a \in Addresses \ IPs}
MaxAliases == 8

AddressRecords(name) == {ARecord(name, ip) : ip \in ToSet(Services(name)) \cap IPs}

(* The aliases of a name that are followed after those in previous: not    *)
(* one that leads back to the name itself, that was followed before, or    *)
(* that leads out of the zone, for which Lookup is asked in vain.          *)
Followed(zone, name, previous) ==
    {a \in ToSet(Services(name)) \ IPs :
        /\ ~IsSubDomain(name, TargetOf[a])
        /\ CNAMERecord(name, a) \notin previous
        /\ IsSubDomain(zone, TargetOf[a])}

(* plugin.A, by the name and the previous records, when no alias is left   *)
(* to follow, ...                                                          *)
WithoutAliases ==
    [name \in AliasNodes |-> [previous \in SUBSET AliasRecords |-> AddressRecords(name)]]

(* ... and when next is what it returns for the targets of the aliases it  *)
(* follows: an alias is part of the answer if its target has one.          *)
WithAliases(zone, next) ==
    [name \in AliasNodes |-> [previous \in SUBSET AliasRecords |->
        LET answers == {<<CNAMERecord(name, a),
                          next[TargetOf[a]][previous \cup {CNAMERecord(name, a)}]>> :
                            a \in Followed(zone, name, previous)}
        IN  AddressRecords(name)
              \cup UNION {{x[1]} \cup x[2] : x \in {y \in answers : y[2] # {}}}]]

(* plugin.A calls itself with one more previous record for each alias. *)
ARecords(zone, name) ==
    LET answer[left \in 0..MaxAliases] ==
            IF left = 0 THEN WithoutAliases ELSE WithAliases(zone, answer[left - 1])
    IN  answer[MaxAliases][name][{}]

(* plugin.CNAME looks at the first service only. *)
CNAMERecords(name) ==
    {CNAMERecord(name, a) : a \in {Head(Services(name)) : x \in {1} \cap DOMAIN Services(name)} \ IPs}

(* Mutant: aliases are followed in all zones instead of the question's. *)
ServeDNSAcrossZones(name, qtype) ==
    LET records == IF qtype = "A" THEN ARecords(<<>>, name) ELSE CNAMERecords(name)
    IN  IF MatchingZones(name) = {} \/ qtype \notin {"A", "CNAME"}
        THEN [rcode |-> "SERVFAIL", records |-> {}]
        ELSE [rcode |-> IF records = {} THEN "NXDOMAIN" ELSE "NOERROR", records |-> records]

(* The whole handler: a zone that is not the plugin's fails, a type it     *)
(* does not handle and an empty answer are name errors.                    *)
ServeDNS(name, qtype) ==
    IF MatchingZones(name) = {}
    THEN [rcode |-> "SERVFAIL", records |-> {}]
    ELSE LET zone == ZoneOf(name)
             records == CASE qtype = "SOA"   -> {SOARecord(zone)}
                          [] qtype = "A"     -> ARecords(zone, name)
                          [] qtype = "CNAME" -> CNAMERecords(name)
                          [] OTHER           -> {}
         IN  [rcode |-> IF records = {} THEN "NXDOMAIN" ELSE "NOERROR", records |-> records]

-----------------------------------------------------------------------------
(* Properties. *)

(* The addresses published for a name, as the table of records has them;   *)
(* none where Lookup finds a name with an empty list.                      *)
PublishedFor(n) ==
    IF Lookup(n) = <<>> THEN {}
    ELSE UNION {ToSet(recordsMap[k].addresses) : k \in ClosestRecords(CanonicalName(n))}

(* Aliases that lead from a name to another one of the zone, and the names *)
(* they lead to from n in any number of steps: those in every set of names *)
(* with n that no alias leads out of.                                      *)
Aliases(zone) ==
    UNION {{<<m, TargetOf[a]>> :
                a \in {x \in PublishedFor(m) \ IPs :
                          IsSubDomain(zone, TargetOf[x]) /\ ~IsSubDomain(m, TargetOf[x])}} :
           m \in AliasNodes}
Closed(aliases) == {S \in SUBSET AliasNodes : \A e \in aliases : e[1] \in S => e[2] \in S}
Reached(closed, n) == {m \in AliasNodes : \A S \in closed : n \in S => m \in S}

Addressed(answer) == {r.value : r \in {x \in answer.records : x.type = "A"}}

(* An A question is answered with nothing but the addresses published for *)
(* the names that aliases lead to from it, and with all of them unless the *)
(* zone has more aliases than plugin.A follows: entries that form a cycle  *)
(* of aliases, or share a target, neither loop nor hide an address.        *)
AnswersFollowAliases ==
    \A z \in Zones :
        LET aliases == Aliases(z)
            closed == Closed(aliases)
        IN  \A n \in {q \in Questions : MatchingZones(q) # {} /\ ZoneOf(q) = z} :
                LET found == Addressed(ServeDNS(n, "A"))
                    published == UNION {PublishedFor(m) \cap IPs : m \in Reached(closed, n)}
                IN  /\ found \subseteq published
                    /\ Cardinality(aliases) <= MaxAliases => found = published

(* Every answer stays in the zones the plugin was set up for: a question   *)
(* for another zone is not answered, whatever is published, and no alias   *)
(* leads an answer to records of a name outside the question's zone.       *)
AnswersWithinZones ==
    \A n \in Questions, qtype \in QTypes :
        \A r \in ServeDNS(n, qtype).records :
            MatchingZones(n) # {} /\ IsSubDomain(ZoneOf(n), r.owner)
=============================================================================
