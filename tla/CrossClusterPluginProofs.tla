---------------------- MODULE CrossClusterPluginProofs ----------------------
(* Proofs about the answers of the crosscluster plugin: they stay in the   *)
(* question's zone and hold the addresses that aliases lead to.            *)
EXTENDS CrossClusterPlugin, DNSLookupProofs, FiniteSetTheorems

-----------------------------------------------------------------------------
(* Zones. *)

(* Zones are names in normal form. *)
LEMMA ZonesAreNames == Zones \in SUBSET Seq(Labels)
  <1>1. /\ \A i \in DOMAIN Arguments : Arguments[i] \in Seq(Labels)
        /\ \A i \in DOMAIN ServerBlockKeys : ServerBlockKeys[i] \in Seq(Labels)
    BY PluginAssumption DEF ToSet
  <1> QED
    BY <1>1, CanonicalOfName DEF Zones

(* plugin.Zones.Matches returns a zone the name is in, if there is one. *)
LEMMA ZoneMatches ==
    ASSUME NEW n \in Seq(Labels), MatchingZones(n) # {}
    PROVE  ZoneOf(n) \in MatchingZones(n)
  <1> DEFINE Z == MatchingZones(n)
             lengths == {Len(z) : z \in Z}
  <1>1. \A z \in Z : Len(z) \in 0..Len(n)
    BY ZonesAreNames DEF MatchingZones, IsSubDomain
  <1>2. Len(n) \in Nat /\ lengths \in SUBSET (0..Len(n)) /\ lengths # {}
    <2>1. Z # {} /\ Len(n) \in Nat
      OBVIOUS
    <2> HIDE DEF Z
    <2> QED
      BY <1>1, <2>1
  <1>3. Max(lengths) \in lengths /\ \A y \in lengths : y <= Max(lengths)
    <2> HIDE DEF lengths
    <2> QED
      BY <1>2, MaxFacts
  <1>4. \E z \in Z : \A y \in Z : Len(y) <= Len(z)
    <2> HIDE DEF Z
    <2>1. PICK z \in Z : Max(lengths) = Len(z)
      BY <1>3
    <2> QED
      BY <1>3, <2>1
  <1> QED
    BY <1>4 DEF ZoneOf

(* A zone is in itself, which the owner of a SOA record is. *)
LEMMA ZoneInItself ==
    ASSUME NEW z \in Seq(Labels)
    PROVE  IsSubDomain(z, z)
  <1> DEFINE c == CanonicalName(z)
  <1>1. c \in Seq(Labels) /\ Len(c) = Len(z) /\ Len(z) \in Nat
    BY CanonicalOfName
  <1> HIDE DEF c
  <1>2. SubSeq(c, 1, Len(c)) = c
    <2>1. /\ SubSeq(c, 1, Len(c)) \in Seq(Labels) /\ Len(SubSeq(c, 1, Len(c))) = Len(c)
          /\ \A i \in 1..Len(c) : SubSeq(c, 1, Len(c))[i] = c[i]
      BY <1>1
    <2> QED
      BY <1>1, <2>1, SeqEqual
  <1>3. Len(z) - Len(z) + 1 = 1 /\ Len(z) <= Len(z)
    BY <1>1
  <1> QED
    BY <1>1, <1>2, <1>3 DEF IsSubDomain, c

-----------------------------------------------------------------------------
(* plugin.A and the number of aliases it may still follow. *)

(* The function whose values plugin.A returns with up to n aliases left. *)
AnswersUpTo(zone, n, g) ==
    g = [left \in 0..n |->
            IF left = 0 THEN WithoutAliases ELSE WithAliases(zone, g[left - 1])]

(* Its equation, at one number. *)
LEMMA AnswersAt ==
    ASSUME NEW zone, NEW n, NEW g, AnswersUpTo(zone, n, g), NEW left \in 0..n
    PROVE  g[left] = IF left = 0 THEN WithoutAliases ELSE WithAliases(zone, g[left - 1])
  <1> DEFINE h == [k \in 0..n |->
                      IF k = 0 THEN WithoutAliases ELSE WithAliases(zone, g[k - 1])]
  <1>1. h[left] = IF left = 0 THEN WithoutAliases ELSE WithAliases(zone, g[left - 1])
    OBVIOUS
  <1>2. g = h
    BY DEF AnswersUpTo
  <1> QED
    BY <1>1, <1>2

(* There is such a function: recursion on the number of aliases left is    *)
(* sound.                                                                  *)
LEMMA AnswersExist ==
    ASSUME NEW zone, NEW n \in Nat
    PROVE  \E g : AnswersUpTo(zone, n, g)
  <1> DEFINE Bad == {k \in Nat : ~\E g : AnswersUpTo(zone, k, g)}
  <1>1. ASSUME NEW k \in Nat, NEW g, AnswersUpTo(zone, k, g)
        PROVE  \E h : AnswersUpTo(zone, k + 1, h)
    <2> DEFINE h == [i \in 0..(k + 1) |-> IF i <= k THEN g[i] ELSE WithAliases(zone, g[i - 1])]
               step == [i \in 0..(k + 1) |->
                           IF i = 0 THEN WithoutAliases ELSE WithAliases(zone, h[i - 1])]
    <2>1. ASSUME NEW i \in 0..(k + 1) PROVE h[i] = step[i]
      <3>1. step[i] = IF i = 0 THEN WithoutAliases ELSE WithAliases(zone, h[i - 1])
        OBVIOUS
      <3>2. h[i] = IF i <= k THEN g[i] ELSE WithAliases(zone, g[i - 1])
        OBVIOUS
      <3>3. i # 0 => h[i - 1] = g[i - 1]
        <4> HAVE i # 0
        <4>1. i - 1 \in 0..(k + 1) /\ i - 1 <= k
          OBVIOUS
        <4> QED
          BY <4>1
      <3>4. i <= k => g[i] = IF i = 0 THEN WithoutAliases ELSE WithAliases(zone, g[i - 1])
        <4> HAVE i <= k
        <4>1. i \in 0..k
          OBVIOUS
        <4> QED
          BY <1>1, <4>1, AnswersAt
      <3>5. i # 0 \/ i <= k
        OBVIOUS
      <3> HIDE DEF h, step
      <3> QED
        BY <3>1, <3>2, <3>3, <3>4, <3>5
    <2>2. h = step
      BY <2>1
    <2>3. AnswersUpTo(zone, k + 1, h)
      BY <2>2 DEF AnswersUpTo
    <2> QED
      BY <2>3
  <1>2. \E g : AnswersUpTo(zone, 0, g)
    <2> DEFINE g == [i \in 0..0 |-> WithoutAliases]
               step == [i \in 0..0 |->
                           IF i = 0 THEN WithoutAliases ELSE WithAliases(zone, g[i - 1])]
    <2>1. g = step
      OBVIOUS
    <2>2. AnswersUpTo(zone, 0, g)
      BY <2>1 DEF AnswersUpTo
    <2> QED
      BY <2>2
  <1>3. ASSUME Bad # {} PROVE FALSE
    <2> Bad \in SUBSET Nat
      OBVIOUS
    <2> HIDE DEF Bad
    <2>1. PICK k \in Bad : \A j \in Bad : k <= j
      BY <1>3, LeastNatural
    <2> USE DEF Bad
    <2>2. k # 0
      BY <1>2
    <2>3. k - 1 \in Nat /\ (k - 1) + 1 = k /\ ~(k <= k - 1)
      BY <2>2
    <2>4. k - 1 \notin Bad
      BY <2>1, <2>3
    <2>5. PICK g : AnswersUpTo(zone, k - 1, g)
      BY <2>3, <2>4
    <2>6. \E h : AnswersUpTo(zone, k - 1 + 1, h)
      BY <1>1, <2>3, <2>5
    <2> QED
      BY <2>3, <2>6
  <1> QED
    BY <1>3

(* What plugin.A answers is a value of such a function. *)
LEMMA ARecordsUnfolds ==
    ASSUME NEW zone, NEW name
    PROVE  \E g : AnswersUpTo(zone, MaxAliases, g) /\ ARecords(zone, name) = g[MaxAliases][name][{}]
  <1> DEFINE answer[left \in 0..MaxAliases] ==
                 IF left = 0 THEN WithoutAliases ELSE WithAliases(zone, answer[left - 1])
  <1>1. MaxAliases \in Nat
    BY DEF MaxAliases
  <1>2. ARecords(zone, name) = answer[MaxAliases][name][{}]
    BY DEF ARecords
  <1>3. answer = CHOOSE g : AnswersUpTo(zone, MaxAliases, g)
    BY DEF AnswersUpTo, answer
  <1>4. AnswersUpTo(zone, MaxAliases, answer)
    BY <1>1, <1>3, AnswersExist
  <1> QED
    BY <1>2, <1>4

(* The aliases that a call of plugin.A is passed as previous records. *)
Histories == SUBSET AliasRecords

(* What a call gets for the target of alias a. *)
Beyond(g, left, n, previous, a) ==
    g[left - 1][TargetOf[a]][previous \cup {CNAMERecord(n, a)}]

(* What one call of plugin.A returns: the addresses of the name, and if an *)
(* alias is left to follow, what its target has, and the alias with it.    *)
LEMMA AnswerRecords ==
    ASSUME NEW zone, NEW g, AnswersUpTo(zone, MaxAliases, g), NEW left \in 0..MaxAliases,
           NEW n \in AliasNodes, NEW previous \in Histories
    PROVE  /\ AddressRecords(n) \subseteq g[left][n][previous]
           /\ left # 0 =>
                 \A a \in Followed(zone, n, previous) :
                    Beyond(g, left, n, previous, a) \subseteq g[left][n][previous]
           /\ \A r \in g[left][n][previous] :
                 \/ r \in AddressRecords(n)
                 \/ /\ left # 0
                    /\ \E a \in Followed(zone, n, previous) :
                          r = CNAMERecord(n, a) \/ r \in Beyond(g, left, n, previous, a)
  <1> DEFINE found == g[left][n][previous]
             beyond(a) == Beyond(g, left, n, previous, a)
             answers == {<<CNAMERecord(n, a), beyond(a)>> : a \in Followed(zone, n, previous)}
  <1>1. CASE left = 0
    <2>1. g[left] = WithoutAliases
      BY <1>1, AnswersAt
    <2>2. found = AddressRecords(n)
      BY <2>1 DEF WithoutAliases, Histories
    <2> HIDE DEF found
    <2> QED
      BY <1>1, <2>2 DEF found
  <1>2. CASE left # 0
    <2>1. g[left] = WithAliases(zone, g[left - 1])
      BY <1>2, AnswersAt
    <2>2. found = AddressRecords(n)
                    \cup UNION {{x[1]} \cup x[2] : x \in {y \in answers : y[2] # {}}}
      BY <2>1 DEF WithAliases, Histories, Beyond
    <2> HIDE DEF found, beyond
    <2>3. ASSUME NEW a \in Followed(zone, n, previous), NEW r \in beyond(a) PROVE r \in found
      <3> DEFINE x == <<CNAMERecord(n, a), beyond(a)>>
      <3>1. x \in answers /\ x[2] # {} /\ r \in {x[1]} \cup x[2]
        OBVIOUS
      <3> HIDE DEF x, answers
      <3> QED
        BY <2>2, <3>1
    <2>4. ASSUME NEW r \in found, r \notin AddressRecords(n)
          PROVE  \E a \in Followed(zone, n, previous) : r = CNAMERecord(n, a) \/ r \in beyond(a)
      <3>1. PICK x \in answers : r = x[1] \/ r \in x[2]
        BY <2>2, <2>4
      <3> QED
        BY <3>1
    <2> QED
      BY <1>2, <2>2, <2>3, <2>4 DEF found, beyond
  <1> QED
    BY <1>1, <1>2

(* The call it makes for an alias is one of those g is defined for. *)
LEMMA FollowedTarget ==
    ASSUME CacheInv, NEW zone, NEW n \in AliasNodes, NEW previous \in Histories,
           NEW a \in Followed(zone, n, previous)
    PROVE  /\ a \in Addresses \ IPs /\ TargetOf[a] \in AliasNodes
           /\ previous \cup {CNAMERecord(n, a)} \in Histories
  <1>1. n \in Seq(Labels)
    BY PluginAssumption DEF AliasNodes
  <1>2. ToSet(Services(n)) \subseteq Addresses
    BY <1>1, LookupType, AddressesOfFacts DEF Services, ToSet
  <1>3. a \in Addresses \ IPs
    BY <1>2 DEF Followed
  <1> QED
    BY <1>3 DEF AliasNodes, AliasRecords, Histories

-----------------------------------------------------------------------------
(* Answers stay in the zone. *)

(* Wherever plugin.A starts in the zone, the owners of the records it      *)
(* returns are in the zone.                                                *)
LEMMA AnswerInZone ==
    ASSUME CacheInv, NEW zone, NEW g, AnswersUpTo(zone, MaxAliases, g),
           NEW left \in 0..MaxAliases, NEW n \in AliasNodes, IsSubDomain(zone, n),
           NEW previous \in Histories, NEW r \in g[left][n][previous]
    PROVE  IsSubDomain(zone, r.owner)
  <1> DEFINE Within(k) ==
        \A m \in AliasNodes, p \in Histories :
            IsSubDomain(zone, m) => \A x \in g[k][m][p] : IsSubDomain(zone, x.owner)
             Bad == {k \in 0..MaxAliases : ~Within(k)}
  <1>1. ASSUME NEW k \in 0..MaxAliases, k # 0 => Within(k - 1) PROVE Within(k)
    <2> SUFFICES ASSUME NEW m \in AliasNodes, NEW p \in Histories,
                        IsSubDomain(zone, m), NEW x \in g[k][m][p]
                 PROVE  IsSubDomain(zone, x.owner)
      OBVIOUS
    <2>1. CASE x \in AddressRecords(m)
      BY <2>1 DEF AddressRecords, ARecord
    <2>2. CASE x \notin AddressRecords(m)
      <3>1. PICK a \in Followed(zone, m, p) :
               k # 0 /\ (x = CNAMERecord(m, a) \/ x \in Beyond(g, k, m, p, a))
        BY <2>2, AnswerRecords
      <3>2. /\ TargetOf[a] \in AliasNodes /\ p \cup {CNAMERecord(m, a)} \in Histories
            /\ IsSubDomain(zone, TargetOf[a])
        BY FollowedTarget DEF Followed
      <3>3. CASE x = CNAMERecord(m, a)
        BY <3>3 DEF CNAMERecord
      <3> QED
        BY <1>1, <3>1, <3>2, <3>3 DEF Beyond
    <2> QED
      BY <2>1, <2>2
  <1> HIDE DEF Within
  <1>2. Bad = {}
    <2> SUFFICES ASSUME Bad # {} PROVE FALSE
      OBVIOUS
    <2>1. Bad \in SUBSET Nat
      BY DEF MaxAliases
    <2> HIDE DEF Bad
    <2>2. PICK k \in Bad : \A j \in Bad : k <= j
      BY <2>1, LeastNatural
    <2>3. k \in 0..MaxAliases /\ ~Within(k)
      BY DEF Bad
    <2>4. k # 0 => k - 1 \in 0..MaxAliases /\ ~(k <= k - 1)
      BY <2>3 DEF MaxAliases
    <2>5. k # 0 => Within(k - 1)
      BY <2>2, <2>4 DEF Bad
    <2> QED
      BY <1>1, <2>3, <2>5
  <1>3. Within(left)
    BY <1>2
  <1> QED
    BY <1>3 DEF Within

(* Whatever is in the cache, an answer of ServeDNS stays in the zone that  *)
(* Zones.Matches chose for the question: aliases are followed within it    *)
(* only, and a question of no zone gets no records.                        *)
THEOREM AnswersStayInZones == CacheSpec => []AnswersWithinZones
  <1>1. CacheInv => AnswersWithinZones
    <2> SUFFICES ASSUME CacheInv, NEW n \in Questions, NEW qtype \in QTypes,
                        NEW r \in ServeDNS(n, qtype).records
                 PROVE  MatchingZones(n) # {} /\ IsSubDomain(ZoneOf(n), r.owner)
      BY DEF AnswersWithinZones
    <2> DEFINE zone == ZoneOf(n)
    <2>1. MatchingZones(n) # {} /\ n \in Seq(Labels) /\ n \in AliasNodes
      BY PluginAssumption DEF ServeDNS, AliasNodes
    <2>2. zone \in Zones /\ IsSubDomain(zone, n)
      BY <2>1, ZoneMatches DEF MatchingZones
    <2>3. \/ qtype = "SOA" /\ r = SOARecord(zone)
          \/ qtype = "A" /\ r \in ARecords(zone, n)
          \/ qtype = "CNAME" /\ r \in CNAMERecords(n)
      BY <2>1 DEF ServeDNS, QTypes
    <2> SUFFICES IsSubDomain(zone, r.owner)
      BY <2>1
    <2> HIDE DEF zone
    <2>4. CASE r = SOARecord(zone)
      BY <2>2, <2>4, ZonesAreNames, ZoneInItself DEF SOARecord
    <2>5. CASE r \in ARecords(zone, n)
      <3>1. PICK g : AnswersUpTo(zone, MaxAliases, g)
                       /\ ARecords(zone, n) = g[MaxAliases][n][{}]
        BY ARecordsUnfolds
      <3>2. MaxAliases \in 0..MaxAliases /\ {} \in Histories
        BY DEF MaxAliases, Histories
      <3> QED
        BY <2>1, <2>2, <2>5, <3>1, <3>2, AnswerInZone
    <2>6. CASE r \in CNAMERecords(n)
      BY <2>2, <2>6 DEF CNAMERecords, CNAMERecord
    <2> QED
      BY <2>3, <2>4, <2>5, <2>6
  <1> QED
    BY <1>1, CacheInitInv, CacheNextPreserves, PTL DEF CacheSpec

-----------------------------------------------------------------------------
(* Answers hold what aliases lead to. *)

(* Services returns the addresses of the records that are closest to the   *)
(* name, in any order.                                                     *)
LEMMA ServicesPublished ==
    ASSUME CacheInv, NEW n \in Seq(Labels)
    PROVE  ToSet(Services(n)) = PublishedFor(n)
  <1> DEFINE es == Lookup(n)
             keys == {e.ResourceKey : e \in ToSet(es)}
  <1>1. es \in Seq(DNSCacheEntry)
    BY LookupType
  <1>2. ToSet(Services(n)) = UNION {ToSet(e.Addresses) : e \in ToSet(es)}
    BY <1>1, AddressesOfFacts DEF Services
  <1>3. CASE es = <<>>
    <2>1. ToSet(es) = {}
      BY <1>3 DEF ToSet
    <2> HIDE DEF es
    <2> QED
      BY <1>2, <1>3, <2>1 DEF PublishedFor, es
  <1>4. CASE es # <<>>
    <2>1. keys = ClosestRecords(CanonicalName(n))
      BY <1>4, LookupIsClosest
    <2>2. PICK f \in DOMAIN entries : es = entries[f]
      <3>1. LookupRounds(CanonicalName(n)) # {}
        BY <1>4 DEF Lookup
      <3> QED
        BY <3>1, LookupFound
    <2>3. ASSUME NEW e \in ToSet(es)
          PROVE  /\ e.ResourceKey \in DOMAIN resourceKeyToFQDN
                 /\ recordsMap[e.ResourceKey].addresses = e.Addresses
      <3>1. /\ e.ResourceKey \in DOMAIN resourceKeyToFQDN
            /\ LookupByResourceKey(e.ResourceKey) = e
        BY <2>2, LookupFindsEntry DEF CacheInv, IndexConsistent, EntriesIndexed
      <3> QED
        BY <3>1 DEF recordsMap
    <2>4. PublishedFor(n) = UNION {ToSet(recordsMap[k].addresses) : k \in keys}
      BY <1>4, <2>1 DEF PublishedFor
    <2> HIDE DEF es
    <2>5. {ToSet(recordsMap[k].addresses) : k \in keys} = {ToSet(e.Addresses) : e \in ToSet(es)}
      BY <2>3
    <2> QED
      BY <1>2, <2>4, <2>5
  <1> QED
    BY <1>3, <1>4

(* The names that aliases lead to from n are a set no alias leads out of. *)
LEMMA ReachedIsClosed ==
    ASSUME NEW aliases \in SUBSET (AliasNodes \X AliasNodes), NEW n \in AliasNodes
    PROVE  /\ n \in Reached(Closed(aliases), n)
           /\ Reached(Closed(aliases), n) \subseteq AliasNodes
           /\ \A m, t : <<m, t>> \in aliases /\ m \in Reached(Closed(aliases), n)
                           => t \in Reached(Closed(aliases), n)
  <1>1. ASSUME NEW m, NEW t, <<m, t>> \in aliases, m \in Reached(Closed(aliases), n)
        PROVE  t \in Reached(Closed(aliases), n)
    <2>1. t \in AliasNodes
      BY <1>1
    <2>2. ASSUME NEW S \in Closed(aliases), n \in S PROVE t \in S
      <3>1. m \in S
        BY <1>1, <2>2 DEF Reached
      <3>2. \A e \in aliases : e[1] \in S => e[2] \in S
        BY DEF Closed
      <3>3. <<m, t>>[1] = m /\ <<m, t>>[2] = t
        OBVIOUS
      <3> QED
        BY <1>1, <3>1, <3>2, <3>3
    <2> QED
      BY <2>1, <2>2 DEF Reached
  <1> QED
    BY <1>1 DEF Reached

(* The pairs of Aliases are those of a name and the target of an alias     *)
(* that plugin.A follows when it has not done so before.                   *)
LEMMA AliasesAreFollowed ==
    ASSUME CacheInv, NEW zone
    PROVE  /\ Aliases(zone) \in SUBSET (AliasNodes \X AliasNodes)
           /\ \A n \in AliasNodes, p \in Histories : \A a \in Followed(zone, n, p) :
                 <<n, TargetOf[a]>> \in Aliases(zone)
           /\ \A e \in Aliases(zone) : \A p \in Histories :
                 \E a \in Addresses \ IPs :
                    /\ e = <<e[1], TargetOf[a]>> /\ e[1] \in AliasNodes
                    /\ a \in Followed(zone, e[1], p) \/ CNAMERecord(e[1], a) \in p
  <1>1. ASSUME NEW m \in AliasNodes
        PROVE  /\ ToSet(Services(m)) = PublishedFor(m) /\ ToSet(Services(m)) \subseteq Addresses
    <2>1. m \in Seq(Labels)
      BY PluginAssumption DEF AliasNodes
    <2> QED
      BY <2>1, ServicesPublished, LookupType, AddressesOfFacts DEF Services, ToSet
  <1>2. ASSUME NEW e \in Aliases(zone)
        PROVE  \E m \in AliasNodes : \E a \in PublishedFor(m) \ IPs :
                  /\ e = <<m, TargetOf[a]>>
                  /\ IsSubDomain(zone, TargetOf[a]) /\ ~IsSubDomain(m, TargetOf[a])
    BY DEF Aliases
  <1>3. ASSUME NEW e \in Aliases(zone) PROVE e \in AliasNodes \X AliasNodes
    <2>0. PICK m \in AliasNodes : \E a \in PublishedFor(m) \ IPs : e = <<m, TargetOf[a]>>
      BY <1>2
    <2>1. PICK a \in PublishedFor(m) \ IPs : e = <<m, TargetOf[a]>>
      BY <2>0
    <2>2. a \in Addresses \ IPs
      BY <1>1
    <2>3. TargetOf[a] \in AliasNodes
      BY <2>2 DEF AliasNodes
    <2> QED
      BY <2>1, <2>3
  <1>4. ASSUME NEW n \in AliasNodes, NEW p \in Histories, NEW a \in Followed(zone, n, p)
        PROVE  <<n, TargetOf[a]>> \in Aliases(zone)
    <2>1. /\ a \in PublishedFor(n) \ IPs
          /\ IsSubDomain(zone, TargetOf[a]) /\ ~IsSubDomain(n, TargetOf[a])
      BY <1>1 DEF Followed
    <2> QED
      BY <2>1 DEF Aliases
  <1>5. ASSUME NEW e \in Aliases(zone), NEW p \in Histories
        PROVE  \E a \in Addresses \ IPs :
                  /\ e = <<e[1], TargetOf[a]>> /\ e[1] \in AliasNodes
                  /\ a \in Followed(zone, e[1], p) \/ CNAMERecord(e[1], a) \in p
    <2>0. PICK m \in AliasNodes : \E a \in PublishedFor(m) \ IPs :
             /\ e = <<m, TargetOf[a]>>
             /\ IsSubDomain(zone, TargetOf[a]) /\ ~IsSubDomain(m, TargetOf[a])
      BY <1>2
    <2>1. PICK a \in PublishedFor(m) \ IPs :
             /\ e = <<m, TargetOf[a]>>
             /\ IsSubDomain(zone, TargetOf[a]) /\ ~IsSubDomain(m, TargetOf[a])
      BY <2>0
    <2>2. e[1] = m
      BY <2>1
    <2>3. a \in Addresses \ IPs /\ a \in ToSet(Services(m)) \ IPs
      BY <1>1
    <2>4. a \in Followed(zone, m, p) \/ CNAMERecord(m, a) \in p
      BY <2>1, <2>3 DEF Followed
    <2> QED
      BY <2>1, <2>2, <2>3, <2>4
  <1> QED
    BY <1>3, <1>4, <1>5

(* An address in the answer of plugin.A is published for a name of any set *)
(* of names that holds the one asked for and that no alias leads out of.   *)
LEMMA AnswerIsPublished ==
    ASSUME CacheInv, NEW zone, NEW g, AnswersUpTo(zone, MaxAliases, g),
           NEW S \in SUBSET AliasNodes,
           \A m, t : <<m, t>> \in Aliases(zone) /\ m \in S => t \in S,
           NEW left \in 0..MaxAliases, NEW n \in S, NEW previous \in Histories,
           NEW r \in g[left][n][previous], r.type = "A"
    PROVE  \E m \in S : r.value \in PublishedFor(m) \cap IPs
  <1> DEFINE Good(x) == x.type = "A" => \E m \in S : x.value \in PublishedFor(m) \cap IPs
             Sound(k) == \A m \in S, p \in Histories : \A x \in g[k][m][p] : Good(x)
             Bad == {k \in 0..MaxAliases : ~Sound(k)}
  <1>1. ASSUME NEW k \in 0..MaxAliases, k # 0 => Sound(k - 1) PROVE Sound(k)
    <2> SUFFICES ASSUME NEW m \in S, NEW p \in Histories, NEW x \in g[k][m][p]
                 PROVE  Good(x)
      BY DEF Sound
    <2>0. m \in AliasNodes /\ m \in Seq(Labels)
      BY PluginAssumption DEF AliasNodes
    <2>1. CASE x \in AddressRecords(m)
      <3>1. x.value \in ToSet(Services(m)) \cap IPs
        BY <2>1 DEF AddressRecords, ARecord
      <3> QED
        BY <2>0, <3>1, ServicesPublished
    <2>2. CASE x \notin AddressRecords(m)
      <3>1. PICK a \in Followed(zone, m, p) :
               k # 0 /\ (x = CNAMERecord(m, a) \/ x \in Beyond(g, k, m, p, a))
        BY <2>0, <2>2, AnswerRecords
      <3>2. /\ TargetOf[a] \in AliasNodes /\ p \cup {CNAMERecord(m, a)} \in Histories
            /\ <<m, TargetOf[a]>> \in Aliases(zone)
        BY <2>0, FollowedTarget, AliasesAreFollowed
      <3>3. TargetOf[a] \in S
        BY <3>2
      <3>4. CASE x = CNAMERecord(m, a)
        BY <3>4 DEF CNAMERecord
      <3>5. CASE x \in Beyond(g, k, m, p, a)
        <4> HIDE DEF Good
        <4> QED
          BY <1>1, <3>1, <3>2, <3>3, <3>5 DEF Beyond
      <3> QED
        BY <3>1, <3>4, <3>5
    <2> QED
      BY <2>1, <2>2
  <1> HIDE DEF Sound
  <1>2. Bad = {}
    <2> SUFFICES ASSUME Bad # {} PROVE FALSE
      OBVIOUS
    <2>1. Bad \in SUBSET Nat
      BY DEF MaxAliases
    <2> HIDE DEF Bad
    <2>2. PICK k \in Bad : \A j \in Bad : k <= j
      BY <2>1, LeastNatural
    <2>3. k \in 0..MaxAliases /\ ~Sound(k)
      BY DEF Bad
    <2>4. k # 0 => k - 1 \in 0..MaxAliases /\ ~(k <= k - 1)
      BY <2>3 DEF MaxAliases
    <2>5. k # 0 => Sound(k - 1)
      BY <2>2, <2>4 DEF Bad
    <2> QED
      BY <1>1, <2>3, <2>5
  <1>3. Sound(left)
    BY <1>2
  <1> QED
    BY <1>3 DEF Sound

(* The calls of plugin.A, by name and previous records, that a call for n  *)
(* leads to when it follows aliases without a limit.                       *)
Calls == AliasNodes \X Histories
NextCall(m, p, a) == <<TargetOf[a], p \cup {CNAMERecord(m, a)}>>
FollowsAll(zone, P) ==
    \A m \in AliasNodes, p \in Histories :
        <<m, p>> \in P => \A a \in Followed(zone, m, p) : NextCall(m, p, a) \in P
CallsFrom(zone, n) ==
    {c \in Calls : \A P \in SUBSET Calls : <<n, {}>> \in P /\ FollowsAll(zone, P) => c \in P}

(* They start with the call for n and follow all aliases ... *)
LEMMA CallsFollow ==
    ASSUME CacheInv, NEW zone, NEW n \in AliasNodes
    PROVE  <<n, {}>> \in CallsFrom(zone, n) /\ FollowsAll(zone, CallsFrom(zone, n))
  <1>1. <<n, {}>> \in CallsFrom(zone, n)
    BY DEF CallsFrom, Calls, Histories
  <1>2. ASSUME NEW m \in AliasNodes, NEW p \in Histories, <<m, p>> \in CallsFrom(zone, n),
               NEW a \in Followed(zone, m, p)
        PROVE  NextCall(m, p, a) \in CallsFrom(zone, n)
    <2>1. NextCall(m, p, a) \in Calls
      BY FollowedTarget DEF Calls, NextCall
    <2>2. ASSUME NEW P \in SUBSET Calls, <<n, {}>> \in P, FollowsAll(zone, P)
          PROVE  NextCall(m, p, a) \in P
      <3>1. <<m, p>> \in P
        BY <1>2, <2>2 DEF CallsFrom
      <3> QED
        BY <2>2, <3>1 DEF FollowsAll
    <2> QED
      BY <2>1, <2>2 DEF CallsFrom
  <1> QED
    BY <1>1, <1>2 DEF FollowsAll

(* ... and nothing else: what holds of the call for n and is passed on to  *)
(* the calls it makes holds of all of them.                                *)
LEMMA CallsInduction ==
    ASSUME CacheInv, NEW zone, NEW n \in AliasNodes, NEW P \in SUBSET Calls, <<n, {}>> \in P,
           \A m \in AliasNodes, p \in Histories :
              <<m, p>> \in P /\ <<m, p>> \in CallsFrom(zone, n)
                 => \A a \in Followed(zone, m, p) : NextCall(m, p, a) \in P
    PROVE  CallsFrom(zone, n) \subseteq P
  <1> DEFINE Q == P \cap CallsFrom(zone, n)
  <1>1. <<n, {}>> \in Q /\ Q \in SUBSET Calls
    BY CallsFollow
  <1>2. FollowsAll(zone, Q)
    BY CallsFollow DEF FollowsAll
  <1>3. ASSUME NEW c \in CallsFrom(zone, n) PROVE c \in Q
    <2> HIDE DEF Q
    <2> QED
      BY <1>1, <1>2 DEF CallsFrom
  <1> QED
    BY <1>3

(* Names and addresses are finitely many, and so are the aliases. *)
LEMMA AliasesFinite ==
    ASSUME CacheInv, NEW zone
    PROVE  IsFiniteSet(Aliases(zone)) /\ Cardinality(Aliases(zone)) \in Nat
  <1> DEFINE T == {TargetOf[a] : a \in Addresses \ IPs}
  <1>1. IsFiniteSet(Addresses \ IPs)
    <2>1. Addresses \ IPs \in SUBSET Addresses
      OBVIOUS
    <2> QED
      BY <2>1, PluginAssumption, FS_Subset
  <1>2. TargetOf \in Surjection(Addresses \ IPs, T)
    BY PluginAssumption DEF Surjection
  <1>3. IsFiniteSet(T)
    BY <1>1, <1>2, FS_Surjection
  <1>4. IsFiniteSet(AliasNodes)
    <2> HIDE DEF T
    <2>1. IsFiniteSet(Questions \cup T)
      BY <1>3, PluginAssumption, FS_Union
    <2> QED
      BY <2>1 DEF AliasNodes, T
  <1>5. IsFiniteSet(AliasNodes \X AliasNodes)
    BY <1>4, FS_Product
  <1>6. Aliases(zone) \in SUBSET (AliasNodes \X AliasNodes)
    BY AliasesAreFollowed
  <1> QED
    BY <1>5, <1>6, FS_Subset, FS_CardinalityType

(* Previous records that are aliases of the zone are no more than those. *)
LEMMA HistoryFits ==
    ASSUME NEW aliases, IsFiniteSet(aliases), NEW p \in Histories,
           \A r \in p : <<r.owner, r.value>> \in aliases
    PROVE  IsFiniteSet(p) /\ Cardinality(p) <= Cardinality(aliases)
  <1> DEFINE f == [r \in p |-> <<r.owner, r.value>>]
  <1>1. \A r \in p : r = [owner |-> r.owner, type |-> "CNAME", value |-> r.value]
    BY DEF Histories, AliasRecords, CNAMERecord
  <1>2. ASSUME NEW r \in p, NEW q \in p, f[r] = f[q] PROVE r = q
    <2>1. r.owner = q.owner /\ r.value = q.value
      BY <1>2
    <2> QED
      BY <1>1, <2>1
  <1>3. f \in Injection(p, aliases)
    BY <1>2 DEF Injection, IsInjective
  <1> QED
    BY <1>3, FS_Injection

(* Every call that a call for n leads to has at most as many previous      *)
(* records as the zone has aliases, and if that is within the limit, what  *)
(* it returns is in the answer.                                            *)
LEMMA CallsAreAnswered ==
    ASSUME CacheInv, NEW zone, NEW g, AnswersUpTo(zone, MaxAliases, g), NEW n \in AliasNodes,
           Cardinality(Aliases(zone)) <= MaxAliases,
           NEW m \in AliasNodes, NEW p \in Histories, <<m, p>> \in CallsFrom(zone, n)
    PROVE  AddressRecords(m) \subseteq g[MaxAliases][n][{}]
  <1> DEFINE answer == g[MaxAliases][n][{}]
             InZone(q) == \A r \in q : <<r.owner, r.value>> \in Aliases(zone)
             Answered(x, q) ==
                 /\ InZone(q) /\ IsFiniteSet(q) /\ Cardinality(q) <= MaxAliases
                 /\ g[MaxAliases - Cardinality(q)][x][q] \subseteq answer
             P == {c \in Calls : Answered(c[1], c[2])}
  <1>0. MaxAliases \in Nat /\ Cardinality(Aliases(zone)) \in Nat /\ IsFiniteSet(Aliases(zone))
    BY AliasesFinite DEF MaxAliases
  <1>1. Answered(n, {}) /\ <<n, {}>> \in P
    <2>1. IsFiniteSet({}) /\ Cardinality({}) = 0
      BY FS_EmptySet
    <2>2. MaxAliases - 0 = MaxAliases /\ 0 <= MaxAliases
      BY <1>0
    <2>3. Answered(n, {})
      BY <2>1, <2>2
    <2>4. <<n, {}>> \in Calls
      BY DEF Calls, Histories
    <2> HIDE DEF Answered
    <2> QED
      BY <2>3, <2>4
  <1>2. ASSUME NEW x \in AliasNodes, NEW q \in Histories, Answered(x, q),
               NEW a \in Followed(zone, x, q)
        PROVE  Answered(TargetOf[a], q \cup {CNAMERecord(x, a)})
    <2> DEFINE c == CNAMERecord(x, a)
               longer == q \cup {c}
    <2>1. c \notin q /\ c.owner = x /\ c.value = TargetOf[a]
      BY DEF Followed, CNAMERecord
    <2>2. longer \in Histories /\ TargetOf[a] \in AliasNodes
      BY FollowedTarget
    <2>3. <<x, TargetOf[a]>> \in Aliases(zone)
      BY AliasesAreFollowed
    <2>4. InZone(longer)
      BY <1>2, <2>1, <2>3
    <2>5. IsFiniteSet(longer) /\ Cardinality(longer) = Cardinality(q) + 1
      <3> HIDE DEF c
      <3> QED
        BY <1>2, <2>1, FS_AddElement
    <2>6. Cardinality(q) \in Nat /\ Cardinality(q) <= MaxAliases
      BY <1>2, FS_CardinalityType
    <2>7. Cardinality(longer) <= MaxAliases
      <3>1. Cardinality(longer) <= Cardinality(Aliases(zone))
        <4> HIDE DEF longer
        <4> QED
          BY <1>0, <2>2, <2>4, HistoryFits
      <3> QED
        BY <1>0, <2>5, <2>6, <3>1
    <2> DEFINE left == MaxAliases - Cardinality(q)
    <2>8. /\ left \in 0..MaxAliases /\ left # 0
          /\ left - 1 = MaxAliases - Cardinality(longer)
      BY <1>0, <2>5, <2>6, <2>7
    <2> HIDE DEF left
    <2>9. Beyond(g, left, x, q, a) \subseteq g[left][x][q]
      BY <2>8, AnswerRecords
    <2>10. Beyond(g, left, x, q, a) = g[left - 1][TargetOf[a]][longer]
      BY DEF Beyond
    <2>11. g[left][x][q] \subseteq answer
      BY <1>2 DEF left
    <2>12. g[MaxAliases - Cardinality(longer)][TargetOf[a]][longer] \subseteq answer
      BY <2>8, <2>9, <2>10, <2>11
    <2> QED
      BY <2>4, <2>5, <2>7, <2>12
  <1> HIDE DEF Answered
  <1>3. ASSUME NEW x \in AliasNodes, NEW q \in Histories, <<x, q>> \in P,
               NEW a \in Followed(zone, x, q)
        PROVE  NextCall(x, q, a) \in P
    <2>1. Answered(x, q)
      BY <1>3
    <2>2. Answered(TargetOf[a], q \cup {CNAMERecord(x, a)})
      BY <1>2, <2>1
    <2>3. TargetOf[a] \in AliasNodes /\ q \cup {CNAMERecord(x, a)} \in Histories
      BY FollowedTarget
    <2> QED
      BY <2>2, <2>3 DEF NextCall, Calls
  <1>4. CallsFrom(zone, n) \subseteq P
    <2>1. P \in SUBSET Calls
      OBVIOUS
    <2> HIDE DEF P
    <2> QED
      BY <1>1, <1>3, <2>1, CallsInduction
  <1>5. Answered(m, p)
    BY <1>4
  <1> DEFINE left == MaxAliases - Cardinality(p)
  <1>6. left \in 0..MaxAliases /\ g[left][m][p] \subseteq answer
    <2>1. IsFiniteSet(p) /\ Cardinality(p) <= MaxAliases /\ g[left][m][p] \subseteq answer
      BY <1>5 DEF Answered
    <2> QED
      BY <1>0, <2>1, FS_CardinalityType
  <1> HIDE DEF left
  <1>7. AddressRecords(m) \subseteq g[left][m][p]
    BY <1>6, AnswerRecords
  <1> QED
    BY <1>6, <1>7

(* The target of a previous record of a call has been called before. *)
LEMMA HistoryWasCalled ==
    ASSUME CacheInv, NEW zone, NEW n \in AliasNodes,
           NEW m \in AliasNodes, NEW p \in Histories, <<m, p>> \in CallsFrom(zone, n),
           NEW r \in p
    PROVE  \E q \in Histories : <<r.value, q>> \in CallsFrom(zone, n)
  <1> DEFINE Called(x) == \E q \in Histories : <<x, q>> \in CallsFrom(zone, n)
             P == {c \in Calls : \A x \in c[2] : Called(x.value)}
  <1>1. <<n, {}>> \in P /\ P \in SUBSET Calls
    BY DEF Calls, Histories
  <1>2. ASSUME NEW x \in AliasNodes, NEW q \in Histories, <<x, q>> \in P,
               <<x, q>> \in CallsFrom(zone, n), NEW a \in Followed(zone, x, q)
        PROVE  NextCall(x, q, a) \in P
    <2> DEFINE c == CNAMERecord(x, a)
               longer == q \cup {c}
    <2>1. TargetOf[a] \in AliasNodes /\ longer \in Histories
      BY FollowedTarget
    <2>2. <<TargetOf[a], longer>> \in CallsFrom(zone, n)
      BY <1>2, CallsFollow DEF FollowsAll, NextCall
    <2>3. Called(c.value)
      BY <2>1, <2>2 DEF CNAMERecord
    <2>4. \A y \in q : Called(y.value)
      BY <1>2
    <2> HIDE DEF Called, c
    <2>5. \A y \in longer : Called(y.value)
      BY <2>3, <2>4
    <2>6. <<TargetOf[a], longer>> \in P
      BY <2>1, <2>5 DEF Calls
    <2> QED
      BY <2>6 DEF NextCall, c
  <1>3. CallsFrom(zone, n) \subseteq P
    <2> HIDE DEF P
    <2> QED
      BY <1>1, <1>2, CallsInduction
  <1> QED
    BY <1>3

(* Whatever aliases lead to from n has been called: an alias that is not   *)
(* followed because it is a previous record was followed before.           *)
LEMMA ReachedIsCalled ==
    ASSUME CacheInv, NEW zone, NEW n \in AliasNodes,
           NEW m \in Reached(Closed(Aliases(zone)), n)
    PROVE  \E p \in Histories : <<m, p>> \in CallsFrom(zone, n)
  <1> DEFINE S == {x \in AliasNodes : \E p \in Histories : <<x, p>> \in CallsFrom(zone, n)}
  <1>1. n \in S
    BY CallsFollow DEF Histories
  <1>2. ASSUME NEW e \in Aliases(zone), e[1] \in S PROVE e[2] \in S
    <2>1. PICK p \in Histories : <<e[1], p>> \in CallsFrom(zone, n)
      BY <1>2
    <2>2. PICK a \in Addresses \ IPs :
             /\ e = <<e[1], TargetOf[a]>> /\ e[1] \in AliasNodes
             /\ a \in Followed(zone, e[1], p) \/ CNAMERecord(e[1], a) \in p
      BY AliasesAreFollowed
    <2>3. e[2] = TargetOf[a] /\ TargetOf[a] \in AliasNodes
      BY <2>2 DEF AliasNodes
    <2>4. CASE a \in Followed(zone, e[1], p)
      <3>1. NextCall(e[1], p, a) \in CallsFrom(zone, n)
        BY <2>1, <2>2, <2>4, CallsFollow DEF FollowsAll
      <3>2. p \cup {CNAMERecord(e[1], a)} \in Histories
        BY <2>2, <2>4, FollowedTarget
      <3> QED
        BY <2>3, <3>1, <3>2 DEF NextCall
    <2>5. CASE CNAMERecord(e[1], a) \in p
      <3>1. CNAMERecord(e[1], a).value = TargetOf[a]
        BY DEF CNAMERecord
      <3>2. \E q \in Histories : <<CNAMERecord(e[1], a).value, q>> \in CallsFrom(zone, n)
        BY <2>1, <2>2, <2>5, HistoryWasCalled
      <3> QED
        BY <2>3, <3>1, <3>2
    <2> QED
      BY <2>2, <2>4, <2>5
  <1>3. S \in Closed(Aliases(zone))
    <2>1. S \in SUBSET AliasNodes
      OBVIOUS
    <2> HIDE DEF S
    <2> QED
      BY <1>2, <2>1 DEF Closed
  <1>4. m \in S
    <2> HIDE DEF S
    <2> QED
      BY <1>1, <1>3 DEF Reached
  <1> QED
    BY <1>4

(* However records are published and withdrawn, ServeDNS answers an A      *)
(* question with nothing but addresses that aliases lead to, and with all  *)
(* of them, in whatever cycles, as long as the zone has no more aliases    *)
(* than CoreDNS follows.                                                   *)
THEOREM AnswersAreWhatAliasesLeadTo == CacheSpec => []AnswersFollowAliases
  <1>1. CacheInv => AnswersFollowAliases
    <2> SUFFICES ASSUME CacheInv, NEW z \in Zones,
                        NEW n \in {q \in Questions : MatchingZones(q) # {} /\ ZoneOf(q) = z}
                 PROVE  LET found == Addressed(ServeDNS(n, "A"))
                            published == UNION {PublishedFor(m) \cap IPs :
                                                   m \in Reached(Closed(Aliases(z)), n)}
                        IN  /\ found \subseteq published
                            /\ Cardinality(Aliases(z)) <= MaxAliases => found = published
      BY DEF AnswersFollowAliases
    <2> DEFINE found == Addressed(ServeDNS(n, "A"))
               R == Reached(Closed(Aliases(z)), n)
               published == UNION {PublishedFor(m) \cap IPs : m \in R}
    <2>1. n \in AliasNodes /\ MatchingZones(n) # {} /\ ZoneOf(n) = z
      BY DEF AliasNodes
    <2>2. ServeDNS(n, "A").records = ARecords(z, n)
      BY <2>1 DEF ServeDNS
    <2>3. PICK g : AnswersUpTo(z, MaxAliases, g) /\ ARecords(z, n) = g[MaxAliases][n][{}]
      BY ARecordsUnfolds
    <2>4. MaxAliases \in 0..MaxAliases /\ {} \in Histories
      BY DEF MaxAliases, Histories
    <2>5. n \in R /\ R \subseteq AliasNodes /\ \A m, t : <<m, t>> \in Aliases(z) /\ m \in R => t \in R
      BY <2>1, AliasesAreFollowed, ReachedIsClosed
    <2>6. found = {r.value : r \in {x \in g[MaxAliases][n][{}] : x.type = "A"}}
      BY <2>2, <2>3 DEF Addressed
    <2> HIDE DEF found, R
    <2>7. ASSUME NEW v \in found PROVE v \in published
      <3>1. PICK r \in g[MaxAliases][n][{}] : r.type = "A" /\ v = r.value
        BY <2>6
      <3>2. \E m \in R : r.value \in PublishedFor(m) \cap IPs
        BY <2>3, <2>4, <2>5, <3>1, AnswerIsPublished
      <3> QED
        BY <3>1, <3>2
    <2>8. ASSUME Cardinality(Aliases(z)) <= MaxAliases, NEW v \in published
          PROVE  v \in found
      <3>1. PICK m \in R : v \in PublishedFor(m) \cap IPs
        OBVIOUS
      <3>2. m \in AliasNodes /\ m \in Seq(Labels)
        BY <2>5, PluginAssumption DEF AliasNodes
      <3>3. ARecord(m, v) \in AddressRecords(m)
        BY <3>1, <3>2, ServicesPublished DEF AddressRecords
      <3>4. PICK p \in Histories : <<m, p>> \in CallsFrom(z, n)
        BY <2>1, ReachedIsCalled DEF R
      <3>5. AddressRecords(m) \subseteq g[MaxAliases][n][{}]
        BY <2>1, <2>3, <2>8, <3>2, <3>4, CallsAreAnswered
      <3>6. ARecord(m, v).type = "A" /\ ARecord(m, v).value = v
        BY DEF ARecord
      <3> QED
        BY <2>6, <3>3, <3>5, <3>6
    <2> HIDE DEF published
    <2> QED
      BY <2>7, <2>8 DEF found, published, R
  <1> QED
    BY <1>1, CacheInitInv, CacheNextPreserves, PTL DEF CacheSpec
=============================================================================
