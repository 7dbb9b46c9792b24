------------------------------ MODULE DNSCache ------------------------------
(***************************************************************************)
(* pkg/controllers/endpointslicedns/cache.go: the records cache of the     *)
(* dns-server.  Each exported method that takes the write lock is one      *)
(* action; the methods that take the read lock are operators on the state. *)
(* The two maps are partial functions; a nil map reads as an empty one.    *)
(*                                                                         *)
(* A domain name is the sequence of its labels, most specific first, as it *)
(* is written; dns.CanonicalName lower-cases every label.  The trailing    *)
(* dot is implied by the representation.                                   *)
(***************************************************************************)
EXTENDS Naturals, Sequences, SequencesExt

CONSTANTS
    ResourceKeys,       \* "namespace/name" of EndpointSlices
    Labels,             \* labels of domain names, as written
    LowerCase,          \* LowerCase[l] is label l in lower case
    Wildcard,           \* the label "*"
    Names,              \* the domain names in use, as written
    Addresses,          \* address strings, as written
    AddressLists,       \* the address lists of the EndpointSlices in use
    IPs,                \* the addresses net.ParseIP accepts
    CanonicalAddress    \* dns.CanonicalName of an address that is no IP

VARIABLES
    entries,            \* canonical name |-> sequence of cache entries
    resourceKeyToFQDN   \* resource key |-> canonical name

cacheVars == <<entries, resourceKeyToFQDN>>

(* miekg/dns: CanonicalName lower-cases the name. *)
CanonicalName(name) == [i \in DOMAIN name |-> LowerCase[name[i]]]

ASSUME NamesAssumption ==
    /\ LowerCase \in [Labels -> Labels]
    /\ \A l \in Labels : LowerCase[LowerCase[l]] = LowerCase[l]
    /\ Wildcard \in Labels /\ LowerCase[Wildcard] = Wildcard
    /\ Names \subseteq Seq(Labels) \ {<<>>}
    /\ \A n \in Names : CanonicalName(n) \in Names

ASSUME AddressesAssumption ==
    /\ IPs \subseteq Addresses
    /\ AddressLists \subseteq Seq(Addresses)
    /\ CanonicalAddress \in [Addresses -> Addresses]
    /\ \A a \in Addresses : CanonicalAddress[CanonicalAddress[a]] = CanonicalAddress[a]

(* The names cache keys can be. *)
CanonicalNames == {CanonicalName(n) : n \in Names}

(* DNSCacheEntry, and the ones callers pass to Upsert. *)
DNSCacheEntry ==
    [ResourceKey : ResourceKeys, FQDN : Names, Addresses : Seq(Addresses)]
Upserts ==
    [ResourceKey : ResourceKeys, FQDN : Names, Addresses : AddressLists]

CacheInit ==
    /\ entries = [n \in {} |-> <<>>]
    /\ resourceKeyToFQDN = [k \in {} |-> <<>>]

-----------------------------------------------------------------------------
(* Sequences of cache entries, searched by resource key from the front. *)

HasKey(es, k) == \E i \in DOMAIN es : es[i].ResourceKey = k

DistinctKeys(es) ==
    \A i, j \in DOMAIN es : es[i].ResourceKey = es[j].ResourceKey => i = j

FirstIndex(es, k) ==
    CHOOSE i \in DOMAIN es :
        /\ es[i].ResourceKey = k
        /\ \A j \in 1..(i - 1) : es[j].ResourceKey # k

(* append(es[:i], es[i+1:]...) at the first entry of the key, then break. *)
RemoveKey(es, k) == IF HasKey(es, k) THEN RemoveAt(es, FirstIndex(es, k)) ELSE es

(* Overwrite the key's entry in place, or append it. *)
PutEntry(es, e) ==
    IF HasKey(es, e.ResourceKey)
    THEN [es EXCEPT ![FirstIndex(es, e.ResourceKey)] = e]
    ELSE Append(es, e)

(* Go's map read: a missing name has no entries. *)
EntriesOf(f) == IF f \in DOMAIN entries THEN entries[f] ELSE <<>>

(* The entry as Upsert stores it: addresses that are no IPs are made       *)
(* canonical, and so is the name, but only inside the loop over addresses. *)
StoredAddresses(as) ==
    [i \in DOMAIN as |-> IF as[i] \in IPs THEN as[i] ELSE CanonicalAddress[as[i]]]
StoredEntry(entry) ==
    [ResourceKey |-> entry.ResourceKey,
     FQDN |-> IF entry.Addresses = <<>> THEN entry.FQDN ELSE CanonicalName(entry.FQDN),
     Addresses |-> StoredAddresses(entry.Addresses)]

-----------------------------------------------------------------------------
(* The write operations. *)

(* Mutant: Upsert forgets that the key may be listed under another name. *)
EntriesAfterMoveKept(k, fqdn) == entries

(* The maps after the entry of k has left its previous name: the name goes *)
(* when its last entry does.                                               *)
EntriesAfterMove(k, fqdn) ==
    IF k \in DOMAIN resourceKeyToFQDN /\ resourceKeyToFQDN[k] # fqdn
    THEN LET old == resourceKeyToFQDN[k]
             rest == RemoveKey(EntriesOf(old), k)
         IN  IF rest = <<>>
             THEN [f \in DOMAIN entries \ {old} |-> entries[f]]
             ELSE [entries EXCEPT ![old] = rest]
    ELSE entries

(* Mutant: Upsert files the entry under its name as written. *)
UpsertAsWritten(entry) ==
    LET k == entry.ResourceKey
    IN  /\ entries' = [f \in DOMAIN EntriesAfterMove(k, entry.FQDN) \cup {entry.FQDN} |->
                          IF f = entry.FQDN
                          THEN PutEntry(EntriesOf(f), StoredEntry(entry))
                          ELSE EntriesAfterMove(k, entry.FQDN)[f]]
        /\ resourceKeyToFQDN' = [x \in DOMAIN resourceKeyToFQDN \cup {k} |->
                                    IF x = k THEN entry.FQDN ELSE resourceKeyToFQDN[x]]

Upsert(entry) ==
    LET fqdn == CanonicalName(entry.FQDN)
        k    == entry.ResourceKey
        base == EntriesAfterMove(k, fqdn)
    IN  /\ entries' = [f \in DOMAIN base \cup {fqdn} |->
                          IF f = fqdn
                          THEN PutEntry(EntriesOf(fqdn), StoredEntry(entry))
                          ELSE base[f]]
        /\ resourceKeyToFQDN' = [x \in DOMAIN resourceKeyToFQDN \cup {k} |->
                                    IF x = k THEN fqdn ELSE resourceKeyToFQDN[x]]

Delete(name) ==
    LET fqdn == CanonicalName(name)
        gone == {e.ResourceKey : e \in ToSet(EntriesOf(fqdn))}
    IN  /\ entries' = [f \in DOMAIN entries \ {fqdn} |-> entries[f]]
        /\ resourceKeyToFQDN' = [x \in DOMAIN resourceKeyToFQDN \ gone |->
                                    resourceKeyToFQDN[x]]

(* Mutant: the whole name goes with the key. *)
DeleteByResourceKeyWholeName(k) ==
    IF k \in DOMAIN resourceKeyToFQDN
    THEN Delete(resourceKeyToFQDN[k])
    ELSE UNCHANGED cacheVars

(* Mutant: the entry goes, its index entry stays behind without a record. *)
DeleteByResourceKeyUnindexed(k) ==
    /\ k \in DOMAIN resourceKeyToFQDN
    /\ entries' = [entries EXCEPT ![resourceKeyToFQDN[k]] = RemoveKey(@, k)]
    /\ UNCHANGED resourceKeyToFQDN

(* The loop breaks as soon as it has removed the entry, before the test    *)
(* for an empty list: a name keeps its empty list.                         *)
DeleteByResourceKey(k) ==
    IF k \in DOMAIN resourceKeyToFQDN
    THEN /\ entries' = [entries EXCEPT ![resourceKeyToFQDN[k]] = RemoveKey(@, k)]
         /\ resourceKeyToFQDN' = [x \in DOMAIN resourceKeyToFQDN \ {k} |->
                                     resourceKeyToFQDN[x]]
    ELSE UNCHANGED cacheVars

-----------------------------------------------------------------------------
(* The read operations. *)

(* The wildcard name tried after i labels are dropped.  The last round of  *)
(* the loop drops them all and tries "*..", which no name equals.          *)
WildcardAt(fqdn, i) == <<Wildcard>> \o SubSeq(fqdn, i + 1, Len(fqdn))

(* The canonical names under which Lookup finds something, in its order:   *)
(* the name itself is round 0.                                             *)
LookupKey(fqdn, i) == IF i = 0 THEN fqdn ELSE WildcardAt(fqdn, i)
LookupRounds(fqdn) == {i \in 0..(Len(fqdn) - 1) : LookupKey(fqdn, i) \in DOMAIN entries}

(* Mutant: the climb over the wildcards starts at the top. *)
LookupFromTheRoot(name) ==
    LET fqdn == CanonicalName(name)
    IN  IF LookupRounds(fqdn) = {}
        THEN <<>>
        ELSE entries[LookupKey(fqdn, Max(LookupRounds(fqdn)))]

Lookup(name) ==
    LET fqdn == CanonicalName(name)
    IN  IF LookupRounds(fqdn) = {}
        THEN <<>>
        ELSE entries[LookupKey(fqdn, Min(LookupRounds(fqdn)))]

NoEntry == [ResourceKey |-> "nil", FQDN |-> <<>>, Addresses |-> <<>>]

(* A pointer to the key's entry, or nil. *)
LookupByResourceKey(k) ==
    IF /\ k \in DOMAIN resourceKeyToFQDN
       /\ HasKey(EntriesOf(resourceKeyToFQDN[k]), k)
    THEN LET es == entries[resourceKeyToFQDN[k]] IN es[FirstIndex(es, k)]
    ELSE NoEntry

(* All addresses of a list of entries, in order. *)
AddressesOf(es) == FlattenSeq([i \in DOMAIN es |-> es[i].Addresses])

(* Mutant: an address after a CNAME is not looked at. *)
IsValidAfterCNAME(name) ==
    LET as == AddressesOf(Lookup(name))
    IN  /\ Lookup(name) # <<>>
        /\ \A j \in DOMAIN as :
              as[j] \notin IPs => \A i \in 1..(j - 1) : as[i] \notin IPs

(* One pass over the addresses with hasCNAMEEntry and addressCount: stop   *)
(* with false at an address after a CNAME, or at a CNAME after an IP.      *)
IsValid(name) ==
    LET es == Lookup(name)
        as == AddressesOf(es)
    IN  /\ es # <<>>
        /\ \A j \in DOMAIN as :
              /\ \A i \in 1..(j - 1) : as[i] \in IPs
              /\ as[j] \notin IPs => \A i \in 1..(j - 1) : as[i] \notin IPs

-----------------------------------------------------------------------------
CacheNext ==
    \/ \E e \in Upserts : Upsert(e)
    \/ \E n \in Names : Delete(n)
    \/ \E k \in ResourceKeys : DeleteByResourceKey(k)

CacheSpec == CacheInit /\ [][CacheNext]_cacheVars

-----------------------------------------------------------------------------
(* Properties. *)

(* Both maps hold what their Go types and the callers' inputs allow, and   *)
(* the keys of the entries map are canonical names.                        *)
CacheTypeOK ==
    /\ DOMAIN entries \subseteq CanonicalNames
    /\ entries \in [DOMAIN entries -> Seq(DNSCacheEntry)]
    /\ DOMAIN resourceKeyToFQDN \subseteq ResourceKeys
    /\ resourceKeyToFQDN \in [DOMAIN resourceKeyToFQDN -> CanonicalNames]

(* Every entry is indexed under the name whose list holds it. *)
EntriesIndexed ==
    \A f \in DOMAIN entries : \A e \in ToSet(entries[f]) :
        /\ e.ResourceKey \in DOMAIN resourceKeyToFQDN
        /\ resourceKeyToFQDN[e.ResourceKey] = f

(* Every indexed key has an entry in the list the index names. *)
IndexedPresent ==
    \A k \in DOMAIN resourceKeyToFQDN :
        /\ resourceKeyToFQDN[k] \in DOMAIN entries
        /\ HasKey(entries[resourceKeyToFQDN[k]], k)

(* No list holds two entries of one key. *)
KeysUnique == \A f \in DOMAIN entries : DistinctKeys(entries[f])

(* The two maps that Upsert, Delete and DeleteByResourceKey maintain in    *)
(* two separate writes describe the same records: an EndpointSlice is      *)
(* never served under two names, or twice under one, and can always be     *)
(* found again to be replaced or deleted.                                  *)
IndexConsistent == EntriesIndexed /\ IndexedPresent /\ KeysUnique

(* The abstract state: the record of each indexed key. *)
PublishedRecords ==
    [name : CanonicalNames, addresses : {StoredAddresses(as) : as \in AddressLists}]
recordsMap ==
    [k \in DOMAIN resourceKeyToFQDN |->
        [name |-> resourceKeyToFQDN[k],
         addresses |-> LookupByResourceKey(k).Addresses]]
Abstract == INSTANCE DNSRecords WITH records <- recordsMap,
                RecordNames <- CanonicalNames, Records <- PublishedRecords

(* The cache is a faithful implementation of a table of records: moving a  *)
(* key to another name, or deleting among several entries of one name,     *)
(* never drops, duplicates or alters the record of another key.            *)
ImplementsRecords == Abstract!RecordsSpec

(* Each write of cache.go has the effect it is named for on the table of   *)
(* records: Upsert publishes the one record, Delete withdraws a name with  *)
(* all its records, DeleteByResourceKey the one record of the key.         *)
OperationsImplementRecords ==
    [][/\ \A e \in Upserts :
            Upsert(e) => Abstract!Publish(e.ResourceKey,
                            [name |-> CanonicalName(e.FQDN),
                             addresses |-> StoredAddresses(e.Addresses)])
       /\ \A n \in Names : Delete(n) => Abstract!WithdrawName(CanonicalName(n))
       /\ \A k \in ResourceKeys : DeleteByResourceKey(k) => Abstract!Withdraw(k)]_cacheVars

(* Reference for Lookup: the name itself, or a wildcard above it, of more  *)
(* than the root.                                                          *)
Covers(m, n) ==
    \/ m = n
    \/ /\ Len(m) > 1 /\ m[1] = Wildcard /\ Len(n) >= Len(m)
       /\ Tail(m) = SubSeq(n, Len(n) - Len(m) + 2, Len(n))
Closer(m1, m2, n) == m1 = n \/ (m2 # n /\ Len(m1) >= Len(m2))
CoveringNames(n) ==
    {m \in {resourceKeyToFQDN[k] : k \in DOMAIN resourceKeyToFQDN} : Covers(m, n)}
ClosestRecords(n) ==
    {k \in DOMAIN resourceKeyToFQDN :
        /\ Covers(resourceKeyToFQDN[k], n)
        /\ \A m \in CoveringNames(n) : Closer(resourceKeyToFQDN[k], m, n)}

(* Whenever Lookup answers, it answers with all records of the closest     *)
(* name that covers the question and has records, and with no other: a     *)
(* wildcard never hides a more specific record, and no withdrawn record    *)
(* is returned.                                                            *)
LookupAnswersClosest ==
    \A n \in Names :
        Lookup(n) # <<>> =>
            {e.ResourceKey : e \in ToSet(Lookup(n))} = ClosestRecords(CanonicalName(n))

(* cache_test.go:107 "can lookup any fqdn that matches the wildcard": a    *)
(* name that some published record covers is answered.                     *)
WildcardAnswers ==
    \A n \in Names : CoveringNames(CanonicalName(n)) # {} => Lookup(n) # <<>>

(* The one-pass test of IsValid decides the rule its comment takes from    *)
(* RFC 1034: addresses only, or a single alias and nothing else.           *)
IsValidMeetsRFC1034 ==
    \A n \in Names :
        LET as == AddressesOf(Lookup(n))
        IN  IsValid(n) <=> /\ Lookup(n) # <<>>
                           /\ ToSet(as) \subseteq IPs \/ Len(as) = 1
=============================================================================
