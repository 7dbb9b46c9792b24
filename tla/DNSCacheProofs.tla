--------------------------- MODULE DNSCacheProofs ---------------------------
(* Proofs about DNSCache: for any keys, names and addresses the two maps of *)
(* the cache stay consistent, and every write does what it is named for.    *)
EXTENDS DNSCache, SequenceFacts

(* What the cache's writes preserve. *)
CacheInv == CacheTypeOK /\ IndexConsistent

(* The canonical form of a name in use is again a name in use, and one a   *)
(* cache key can be.                                                       *)
LEMMA CanonicalInNames ==
    ASSUME NEW n \in Names
    PROVE  CanonicalName(n) \in CanonicalNames /\ CanonicalName(n) \in Names
  BY NamesAssumption DEF CanonicalNames

(* Lower-casing a name twice changes nothing. *)
LEMMA CanonicalIdempotent ==
    ASSUME NEW n \in Names
    PROVE  CanonicalName(CanonicalName(n)) = CanonicalName(n)
  <1>1. n \in Seq(Labels)
    BY NamesAssumption
  <1> QED
    BY <1>1, NamesAssumption DEF CanonicalName

(* Storing an upserted entry makes a cache entry of the same key. *)
LEMMA StoredEntryType ==
    ASSUME NEW e \in Upserts
    PROVE  /\ StoredEntry(e) \in DNSCacheEntry
           /\ StoredEntry(e).ResourceKey = e.ResourceKey
  <1>1. e.Addresses \in Seq(Addresses)
    BY AddressesAssumption DEF Upserts
  <1>2. StoredAddresses(e.Addresses) \in Seq(Addresses)
    BY <1>1, AddressesAssumption DEF StoredAddresses
  <1> QED
    BY <1>2, CanonicalInNames DEF Upserts, StoredEntry, DNSCacheEntry

(* In a list without duplicate keys the search finds the one index. *)
LEMMA FirstIndexUnique ==
    ASSUME NEW es \in Seq(DNSCacheEntry), DistinctKeys(es),
           NEW k, NEW p \in DOMAIN es, es[p].ResourceKey = k
    PROVE  HasKey(es, k) /\ FirstIndex(es, k) = p
  <1>1. \A j \in 1..(p - 1) : es[j].ResourceKey # k
    BY DEF DistinctKeys
  <1> QED
    BY <1>1 DEF FirstIndex, HasKey, DistinctKeys

(* Removing a key removes its entry and no other. *)
LEMMA RemoveKeyFacts ==
    ASSUME NEW es \in Seq(DNSCacheEntry), DistinctKeys(es), NEW k
    PROVE  /\ RemoveKey(es, k) \in Seq(DNSCacheEntry)
           /\ DistinctKeys(RemoveKey(es, k))
           /\ ToSet(RemoveKey(es, k)) = {e \in ToSet(es) : e.ResourceKey # k}
  <1>1. CASE ~HasKey(es, k)
    BY <1>1 DEF RemoveKey, HasKey, ToSet
  <1>2. CASE HasKey(es, k)
    <2>1. PICK p \in DOMAIN es : es[p].ResourceKey = k
      BY <1>2 DEF HasKey
    <2> DEFINE r == RemoveAt(es, p)
    <2>2. RemoveKey(es, k) = r
      BY <1>2, <2>1, FirstIndexUnique DEF RemoveKey
    <2>3. /\ r \in Seq(DNSCacheEntry) /\ Len(r) = Len(es) - 1
          /\ \A i \in 1..(Len(es) - 1) : r[i] = IF i < p THEN es[i] ELSE es[i + 1]
      BY RemoveAtFacts
    <2> HIDE DEF r
    <2>4. DistinctKeys(r)
      <3> DEFINE at(i) == IF i < p THEN i ELSE i + 1
      <3>1. ASSUME NEW i \in DOMAIN r
            PROVE  at(i) \in DOMAIN es /\ r[i] = es[at(i)]
        BY <2>3
      <3>2. ASSUME NEW i \in DOMAIN r, NEW j \in DOMAIN r, at(i) = at(j)
            PROVE  i = j
        BY <3>2, <2>3
      <3> HIDE DEF at
      <3> QED
        BY <3>1, <3>2 DEF DistinctKeys
    <2>5. ASSUME NEW i \in DOMAIN r
          PROVE  r[i] \in ToSet(es) /\ r[i].ResourceKey # k
      BY <2>1, <2>3 DEF DistinctKeys, ToSet
    <2>6. ASSUME NEW j \in DOMAIN es, es[j].ResourceKey # k
          PROVE  \E i \in DOMAIN r : r[i] = es[j]
      <3>1. CASE j < p
        BY <3>1, <2>3
      <3>2. CASE j > p
        <4>1. j - 1 \in DOMAIN r /\ r[j - 1] = es[j]
          BY <3>2, <2>3
        <4> QED BY <4>1
      <3> QED
        BY <3>1, <3>2, <2>1, <2>6
    <2>7. ToSet(r) = {e \in ToSet(es) : e.ResourceKey # k}
      BY <2>5, <2>6 DEF ToSet
    <2> QED
      BY <2>2, <2>3, <2>4, <2>7
  <1> QED
    BY <1>1, <1>2

(* Putting an entry replaces the entry of its key and no other. *)
LEMMA PutEntryFacts ==
    ASSUME NEW es \in Seq(DNSCacheEntry), DistinctKeys(es), NEW e \in DNSCacheEntry
    PROVE  /\ PutEntry(es, e) \in Seq(DNSCacheEntry)
           /\ DistinctKeys(PutEntry(es, e))
           /\ ToSet(PutEntry(es, e)) =
                 {x \in ToSet(es) : x.ResourceKey # e.ResourceKey} \cup {e}
  <1> DEFINE k == e.ResourceKey
             r == PutEntry(es, e)
  <1>1. CASE ~HasKey(es, k)
    <2>1. r = Append(es, e)
      BY <1>1 DEF PutEntry
    <2>2. /\ r \in Seq(DNSCacheEntry) /\ Len(r) = Len(es) + 1
          /\ \A i \in 1..Len(es) : r[i] = es[i]
          /\ r[Len(es) + 1] = e
      BY <2>1
    <2>3. \A i \in DOMAIN es : es[i].ResourceKey # k
      BY <1>1 DEF HasKey
    <2> HIDE DEF r
    <2>4. DistinctKeys(r)
      BY <2>2, <2>3 DEF DistinctKeys
    <2>5. ToSet(r) = ToSet(es) \cup {e}
      BY <2>2 DEF ToSet
    <2>6. {x \in ToSet(es) : x.ResourceKey # k} = ToSet(es)
      BY <2>3 DEF ToSet
    <2> QED
      BY <2>2, <2>4, <2>5, <2>6 DEF r
  <1>2. CASE HasKey(es, k)
    <2>1. PICK p \in DOMAIN es : es[p].ResourceKey = k
      BY <1>2 DEF HasKey
    <2>2. r = [es EXCEPT ![p] = e]
      BY <1>2, <2>1, FirstIndexUnique DEF PutEntry
    <2>3. /\ r \in Seq(DNSCacheEntry) /\ DOMAIN r = DOMAIN es
          /\ \A i \in DOMAIN es : r[i] = IF i = p THEN e ELSE es[i]
      BY <2>2
    <2> HIDE DEF r
    <2>4. DistinctKeys(r)
      BY <2>1, <2>3 DEF DistinctKeys
    <2>5. ToSet(r) = {x \in ToSet(es) : x.ResourceKey # k} \cup {e}
      BY <2>1, <2>3 DEF DistinctKeys, ToSet
    <2> QED
      BY <2>3, <2>4, <2>5 DEF r
  <1> QED
    BY <1>1, <1>2

(* A list holds an entry of a key exactly when the set of its entries does. *)
LEMMA HasKeySet ==
    ASSUME NEW es, NEW k
    PROVE  HasKey(es, k) <=> \E e \in ToSet(es) : e.ResourceKey = k
  BY DEF HasKey, ToSet

(* The list of any name is well formed, and empty if the map has no such name. *)
LEMMA EntriesOfFacts ==
    ASSUME CacheInv, NEW f
    PROVE  /\ EntriesOf(f) \in Seq(DNSCacheEntry)
           /\ DistinctKeys(EntriesOf(f))
           /\ f \in DOMAIN entries => EntriesOf(f) = entries[f]
           /\ f \notin DOMAIN entries => ToSet(EntriesOf(f)) = {}
           /\ \A e \in ToSet(EntriesOf(f)) :
                 /\ e.ResourceKey \in DOMAIN resourceKeyToFQDN
                 /\ resourceKeyToFQDN[e.ResourceKey] = f
  <1>1. CASE f \in DOMAIN entries
    BY <1>1 DEF CacheInv, CacheTypeOK, IndexConsistent, EntriesIndexed, KeysUnique, EntriesOf
  <1>2. CASE f \notin DOMAIN entries
    BY <1>2 DEF EntriesOf, DistinctKeys, ToSet
  <1> QED
    BY <1>1, <1>2

(* What Upsert does to the lists, seen as sets: the key leaves every list  *)
(* and joins the one of its new name; a name disappears only if the key    *)
(* was all it had.                                                         *)
LEMMA UpsertFacts ==
    ASSUME CacheInv, NEW e \in Upserts, Upsert(e)
    PROVE  LET fqdn == CanonicalName(e.FQDN)
               k == e.ResourceKey
           IN  /\ DOMAIN entries' \subseteq DOMAIN entries \cup {fqdn}
               /\ fqdn \in DOMAIN entries'
               /\ \A f \in DOMAIN entries' :
                     /\ entries'[f] \in Seq(DNSCacheEntry)
                     /\ DistinctKeys(entries'[f])
                     /\ ToSet(entries'[f]) =
                           {x \in ToSet(EntriesOf(f)) : x.ResourceKey # k}
                             \cup (IF f = fqdn THEN {StoredEntry(e)} ELSE {})
               /\ \A f \in DOMAIN entries \ DOMAIN entries' :
                     \A x \in ToSet(entries[f]) : x.ResourceKey = k
  <1> DEFINE fqdn == CanonicalName(e.FQDN)
             k == e.ResourceKey
             base == EntriesAfterMove(k, fqdn)
             new == PutEntry(EntriesOf(fqdn), StoredEntry(e))
  <1>1. /\ new \in Seq(DNSCacheEntry) /\ DistinctKeys(new)
        /\ ToSet(new) = {x \in ToSet(EntriesOf(fqdn)) : x.ResourceKey # k} \cup {StoredEntry(e)}
    BY EntriesOfFacts, StoredEntryType, PutEntryFacts
  <1>2. entries' = [f \in DOMAIN base \cup {fqdn} |-> IF f = fqdn THEN new ELSE base[f]]
    BY DEF Upsert
  <1>3. /\ DOMAIN base \subseteq DOMAIN entries
        /\ \A f \in DOMAIN base \ {fqdn} :
              /\ base[f] \in Seq(DNSCacheEntry)
              /\ DistinctKeys(base[f])
              /\ ToSet(base[f]) = {x \in ToSet(EntriesOf(f)) : x.ResourceKey # k}
        /\ \A f \in DOMAIN entries \ (DOMAIN base \cup {fqdn}) :
              \A x \in ToSet(entries[f]) : x.ResourceKey = k
    <2>1. CASE ~(k \in DOMAIN resourceKeyToFQDN /\ resourceKeyToFQDN[k] # fqdn)
      <3>1. base = entries
        BY <2>1 DEF EntriesAfterMove
      <3>2. ASSUME NEW f \in DOMAIN entries \ {fqdn}, NEW x \in ToSet(EntriesOf(f))
            PROVE  x.ResourceKey # k
        BY <2>1, EntriesOfFacts
      <3> QED
        BY <3>1, <3>2, EntriesOfFacts
    <2>2. CASE k \in DOMAIN resourceKeyToFQDN /\ resourceKeyToFQDN[k] # fqdn
      <3> DEFINE old == resourceKeyToFQDN[k]
                 rest == RemoveKey(EntriesOf(old), k)
      <3>1. /\ rest \in Seq(DNSCacheEntry) /\ DistinctKeys(rest)
            /\ ToSet(rest) = {x \in ToSet(EntriesOf(old)) : x.ResourceKey # k}
        BY EntriesOfFacts, RemoveKeyFacts
      <3>2. ASSUME NEW f \in DOMAIN entries, f # old, NEW x \in ToSet(EntriesOf(f))
            PROVE  x.ResourceKey # k
        BY <3>2, EntriesOfFacts
      <3>3. old \in DOMAIN entries /\ EntriesOf(old) = entries[old]
        BY <2>2, EntriesOfFacts DEF CacheInv, IndexConsistent, IndexedPresent
      <3>4. CASE rest = <<>>
        <4>1. base = [f \in DOMAIN entries \ {old} |-> entries[f]]
          BY <2>2, <3>4 DEF EntriesAfterMove
        <4>2. \A x \in ToSet(entries[old]) : x.ResourceKey = k
          BY <3>1, <3>3, <3>4 DEF ToSet
        <4> HIDE DEF base, old, rest
        <4> QED
          BY <4>1, <4>2, <3>2, EntriesOfFacts
      <3>5. CASE rest # <<>>
        <4>1. base = [entries EXCEPT ![old] = rest]
          BY <2>2, <3>5 DEF EntriesAfterMove
        <4> HIDE DEF base, old, rest
        <4> QED
          BY <4>1, <3>1, <3>2, <3>3, EntriesOfFacts
      <3> QED
        BY <3>4, <3>5
    <2> QED
      BY <2>1, <2>2
  <1> HIDE DEF base, new, fqdn, k
  <1>4. DOMAIN entries' = DOMAIN base \cup {fqdn}
    BY <1>2
  <1>5. ASSUME NEW f \in DOMAIN entries'
        PROVE  entries'[f] = IF f = fqdn THEN new ELSE base[f]
    BY <1>2
  <1> QED
    BY <1>1, <1>3, <1>4, <1>5 DEF fqdn, k

(* Upsert keeps the maps well typed and consistent. *)
LEMMA UpsertPreserves ==
    ASSUME CacheInv, NEW e \in Upserts, Upsert(e)
    PROVE  CacheInv'
  <1> DEFINE fqdn == CanonicalName(e.FQDN)
             k == e.ResourceKey
             stored == StoredEntry(e)
  <1>1. /\ DOMAIN entries' \subseteq DOMAIN entries \cup {fqdn}
        /\ fqdn \in DOMAIN entries'
        /\ \A f \in DOMAIN entries' :
              /\ entries'[f] \in Seq(DNSCacheEntry)
              /\ DistinctKeys(entries'[f])
              /\ ToSet(entries'[f]) =
                    {x \in ToSet(EntriesOf(f)) : x.ResourceKey # k}
                      \cup (IF f = fqdn THEN {stored} ELSE {})
        /\ \A f \in DOMAIN entries \ DOMAIN entries' :
              \A x \in ToSet(entries[f]) : x.ResourceKey = k
    BY UpsertFacts
  <1>2. resourceKeyToFQDN' = [x \in DOMAIN resourceKeyToFQDN \cup {k} |->
                                 IF x = k THEN fqdn ELSE resourceKeyToFQDN[x]]
    BY DEF Upsert
  <1>3. fqdn \in CanonicalNames /\ k \in ResourceKeys /\ stored.ResourceKey = k
    BY CanonicalInNames, StoredEntryType DEF Upserts
  <1>4. entries' = [f \in DOMAIN entries' |-> entries'[f]]
    BY DEF Upsert
  <1> HIDE DEF fqdn, k, stored
  <1>5. CacheTypeOK'
    BY <1>1, <1>2, <1>3, <1>4 DEF CacheInv, CacheTypeOK
  <1>6. EntriesIndexed'
    <2>1. ASSUME NEW f \in DOMAIN entries', NEW x \in ToSet(entries'[f])
          PROVE  /\ x.ResourceKey \in DOMAIN resourceKeyToFQDN'
                 /\ resourceKeyToFQDN'[x.ResourceKey] = f
      BY <1>1, <1>2, <1>3, EntriesOfFacts
    <2> QED
      BY <2>1 DEF EntriesIndexed
  <1>7. IndexedPresent'
    <2>1. ASSUME NEW x \in DOMAIN resourceKeyToFQDN'
          PROVE  /\ resourceKeyToFQDN'[x] \in DOMAIN entries'
                 /\ \E y \in ToSet(entries'[resourceKeyToFQDN'[x]]) : y.ResourceKey = x
      <3>1. CASE x = k
        BY <3>1, <1>1, <1>2, <1>3
      <3>2. CASE x # k
        <4> DEFINE f == resourceKeyToFQDN[x]
        <4>1. resourceKeyToFQDN'[x] = f /\ x \in DOMAIN resourceKeyToFQDN
          BY <3>2, <1>2
        <4>2. f \in DOMAIN entries /\ HasKey(entries[f], x)
          BY <4>1 DEF CacheInv, IndexConsistent, IndexedPresent
        <4>3. PICK y \in ToSet(entries[f]) : y.ResourceKey = x
          BY <4>2, HasKeySet
        <4>4. f \in DOMAIN entries'
          BY <3>2, <4>2, <4>3, <1>1
        <4>5. y \in ToSet(EntriesOf(f))
          BY <4>2, <4>3, EntriesOfFacts
        <4> HIDE DEF f
        <4>6. y \in ToSet(entries'[f])
          BY <4>3, <4>4, <4>5, <3>2, <1>1
        <4> QED
          BY <4>1, <4>3, <4>4, <4>6
      <3> QED
        BY <3>1, <3>2
    <2> QED
      BY <2>1, HasKeySet DEF IndexedPresent
  <1>8. KeysUnique'
    BY <1>1 DEF KeysUnique
  <1> QED
    BY <1>5, <1>6, <1>7, <1>8 DEF CacheInv, IndexConsistent

(* Delete takes a name's list and the index of exactly its keys. *)
LEMMA DeletePreserves ==
    ASSUME CacheInv, NEW n \in Names, Delete(n)
    PROVE  CacheInv'
  <1> DEFINE fqdn == CanonicalName(n)
             gone == {e.ResourceKey : e \in ToSet(EntriesOf(fqdn))}
  <1>1. /\ entries' = [f \in DOMAIN entries \ {fqdn} |-> entries[f]]
        /\ resourceKeyToFQDN' = [x \in DOMAIN resourceKeyToFQDN \ gone |-> resourceKeyToFQDN[x]]
    BY DEF Delete
  <1>2. ASSUME NEW x \in DOMAIN resourceKeyToFQDN
        PROVE  x \in gone <=> resourceKeyToFQDN[x] = fqdn
    <2>1. ASSUME x \in gone PROVE resourceKeyToFQDN[x] = fqdn
      BY <2>1, EntriesOfFacts
    <2>2. ASSUME resourceKeyToFQDN[x] = fqdn PROVE x \in gone
      <3>1. fqdn \in DOMAIN entries /\ HasKey(entries[fqdn], x)
        BY <2>2 DEF CacheInv, IndexConsistent, IndexedPresent
      <3> QED
        BY <3>1, HasKeySet, EntriesOfFacts
    <2> QED
      BY <2>1, <2>2
  <1> HIDE DEF fqdn, gone
  <1>3. CacheTypeOK'
    BY <1>1 DEF CacheInv, CacheTypeOK
  <1>4. EntriesIndexed'
    <2>1. ASSUME NEW f \in DOMAIN entries', NEW x \in ToSet(entries'[f])
          PROVE  /\ x.ResourceKey \in DOMAIN resourceKeyToFQDN'
                 /\ resourceKeyToFQDN'[x.ResourceKey] = f
      <3>1. f \in DOMAIN entries /\ f # fqdn /\ x \in ToSet(entries[f])
        BY <1>1
      <3>2. x.ResourceKey \in DOMAIN resourceKeyToFQDN /\ resourceKeyToFQDN[x.ResourceKey] = f
        BY <3>1 DEF CacheInv, IndexConsistent, EntriesIndexed
      <3> QED
        BY <3>1, <3>2, <1>1, <1>2
    <2> QED
      BY <2>1 DEF EntriesIndexed
  <1>5. IndexedPresent'
    <2>1. ASSUME NEW x \in DOMAIN resourceKeyToFQDN'
          PROVE  /\ resourceKeyToFQDN'[x] \in DOMAIN entries'
                 /\ HasKey(entries'[resourceKeyToFQDN'[x]], x)
      BY <1>1, <1>2 DEF CacheInv, IndexConsistent, IndexedPresent
    <2> QED
      BY <2>1 DEF IndexedPresent
  <1>6. KeysUnique'
    BY <1>1 DEF CacheInv, IndexConsistent, KeysUnique
  <1> QED
    BY <1>3, <1>4, <1>5, <1>6 DEF CacheInv, IndexConsistent

(* DeleteByResourceKey takes one entry and its index. *)
LEMMA DeleteByResourceKeyPreserves ==
    ASSUME CacheInv, NEW k \in ResourceKeys, DeleteByResourceKey(k)
    PROVE  CacheInv'
  <1>1. CASE k \notin DOMAIN resourceKeyToFQDN
    BY <1>1 DEF DeleteByResourceKey, cacheVars, CacheInv, CacheTypeOK, IndexConsistent,
                EntriesIndexed, IndexedPresent, KeysUnique
  <1>2. CASE k \in DOMAIN resourceKeyToFQDN
    <2> DEFINE old == resourceKeyToFQDN[k]
               rest == RemoveKey(entries[old], k)
    <2>1. old \in DOMAIN entries /\ EntriesOf(old) = entries[old]
      BY <1>2, EntriesOfFacts DEF CacheInv, IndexConsistent, IndexedPresent
    <2>2. /\ entries' = [entries EXCEPT ![old] = rest]
          /\ resourceKeyToFQDN' = [x \in DOMAIN resourceKeyToFQDN \ {k} |-> resourceKeyToFQDN[x]]
      BY <1>2 DEF DeleteByResourceKey
    <2>3. /\ rest \in Seq(DNSCacheEntry) /\ DistinctKeys(rest)
          /\ ToSet(rest) = {x \in ToSet(entries[old]) : x.ResourceKey # k}
      BY <2>1, EntriesOfFacts, RemoveKeyFacts
    <2>4. ASSUME NEW f \in DOMAIN entries, NEW x \in ToSet(entries[f])
          PROVE  /\ x.ResourceKey \in DOMAIN resourceKeyToFQDN
                 /\ resourceKeyToFQDN[x.ResourceKey] = f
                 /\ f # old => x.ResourceKey # k
      BY DEF CacheInv, IndexConsistent, EntriesIndexed
    <2>5. old \in CanonicalNames
      BY <2>1 DEF CacheInv, CacheTypeOK
    <2> HIDE DEF old, rest
    <2>6. CacheTypeOK'
      BY <2>1, <2>2, <2>3 DEF CacheInv, CacheTypeOK
    <2>7. ASSUME NEW f \in DOMAIN entries
          PROVE  /\ f \in DOMAIN entries'
                 /\ ToSet(entries'[f]) = {x \in ToSet(entries[f]) : x.ResourceKey # k}
      BY <2>2, <2>3, <2>4
    <2>8. EntriesIndexed'
      <3>1. ASSUME NEW f \in DOMAIN entries', NEW x \in ToSet(entries'[f])
            PROVE  /\ x.ResourceKey \in DOMAIN resourceKeyToFQDN'
                   /\ resourceKeyToFQDN'[x.ResourceKey] = f
        <4>1. f \in DOMAIN entries
          BY <2>2
        <4>2. x \in ToSet(entries[f]) /\ x.ResourceKey # k
          BY <4>1, <2>7
        <4> QED
          BY <4>1, <4>2, <2>2, <2>4
      <3> QED
        BY <3>1 DEF EntriesIndexed
    <2>9. IndexedPresent'
      <3>1. ASSUME NEW x \in DOMAIN resourceKeyToFQDN'
            PROVE  /\ resourceKeyToFQDN'[x] \in DOMAIN entries'
                   /\ HasKey(entries'[resourceKeyToFQDN'[x]], x)
        <4>1. x \in DOMAIN resourceKeyToFQDN /\ x # k /\ resourceKeyToFQDN'[x] = resourceKeyToFQDN[x]
          BY <2>2
        <4>2. /\ resourceKeyToFQDN[x] \in DOMAIN entries
              /\ HasKey(entries[resourceKeyToFQDN[x]], x)
          BY <4>1 DEF CacheInv, IndexConsistent, IndexedPresent
        <4>3. PICK y \in ToSet(entries[resourceKeyToFQDN[x]]) : y.ResourceKey = x
          BY <4>2, HasKeySet
        <4> QED
          BY <4>1, <4>2, <4>3, <2>7, HasKeySet
      <3> QED
        BY <3>1 DEF IndexedPresent
    <2>10. KeysUnique'
      BY <2>2, <2>3 DEF CacheInv, IndexConsistent, KeysUnique
    <2> QED
      BY <2>6, <2>8, <2>9, <2>10 DEF CacheInv, IndexConsistent
  <1> QED
    BY <1>1, <1>2

(* The empty maps are consistent. *)
LEMMA CacheInitInv == CacheInit => CacheInv
  BY DEF CacheInit, CacheInv, CacheTypeOK, IndexConsistent, EntriesIndexed,
         IndexedPresent, KeysUnique

(* A step that writes nothing preserves the invariant. *)
LEMMA CacheStutterPreserves == CacheInv /\ UNCHANGED cacheVars => CacheInv'
  BY DEF CacheInv, CacheTypeOK, IndexConsistent, EntriesIndexed, IndexedPresent,
         KeysUnique, cacheVars

(* Every operation of cache.go preserves the invariant. *)
LEMMA CacheNextPreserves == CacheInv /\ [CacheNext]_cacheVars => CacheInv'
  <1> SUFFICES ASSUME CacheInv, [CacheNext]_cacheVars PROVE CacheInv'
    OBVIOUS
  <1>1. ASSUME NEW e \in Upserts, Upsert(e) PROVE CacheInv'
    BY <1>1, UpsertPreserves
  <1>2. ASSUME NEW n \in Names, Delete(n) PROVE CacheInv'
    BY <1>2, DeletePreserves
  <1>3. ASSUME NEW k \in ResourceKeys, DeleteByResourceKey(k) PROVE CacheInv'
    BY <1>3, DeleteByResourceKeyPreserves
  <1>4. CASE UNCHANGED cacheVars
    BY <1>4, CacheStutterPreserves
  <1> QED
    BY <1>1, <1>2, <1>3, <1>4 DEF CacheNext

(* The cache's maps keep their types, whatever is upserted and deleted. *)
THEOREM CacheTypeCorrect == CacheSpec => []CacheTypeOK
  <1>1. CacheInv => CacheTypeOK
    BY DEF CacheInv
  <1> QED
    BY <1>1, CacheInitInv, CacheNextPreserves, PTL DEF CacheSpec

(* The lists and the index of cache.go describe the same records after any *)
(* sequence of Upsert, Delete and DeleteByResourceKey.                     *)
THEOREM CacheIndexConsistent == CacheSpec => []IndexConsistent
  <1>1. CacheInv => IndexConsistent
    BY DEF CacheInv
  <1> QED
    BY <1>1, CacheInitInv, CacheNextPreserves, PTL DEF CacheSpec

-----------------------------------------------------------------------------
(* The cache implements the table of records. *)

(* Searching a list by the key of one of its entries finds that entry. *)
LEMMA EntryFound ==
    ASSUME NEW es \in Seq(DNSCacheEntry), DistinctKeys(es), NEW e \in ToSet(es)
    PROVE  HasKey(es, e.ResourceKey) /\ es[FirstIndex(es, e.ResourceKey)] = e
  <1>1. PICK p \in DOMAIN es : es[p] = e
    BY DEF ToSet
  <1> QED
    BY <1>1, FirstIndexUnique

(* LookupByResourceKey returns the entry that a list holds for the key. *)
LEMMA LookupFindsEntry ==
    ASSUME CacheInv, NEW f \in DOMAIN entries, NEW e \in ToSet(entries[f])
    PROVE  LookupByResourceKey(e.ResourceKey) = e
  <1>1. e.ResourceKey \in DOMAIN resourceKeyToFQDN /\ resourceKeyToFQDN[e.ResourceKey] = f
    BY DEF CacheInv, IndexConsistent, EntriesIndexed
  <1>2. entries[f] \in Seq(DNSCacheEntry) /\ DistinctKeys(entries[f])
    BY DEF CacheInv, CacheTypeOK, IndexConsistent, KeysUnique
  <1> QED
    BY <1>1, <1>2, EntryFound DEF LookupByResourceKey, EntriesOf

(* The same of the state after a write of the cache. *)
LEMMA LookupFindsEntryNext ==
    ASSUME CacheInv', NEW f \in DOMAIN entries', NEW e \in ToSet(entries'[f])
    PROVE  LookupByResourceKey(e.ResourceKey)' = e
  <1>1. e.ResourceKey \in DOMAIN resourceKeyToFQDN' /\ resourceKeyToFQDN'[e.ResourceKey] = f
    BY DEF CacheInv, IndexConsistent, EntriesIndexed
  <1>2. entries'[f] \in Seq(DNSCacheEntry) /\ DistinctKeys(entries'[f])
    BY DEF CacheInv, CacheTypeOK, IndexConsistent, KeysUnique
  <1> QED
    BY <1>1, <1>2, EntryFound DEF LookupByResourceKey, EntriesOf

(* Every indexed key has an entry in its list. *)
LEMMA IndexedEntry ==
    ASSUME CacheInv, NEW k \in DOMAIN resourceKeyToFQDN
    PROVE  /\ resourceKeyToFQDN[k] \in DOMAIN entries
           /\ \E e \in ToSet(entries[resourceKeyToFQDN[k]]) : e.ResourceKey = k
  BY HasKeySet DEF CacheInv, IndexConsistent, IndexedPresent

(* Upsert publishes its record and leaves the others alone. *)
LEMMA UpsertPublishes ==
    ASSUME CacheInv, NEW e \in Upserts, Upsert(e)
    PROVE  Abstract!Publish(e.ResourceKey, [name |-> CanonicalName(e.FQDN),
                                            addresses |-> StoredAddresses(e.Addresses)])
  <1> DEFINE fqdn == CanonicalName(e.FQDN)
             k == e.ResourceKey
             r == [name |-> fqdn, addresses |-> StoredAddresses(e.Addresses)]
  <1>0. CacheInv'
    BY UpsertPreserves
  <1>1. /\ fqdn \in DOMAIN entries'
        /\ \A f \in DOMAIN entries' : ToSet(entries'[f]) =
              {x \in ToSet(EntriesOf(f)) : x.ResourceKey # k}
                \cup (IF f = fqdn THEN {StoredEntry(e)} ELSE {})
        /\ \A f \in DOMAIN entries \ DOMAIN entries' :
              \A x \in ToSet(entries[f]) : x.ResourceKey = k
    BY UpsertFacts
  <1>2. resourceKeyToFQDN' = [x \in DOMAIN resourceKeyToFQDN \cup {k} |->
                                 IF x = k THEN fqdn ELSE resourceKeyToFQDN[x]]
    BY DEF Upsert
  <1>3. StoredEntry(e).ResourceKey = k /\ StoredEntry(e).Addresses = r.addresses
    BY DEF StoredEntry
  <1>4. LookupByResourceKey(k)' = StoredEntry(e)
    BY <1>0, <1>1, <1>3, LookupFindsEntryNext
  <1>5. ASSUME NEW x \in DOMAIN resourceKeyToFQDN, x # k
        PROVE  LookupByResourceKey(x)' = LookupByResourceKey(x)
    <2> DEFINE f == resourceKeyToFQDN[x]
    <2>1. PICK y \in ToSet(entries[f]) : y.ResourceKey = x
      BY IndexedEntry
    <2>2. f \in DOMAIN entries
      BY IndexedEntry
    <2>3. LookupByResourceKey(x) = y
      BY <2>1, <2>2, LookupFindsEntry
    <2>4. y \in ToSet(EntriesOf(f)) /\ f \in DOMAIN entries'
      BY <2>1, <2>2, <1>5, <1>1, EntriesOfFacts
    <2> HIDE DEF f
    <2>5. y \in ToSet(entries'[f])
      BY <2>1, <2>4, <1>1, <1>5
    <2>6. LookupByResourceKey(x)' = y
      BY <1>0, <2>1, <2>4, <2>5, LookupFindsEntryNext
    <2> QED
      BY <2>3, <2>6
  <1> QED
    BY <1>2, <1>3, <1>4, <1>5 DEF Abstract!Publish, recordsMap

(* Delete withdraws the records of its name and no other. *)
LEMMA DeleteWithdrawsName ==
    ASSUME CacheInv, NEW n \in Names, Delete(n)
    PROVE  Abstract!WithdrawName(CanonicalName(n))
  <1> DEFINE fqdn == CanonicalName(n)
             gone == {e.ResourceKey : e \in ToSet(EntriesOf(fqdn))}
  <1>0. CacheInv'
    BY DeletePreserves
  <1>1. /\ entries' = [f \in DOMAIN entries \ {fqdn} |-> entries[f]]
        /\ resourceKeyToFQDN' = [x \in DOMAIN resourceKeyToFQDN \ gone |-> resourceKeyToFQDN[x]]
    BY DEF Delete
  <1>2. ASSUME NEW x \in DOMAIN resourceKeyToFQDN
        PROVE  x \in gone <=> resourceKeyToFQDN[x] = fqdn
    BY EntriesOfFacts, IndexedEntry
  <1> HIDE DEF fqdn, gone
  <1>3. ASSUME NEW x \in DOMAIN resourceKeyToFQDN, resourceKeyToFQDN[x] # fqdn
        PROVE  LookupByResourceKey(x)' = LookupByResourceKey(x)
    <2>1. PICK y \in ToSet(entries[resourceKeyToFQDN[x]]) : y.ResourceKey = x
      BY IndexedEntry
    <2>2. /\ resourceKeyToFQDN[x] \in DOMAIN entries
          /\ resourceKeyToFQDN[x] \in DOMAIN entries'
          /\ y \in ToSet(entries'[resourceKeyToFQDN[x]])
      BY <1>1, <1>3, <2>1, IndexedEntry
    <2> QED
      BY <1>0, <2>1, <2>2, LookupFindsEntry, LookupFindsEntryNext
  <1> QED
    BY <1>1, <1>2, <1>3 DEF Abstract!WithdrawName, recordsMap, fqdn

(* DeleteByResourceKey withdraws the record of its key and no other. *)
LEMMA DeleteByResourceKeyWithdraws ==
    ASSUME CacheInv, NEW k \in ResourceKeys, DeleteByResourceKey(k)
    PROVE  Abstract!Withdraw(k)
  <1>0. CacheInv'
    BY DeleteByResourceKeyPreserves
  <1>1. CASE k \notin DOMAIN resourceKeyToFQDN
    BY <1>1 DEF DeleteByResourceKey, cacheVars, Abstract!Withdraw, recordsMap,
                LookupByResourceKey, EntriesOf
  <1>2. CASE k \in DOMAIN resourceKeyToFQDN
    <2> DEFINE old == resourceKeyToFQDN[k]
    <2>1. /\ entries' = [entries EXCEPT ![old] = RemoveKey(entries[old], k)]
          /\ resourceKeyToFQDN' = [x \in DOMAIN resourceKeyToFQDN \ {k} |-> resourceKeyToFQDN[x]]
      BY <1>2 DEF DeleteByResourceKey
    <2>2. old \in DOMAIN entries
      BY <1>2, IndexedEntry
    <2>3. ToSet(RemoveKey(entries[old], k)) = {x \in ToSet(entries[old]) : x.ResourceKey # k}
      BY <2>2, EntriesOfFacts, RemoveKeyFacts
    <2> HIDE DEF old
    <2>4. ASSUME NEW x \in DOMAIN resourceKeyToFQDN, x # k
          PROVE  LookupByResourceKey(x)' = LookupByResourceKey(x)
      <3>1. PICK y \in ToSet(entries[resourceKeyToFQDN[x]]) : y.ResourceKey = x
        BY IndexedEntry
      <3>2. /\ resourceKeyToFQDN[x] \in DOMAIN entries
            /\ resourceKeyToFQDN[x] \in DOMAIN entries'
            /\ y \in ToSet(entries'[resourceKeyToFQDN[x]])
        BY <2>1, <2>2, <2>3, <2>4, <3>1, IndexedEntry
      <3> QED
        BY <1>0, <3>1, <3>2, LookupFindsEntry, LookupFindsEntryNext
    <2> QED
      BY <2>1, <2>4 DEF Abstract!Withdraw, recordsMap
  <1> QED
    BY <1>1, <1>2

(* Each write of cache.go has exactly the effect it is named for on the    *)
(* table of records, in every state the cache can reach.                   *)
THEOREM CacheOperationsCorrect == CacheSpec => OperationsImplementRecords
  <1> DEFINE Effect ==
        /\ \A e \in Upserts :
             Upsert(e) => Abstract!Publish(e.ResourceKey,
                             [name |-> CanonicalName(e.FQDN),
                              addresses |-> StoredAddresses(e.Addresses)])
        /\ \A n \in Names : Delete(n) => Abstract!WithdrawName(CanonicalName(n))
        /\ \A k \in ResourceKeys : DeleteByResourceKey(k) => Abstract!Withdraw(k)
  <1>1. CacheInv => Effect
    BY UpsertPublishes, DeleteWithdrawsName, DeleteByResourceKeyWithdraws
  <1> HIDE DEF Effect
  <1>2. CacheInv /\ [CacheNext]_cacheVars => [Effect]_cacheVars
    BY <1>1
  <1>3. CacheSpec => [][Effect]_cacheVars
    BY <1>2, CacheInitInv, CacheNextPreserves, PTL DEF CacheSpec
  <1> QED
    BY <1>3 DEF OperationsImplementRecords, Effect

(* The cache, with its lists and its index, implements the table of        *)
(* records of DNSRecords.                                                  *)
THEOREM CacheRefinesRecords == CacheSpec => ImplementsRecords
  <1>1. CacheInit => Abstract!RecordsInit
    BY DEF CacheInit, Abstract!RecordsInit, recordsMap
  <1>2. CacheInv /\ [CacheNext]_cacheVars => [Abstract!RecordsNext]_recordsMap
    <2> SUFFICES ASSUME CacheInv, [CacheNext]_cacheVars
                 PROVE  [Abstract!RecordsNext]_recordsMap
      OBVIOUS
    <2>1. ASSUME NEW e \in Upserts, Upsert(e) PROVE Abstract!RecordsNext
      <3> DEFINE r == [name |-> CanonicalName(e.FQDN),
                       addresses |-> StoredAddresses(e.Addresses)]
      <3>1. r \in PublishedRecords /\ e.ResourceKey \in ResourceKeys
        BY CanonicalInNames DEF PublishedRecords, Upserts
      <3>2. Abstract!Publish(e.ResourceKey, r)
        BY <2>1, UpsertPublishes
      <3> HIDE DEF r
      <3> QED
        BY <3>1, <3>2 DEF Abstract!RecordsNext
    <2>2. ASSUME NEW n \in Names, Delete(n)
          PROVE  Abstract!RecordsNext
      BY <2>2, DeleteWithdrawsName, CanonicalInNames DEF Abstract!RecordsNext
    <2>3. ASSUME NEW k \in ResourceKeys, DeleteByResourceKey(k)
          PROVE  Abstract!RecordsNext
      BY <2>3, DeleteByResourceKeyWithdraws DEF Abstract!RecordsNext
    <2>4. CASE UNCHANGED cacheVars
      BY <2>4 DEF cacheVars, recordsMap, LookupByResourceKey, EntriesOf
    <2> QED
      BY <2>1, <2>2, <2>3, <2>4 DEF CacheNext
  <1> QED
    BY <1>1, <1>2, CacheInitInv, CacheNextPreserves, PTL
       DEF CacheSpec, ImplementsRecords, Abstract!RecordsSpec
=============================================================================
