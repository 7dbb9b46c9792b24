-------------------------- MODULE DNSLookupProofs --------------------------
(* Proofs about the read operations of DNSCache: Lookup's climb over the   *)
(* wildcards answers with the records of the closest name, and IsValid's   *)
(* one pass decides the rule of RFC 1034.                                  *)
EXTENDS DNSCacheProofs

(* Lower-casing keeps the number of labels; a name in use is a name. *)
LEMMA CanonicalOfName ==
    ASSUME NEW n \in Seq(Labels)
    PROVE  CanonicalName(n) \in Seq(Labels) /\ Len(CanonicalName(n)) = Len(n)
  BY NamesAssumption DEF CanonicalName

(* The wildcard tried in round i is a covering name, as long as the labels *)
(* that round i leaves, and one.                                           *)
LEMMA WildcardFacts ==
    ASSUME NEW n \in Seq(Labels), NEW i \in 1..(Len(n) - 1)
    PROVE  /\ WildcardAt(n, i) \in Seq(Labels) /\ Len(WildcardAt(n, i)) = Len(n) - i + 1
           /\ WildcardAt(n, i)[1] = Wildcard
           /\ Tail(WildcardAt(n, i)) = SubSeq(n, i + 1, Len(n))
  <1> DEFINE rest == SubSeq(n, i + 1, Len(n))
             w == <<Wildcard>> \o rest
  <1>1. i + 1 \in 1..Len(n) + 1 /\ Len(n) \in (i + 1) - 1..Len(n) /\ Len(n) \in Nat
    OBVIOUS
  <1>2. rest \in Seq(Labels) /\ Len(rest) = Len(n) - i
    BY <1>1, SubSeqProperties
  <1> HIDE DEF rest
  <1>3. <<Wildcard>> \in Seq(Labels) /\ Len(<<Wildcard>>) = 1 /\ <<Wildcard>>[1] = Wildcard
    BY NamesAssumption
  <1>4. /\ w \in Seq(Labels) /\ Len(w) = 1 + Len(rest) /\ w[1] = Wildcard
        /\ \A j \in 1..Len(rest) : w[j + 1] = rest[j]
    <2>1. /\ w \in Seq(Labels) /\ Len(w) = Len(<<Wildcard>>) + Len(rest)
          /\ \A j \in 1..(Len(<<Wildcard>>) + Len(rest)) :
                w[j] = IF j <= Len(<<Wildcard>>) THEN <<Wildcard>>[j]
                       ELSE rest[j - Len(<<Wildcard>>)]
      BY <1>2, <1>3, ConcatProperties
    <2> HIDE DEF w
    <2>2. Len(w) = 1 + Len(rest) /\ w[1] = Wildcard /\ Len(rest) \in Nat
      BY <1>1, <1>2, <1>3, <2>1
    <2>3. ASSUME NEW j \in 1..Len(rest) PROVE w[j + 1] = rest[j]
      <3>1. j + 1 \in 1..(1 + Len(rest)) /\ ~(j + 1 <= 1) /\ j + 1 - 1 = j
        BY <2>2
      <3> QED
        BY <1>3, <2>1, <3>1
    <2> QED
      BY <2>1, <2>2, <2>3
  <1> HIDE DEF w
  <1>5. Tail(w) \in Seq(Labels) /\ Len(Tail(w)) = Len(rest)
        /\ \A j \in 1..Len(rest) : Tail(w)[j] = rest[j]
    BY <1>2, <1>4
  <1>6. Tail(w) = rest
    BY <1>2, <1>5, SeqEqual
  <1>7. WildcardAt(n, i) = w
    BY DEF WildcardAt, w, rest
  <1> QED
    BY <1>1, <1>2, <1>4, <1>6, <1>7 DEF rest

(* A sequence is its head before its tail. *)
LEMMA HeadTail ==
    ASSUME NEW m \in Seq(Labels), Len(m) > 1, m[1] = Wildcard
    PROVE  m = <<Wildcard>> \o Tail(m)
  <1> DEFINE t == Tail(m)
             w == <<Wildcard>> \o t
  <1>1. t \in Seq(Labels) /\ Len(t) = Len(m) - 1 /\ \A j \in 1..Len(t) : t[j] = m[j + 1]
    OBVIOUS
  <1> HIDE DEF t
  <1>3. <<Wildcard>> \in Seq(Labels) /\ Len(<<Wildcard>>) = 1 /\ <<Wildcard>>[1] = Wildcard
    BY NamesAssumption
  <1>4. /\ w \in Seq(Labels) /\ Len(w) = Len(<<Wildcard>>) + Len(t)
        /\ \A j \in 1..(Len(<<Wildcard>>) + Len(t)) :
              w[j] = IF j <= Len(<<Wildcard>>) THEN <<Wildcard>>[j] ELSE t[j - Len(<<Wildcard>>)]
    BY <1>1, <1>3, ConcatProperties
  <1> HIDE DEF w
  <1>5. Len(m) \in Nat /\ Len(w) = Len(m)
    BY <1>1, <1>3, <1>4
  <1>6. \A j \in 1..Len(m) : w[j] = m[j]
    BY <1>1, <1>3, <1>4
  <1> QED
    BY <1>4, <1>5, <1>6, SeqEqual DEF w, t

(* The names that cover n are exactly those that Lookup tries. *)
LEMMA CoversIsRound ==
    ASSUME NEW n \in Seq(Labels), n # <<>>, NEW m \in Seq(Labels)
    PROVE  /\ \A i \in 0..(Len(n) - 1) : Covers(LookupKey(n, i), n)
           /\ Covers(m, n) =>
                 \E i \in 0..(Len(n) - 1) :
                    m = LookupKey(n, i) /\ (m # n => i = Len(n) - Len(m) + 1)
  <1>0. Len(n) \in Nat /\ Len(n) > 0
    OBVIOUS
  <1>1. ASSUME NEW i \in 0..(Len(n) - 1) PROVE Covers(LookupKey(n, i), n)
    <2>1. CASE i = 0
      BY <2>1 DEF LookupKey, Covers
    <2>2. CASE i # 0
      <3> DEFINE w == WildcardAt(n, i)
      <3>1. i \in 1..(Len(n) - 1)
        BY <1>0, <2>2
      <3>2. /\ Len(w) = Len(n) - i + 1 /\ w[1] = Wildcard
            /\ Tail(w) = SubSeq(n, i + 1, Len(n))
        BY <3>1, WildcardFacts
      <3> HIDE DEF w
      <3>3. Len(w) > 1 /\ Len(n) >= Len(w) /\ Len(n) - Len(w) + 2 = i + 1
        BY <1>0, <3>1, <3>2
      <3>4. Covers(w, n)
        BY <3>2, <3>3 DEF Covers
      <3> QED
        BY <2>2, <3>4 DEF LookupKey, w
    <2> QED
      BY <2>1, <2>2
  <1>2. ASSUME Covers(m, n)
        PROVE  \E i \in 0..(Len(n) - 1) :
                  m = LookupKey(n, i) /\ (m # n => i = Len(n) - Len(m) + 1)
    <2>1. CASE m = n
      BY <1>0, <2>1 DEF LookupKey
    <2>2. CASE m # n
      <3> DEFINE i == Len(n) - Len(m) + 1
      <3>1. /\ Len(m) > 1 /\ m[1] = Wildcard /\ Len(n) >= Len(m)
            /\ Tail(m) = SubSeq(n, Len(n) - Len(m) + 2, Len(n))
        BY <1>2, <2>2 DEF Covers
      <3>2. i \in 1..(Len(n) - 1) /\ i + 1 = Len(n) - Len(m) + 2
        BY <1>0, <3>1
      <3>3. m = <<Wildcard>> \o Tail(m)
        BY <3>1, HeadTail
      <3>4. m = <<Wildcard>> \o SubSeq(n, i + 1, Len(n))
        BY <3>1, <3>2, <3>3
      <3>5. i # 0
        BY <3>2
      <3> HIDE DEF i
      <3>6. m = LookupKey(n, i)
        BY <3>4, <3>5 DEF LookupKey, WildcardAt
      <3> QED
        BY <3>2, <3>6 DEF i
    <2> QED
      BY <2>1, <2>2
  <1> QED
    BY <1>1, <1>2

(* The index and the lists agree on the keys of a name. *)
LEMMA KeysOfName ==
    ASSUME CacheInv, NEW f \in DOMAIN entries
    PROVE  {e.ResourceKey : e \in ToSet(entries[f])}
              = {k \in DOMAIN resourceKeyToFQDN : resourceKeyToFQDN[k] = f}
  <1>1. \A e \in ToSet(entries[f]) :
           e.ResourceKey \in DOMAIN resourceKeyToFQDN /\ resourceKeyToFQDN[e.ResourceKey] = f
    BY DEF CacheInv, IndexConsistent, EntriesIndexed
  <1> QED
    BY <1>1, IndexedEntry

(* A name with records is a key of the entries map, and a sequence of      *)
(* labels.                                                                 *)
LEMMA IndexedName ==
    ASSUME CacheInv, NEW k \in DOMAIN resourceKeyToFQDN
    PROVE  resourceKeyToFQDN[k] \in DOMAIN entries /\ resourceKeyToFQDN[k] \in Seq(Labels)
  <1>1. resourceKeyToFQDN[k] \in DOMAIN entries
    BY DEF CacheInv, IndexConsistent, IndexedPresent
  <1>2. resourceKeyToFQDN[k] \in Names
    BY CanonicalInNames DEF CacheInv, CacheTypeOK, CanonicalNames
  <1> QED
    BY <1>1, <1>2, NamesAssumption

(* What the first round that finds a list finds is the closest covering    *)
(* name with records, when that list has an entry.                         *)
LEMMA LookupIsClosest ==
    ASSUME CacheInv, NEW q \in Seq(Labels), Lookup(q) # <<>>
    PROVE  {e.ResourceKey : e \in ToSet(Lookup(q))} = ClosestRecords(CanonicalName(q))
  <1> DEFINE n == CanonicalName(q)
             rounds == LookupRounds(n)
             i == Min(rounds)
             f == LookupKey(n, i)
  <1>0. n \in Seq(Labels) /\ Len(n) \in Nat
    BY CanonicalOfName
  <1>2. rounds # {} /\ Lookup(q) = entries[f]
    BY DEF Lookup
  <1>1. n \in Seq(Labels) /\ n # <<>> /\ Len(n) \in Nat
    <2> HIDE DEF n
    <2>1. Len(n) = 0 => rounds = {}
      BY <1>0 DEF LookupRounds
    <2> QED
      BY <1>0, <1>2, <2>1
  <1> HIDE DEF n
  <1>3. rounds \in SUBSET Nat
    BY <1>1 DEF LookupRounds
  <1>4. i \in rounds /\ \A j \in rounds : i <= j
    <2> HIDE DEF rounds
    <2> QED
      BY <1>2, <1>3, MinFacts
  <1> HIDE DEF i
  <1>5. i \in 0..(Len(n) - 1) /\ f \in DOMAIN entries
    BY <1>4 DEF LookupRounds
  <1>6. ASSUME NEW j \in 0..(Len(n) - 1), LookupKey(n, j) \in DOMAIN entries PROVE i <= j
    BY <1>4, <1>6 DEF LookupRounds
  <1> HIDE DEF rounds
  <1>7. f \in Seq(Labels) /\ Covers(f, n)
    <2>1. f \in Names
      BY <1>5, CanonicalInNames DEF CacheInv, CacheTypeOK, CanonicalNames
    <2>2. f \in Seq(Labels)
      BY <2>1, NamesAssumption
    <2> QED
      BY <1>1, <1>5, <2>2, CoversIsRound
  <1>8. i = 0 => f = n
    BY DEF LookupKey
  <1>9. i # 0 => Len(f) = Len(n) - i + 1 /\ Len(f) \in Nat
    <2> HAVE i # 0
    <2>1. i \in 1..(Len(n) - 1)
      BY <1>1, <1>5
    <2>2. f = WildcardAt(n, i)
      BY DEF LookupKey
    <2>3. Len(f) = Len(n) - i + 1
      BY <1>1, <2>1, <2>2, WildcardFacts
    <2> QED
      BY <1>7, <2>3
  <1>10. ASSUME NEW k \in DOMAIN resourceKeyToFQDN, Covers(resourceKeyToFQDN[k], n)
         PROVE  LET m == resourceKeyToFQDN[k]
                IN  \E j \in i..(Len(n) - 1) :
                       /\ m = LookupKey(n, j) /\ (m = n => i = 0)
                       /\ m # n => j = Len(n) - Len(m) + 1
    <2> DEFINE m == resourceKeyToFQDN[k]
    <2>1. m \in DOMAIN entries /\ m \in Seq(Labels)
      BY IndexedName
    <2>2. Covers(m, n)
      BY <1>10
    <2> HIDE DEF m
    <2>3. PICK j \in 0..(Len(n) - 1) :
             m = LookupKey(n, j) /\ (m # n => j = Len(n) - Len(m) + 1)
      BY <1>1, <2>1, <2>2, CoversIsRound
    <2>4. i <= j
      BY <1>6, <2>1, <2>3
    <2>5. ASSUME m = n PROVE i = 0
      <3>1. 0 \in 0..(Len(n) - 1) /\ LookupKey(n, 0) = n
        BY <1>1 DEF LookupKey
      <3>2. i <= 0
        BY <1>6, <2>1, <2>5, <3>1
      <3> QED
        BY <1>5, <3>2
    <2>6. j \in i..(Len(n) - 1)
      BY <1>1, <1>5, <2>4
    <2> QED
      BY <2>3, <2>5, <2>6 DEF m
  <1>11. ASSUME NEW k \in DOMAIN resourceKeyToFQDN, resourceKeyToFQDN[k] = f
         PROVE  k \in ClosestRecords(n)
    <2>1. ASSUME NEW m \in CoveringNames(n) PROVE Closer(f, m, n)
      <3>1. PICK x \in DOMAIN resourceKeyToFQDN : m = resourceKeyToFQDN[x] /\ Covers(m, n)
        BY DEF CoveringNames
      <3>2. PICK j \in i..(Len(n) - 1) :
               /\ m = LookupKey(n, j) /\ (m = n => i = 0)
               /\ m # n => j = Len(n) - Len(m) + 1
        BY <1>10, <3>1
      <3>3. m \in Seq(Labels)
        BY <3>1, IndexedName
      <3>4. Len(m) \in Nat /\ i \in Nat /\ j \in Nat
        BY <1>5, <3>3
      <3>5. CASE i = 0
        BY <1>8, <3>5 DEF Closer
      <3>6. CASE i # 0
        <4>1. m # n /\ Len(f) >= Len(m)
          BY <1>1, <1>9, <3>2, <3>4, <3>6
        <4> QED
          BY <4>1 DEF Closer
      <3> QED
        BY <3>5, <3>6
    <2> QED
      BY <1>7, <1>11, <2>1 DEF ClosestRecords
  <1>12. ASSUME NEW k \in ClosestRecords(n)
         PROVE  k \in DOMAIN resourceKeyToFQDN /\ resourceKeyToFQDN[k] = f
    <2> DEFINE m == resourceKeyToFQDN[k]
    <2>1. /\ k \in DOMAIN resourceKeyToFQDN /\ Covers(m, n)
          /\ \A g \in CoveringNames(n) : Closer(m, g, n)
      BY DEF ClosestRecords
    <2>2. f \in CoveringNames(n)
      <3>1. entries[f] \in Seq(DNSCacheEntry) /\ entries[f] # <<>>
        BY <1>2, <1>5 DEF CacheInv, CacheTypeOK
      <3>2. entries[f][1] \in ToSet(entries[f])
        BY <3>1 DEF ToSet
      <3>3. PICK x \in DOMAIN resourceKeyToFQDN : resourceKeyToFQDN[x] = f
        BY <1>5, <3>2 DEF CacheInv, IndexConsistent, EntriesIndexed
      <3> QED
        BY <1>7, <3>3 DEF CoveringNames
    <2>3. Closer(m, f, n)
      BY <2>1, <2>2
    <2>4. PICK j \in i..(Len(n) - 1) :
             /\ m = LookupKey(n, j) /\ (m = n => i = 0)
             /\ m # n => j = Len(n) - Len(m) + 1
      BY <1>10, <2>1
    <2>5. m \in Seq(Labels)
      BY <2>1, IndexedName
    <2> HIDE DEF m
    <2>6. Len(m) \in Nat /\ i \in Nat /\ j \in Nat /\ i <= j
      BY <1>5, <2>4, <2>5
    <2>7. CASE m = n
      BY <1>8, <2>1, <2>4, <2>7 DEF m
    <2>8. CASE m # n
      <3>1. f # n /\ Len(m) >= Len(f)
        BY <2>3, <2>8 DEF Closer
      <3>2. i # 0
        BY <1>8, <3>1
      <3>3. i = j
        BY <1>1, <1>9, <2>4, <2>6, <2>8, <3>1, <3>2
      <3> QED
        BY <2>1, <2>4, <3>3 DEF m
    <2> QED
      BY <2>7, <2>8
  <1>13. {k \in DOMAIN resourceKeyToFQDN : resourceKeyToFQDN[k] = f} = ClosestRecords(n)
    <2> HIDE DEF f
    <2> QED
      BY <1>11, <1>12
  <1> QED
    BY <1>2, <1>5, <1>13, KeysOfName DEF n

(* Whatever has been upserted and deleted, Lookup's search from the name   *)
(* up over the wildcards answers, when it answers, with all records of the *)
(* closest name that covers the question and with no other.                *)
THEOREM LookupCorrect == CacheSpec => []LookupAnswersClosest
  <1>1. CacheInv => LookupAnswersClosest
    BY LookupIsClosest, NamesAssumption DEF LookupAnswersClosest
  <1> QED
    BY <1>1, CacheInitInv, CacheNextPreserves, PTL DEF CacheSpec

(* The addresses that Services and IsValid read are those of the entries   *)
(* found.                                                                  *)
LEMMA AddressesOfFacts ==
    ASSUME NEW es \in Seq(DNSCacheEntry)
    PROVE  /\ AddressesOf(es) \in Seq(Addresses)
           /\ ToSet(AddressesOf(es)) = UNION {ToSet(e.Addresses) : e \in ToSet(es)}
  <1> DEFINE lists == [i \in DOMAIN es |-> es[i].Addresses]
  <1>1. lists \in Seq(Seq(Addresses)) /\ DOMAIN lists = DOMAIN es
    <2>1. ASSUME NEW i \in DOMAIN es PROVE es[i].Addresses \in Seq(Addresses)
      <3>1. es[i] \in DNSCacheEntry
        OBVIOUS
      <3> QED
        BY <3>1 DEF DNSCacheEntry
    <2>2. DOMAIN es = 1..Len(es) /\ Len(es) \in Nat
      OBVIOUS
    <2> QED
      BY <2>1, <2>2
  <1>2. {ToSet(lists[i]) : i \in DOMAIN lists} = {ToSet(e.Addresses) : e \in ToSet(es)}
    <2>1. \A i \in DOMAIN lists : lists[i] = es[i].Addresses
      BY <1>1
    <2>2. ToSet(es) = {es[i] : i \in DOMAIN es}
      BY DEF ToSet
    <2> HIDE DEF lists
    <2> QED
      BY <1>1, <2>1, <2>2
  <1> HIDE DEF lists
  <1>3. /\ FlattenSeq(lists) \in Seq(Addresses)
        /\ ToSet(FlattenSeq(lists)) = UNION {ToSet(lists[i]) : i \in DOMAIN lists}
    BY <1>1, FlattenSeqFacts
  <1> QED
    BY <1>2, <1>3 DEF AddressesOf, lists

(* What Lookup finds is the list of a name in the map. *)
LEMMA LookupFound ==
    ASSUME NEW n \in Seq(Labels), LookupRounds(CanonicalName(n)) # {}
    PROVE  LET key == LookupKey(CanonicalName(n), Min(LookupRounds(CanonicalName(n))))
           IN  key \in DOMAIN entries /\ Lookup(n) = entries[key]
  <1> DEFINE fqdn == CanonicalName(n)
             rounds == LookupRounds(fqdn)
  <1>1. Len(fqdn) \in Nat
    BY CanonicalOfName
  <1>2. rounds \in SUBSET Nat /\ rounds # {}
    BY <1>1 DEF LookupRounds
  <1>3. Min(rounds) \in rounds
    <2> HIDE DEF rounds
    <2> QED
      BY <1>2, MinFacts
  <1>4. LookupKey(fqdn, Min(rounds)) \in DOMAIN entries
    BY <1>3 DEF LookupRounds
  <1> QED
    BY <1>4 DEF Lookup

(* Lookup returns a list of entries, none if it finds nothing. *)
LEMMA LookupType ==
    ASSUME CacheInv, NEW n \in Seq(Labels)
    PROVE  Lookup(n) \in Seq(DNSCacheEntry)
  <1>1. CASE LookupRounds(CanonicalName(n)) = {}
    BY <1>1 DEF Lookup
  <1>2. CASE LookupRounds(CanonicalName(n)) # {}
    BY <1>2, LookupFound DEF CacheInv, CacheTypeOK
  <1> QED
    BY <1>1, <1>2

(* One pass that stops at an address after an alias, or at an alias after  *)
(* anything, accepts just the lists of addresses and the single elements.  *)
LEMMA OnePass ==
    ASSUME NEW list \in Seq(Addresses)
    PROVE  (\A j \in DOMAIN list :
               /\ \A i \in 1..(j - 1) : list[i] \in IPs
               /\ list[j] \notin IPs => \A i \in 1..(j - 1) : list[i] \notin IPs)
            <=> ToSet(list) \subseteq IPs \/ Len(list) = 1
  <1> DEFINE Accepted ==
        \A j \in DOMAIN list :
           /\ \A i \in 1..(j - 1) : list[i] \in IPs
           /\ list[j] \notin IPs => \A i \in 1..(j - 1) : list[i] \notin IPs
  <1>0. Len(list) \in Nat /\ DOMAIN list = 1..Len(list)
    OBVIOUS
  <1>1. ASSUME Accepted, NEW j \in DOMAIN list, list[j] \notin IPs PROVE Len(list) = 1
    <2>1. j = 1
      <3>1. ASSUME j # 1 PROVE FALSE
        <4>1. 1 \in 1..(j - 1)
          BY <1>0, <3>1
        <4> QED
          BY <1>1, <4>1
      <3> QED
        BY <3>1
    <2>2. ASSUME Len(list) # 1 PROVE FALSE
      <3>1. 2 \in DOMAIN list /\ 1 \in 1..(2 - 1)
        BY <1>0, <2>1, <2>2
      <3>2. list[1] \in IPs
        BY <1>1, <3>1
      <3> QED
        BY <1>1, <2>1, <3>2
    <2> QED
      BY <2>2
  <1>2. ASSUME ToSet(list) \subseteq IPs PROVE Accepted
    <2>1. \A j \in DOMAIN list : list[j] \in IPs
      BY <1>2 DEF ToSet
    <2>2. \A j \in DOMAIN list : \A i \in 1..(j - 1) : i \in DOMAIN list
      BY <1>0
    <2> QED
      BY <2>1, <2>2
  <1>3. ASSUME Len(list) = 1 PROVE Accepted
    <2>1. \A j \in DOMAIN list : 1..(j - 1) = {}
      BY <1>0, <1>3
    <2> QED
      BY <2>1
  <1>4. ASSUME Accepted PROVE ToSet(list) \subseteq IPs \/ Len(list) = 1
    BY <1>1, <1>4 DEF ToSet
  <1> QED
    BY <1>2, <1>3, <1>4

(* IsValid's one pass over the addresses of a name decides the rule of RFC *)
(* 1034 for every list of entries the cache can hold: addresses only, or a *)
(* single alias and nothing else.                                          *)
THEOREM IsValidCorrect == CacheSpec => []IsValidMeetsRFC1034
  <1>1. CacheInv => IsValidMeetsRFC1034
    <2> SUFFICES ASSUME CacheInv, NEW n \in Names
                 PROVE  LET as == AddressesOf(Lookup(n))
                        IN  IsValid(n) <=> /\ Lookup(n) # <<>>
                                           /\ ToSet(as) \subseteq IPs \/ Len(as) = 1
      BY DEF IsValidMeetsRFC1034
    <2>1. AddressesOf(Lookup(n)) \in Seq(Addresses)
      BY LookupType, AddressesOfFacts, NamesAssumption
    <2> QED
      BY <2>1, OnePass DEF IsValid
  <1> QED
    BY <1>1, CacheInitInv, CacheNextPreserves, PTL DEF CacheSpec
=============================================================================
