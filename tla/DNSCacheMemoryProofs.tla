------------------------ MODULE DNSCacheMemoryProofs ------------------------
(* Proofs about DNSCacheMemory: the arrays hold what the lists say, and a  *)
(* query that no replacement or removal of its name disturbs reads what it *)
(* had looked up, for any keys, names, addresses and number of writes.     *)
EXTENDS DNSCacheMemory, DNSLookupProofs, FiniteSetTheorems

Slot == DNSCacheEntry \cup {NoEntry}
Slices == [array : Arrays, len : Nat]

(* The arrays hp, reached by the slices hd, hold the lists es. *)
Represents(hp, hd, es) ==
    /\ hp \in [Arrays -> Seq(Slot)]
    /\ hd \in [DOMAIN es -> Slices] /\ DOMAIN es \subseteq CanonicalNames
    /\ es \in [DOMAIN es -> Seq(DNSCacheEntry)]
    /\ \A f \in DOMAIN es :
          /\ hd[f].len <= Len(hp[hd[f].array]) /\ Len(es[f]) = hd[f].len
          /\ \A j \in 1..hd[f].len : hp[hd[f].array][j] = es[f][j]
    /\ \A f, g \in DOMAIN es : hd[f].array = hd[g].array => f = g

(* The lists es with that of f replaced or added. *)
With(es, f, list) == [g \in DOMAIN es \cup {f} |-> IF g = f THEN list ELSE es[g]]

(* The query's array is still long enough for it. *)
Room(hp) == query.array \in Arrays => query.len <= Len(hp[query.array])

(* The first n elements of array x are in hp as in before. *)
SameFront(before, hp, x, n) ==
    x \in Arrays => /\ Len(hp[x]) = Len(before[x])
                    /\ \A j \in 1..n : hp[x][j] = before[x][j]

(* hp has what the query is about to read, as heap has it, and only the    *)
(* name that it asked for can still write to its array, further behind.    *)
Spared(hp, hd) ==
    /\ query.array \in Arrays =>
          \A j \in 1..query.len : hp[query.array][j] = heap[query.array][j]
    /\ \A f \in DOMAIN hd :
          hd[f].array = query.array => f = query.name /\ query.len <= hd[f].len

Queries ==
    [name : CanonicalNames \cup {<<>>}, array : Arrays \cup {0}, len : Nat, read : Seq(Slot),
     found : Seq(DNSCacheEntry), disturbed : BOOLEAN, raced : BOOLEAN]

(* What a query that is not disturbed has read, and will read, is what it  *)
(* found.                                                                  *)
QueryOK ==
    /\ query \in Queries
    /\ query.array \notin Arrays => query.len = 0
    /\ Len(query.read) <= query.len
    /\ ~query.disturbed =>
          /\ ~query.raced /\ Len(query.found) = query.len
          /\ \A j \in 1..Len(query.read) : query.read[j] = query.found[j]
          /\ \A j \in (Len(query.read) + 1)..query.len : heap[query.array][j] = query.found[j]

MemoryInv ==
    /\ CacheInv
    /\ Represents(heap, header, entries)
    /\ QueryOK /\ Room(heap)
    /\ ~query.disturbed => Spared(heap, header)

-----------------------------------------------------------------------------
(* Slices. *)

(* Reading a slice from the front gives the list it stands for. *)
LEMMA ElementsFacts ==
    ASSUME NEW hp, NEW hd, NEW es, Represents(hp, hd, es), NEW f
    PROVE  Elements([heap |-> hp, header |-> hd], f) = IF f \in DOMAIN es THEN es[f] ELSE <<>>
  <1> DEFINE m == [heap |-> hp, header |-> hd]
  <1>1. m.heap = hp /\ m.header = hd /\ DOMAIN hd = DOMAIN es
    BY DEF Represents
  <1>2. CASE f \notin DOMAIN es
    BY <1>1, <1>2 DEF Elements
  <1>3. CASE f \in DOMAIN es
    <2> DEFINE array == hp[hd[f].array]
               n == hd[f].len
               s == SubSeq(array, 1, n)
    <2>1. /\ array \in Seq(Slot) /\ n \in Nat /\ n <= Len(array)
          /\ es[f] \in Seq(DNSCacheEntry) /\ es[f] \in Seq(Slot) /\ Len(es[f]) = n
          /\ \A j \in 1..n : array[j] = es[f][j]
      BY <1>3 DEF Represents, Slices, Slot
    <2>2. Elements(m, f) = s
      BY <1>1, <1>3 DEF Elements
    <2> HIDE DEF array, n, m
    <2>3. /\ s \in Seq(Slot) /\ Len(s) = n
          /\ \A j \in 1..n : s[j] = array[j]
      <3>1. \A j \in 1..n : array[j] \in Slot
        BY <2>1
      <3>2. /\ s \in Seq(Slot) /\ Len(s) = IF 1 <= n THEN n - 1 + 1 ELSE 0
            /\ \A j \in 1..(n - 1 + 1) : s[j] = array[1 + j - 1]
        BY <2>1, <3>1, SubSeqProperties
      <3> HIDE DEF s
      <3> QED
        BY <2>1, <3>2
    <2> HIDE DEF s
    <2>4. s = es[f]
      BY <2>1, <2>3, SeqEqual
    <2> QED
      BY <1>3, <2>2, <2>4 DEF m
  <1> QED
    BY <1>2, <1>3

(* Giving the name f a slice and its array contents. *)
LEMMA PutFacts ==
    ASSUME NEW hp, NEW hd, NEW es, Represents(hp, hd, es), NEW f \in CanonicalNames,
           NEW slice \in Slices, NEW array \in Seq(Slot), NEW list \in Seq(DNSCacheEntry),
           Len(list) = slice.len, slice.len <= Len(array),
           \A j \in 1..slice.len : array[j] = list[j],
           \A g \in DOMAIN es \ {f} : hd[g].array # slice.array,
           NEW m, m = Put([heap |-> hp, header |-> hd], f, slice, array)
    PROVE  /\ m = [heap |-> m.heap, header |-> m.header]
           /\ Represents(m.heap, m.header, With(es, f, list))
           /\ Room(hp) /\ (slice.array = query.array => query.len <= Len(array)) => Room(m.heap)
           /\ /\ Spared(hp, hd)
              /\ slice.array = query.array =>
                    /\ f = query.name /\ query.len <= slice.len
                    /\ \A j \in 1..query.len : array[j] = hp[query.array][j]
              => Spared(m.heap, m.header)
  <1> DEFINE hp2 == [hp EXCEPT ![slice.array] = array]
             hd2 == [g \in DOMAIN hd \cup {f} |-> IF g = f THEN slice ELSE hd[g]]
             es2 == With(es, f, list)
  <1>1. m = [heap |-> hp2, header |-> hd2] /\ m.heap = hp2 /\ m.header = hd2
    BY DEF Put
  <1>2. /\ hp \in [Arrays -> Seq(Slot)] /\ DOMAIN hd = DOMAIN es
        /\ hd \in [DOMAIN es -> Slices] /\ slice.array \in Arrays
    BY DEF Represents, Slices
  <1>3. /\ hp2 \in [Arrays -> Seq(Slot)] /\ hp2[slice.array] = array
        /\ \A x \in Arrays \ {slice.array} : hp2[x] = hp[x]
    BY <1>2
  <1>4. /\ hd2 \in [DOMAIN es2 -> Slices] /\ DOMAIN es2 = DOMAIN es \cup {f}
        /\ DOMAIN hd2 = DOMAIN es2
        /\ hd2[f] = slice /\ \A g \in DOMAIN es \ {f} : hd2[g] = hd[g]
    BY <1>2 DEF With
  <1>5. /\ es2 \in [DOMAIN es2 -> Seq(DNSCacheEntry)] /\ es2[f] = list
        /\ \A g \in DOMAIN es \ {f} : es2[g] = es[g]
    BY DEF Represents, With
  <1> HIDE DEF hp2, hd2, es2
  <1>6. ASSUME NEW g \in DOMAIN es2
        PROVE  /\ hd2[g].len <= Len(hp2[hd2[g].array]) /\ Len(es2[g]) = hd2[g].len
               /\ \A j \in 1..hd2[g].len : hp2[hd2[g].array][j] = es2[g][j]
    <2>1. CASE g = f
      BY <1>3, <1>4, <1>5, <2>1
    <2>2. CASE g # f
      <3>1. g \in DOMAIN es \ {f} /\ hd2[g] = hd[g] /\ es2[g] = es[g] /\ hd[g].array \in Arrays
        BY <1>2, <1>4, <1>5, <2>2 DEF Slices
      <3>2. hp2[hd[g].array] = hp[hd[g].array]
        BY <1>3, <3>1
      <3> QED
        BY <3>1, <3>2 DEF Represents
    <2> QED
      BY <2>1, <2>2
  <1>7. ASSUME NEW g \in DOMAIN es2, NEW h \in DOMAIN es2, hd2[g].array = hd2[h].array
        PROVE  g = h
    BY <1>4, <1>7 DEF Represents
  <1>8. Represents(hp2, hd2, es2)
    <2>1. DOMAIN es2 \subseteq CanonicalNames
      BY <1>4 DEF Represents
    <2> QED
      BY <1>3, <1>4, <1>5, <1>6, <1>7, <2>1 DEF Represents
  <1>9. ASSUME Room(hp), slice.array = query.array => query.len <= Len(array) PROVE Room(hp2)
    BY <1>3, <1>9 DEF Room
  <1>10. ASSUME Spared(hp, hd),
                slice.array = query.array =>
                   /\ f = query.name /\ query.len <= slice.len
                   /\ \A j \in 1..query.len : array[j] = hp[query.array][j]
         PROVE  Spared(hp2, hd2)
    <2>1. ASSUME query.array \in Arrays, NEW j \in 1..query.len
          PROVE  hp2[query.array][j] = heap[query.array][j]
      BY <1>3, <1>10, <2>1 DEF Spared
    <2>2. ASSUME NEW g \in DOMAIN hd2, hd2[g].array = query.array
          PROVE  g = query.name /\ query.len <= hd2[g].len
      BY <1>2, <1>4, <1>10, <2>2 DEF Spared
    <2> QED
      BY <2>1, <2>2 DEF Spared
  <1> QED
    BY <1>1, <1>8, <1>9, <1>10 DEF es2

(* The slice of a name, its array and its list. *)
LEMMA SliceFacts ==
    ASSUME NEW hp, NEW hd, NEW es, Represents(hp, hd, es), NEW f \in DOMAIN es
    PROVE  /\ f \in CanonicalNames /\ hd[f] \in Slices /\ hp[hd[f].array] \in Seq(Slot)
           /\ hd[f].array \in Arrays /\ hd[f].len \in Nat
           /\ hd[f].len <= Len(hp[hd[f].array])
           /\ es[f] \in Seq(DNSCacheEntry) /\ Len(es[f]) = hd[f].len
           /\ \A j \in 1..hd[f].len : hp[hd[f].array][j] = es[f][j]
           /\ \A g \in DOMAIN es \ {f} : hd[g].array # hd[f].array
           /\ \A list : With(es, f, list) = [es EXCEPT ![f] = list]
  <1>1. f \in CanonicalNames /\ hd[f] \in Slices /\ es[f] \in Seq(DNSCacheEntry)
    BY DEF Represents
  <1>2. hd[f].array \in Arrays /\ hd[f].len \in Nat
    BY <1>1 DEF Slices
  <1>3. es \in [DOMAIN es -> Seq(DNSCacheEntry)] /\ hp[hd[f].array] \in Seq(Slot)
    BY <1>2 DEF Represents
  <1>4. /\ hd[f].len <= Len(hp[hd[f].array])
        /\ Len(es[f]) = hd[f].len
        /\ \A j \in 1..hd[f].len : hp[hd[f].array][j] = es[f][j]
        /\ \A g \in DOMAIN es \ {f} : hd[g].array # hd[f].array
    BY DEF Represents
  <1>5. ASSUME NEW list
        PROVE  With(es, f, list) = [es EXCEPT ![f] = list]
    BY <1>3 DEF With
  <1> QED
    BY <1>1, <1>2, <1>3, <1>4, <1>5

(* Shifting the elements of an array to the front removes one of the list, *)
(* and disturbs no query for another name.                                 *)
LEMMA RemoveElementFacts ==
    ASSUME NEW hp, NEW hd, NEW es, Represents(hp, hd, es), NEW f \in DOMAIN es,
           NEW k, DistinctKeys(es[f]), HasKey(es[f], k),
           NEW m, m = RemoveElement([heap |-> hp, header |-> hd], f, k)
    PROVE  /\ m = [heap |-> m.heap, header |-> m.header]
           /\ Represents(m.heap, m.header, [es EXCEPT ![f] = RemoveKey(es[f], k)])
           /\ Room(hp) => Room(m.heap)
           /\ Spared(hp, hd) /\ f # query.name => Spared(m.heap, m.header)
  <1> DEFINE array == hp[hd[f].array]
             n == hd[f].len
  <1>1. /\ f \in CanonicalNames /\ hd[f] \in Slices /\ array \in Seq(Slot)
        /\ hd[f].array \in Arrays /\ n \in Nat /\ n <= Len(array)
        /\ es[f] \in Seq(DNSCacheEntry) /\ Len(es[f]) = n
        /\ \A j \in 1..n : array[j] = es[f][j]
        /\ \A g \in DOMAIN es \ {f} : hd[g].array # hd[f].array
        /\ \A list : With(es, f, list) = [es EXCEPT ![f] = list]
    BY SliceFacts
  <1>2. PICK i \in DOMAIN es[f] : es[f][i].ResourceKey = k
    BY DEF HasKey
  <1>3. FirstIndex(es[f], k) = i /\ i \in 1..n
    BY <1>1, <1>2, FirstIndexUnique
  <1> DEFINE slice == [hd[f] EXCEPT !.len = n - 1]
             shifted == [j \in DOMAIN array |-> array[IF j \in i..(n - 1) THEN j + 1 ELSE j]]
             rest == RemoveAt(es[f], i)
  <1>4. m = Put([heap |-> hp, header |-> hd], f, slice, shifted)
    <2>1. Elements([heap |-> hp, header |-> hd], f) = es[f]
      BY ElementsFacts
    <2> QED
      BY <1>3, <2>1 DEF RemoveElement
  <1>5. rest = RemoveKey(es[f], k)
    BY <1>3 DEF RemoveKey
  <1>6. /\ rest \in Seq(DNSCacheEntry) /\ Len(rest) = n - 1
        /\ \A j \in 1..(n - 1) : rest[j] = IF j < i THEN es[f][j] ELSE es[f][j + 1]
    BY <1>1, <1>3, RemoveAtFacts
  <1> HIDE DEF rest
  <1>7. slice \in Slices /\ slice.len = n - 1 /\ slice.array = hd[f].array
    <2>1. n - 1 \in Nat
      BY <1>1, <1>3
    <2> HIDE DEF n
    <2> QED
      BY <1>1, <2>1 DEF Slices
  <1> HIDE DEF slice
  <1>8. /\ shifted \in Seq(Slot) /\ Len(shifted) = Len(array)
        /\ \A j \in 1..Len(array) :
              shifted[j] = array[IF j \in i..(n - 1) THEN j + 1 ELSE j]
    <2> HIDE DEF array, n
    <2>1. Len(array) \in Nat /\ DOMAIN array = 1..Len(array)
      BY <1>1
    <2>2. \A j \in 1..Len(array) : (IF j \in i..(n - 1) THEN j + 1 ELSE j) \in 1..Len(array)
      BY <1>1, <1>3, <2>1
    <2>3. \A j \in 1..Len(array) : array[IF j \in i..(n - 1) THEN j + 1 ELSE j] \in Slot
      BY <1>1, <2>2
    <2> QED
      BY <2>1, <2>3
  <1> HIDE DEF shifted, array, n
  <1>9. ASSUME NEW j \in 1..slice.len PROVE shifted[j] = rest[j]
    <2>1. /\ j \in 1..Len(array) /\ j \in 1..(n - 1) /\ j \in 1..n /\ j + 1 \in 1..n
          /\ j \in i..(n - 1) <=> ~(j < i)
      BY <1>1, <1>3, <1>7
    <2>2. CASE j < i
      BY <1>1, <1>6, <1>8, <2>1, <2>2
    <2>3. CASE ~(j < i)
      BY <1>1, <1>6, <1>8, <2>1, <2>3
    <2> QED
      BY <2>2, <2>3
  <1>10. /\ slice.len <= Len(shifted) /\ Len(rest) = slice.len
         /\ \A g \in DOMAIN es \ {f} : hd[g].array # slice.array
    BY <1>1, <1>6, <1>7, <1>8
  <1> f \in CanonicalNames
    BY <1>1
  <1>11. /\ m = [heap |-> m.heap, header |-> m.header]
         /\ Represents(m.heap, m.header, With(es, f, rest))
         /\ Room(hp) /\ (slice.array = query.array => query.len <= Len(shifted)) => Room(m.heap)
         /\ /\ Spared(hp, hd)
            /\ slice.array = query.array =>
                  /\ f = query.name /\ query.len <= slice.len
                  /\ \A j \in 1..query.len : shifted[j] = hp[query.array][j]
            => Spared(m.heap, m.header)
    BY <1>4, <1>6, <1>7, <1>8, <1>9, <1>10, PutFacts
  <1>12. Represents(m.heap, m.header, [es EXCEPT ![f] = RemoveKey(es[f], k)])
    BY <1>1, <1>5, <1>11
  <1>13. Room(hp) => (slice.array = query.array => query.len <= Len(shifted))
    BY <1>1, <1>7, <1>8 DEF Room, array
  <1>14. Spared(hp, hd) /\ f # query.name => slice.array # query.array
    <2>1. DOMAIN hd = DOMAIN es
      BY DEF Represents
    <2> QED
      BY <1>7, <2>1 DEF Spared
  <1> QED
    BY <1>11, <1>12, <1>13, <1>14

(* Overwriting the element of a key disturbs no query for another name. *)
LEMMA SetElementFacts ==
    ASSUME NEW hp, NEW hd, NEW es, Represents(hp, hd, es), NEW f \in DOMAIN es,
           NEW e \in DNSCacheEntry, DistinctKeys(es[f]), HasKey(es[f], e.ResourceKey),
           NEW m, m = SetElement([heap |-> hp, header |-> hd], f, e)
    PROVE  /\ Represents(m.heap, m.header, With(es, f, PutEntry(es[f], e)))
           /\ Room(hp) => Room(m.heap)
           /\ Spared(hp, hd) /\ f # query.name => Spared(m.heap, m.header)
  <1> DEFINE array == hp[hd[f].array]
             n == hd[f].len
  <1>1. /\ f \in CanonicalNames /\ hd[f] \in Slices /\ array \in Seq(Slot)
        /\ hd[f].array \in Arrays /\ n \in Nat /\ n <= Len(array)
        /\ es[f] \in Seq(DNSCacheEntry) /\ Len(es[f]) = n
        /\ \A j \in 1..n : array[j] = es[f][j]
        /\ \A g \in DOMAIN es \ {f} : hd[g].array # hd[f].array
    BY SliceFacts
  <1>2. PICK i \in DOMAIN es[f] : es[f][i].ResourceKey = e.ResourceKey
    BY DEF HasKey
  <1>3. FirstIndex(es[f], e.ResourceKey) = i /\ i \in 1..n
    BY <1>1, <1>2, FirstIndexUnique
  <1> DEFINE slice == hd[f]
             set == [array EXCEPT ![i] = e]
             list == [es[f] EXCEPT ![i] = e]
  <1>4. m = Put([heap |-> hp, header |-> hd], f, slice, set)
    <2>1. Elements([heap |-> hp, header |-> hd], f) = es[f]
      BY ElementsFacts
    <2> QED
      BY <1>3, <2>1 DEF SetElement
  <1>5. list = PutEntry(es[f], e)
    BY <1>3 DEF PutEntry
  <1>6. /\ list \in Seq(DNSCacheEntry) /\ Len(list) = n
        /\ \A j \in 1..n : list[j] = IF j = i THEN e ELSE es[f][j]
    <2> HIDE DEF n
    <2> QED
      BY <1>1, <1>3
  <1> HIDE DEF list
  <1>7. /\ set \in Seq(Slot) /\ Len(set) = Len(array)
        /\ \A j \in 1..Len(array) : set[j] = IF j = i THEN e ELSE array[j]
    <2> HIDE DEF n, array
    <2>1. e \in Slot
      BY DEF Slot
    <2> QED
      BY <1>1, <1>3, <2>1
  <1> HIDE DEF set, array
  <1>8. slice \in Slices /\ slice.len = n /\ slice.array = hd[f].array
    BY <1>1
  <1>9. ASSUME NEW j \in 1..slice.len PROVE set[j] = list[j]
    <2> HIDE DEF n
    <2>1. j \in 1..Len(array) /\ j \in 1..n
      BY <1>1, <1>8
    <2> QED
      BY <1>1, <1>6, <1>7, <2>1
  <1>10. /\ slice.len <= Len(set) /\ Len(list) = slice.len
         /\ \A g \in DOMAIN es \ {f} : hd[g].array # slice.array
    BY <1>1, <1>6, <1>7, <1>8
  <1> HIDE DEF slice, n
  <1> /\ f \in CanonicalNames /\ slice \in Slices /\ set \in Seq(Slot)
      /\ list \in Seq(DNSCacheEntry)
    BY <1>1, <1>6, <1>7, <1>8
  <1>11. /\ Represents(m.heap, m.header, With(es, f, list))
         /\ Room(hp) /\ (slice.array = query.array => query.len <= Len(set)) => Room(m.heap)
         /\ /\ Spared(hp, hd)
            /\ slice.array = query.array =>
                  /\ f = query.name /\ query.len <= slice.len
                  /\ \A j \in 1..query.len : set[j] = hp[query.array][j]
            => Spared(m.heap, m.header)
    BY <1>4, <1>9, <1>10, PutFacts
  <1>12. Room(hp) => (slice.array = query.array => query.len <= Len(set))
    BY <1>1, <1>7, <1>8 DEF Room, array
  <1>13. Spared(hp, hd) /\ f # query.name => slice.array # query.array
    <2>1. DOMAIN hd = DOMAIN es
      BY DEF Represents
    <2> QED
      BY <1>8, <2>1 DEF Spared
  <1> QED
    BY <1>5, <1>11, <1>12, <1>13

(* There is always an array that no slice and no query uses. *)
LEMMA FreeArray ==
    ASSUME NEW hp, NEW hd, NEW es, Represents(hp, hd, es)
    PROVE  Min(Arrays \ ({hd[g].array : g \in DOMAIN hd} \cup {query.array}))
              \in Arrays \ ({hd[g].array : g \in DOMAIN hd} \cup {query.array})
  <1> DEFINE taken == {hd[g].array : g \in DOMAIN hd}
             used == taken \cup {query.array}
             arrayOf == [g \in DOMAIN hd |-> hd[g].array]
  <1>1. IsFiniteSet(CanonicalNames) /\ IsFiniteSet(Arrays) /\ Arrays \in SUBSET Nat
    BY ArraysAssumption, FS_CardinalityType
  <1>2. DOMAIN hd \in SUBSET CanonicalNames
    BY DEF Represents
  <1>3. IsFiniteSet(DOMAIN hd) /\ Cardinality(DOMAIN hd) <= Cardinality(CanonicalNames)
    BY <1>1, <1>2, FS_Subset
  <1>4. arrayOf \in Surjection(DOMAIN hd, taken)
    BY DEF Surjection
  <1>5. IsFiniteSet(taken) /\ Cardinality(taken) <= Cardinality(DOMAIN hd)
    <2> HIDE DEF arrayOf, taken
    <2> QED
      BY <1>3, <1>4, FS_Surjection
  <1> HIDE DEF taken
  <1>6. IsFiniteSet(used) /\ Cardinality(used) <= Cardinality(taken) + 1
    <2>1. /\ IsFiniteSet(used)
          /\ Cardinality(used) = IF query.array \in taken THEN Cardinality(taken)
                                 ELSE Cardinality(taken) + 1
      BY <1>5, FS_AddElement
    <2>2. Cardinality(taken) \in Nat
      BY <1>5, FS_CardinalityType
    <2> QED
      BY <2>1, <2>2
  <1> HIDE DEF used
  <1>7. /\ Cardinality(CanonicalNames) \in Nat /\ Cardinality(DOMAIN hd) \in Nat
        /\ Cardinality(taken) \in Nat /\ Cardinality(used) \in Nat /\ Cardinality(Arrays) \in Nat
    BY <1>1, <1>3, <1>5, <1>6, FS_CardinalityType
  <1>8. Cardinality(used) < Cardinality(Arrays)
    BY <1>3, <1>5, <1>6, <1>7, ArraysAssumption
  <1>9. Arrays \ used # {}
    <2>1. ASSUME Arrays \ used = {} PROVE FALSE
      <3>1. Arrays \in SUBSET used
        BY <2>1
      <3>2. Cardinality(Arrays) <= Cardinality(used)
        BY <1>6, <3>1, FS_Subset
      <3> QED
        BY <1>7, <1>8, <3>2
    <2> QED
      BY <2>1
  <1>10. Arrays \ used \in SUBSET Nat
    BY <1>1
  <1>11. Min(Arrays \ used) \in Arrays \ used
    BY <1>9, <1>10, MinFacts
  <1> QED
    BY <1>11 DEF used, taken

(* append, in place or in a new array, disturbs no query: what it writes   *)
(* is behind the elements of every slice, or in an array out of use.       *)
LEMMA AppendElementFacts ==
    ASSUME NEW hp, NEW hd, NEW es, Represents(hp, hd, es), NEW f \in CanonicalNames,
           NEW e \in DNSCacheEntry, query.len \in Nat, NEW list \in Seq(DNSCacheEntry),
           f \in DOMAIN es => list = es[f], f \notin DOMAIN es => list = <<>>,
           NEW longer \in Seq(DNSCacheEntry), Len(longer) = Len(list) + 1,
           longer[Len(list) + 1] = e, \A j \in 1..Len(list) : longer[j] = list[j],
           NEW m, m = AppendElement([heap |-> hp, header |-> hd], f, e)
    PROVE  /\ Represents(m.heap, m.header, With(es, f, longer))
           /\ Room(hp) => Room(m.heap)
           /\ Spared(hp, hd) => Spared(m.heap, m.header)
  <1> DEFINE n == Len(list) + 1
  <1>1. Elements([heap |-> hp, header |-> hd], f) = list
    BY ElementsFacts
  <1>2. /\ longer \in Seq(DNSCacheEntry) /\ Len(longer) = n /\ n \in Nat /\ Len(list) \in Nat
        /\ longer[n] = e /\ \A j \in 1..(n - 1) : longer[j] = list[j]
    OBVIOUS
  <1>3. DOMAIN hd = DOMAIN es /\ e \in Slot /\ NoEntry \in Slot
    BY DEF Represents, Slot
  <1>4. CASE f \in DOMAIN hd /\ n <= Len(hp[hd[f].array])
    <2> DEFINE array == hp[hd[f].array]
               slice == [hd[f] EXCEPT !.len = n]
               written == [array EXCEPT ![n] = e]
    <2>1. /\ hd[f] \in Slices /\ array \in Seq(Slot)
          /\ hd[f].array \in Arrays /\ hd[f].len = Len(list)
          /\ \A j \in 1..Len(list) : array[j] = list[j]
          /\ \A g \in DOMAIN es \ {f} : hd[g].array # hd[f].array
      BY <1>3, <1>4, SliceFacts
    <2>2. m = Put([heap |-> hp, header |-> hd], f, slice, written)
      BY <1>1, <1>4 DEF AppendElement
    <2>3. slice \in Slices /\ slice.len = n /\ slice.array = hd[f].array
      <3> HIDE DEF n
      <3> QED
        BY <1>2, <2>1 DEF Slices
    <2> HIDE DEF slice
    <2>4. n \in 1..Len(array)
      BY <1>2, <1>4, <2>1
    <2>5. /\ written \in Seq(Slot) /\ Len(written) = Len(array)
          /\ \A j \in 1..Len(array) : written[j] = IF j = n THEN e ELSE array[j]
      <3>1. array \in Seq(Slot) /\ e \in Slot
        BY <1>3, <2>1
      <3> HIDE DEF n, array
      <3> QED
        BY <2>4, <3>1
    <2> HIDE DEF written, array
    <2>6. ASSUME NEW j \in 1..slice.len PROVE written[j] = longer[j]
      <3>1. j \in 1..Len(array) /\ (j = n \/ (j \in 1..Len(list) /\ j \in 1..(n - 1) /\ j # n))
        BY <1>2, <2>1, <2>3, <2>4
      <3> HIDE DEF n
      <3> QED
        BY <1>2, <2>1, <2>5, <3>1
    <2>7. /\ slice.len <= Len(written) /\ Len(longer) = slice.len
          /\ \A g \in DOMAIN es \ {f} : hd[g].array # slice.array
      BY <1>2, <2>1, <2>3, <2>5, <2>4
    <2> HIDE DEF n
    <2> /\ slice \in Slices /\ written \in Seq(Slot) /\ longer \in Seq(DNSCacheEntry)
      BY <1>2, <2>3, <2>5
    <2>8. /\ Represents(m.heap, m.header, With(es, f, longer))
          /\ Room(hp) /\ (slice.array = query.array => query.len <= Len(written)) => Room(m.heap)
          /\ /\ Spared(hp, hd)
             /\ slice.array = query.array =>
                   /\ f = query.name /\ query.len <= slice.len
                   /\ \A j \in 1..query.len : written[j] = hp[query.array][j]
             => Spared(m.heap, m.header)
      BY <2>2, <2>6, <2>7, PutFacts
    <2>9. Room(hp) => (slice.array = query.array => query.len <= Len(written))
      BY <2>1, <2>3, <2>5 DEF Room, array
    <2>10. ASSUME Spared(hp, hd), slice.array = query.array
           PROVE  /\ f = query.name /\ query.len <= slice.len
                  /\ \A j \in 1..query.len : written[j] = hp[query.array][j]
      <3>1. f = query.name /\ query.len <= Len(list)
        BY <1>4, <2>1, <2>3, <2>10 DEF Spared
      <3>2. Len(list) + 1 = n /\ Len(list) \in Nat
        BY <1>2 DEF n
      <3>3. \A j \in 1..query.len : j \in 1..Len(array) /\ j # n
        BY <2>4, <3>1, <3>2
      <3>4. \A j \in 1..query.len : written[j] = array[j]
        BY <2>5, <3>3
      <3> QED
        BY <2>3, <2>10, <3>1, <3>2, <3>4 DEF array
    <2> QED
      BY <2>8, <2>9, <2>10
  <1>5. CASE ~(f \in DOMAIN hd /\ n <= Len(hp[hd[f].array]))
    <2> DEFINE used == {hd[g].array : g \in DOMAIN hd} \cup {query.array}
               size == Max({1, 2 * Len(list)})
               slice == [array |-> Min(Arrays \ used), len |-> n]
               grown == [j \in 1..size |->
                            IF j < n THEN list[j] ELSE IF j = n THEN e ELSE NoEntry]
    <2>1. m = Put([heap |-> hp, header |-> hd], f, slice, grown)
      BY <1>1, <1>5 DEF AppendElement
    <2>2. Min(Arrays \ used) \in Arrays \ used
      BY FreeArray
    <2>3. slice \in Slices /\ slice.len = n /\ slice.array \in Arrays \ used
      <3> HIDE DEF used
      <3> QED
        BY <1>2, <2>2 DEF Slices
    <2> HIDE DEF slice
    <2>4. size \in Nat /\ n <= size
      <3> DEFINE S == {1, 2 * Len(list)}
      <3>1. S \in SUBSET (0..(2 * Len(list) + 1)) /\ S # {} /\ 2 * Len(list) + 1 \in Nat
        BY <1>2
      <3>2. 1 \in S /\ 2 * Len(list) \in S /\ \A x \in S : x \in Nat
        BY <1>2
      <3> HIDE DEF S
      <3>3. Max(S) \in S /\ \A x \in S : x <= Max(S)
        BY <3>1, MaxFacts
      <3>4. Max(S) \in Nat /\ 1 <= Max(S) /\ 2 * Len(list) <= Max(S)
        BY <3>2, <3>3
      <3>5. n <= Max(S)
        BY <1>2, <3>4
      <3> QED
        BY <3>4, <3>5 DEF S
    <2> HIDE DEF size
    <2>5. /\ grown \in Seq(Slot) /\ Len(grown) = size
          /\ \A j \in 1..n : grown[j] = IF j < n THEN list[j] ELSE e
      <3>1. \A j \in 1..(n - 1) : list[j] \in Slot
        BY <1>2 DEF Slot
      <3>2. \A j \in 1..size : (IF j < n THEN list[j] ELSE IF j = n THEN e ELSE NoEntry) \in Slot
        <4> HIDE DEF n
        <4> QED
          BY <1>2, <1>3, <2>4, <3>1
      <3>3. grown \in Seq(Slot) /\ Len(grown) = size
        <4> HIDE DEF n
        <4> QED
          BY <2>4, <3>2
      <3>4. \A j \in 1..n : grown[j] = IF j < n THEN list[j] ELSE e
        <4> HIDE DEF n
        <4> QED
          BY <1>2, <2>4
      <3> QED
        BY <3>3, <3>4
    <2> HIDE DEF grown, n
    <2>6. ASSUME NEW j \in 1..slice.len PROVE grown[j] = longer[j]
      <3>1. j \in 1..n /\ (j = n \/ (j \in 1..(n - 1) /\ j < n))
        BY <1>2, <2>3
      <3> QED
        BY <1>2, <2>5, <3>1
    <2>7. /\ slice.len <= Len(grown) /\ Len(longer) = slice.len
          /\ \A g \in DOMAIN es \ {f} : hd[g].array # slice.array
          /\ slice.array # query.array
      BY <1>2, <1>3, <2>3, <2>4, <2>5
    <2> HIDE DEF used
    <2> /\ slice \in Slices /\ grown \in Seq(Slot) /\ longer \in Seq(DNSCacheEntry)
      BY <1>2, <2>3, <2>5
    <2>8. /\ Represents(m.heap, m.header, With(es, f, longer))
          /\ Room(hp) /\ (slice.array = query.array => query.len <= Len(grown)) => Room(m.heap)
          /\ /\ Spared(hp, hd)
             /\ slice.array = query.array =>
                   /\ f = query.name /\ query.len <= slice.len
                   /\ \A j \in 1..query.len : grown[j] = hp[query.array][j]
             => Spared(m.heap, m.header)
      BY <2>1, <2>6, <2>7, PutFacts
    <2> QED
      BY <2>7, <2>8
  <1> QED
    BY <1>4, <1>5

(* Dropping a name leaves the arrays alone. *)
LEMMA WithoutFacts ==
    ASSUME NEW hp, NEW hd, NEW es, Represents(hp, hd, es), NEW f,
           NEW m, m = Without([heap |-> hp, header |-> hd], f)
    PROVE  /\ m = [heap |-> m.heap, header |-> m.header] /\ m.heap = hp
           /\ Represents(m.heap, m.header, [g \in DOMAIN es \ {f} |-> es[g]])
           /\ Spared(hp, hd) => Spared(m.heap, m.header)
  <1> DEFINE hd2 == [g \in DOMAIN hd \ {f} |-> hd[g]]
             es2 == [g \in DOMAIN es \ {f} |-> es[g]]
  <1>1. m = [heap |-> hp, header |-> hd2] /\ m.heap = hp /\ m.header = hd2
    BY DEF Without
  <1>2. /\ DOMAIN hd = DOMAIN es /\ DOMAIN hd2 = DOMAIN es2 /\ DOMAIN es2 \subseteq DOMAIN es
        /\ \A g \in DOMAIN es2 : hd2[g] = hd[g] /\ es2[g] = es[g]
    BY DEF Represents
  <1>3. hd2 \in [DOMAIN es2 -> Slices] /\ es2 \in [DOMAIN es2 -> Seq(DNSCacheEntry)]
    BY DEF Represents
  <1> HIDE DEF hd2, es2
  <1>4. Represents(hp, hd2, es2)
    BY <1>2, <1>3 DEF Represents
  <1>5. Spared(hp, hd) => Spared(hp, hd2)
    BY <1>2 DEF Spared
  <1> QED
    BY <1>1, <1>4, <1>5 DEF es2

-----------------------------------------------------------------------------
(* Writes. *)

(* What goes out of use is in no slice, and in no element a query can read. *)
LEMMA CollectedFacts ==
    ASSUME NEW m, NEW es, Represents(m.heap, m.header, es), NEW q, q.len \in Nat,
           q.array \in Arrays => q.len <= Len(m.heap[q.array]),
           NEW c, c = Collected(m, q)
    PROVE  Represents(c, m.header, es) /\ SameFront(m.heap, c, q.array, q.len)
  <1> DEFINE hp == m.heap
             hd == m.header
             slices == {hd[f] : f \in DOMAIN hd} \cup {[array |-> q.array, len |-> q.len]}
             lengths(x) == {s.len : s \in {t \in slices : t.array = x}}
             kept(x) == [j \in DOMAIN hp[x] |-> IF j <= Max(lengths(x)) THEN hp[x][j] ELSE NoEntry]
  <1>1. c = [x \in Arrays |-> IF lengths(x) = {} THEN <<>> ELSE kept(x)]
    BY DEF Collected
  <1>2. /\ hp \in [Arrays -> Seq(Slot)] /\ DOMAIN hd = DOMAIN es
        /\ \A x \in Arrays : hp[x] \in Seq(Slot)
    BY DEF Represents
  <1>3. ASSUME NEW s \in slices, s.array \in Arrays
        PROVE  s.len \in Nat /\ s.len <= Len(hp[s.array])
    <2>1. CASE s \in {hd[f] : f \in DOMAIN hd}
      BY <1>2, <2>1, SliceFacts
    <2>2. CASE s = [array |-> q.array, len |-> q.len]
      BY <1>3, <2>2
    <2> QED
      BY <2>1, <2>2
  <1>4. ASSUME NEW x \in Arrays
        PROVE  c[x] \in Seq(Slot)
    <2>1. CASE lengths(x) = {}
      <3>1. c[x] = <<>>
        BY <1>1, <2>1
      <3> QED
        BY <3>1
    <2>2. CASE lengths(x) # {}
      <3>1. c[x] = kept(x)
        BY <1>1, <2>2
      <3>2. hp[x] \in Seq(Slot) /\ NoEntry \in Slot
        BY <1>2 DEF Slot
      <3> HIDE DEF hp, lengths
      <3>3. kept(x) \in Seq(Slot)
        BY <3>2
      <3> QED
        BY <3>1, <3>3
    <2> QED
      BY <2>1, <2>2
  <1>5. ASSUME NEW s \in slices, s.array \in Arrays
        PROVE  /\ Len(c[s.array]) = Len(hp[s.array])
               /\ \A j \in 1..s.len : c[s.array][j] = hp[s.array][j]
    <2> DEFINE x == s.array
               L == lengths(x)
    <2>1. s.len \in L
      OBVIOUS
    <2>2. hp[x] \in Seq(Slot) /\ Len(hp[x]) \in Nat /\ s.len \in Nat /\ s.len <= Len(hp[x])
      BY <1>2, <1>3, <1>5
    <2>3. L \in SUBSET (0..Len(hp[x]))
      <3>1. ASSUME NEW l \in L PROVE l \in 0..Len(hp[x])
        <4>1. PICK t \in slices : t.array = x /\ l = t.len
          OBVIOUS
        <4>2. l \in Nat /\ l <= Len(hp[x])
          BY <1>3, <1>5, <4>1
        <4> QED
          BY <2>2, <4>2
      <3> QED
        BY <3>1
    <2>4. c[x] = kept(x)
      <3>1. L # {}
        BY <2>1
      <3> QED
        BY <1>1, <1>5, <3>1
    <2> HIDE DEF L
    <2>5. Max(L) \in L /\ s.len <= Max(L)
      BY <2>1, <2>2, <2>3, MaxFacts
    <2>6. Max(L) \in Nat
      <3>1. Max(L) \in 0..Len(hp[x])
        BY <2>3, <2>5, Zenon
      <3> QED
        BY <2>2, <3>1
    <2>7. /\ DOMAIN kept(x) = 1..Len(hp[x])
          /\ \A j \in 1..Len(hp[x]) : kept(x)[j] = IF j <= Max(L) THEN hp[x][j] ELSE NoEntry
      BY <2>2 DEF L
    <2>8. c[x] \in Seq(Slot)
      BY <1>4, <1>5
    <2> HIDE DEF x, kept, lengths, hp, hd, slices
    <2>9. Len(c[x]) = Len(hp[x])
      BY <2>2, <2>4, <2>7, <2>8
    <2>10. \A j \in 1..s.len : j \in 1..Len(hp[x]) /\ j <= Max(L)
      BY <2>2, <2>5, <2>6
    <2>11. \A j \in 1..s.len : c[x][j] = hp[x][j]
      BY <2>4, <2>7, <2>10
    <2> QED
      BY <2>9, <2>11 DEF x
  <1>6. c \in [Arrays -> Seq(Slot)]
    <2>1. c = [x \in Arrays |-> c[x]]
      BY <1>1
    <2> QED
      BY <1>4, <2>1
  <1>7. ASSUME NEW f \in DOMAIN es
        PROVE  /\ hd[f].len <= Len(c[hd[f].array])
               /\ \A j \in 1..hd[f].len : c[hd[f].array][j] = es[f][j]
    <2>1. hd[f] \in slices /\ hd[f].array \in Arrays
      BY <1>2, SliceFacts
    <2>2. /\ hd[f].len <= Len(hp[hd[f].array])
          /\ \A j \in 1..hd[f].len : hp[hd[f].array][j] = es[f][j]
      BY SliceFacts
    <2> QED
      BY <1>5, <2>1, <2>2
  <1>8. Represents(c, hd, es)
    <2> HIDE DEF slices, lengths, kept
    <2> QED
      BY <1>6, <1>7 DEF Represents
  <1>9. ASSUME q.array \in Arrays
        PROVE  /\ Len(c[q.array]) = Len(hp[q.array])
               /\ \A j \in 1..q.len : c[q.array][j] = hp[q.array][j]
    <2> DEFINE s == [array |-> q.array, len |-> q.len]
    <2>1. s \in slices /\ s.array = q.array /\ s.len = q.len
      OBVIOUS
    <2> HIDE DEF s, slices, lengths, kept
    <2> QED
      BY <1>5, <1>9, <2>1
  <1> QED
    BY <1>8, <1>9 DEF SameFront

(* A write preserves the invariant if its memory holds the new lists and   *)
(* spares the query, unless it replaces or removes entries of the query's  *)
(* name.                                                                   *)
LEMMA WritePreserves ==
    ASSUME MemoryInv, CacheInv', NEW m, Represents(m.heap, m.header, entries'),
           Room(m.heap), NEW keys, Write(m, keys),
           /\ ~query.disturbed
           /\ \A k \in keys \cap DOMAIN resourceKeyToFQDN : resourceKeyToFQDN[k] # query.name
           => Spared(m.heap, m.header)
    PROVE  MemoryInv'
  <1> DEFINE touched == \E k \in keys \cap DOMAIN resourceKeyToFQDN :
                           resourceKeyToFQDN[k] = query.name
             clash == \E j \in (Len(query.read) + 1)..query.len :
                         m.heap[query.array][j] # heap[query.array][j]
             d == query.disturbed \/ touched
             r == query.raced \/ clash
  <1>1. /\ header' = m.header /\ heap' = Collected(m, query)
        /\ query' = [query EXCEPT !.disturbed = d, !.raced = r]
    BY DEF Write
  <1>2. /\ query \in Queries /\ query.len \in Nat /\ query.read \in Seq(Slot)
        /\ query.found \in Seq(DNSCacheEntry) /\ query.array \in Arrays \cup {0}
        /\ query.array \notin Arrays => query.len = 0
        /\ Len(query.read) <= query.len
    BY DEF MemoryInv, QueryOK, Queries
  <1>3. d \in BOOLEAN /\ r \in BOOLEAN
    BY DEF MemoryInv, QueryOK, Queries
  <1> HIDE DEF d, r
  <1>4. /\ query' \in Queries /\ query'.array = query.array /\ query'.len = query.len
        /\ query'.name = query.name /\ query'.read = query.read /\ query'.found = query.found
        /\ query'.disturbed = d /\ query'.raced = r
    BY <1>1, <1>2, <1>3 DEF Queries
  <1>5. /\ Represents(heap', header', entries')
        /\ query.array \in Arrays =>
              /\ Len(heap'[query.array]) = Len(m.heap[query.array])
              /\ \A j \in 1..query.len : heap'[query.array][j] = m.heap[query.array][j]
    <2>1. query.array \in Arrays => query.len <= Len(m.heap[query.array])
      BY DEF Room
    <2>2. SameFront(m.heap, heap', query.array, query.len)
      BY <1>1, <1>2, <2>1, CollectedFacts
    <2>3. Represents(heap', header', entries')
      BY <1>1, <1>2, <2>1, CollectedFacts
    <2> QED
      BY <2>2, <2>3 DEF SameFront
  <1>6. Room(heap)'
    BY <1>4, <1>5 DEF Room
  <1>7. ASSUME ~query'.disturbed
        PROVE  /\ ~query'.raced /\ Len(query'.found) = query'.len
               /\ \A j \in 1..Len(query'.read) : query'.read[j] = query'.found[j]
               /\ \A j \in (Len(query'.read) + 1)..query'.len :
                     heap'[query'.array][j] = query'.found[j]
               /\ Spared(heap, header)'
    <2>1. ~query.disturbed /\ ~touched
      BY <1>4, <1>7 DEF d
    <2>2. Spared(m.heap, m.header)
      BY <2>1
    <2>3. /\ ~query.raced /\ Len(query.found) = query.len
          /\ \A j \in 1..Len(query.read) : query.read[j] = query.found[j]
          /\ \A j \in (Len(query.read) + 1)..query.len : heap[query.array][j] = query.found[j]
      BY <2>1 DEF MemoryInv, QueryOK
    <2> HIDE DEF touched
    <2>4. ASSUME NEW j \in (Len(query.read) + 1)..query.len
          PROVE  /\ query.array \in Arrays /\ j \in 1..query.len
                 /\ m.heap[query.array][j] = heap[query.array][j]
      <3>1. query.array \in Arrays /\ j \in 1..query.len
        <4>1. Len(query.read) \in Nat
          BY <1>2
        <4> QED
          BY <1>2, <4>1
      <3> QED
        BY <2>2, <3>1 DEF Spared
    <2>5. ~r
      BY <2>3, <2>4 DEF r
    <2>6. \A j \in (Len(query.read) + 1)..query.len : heap'[query.array][j] = query.found[j]
      BY <1>5, <2>3, <2>4
    <2>7. Spared(heap, header)'
      BY <1>1, <1>4, <2>2 DEF Spared
    <2> QED
      BY <1>4, <2>3, <2>5, <2>6, <2>7
  <1>8. QueryOK'
    BY <1>2, <1>4, <1>7 DEF QueryOK
  <1> QED
    BY <1>5, <1>6, <1>7, <1>8 DEF MemoryInv

(* Upsert: the entry leaves its former name, and is set or appended. *)
LEMMA MemoryUpsertPreserves ==
    ASSUME MemoryInv, NEW entry \in Upserts, MemoryUpsert(entry)
    PROVE  MemoryInv'
  <1> DEFINE fqdn == CanonicalName(entry.FQDN)
             k == entry.ResourceKey
             stored == StoredEntry(entry)
             old == resourceKeyToFQDN[k]
             moves == k \in DOMAIN resourceKeyToFQDN /\ old # fqdn
             shrunk == RemoveElement(Memory, old, k)
             left == CASE ~moves -> Memory
                       [] moves /\ Elements(shrunk, old) = <<>> -> Without(shrunk, old)
                       [] OTHER -> shrunk
             m == IF HasKey(Elements(left, fqdn), k)
                  THEN SetElement(left, fqdn, stored) ELSE AppendElement(left, fqdn, stored)
             base == EntriesAfterMove(k, fqdn)
             Untouched == ~query.disturbed /\ (k \in DOMAIN resourceKeyToFQDN => old # query.name)
  <1>1. Upsert(entry) /\ Write(m, {k})
    BY DEF MemoryUpsert
  <1>2. /\ CacheInv /\ Represents(heap, header, entries) /\ Room(heap) /\ query.len \in Nat
        /\ ~query.disturbed => Spared(heap, header)
    BY DEF MemoryInv, QueryOK, Queries
  <1>3. CacheInv'
    BY <1>1, <1>2, UpsertPreserves
  <1>4. fqdn \in CanonicalNames /\ stored \in DNSCacheEntry /\ stored.ResourceKey = k
    BY CanonicalInNames, StoredEntryType DEF Upserts
  <1>5. entries' = With(base, fqdn, PutEntry(EntriesOf(fqdn), stored))
    BY <1>1 DEF Upsert, With
  <1>6. EntriesOf(fqdn) \in Seq(DNSCacheEntry) /\ DistinctKeys(EntriesOf(fqdn))
    BY <1>2, EntriesOfFacts
  <1> HIDE DEF fqdn, stored, k
  <1>7. /\ left = [heap |-> left.heap, header |-> left.header]
        /\ Represents(left.heap, left.header, base) /\ Room(left.heap)
        /\ Untouched => Spared(left.heap, left.header)
        /\ EntriesOf(fqdn) = IF fqdn \in DOMAIN base THEN base[fqdn] ELSE <<>>
    <2>1. CASE ~moves
      <3>1. left = Memory /\ base = entries
        BY <2>1 DEF EntriesAfterMove
      <3>2. Memory.heap = heap /\ Memory.header = header
            /\ Memory = [heap |-> heap, header |-> header]
        BY DEF Memory
      <3> HIDE DEF left, base
      <3> QED
        BY <1>2, <3>1, <3>2 DEF EntriesOf
    <2>2. CASE moves
      <3> DEFINE rest == RemoveKey(entries[old], k)
                 es2 == [entries EXCEPT ![old] = rest]
      <3>1. /\ old \in DOMAIN entries /\ EntriesOf(old) = entries[old]
            /\ DistinctKeys(entries[old]) /\ HasKey(entries[old], k)
        BY <1>2, <2>2, EntriesOfFacts DEF CacheInv, IndexConsistent, IndexedPresent
      <3>2. shrunk = RemoveElement([heap |-> heap, header |-> header], old, k)
        BY DEF Memory
      <3> HIDE DEF shrunk
      <3>3. /\ shrunk = [heap |-> shrunk.heap, header |-> shrunk.header]
            /\ Represents(shrunk.heap, shrunk.header, es2) /\ Room(shrunk.heap)
            /\ Spared(heap, header) /\ old # query.name => Spared(shrunk.heap, shrunk.header)
        BY <1>2, <3>1, <3>2, RemoveElementFacts
      <3>4. Untouched => Spared(shrunk.heap, shrunk.header)
        BY <1>2, <2>2, <3>3
      <3>5. DOMAIN es2 = DOMAIN entries /\ es2[old] = rest
            /\ \A g \in DOMAIN entries \ {old} : es2[g] = entries[g]
        BY <1>2, <3>1 DEF CacheInv, CacheTypeOK
      <3> HIDE DEF es2
      <3>6. Elements(shrunk, old) = rest
        BY <3>1, <3>3, <3>5, ElementsFacts
      <3>7. CASE rest = <<>>
        <4>1. left = Without(shrunk, old)
          BY <2>2, <3>6, <3>7
        <4>2. base = [g \in DOMAIN entries \ {old} |-> entries[g]]
          BY <2>2, <3>1, <3>7 DEF EntriesAfterMove
        <4>3. base = [g \in DOMAIN es2 \ {old} |-> es2[g]]
          BY <3>5, <4>2
        <4> HIDE DEF left, base
        <4>4. /\ left = [heap |-> left.heap, header |-> left.header] /\ left.heap = shrunk.heap
              /\ Represents(left.heap, left.header, base)
              /\ Spared(shrunk.heap, shrunk.header) => Spared(left.heap, left.header)
          BY <3>3, <4>1, <4>3, WithoutFacts
        <4>5. EntriesOf(fqdn) = IF fqdn \in DOMAIN base THEN base[fqdn] ELSE <<>>
          BY <2>2, <4>2 DEF EntriesOf
        <4> QED
          BY <3>3, <3>4, <4>4, <4>5
      <3>8. CASE rest # <<>>
        <4>1. left = shrunk
          BY <2>2, <3>6, <3>8
        <4>2. base = es2
          BY <2>2, <3>1, <3>8 DEF EntriesAfterMove, es2
        <4> HIDE DEF left, base
        <4>3. EntriesOf(fqdn) = IF fqdn \in DOMAIN base THEN base[fqdn] ELSE <<>>
          BY <2>2, <3>5, <4>2 DEF EntriesOf
        <4> QED
          BY <3>3, <3>4, <4>1, <4>2, <4>3
      <3> QED
        BY <3>7, <3>8
    <2> QED
      BY <2>1, <2>2
  <1> HIDE DEF left, base
  <1>8. Elements(left, fqdn) = EntriesOf(fqdn)
    BY <1>7, ElementsFacts
  <1>9. /\ Represents(m.heap, m.header, entries') /\ Room(m.heap)
        /\ Untouched => Spared(m.heap, m.header)
    <2>1. CASE HasKey(EntriesOf(fqdn), k)
      <3>1. m = SetElement([heap |-> left.heap, header |-> left.header], fqdn, stored)
        BY <1>7, <1>8, <2>1
      <3>2. fqdn \in DOMAIN base /\ base[fqdn] = EntriesOf(fqdn)
        BY <1>7, <2>1 DEF HasKey
      <3>3. k \in DOMAIN resourceKeyToFQDN /\ old = fqdn
        BY <1>2, <2>1, HasKeySet, EntriesOfFacts
      <3> HIDE DEF m
      <3>4. /\ Represents(m.heap, m.header, With(base, fqdn, PutEntry(base[fqdn], stored)))
            /\ Room(left.heap) => Room(m.heap)
            /\ Spared(left.heap, left.header) /\ fqdn # query.name => Spared(m.heap, m.header)
        BY <1>4, <1>6, <1>7, <2>1, <3>1, <3>2, SetElementFacts
      <3> QED
        BY <1>5, <1>7, <3>2, <3>3, <3>4
    <2>2. CASE ~HasKey(EntriesOf(fqdn), k)
      <3>1. m = AppendElement([heap |-> left.heap, header |-> left.header], fqdn, stored)
        BY <1>7, <1>8, <2>2
      <3> DEFINE list == EntriesOf(fqdn)
                 longer == Append(list, stored)
      <3> fqdn \in CanonicalNames /\ stored \in DNSCacheEntry /\ list \in Seq(DNSCacheEntry)
        BY <1>4, <1>6
      <3>2. /\ fqdn \in DOMAIN base => list = base[fqdn]
            /\ fqdn \notin DOMAIN base => list = <<>>
        BY <1>7
      <3> Represents(left.heap, left.header, base) /\ query.len \in Nat
        BY <1>2, <1>7
      <3> HIDE DEF m, list
      <3>3. /\ longer \in Seq(DNSCacheEntry) /\ Len(longer) = Len(list) + 1
            /\ longer[Len(list) + 1] = stored /\ \A j \in 1..Len(list) : longer[j] = list[j]
        OBVIOUS
      <3> HIDE DEF longer
      <3>4. /\ Represents(m.heap, m.header, With(base, fqdn, longer))
            /\ Room(left.heap) => Room(m.heap)
            /\ Spared(left.heap, left.header) => Spared(m.heap, m.header)
        BY <3>1, <3>2, <3>3, AppendElementFacts
      <3> USE DEF list, longer
      <3>5. PutEntry(EntriesOf(fqdn), stored) = Append(EntriesOf(fqdn), stored)
        BY <1>4, <2>2 DEF PutEntry
      <3> QED
        BY <1>5, <1>7, <3>4, <3>5
    <2> QED
      BY <2>1, <2>2
  <1> HIDE DEF m
  <1>10. /\ ~query.disturbed
         /\ \A x \in {k} \cap DOMAIN resourceKeyToFQDN : resourceKeyToFQDN[x] # query.name
         => Spared(m.heap, m.header)
    BY <1>9
  <1> QED
    BY <1>1, <1>3, <1>9, <1>10, WritePreserves

(* Delete: the name leaves the map, its array stays as it is. *)
LEMMA MemoryDeletePreserves ==
    ASSUME MemoryInv, NEW n \in Names, MemoryDelete(n)
    PROVE  MemoryInv'
  <1> DEFINE fqdn == CanonicalName(n)
             m == Without(Memory, fqdn)
  <1>1. /\ Delete(n) /\ Write(m, {})
        /\ entries' = [f \in DOMAIN entries \ {fqdn} |-> entries[f]]
    BY DEF MemoryDelete, Delete
  <1>2. /\ CacheInv /\ Represents(heap, header, entries) /\ Room(heap)
        /\ ~query.disturbed => Spared(heap, header)
    BY DEF MemoryInv
  <1>3. CacheInv'
    BY <1>1, <1>2, DeletePreserves
  <1>4. m = Without([heap |-> heap, header |-> header], fqdn)
    BY DEF Memory
  <1> HIDE DEF m, fqdn
  <1>5. /\ m.heap = heap
        /\ Represents(m.heap, m.header, [f \in DOMAIN entries \ {fqdn} |-> entries[f]])
        /\ Spared(heap, header) => Spared(m.heap, m.header)
    BY <1>2, <1>4, WithoutFacts
  <1>6. /\ Represents(m.heap, m.header, entries') /\ Room(m.heap)
        /\ ~query.disturbed => Spared(m.heap, m.header)
    BY <1>1, <1>2, <1>5
  <1> QED
    BY <1>1, <1>3, <1>6, WritePreserves

(* DeleteByResourceKey: the elements behind the key's move up. *)
LEMMA MemoryDeleteByResourceKeyPreserves ==
    ASSUME MemoryInv, NEW k \in ResourceKeys, MemoryDeleteByResourceKey(k)
    PROVE  MemoryInv'
  <1> DEFINE old == resourceKeyToFQDN[k]
             m == IF k \in DOMAIN resourceKeyToFQDN THEN RemoveElement(Memory, old, k) ELSE Memory
  <1>1. DeleteByResourceKey(k) /\ Write(m, {k})
    BY DEF MemoryDeleteByResourceKey
  <1>2. /\ CacheInv /\ Represents(heap, header, entries) /\ Room(heap)
        /\ ~query.disturbed => Spared(heap, header)
    BY DEF MemoryInv
  <1>3. CacheInv'
    BY <1>1, <1>2, DeleteByResourceKeyPreserves
  <1>4. /\ Represents(m.heap, m.header, entries') /\ Room(m.heap)
        /\ ~query.disturbed /\ (k \in DOMAIN resourceKeyToFQDN => old # query.name)
             => Spared(m.heap, m.header)
    <2>1. CASE k \notin DOMAIN resourceKeyToFQDN
      <3>1. m.heap = heap /\ m.header = header /\ entries' = entries
        BY <1>1, <2>1 DEF Memory, DeleteByResourceKey, cacheVars
      <3> HIDE DEF m
      <3> QED
        BY <1>2, <3>1
    <2>2. CASE k \in DOMAIN resourceKeyToFQDN
      <3>1. /\ old \in DOMAIN entries
            /\ DistinctKeys(entries[old]) /\ HasKey(entries[old], k)
        BY <1>2, <2>2 DEF CacheInv, IndexConsistent, IndexedPresent, KeysUnique
      <3>2. m = RemoveElement([heap |-> heap, header |-> header], old, k)
        BY <2>2 DEF Memory
      <3>3. entries' = [entries EXCEPT ![old] = RemoveKey(entries[old], k)]
        BY <1>1, <2>2 DEF DeleteByResourceKey
      <3> HIDE DEF m, old
      <3>4. /\ Represents(m.heap, m.header, [entries EXCEPT ![old] = RemoveKey(entries[old], k)])
            /\ Room(heap) => Room(m.heap)
            /\ Spared(heap, header) /\ old # query.name => Spared(m.heap, m.header)
        BY <1>2, <3>1, <3>2, RemoveElementFacts
      <3> QED
        BY <1>2, <2>2, <3>3, <3>4
    <2> QED
      BY <2>1, <2>2
  <1> HIDE DEF m
  <1>5. /\ ~query.disturbed
        /\ \A x \in {k} \cap DOMAIN resourceKeyToFQDN : resourceKeyToFQDN[x] # query.name
        => Spared(m.heap, m.header)
    BY <1>4
  <1> QED
    BY <1>1, <1>3, <1>4, <1>5, WritePreserves

-----------------------------------------------------------------------------
(* Queries. *)

(* While there is no query there is none to disturb. *)
LEMMA NoQueryFacts ==
    /\ NoQuery \in Queries /\ NoQuery.array = 0 /\ NoQuery.len = 0 /\ NoQuery.read = <<>>
    /\ NoQuery.found = <<>> /\ NoQuery.disturbed = FALSE /\ NoQuery.raced = FALSE
    /\ 0 \notin Arrays
  <1>1. 0 \notin Arrays
    <2>1. Cardinality(Arrays) \in Nat /\ Arrays = 1..Cardinality(Arrays)
      BY ArraysAssumption, FS_CardinalityType
    <2> QED
      BY <2>1
  <1> QED
    BY <1>1 DEF NoQuery, Queries

(* Lookup takes the slice of the name it finds. *)
LEMMA QueryLookupPreserves ==
    ASSUME MemoryInv, NEW n \in Names, QueryLookup(n)
    PROVE  MemoryInv'
  <1> DEFINE fqdn == CanonicalName(n)
             key == LookupKey(fqdn, Min(LookupRounds(fqdn)))
  <1>1. /\ UNCHANGED <<cacheVars, heap, header>> /\ Lookup(n) # <<>>
        /\ query' = [NoQuery EXCEPT !.name = key, !.array = header[key].array,
                                    !.len = header[key].len, !.found = Lookup(n)]
    BY DEF QueryLookup
  <1>2. key \in DOMAIN entries /\ Lookup(n) = entries[key]
    <2>1. LookupRounds(fqdn) # {}
      BY <1>1 DEF Lookup
    <2> QED
      BY <2>1, LookupFound, NamesAssumption
  <1> HIDE DEF key
  <1>3. CacheInv /\ Represents(heap, header, entries) /\ DOMAIN header = DOMAIN entries
    BY DEF MemoryInv, Represents
  <1> DEFINE array == heap[header[key].array]
             len == header[key].len
  <1>4. /\ key \in CanonicalNames /\ array \in Seq(Slot) /\ header[key].array \in Arrays
        /\ len \in Nat /\ len <= Len(array)
        /\ entries[key] \in Seq(DNSCacheEntry) /\ Len(entries[key]) = len
        /\ \A j \in 1..len : array[j] = entries[key][j]
        /\ \A g \in DOMAIN entries \ {key} : header[g].array # header[key].array
    BY <1>2, <1>3, SliceFacts
  <1>5. /\ query' \in Queries /\ query'.name = key /\ query'.array = header[key].array
        /\ query'.len = len /\ query'.found = entries[key] /\ query'.read = <<>>
        /\ query'.disturbed = FALSE /\ query'.raced = FALSE
    BY <1>1, <1>2, <1>4, NoQueryFacts DEF NoQuery, Queries
  <1> HIDE DEF len
  <1>6. Len(query'.read) = 0
    BY <1>5
  <1>7. QueryOK'
    BY <1>1, <1>4, <1>5, <1>6 DEF QueryOK
  <1>8. Room(heap)'
    BY <1>1, <1>4, <1>5 DEF Room
  <1>9. Spared(heap, header)'
    <2>1. ASSUME NEW f \in DOMAIN header, header[f].array = query'.array
          PROVE  f = key /\ query'.len <= header[f].len
      <3>1. f = key
        BY <1>3, <1>4, <1>5, <2>1
      <3> QED
        BY <1>4, <1>5, <3>1 DEF len
    <2> QED
      BY <1>1, <1>5, <2>1 DEF Spared
  <1>10. CacheInv' /\ Represents(heap, header, entries)'
    BY <1>1, <1>3, CacheStutterPreserves DEF cacheVars
  <1> QED
    BY <1>7, <1>8, <1>9, <1>10 DEF MemoryInv

(* The loop reads the next element, which is as it was found. *)
LEMMA QueryReadPreserves ==
    ASSUME MemoryInv, QueryRead
    PROVE  MemoryInv'
  <1> DEFINE n == Len(query.read) + 1
             element == heap[query.array][n]
             longer == Append(query.read, element)
  <1>1. /\ UNCHANGED <<cacheVars, heap, header>> /\ Len(query.read) < query.len
        /\ query' = [query EXCEPT !.read = longer]
    BY DEF QueryRead
  <1>2. /\ query \in Queries /\ query.len \in Nat /\ query.read \in Seq(Slot)
        /\ query.found \in Seq(DNSCacheEntry) /\ Len(query.read) \in Nat
        /\ query.array \notin Arrays => query.len = 0
        /\ Room(heap) /\ Represents(heap, header, entries)
    BY DEF MemoryInv, QueryOK, Queries
  <1>3. query.array \in Arrays /\ n \in 1..query.len
    BY <1>1, <1>2
  <1>4. element \in Slot
    <2>1. heap[query.array] \in Seq(Slot) /\ query.len <= Len(heap[query.array])
      BY <1>2, <1>3 DEF Represents, Room
    <2>2. Len(heap[query.array]) \in Nat
      BY <2>1
    <2>3. n \in 1..Len(heap[query.array])
      BY <1>2, <1>3, <2>1, <2>2
    <2> QED
      BY <2>1, <2>3
  <1>5. /\ longer \in Seq(Slot) /\ Len(longer) = n /\ longer[n] = element
        /\ \A j \in 1..(n - 1) : longer[j] = query.read[j]
    <2> HIDE DEF element
    <2> QED
      BY <1>2, <1>4
  <1> HIDE DEF longer
  <1>6. /\ query' \in Queries /\ query'.name = query.name /\ query'.array = query.array
        /\ query'.len = query.len /\ query'.found = query.found /\ query'.read = longer
        /\ query'.disturbed = query.disturbed /\ query'.raced = query.raced
    BY <1>1, <1>2, <1>5 DEF Queries
  <1>7. ASSUME ~query.disturbed
        PROVE  /\ ~query.raced /\ Len(query.found) = query.len
               /\ \A j \in 1..n : longer[j] = query.found[j]
               /\ \A j \in (n + 1)..query.len : heap[query.array][j] = query.found[j]
    <2>1. /\ ~query.raced /\ Len(query.found) = query.len
          /\ \A j \in 1..Len(query.read) : query.read[j] = query.found[j]
          /\ \A j \in (Len(query.read) + 1)..query.len : heap[query.array][j] = query.found[j]
      BY <1>7 DEF MemoryInv, QueryOK
    <2>2. element = query.found[n] /\ n \in Nat /\ Len(query.read) = n - 1
      BY <1>2, <1>3, <2>1
    <2> HIDE DEF n, element
    <2>3. ASSUME NEW j \in 1..n PROVE longer[j] = query.found[j]
      <3>1. j = n \/ j \in 1..(n - 1)
        BY <2>2
      <3> QED
        BY <1>5, <2>1, <2>2, <3>1
    <2>4. \A j \in (n + 1)..query.len : j \in (Len(query.read) + 1)..query.len
      BY <1>2, <2>2
    <2> QED
      BY <2>1, <2>3, <2>4
  <1> HIDE DEF n, element
  <1>8. QueryOK'
    <2>1. n <= query.len
      BY <1>2, <1>3
    <2> QED
      BY <1>1, <1>2, <1>5, <1>6, <1>7, <2>1 DEF QueryOK
  <1>9. Room(heap)' /\ (~query'.disturbed => Spared(heap, header)')
    BY <1>1, <1>2, <1>6 DEF MemoryInv, Room, Spared
  <1>10. CacheInv' /\ Represents(heap, header, entries)'
    BY <1>1, <1>2, CacheStutterPreserves DEF MemoryInv, cacheVars
  <1> QED
    BY <1>8, <1>9, <1>10 DEF MemoryInv

(* A finished query gives its array back. *)
LEMMA QueryEndPreserves ==
    ASSUME MemoryInv, QueryEnd
    PROVE  MemoryInv'
  <1>1. /\ query' = NoQuery /\ heap' = Collected(Memory, NoQuery)
        /\ UNCHANGED <<cacheVars, header>>
    BY DEF QueryEnd
  <1>2. CacheInv /\ Represents(heap, header, entries) /\ DOMAIN header = DOMAIN entries
    BY DEF MemoryInv, Represents
  <1>3. Memory.heap = heap /\ Memory.header = header
    BY DEF Memory
  <1>4. Represents(heap', header, entries)
    <2>1. NoQuery.len \in Nat /\ NoQuery.array \notin Arrays
      BY NoQueryFacts
    <2> HIDE DEF NoQuery
    <2> QED
      BY <1>1, <1>2, <1>3, <2>1, CollectedFacts
  <1>5. CacheInv' /\ Represents(heap, header, entries)'
    BY <1>1, <1>2, <1>4, CacheStutterPreserves DEF cacheVars
  <1>6. QueryOK' /\ Room(heap)'
    BY <1>1, NoQueryFacts DEF QueryOK, Room
  <1>7. Spared(heap, header)'
    <2>1. \A f \in DOMAIN header : header[f].array \in Arrays
      BY <1>2, SliceFacts
    <2> QED
      BY <1>1, <2>1, NoQueryFacts DEF Spared
  <1> QED
    BY <1>5, <1>6, <1>7 DEF MemoryInv

-----------------------------------------------------------------------------
(* The empty cache has no slices, and nobody reads it. *)
LEMMA MemoryInitInv == MemoryInit => MemoryInv
  <1> SUFFICES ASSUME MemoryInit PROVE MemoryInv
    OBVIOUS
  <1>1. CacheInv /\ DOMAIN entries = {} /\ DOMAIN header = {} /\ query = NoQuery
    BY CacheInitInv DEF MemoryInit, CacheInit
  <1>2. Represents(heap, header, entries)
    BY DEF MemoryInit, CacheInit, Represents
  <1>3. QueryOK /\ Room(heap)
    BY <1>1, NoQueryFacts DEF QueryOK, Room
  <1>4. Spared(heap, header)
    BY <1>1, NoQueryFacts DEF Spared
  <1> QED
    BY <1>1, <1>2, <1>3, <1>4 DEF MemoryInv

(* Every write and every step of a query preserves the invariant. *)
LEMMA MemoryNextPreserves == MemoryInv /\ [MemoryNext]_memoryVars => MemoryInv'
  <1> SUFFICES ASSUME MemoryInv, [MemoryNext]_memoryVars PROVE MemoryInv'
    OBVIOUS
  <1>1. CASE UNCHANGED memoryVars
    <2>1. UNCHANGED <<entries, resourceKeyToFQDN, heap, header, query>>
      BY <1>1 DEF memoryVars, cacheVars
    <2>2. CacheInv'
      BY <2>1, CacheStutterPreserves DEF MemoryInv, cacheVars
    <2> QED
      BY <2>1, <2>2 DEF MemoryInv, QueryOK, Room, Spared
  <1>2. ASSUME NEW e \in Upserts, MemoryUpsert(e) PROVE MemoryInv'
    BY <1>2, MemoryUpsertPreserves
  <1>3. ASSUME NEW n \in Names, MemoryDelete(n) \/ QueryLookup(n) PROVE MemoryInv'
    BY <1>3, MemoryDeletePreserves, QueryLookupPreserves
  <1>4. ASSUME NEW k \in ResourceKeys, MemoryDeleteByResourceKey(k) PROVE MemoryInv'
    BY <1>4, MemoryDeleteByResourceKeyPreserves
  <1>5. CASE QueryRead
    BY <1>5, QueryReadPreserves
  <1>6. CASE QueryEnd
    BY <1>6, QueryEndPreserves
  <1> QED
    BY <1>1, <1>2, <1>3, <1>4, <1>5, <1>6 DEF MemoryNext

(* The invariant holds in every state. *)
LEMMA MemoryInvariant == MemorySpec => []MemoryInv
  BY MemoryInitInv, MemoryNextPreserves, PTL DEF MemorySpec

(* Go's slices hold the lists of the cache after any writes: removal in    *)
(* place, append with and without room and arrays used anew, in all names  *)
(* of which no two share an array.                                         *)
THEOREM MemoryCorrect == MemorySpec => []MemoryAgrees
  <1>1. MemoryInv => MemoryAgrees
    <2> SUFFICES ASSUME MemoryInv PROVE MemoryAgrees
      OBVIOUS
    <2>1. Represents(heap, header, entries) /\ DOMAIN header = DOMAIN entries
      BY DEF MemoryInv, Represents
    <2>2. \A f \in DOMAIN entries : Elements(Memory, f) = entries[f]
      BY <2>1, ElementsFacts DEF Memory
    <2>3. \A f, g \in DOMAIN header : header[f].array = header[g].array => f = g
      BY <2>1 DEF Represents
    <2> QED
      BY <2>1, <2>2, <2>3 DEF MemoryAgrees
  <1> QED
    BY <1>1, MemoryInvariant, PTL

(* A query, which reads the slice after it has given up the lock, reads    *)
(* what Lookup found, whatever is written meanwhile, unless an entry of    *)
(* its very name is replaced, moved or deleted by its key.                 *)
THEOREM UndisturbedAnswers == MemorySpec => []AnswerIsSnapshot
  <1>1. MemoryInv => AnswerIsSnapshot
    <2> SUFFICES ASSUME MemoryInv, ~query.disturbed
                 PROVE  ~query.raced /\ query.read = SubSeq(query.found, 1, Len(query.read))
      BY DEF AnswerIsSnapshot
    <2> DEFINE n == Len(query.read)
               s == SubSeq(query.found, 1, n)
    <2>1. /\ query.read \in Seq(Slot) /\ query.found \in Seq(DNSCacheEntry) /\ ~query.raced
          /\ n <= query.len /\ query.len = Len(query.found)
          /\ \A j \in 1..n : query.read[j] = query.found[j]
      BY DEF MemoryInv, QueryOK, Queries
    <2>2. n \in Nat /\ Len(query.found) \in Nat
      BY <2>1
    <2> HIDE DEF n
    <2>3. \A j \in 1..n : query.found[j] \in Slot
      BY <2>1, <2>2 DEF Slot
    <2>4. /\ s \in Seq(Slot) /\ Len(s) = IF 1 <= n THEN n - 1 + 1 ELSE 0
          /\ \A j \in 1..(n - 1 + 1) : s[j] = query.found[1 + j - 1]
      BY <2>2, <2>3, SubSeqProperties
    <2> HIDE DEF s
    <2>5. Len(s) = Len(query.read) /\ \A j \in 1..Len(query.read) : query.read[j] = s[j]
      BY <2>1, <2>2, <2>4 DEF n
    <2>6. query.read = s
      BY <2>1, <2>4, <2>5, SeqEqual
    <2> QED
      BY <2>1, <2>6 DEF s, n
  <1> QED
    BY <1>1, MemoryInvariant, PTL
=============================================================================
