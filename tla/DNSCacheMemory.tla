--------------------------- MODULE DNSCacheMemory ---------------------------
(***************************************************************************)
(* The records cache between its writer and a query.  Lookup hands out the *)
(* slice that the entries map holds and gives up the lock; Services of the *)
(* crosscluster plugin then reads its elements one by one, while Upsert    *)
(* and DeleteByResourceKey overwrite and shift the elements of the same    *)
(* array.  This module adds to DNSCache the arrays, with Go's rules for    *)
(* slices: a slice is an array and a length, removal shifts in place, and  *)
(* append writes into the array as long as it has room.                    *)
(*                                                                         *)
(* A query one of whose elements is written between Lookup and the read of *)
(* it is a data race: what it reads from then on is undefined.             *)
(***************************************************************************)
EXTENDS DNSCache

CONSTANTS
    Arrays,                 \* identities of arrays, reused when out of use
    MaxWrites               \* bound on writes of the cache

VARIABLES
    heap,                   \* array |-> its elements, <<>> when out of use
    header,                 \* canonical name |-> slice [array, len]
    query,                  \* the query that is being answered, or NoQuery
    writes                  \* number of writes so far

memoryVars == <<cacheVars, heap, header, query, writes>>

NoQuery == [name |-> <<>>, array |-> 0, len |-> 0, read |-> <<>>,
            found |-> <<>>, disturbed |-> FALSE, raced |-> FALSE]

ASSUME ArraysAssumption ==
    /\ IsFiniteSet(Arrays) /\ IsFiniteSet(CanonicalNames)
    /\ Arrays = 1..Cardinality(Arrays) /\ MaxWrites \in Nat
    /\ Cardinality(Arrays) >= Cardinality(CanonicalNames) + 2

MemoryInit ==
    /\ CacheInit
    /\ heap = [x \in Arrays |-> <<>>]
    /\ header = [n \in {} |-> 0]
    /\ query = NoQuery
    /\ writes = 0

-----------------------------------------------------------------------------
(* Go's slices.  A memory is a record of heap and header. *)

Memory == [heap |-> heap, header |-> header]
Elements(m, f) ==
    IF f \in DOMAIN m.header
    THEN SubSeq(m.heap[m.header[f].array], 1, m.header[f].len)
    ELSE <<>>

Without(m, f) == [m EXCEPT !.header = [g \in DOMAIN @ \ {f} |-> @[g]]]

Put(m, f, slice, array) ==
    [heap   |-> [m.heap EXCEPT ![slice.array] = array],
     header |-> [g \in DOMAIN m.header \cup {f} |-> IF g = f THEN slice ELSE m.header[g]]]

(* Mutant: the element after the removed one is lost. *)
RemoveElementAndNext(m, f, k) ==
    LET slice == m.header[f]
        i == FirstIndex(Elements(m, f), k)
    IN  Put(m, f, [slice EXCEPT !.len = @ - 1],
            [j \in DOMAIN m.heap[slice.array] |->
                m.heap[slice.array][IF j \in i..(slice.len - 2) THEN j + 2 ELSE j]])

(* append(es[:i], es[i+1:]...) *)
RemoveElement(m, f, k) ==
    LET slice == m.header[f]
        i == FirstIndex(Elements(m, f), k)
    IN  Put(m, f, [slice EXCEPT !.len = @ - 1],
            [j \in DOMAIN m.heap[slice.array] |->
                m.heap[slice.array][IF j \in i..(slice.len - 1) THEN j + 1 ELSE j]])

(* append(es, e): in place, or in a new array of twice the length. *)
AppendElement(m, f, e) ==
    LET es == Elements(m, f)
        n  == Len(es) + 1
        used == {m.header[g].array : g \in DOMAIN m.header} \cup {query.array}
    IN  IF f \in DOMAIN m.header /\ n <= Len(m.heap[m.header[f].array])
        THEN Put(m, f, [m.header[f] EXCEPT !.len = n],
                 [m.heap[m.header[f].array] EXCEPT ![n] = e])
        ELSE Put(m, f, [array |-> Min(Arrays \ used), len |-> n],
                 [j \in 1..Max({1, 2 * Len(es)}) |->
                     IF j < n THEN es[j] ELSE IF j = n THEN e ELSE NoEntry])

SetElement(m, f, e) ==
    LET slice == m.header[f]
        i == FirstIndex(Elements(m, f), e.ResourceKey)
    IN  Put(m, f, slice, [m.heap[slice.array] EXCEPT ![i] = e])

-----------------------------------------------------------------------------
(* What of a heap some slice reaches: an array that none does is out of    *)
(* use, and an element beyond all lengths is only room for append.         *)
Collected(m, q) ==
    LET slices == {m.header[f] : f \in DOMAIN m.header} \cup {[array |-> q.array, len |-> q.len]}
    IN  [x \in Arrays |->
            LET lengths == {s.len : s \in {t \in slices : t.array = x}}
            IN  IF lengths = {} THEN <<>>
                ELSE [j \in DOMAIN m.heap[x] |-> IF j <= Max(lengths) THEN m.heap[x][j] ELSE NoEntry]]

(* Every write of the cache, with what it does to the arrays and to the    *)
(* query that is under way: keys are those whose entries it replaces or    *)
(* removes.                                                                *)
Write(m, keys) ==
    /\ writes < MaxWrites /\ writes' = writes + 1
    /\ header' = m.header
    /\ heap' = Collected(m, query)
    /\ query' =
          [query EXCEPT
              !.disturbed = @ \/ \E k \in keys \cap DOMAIN resourceKeyToFQDN :
                                    resourceKeyToFQDN[k] = query.name,
              !.raced = @ \/ \E j \in (Len(query.read) + 1)..query.len :
                                m.heap[query.array][j] # heap[query.array][j]]

MemoryUpsert(entry) ==
    LET fqdn  == CanonicalName(entry.FQDN)
        k     == entry.ResourceKey
        moves == k \in DOMAIN resourceKeyToFQDN /\ resourceKeyToFQDN[k] # fqdn
        shrunk == RemoveElement(Memory, resourceKeyToFQDN[k], k)
        left  == CASE ~moves -> Memory
                   [] moves /\ Elements(shrunk, resourceKeyToFQDN[k]) = <<>>
                        -> Without(shrunk, resourceKeyToFQDN[k])
                   [] OTHER -> shrunk
    IN  /\ Upsert(entry)
        /\ Write(IF HasKey(Elements(left, fqdn), k)
                 THEN SetElement(left, fqdn, StoredEntry(entry))
                 ELSE AppendElement(left, fqdn, StoredEntry(entry)),
                 {k})

(* Mutant: the list is truncated and its array kept for the next entries. *)
MemoryDeleteTruncates(name) ==
    LET f == CanonicalName(name)
    IN  /\ Delete(name)
        /\ Write(IF f \in DOMAIN header
                 THEN [Memory EXCEPT !.header[f].len = 0] ELSE Memory, {})

(* The name leaves the map; its array stays with whoever still reads it. *)
MemoryDelete(name) ==
    /\ Delete(name)
    /\ Write(Without(Memory, CanonicalName(name)), {})

MemoryDeleteByResourceKey(k) ==
    /\ DeleteByResourceKey(k)
    /\ Write(IF k \in DOMAIN resourceKeyToFQDN
             THEN RemoveElement(Memory, resourceKeyToFQDN[k], k) ELSE Memory,
             {k})

-----------------------------------------------------------------------------
(* A query: Lookup under the read lock, then Services' loop without it. *)

QueryLookup(name) ==
    LET fqdn == CanonicalName(name)
        key  == LookupKey(fqdn, Min(LookupRounds(fqdn)))
    IN  /\ query = NoQuery /\ Lookup(name) # <<>>
        /\ query' = [NoQuery EXCEPT !.name = key, !.array = header[key].array,
                                    !.len = header[key].len, !.found = Lookup(name)]
        /\ UNCHANGED <<cacheVars, heap, header, writes>>

(* The loop copies the next element. *)
QueryRead ==
    /\ ~query.raced /\ Len(query.read) < query.len
    /\ query' = [query EXCEPT !.read = Append(@, heap[query.array][Len(@) + 1])]
    /\ UNCHANGED <<cacheVars, heap, header, writes>>

QueryEnd ==
    /\ query # NoQuery
    /\ query.raced \/ Len(query.read) = query.len
    /\ query' = NoQuery
    /\ heap' = Collected(Memory, NoQuery)
    /\ UNCHANGED <<cacheVars, header, writes>>

MemoryNext ==
    \/ \E e \in Upserts : MemoryUpsert(e)
    \/ \E n \in Names : MemoryDelete(n) \/ QueryLookup(n)
    \/ \E k \in ResourceKeys : MemoryDeleteByResourceKey(k)
    \/ QueryRead \/ QueryEnd

MemorySpec == MemoryInit /\ [][MemoryNext]_memoryVars

-----------------------------------------------------------------------------
(* Properties. *)

(* The arrays hold what the lists of DNSCache say: the updates that cache  *)
(* .go makes in place, on arrays that keep elements of former lengths,     *)
(* have the effect of the updates of sequences, and no two names share an  *)
(* array.                                                                  *)
MemoryAgrees ==
    /\ DOMAIN header = DOMAIN entries
    /\ \A f \in DOMAIN entries : Elements(Memory, f) = entries[f]
    /\ \A f, g \in DOMAIN header : header[f].array = header[g].array => f = g

(* A query reads what its name had at the time of Lookup, unless in the    *)
(* meantime an entry of that very name was replaced, moved or deleted by   *)
(* its key: entries that are added to the name, a Delete of the whole      *)
(* name, its publication anew, and all writes of other names leave the     *)
(* query alone although it holds no lock.                                  *)
AnswerIsSnapshot ==
    ~query.disturbed => ~query.raced /\ query.read = SubSeq(query.found, 1, Len(query.read))
=============================================================================
