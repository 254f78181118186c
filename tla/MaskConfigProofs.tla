---------------------------- MODULE MaskConfigProofs ---------------------------
(***************************************************************************)
(* Proofs about MaskConfig.  An index of any keys and any hash answers     *)
(* every lookup as the object it was built from; whatever text is parsed,  *)
(* the configuration is a well-formed value; and so every lookup and every *)
(* typed getter serves what the configuration holds.                       *)
(***************************************************************************)
EXTENDS MaskConfig, Induction

\* The slots that hold a key.
Used(slots) == DOMAIN slots \ Index!FreeSlots(slots)

\* A table of n slots for the hash H holds exactly the map pairs: each used
\* slot has a pair of it, each key is in one slot, and no slot on the way to
\* it, from its hash on, is free.
Holds(slots, n, H, pairs) ==
  /\ n \in Nat \ {0}
  /\ DOMAIN slots = 0..(n - 1)
  /\ \A i \in Used(slots) :
       /\ slots[i].key \in DOMAIN pairs
       /\ slots[i] = Index!Slot(slots[i].key, pairs[slots[i].key])
  /\ \A k \in DOMAIN pairs :
       /\ H[k] \in Nat
       /\ \E d \in 0..(n - 1) :
            /\ Index!Probe(slots, H[k], d) \in Used(slots)
            /\ slots[Index!Probe(slots, H[k], d)].key = k
            /\ \A e \in 0..(d - 1) : Index!Probe(slots, H[k], e) \in Used(slots)
  /\ \A i, j \in Used(slots) : slots[i].key = slots[j].key => i = j

-----------------------------------------------------------------------------
(* Arithmetic.                                                             *)

\* A step around the table.
LEMMA ModuloOfSum ==
  ASSUME NEW n \in Nat \ {0}, NEW s \in 0..(n - 1), NEW d \in 0..(n - 1)
  PROVE  (s + d) % n = IF s + d < n THEN s + d ELSE s + d - n
OBVIOUS

LEMMA CapacityOf ==
  ASSUME NEW slots, NEW n \in Nat \ {0}, DOMAIN slots = 0..(n - 1)
  PROVE  Index!Capacity(slots) = n
<1>1. Cardinality(0..(n - 1)) = n
  BY FS_Interval
<1>2. Index!Capacity(slots) = Cardinality(DOMAIN slots)
  BY Zenon DEF Index!Capacity, Index!Cardinality, Cardinality
<1>3. QED
  BY <1>1, <1>2

LEMMA ProbeOf ==
  ASSUME NEW slots, NEW n \in Nat \ {0}, DOMAIN slots = 0..(n - 1),
         NEW h \in Nat, NEW d \in 0..(n - 1)
  PROVE  /\ (h % n) \in 0..(n - 1)
         /\ Index!Probe(slots, h, d) = IF (h % n) + d < n THEN (h % n) + d ELSE (h % n) + d - n
         /\ Index!Probe(slots, h, d) \in 0..(n - 1)
<1>1. Index!Capacity(slots) = n
  BY CapacityOf
<1>2. PICK s \in 0..(n - 1) : s = h % n
  OBVIOUS
<1>3. Index!Probe(slots, h, d) = (s + d) % n
  BY <1>1, <1>2 DEF Index!Probe
<1>4. Index!Probe(slots, h, d) = IF s + d < n THEN s + d ELSE s + d - n
  BY <1>3, ModuloOfSum
<1>5. (IF s + d < n THEN s + d ELSE s + d - n) \in 0..(n - 1)
  OBVIOUS
<1>6. QED
  BY <1>2, <1>4, <1>5

\* Every slot is met within n steps.
LEMMA ProbeMeets ==
  ASSUME NEW slots, NEW n \in Nat \ {0}, DOMAIN slots = 0..(n - 1),
         NEW h \in Nat, NEW i \in 0..(n - 1)
  PROVE  \E d \in 0..(n - 1) : Index!Probe(slots, h, d) = i
<1>1. PICK s \in 0..(n - 1) : s = h % n
  OBVIOUS
<1>2. (IF i >= s THEN i - s ELSE i - s + n) \in 0..(n - 1)
  OBVIOUS
<1>3. PICK d \in 0..(n - 1) : d = IF i >= s THEN i - s ELSE i - s + n
  BY <1>2
<1>4. Index!Probe(slots, h, d) = IF s + d < n THEN s + d ELSE s + d - n
  BY <1>1, ProbeOf
<1>5. QED
  BY <1>3, <1>4

\* Index!FirstFrom walks to the first slot of a set that is not empty.
LEMMA FirstMeets ==
  ASSUME NEW slots, NEW n \in Nat \ {0}, DOMAIN slots = 0..(n - 1),
         NEW h \in Nat, NEW S \in SUBSET (0..(n - 1)), S # {}
  PROVE  LET d == Index!FirstFrom(slots, h, S)
         IN /\ d \in 0..(n - 1)
            /\ Index!Probe(slots, h, d) \in S
            /\ \A e \in 0..(d - 1) : Index!Probe(slots, h, e) \notin S
<1> DEFINE T == {d \in 0..(n - 1) : Index!Probe(slots, h, d) \in S}
<1>1. T \in SUBSET Nat /\ T # {}
  <2>1. PICK i \in 0..(n - 1) : i \in S
    OBVIOUS
  <2>2. \E d \in 0..(n - 1) : Index!Probe(slots, h, d) = i
    BY ProbeMeets
  <2>3. QED
    BY <2>1, <2>2
<1>2. PICK m \in T : \A k \in T : m <= k
  BY <1>1, LeastNumber
<1>3. \A e \in 0..(m - 1) : Index!Probe(slots, h, e) \notin S
  <2>1. SUFFICES ASSUME NEW e \in 0..(m - 1), Index!Probe(slots, h, e) \in S PROVE FALSE
    OBVIOUS
  <2>2. m \in 0..(n - 1)
    BY <1>2
  <2>3. e \in T
    BY <2>1, <2>2
  <2>4. QED
    BY <1>2, <2>1, <2>2, <2>3
<1>4. Index!Capacity(slots) = n
  BY CapacityOf
<1>5. \E d \in 0..(Index!Capacity(slots) - 1) :
        /\ Index!Probe(slots, h, d) \in S
        /\ \A e \in 0..(d - 1) : Index!Probe(slots, h, e) \notin S
  BY <1>2, <1>3, <1>4
<1>6. QED
  BY <1>4, <1>5 DEF Index!FirstFrom

-----------------------------------------------------------------------------
(* The table and its map.                                                  *)

\* A lookup in a table with a free slot finds the key's own pair, and nothing
\* for a key that was not inserted, whatever the hashes collide on.
THEOREM FindIsLookup ==
  ASSUME NEW slots, NEW n, NEW H, NEW pairs, Holds(slots, n, H, pairs),
         Index!FreeSlots(slots) # {}, NEW key, H[key] \in Nat
  PROVE  Index!Find(slots, H[key], key) =
           IF key \in DOMAIN pairs THEN Index!Slot(key, pairs[key]) ELSE Free
<1> DEFINE S == Index!Stops(slots, key)
           d == Index!FirstFrom(slots, H[key], S)
           i == Index!Probe(slots, H[key], d)
<1>1. n \in Nat \ {0} /\ DOMAIN slots = 0..(n - 1) /\ 0 \in DOMAIN slots
  BY DEF Holds
<1>2. S \in SUBSET (0..(n - 1)) /\ S # {}
  BY <1>1 DEF Index!Stops, Index!FreeSlots
<1>3. /\ d \in 0..(n - 1) /\ i \in S
      /\ \A e \in 0..(d - 1) : Index!Probe(slots, H[key], e) \notin S
  BY <1>1, <1>2, FirstMeets
<1>4. Index!Find(slots, H[key], key) = slots[i]
  BY <1>1 DEF Index!Find
<1> HIDE DEF d, i
<1>5. CASE key \in DOMAIN pairs
  <2>1. PICK d0 \in 0..(n - 1) :
          /\ Index!Probe(slots, H[key], d0) \in Used(slots)
          /\ slots[Index!Probe(slots, H[key], d0)].key = key
          /\ \A e \in 0..(d0 - 1) : Index!Probe(slots, H[key], e) \in Used(slots)
    BY <1>5 DEF Holds
  <2>2. Index!Probe(slots, H[key], d0) \in S
    BY <2>1 DEF Index!Stops, Used
  <2>3. d <= d0
    BY <1>3, <2>2
  <2>4. i \in Used(slots)
    BY <1>3, <2>1, <2>3 DEF i
  <2>5. slots[i].key = key
    BY <1>3, <2>4 DEF Index!Stops, Used
  <2>6. slots[i] = Index!Slot(key, pairs[key])
    BY <2>4, <2>5 DEF Holds
  <2>7. QED
    BY <1>4, <1>5, <2>6
<1>6. CASE key \notin DOMAIN pairs
  <2>1. i \notin Used(slots)
    BY <1>3, <1>6 DEF Holds, Index!Stops, Used
  <2>2. i \in Index!FreeSlots(slots)
    BY <1>3, <2>1 DEF Index!Stops, Used
  <2>3. QED
    BY <1>4, <1>6, <2>2 DEF Index!FreeSlots
<1>7. QED
  BY <1>5, <1>6

\* Inserting a new key into a table with a free slot adds its pair to the map
\* and moves none: every earlier key is still met before a free slot.
THEOREM InsertExtends ==
  ASSUME NEW slots, NEW n, NEW H, NEW pairs, Holds(slots, n, H, pairs),
         Index!FreeSlots(slots) # {}, NEW key, H[key] \in Nat, key \notin DOMAIN pairs,
         NEW value, Index!Slot(key, value) # Free
  PROVE  Holds(Index!Insert(slots, H[key], key, value), n, H,
               [k \in DOMAIN pairs \cup {key} |-> IF k = key THEN value ELSE pairs[k]])
<1> DEFINE d == Index!FirstFrom(slots, H[key], Index!FreeSlots(slots))
           i == Index!Probe(slots, H[key], d)
           new == [slots EXCEPT ![i] = Index!Slot(key, value)]
           more == [k \in DOMAIN pairs \cup {key} |-> IF k = key THEN value ELSE pairs[k]]
<1>1. n \in Nat \ {0} /\ DOMAIN slots = 0..(n - 1)
  BY DEF Holds
<1>2. /\ d \in 0..(n - 1) /\ i \in Index!FreeSlots(slots)
      /\ \A e \in 0..(d - 1) : Index!Probe(slots, H[key], e) \notin Index!FreeSlots(slots)
  <2>1. Index!FreeSlots(slots) \in SUBSET (0..(n - 1))
    BY <1>1 DEF Index!FreeSlots
  <2>2. QED
    BY <1>1, <2>1, FirstMeets
<1>3. Index!Insert(slots, H[key], key, value) = new
  BY DEF Index!Insert
<1> HIDE DEF d, i
<1>4. i \in DOMAIN slots /\ DOMAIN new = DOMAIN slots
  BY <1>2 DEF Index!FreeSlots
<1>5. \A h, e : Index!Probe(new, h, e) = Index!Probe(slots, h, e)
  BY <1>4 DEF Index!Probe, Index!Capacity
<1>6. Used(new) = Used(slots) \cup {i}
  BY <1>2, <1>4 DEF Used, Index!FreeSlots
<1>7. new[i] = Index!Slot(key, value) /\ \A j \in Used(slots) : j # i /\ new[j] = slots[j]
  BY <1>2, <1>4 DEF Used
<1>8. Index!Slot(key, value).key = key
  BY DEF Index!Slot
<1> HIDE DEF new
<1>9. \A j \in Used(new) :
        /\ new[j].key \in DOMAIN more
        /\ new[j] = Index!Slot(new[j].key, more[new[j].key])
  <2>1. TAKE j \in Used(new)
  <2>2. CASE j = i
    BY <1>7, <1>8, <2>2
  <2>3. CASE j \in Used(slots)
    <3>1. /\ slots[j].key \in DOMAIN pairs
          /\ slots[j] = Index!Slot(slots[j].key, pairs[slots[j].key])
      BY <2>3 DEF Holds
    <3>2. more[slots[j].key] = pairs[slots[j].key]
      BY <3>1
    <3>3. QED
      BY <1>7, <2>3, <3>1, <3>2
  <2>4. QED
    BY <1>6, <2>2, <2>3
<1>10. \A k \in DOMAIN more :
        /\ H[k] \in Nat
        /\ \E e \in 0..(n - 1) :
             /\ Index!Probe(new, H[k], e) \in Used(new)
             /\ new[Index!Probe(new, H[k], e)].key = k
             /\ \A f \in 0..(e - 1) : Index!Probe(new, H[k], f) \in Used(new)
  <2>1. TAKE k \in DOMAIN more
  <2>2. CASE k = key
    <3>1. Index!Probe(new, H[k], d) = i
      BY <1>5, <2>2 DEF i
    <3>2. \A f \in 0..(d - 1) : Index!Probe(new, H[k], f) \in Used(slots)
      <4>1. TAKE f \in 0..(d - 1)
      <4>2. f \in 0..(n - 1)
        BY <1>1, <1>2
      <4>3. Index!Probe(slots, H[key], f) \in DOMAIN slots
        BY <1>1, <4>2, ProbeOf
      <4>4. QED
        BY <1>2, <1>5, <2>2, <4>3 DEF Used
    <3>3. QED
      BY <1>2, <1>6, <1>7, <1>8, <2>2, <3>1, <3>2
  <2>3. CASE k \in DOMAIN pairs
    <3>1. H[k] \in Nat
      BY <2>3 DEF Holds
    <3>2. PICK e \in 0..(n - 1) :
            /\ Index!Probe(slots, H[k], e) \in Used(slots)
            /\ slots[Index!Probe(slots, H[k], e)].key = k
            /\ \A f \in 0..(e - 1) : Index!Probe(slots, H[k], f) \in Used(slots)
      BY <2>3 DEF Holds
    <3>3. QED
      BY <1>5, <1>6, <1>7, <3>1, <3>2
  <2>4. QED
    BY <2>2, <2>3
<1>11. \A a, b \in Used(new) : new[a].key = new[b].key => a = b
  <2>1. \A a \in Used(slots) : new[a].key = slots[a].key /\ slots[a].key # key
    BY <1>7 DEF Holds
  <2>2. \A a, b \in Used(slots) : slots[a].key = slots[b].key => a = b
    BY DEF Holds
  <2>3. new[i].key = key
    BY <1>7, <1>8
  <2>4. QED
    BY <1>6, <2>1, <2>2, <2>3
<1>12. Holds(new, n, H, more)
  BY <1>1, <1>4, <1>9, <1>10, <1>11 DEF Holds
<1>13. QED
  BY <1>3, <1>12

\* A table that was just made holds the empty map.
THEOREM EmptyHolds ==
  ASSUME NEW n \in Nat \ {0}, NEW H
  PROVE  Holds([i \in 0..(n - 1) |-> Free], n, H, [k \in {} |-> Free])
BY DEF Holds, Used, Index!FreeSlots

\* A table with more slots than its map has keys has a free one: the tables
\* are made for under half load, so that no insertion and no lookup of theirs
\* goes round for ever.
THEOREM RoomLeft ==
  ASSUME NEW slots, NEW n, NEW H, NEW pairs, Holds(slots, n, H, pairs),
         IsFiniteSet(DOMAIN pairs), Cardinality(DOMAIN pairs) < n
  PROVE  Index!FreeSlots(slots) # {}
<1> SUFFICES ASSUME Index!FreeSlots(slots) = {} PROVE FALSE
  OBVIOUS
<1> DEFINE All == 0..(n - 1)
           keyOf == [i \in All |-> slots[i].key]
<1>1. n \in Nat \ {0} /\ Used(slots) = All
  BY DEF Holds, Used
<1>2. keyOf \in [All -> DOMAIN pairs]
  BY <1>1 DEF Holds
<1>3. IsFiniteSet(All) /\ Cardinality(DOMAIN pairs) < Cardinality(All)
  <2>1. 0 \in Int /\ n - 1 \in Int
    BY <1>1
  <2>2. IsFiniteSet(All) /\ Cardinality(All) = IF 0 > n - 1 THEN 0 ELSE n - 1 - 0 + 1
    BY <2>1, FS_Interval
  <2>3. QED
    BY <1>1, <2>2
<1> HIDE DEF keyOf, All
<1>4. \E x, y \in All : x # y /\ keyOf[x] = keyOf[y]
  BY <1>2, <1>3, FS_PigeonHole
<1>5. PICK x, y \in All : x # y /\ keyOf[x] = keyOf[y]
  BY <1>4
<1>6. slots[x].key = slots[y].key
  BY <1>5 DEF keyOf
<1>7. QED
  BY <1>1, <1>5, <1>6 DEF Holds

-----------------------------------------------------------------------------
(* Tables that are filled.                                                 *)

\* The doubling of the capacity ends above twice the number of keys.
Doubled(n, f) == f = [i \in 0..n |-> IF i = 0 THEN 16 ELSE 2 * f[i - 1]]

LEMMA CapacityDoubles ==
  ASSUME NEW n \in Nat
  PROVE  Index!CapacityFor(n) \in Nat /\ Index!CapacityFor(n) >= 2 * n + 1
<1> DEFINE step == [x \in (1..n) \X Nat |-> 2 * x[2]]
           f == CHOOSE f : f = [i \in 0..n |-> IF i = 0 THEN 16 ELSE 2 * f[i - 1]]
           Enough(i) == f[i] >= 2 * n + 1 /\ (i = 0 \/ f[i - 1] < 2 * n + 1)
<1>1. \E g : Doubled(n, g)
  <2>1. step \in Steps(n, Nat)
    BY DEF Steps
  <2>2. PICK g : Recursive(g, n, Nat, 16, step)
    BY <2>1, Recursion
  <2>3. \A i \in 1..n : g[i] = 2 * g[i - 1]
    <3>1. TAKE i \in 1..n
    <3>2. i - 1 \in 0..n /\ g[i - 1] \in Nat
      BY <2>2 DEF Recursive
    <3>3. step[<<i, g[i - 1]>>] = 2 * g[i - 1]
      BY <3>2
    <3>4. QED BY <3>3, <2>2 DEF Recursive
  <2>4. g \in [0..n -> Nat] /\ g[0] = 16
    BY <2>2 DEF Recursive
  <2>5. \A i \in 0..n : g[i] = IF i = 0 THEN 16 ELSE 2 * g[i - 1]
    BY <2>3, <2>4
  <2>6. g = [i \in 0..n |-> IF i = 0 THEN 16 ELSE 2 * g[i - 1]]
    BY <2>4, <2>5
  <2>7. QED BY <2>6 DEF Doubled
<1>2. Doubled(n, f)
  BY <1>1 DEF Doubled
<1>3. Index!CapacityFor(n) = f[CHOOSE i \in 0..n : Enough(i)]
  BY DEF Index!CapacityFor
<1> HIDE DEF f
<1>4. f[0] = 16 /\ \A i \in 1..n : f[i] = 2 * f[i - 1]
  BY <1>2 DEF Doubled
<1>5. \A i \in 0..n : f[i] \in Nat /\ f[i] >= 2 * i + 16
  <2> DEFINE P == {i \in 0..n : f[i] \in Nat /\ f[i] >= 2 * i + 16}
  <2>1. 0 \in P BY <1>4
  <2>2. ASSUME NEW i \in 1..n, i - 1 \in P PROVE i \in P
    BY <1>4, <2>2
  <2> HIDE DEF P
  <2>3. 0..n \subseteq P BY <2>1, <2>2, BoundedInduction
  <2>4. QED BY <2>3 DEF P
<1>6. \E i \in 0..n : Enough(i)
  <2> DEFINE T == {i \in 0..n : f[i] >= 2 * n + 1}
  <2>1. n \in T BY <1>5
  <2>2. T \in SUBSET Nat /\ T # {}
    BY <2>1
  <2> HIDE DEF T
  <2>3. PICK i \in T : \A j \in T : i <= j
    BY <2>2, LeastNumber
  <2> USE DEF T
  <2>4. i # 0 => i - 1 \in 0..n /\ i - 1 \notin T
    BY <2>3
  <2>5. QED BY <2>3, <2>4, <1>5
<1>7. PICK c \in 0..n : c = (CHOOSE i \in 0..n : Enough(i)) /\ Enough(c)
  BY <1>6
<1>8. QED BY <1>3, <1>5, <1>7

\* Entries that put each pair of a map into a table, once, and nothing else.
EntryOf(H, pairs, k) == Index!Entry(H[k], k, pairs[k])

Enters(entries, N, H, pairs) ==
  /\ N \in Nat /\ DOMAIN entries = 1..N /\ Len(entries) = N
  /\ \A i \in 1..N : \/ entries[i] = Index!NoEntry
                     \/ \E k \in DOMAIN pairs : entries[i] = EntryOf(H, pairs, k)
  /\ \A k \in DOMAIN pairs :
       /\ H[k] \in Nat /\ Index!Slot(k, pairs[k]) # Free
       /\ \E i \in 1..N : entries[i] = EntryOf(H, pairs, k)
       /\ \A i, j \in 1..N : entries[i] = EntryOf(H, pairs, k) /\ entries[j] = EntryOf(H, pairs, k)
                               => i = j

LEMMA EntryParts ==
  ASSUME NEW H, NEW pairs, NEW k
  PROVE  /\ EntryOf(H, pairs, k) # Index!NoEntry
         /\ EntryOf(H, pairs, k)[1] = H[k]
         /\ EntryOf(H, pairs, k)[2] = k
         /\ EntryOf(H, pairs, k)[3] = pairs[k]
BY DEF EntryOf, Index!Entry, Index!NoEntry

LEMMA PutOf ==
  ASSUME NEW slots, NEW H, NEW pairs, NEW k
  PROVE  /\ Index!Put(slots, Index!NoEntry) = slots
         /\ Index!Put(slots, EntryOf(H, pairs, k)) = Index!Insert(slots, H[k], k, pairs[k])
<1>1. Index!Put(slots, Index!NoEntry) = slots
  BY DEF Index!Put
<1>2. EntryOf(H, pairs, k) # Index!NoEntry
  BY EntryParts
<1>3. Index!Put(slots, EntryOf(H, pairs, k)) =
        Index!Insert(slots, EntryOf(H, pairs, k)[1], EntryOf(H, pairs, k)[2],
                     EntryOf(H, pairs, k)[3])
  BY <1>2 DEF Index!Put
<1>4. QED BY <1>1, <1>3, EntryParts

\* The tables after each entry.
Fills(n, entries, f) ==
  f = [i \in 0..Len(entries) |->
         IF i = 0 THEN Index!NewTable(n) ELSE Index!Put(f[i - 1], entries[i])]

LEMMA FilledTables ==
  ASSUME NEW n \in Nat, NEW entries, NEW N, NEW H, NEW pairs, Enters(entries, N, H, pairs)
  PROVE  \E f : /\ Index!Filled(n, entries) = f[N]
                /\ f[0] = Index!NewTable(n)
                /\ \A i \in 1..N : f[i] = Index!Put(f[i - 1], entries[i])
<1> DEFINE c == Index!CapacityFor(n)
           X == [0..(c - 1) -> {Free} \cup {Index!Slot(k, pairs[k]) : k \in DOMAIN pairs}]
           step == [x \in (1..N) \X X |-> Index!Put(x[2], entries[x[1]])]
           f == CHOOSE f : f = [i \in 0..Len(entries) |->
                  IF i = 0 THEN Index!NewTable(n) ELSE Index!Put(f[i - 1], entries[i])]
<1>1. Index!NewTable(n) \in X
  BY DEF Index!NewTable
<1>2. ASSUME NEW t \in X, NEW i \in 1..N PROVE Index!Put(t, entries[i]) \in X
  <2>1. CASE entries[i] = Index!NoEntry
    BY <2>1, PutOf
  <2>2. CASE entries[i] # Index!NoEntry
    <3>1. PICK k \in DOMAIN pairs : entries[i] = EntryOf(H, pairs, k)
      BY <2>2 DEF Enters
    <3>2. Index!Put(t, entries[i]) = Index!Insert(t, H[k], k, pairs[k])
      BY <3>1, PutOf
    <3>3. PICK j : Index!Insert(t, H[k], k, pairs[k]) = [t EXCEPT ![j] = Index!Slot(k, pairs[k])]
      BY DEF Index!Insert
    <3>4. QED BY <3>2, <3>3
  <2>3. QED BY <2>1, <2>2
<1> HIDE DEF X
<1>3. step \in Steps(N, X)
  BY <1>2 DEF Steps
<1>4. N \in Nat /\ Len(entries) = N
  BY DEF Enters
<1>5. PICK g : Recursive(g, N, X, Index!NewTable(n), step)
  BY <1>1, <1>3, <1>4, Recursion
<1>6. \A i \in 1..N : g[i] = Index!Put(g[i - 1], entries[i])
  <2>1. TAKE i \in 1..N
  <2>2. i - 1 \in 0..N /\ g[i - 1] \in X
    BY <1>4, <1>5 DEF Recursive
  <2>3. step[<<i, g[i - 1]>>] = Index!Put(g[i - 1], entries[i])
    BY <2>2
  <2>4. QED BY <2>3, <1>5 DEF Recursive
<1>7. Fills(n, entries, g)
  <2>1. g \in [0..N -> X] /\ g[0] = Index!NewTable(n)
    BY <1>5 DEF Recursive
  <2>2. \A i \in 0..N :
          g[i] = IF i = 0 THEN Index!NewTable(n) ELSE Index!Put(g[i - 1], entries[i])
    BY <1>4, <1>6, <2>1
  <2>3. g = [i \in 0..N |-> IF i = 0 THEN Index!NewTable(n) ELSE Index!Put(g[i - 1], entries[i])]
    BY <2>1, <2>2
  <2>4. QED BY <2>3, <1>4 DEF Fills
<1>8. Fills(n, entries, f)
  BY <1>7 DEF Fills
<1>9. Index!Filled(n, entries) = f[N]
  BY <1>4 DEF Index!Filled
<1> HIDE DEF f, step
<1>10. \A i \in 0..N :
         f[i] = IF i = 0 THEN Index!NewTable(n) ELSE Index!Put(f[i - 1], entries[i])
  BY <1>4, <1>8 DEF Fills
<1>11. f[0] = Index!NewTable(n) /\ \A i \in 1..N : f[i] = Index!Put(f[i - 1], entries[i])
  BY <1>4, <1>10
<1>12. QED BY <1>9, <1>11

\* A table filled with the entries of a map answers every lookup as the map
\* does, whatever its hashes collide on: this is each of the indexes of the
\* configuration, which are filled once and never change.
THEOREM FilledIsLookup ==
  ASSUME NEW n \in Nat, NEW entries, NEW N, NEW H, NEW pairs, Enters(entries, N, H, pairs),
         IsFiniteSet(DOMAIN pairs), Cardinality(DOMAIN pairs) <= n, NEW key, H[key] \in Nat
  PROVE  Index!Find(Index!Filled(n, entries), H[key], key) =
           IF key \in DOMAIN pairs THEN Index!Slot(key, pairs[key]) ELSE Free
<1> DEFINE c == Index!CapacityFor(n)
           keyed(i) == {k \in DOMAIN pairs : \E j \in 1..i : entries[j] = EntryOf(H, pairs, k)}
           held(i) == [k \in keyed(i) |-> pairs[k]]
<1>1. PICK f : /\ Index!Filled(n, entries) = f[N]
               /\ f[0] = Index!NewTable(n)
               /\ \A i \in 1..N : f[i] = Index!Put(f[i - 1], entries[i])
  BY FilledTables
<1>2. c \in Nat \ {0} /\ n < c
  BY CapacityDoubles
<1>3. N \in Nat
  BY DEF Enters
<1>4. \A i : Cardinality(keyed(i)) < c /\ IsFiniteSet(keyed(i))
  <2>1. TAKE i
  <2>2. keyed(i) \subseteq DOMAIN pairs
    OBVIOUS
  <2> HIDE DEF keyed
  <2>3. /\ IsFiniteSet(keyed(i)) /\ Cardinality(keyed(i)) <= Cardinality(DOMAIN pairs)
        /\ Cardinality(keyed(i)) \in Nat /\ Cardinality(DOMAIN pairs) \in Nat
    BY <2>2, FS_Subset, FS_CardinalityType
  <2> HIDE DEF c
  <2>4. QED BY <2>3, <1>2
<1> HIDE DEF c
<1> DEFINE P == {i \in 0..N : Holds(f[i], c, H, held(i))}
<1>5. 0 \in P
  <2>1. keyed(0) = {}
    OBVIOUS
  <2> HIDE DEF keyed
  <2>2. held(0) = [k \in {} |-> Free]
    BY <2>1
  <2>3. f[0] = [i \in 0..(c - 1) |-> Free]
    BY <1>1 DEF Index!NewTable, c
  <2> HIDE DEF held
  <2>4. Holds(f[0], c, H, held(0))
    BY <2>2, <2>3, <1>2, EmptyHolds
  <2>5. QED BY <2>4, <1>3
<1>6. ASSUME NEW i \in 1..N, i - 1 \in P PROVE i \in P
  <2>1. Holds(f[i - 1], c, H, held(i - 1))
    BY <1>6
  <2>2. f[i] = Index!Put(f[i - 1], entries[i])
    BY <1>1
  <2>3. \A j : j \in 1..i <=> j \in 1..(i - 1) \/ j = i
    OBVIOUS
  <2>4. CASE entries[i] = Index!NoEntry
    <3>1. keyed(i) = keyed(i - 1)
      BY <2>3, <2>4, EntryParts
    <3>2. f[i] = f[i - 1]
      BY <2>2, <2>4, PutOf
    <3>3. QED BY <3>1, <3>2, <2>1, <1>3
  <2>5. CASE entries[i] # Index!NoEntry
    <3>1. PICK k \in DOMAIN pairs : entries[i] = EntryOf(H, pairs, k)
      BY <2>5 DEF Enters
    <3>2. f[i] = Index!Insert(f[i - 1], H[k], k, pairs[k])
      BY <2>2, <3>1, PutOf
    <3>3. \A x \in DOMAIN pairs : entries[i] = EntryOf(H, pairs, x) => x = k
      <4>1. TAKE x \in DOMAIN pairs
      <4>2. EntryOf(H, pairs, k)[2] = k /\ EntryOf(H, pairs, x)[2] = x
        BY EntryParts
      <4>3. QED BY <3>1, <4>2
    <3>4. keyed(i) = keyed(i - 1) \cup {k}
      BY <2>3, <3>1, <3>3
    <3>5. k \notin keyed(i - 1)
      <4>1. \A j \in 1..N : entries[j] = EntryOf(H, pairs, k) => i = j
        BY <3>1 DEF Enters
      <4>2. \A j \in 1..(i - 1) : j \in 1..N /\ i # j
        BY <1>3
      <4>3. QED BY <4>1, <4>2
    <3>6. H[k] \in Nat /\ Index!Slot(k, pairs[k]) # Free
      BY DEF Enters
    <3> HIDE DEF keyed
    <3>7. DOMAIN held(i - 1) = keyed(i - 1)
      OBVIOUS
    <3>8. [x \in DOMAIN held(i - 1) \cup {k} |-> IF x = k THEN pairs[k] ELSE held(i - 1)[x]]
            = held(i)
      BY <3>4, <3>5
    <3> HIDE DEF held
    <3>9. Index!FreeSlots(f[i - 1]) # {}
      BY <2>1, <3>7, <1>4, RoomLeft
    <3>10. k \notin DOMAIN held(i - 1)
      BY <3>5, <3>7
    <3>11. Holds(Index!Insert(f[i - 1], H[k], k, pairs[k]), c, H,
                 [x \in DOMAIN held(i - 1) \cup {k} |->
                    IF x = k THEN pairs[k] ELSE held(i - 1)[x]])
      BY <2>1, <3>9, <3>6, <3>10, InsertExtends
    <3>12. Holds(f[i], c, H, held(i))
      BY <3>11, <3>8, <3>2
    <3>13. QED BY <3>12, <1>3
  <2>6. QED BY <2>4, <2>5
<1>7. N \in P
  <2> HIDE DEF P
  <2>1. 0..N \subseteq P
    BY <1>3, <1>5, <1>6, BoundedInduction
  <2>2. QED BY <2>1, <1>3
<1>8. keyed(N) = DOMAIN pairs
  BY DEF Enters
<1>9. DOMAIN held(N) = DOMAIN pairs /\ \A k \in DOMAIN pairs : held(N)[k] = pairs[k]
  BY <1>8
<1> HIDE DEF keyed
<1>10. Holds(f[N], c, H, held(N))
  BY <1>7
<1> HIDE DEF held
<1>11. Index!FreeSlots(f[N]) # {}
  <2>1. Cardinality(DOMAIN held(N)) < c /\ IsFiniteSet(DOMAIN held(N))
    BY <1>4, <1>8, <1>9
  <2>2. QED BY <2>1, <1>10, RoomLeft
<1>12. Index!Find(f[N], H[key], key) =
         IF key \in DOMAIN held(N) THEN Index!Slot(key, held(N)[key]) ELSE Free
  BY <1>10, <1>11, FindIsLookup
<1>13. QED BY <1>1, <1>9, <1>12

-----------------------------------------------------------------------------
(* The order of the keys.                                                  *)

Byte == 0..255

LEMMA BytesOf ==
  ASSUME NEW s \in Seq(Byte)
  PROVE  Len(s) \in Nat /\ DOMAIN s = 1..Len(s) /\ \A i \in 1..Len(s) : s[i] \in Byte /\ s[i] \in Int
<1>1. Len(s) \in Nat /\ DOMAIN s = 1..Len(s) /\ \A i \in 1..Len(s) : s[i] \in Byte
  OBVIOUS
<1>2. Byte \subseteq Int
  BY DEF Byte
<1>3. QED BY <1>1, <1>2

\* The order of a map's keys is a strict total order.
LEMMA LessIrreflexive ==
  ASSUME NEW a \in Seq(Byte)
  PROVE  ~BytesLess(a, a)
<1> SUFFICES ASSUME NEW i \in 1..Len(a), i = Len(a) + 1 \/ a[i] < a[i] PROVE FALSE
  BY DEF BytesLess
<1>1. a[i] \in Int /\ Len(a) \in Nat
  BY BytesOf
<1>2. QED BY <1>1

LEMMA LessTransitive ==
  ASSUME NEW a \in Seq(Byte), NEW b \in Seq(Byte), NEW c \in Seq(Byte),
         BytesLess(a, b), BytesLess(b, c)
  PROVE  BytesLess(a, c)
<1>1. /\ Len(a) \in Nat /\ Len(b) \in Nat /\ Len(c) \in Nat
      /\ \A i \in 1..Len(a) : a[i] \in Int
      /\ \A i \in 1..Len(b) : b[i] \in Int
      /\ \A i \in 1..Len(c) : c[i] \in Int
  BY BytesOf
<1>2. PICK m \in 1..Len(b) : /\ m <= Len(a) + 1
                             /\ \A j \in 1..(m - 1) : a[j] = b[j]
                             /\ m = Len(a) + 1 \/ a[m] < b[m]
  BY DEF BytesLess
<1>3. PICK n \in 1..Len(c) : /\ n <= Len(b) + 1
                             /\ \A j \in 1..(n - 1) : b[j] = c[j]
                             /\ n = Len(b) + 1 \/ b[n] < c[n]
  BY DEF BytesLess
<1>4. CASE m <= n
  <2>1. m \in 1..Len(c) /\ \A j \in 1..(m - 1) : a[j] = c[j]
    BY <1>1, <1>2, <1>3, <1>4
  <2>2. m = Len(a) + 1 \/ a[m] < c[m]
    <3>1. CASE m < n
      BY <3>1, <1>1, <1>2, <1>3
    <3>2. CASE m = n
      <4>1. b[m] < c[m]
        BY <3>2, <1>1, <1>2, <1>3
      <4>2. m # Len(a) + 1 => m \in 1..Len(a)
        BY <1>1, <1>2
      <4>3. QED BY <4>1, <4>2, <1>1, <1>2, <2>1
    <3>3. QED BY <3>1, <3>2, <1>4
  <2>3. QED BY <2>1, <2>2, <1>2 DEF BytesLess
<1>5. CASE n < m
  <2>1. n <= Len(a) + 1 /\ n \in 1..Len(a) /\ n \in 1..Len(b)
    BY <1>1, <1>2, <1>5
  <2>2. \A j \in 1..(n - 1) : a[j] = c[j]
    BY <1>2, <1>3, <1>5
  <2>3. a[n] < c[n]
    BY <1>1, <1>2, <1>3, <1>5, <2>1
  <2>4. QED BY <2>1, <2>2, <2>3 DEF BytesLess
<1>6. QED BY <1>4, <1>5

LEMMA LessTotal ==
  ASSUME NEW a \in Seq(Byte), NEW b \in Seq(Byte), a # b
  PROVE  BytesLess(a, b) \/ BytesLess(b, a)
<1>1. /\ Len(a) \in Nat /\ Len(b) \in Nat
      /\ \A i \in 1..Len(a) : a[i] \in Int
      /\ \A i \in 1..Len(b) : b[i] \in Int
  BY BytesOf
<1> DEFINE T == {i \in 1..(Len(a) + Len(b) + 1) : i > Len(a) \/ i > Len(b) \/ a[i] # b[i]}
<1>2. T \in SUBSET Nat /\ T # {}
  <2>1. Len(a) + Len(b) + 1 \in T
    BY <1>1
  <2>2. QED BY <2>1, <1>1
<1> HIDE DEF T
<1>3. PICK m \in T : \A i \in T : m <= i
  BY <1>2, LeastNumber
<1>4. m \in 1..(Len(a) + Len(b) + 1) /\ (m > Len(a) \/ m > Len(b) \/ a[m] # b[m])
  BY DEF T
<1>5. \A j \in 1..(m - 1) : j \in 1..Len(a) /\ j \in 1..Len(b) /\ a[j] = b[j]
  <2>1. TAKE j \in 1..(m - 1)
  <2>2. j \notin T
    BY <1>1, <1>3, <1>4
  <2>3. QED BY <2>2, <1>1, <1>4 DEF T
<1>6. m <= Len(a) + 1 /\ m <= Len(b) + 1
  <2>1. m # 1 => m - 1 \in 1..(m - 1)
    BY <1>4
  <2>2. QED BY <2>1, <1>1, <1>4, <1>5
<1>7. CASE m > Len(a) /\ m > Len(b)
  <2>1. Len(a) = m - 1 /\ Len(b) = m - 1
    BY <1>1, <1>4, <1>6, <1>7
  <2>2. a = b
    BY <2>1, <1>5
  <2>3. QED BY <2>2
<1>8. CASE m > Len(a) /\ m <= Len(b)
  <2>1. m \in 1..Len(b) /\ m = Len(a) + 1
    BY <1>1, <1>4, <1>6, <1>8
  <2>2. BytesLess(a, b)
    BY <2>1, <1>5, <1>6 DEF BytesLess
  <2>3. QED BY <2>2
<1>9. CASE m <= Len(a) /\ m > Len(b)
  <2>1. m \in 1..Len(a) /\ m = Len(b) + 1
    BY <1>1, <1>4, <1>6, <1>9
  <2>2. BytesLess(b, a)
    BY <2>1, <1>5, <1>6 DEF BytesLess
  <2>3. QED BY <2>2
<1>10. CASE m <= Len(a) /\ m <= Len(b)
  <2>1. m \in 1..Len(a) /\ m \in 1..Len(b) /\ a[m] # b[m]
    BY <1>1, <1>4, <1>10
  <2>2. a[m] < b[m] \/ b[m] < a[m]
    BY <2>1, <1>1
  <2>3. QED BY <2>1, <2>2, <1>5, <1>6 DEF BytesLess
<1>11. QED BY <1>1, <1>4, <1>7, <1>8, <1>9, <1>10

\* A map's keys are those of its domain, each at its own place.
Enumerates(map, keys) ==
  /\ Cardinality(DOMAIN map) \in Nat
  /\ DOMAIN keys = 1..Cardinality(DOMAIN map)
  /\ \A n \in 1..Cardinality(DOMAIN map) : keys[n] \in DOMAIN map
  /\ \A k \in DOMAIN map : \E n \in 1..Cardinality(DOMAIN map) : keys[n] = k
  /\ \A m, n \in 1..Cardinality(DOMAIN map) : keys[m] = keys[n] => m = n

LEMMA KeysEnumerate ==
  ASSUME NEW map, IsFiniteSet(DOMAIN map), DOMAIN map \subseteq Seq(Byte)
  PROVE  Enumerates(map, Keys(map))
<1> DEFINE K == DOMAIN map
           N == Cardinality(K)
           below(k) == {j \in K : BytesLess(j, k)}
           rank == [k \in K |-> Cardinality({j \in K : BytesLess(j, k)})]
<1>1. IsFiniteSet(K) /\ N \in Nat
  BY FS_CardinalityType
<1>2. \A k \in K : below(k) \subseteq K /\ k \notin below(k)
  BY LessIrreflexive
<1>3. \A j, k \in K : j # k => rank[j] # rank[k]
  <2>1. SUFFICES ASSUME NEW j \in K, NEW k \in K, BytesLess(j, k) PROVE rank[j] # rank[k]
    BY LessTotal
  <2>2. below(j) \subseteq below(k)
    BY <2>1, LessTransitive
  <2>3. j \in below(k) /\ j \notin below(j)
    BY <2>1, <1>2
  <2>4. rank[j] = Cardinality(below(j)) /\ rank[k] = Cardinality(below(k))
    OBVIOUS
  <2>5. IsFiniteSet(below(k)) /\ IsFiniteSet(below(j))
    BY <1>1, <1>2, FS_Subset
  <2> HIDE DEF below, rank, K
  <2>6. Cardinality(below(j)) < Cardinality(below(k))
    <3>1. below(j) \subseteq below(k) \ {j}
      BY <2>2, <2>3
    <3>2. /\ IsFiniteSet(below(k) \ {j})
          /\ Cardinality(below(k) \ {j}) = Cardinality(below(k)) - 1
      BY <2>3, <2>5, FS_RemoveElement
    <3>3. Cardinality(below(j)) <= Cardinality(below(k) \ {j})
      BY <3>1, <3>2, FS_Subset
    <3>4. Cardinality(below(j)) \in Nat /\ Cardinality(below(k)) \in Nat
      BY <2>5, FS_CardinalityType
    <3>5. QED BY <3>2, <3>3, <3>4
  <2>7. Cardinality(below(j)) \in Nat /\ Cardinality(below(k)) \in Nat
    BY <2>5, FS_CardinalityType
  <2>8. QED BY <2>4, <2>6, <2>7
<1>4. rank \in [K -> 0..(N - 1)]
  <2>1. ASSUME NEW k \in K PROVE Cardinality(below(k)) \in 0..(N - 1)
    <3>1. below(k) \subseteq K \ {k}
      BY <1>2
    <3> HIDE DEF below, K
    <3>2. IsFiniteSet(K \ {k}) /\ Cardinality(K \ {k}) = N - 1
      BY <1>1, FS_RemoveElement
    <3>3. Cardinality(below(k)) <= N - 1 /\ IsFiniteSet(below(k))
      BY <3>1, <3>2, FS_Subset
    <3>4. Cardinality(below(k)) \in Nat
      BY <3>3, FS_CardinalityType
    <3>5. QED BY <3>3, <3>4, <1>1
  <2>2. QED BY <2>1
<1>5. \A i \in 0..(N - 1) : \E k \in K : rank[k] = i
  <2> DEFINE R == 0..(N - 1)
  <2>1. IsFiniteSet(R) /\ Cardinality(R) = N
    <3>1. 0 \in Int /\ N - 1 \in Int
      BY <1>1
    <3>2. IsFiniteSet(R) /\ Cardinality(R) = IF 0 > N - 1 THEN 0 ELSE (N - 1) - 0 + 1
      BY <3>1, FS_Interval
    <3> HIDE DEF R
    <3>3. QED BY <1>1, <3>2
  <2> HIDE DEF rank, K, R
  <2>2. rank \in Injection(K, R)
    BY <1>3, <1>4 DEF Injection, IsInjective, R
  <2>3. rank \in Surjection(K, R)
    BY <2>1, <2>2, <1>1, FS_Injection
  <2>4. QED BY <2>3 DEF Surjection, R
<1>6. Keys(map) = [n \in 1..N |-> CHOOSE k \in K : rank[k] = n - 1]
  BY Zenon DEF Keys
<1> HIDE DEF rank, N
<1>7. \A n \in 1..N : Keys(map)[n] \in K /\ rank[Keys(map)[n]] = n - 1
  <2>1. TAKE n \in 1..N
  <2>2. n - 1 \in 0..(N - 1)
    BY <1>1
  <2>3. \E k \in K : rank[k] = n - 1
    BY <2>2, <1>5
  <2>4. QED BY <2>3, <1>6
<1>8. \A k \in K : \E n \in 1..N : Keys(map)[n] = k
  <2>1. TAKE k \in K
  <2>2. rank[k] + 1 \in 1..N /\ (rank[k] + 1) - 1 = rank[k]
    BY <1>1, <1>4
  <2>3. rank[Keys(map)[rank[k] + 1]] = rank[k] /\ Keys(map)[rank[k] + 1] \in K
    BY <2>2, <1>7
  <2>4. QED BY <2>2, <2>3, <1>3
<1>9. \A m, n \in 1..N : Keys(map)[m] = Keys(map)[n] => m = n
  BY <1>1, <1>7
<1>10. DOMAIN Keys(map) = 1..N
  BY <1>6
<1>11. QED BY <1>1, <1>7, <1>8, <1>9, <1>10 DEF Enumerates, N

-----------------------------------------------------------------------------
(* Decimals.                                                               *)

LEMMA TenParts ==
  ASSUME NEW m \in Nat
  PROVE  /\ m \div 10 \in Nat /\ m % 10 \in 0..9 /\ m = 10 * (m \div 10) + (m % 10)
         /\ m >= 10 => m \div 10 < m /\ m \div 10 > 0
OBVIOUS

LEMMA TenPartsOf ==
  ASSUME NEW a \in Nat, NEW d \in 0..9
  PROVE  (10 * a + d) \div 10 = a /\ (10 * a + d) % 10 = d
OBVIOUS

\* A recursion by the digits of a number.
ByTens(f, N, base, step) ==
  \A m \in 0..N : f[m] = IF m < 10 THEN base[m] ELSE step[<<f[m \div 10], m>>]

LEMMA TensRecursion ==
  ASSUME NEW N \in Nat, NEW X, NEW base \in [0..9 -> X], NEW step \in [X \X Nat -> X]
  PROVE  \E f \in [0..N -> X] : ByTens(f, N, base, step)
<1> DEFINE P == {n \in 0..N : \E f \in [0..n -> X] : ByTens(f, n, base, step)}
<1>1. 0 \in P
  <2> DEFINE f == [m \in 0..0 |-> base[0]]
  <2>1. f \in [0..0 -> X] /\ ByTens(f, 0, base, step)
    BY DEF ByTens
  <2> HIDE DEF f
  <2>2. QED BY <2>1
<1>2. ASSUME NEW n \in 1..N, n - 1 \in P PROVE n \in P
  <2>1. PICK f \in [0..(n - 1) -> X] : ByTens(f, n - 1, base, step)
    BY <1>2
  <2> DEFINE v == IF n < 10 THEN base[n] ELSE step[<<f[n \div 10], n>>]
             g == [m \in 0..n |-> IF m = n THEN v ELSE f[m]]
  <2>2. v \in X
    <3>1. CASE n < 10
      BY <3>1
    <3>2. CASE n >= 10
      <4>1. n \div 10 \in 0..(n - 1) /\ n \in Nat
        BY <3>2, TenParts
      <4>2. QED BY <4>1, <3>2
    <3>3. QED BY <3>1, <3>2
  <2> HIDE DEF v
  <2>3. g \in [0..n -> X]
    BY <2>2
  <2>4. \A m \in 0..n : m >= 10 => g[m \div 10] = f[m \div 10]
    <3>1. \A m \in 0..n : m >= 10 => m \div 10 \in 0..n /\ m \div 10 # n
      BY TenParts
    <3>2. QED BY <3>1
  <2>5. ASSUME NEW m \in 0..n
        PROVE  g[m] = IF m < 10 THEN base[m] ELSE step[<<g[m \div 10], m>>]
    <3>1. CASE m = n
      <4>1. g[m] = v
        BY <3>1
      <4>2. m >= 10 => g[m \div 10] = f[m \div 10]
        BY <2>4
      <4> HIDE DEF g
      <4>3. CASE m < 10
        BY <4>1, <4>3, <3>1 DEF v
      <4>4. CASE m >= 10
        BY <4>1, <4>2, <4>4, <3>1 DEF v
      <4>5. QED BY <4>3, <4>4
    <3>2. CASE m # n
      <4>1. m \in 0..(n - 1) /\ g[m] = f[m]
        BY <3>2
      <4>2. f[m] = IF m < 10 THEN base[m] ELSE step[<<f[m \div 10], m>>]
        BY <4>1, <2>1 DEF ByTens
      <4>3. m >= 10 => g[m \div 10] = f[m \div 10]
        BY <2>4
      <4> HIDE DEF g
      <4>4. CASE m < 10
        BY <4>1, <4>2, <4>4
      <4>5. CASE m >= 10
        BY <4>1, <4>2, <4>3, <4>5
      <4>6. QED BY <4>4, <4>5
    <3>3. QED BY <3>1, <3>2
  <2> HIDE DEF g
  <2>6. ByTens(g, n, base, step)
    BY <2>5 DEF ByTens
  <2>7. QED BY <2>3, <2>6
<1>3. N \in P
  <2> HIDE DEF P
  <2>1. 0..N \subseteq P
    BY <1>1, <1>2, BoundedInduction
  <2>2. QED BY <2>1
<1>4. QED BY <1>3

\* The digits of a number, from the last to the first.
WrittenTo(f, N) ==
  \A m \in 0..N : f[m] = IF m < 10 THEN <<48 + m>>
                         ELSE Append(f[m \div 10], 48 + (m % 10))

LEMMA DumpIntegerOf ==
  ASSUME NEW n \in Nat
  PROVE  \E f \in [0..n -> Seq(Int)] : WrittenTo(f, n) /\ DumpInteger(n) = f[n]
<1> DEFINE base == [m \in 0..9 |-> <<48 + m>>]
           step == [x \in Seq(Int) \X Nat |-> Append(x[1], 48 + (x[2] % 10))]
           abs == IF n < 0 THEN -(n + 1) + 1 ELSE n
           f == CHOOSE f : f = [m \in 0..abs |->
                  IF m < 10 THEN <<48 + m>> ELSE Append(f[m \div 10], 48 + (m % 10))]
<1>1. base \in [0..9 -> Seq(Int)] /\ step \in [Seq(Int) \X Nat -> Seq(Int)]
  OBVIOUS
<1>2. PICK g \in [0..n -> Seq(Int)] : ByTens(g, n, base, step)
  <2> HIDE DEF base, step
  <2>1. QED BY <1>1, TensRecursion
<1>3. \A m \in 0..n : g[m] = IF m < 10 THEN <<48 + m>> ELSE Append(g[m \div 10], 48 + (m % 10))
  <2>1. TAKE m \in 0..n
  <2>2. CASE m < 10
    <3>1. m \in 0..9
      BY <2>2
    <3>2. base[m] = <<48 + m>>
      BY <3>1
    <3>3. g[m] = base[m]
      BY <1>2, <2>2 DEF ByTens
    <3>4. QED BY <3>2, <3>3, <2>2
  <2>3. CASE m >= 10
    <3>1. m \div 10 \in 0..n
      BY <2>3, TenParts
    <3>2. g[m \div 10] \in Seq(Int) /\ m \in Nat
      BY <3>1
    <3>3. step[<<g[m \div 10], m>>] = Append(g[m \div 10], 48 + (m % 10))
      BY <3>2
    <3> HIDE DEF step
    <3>4. g[m] = step[<<g[m \div 10], m>>]
      <4>1. g[m] = IF m < 10 THEN base[m] ELSE step[<<g[m \div 10], m>>]
        BY <1>2 DEF ByTens
      <4>2. ~(m < 10)
        BY <2>3
      <4>3. QED BY <4>1, <4>2
    <3>5. QED BY <3>3, <3>4, <2>3
  <2>4. QED BY <2>2, <2>3
<1>4. g = [m \in 0..n |-> IF m < 10 THEN <<48 + m>> ELSE Append(g[m \div 10], 48 + (m % 10))]
  BY <1>3
<1>5. abs = n
  OBVIOUS
<1>6. f = [m \in 0..n |-> IF m < 10 THEN <<48 + m>> ELSE Append(f[m \div 10], 48 + (m % 10))]
  <2> HIDE DEF abs
  <2>1. \E h : h = [m \in 0..abs |-> IF m < 10 THEN <<48 + m>>
                                   ELSE Append(h[m \div 10], 48 + (m % 10))]
    BY <1>4, <1>5
  <2>2. f = [m \in 0..abs |-> IF m < 10 THEN <<48 + m>>
                              ELSE Append(f[m \div 10], 48 + (m % 10))]
    BY <2>1
  <2>3. QED BY <2>2, <1>5
<1>7. DumpInteger(n) = (IF n < 0 THEN <<Minus>> ELSE <<>>) \o f[abs]
  BY DEF DumpInteger
<1> HIDE DEF f, abs
<1>8. DumpInteger(n) = <<>> \o f[n]
  <2>1. (IF n < 0 THEN <<Minus>> ELSE <<>>) = <<>>
    OBVIOUS
  <2>2. QED BY <2>1, <1>5, <1>7, Zenon
<1>9. WrittenTo(f, n)
  BY <1>6 DEF WrittenTo
<1>10. f \in [0..n -> Seq(Int)]
  <2> DEFINE P == {m \in Nat : \A i \in 0..m : i <= n => f[i] \in Seq(Int)}
  <2>1. ASSUME NEW m \in 0..n
        PROVE  f[m] = IF m < 10 THEN <<48 + m>> ELSE Append(f[m \div 10], 48 + (m % 10))
    BY <1>9 DEF WrittenTo
  <2>2. 0 \in P
    <3>1. 0 \in 0..n /\ 0 < 10
      OBVIOUS
    <3>2. f[0] = <<48 + 0>>
      BY <3>1, <2>1
    <3>3. f[0] \in Seq(Int)
      BY <3>2
    <3>4. QED BY <3>3
  <2>3. ASSUME NEW m \in Nat, m \in P PROVE m + 1 \in P
    <3>1. ASSUME m + 1 <= n PROVE f[m + 1] \in Seq(Int)
      <4> DEFINE k == m + 1
      <4>1. k \in 0..n /\ k \in Nat
        BY <3>1
      <4>2. k \div 10 \in Nat /\ k % 10 \in 0..9 /\ (k >= 10 => k \div 10 < k)
        BY <4>1, TenParts
      <4>3. k >= 10 => k \div 10 \in 0..m /\ k \div 10 <= n
        BY <4>1, <4>2
      <4> HIDE DEF k
      <4>4. f[k] = IF k < 10 THEN <<48 + k>> ELSE Append(f[k \div 10], 48 + (k % 10))
        BY <4>1, <2>1
      <4>5. CASE k < 10
        BY <4>5, <4>1, <4>4 DEF k
      <4>6. CASE k >= 10
        <5>1. f[k \div 10] \in Seq(Int)
          BY <4>6, <4>3, <2>3
        <5>2. f[k] = Append(f[k \div 10], 48 + (k % 10))
          BY <4>6, <4>1, <4>4
        <5>3. 48 + (k % 10) \in Int
          BY <4>2
        <5>4. QED BY <5>1, <5>2, <5>3 DEF k
      <4>7. QED BY <4>5, <4>6, <4>1
    <3>2. \A i \in 0..(m + 1) : i \in 0..m \/ i = m + 1
      OBVIOUS
    <3>3. QED BY <3>1, <3>2, <2>3
  <2> HIDE DEF P
  <2>4. Nat \subseteq P
    BY <2>2, <2>3, SetInduction
  <2>5. n \in P
    BY <2>4
  <2>6. \A i \in 0..n : f[i] \in Seq(Int)
    BY <2>5 DEF P
  <2>7. QED BY <2>6, <1>6
<1>11. DumpInteger(n) = f[n]
  BY <1>8, <1>10
<1>12. QED BY <1>9, <1>10, <1>11

\* The number of digits.
CountedTo(f, N) == \A m \in 0..N : f[m] = IF m < 10 THEN 1 ELSE f[m \div 10] + 1

LEMMA CountDigitsOf ==
  ASSUME NEW n \in Nat
  PROVE  \E f \in [0..n -> Nat] : CountedTo(f, n) /\ CountDigits(n) = f[n]
<1> DEFINE base == [m \in 0..9 |-> 1]
           step == [x \in Nat \X Nat |-> x[1] + 1]
           f == CHOOSE f : f = [m \in 0..n |-> IF m < 10 THEN 1 ELSE f[m \div 10] + 1]
<1>1. base \in [0..9 -> Nat] /\ step \in [Nat \X Nat -> Nat]
  OBVIOUS
<1>2. PICK g \in [0..n -> Nat] : ByTens(g, n, base, step)
  <2> HIDE DEF base, step
  <2>1. QED BY <1>1, TensRecursion
<1>3. \A m \in 0..n : g[m] = IF m < 10 THEN 1 ELSE g[m \div 10] + 1
  <2>1. TAKE m \in 0..n
  <2>2. g[m] = IF m < 10 THEN base[m] ELSE step[<<g[m \div 10], m>>]
    BY <1>2 DEF ByTens
  <2>3. CASE m < 10
    BY <2>2, <2>3
  <2>4. CASE m >= 10
    <3>1. m \div 10 \in 0..n
      BY <2>4, TenParts
    <3>2. g[m \div 10] \in Nat /\ m \in Nat
      BY <3>1
    <3>3. step[<<g[m \div 10], m>>] = g[m \div 10] + 1
      BY <3>2
    <3> HIDE DEF step
    <3>4. QED BY <2>2, <2>4, <3>3
  <2>5. QED BY <2>3, <2>4
<1>4. g = [m \in 0..n |-> IF m < 10 THEN 1 ELSE g[m \div 10] + 1]
  BY <1>3
<1>5. f = [m \in 0..n |-> IF m < 10 THEN 1 ELSE f[m \div 10] + 1]
  BY <1>4
<1>6. CountDigits(n) = f[n]
  BY DEF CountDigits
<1> HIDE DEF f
<1>7. CountedTo(f, n)
  BY <1>5 DEF CountedTo
<1>8. f \in [0..n -> Nat]
  <2> DEFINE P == {m \in Nat : \A i \in 0..m : i <= n => f[i] \in Nat}
  <2>1. ASSUME NEW m \in 0..n PROVE f[m] = IF m < 10 THEN 1 ELSE f[m \div 10] + 1
    BY <1>7 DEF CountedTo
  <2>2. 0 \in P
    <3>1. 0 \in 0..n /\ 0 < 10
      OBVIOUS
    <3>2. f[0] = 1
      BY <3>1, <2>1
    <3>3. QED BY <3>2
  <2>3. ASSUME NEW m \in Nat, m \in P PROVE m + 1 \in P
    <3>1. ASSUME m + 1 <= n PROVE f[m + 1] \in Nat
      <4> DEFINE k == m + 1
      <4>1. k \in 0..n /\ k \in Nat
        BY <3>1
      <4>2. k \div 10 \in Nat /\ (k >= 10 => k \div 10 < k)
        BY <4>1, TenParts
      <4>3. k >= 10 => k \div 10 \in 0..m /\ k \div 10 <= n
        BY <4>1, <4>2
      <4> HIDE DEF k
      <4>4. f[k] = IF k < 10 THEN 1 ELSE f[k \div 10] + 1
        BY <4>1, <2>1
      <4>5. k >= 10 => f[k \div 10] \in Nat
        BY <4>3, <2>3
      <4>6. f[k] \in Nat
        BY <4>1, <4>4, <4>5
      <4>7. QED BY <4>6 DEF k
    <3>2. \A i \in 0..(m + 1) : i \in 0..m \/ i = m + 1
      OBVIOUS
    <3>3. QED BY <3>1, <3>2, <2>3
  <2> HIDE DEF P
  <2>4. Nat \subseteq P
    BY <2>2, <2>3, SetInduction
  <2>5. n \in P
    BY <2>4
  <2>6. \A i \in 0..n : f[i] \in Nat
    BY <2>5 DEF P
  <2>7. QED BY <2>6, <1>5
<1>9. QED BY <1>6, <1>7, <1>8

\* A smaller number has no more digits.
LEMMA CountDigitsGrows ==
  ASSUME NEW M \in Nat, NEW n \in 0..M
  PROVE  Len(DumpInteger(n)) \in Nat /\ Len(DumpInteger(n)) <= CountDigits(M)
<1>1. n \in Nat
  OBVIOUS
<1>2. PICK f \in [0..n -> Seq(Int)] : WrittenTo(f, n) /\ DumpInteger(n) = f[n]
  BY <1>1, DumpIntegerOf
<1>3. PICK c \in [0..M -> Nat] : CountedTo(c, M) /\ CountDigits(M) = c[M]
  BY CountDigitsOf
<1>4. \A m \in 0..n : f[m] = IF m < 10 THEN <<48 + m>> ELSE Append(f[m \div 10], 48 + (m % 10))
  BY <1>2 DEF WrittenTo
<1>5. \A m \in 0..M : c[m] = IF m < 10 THEN 1 ELSE c[m \div 10] + 1
  BY <1>3 DEF CountedTo
<1> DEFINE P == {q \in Nat : \A i \in 0..q : i <= M =>
                   \A m \in 0..i : m <= n => Len(f[m]) <= c[i]}
<1>6. \A m \in 0..n : Len(f[m]) \in Nat
  <2>1. \A m \in 0..n : f[m] \in Seq(Int)
    OBVIOUS
  <2>2. QED BY <2>1
<1>7. ASSUME NEW q \in 0..M, NEW m \in 0..q, m <= n, q < 10 PROVE Len(f[m]) <= c[q]
  <2>1. m \in 0..n /\ m < 10 /\ q < 10
    BY <1>7
  <2>2. f[m] = <<48 + m>> /\ c[q] = 1
    BY <2>1, <1>4, <1>5
  <2>3. QED BY <2>2
<1>8. 0 \in P
  <2>1. 0 \in 0..M /\ 0 < 10 /\ \A i \in 0..0 : i = 0
    OBVIOUS
  <2>2. QED BY <2>1, <1>7
<1>9. ASSUME NEW q \in Nat, q \in P PROVE q + 1 \in P
  <2> DEFINE k == q + 1
  <2>1. ASSUME k <= M, NEW m \in 0..k, m <= n PROVE Len(f[m]) <= c[k]
    <3>1. k \in 0..M /\ k \in Nat /\ m \in Nat /\ m \in 0..n
      BY <2>1
    <3>2. CASE k < 10
      BY <3>1, <3>2, <1>7, <2>1
    <3>3. CASE k >= 10
      <4>1. k \div 10 \in 0..q /\ k \div 10 <= M /\ k \div 10 \in 0..M
        BY <3>1, <3>3, TenParts
      <4>2. c[k] = c[k \div 10] + 1 /\ c[k \div 10] \in Nat
        BY <4>1, <3>1, <3>3, <1>5
      <4>3. CASE m < 10
        <5>1. f[m] = <<48 + m>>
          BY <3>1, <4>3, <1>4
        <5>2. Len(f[m]) = 1
          BY <5>1
        <5>3. QED BY <5>2, <4>2
      <4>4. CASE m >= 10
        <5>1. /\ m \div 10 \in Nat /\ m \div 10 <= n
              /\ m \div 10 <= k \div 10 /\ m \div 10 \in 0..n
          BY <3>1, <3>3, <4>1, <4>4, <2>1
        <5>2. Len(f[m \div 10]) <= c[k \div 10]
          BY <5>1, <4>1, <1>9
        <5>3. f[m] = IF m < 10 THEN <<48 + m>> ELSE Append(f[m \div 10], 48 + (m % 10))
          BY <3>1, <1>4
        <5>4. ~(m < 10)
          BY <3>1, <4>4
        <5>5. f[m \div 10] \in Seq(Int)
          BY <5>1
        <5>6. f[m] = Append(f[m \div 10], 48 + (m % 10)) /\ f[m \div 10] \in Seq(Int)
          BY <5>3, <5>4, <5>5
        <5>7. Len(f[m]) = Len(f[m \div 10]) + 1 /\ Len(f[m \div 10]) \in Nat
          BY <5>6
        <5>8. QED BY <5>2, <5>7, <4>2
      <4>5. QED BY <4>3, <4>4, <3>1
    <3>4. QED BY <3>2, <3>3, <3>1
  <2>2. \A i \in 0..(q + 1) : i \in 0..q \/ i = k
    OBVIOUS
  <2> HIDE DEF k
  <2>3. \A i \in 0..(q + 1) : i <= M => \A m \in 0..i : m <= n => Len(f[m]) <= c[i]
    BY <2>1, <2>2, <1>9
  <2>4. QED BY <2>3
<1> HIDE DEF P
<1>10. Nat \subseteq P
  BY <1>8, <1>9, SetInduction
<1>11. M \in P /\ M \in 0..M /\ M <= M /\ n <= n /\ n \in 0..M /\ n \in 0..n
  BY <1>10
<1>12. Len(f[n]) <= c[M]
  BY <1>11 DEF P
<1>13. QED BY <1>2, <1>3, <1>12, <1>11, <1>6

\* The value of a sequence of digits.
LEMMA NumberOf ==
  ASSUME NEW s \in Seq(Int)
  PROVE  \E r \in [0..Len(s) -> Int] :
           /\ r[0] = 0 /\ \A i \in 1..Len(s) : r[i] = 10 * r[i - 1] + s[i]
           /\ Number(s) = r[Len(s)]
<1> DEFINE n == Len(s)
           step == [x \in (1..n) \X Int |-> 10 * x[2] + s[x[1]]]
           r == CHOOSE r : r = [i \in 0..Len(s) |-> IF i = 0 THEN 0 ELSE 10 * r[i - 1] + s[i]]
<1>1. step \in Steps(n, Int) /\ n \in Nat /\ 0 \in Int
  BY DEF Steps
<1>2. PICK g : Recursive(g, n, Int, 0, step)
  <2> HIDE DEF step, n
  <2>1. QED BY <1>1, Recursion
<1>3. g \in [0..n -> Int] /\ g[0] = 0 /\ \A i \in 1..n : g[i] = step[<<i, g[i - 1]>>]
  BY <1>2 DEF Recursive
<1>4. \A i \in 1..n : g[i] = 10 * g[i - 1] + s[i]
  <2>1. TAKE i \in 1..n
  <2>2. i - 1 \in 0..n /\ g[i - 1] \in Int
    BY <1>3
  <2>3. step[<<i, g[i - 1]>>] = 10 * g[i - 1] + s[i]
    BY <2>2
  <2>4. QED BY <2>3, <1>3
<1>5. g = [i \in 0..n |-> IF i = 0 THEN 0 ELSE 10 * g[i - 1] + s[i]]
  <2>1. \A i \in 0..n : g[i] = IF i = 0 THEN 0 ELSE 10 * g[i - 1] + s[i]
    BY <1>3, <1>4
  <2>2. QED BY <2>1, <1>3
<1>6. r = [i \in 0..n |-> IF i = 0 THEN 0 ELSE 10 * r[i - 1] + s[i]]
  BY <1>5
<1>7. Number(s) = r[n]
  BY DEF Number
<1> HIDE DEF r
<1>8. r[0] = 0 /\ \A i \in 1..n : r[i] = 10 * r[i - 1] + s[i]
  <2> DEFINE f == [i \in 0..n |-> IF i = 0 THEN 0 ELSE 10 * r[i - 1] + s[i]]
  <2>1. f[0] = 0 /\ \A i \in 1..n : f[i] = 10 * r[i - 1] + s[i]
    <3>1. 0 \in 0..n
      BY <1>1
    <3>2. \A i \in 1..n : i \in 0..n /\ i # 0
      BY <1>1
    <3>3. QED BY <3>1, <3>2
  <2>2. r = f
    BY <1>6
  <2> HIDE DEF f
  <2>3. QED BY <2>1, <2>2
<1>9. r \in [0..n -> Int]
  <2> DEFINE P == {i \in 0..n : r[i] \in Int}
  <2>1. 0 \in P BY <1>8
  <2>2. ASSUME NEW i \in 1..n, i - 1 \in P PROVE i \in P
    <3>1. s[i] \in Int /\ r[i - 1] \in Int /\ r[i] = 10 * r[i - 1] + s[i]
      BY <2>2, <1>8
    <3>2. QED BY <3>1
  <2> HIDE DEF P
  <2>3. 0..n \subseteq P BY <2>1, <2>2, <1>1, BoundedInduction
  <2>4. \A i \in 0..n : r[i] \in Int BY <2>3 DEF P
  <2>5. QED BY <2>4, <1>6
<1>10. QED BY <1>7, <1>8, <1>9

LEMMA NumberAppend ==
  ASSUME NEW s \in Seq(Int), NEW d \in Int
  PROVE  /\ Number(s) \in Int
         /\ Number(<<>>) = 0
         /\ Number(Append(s, d)) = 10 * Number(s) + d
<1> DEFINE t == Append(s, d)
           n == Len(s)
<1>1. t \in Seq(Int) /\ Len(t) = n + 1 /\ n \in Nat /\ t[n + 1] = d
      /\ \A i \in 1..n : t[i] = s[i]
  OBVIOUS
<1> HIDE DEF t
<1>2. PICK r \in [0..n -> Int] : /\ r[0] = 0 /\ \A i \in 1..n : r[i] = 10 * r[i - 1] + s[i]
                                 /\ Number(s) = r[n]
  BY NumberOf
<1>3. PICK q \in [0..(n + 1) -> Int] :
        /\ q[0] = 0 /\ \A i \in 1..(n + 1) : q[i] = 10 * q[i - 1] + t[i]
        /\ Number(t) = q[n + 1]
  BY <1>1, NumberOf
<1>4. q[n] = r[n]
  <2> DEFINE P == {i \in 0..n : q[i] = r[i]}
  <2>1. 0 \in P BY <1>1, <1>2, <1>3
  <2>2. ASSUME NEW i \in 1..n, i - 1 \in P PROVE i \in P
    <3>1. q[i - 1] = r[i - 1] /\ i \in 1..(n + 1)
      BY <2>2, <1>1
    <3>2. q[i] = 10 * q[i - 1] + t[i] /\ r[i] = 10 * r[i - 1] + s[i] /\ t[i] = s[i]
      BY <3>1, <1>1, <1>2, <1>3
    <3>3. QED BY <3>1, <3>2
  <2> HIDE DEF P
  <2>3. 0..n \subseteq P BY <2>1, <2>2, <1>1, BoundedInduction
  <2>4. n \in P BY <2>3, <1>1
  <2>5. QED BY <2>4 DEF P
<1>5. q[n + 1] = 10 * q[n] + d
  <2>1. n + 1 \in 1..(n + 1) /\ (n + 1) - 1 = n
    BY <1>1
  <2>2. QED BY <2>1, <1>1, <1>3
<1>6. Number(<<>>) = 0
  <2>1. <<>> \in Seq(Int) /\ Len(<<>>) = 0
    OBVIOUS
  <2>2. QED BY <2>1, NumberOf
<1>7. Number(s) \in Int
  BY <1>1, <1>2, SMTT(30)
<1>8. QED BY <1>2, <1>3, <1>4, <1>5, <1>6, <1>7 DEF t

LEMMA WrittenAlike ==
  ASSUME NEW f, NEW N \in Nat, WrittenTo(f, N), NEW g, NEW M \in Nat, WrittenTo(g, M),
         NEW n \in Nat, n <= N, n <= M
  PROVE  f[n] = g[n]
<1> DEFINE P == {q \in Nat : \A i \in 0..q : i <= n => f[i] = g[i]}
<1>1. ASSUME NEW m \in 0..n
      PROVE  /\ f[m] = IF m < 10 THEN <<48 + m>> ELSE Append(f[m \div 10], 48 + (m % 10))
             /\ g[m] = IF m < 10 THEN <<48 + m>> ELSE Append(g[m \div 10], 48 + (m % 10))
  <2>1. m \in 0..N /\ m \in 0..M
    OBVIOUS
  <2>2. QED BY <2>1 DEF WrittenTo
<1>2. 0 \in P
  <2>1. 0 \in 0..n /\ 0 < 10 /\ \A i \in 0..0 : i = 0
    OBVIOUS
  <2>2. f[0] = <<48 + 0>> /\ g[0] = <<48 + 0>>
    BY <2>1, <1>1
  <2>3. QED BY <2>1, <2>2
<1>3. ASSUME NEW q \in Nat, q \in P PROVE q + 1 \in P
  <2>1. ASSUME NEW k, k = q + 1, k <= n PROVE f[k] = g[k]
    <3>1. k \in 0..n /\ k \in Nat
      BY <2>1
    <3>2. k >= 10 => k \div 10 \in 0..q /\ k \div 10 <= n
      BY <3>1, <2>1, TenParts
    <3>3. k >= 10 => f[k \div 10] = g[k \div 10]
      BY <3>2, <1>3
    <3>4. /\ f[k] = IF k < 10 THEN <<48 + k>> ELSE Append(f[k \div 10], 48 + (k % 10))
          /\ g[k] = IF k < 10 THEN <<48 + k>> ELSE Append(g[k \div 10], 48 + (k % 10))
      BY <3>1, <1>1
    <3>5. CASE k < 10
      BY <3>4, <3>5
    <3>6. CASE k >= 10
      <4>1. ~(k < 10)
        BY <3>1, <3>6
      <4>2. QED BY <4>1, <3>3, <3>4, <3>6
    <3>7. QED BY <3>1, <3>5, <3>6
  <2>2. \A i \in 0..(q + 1) : i \in 0..q \/ i = q + 1
    OBVIOUS
  <2>3. QED BY <2>1, <2>2, <1>3
<1> HIDE DEF P
<1>4. Nat \subseteq P
  BY <1>2, <1>3, SetInduction
<1>5. n \in P /\ n \in 0..n /\ n <= n
  BY <1>4
<1>6. QED BY <1>5 DEF P

\* The last digit is written after the others.
LEMMA DumpIntegerStep ==
  ASSUME NEW n \in Nat
  PROVE  /\ DumpInteger(n) \in Seq(Int)
         /\ n < 10 => DumpInteger(n) = <<48 + n>>
         /\ n >= 10 => DumpInteger(n) = Append(DumpInteger(n \div 10), 48 + (n % 10))
<1>1. PICK f \in [0..n -> Seq(Int)] : WrittenTo(f, n) /\ DumpInteger(n) = f[n]
  BY DumpIntegerOf
<1>2. n \div 10 \in Nat /\ (n >= 10 => n \div 10 <= n)
  BY TenParts
<1>3. PICK g : WrittenTo(g, n \div 10) /\ DumpInteger(n \div 10) = g[n \div 10]
  BY <1>2, DumpIntegerOf
<1>4. n >= 10 => f[n \div 10] = g[n \div 10]
  <2> DEFINE m == n \div 10
  <2>1. m \in Nat /\ m <= m /\ WrittenTo(g, m)
    BY <1>2, <1>3
  <2> HIDE DEF m
  <2>2. m <= n => f[m] = g[m]
    BY <2>1, <1>1, WrittenAlike
  <2>3. QED BY <2>2, <1>2 DEF m
<1>5. n \in 0..n
  OBVIOUS
<1>6. f[n] = IF n < 10 THEN <<48 + n>> ELSE Append(f[n \div 10], 48 + (n % 10))
  BY <1>1, <1>5 DEF WrittenTo
<1>7. n >= 10 => ~(n < 10)
  OBVIOUS
<1>8. QED BY <1>1, <1>3, <1>4, <1>5, <1>6, <1>7

LEMMA SameSequence ==
  ASSUME NEW s \in Seq(Int), NEW t \in Seq(Int), Len(s) = Len(t),
         \A i \in 1..Len(s) : s[i] = t[i]
  PROVE  s = t
<1>1. s = [i \in 1..Len(s) |-> s[i]] /\ t = [i \in 1..Len(t) |-> t[i]]
  OBVIOUS
<1>2. [i \in 1..Len(s) |-> s[i]] = [i \in 1..Len(s) |-> t[i]]
  OBVIOUS
<1>3. QED BY <1>1, <1>2

LEMMA EnumAppend ==
  ASSUME NEW b \in Seq(Int), NEW c \in Int
  PROVE  /\ EnumOf(b) \in Int
         /\ EnumOf(<<>>) = 0
         /\ EnumOf(Append(b, c)) = 10 * EnumOf(b) + (c - 48)
<1>1. DigitsOf(b) \in Seq(Int)
  <2>1. \A i \in 1..Len(b) : b[i] - 48 \in Int
    OBVIOUS
  <2>2. DigitsOf(b) = [i \in 1..Len(b) |-> b[i] - 48] /\ Len(b) \in Nat
    BY DEF DigitsOf
  <2>3. QED BY <2>1, <2>2
<1>2. DigitsOf(Append(b, c)) = Append(DigitsOf(b), c - 48)
  <2>1. DigitsOf(b) = [i \in 1..Len(b) |-> b[i] - 48] /\ Len(DigitsOf(b)) = Len(b)
    BY DEF DigitsOf
  <2>2. DigitsOf(Append(b, c)) = [i \in 1..(Len(b) + 1) |-> Append(b, c)[i] - 48]
    BY DEF DigitsOf
  <2>3. Append(DigitsOf(b), c - 48) \in Seq(Int)
        /\ Len(Append(DigitsOf(b), c - 48)) = Len(b) + 1
    BY <1>1, <2>1
  <2>4. \A i \in 1..(Len(b) + 1) : Append(b, c)[i] - 48 = Append(DigitsOf(b), c - 48)[i]
    BY <1>1, <2>1
  <2>5. DigitsOf(Append(b, c)) \in Seq(Int) /\ Len(DigitsOf(Append(b, c))) = Len(b) + 1
    <3>1. \A i \in 1..(Len(b) + 1) : Append(b, c)[i] - 48 \in Int
      OBVIOUS
    <3>2. Len(b) + 1 \in Nat
      OBVIOUS
    <3>3. QED BY <2>2, <3>1, <3>2
  <2> DEFINE s == DigitsOf(Append(b, c))
             t == Append(DigitsOf(b), c - 48)
  <2>6. s \in Seq(Int) /\ t \in Seq(Int) /\ Len(s) = Len(t) /\ \A i \in 1..Len(s) : s[i] = t[i]
    BY <2>2, <2>3, <2>4, <2>5
  <2> HIDE DEF s, t
  <2>7. s = t
    BY <2>6, SameSequence
  <2>8. QED BY <2>7 DEF s, t
<1>3. DigitsOf(<<>>) = <<>>
  BY DEF DigitsOf
<1>4. c - 48 \in Int
  OBVIOUS
<1>5. QED BY <1>1, <1>2, <1>3, <1>4, NumberAppend DEF EnumOf

\* The canonical spelling of a number.
Spelling(k) ==
  /\ k \in Seq(Int) /\ Len(k) >= 1
  /\ \A i \in 1..Len(k) : k[i] \in Digits
  /\ Len(k) > 1 => k[1] # 48

\* What dump_integer writes is the canonical spelling of the number.
LEMMA DumpSpells ==
  ASSUME NEW n \in Nat
  PROVE  Spelling(DumpInteger(n)) /\ EnumOf(DumpInteger(n)) = n
<1> DEFINE Good(m) == LET k == DumpInteger(m)
                      IN Spelling(k) /\ EnumOf(k) = m /\ (m > 0 => k[1] # 48)
           P == {q \in Nat : \A m \in 0..q : Good(m)}
<1>1. ASSUME NEW m \in Nat, m < 10 PROVE Good(m)
  <2>1. DumpInteger(m) = <<48 + m>>
    BY <1>1, DumpIntegerStep
  <2>2. Spelling(<<48 + m>>) /\ (m > 0 => <<48 + m>>[1] # 48)
    BY <1>1 DEF Spelling, Digits
  <2>3. <<48 + m>> = Append(<<>>, 48 + m) /\ <<>> \in Seq(Int) /\ 48 + m \in Int
    OBVIOUS
  <2>4. EnumOf(<<48 + m>>) = 10 * 0 + ((48 + m) - 48)
    BY <2>3, EnumAppend
  <2>5. EnumOf(<<48 + m>>) = m
    BY <2>4
  <2>6. QED BY <2>1, <2>2, <2>5
<1>2. 0 \in P
  <2>1. \A m \in 0..0 : m \in Nat /\ m < 10
    OBVIOUS
  <2> HIDE DEF Good
  <2>2. QED BY <2>1, <1>1
<1>3. ASSUME NEW q \in Nat, q \in P PROVE q + 1 \in P
  <2>1. ASSUME NEW m, m = q + 1, m >= 10 PROVE Good(m)
    <3>1. m \in Nat /\ m \div 10 \in 0..q /\ m \div 10 > 0 /\ m % 10 \in 0..9
          /\ m = 10 * (m \div 10) + (m % 10) /\ m \div 10 \in Nat
      BY <2>1, TenParts
    <3>2. Good(m \div 10)
      BY <3>1, <1>3
    <3>3. PICK b : b = DumpInteger(m \div 10)
      OBVIOUS
    <3>4. b \in Seq(Int) /\ Len(b) >= 1 /\ b[1] # 48 /\ EnumOf(b) = m \div 10
          /\ \A i \in 1..Len(b) : b[i] \in Digits
      BY <3>1, <3>2, <3>3 DEF Spelling
    <3>5. PICK d \in 0..9 : d = m % 10
      BY <3>1
    <3>6. DumpInteger(m) = Append(b, 48 + d)
      BY <3>1, <3>3, <3>5, <2>1, DumpIntegerStep
    <3>7. EnumOf(Append(b, 48 + d)) = 10 * (m \div 10) + ((48 + d) - 48)
      <4>1. 48 + d \in Int
        OBVIOUS
      <4>2. QED BY <4>1, <3>4, EnumAppend
    <3>8. EnumOf(Append(b, 48 + d)) = m
      BY <3>1, <3>5, <3>7
    <3>9. Spelling(Append(b, 48 + d)) /\ Append(b, 48 + d)[1] # 48
      <4>1. 48 + d \in Digits /\ 48 + d \in Int
        BY DEF Digits
      <4>2. Append(b, 48 + d) \in Seq(Int) /\ Len(Append(b, 48 + d)) = Len(b) + 1
        BY <4>1, <3>4
      <4>3. Append(b, 48 + d)[1] = b[1]
        BY <4>1, <3>4
      <4>4. \A i \in 1..(Len(b) + 1) : Append(b, 48 + d)[i] \in Digits
        BY <4>1, <3>4
      <4>5. QED BY <4>2, <4>3, <4>4, <3>4 DEF Spelling
    <3>10. QED BY <3>6, <3>8, <3>9
  <2>2. \A m \in 0..(q + 1) : m \in 0..q \/ (m = q + 1 /\ m < 10) \/ (m = q + 1 /\ m >= 10)
    OBVIOUS
  <2> HIDE DEF Good
  <2>3. QED BY <2>1, <2>2, <1>1, <1>3
<1> HIDE DEF P
<1>4. Nat \subseteq P
  BY <1>2, <1>3, SetInduction
<1>5. n \in P /\ n \in 0..n
  BY <1>4
<1>6. QED BY <1>5 DEF P

\* A canonical spelling is what dump_integer writes of its number: the lookup
\* by number stands for exactly that one spelling.
LEMMA SpellingDumped ==
  ASSUME NEW k, Spelling(k)
  PROVE  EnumOf(k) \in Nat /\ DumpInteger(EnumOf(k)) = k
<1> DEFINE Good(s) == /\ EnumOf(s) \in Nat /\ DumpInteger(EnumOf(s)) = s
                      /\ s[1] # 48 => EnumOf(s) > 0
           P == {n \in Nat : \A s \in Seq(Int) : Spelling(s) /\ Len(s) = n => Good(s)}
<1>1. 0 \in P
  BY DEF Spelling
<1>2. ASSUME NEW n \in Nat, n \in P PROVE n + 1 \in P
  <2>1. ASSUME NEW s \in Seq(Int), Spelling(s), Len(s) = n + 1 PROVE Good(s)
    <3>1. PICK b, c : b = SubSeq(s, 1, n) /\ c = s[n + 1]
      OBVIOUS
    <3>2. /\ b \in Seq(Int) /\ Len(b) = n /\ c \in Int /\ c \in Digits
          /\ \A i \in 1..n : b[i] = s[i] /\ b[i] \in Digits
      BY <2>1, <3>1 DEF Spelling
    <3>3. s = Append(b, c)
      <4>1. Append(b, c) \in Seq(Int) /\ Len(Append(b, c)) = n + 1
            /\ \A i \in 1..(n + 1) : Append(b, c)[i] = s[i]
        BY <3>1, <3>2
      <4>2. PICK t : t = Append(b, c)
        OBVIOUS
      <4>3. t \in Seq(Int) /\ Len(t) = Len(s) /\ \A i \in 1..Len(s) : t[i] = s[i]
        BY <4>1, <4>2, <2>1
      <4>4. t = s
        BY <4>3, SameSequence
      <4>5. QED BY <4>2, <4>4
    <3>4. PICK d \in 0..9 : d = c - 48 /\ c = 48 + d
      BY <3>2 DEF Digits
    <3>5. EnumOf(s) = 10 * EnumOf(b) + d
      BY <3>2, <3>3, <3>4, EnumAppend
    <3>6. CASE n = 0
      <4>1. b = <<>>
        BY <3>2, <3>6
      <4>2. EnumOf(s) = d
        BY <4>1, <3>5, <3>2, EnumAppend
      <4>3. DumpInteger(d) = <<48 + d>>
        <5>1. d \in Nat /\ d < 10
          OBVIOUS
        <5>2. QED BY <5>1, DumpIntegerStep
      <4>4. s = <<48 + d>>
        BY <4>1, <3>3, <3>4
      <4>5. s[1] # 48 => d > 0
        BY <4>4
      <4>6. QED BY <4>2, <4>3, <4>4, <4>5
    <3>7. CASE n > 0
      <4>1. b[1] = s[1] /\ s[1] # 48
        BY <2>1, <3>2, <3>7 DEF Spelling
      <4>2. Spelling(b)
        BY <3>2, <3>7, <4>1 DEF Spelling
      <4>3. Good(b)
        BY <4>2, <3>2, <1>2
      <4>4. PICK v \in Nat : v = EnumOf(b) /\ v > 0 /\ DumpInteger(v) = b
        BY <4>1, <4>3
      <4>5. EnumOf(s) = 10 * v + d /\ 10 * v + d \in Nat /\ 10 * v + d >= 10
        BY <4>4, <3>5
      <4>6. (10 * v + d) \div 10 = v /\ (10 * v + d) % 10 = d
        BY TenPartsOf
      <4>7. DumpInteger(10 * v + d) = Append(b, 48 + d)
        <5>1. PICK m \in Nat : m = 10 * v + d
          BY <4>5
        <5>2. DumpInteger(m) = Append(DumpInteger(m \div 10), 48 + (m % 10))
          BY <5>1, <4>5, DumpIntegerStep
        <5>3. QED BY <5>1, <5>2, <4>4, <4>6
      <4>8. QED BY <4>5, <4>7, <3>3, <3>4
    <3>8. QED BY <3>6, <3>7
  <2> HIDE DEF Good
  <2>2. QED BY <2>1
<1> HIDE DEF P
<1>3. Nat \subseteq P
  BY <1>1, <1>2, SetInduction
<1>4. k \in Seq(Int) /\ Len(k) \in Nat
  BY DEF Spelling
<1>5. Len(k) \in P
  BY <1>3, <1>4
<1>6. QED BY <1>4, <1>5 DEF P

-----------------------------------------------------------------------------
(* The indexes of the configuration.                                       *)

\* What the theorems assume of the code around the indexes: a hash is a number,
\* and a slot that is used does not look like one that is free.
HashesAreNumbers == \A key \in Seq(Byte) : Hash(key) \in Nat
SlotsAreUsed == \A key, value : Index!Slot(key, value) # Free

\* An object has finitely many keys, and they are byte strings.
KeysAreBytes(v) ==
  IsObject(v) => IsFiniteSet(DOMAIN v.map) /\ DOMAIN v.map \subseteq Seq(Byte)

\* The places of an object's keys.
LEMMA PlacesOf ==
  ASSUME NEW obj, IsObject(obj), KeysAreBytes(obj)
  PROVE  /\ Size(obj) \in Nat /\ Size(obj) = Cardinality(DOMAIN obj.map)
         /\ \A n \in 1..Size(obj) : /\ KeyAt(obj, n - 1) \in DOMAIN obj.map
                                    /\ KeyAt(obj, n - 1) \in Seq(Byte)
                                    /\ Deref(obj, n - 1) = obj.map[KeyAt(obj, n - 1)]
         /\ \A k \in DOMAIN obj.map : \E n \in 1..Size(obj) : KeyAt(obj, n - 1) = k
         /\ \A m, n \in 1..Size(obj) : KeyAt(obj, m - 1) = KeyAt(obj, n - 1) => m = n
<1>1. Enumerates(obj.map, Keys(obj.map)) /\ DOMAIN obj.map \subseteq Seq(Byte)
  BY KeysEnumerate DEF KeysAreBytes
<1>2. Size(obj) = Cardinality(DOMAIN obj.map)
  BY DEF Size, IsObject, IsArray
<1>3. Size(obj) \in Nat
  BY <1>1, <1>2 DEF Enumerates
<1>4. \A n \in 1..Size(obj) : KeyAt(obj, n - 1) = Keys(obj.map)[n]
  <2>1. \A n \in 1..Size(obj) : (n - 1) + 1 = n
    BY <1>3
  <2>2. QED BY <2>1 DEF KeyAt
<1>5. \A n : Deref(obj, n) = obj.map[KeyAt(obj, n)]
  BY DEF Deref, IsObject, IsArray
<1>6. \A n \in 1..Size(obj) : /\ KeyAt(obj, n - 1) \in DOMAIN obj.map
                             /\ KeyAt(obj, n - 1) \in Seq(Byte)
                             /\ Deref(obj, n - 1) = obj.map[KeyAt(obj, n - 1)]
  <2>1. TAKE n \in 1..Size(obj)
  <2>2. Keys(obj.map)[n] \in DOMAIN obj.map /\ Keys(obj.map)[n] \in Seq(Byte)
    BY <1>1, <1>2 DEF Enumerates
  <2>3. QED BY <2>2, <1>4, <1>5
<1>7. \A k \in DOMAIN obj.map : \E n \in 1..Size(obj) : KeyAt(obj, n - 1) = k
  <2>1. TAKE k \in DOMAIN obj.map
  <2>2. PICK n \in 1..Size(obj) : Keys(obj.map)[n] = k
    BY <1>1, <1>2 DEF Enumerates
  <2>3. QED BY <2>2, <1>4
<1>8. \A m, n \in 1..Size(obj) : KeyAt(obj, m - 1) = KeyAt(obj, n - 1) => m = n
  BY <1>1, <1>2, <1>4 DEF Enumerates
<1>9. QED BY <1>2, <1>3, <1>6, <1>7, <1>8

LEMMA FoundValue ==
  ASSUME NEW key, NEW value, SlotsAreUsed
  PROVE  /\ ValueOf(Index!Slot(key, value)) = value
         /\ ValueOf(Free) = None
         /\ Index!Slot(key, value) # Free /\ Index!Slot(key, value).value = value
BY DEF ValueOf, SlotsAreUsed, Index!Slot

\* The index of an object answers every lookup as the object does.
LEMMA IndexObjectFinds ==
  ASSUME HashesAreNumbers, SlotsAreUsed, NEW obj, IsObject(obj), KeysAreBytes(obj),
         NEW key \in Seq(Byte)
  PROVE  Index!Find(IndexObject(obj), Hash(key), key) =
           IF key \in DOMAIN obj.map THEN Index!Slot(key, obj.map[key]) ELSE Free
<1> DEFINE N == Size(obj)
           entries == [n \in 1..N |-> Index!Entry(Hash(KeyAt(obj, n - 1)), KeyAt(obj, n - 1),
                                                  Deref(obj, n - 1))]
<1>1. PICK H : H = [k \in Seq(Byte) |-> Hash(k)]
  OBVIOUS
<1>2. PICK pairs : pairs = obj.map
  OBVIOUS
<1>3. /\ N \in Nat /\ N = Cardinality(DOMAIN pairs)
      /\ \A n \in 1..N : /\ KeyAt(obj, n - 1) \in DOMAIN pairs
                         /\ KeyAt(obj, n - 1) \in Seq(Byte)
                         /\ Deref(obj, n - 1) = pairs[KeyAt(obj, n - 1)]
      /\ \A k \in DOMAIN pairs : \E n \in 1..N : KeyAt(obj, n - 1) = k
      /\ \A m, n \in 1..N : KeyAt(obj, m - 1) = KeyAt(obj, n - 1) => m = n
  BY <1>2, PlacesOf
<1>4. IsFiniteSet(DOMAIN pairs) /\ DOMAIN pairs \subseteq Seq(Byte)
  BY <1>2 DEF KeysAreBytes
<1>5. \A k \in Seq(Byte) : H[k] = Hash(k) /\ H[k] \in Nat
  BY <1>1 DEF HashesAreNumbers
<1>6. DOMAIN entries = 1..N /\ Len(entries) = N
  BY <1>3
<1>7. \A n \in 1..N : entries[n] = EntryOf(H, pairs, KeyAt(obj, n - 1))
  BY <1>3, <1>5 DEF EntryOf
<1>8. IndexObject(obj) = Index!Filled(N, entries)
  BY DEF IndexObject
<1> HIDE DEF N, entries
<1>9. Enters(entries, N, H, pairs)
  <2>1. \A n \in 1..N : \E k \in DOMAIN pairs : entries[n] = EntryOf(H, pairs, k)
    <3>1. TAKE n \in 1..N
    <3>2. KeyAt(obj, n - 1) \in DOMAIN pairs /\ entries[n] = EntryOf(H, pairs, KeyAt(obj, n - 1))
      BY <1>3, <1>7
    <3>3. QED BY <3>2
  <2>2. ASSUME NEW k \in DOMAIN pairs
        PROVE  /\ H[k] \in Nat /\ Index!Slot(k, pairs[k]) # Free
               /\ \E n \in 1..N : entries[n] = EntryOf(H, pairs, k)
               /\ \A m, n \in 1..N : entries[m] = EntryOf(H, pairs, k)
                                       /\ entries[n] = EntryOf(H, pairs, k) => m = n
    <3>1. H[k] \in Nat /\ Index!Slot(k, pairs[k]) # Free
      BY <1>4, <1>5 DEF SlotsAreUsed
    <3>2. \E n \in 1..N : entries[n] = EntryOf(H, pairs, k)
      <4>1. PICK n \in 1..N : KeyAt(obj, n - 1) = k
        BY <1>3
      <4>2. entries[n] = EntryOf(H, pairs, k)
        BY <4>1, <1>7
      <4>3. QED BY <4>2
    <3>3. \A n \in 1..N : entries[n] = EntryOf(H, pairs, k) => KeyAt(obj, n - 1) = k
      <4>1. TAKE n \in 1..N
      <4>2. /\ EntryOf(H, pairs, k)[2] = k
            /\ EntryOf(H, pairs, KeyAt(obj, n - 1))[2] = KeyAt(obj, n - 1)
        BY EntryParts
      <4>3. QED BY <4>2, <1>7
    <3>4. \A m, n \in 1..N : entries[m] = EntryOf(H, pairs, k)
                               /\ entries[n] = EntryOf(H, pairs, k) => m = n
      <4>1. TAKE m, n \in 1..N
      <4>2. KeyAt(obj, m - 1) = KeyAt(obj, n - 1) => m = n
        BY <1>3
      <4>3. QED BY <4>2, <3>3
    <3>5. QED BY <3>1, <3>2, <3>4
  <2>3. QED BY <1>3, <1>6, <2>1, <2>2 DEF Enters
<1>10. N <= N
  BY <1>3
<1>11. Index!Find(Index!Filled(N, entries), H[key], key) =
         IF key \in DOMAIN pairs THEN Index!Slot(key, pairs[key]) ELSE Free
  <2>1. H[key] \in Nat /\ Cardinality(DOMAIN pairs) <= N
    BY <1>3, <1>5, <1>10
  <2>2. QED BY <2>1, <1>3, <1>4, <1>9, FilledIsLookup
<1>12. QED BY <1>2, <1>5, <1>8, <1>11

\* A table's index by number answers as the table does for the canonical
\* spelling of the number, and for no other.
LEMMA EnumIndexFinds ==
  ASSUME SlotsAreUsed, NEW table, IsObject(table), KeysAreBytes(table),
         NEW pname \in 0..MaxUint32
  PROVE  ValueOf(Index!Find(EnumIndex(table), HashEnum(pname), pname)) =
           Plain(table, DumpInteger(pname))
<1> DEFINE N == Size(table)
           E == {n \in 0..MaxUint32 : DumpInteger(n) \in DOMAIN table.map}
           entries == [n \in 1..N |-> LET key == KeyAt(table, n - 1)
                                      IN IF IsEnum(key)
                                           THEN Index!Entry(HashEnum(EnumOf(key)), EnumOf(key),
                                                            Deref(table, n - 1))
                                           ELSE Index!NoEntry]
<1>1. MaxUint32 \in Nat /\ \A n \in 0..MaxUint32 : n \in Nat /\ HashEnum(n) \in Nat
  BY WidthsAssumption, ConfigAssumption
<1>2. PICK H : H = [n \in 0..MaxUint32 |-> HashEnum(n)]
  OBVIOUS
<1>3. PICK pairs : pairs = [n \in E |-> table.map[DumpInteger(n)]]
  OBVIOUS
<1>4. /\ N \in Nat /\ N = Cardinality(DOMAIN table.map)
      /\ \A n \in 1..N : /\ KeyAt(table, n - 1) \in DOMAIN table.map
                         /\ KeyAt(table, n - 1) \in Seq(Byte)
                         /\ Deref(table, n - 1) = table.map[KeyAt(table, n - 1)]
      /\ \A k \in DOMAIN table.map : \E n \in 1..N : KeyAt(table, n - 1) = k
      /\ \A m, n \in 1..N : KeyAt(table, m - 1) = KeyAt(table, n - 1) => m = n
  BY PlacesOf
<1>5. DOMAIN pairs = E /\ \A n \in E : pairs[n] = table.map[DumpInteger(n)]
  BY <1>3
<1>6. \A n \in 0..MaxUint32 : H[n] = HashEnum(n) /\ H[n] \in Nat
  BY <1>1, <1>2
<1>7. \A k \in Seq(Byte) : IsEnum(k) => EnumOf(k) \in 0..MaxUint32 /\ DumpInteger(EnumOf(k)) = k
  <2>1. SUFFICES ASSUME NEW k \in Seq(Byte), IsEnum(k)
                 PROVE  EnumOf(k) \in 0..MaxUint32 /\ DumpInteger(EnumOf(k)) = k
    OBVIOUS
  <2>2. k \in Seq(Int)
    <3>1. \A i \in 1..Len(k) : k[i] \in Int
      BY BytesOf
    <3>2. DOMAIN k = 1..Len(k) /\ Len(k) \in Nat /\ k = [i \in 1..Len(k) |-> k[i]]
      OBVIOUS
    <3>3. QED BY <3>1, <3>2
  <2>3. Spelling(k)
    <3>1. Len(k) >= 1 /\ DOMAIN k = 1..Len(k)
      BY <2>1, <2>2 DEF IsEnum
    <3>2. QED BY <3>1, <2>1, <2>2 DEF IsEnum, Spelling
  <2>4. EnumOf(k) \in Nat /\ DumpInteger(EnumOf(k)) = k
    BY <2>3, SpellingDumped
  <2>5. EnumOf(k) <= MaxUint32
    BY <2>1 DEF IsEnum, EnumOf
  <2>6. QED BY <2>4, <2>5, <1>1
<1>8. \A n \in 0..MaxUint32 : EnumOf(DumpInteger(n)) = n /\ IsEnum(DumpInteger(n))
  <2>1. TAKE n \in 0..MaxUint32
  <2>2. Spelling(DumpInteger(n)) /\ EnumOf(DumpInteger(n)) = n
    BY <1>1, DumpSpells
  <2>3. PICK k : k = DumpInteger(n)
    OBVIOUS
  <2>4. Len(k) \in Nat /\ Len(k) <= CountDigits(MaxUint32)
    BY <2>3, <1>1, CountDigitsGrows
  <2>5. CountDigits(MaxUint32) \in Nat
    <3>1. PICK c \in [0..MaxUint32 -> Nat] : CountDigits(MaxUint32) = c[MaxUint32]
      BY <1>1, CountDigitsOf
    <3>2. QED BY <3>1, <1>1
  <2>6. Len(k) \in 1..CountDigits(MaxUint32) /\ DOMAIN k = 1..Len(k)
    BY <2>2, <2>3, <2>4, <2>5 DEF Spelling
  <2>7. IsEnum(k)
    BY <2>2, <2>3, <2>6 DEF IsEnum, Spelling, EnumOf
  <2>8. QED BY <2>2, <2>3, <2>7
<1>9. \A n \in 1..N : entries[n] = IF IsEnum(KeyAt(table, n - 1))
                                     THEN EntryOf(H, pairs, EnumOf(KeyAt(table, n - 1)))
                                     ELSE Index!NoEntry
  <2>1. TAKE n \in 1..N
  <2>2. PICK k : k = KeyAt(table, n - 1)
    OBVIOUS
  <2>3. entries[n] = IF IsEnum(k) THEN Index!Entry(HashEnum(EnumOf(k)), EnumOf(k), Deref(table, n - 1))
                                  ELSE Index!NoEntry
    BY <2>2
  <2>4. CASE IsEnum(k)
    <3>1. EnumOf(k) \in E /\ DumpInteger(EnumOf(k)) = k /\ EnumOf(k) \in 0..MaxUint32
      BY <2>2, <2>4, <1>4, <1>7
    <3>2. H[EnumOf(k)] = HashEnum(EnumOf(k)) /\ pairs[EnumOf(k)] = Deref(table, n - 1)
      BY <3>1, <2>2, <1>4, <1>5, <1>6
    <3>3. QED BY <2>2, <2>3, <2>4, <3>2 DEF EntryOf
  <2>5. CASE ~IsEnum(k)
    BY <2>2, <2>3, <2>5
  <2>6. QED BY <2>4, <2>5
<1>10. DOMAIN entries = 1..N /\ Len(entries) = N
  BY <1>4
<1>11. EnumIndex(table) = Index!Filled(N, entries)
  BY DEF EnumIndex
<1>12. \A n \in E : n \in 0..MaxUint32 /\ DumpInteger(n) \in DOMAIN table.map
  OBVIOUS
<1>13. \A n \in 0..MaxUint32 : DumpInteger(n) \in DOMAIN table.map => n \in E
  OBVIOUS
<1> HIDE DEF N, entries, E
<1>14. IsFiniteSet(DOMAIN pairs) /\ Cardinality(DOMAIN pairs) <= N
  <2> DEFINE spell == [n \in E |-> DumpInteger(n)]
  <2>1. spell \in Injection(E, DOMAIN table.map)
    <3>1. spell \in [E -> DOMAIN table.map]
      BY <1>12
    <3>2. \A m, n \in E : spell[m] = spell[n] => m = n
      <4>1. TAKE m, n \in E
      <4>2. EnumOf(DumpInteger(m)) = m /\ EnumOf(DumpInteger(n)) = n
        BY <1>12, <1>8
      <4>3. QED BY <4>2
    <3>3. QED BY <3>1, <3>2 DEF Injection, IsInjective
  <2>2. IsFiniteSet(DOMAIN table.map)
    BY DEF KeysAreBytes
  <2> HIDE DEF spell
  <2>3. QED BY <2>1, <2>2, <1>4, <1>5, FS_Injection
<1>15. Enters(entries, N, H, pairs)
  <2>1. \A n \in 1..N : \/ entries[n] = Index!NoEntry
                        \/ \E k \in DOMAIN pairs : entries[n] = EntryOf(H, pairs, k)
    BY <1>4, <1>5, <1>7, <1>9, <1>13
  <2>2. ASSUME NEW p \in DOMAIN pairs
        PROVE  /\ H[p] \in Nat /\ Index!Slot(p, pairs[p]) # Free
               /\ \E n \in 1..N : entries[n] = EntryOf(H, pairs, p)
               /\ \A m, n \in 1..N : entries[m] = EntryOf(H, pairs, p)
                                       /\ entries[n] = EntryOf(H, pairs, p) => m = n
    <3>1. p \in 0..MaxUint32 /\ DumpInteger(p) \in DOMAIN table.map
      BY <1>5, <1>12
    <3>2. H[p] \in Nat /\ Index!Slot(p, pairs[p]) # Free
      BY <3>1, <1>6 DEF SlotsAreUsed
    <3>3. \E n \in 1..N : entries[n] = EntryOf(H, pairs, p)
      <4>1. PICK n \in 1..N : KeyAt(table, n - 1) = DumpInteger(p)
        BY <3>1, <1>4
      <4>2. IsEnum(DumpInteger(p)) /\ EnumOf(DumpInteger(p)) = p
        BY <3>1, <1>8
      <4>3. entries[n] = EntryOf(H, pairs, p)
        BY <4>1, <4>2, <1>9
      <4>4. QED BY <4>3
    <3>4. \A n \in 1..N : entries[n] = EntryOf(H, pairs, p) => KeyAt(table, n - 1) = DumpInteger(p)
      <4>1. TAKE n \in 1..N
      <4>2. /\ EntryOf(H, pairs, p)[2] = p /\ EntryOf(H, pairs, p) # Index!NoEntry
            /\ EntryOf(H, pairs, EnumOf(KeyAt(table, n - 1)))[2] = EnumOf(KeyAt(table, n - 1))
        BY EntryParts
      <4>3. entries[n] = EntryOf(H, pairs, p) => IsEnum(KeyAt(table, n - 1)) /\ EnumOf(KeyAt(table, n - 1)) = p
        BY <4>2, <1>9
      <4>4. KeyAt(table, n - 1) \in Seq(Byte)
        BY <1>4
      <4>5. QED BY <4>3, <4>4, <1>7
    <3>5. \A m, n \in 1..N : entries[m] = EntryOf(H, pairs, p)
                               /\ entries[n] = EntryOf(H, pairs, p) => m = n
      <4>1. TAKE m, n \in 1..N
      <4>2. KeyAt(table, m - 1) = KeyAt(table, n - 1) => m = n
        BY <1>4
      <4>3. QED BY <4>2, <3>4
    <3>6. QED BY <3>2, <3>3, <3>5
  <2>3. QED BY <1>4, <1>10, <2>1, <2>2 DEF Enters
<1>16. Index!Find(Index!Filled(N, entries), H[pname], pname) =
         IF pname \in DOMAIN pairs THEN Index!Slot(pname, pairs[pname]) ELSE Free
  <2>1. H[pname] \in Nat
    BY <1>6
  <2>2. QED BY <2>1, <1>4, <1>14, <1>15, FilledIsLookup
<1>17. pname \in DOMAIN pairs <=> DumpInteger(pname) \in DOMAIN table.map
  BY <1>5, <1>12, <1>13
<1>18. CASE pname \in DOMAIN pairs
  <2>1. ValueOf(Index!Slot(pname, pairs[pname])) = pairs[pname]
    BY FoundValue
  <2>2. Plain(table, DumpInteger(pname)) = table.map[DumpInteger(pname)]
    BY <1>17, <1>18 DEF Plain
  <2>3. QED BY <2>1, <2>2, <1>5, <1>6, <1>11, <1>16, <1>18
<1>19. CASE pname \notin DOMAIN pairs
  <2>1. ValueOf(Free) = None
    BY FoundValue
  <2>2. Plain(table, DumpInteger(pname)) = None
    BY <1>17, <1>19 DEF Plain
  <2>3. QED BY <2>1, <2>2, <1>6, <1>11, <1>16, <1>19
<1>20. QED BY <1>18, <1>19

\* The index of the tables by name has the objects under the top level.
LEMMA IndexByNameFinds ==
  ASSUME HashesAreNumbers, SlotsAreUsed, NEW data, IsObject(data), KeysAreBytes(data),
         NEW key \in Seq(Byte)
  PROVE  Index!Find(IndexByName(data), Hash(key), key) =
           IF key \in Tables(data) THEN Index!Slot(key, key) ELSE Free
<1> DEFINE N == Size(data)
           T == Tables(data)
           c == Cardinality(T)
           entries == [n \in 1..N |-> LET k == KeyAt(data, n - 1)
                                      IN IF k \in T THEN Index!Entry(Hash(k), k, k)
                                                    ELSE Index!NoEntry]
<1>1. PICK H : H = [k \in Seq(Byte) |-> Hash(k)]
  OBVIOUS
<1>2. PICK pairs : pairs = [k \in T |-> k]
  OBVIOUS
<1>3. /\ N \in Nat
      /\ \A n \in 1..N : KeyAt(data, n - 1) \in DOMAIN data.map /\ KeyAt(data, n - 1) \in Seq(Byte)
      /\ \A k \in DOMAIN data.map : \E n \in 1..N : KeyAt(data, n - 1) = k
      /\ \A m, n \in 1..N : KeyAt(data, m - 1) = KeyAt(data, n - 1) => m = n
  BY PlacesOf
<1>4. T \subseteq DOMAIN data.map /\ T \subseteq Seq(Byte) /\ IsFiniteSet(T)
  <2>1. T \subseteq DOMAIN data.map
    BY DEF Tables
  <2>2. IsFiniteSet(DOMAIN data.map) /\ DOMAIN data.map \subseteq Seq(Byte)
    BY DEF KeysAreBytes
  <2>3. QED BY <2>1, <2>2, FS_Subset
<1>5. \A k \in Seq(Byte) : H[k] = Hash(k) /\ H[k] \in Nat
  BY <1>1 DEF HashesAreNumbers
<1>6. DOMAIN entries = 1..N /\ Len(entries) = N
  BY <1>3
<1>7. IndexByName(data) = Index!Filled(c, entries)
  <2>1. Index!Cardinality(Tables(data)) = Cardinality(Tables(data))
    BY Zenon DEF Index!Cardinality, Cardinality
  <2>2. QED BY <2>1 DEF IndexByName
<1> HIDE DEF T
<1>8. DOMAIN pairs = T /\ \A k \in T : pairs[k] = k
  BY <1>2
<1>9. \A n \in 1..N : entries[n] = IF KeyAt(data, n - 1) \in T
                                     THEN EntryOf(H, pairs, KeyAt(data, n - 1))
                                     ELSE Index!NoEntry
  BY <1>3, <1>5, <1>8 DEF EntryOf
<1> HIDE DEF N, entries
<1>10. Enters(entries, N, H, pairs)
  <2>1. \A n \in 1..N : \/ entries[n] = Index!NoEntry
                        \/ \E k \in DOMAIN pairs : entries[n] = EntryOf(H, pairs, k)
    BY <1>8, <1>9
  <2>2. ASSUME NEW k \in DOMAIN pairs
        PROVE  /\ H[k] \in Nat /\ Index!Slot(k, pairs[k]) # Free
               /\ \E n \in 1..N : entries[n] = EntryOf(H, pairs, k)
               /\ \A m, n \in 1..N : entries[m] = EntryOf(H, pairs, k)
                                       /\ entries[n] = EntryOf(H, pairs, k) => m = n
    <3>1. H[k] \in Nat /\ Index!Slot(k, pairs[k]) # Free
      BY <1>4, <1>5, <1>8 DEF SlotsAreUsed
    <3>2. \E n \in 1..N : entries[n] = EntryOf(H, pairs, k)
      <4>1. PICK n \in 1..N : KeyAt(data, n - 1) = k
        BY <1>3, <1>4, <1>8
      <4>2. entries[n] = EntryOf(H, pairs, k)
        BY <4>1, <1>8, <1>9
      <4>3. QED BY <4>2
    <3>3. \A n \in 1..N : entries[n] = EntryOf(H, pairs, k) => KeyAt(data, n - 1) = k
      <4>1. TAKE n \in 1..N
      <4>2. /\ EntryOf(H, pairs, k)[2] = k /\ EntryOf(H, pairs, k) # Index!NoEntry
            /\ EntryOf(H, pairs, KeyAt(data, n - 1))[2] = KeyAt(data, n - 1)
        BY EntryParts
      <4>3. QED BY <4>2, <1>9
    <3>4. \A m, n \in 1..N : entries[m] = EntryOf(H, pairs, k)
                               /\ entries[n] = EntryOf(H, pairs, k) => m = n
      <4>1. TAKE m, n \in 1..N
      <4>2. KeyAt(data, m - 1) = KeyAt(data, n - 1) => m = n
        BY <1>3
      <4>3. QED BY <4>2, <3>3
    <3>5. QED BY <3>1, <3>2, <3>4
  <2>3. QED BY <1>3, <1>6, <2>1, <2>2 DEF Enters
<1>11. c \in Nat /\ Cardinality(DOMAIN pairs) <= c
  BY <1>4, <1>8, FS_CardinalityType
<1>12. Index!Find(Index!Filled(c, entries), H[key], key) =
         IF key \in DOMAIN pairs THEN Index!Slot(key, pairs[key]) ELSE Free
  <2>1. H[key] \in Nat /\ IsFiniteSet(DOMAIN pairs)
    BY <1>4, <1>5, <1>8
  <2> HIDE DEF c
  <2>2. QED BY <2>1, <1>11, <1>10, FilledIsLookup
<1>13. QED BY <1>5, <1>7, <1>8, <1>12 DEF T

\* The keys of the configuration, and of the objects under it.
KeysTwoDeep(v) ==
  KeysAreBytes(v) /\ (IsObject(v) => \A k \in DOMAIN v.map : KeysAreBytes(v.map[k]))

\* The index is built of the configuration.
Indexed == index = GetIndex(config) /\ KeysTwoDeep(config)

LEMMA NoTableFinds ==
  ASSUME NEW h, NEW key
  PROVE  Index!Find(Index!NoTable, h, key) = Free
BY DEF Index!Find, Index!NoTable

LEMMA NothingPlain ==
  ASSUME NEW key
  PROVE  Plain(None, key) = None
BY DEF Plain, IsObject, None

\* The index of the top level.
LEMMA FindIsPlain ==
  ASSUME HashesAreNumbers, SlotsAreUsed, Indexed, NEW key \in Seq(Byte)
  PROVE  /\ Find(key) = Plain(config, key)
         /\ IsObject(config) =>
              Index!Find(IndexObject(config), Hash(key), key) =
                IF key \in DOMAIN config.map THEN Index!Slot(key, config.map[key]) ELSE Free
<1>1. CASE IsObject(config)
  <2>1. index.top = IndexObject(config)
    BY <1>1 DEF Indexed, GetIndex
  <2>2. KeysAreBytes(config)
    BY DEF Indexed, KeysTwoDeep
  <2>3. Index!Find(IndexObject(config), Hash(key), key) =
          IF key \in DOMAIN config.map THEN Index!Slot(key, config.map[key]) ELSE Free
    BY <1>1, <2>2, IndexObjectFinds
  <2>4. CASE key \in DOMAIN config.map
    <3>1. ValueOf(Index!Slot(key, config.map[key])) = config.map[key]
      BY FoundValue
    <3>2. QED BY <1>1, <2>1, <2>3, <2>4, <3>1 DEF Find, Plain
  <2>5. CASE key \notin DOMAIN config.map
    <3>1. ValueOf(Free) = None
      BY FoundValue
    <3>2. QED BY <1>1, <2>1, <2>3, <2>5, <3>1 DEF Find, Plain
  <2>6. QED BY <2>4, <2>5
<1>2. CASE ~IsObject(config)
  <2>1. index.top = Index!NoTable
    BY <1>2 DEF Indexed, GetIndex, NoIndex
  <2>2. ValueOf(Free) = None
    BY FoundValue
  <2>3. QED BY <1>2, <2>1, <2>2, NoTableFinds DEF Find, Plain
<1>3. QED BY <1>1, <1>2

\* The indexes of the tables, by address.
LEMMA FindInTableIsPlain ==
  ASSUME HashesAreNumbers, SlotsAreUsed, Indexed, IsObject(config),
         NEW k \in Tables(config), NEW key \in Seq(Byte)
  PROVE  FindInTable(k, key) = Plain(config.map[k], key)
<1>1. index.tables = [j \in Tables(config) |-> IndexObject(config.map[j])]
  BY DEF Indexed, GetIndex
<1>2. IsObject(config.map[k]) /\ KeysAreBytes(config.map[k])
  BY DEF Tables, Indexed, KeysTwoDeep
<1>3. index.tables[k] = IndexObject(config.map[k])
  BY <1>1
<1>4. PICK table : table = config.map[k]
  OBVIOUS
<1>5. Index!Find(IndexObject(table), Hash(key), key) =
        IF key \in DOMAIN table.map THEN Index!Slot(key, table.map[key]) ELSE Free
  BY <1>2, <1>4, IndexObjectFinds
<1>6. FindInTable(k, key) = ValueOf(Index!Find(IndexObject(table), Hash(key), key))
  BY <1>3, <1>4 DEF FindInTable
<1>7. CASE key \in DOMAIN table.map
  <2>1. ValueOf(Index!Slot(key, table.map[key])) = table.map[key]
    BY FoundValue
  <2>2. QED BY <1>2, <1>4, <1>5, <1>6, <1>7, <2>1 DEF Plain
<1>8. CASE key \notin DOMAIN table.map
  <2>1. ValueOf(Free) = None
    BY FoundValue
  <2>2. QED BY <1>2, <1>4, <1>5, <1>6, <1>8, <2>1 DEF Plain
<1>9. QED BY <1>7, <1>8

\* The same by name.
LEMMA FindNestedIsPlain ==
  ASSUME HashesAreNumbers, SlotsAreUsed, Indexed,
         NEW domain \in Seq(Byte), NEW key \in Seq(Byte)
  PROVE  FindNested(domain, key) = Plain(Plain(config, domain), key)
<1> DEFINE table == Index!Find(index.byName, Hash(domain), domain)
<1>1. FindNested(domain, key) = IF table = Free THEN None ELSE FindInTable(table.value, key)
  BY DEF FindNested
<1> HIDE DEF table
<1>2. CASE IsObject(config)
  <2>1. index.byName = IndexByName(config) /\ KeysAreBytes(config)
    BY <1>2 DEF Indexed, GetIndex, KeysTwoDeep
  <2>2. table = IF domain \in Tables(config) THEN Index!Slot(domain, domain) ELSE Free
    BY <1>2, <2>1, IndexByNameFinds DEF table
  <2>3. CASE domain \in Tables(config)
    <3>1. table # Free /\ table.value = domain
      BY <2>2, <2>3, FoundValue
    <3>2. Plain(config, domain) = config.map[domain]
      BY <1>2, <2>3 DEF Tables, Plain
    <3>3. FindInTable(domain, key) = Plain(config.map[domain], key)
      BY <1>2, <2>3, FindInTableIsPlain
    <3>4. QED BY <1>1, <3>1, <3>2, <3>3
  <2>4. CASE domain \notin Tables(config)
    <3>1. table = Free
      BY <2>2, <2>4
    <3>2. CASE domain \in DOMAIN config.map
      <4>1. Plain(config, domain) = config.map[domain] /\ ~IsObject(config.map[domain])
        BY <1>2, <2>4, <3>2 DEF Tables, Plain
      <4>2. QED BY <1>1, <3>1, <4>1 DEF Plain
    <3>3. CASE domain \notin DOMAIN config.map
      <4>1. Plain(config, domain) = None
        BY <3>3 DEF Plain
      <4>2. QED BY <1>1, <3>1, <4>1, NothingPlain
    <3>4. QED BY <3>2, <3>3
  <2>5. QED BY <2>3, <2>4
<1>3. CASE ~IsObject(config)
  <2>1. index.byName = Index!NoTable
    BY <1>3 DEF Indexed, GetIndex, NoIndex
  <2>2. table = Free
    BY <2>1, NoTableFinds DEF table
  <2>3. Plain(config, domain) = None
    BY <1>3 DEF Plain
  <2>4. QED BY <1>1, <2>2, <2>3, NothingPlain
<1>4. QED BY <1>2, <1>3

\* The indexes of the WebGL parameters, by number.
LEMMA FindGLParamIsPlain ==
  ASSUME HashesAreNumbers, SlotsAreUsed, Indexed,
         NEW pname \in 0..MaxUint32, NEW webGl2 \in BOOLEAN
  PROVE  FindGLParam(pname, webGl2) =
           Plain(Plain(config, IF webGl2 THEN Gl2Parameters ELSE GlParameters),
                 DumpInteger(pname))
<1>1. PICK name : name = IF webGl2 THEN Gl2Parameters ELSE GlParameters
  OBVIOUS
<1>2. name \in Seq(Byte)
  BY <1>1, ConfigAssumption DEF Byte
<1>3. PICK slots : slots = IF webGl2 THEN index.gl2 ELSE index.gl
  OBVIOUS
<1>4. FindGLParam(pname, webGl2) = ValueOf(Index!Find(slots, HashEnum(pname), pname))
  BY <1>3 DEF FindGLParam
<1>5. CASE IsObject(config)
  <2>1. PICK found : found = Index!Find(IndexObject(config), Hash(name), name)
    OBVIOUS
  <2>2. slots = IF found # Free /\ IsObject(found.value) THEN EnumIndex(found.value)
                ELSE Index!NoTable
    BY <1>1, <1>3, <1>5, <2>1 DEF Indexed, GetIndex
  <2>3. found = IF name \in DOMAIN config.map THEN Index!Slot(name, config.map[name]) ELSE Free
    BY <1>2, <1>5, <2>1, FindIsPlain
  <2>4. CASE name \in DOMAIN config.map
    <3>1. found # Free /\ found.value = config.map[name]
      BY <2>3, <2>4, FoundValue
    <3>2. PICK table : table = config.map[name] /\ KeysAreBytes(table)
      BY <1>5, <2>4 DEF Indexed, KeysTwoDeep
    <3>3. Plain(config, name) = table
      BY <1>5, <2>4, <3>2 DEF Plain
    <3>4. CASE IsObject(table)
      <4>1. slots = EnumIndex(table)
        BY <2>2, <3>1, <3>2, <3>4
      <4>2. QED BY <1>1, <1>4, <3>2, <3>3, <3>4, <4>1, EnumIndexFinds
    <3>5. CASE ~IsObject(table)
      <4>1. slots = Index!NoTable
        BY <2>2, <3>1, <3>2, <3>5
      <4>2. ValueOf(Free) = None
        BY FoundValue
      <4>3. Plain(table, DumpInteger(pname)) = None
        BY <3>5 DEF Plain
      <4>4. QED BY <1>1, <1>4, <3>3, <4>1, <4>2, <4>3, NoTableFinds
    <3>6. QED BY <3>4, <3>5
  <2>5. CASE name \notin DOMAIN config.map
    <3>1. slots = Index!NoTable
      BY <2>2, <2>3, <2>5
    <3>2. ValueOf(Free) = None
      BY FoundValue
    <3>3. Plain(config, name) = None
      BY <2>5 DEF Plain
    <3>4. QED BY <1>1, <1>4, <3>1, <3>2, <3>3, NoTableFinds, NothingPlain
  <2>6. QED BY <2>4, <2>5
<1>6. CASE ~IsObject(config)
  <2>1. slots = Index!NoTable
    BY <1>3, <1>6 DEF Indexed, GetIndex, NoIndex
  <2>2. ValueOf(Free) = None
    BY FoundValue
  <2>3. Plain(config, name) = None
    BY <1>6 DEF Plain
  <2>4. QED BY <1>1, <1>4, <2>1, <2>2, <2>3, NoTableFinds, NothingPlain
<1>7. QED BY <1>5, <1>6

LEMMA NamesAreBytes ==
  ASSUME KeysTwoDeep(config)
  PROVE  Names \subseteq Seq(Byte)
<1>1. OtherKeys \subseteq Seq(Byte)
  BY ConfigAssumption DEF Byte
<1>2. IsObject(config) => DOMAIN config.map \subseteq Seq(Byte)
  BY DEF KeysTwoDeep, KeysAreBytes
<1>3. NestedKeys \subseteq Seq(Byte)
  <2>1. CASE IsObject(config)
    <3>1. ASSUME NEW k \in Tables(config) PROVE DOMAIN config.map[k].map \subseteq Seq(Byte)
      BY <2>1 DEF Tables, KeysTwoDeep, KeysAreBytes
    <3>2. QED BY <2>1, <3>1 DEF NestedKeys
  <2>2. CASE ~IsObject(config)
    BY <2>2 DEF NestedKeys
  <2>3. QED BY <2>1, <2>2
<1>4. QED BY <1>1, <1>2, <1>3 DEF Names

\* Once the index is built, every lookup answers as the configuration does.
LEMMA IndexedAgrees ==
  ASSUME HashesAreNumbers, SlotsAreUsed, phase = "ready" => Indexed
  PROVE  LookupsAgree
<1> SUFFICES ASSUME phase = "ready"
             PROVE  /\ \A key \in Names :
                         /\ Find(key) = Plain(config, key)
                         /\ \A domain \in Names :
                              FindNested(domain, key) = Plain(Plain(config, domain), key)
                    /\ IsObject(config) =>
                         \A k \in Tables(config), key \in Names :
                           FindInTable(k, key) = Plain(config.map[k], key)
                    /\ \A pname \in 0..MaxUint32, webGl2 \in BOOLEAN :
                         FindGLParam(pname, webGl2) =
                           Plain(Plain(config, IF webGl2 THEN Gl2Parameters ELSE GlParameters),
                                 DumpInteger(pname))
  BY DEF LookupsAgree
<1>1. Indexed /\ Names \subseteq Seq(Byte)
  BY NamesAreBytes DEF Indexed
<1>2. \A key \in Names : /\ Find(key) = Plain(config, key)
                         /\ \A domain \in Names :
                              FindNested(domain, key) = Plain(Plain(config, domain), key)
  BY <1>1, FindIsPlain, FindNestedIsPlain
<1>3. IsObject(config) => \A k \in Tables(config), key \in Names :
                            FindInTable(k, key) = Plain(config.map[k], key)
  BY <1>1, FindInTableIsPlain
<1>4. \A pname \in 0..MaxUint32, webGl2 \in BOOLEAN :
        FindGLParam(pname, webGl2) =
          Plain(Plain(config, IF webGl2 THEN Gl2Parameters ELSE GlParameters), DumpInteger(pname))
  BY <1>1, FindGLParamIsPlain
<1>5. QED BY <1>2, <1>3, <1>4

-----------------------------------------------------------------------------
(* Values.                                                                 *)

\* The values without parts.  A number that was read keeps its width.
ScalarValues ==
  {Null} \cup {Boolean(b) : b \in BOOLEAN}
    \cup {Unsigned(n) : n \in 0..MaxUnsigned}
    \cup {Integer(n) : n \in (-MaxSigned - 1)..0}
    \cup {Text(s) : s \in Seq(Byte)} \cup {Strtod(s) : s \in Seq(Byte)}

\* The lists and the objects of values of W.
ArraysOf(W) == {Array(items) : items \in Seq(W)}
KeySets == {K \in SUBSET Seq(Byte) : IsFiniteSet(K)}
ObjectsOf(W) == UNION {{Object(map) : map \in [K -> W]} : K \in KeySets}
Containers(W) == ArraysOf(W) \cup ObjectsOf(W)

\* A set of values that has the parts of its members, and a value of one: it is
\* well-formed to any depth.
Closed(W) == ScalarValues \subseteq W /\ W \subseteq ScalarValues \cup Containers(W)
WellFormed(v) == \E W : v \in W /\ Closed(W)

LEMMA StrtodIsFloat ==
  ASSUME NEW s
  PROVE  Strtod(s).type = "float"
<1>1. \A neg, whole, fraction, exp : Decimal(neg, whole, fraction, exp).type = "float"
  BY DEF Decimal, Float
<1>2. QED BY <1>1 DEF Strtod

LEMMA ScalarTypes ==
  /\ Null \in ScalarValues
  /\ \A b \in BOOLEAN : Boolean(b) \in ScalarValues
  /\ \A s \in Seq(Byte) : Text(s) \in ScalarValues /\ Strtod(s) \in ScalarValues
  /\ \A v \in ScalarValues : v.type \in {"null", "boolean", "unsigned", "integer", "string", "float"}
<1>1. /\ Null \in ScalarValues
      /\ \A b \in BOOLEAN : Boolean(b) \in ScalarValues
      /\ \A s \in Seq(Byte) : Text(s) \in ScalarValues /\ Strtod(s) \in ScalarValues
  BY DEF ScalarValues
<1>2. ASSUME NEW v \in ScalarValues
      PROVE  v.type \in {"null", "boolean", "unsigned", "integer", "string", "float"}
  <2>1. CASE v = Null
    BY <2>1 DEF Null
  <2>2. CASE \E b \in BOOLEAN : v = Boolean(b)
    BY <2>2 DEF Boolean
  <2>3. CASE \E n \in 0..MaxUnsigned : v = Unsigned(n)
    BY <2>3 DEF Unsigned
  <2>4. CASE \E n \in (-MaxSigned - 1)..0 : v = Integer(n)
    BY <2>4 DEF Integer
  <2>5. CASE \E s \in Seq(Byte) : v = Text(s)
    BY <2>5 DEF Text
  <2>6. CASE \E s \in Seq(Byte) : v = Strtod(s)
    BY <2>6, StrtodIsFloat
  <2>7. QED BY <2>1, <2>2, <2>3, <2>4, <2>5, <2>6 DEF ScalarValues
<1>3. QED BY <1>1, <1>2

-----------------------------------------------------------------------------
(* The lexer.                                                              *)

LexerLabels ==
  {"bom", "bom2", "bom3", "scan", "literal", "string", "range", "escape", "hex", "surrogate",
   "surrogate u", "minus", "zero", "any1", "decimal1", "decimal2", "exponent", "sign", "any2",
   "failed"}

Kinds == Scalars \cup {"none", "value_float", "begin_array", "end_array", "begin_object",
                       "end_object", "name_separator", "value_separator", "end_of_input",
                       "parse_error"}

\* A token of a value has a value without parts, a string one of bytes.
Tokens ==
  {t \in [kind : Kinds, value : ScalarValues \cup {None}] :
     /\ t.kind \in Scalars \cup {"value_float"} => t.value \in ScalarValues
     /\ t.kind = "value_string" => \E s \in Seq(Byte) : t.value = Text(s)}

ByteRanges == {<<128, 191>>, <<160, 191>>, <<128, 159>>, <<144, 191>>, <<128, 143>>}
Surrogates == {0} \cup HighSurrogates
Needs == Seq(Int) \cup Seq(ByteRanges)

Lexers ==
  [at : LexerLabels, buffer : Seq(Byte), need : Needs,
   codepoint : Nat, high : Nat, type : {"unsigned", "integer", "float"},
   token : Tokens, again : BOOLEAN]

\* The bytes of an integer: its digits, after its sign if it has one.
IntegerBytes(type, bytes) ==
  /\ Len(bytes) > 0
  /\ \/ type = "unsigned" /\ bytes \in Seq(Digits)
     \/ type = "integer" /\ bytes[1] = Minus /\ Tail(bytes) \in Seq(Digits)

\* What is left to read of four hexadecimal digits bounds the number so far.
HexSoFar(n, codepoint) ==
  \/ n = 4 /\ codepoint = 0
  \/ n = 3 /\ codepoint < 16
  \/ n = 2 /\ codepoint < 256
  \/ n = 1 /\ codepoint < 4096

\* What each label knows of the state.
Shaped(l) ==
  /\ l.at = "failed" => l.token.kind = "parse_error"
  /\ l.at = "literal" => l.codepoint \in {116, 102, 110} /\ l.need \in Seq(Int)
  /\ l.at = "range" => l.need \in Seq(ByteRanges) /\ Len(l.need) > 0
  /\ l.at \in {"hex", "surrogate", "surrogate u"} => l.high \in Surrogates
  /\ l.at = "hex" => l.need \in Seq(Int) /\ HexSoFar(Len(l.need), l.codepoint)
  /\ l.at = "minus" => l.buffer = <<Minus>>
  /\ l.at \in {"zero", "any1"} => IntegerBytes(l.type, l.buffer)
  /\ l.at \in {"decimal2", "any2", "sign"} => l.type = "float"

LexOK(l) == l \in Lexers /\ Shaped(l)

Inputs == Byte \cup {EOF}

\* The labels that know nothing.
Plainly == {"bom", "bom2", "bom3", "scan", "string", "escape", "decimal1", "exponent"}

LEMMA PlainlyShaped ==
  ASSUME NEW l \in Lexers, l.at \in Plainly
  PROVE  LexOK(l)
BY DEF LexOK, Shaped, Plainly

LEMMA FailOK ==
  ASSUME NEW l \in Lexers
  PROVE  LexOK(Fail(l))
<1>1. Token("parse_error", None) \in Tokens
  BY DEF Token, Tokens, Kinds, Scalars
<1>2. Fail(l) \in Lexers /\ Fail(l).at = "failed" /\ Fail(l).token = Token("parse_error", None)
  BY <1>1 DEF Fail, Lexers, LexerLabels
<1>3. QED BY <1>2 DEF LexOK, Shaped, Token

LEMMA GotoOK ==
  ASSUME NEW l \in Lexers, NEW label \in Plainly
  PROVE  LexOK(Goto(l, label))
<1>1. Goto(l, label) \in Lexers /\ Goto(l, label).at \in Plainly
  BY DEF Goto, Lexers, LexerLabels, Plainly
<1>2. QED BY <1>1, PlainlyShaped

LEMMA AddIn ==
  ASSUME NEW l \in Lexers, NEW bytes \in Seq(Byte)
  PROVE  Add(l, bytes) \in Lexers /\ Add(l, bytes) = [l EXCEPT !.buffer = l.buffer \o bytes]
         /\ l.buffer \o bytes \in Seq(Byte)
<1>1. l.buffer \in Seq(Byte)
  BY DEF Lexers
<1>2. l.buffer \o bytes \in Seq(Byte)
  BY <1>1
<1>3. Add(l, bytes) = [l EXCEPT !.buffer = l.buffer \o bytes]
  BY DEF Add
<1>4. [l EXCEPT !.buffer = l.buffer \o bytes] \in Lexers
  BY <1>2 DEF Lexers
<1>5. QED BY <1>2, <1>3, <1>4

LEMMA DoneOK ==
  ASSUME NEW l \in Lexers, NEW kind, NEW value, Token(kind, value) \in Tokens
  PROVE  LexOK(Done(l, kind, value))
<1>1. Done(l, kind, value) \in Lexers /\ Done(l, kind, value).at = "scan"
  BY DEF Done, Lexers, LexerLabels
<1>2. QED BY <1>1, PlainlyShaped DEF Plainly

LEMMA TokenOK ==
  /\ \A kind \in Kinds \ (Scalars \cup {"value_float"}) : Token(kind, None) \in Tokens
  /\ \A kind \in (Scalars \cup {"value_float"}) \ {"value_string"}, v \in ScalarValues :
       Token(kind, v) \in Tokens
  /\ \A s \in Seq(Byte) : Token("value_string", Text(s)) \in Tokens
<1>1. \A kind \in Kinds \ (Scalars \cup {"value_float"}) : Token(kind, None) \in Tokens
  BY DEF Token, Tokens, Scalars
<1>2. \A kind \in (Scalars \cup {"value_float"}) \ {"value_string"}, v \in ScalarValues :
        Token(kind, v) \in Tokens
  BY DEF Token, Tokens, Kinds
<1>3. \A s \in Seq(Byte) : Token("value_string", Text(s)) \in Tokens
  BY ScalarTypes DEF Token, Tokens, Kinds, Scalars
<1>4. QED BY <1>1, <1>2, <1>3

\* A state with more bytes and another label.
LEMMA AddGotoOK ==
  ASSUME NEW l \in Lexers, NEW bytes \in Seq(Byte), NEW label \in Plainly
  PROVE  LexOK(Goto(Add(l, bytes), label))
BY AddIn, GotoOK

LEMMA OneByte ==
  ASSUME NEW c \in Byte
  PROVE  <<c>> \in Seq(Byte)
OBVIOUS

LEMMA UpToThree ==
  ASSUME NEW S, NEW a \in S, NEW b \in S, NEW c \in S
  PROVE  <<>> \in Seq(S) /\ <<a>> \in Seq(S) /\ <<a, b>> \in Seq(S) /\ <<a, b, c>> \in Seq(S)
OBVIOUS

LEMMA RangesAre ==
  ASSUME NEW c \in Nat, NEW S, <<>> \in S, << <<128, 191>> >> \in S,
         << <<160, 191>>, <<128, 191>> >> \in S, << <<128, 191>>, <<128, 191>> >> \in S,
         << <<128, 159>>, <<128, 191>> >> \in S,
         << <<144, 191>>, <<128, 191>>, <<128, 191>> >> \in S,
         << <<128, 191>>, <<128, 191>>, <<128, 191>> >> \in S,
         << <<128, 143>>, <<128, 191>>, <<128, 191>> >> \in S
  PROVE  Ranges(c) \in S
BY SMT DEF Ranges

LEMMA RangesOK ==
  ASSUME NEW c \in Nat
  PROVE  Ranges(c) \in Seq(ByteRanges) /\ (Ranges(c) # <<>> => Len(Ranges(c)) > 0)
<1>1. /\ <<128, 191>> \in ByteRanges /\ <<160, 191>> \in ByteRanges /\ <<128, 159>> \in ByteRanges
      /\ <<144, 191>> \in ByteRanges /\ <<128, 143>> \in ByteRanges
  BY DEF ByteRanges
<1>2. <<>> \in Seq(ByteRanges) /\ << <<128, 191>> >> \in Seq(ByteRanges)
  BY <1>1, UpToThree, ZenonT(40)
<1>3. << <<160, 191>>, <<128, 191>> >> \in Seq(ByteRanges)
  BY <1>1, UpToThree, ZenonT(40)
<1>4. << <<128, 191>>, <<128, 191>> >> \in Seq(ByteRanges)
  BY <1>1, UpToThree, ZenonT(40)
<1>5. << <<128, 159>>, <<128, 191>> >> \in Seq(ByteRanges)
  BY <1>1, UpToThree, ZenonT(40)
<1>6. << <<144, 191>>, <<128, 191>>, <<128, 191>> >> \in Seq(ByteRanges)
  BY <1>1, UpToThree, ZenonT(40)
<1>7. << <<128, 191>>, <<128, 191>>, <<128, 191>> >> \in Seq(ByteRanges)
  BY <1>1, UpToThree, ZenonT(40)
<1>8. << <<128, 143>>, <<128, 191>>, <<128, 191>> >> \in Seq(ByteRanges)
  BY <1>1, UpToThree, ZenonT(40)
<1>9. Ranges(c) \in Seq(ByteRanges)
  BY <1>2, <1>3, <1>4, <1>5, <1>6, <1>7, <1>8, RangesAre, ZenonT(40)
<1>10. QED BY <1>9

LEMMA GotoIn ==
  ASSUME NEW l \in Lexers, NEW label \in LexerLabels
  PROVE  /\ Goto(l, label) \in Lexers
         /\ Goto(l, label).at = label
         /\ Goto(l, label).high = l.high /\ Goto(l, label).codepoint = l.codepoint
         /\ Goto(l, label).type = l.type /\ Goto(l, label).buffer = l.buffer
BY DEF Goto, Lexers

\* Another label, and what is needed at it.
Needing(l, label, need) == [Goto(l, label) EXCEPT !.need = need]

LEMMA NeedOK ==
  ASSUME NEW l \in Lexers, NEW label \in LexerLabels, NEW need \in Needs
  PROVE  /\ Needing(l, label, need) \in Lexers
         /\ Needing(l, label, need).at = label /\ Needing(l, label, need).need = need
<1>1. Goto(l, label) \in Lexers /\ Goto(l, label).at = label
  BY GotoIn
<1>2. QED BY <1>1 DEF Needing, Lexers

LEMMA ScanStringOK ==
  ASSUME NEW l \in Lexers, NEW c \in Inputs
  PROVE  l.at = "string" => LexOK(ScanString(l, c))
<1> SUFFICES ASSUME l.at = "string" PROVE LexOK(ScanString(l, c))
  OBVIOUS
<1>1. CASE c = EOF
  <2>1. ScanString(l, c) = Fail(l)
    BY <1>1, SMT DEF ScanString, Quote, EOF, Backslash, ControlBytes, PlainBytes
  <2>2. QED BY <2>1, FailOK
<1>2. CASE c = Quote
  <2>1. Token("value_string", Text(l.buffer)) \in Tokens
    BY TokenOK DEF Lexers
  <2>2. ScanString(l, c) = Done(l, "value_string", Text(l.buffer))
    BY <1>2, SMT DEF ScanString, Quote, EOF, Backslash, ControlBytes, PlainBytes
  <2>3. QED BY <2>1, <2>2, DoneOK
<1>3. CASE c = Backslash
  <2>1. ScanString(l, c) = Goto(l, "escape")
    BY <1>3, SMT DEF ScanString, Quote, EOF, Backslash, ControlBytes, PlainBytes
  <2>2. QED BY <2>1, GotoOK DEF Plainly
<1>4. CASE c \in ControlBytes
  <2>1. c # EOF /\ c # Quote /\ c # Backslash /\ c \notin PlainBytes /\ ~(c > 127)
    BY <1>4, SMT DEF Quote, EOF, Backslash, ControlBytes, PlainBytes
  <2>2. ScanString(l, c) = Fail(l)
    BY <1>4, <2>1, Zenon DEF ScanString
  <2>3. QED BY <2>2, FailOK
<1>5. CASE c \in PlainBytes
  <2>1. c # EOF /\ c # Quote /\ c # Backslash /\ c \notin ControlBytes /\ ~(c > 127)
    BY <1>5, SMT DEF Quote, EOF, Backslash, ControlBytes, PlainBytes
  <2>2. ScanString(l, c) = Add(l, <<c>>)
    BY <1>5, <2>1, Zenon DEF ScanString
  <2>3. <<c>> \in Seq(Byte)
    BY <1>5 DEF PlainBytes, Byte
  <2>4. Add(l, <<c>>) \in Lexers /\ Add(l, <<c>>).at = "string"
    BY <2>3, AddIn DEF Add, Lexers
  <2>5. QED BY <2>2, <2>4, PlainlyShaped DEF Plainly
<1>6. CASE c \in Byte /\ c > 127
  <2>1. ScanString(l, c) = IF Ranges(c) = <<>> THEN Fail(l)
                           ELSE [Goto(Add(l, <<c>>), "range") EXCEPT !.need = Ranges(c)]
    BY <1>6, SMT DEF ScanString, Quote, EOF, Backslash, ControlBytes, PlainBytes, Byte
  <2>2. CASE Ranges(c) = <<>>
    BY <2>1, <2>2, FailOK
  <2>3. CASE Ranges(c) # <<>>
    <3>1. PICK need : need = Ranges(c) /\ need \in Seq(ByteRanges) /\ Len(need) > 0
      BY <1>6, <2>3, RangesOK DEF Byte
    <3>2. PICK new : new = Add(l, <<c>>) /\ new \in Lexers
      BY <1>6, OneByte, AddIn
    <3>3. PICK next : next = Needing(new, "range", need)
      OBVIOUS
    <3>4. need \in Needs /\ "range" \in LexerLabels
      BY <3>1 DEF Needs, LexerLabels
    <3>5. next \in Lexers /\ next.at = "range" /\ next.need = need
      BY <3>2, <3>3, <3>4, NeedOK
    <3>6. LexOK(next)
      BY <3>1, <3>5 DEF LexOK, Shaped
    <3>7. QED BY <2>1, <2>3, <3>1, <3>2, <3>3, <3>6 DEF Needing
  <2>4. QED BY <2>2, <2>3
<1>7. c \in ControlBytes \/ c \in PlainBytes \/ c = Quote \/ c = Backslash \/ c = EOF
      \/ (c \in Byte /\ c > 127)
  BY DEF Inputs, Byte, ControlBytes, PlainBytes
<1>8. QED BY <1>1, <1>2, <1>3, <1>4, <1>5, <1>6, <1>7

LEMMA MoreThanOne ==
  ASSUME NEW n \in Nat, n > 0, n # 1
  PROVE  n - 1 > 0
OBVIOUS

LEMMA NextByteInRangeOK ==
  ASSUME NEW l \in Lexers, Shaped(l), NEW c \in Inputs
  PROVE  l.at = "range" => LexOK(NextByteInRange(l, c))
<1> SUFFICES ASSUME l.at = "range" PROVE LexOK(NextByteInRange(l, c))
  OBVIOUS
<1>1. l.need \in Seq(ByteRanges) /\ Len(l.need) > 0
  BY DEF Shaped
<1>2. Head(l.need) \in ByteRanges /\ Tail(l.need) \in Seq(ByteRanges)
      /\ Len(Tail(l.need)) = Len(l.need) - 1 /\ Len(l.need) \in Nat
  BY <1>1
<1>3. Head(l.need)[1] > 0 /\ Head(l.need)[1] \in Nat /\ Head(l.need)[2] \in Nat
  BY <1>2 DEF ByteRanges
<1>4. CASE c \notin Head(l.need)[1]..Head(l.need)[2]
  BY <1>4, FailOK DEF NextByteInRange
<1>5. CASE c \in Head(l.need)[1]..Head(l.need)[2]
  <2>1. c \in Byte
    BY <1>3, <1>5 DEF Inputs, EOF
  <2>2. PICK new : new = Add(l, <<c>>) /\ new \in Lexers
    BY <2>1, OneByte, AddIn
  <2>3. PICK need : need = Tail(l.need)
    OBVIOUS
  <2>4. need \in Seq(ByteRanges) /\ Len(need) = Len(l.need) - 1
    BY <1>2, <2>3
  <2>5. PICK label : label = (IF Len(l.need) = 1 THEN "string" ELSE "range")
    OBVIOUS
  <2>6. PICK next : next = Needing(new, label, need)
    OBVIOUS
  <2>7. NextByteInRange(l, c) = next
    BY <1>5, <2>2, <2>3, <2>5, <2>6, Zenon DEF NextByteInRange, Needing
  <2>8. (label = "range" /\ Len(need) > 0) \/ label = "string"
    <3>1. CASE Len(l.need) = 1
      BY <2>5, <3>1
    <3>2. CASE Len(l.need) # 1
      <4>1. label = "range"
        BY <2>5, <3>2
      <4>2. PICK n \in Nat : n = Len(l.need) /\ n > 0 /\ n # 1
        BY <1>1, <1>2, <3>2
      <4>3. Len(need) = n - 1
        BY <2>4, <4>2
      <4>4. n - 1 > 0
        BY <4>2, MoreThanOne
      <4>5. QED BY <4>1, <4>3, <4>4
    <3>3. QED BY <3>1, <3>2
  <2>9. need \in Needs /\ label \in LexerLabels
    BY <2>4, <2>8 DEF Needs, LexerLabels
  <2>10. next \in Lexers /\ next.at = label /\ next.need = need
    BY <2>2, <2>6, <2>9, NeedOK
  <2>11. LexOK(next)
    BY <2>4, <2>8, <2>10 DEF LexOK, Shaped
  <2>12. QED BY <2>7, <2>11
<1>6. QED BY <1>4, <1>5

\* Four digits are still to be read.
LEMMA Hex4OK ==
  ASSUME NEW l \in Lexers, l.high \in Surrogates
  PROVE  LexOK(Hex4(l))
<1> DEFINE need == <<1, 2, 3, 4>>
<1>1. need \in Seq(Int) /\ Len(need) = 4
  OBVIOUS
<1>2. Hex4(l) = [Goto(l, "hex") EXCEPT !.codepoint = 0, !.need = need]
  BY DEF Hex4
<1> HIDE DEF need
<1>3. need \in Needs
  BY <1>1 DEF Needs
<1>4. PICK next : next = Goto(l, "hex") /\ next \in Lexers /\ next.at = "hex" /\ next.high = l.high
  <2>1. "hex" \in LexerLabels
    BY DEF LexerLabels
  <2>2. QED BY <2>1, GotoIn
<1>5. Hex4(l) = [next EXCEPT !.codepoint = 0, !.need = need]
  BY <1>2, <1>4
<1>6. Hex4(l) \in Lexers /\ Hex4(l).at = "hex" /\ Hex4(l).need = need
      /\ Hex4(l).codepoint = 0 /\ Hex4(l).high = next.high
  <2>1. PICK half : half = [next EXCEPT !.codepoint = 0]
    OBVIOUS
  <2>2. half \in Lexers /\ half.at = "hex" /\ half.codepoint = 0 /\ half.high = next.high
    BY <1>4, <2>1 DEF Lexers
  <2>3. Hex4(l) = [half EXCEPT !.need = need]
    BY <1>5, <2>1
  <2>4. QED BY <1>3, <2>2, <2>3 DEF Lexers
<1>7. QED BY <1>1, <1>4, <1>6 DEF LexOK, Shaped, HexSoFar

LEMMA ScanEscapeOK ==
  ASSUME NEW l \in Lexers, NEW c \in Inputs
  PROVE  LexOK(ScanEscape(l, c))
<1>1. 117 \notin DOMAIN Escapes
  BY DEF Escapes
<1>2. CASE c \in DOMAIN Escapes
  <2>1. ScanEscape(l, c) = Goto(Add(l, <<Escapes[c]>>), "string")
    BY <1>1, <1>2 DEF ScanEscape
  <2>2. Escapes[c] \in Byte
    BY <1>2 DEF Escapes, Byte
  <2>3. QED BY <2>1, <2>2, OneByte, AddGotoOK DEF Plainly
<1>3. CASE c = 117
  <2>1. ScanEscape(l, c) = Hex4([l EXCEPT !.high = 0])
    BY <1>1, <1>3 DEF ScanEscape
  <2>2. [l EXCEPT !.high = 0] \in Lexers /\ [l EXCEPT !.high = 0].high \in Surrogates
    BY DEF Lexers, Surrogates
  <2>3. QED BY <2>1, <2>2, Hex4OK
<1>4. CASE c \notin DOMAIN Escapes /\ c # 117
  BY <1>4, FailOK DEF ScanEscape
<1>5. QED BY <1>2, <1>3, <1>4

LEMMA HighOf ==
  ASSUME NEW n
  PROVE  n \in HighSurrogates <=> n \in Nat /\ n >= 55296 /\ n <= 56319
BY SMTT(30) DEF HighSurrogates

LEMMA LowOf ==
  ASSUME NEW n
  PROVE  n \in LowSurrogates <=> n \in Nat /\ n >= 56320 /\ n <= 57343
BY SMTT(30) DEF LowSurrogates

\* The bytes of a code point, and of the pair of two surrogates.
IsCodePoint(cp) == cp \in Nat /\ cp < 1114112

LEMMA ContinuationByte ==
  ASSUME NEW n \in Nat
  PROVE  128 + (n % 64) \in Byte
BY SMT DEF Byte

LEMMA LeadByte ==
  ASSUME NEW cp \in Nat
  PROVE  /\ cp < 128 => cp \in Byte
         /\ cp < 2048 => 192 + cp \div 64 \in Byte
         /\ cp < 65536 => 224 + cp \div 4096 \in Byte
BY SMT DEF Byte

LEMMA LongestLead ==
  ASSUME NEW cp, IsCodePoint(cp)
  PROVE  240 + cp \div 262144 \in Byte
<1>1. cp \in Nat /\ cp < 1114112
  BY SMT DEF IsCodePoint
<1>2. QED BY <1>1, SMT DEF Byte

LEMMA Utf8Of ==
  ASSUME NEW cp \in Nat
  PROVE  \/ cp < 128 /\ Utf8(cp) = <<cp>>
         \/ /\ cp < 2048
            /\ Utf8(cp) = <<192 + cp \div 64, 128 + ((cp \div 1) % 64)>>
         \/ /\ cp < 65536
            /\ Utf8(cp) = <<224 + cp \div 4096, 128 + ((cp \div 64) % 64),
                            128 + ((cp \div 1) % 64)>>
         \/ Utf8(cp) = <<240 + cp \div 262144, 128 + ((cp \div 4096) % 64),
                         128 + ((cp \div 64) % 64), 128 + ((cp \div 1) % 64)>>
BY SMT DEF Utf8

LEMMA Utf8OK ==
  ASSUME NEW cp, IsCodePoint(cp)
  PROVE  Utf8(cp) \in Seq(Byte)
<1> DEFINE x == 128 + ((cp \div 1) % 64)
           y == 128 + ((cp \div 64) % 64)
           z == 128 + ((cp \div 4096) % 64)
           a == 192 + cp \div 64
           b == 224 + cp \div 4096
           c == 240 + cp \div 262144
<1>1. cp \in Nat
  BY SMT DEF IsCodePoint
<1>2. (cp \div 1) \in Nat /\ (cp \div 64) \in Nat /\ (cp \div 4096) \in Nat
  BY <1>1, SMT
<1>3. x \in Byte /\ y \in Byte /\ z \in Byte
  BY <1>2, ContinuationByte, SMT
<1>4. /\ cp < 128 => cp \in Byte
      /\ cp < 2048 => a \in Byte
      /\ cp < 65536 => b \in Byte
      /\ c \in Byte
  BY <1>1, LeadByte, LongestLead, SMT
<1>5. \/ cp < 128 /\ Utf8(cp) = <<cp>>
      \/ cp < 2048 /\ Utf8(cp) = <<a, x>>
      \/ cp < 65536 /\ Utf8(cp) = <<b, y, x>>
      \/ Utf8(cp) = <<c, z, y, x>>
  BY <1>1, Utf8Of, SMT
<1> DEFINE small == cp < 128
           double == cp < 2048
           triple == cp < 65536
<1>6. /\ small => cp \in Byte
      /\ double => a \in Byte
      /\ triple => b \in Byte
      /\ c \in Byte
  BY <1>4, SMT
<1>7. \/ small /\ Utf8(cp) = <<cp>>
      \/ double /\ Utf8(cp) = <<a, x>>
      \/ triple /\ Utf8(cp) = <<b, y, x>>
      \/ Utf8(cp) = <<c, z, y, x>>
  BY <1>5, SMT
<1> HIDE DEF x, y, z, a, b, c, small, double, triple
<1>8. CASE small /\ Utf8(cp) = <<cp>>
  BY <1>6, <1>8, OneByte
<1>9. CASE double /\ Utf8(cp) = <<a, x>>
  BY <1>3, <1>6, <1>9
<1>10. CASE triple /\ Utf8(cp) = <<b, y, x>>
  BY <1>3, <1>6, <1>10
<1>11. CASE Utf8(cp) = <<c, z, y, x>>
  BY <1>3, <1>6, <1>11
<1>12. QED BY <1>7, <1>8, <1>9, <1>10, <1>11

LEMMA PairIsCodePoint ==
  ASSUME NEW high \in HighSurrogates, NEW low \in LowSurrogates
  PROVE  IsCodePoint((high - 55296) * 1024 + (low - 56320) + 65536)
<1>1. high \in Nat /\ high >= 55296 /\ high <= 56319
  BY HighOf, SMT
<1>2. low \in Nat /\ low >= 56320 /\ low <= 57343
  BY LowOf, SMT
<1>3. QED BY <1>1, <1>2, SMT DEF IsCodePoint

\* A code unit of 16 bits.
IsUnit(cp) == cp \in Nat /\ cp < 65536

LEMMA SurrogatesApart ==
  ASSUME NEW cp \in HighSurrogates
  PROVE  cp \notin LowSurrogates /\ cp \in Nat
BY HighOf, LowOf, SMT

LEMMA ScanCodepointOK ==
  ASSUME NEW l \in Lexers, l.high \in Surrogates, NEW cp, IsUnit(cp)
  PROVE  LexOK(ScanCodepoint(l, cp))
<1>1. CASE l.high # 0 /\ cp \in LowSurrogates
  <2>1. IsCodePoint((l.high - 55296) * 1024 + (cp - 56320) + 65536)
    BY <1>1, PairIsCodePoint, SMT DEF Surrogates
  <2>2. Utf8((l.high - 55296) * 1024 + (cp - 56320) + 65536) \in Seq(Byte)
    BY <2>1, Utf8OK, SMT
  <2>3. \E s \in Seq(Byte) : ScanCodepoint(l, cp) = Goto(Add(l, s), "string")
    BY <1>1, <2>2, SMT DEF ScanCodepoint
  <2>4. QED BY <2>3, AddGotoOK DEF Plainly
<1>2. CASE l.high # 0 /\ cp \notin LowSurrogates
  <2>1. ScanCodepoint(l, cp) = Fail(l)
    BY <1>2, SMT DEF ScanCodepoint
  <2>2. QED BY <2>1, FailOK
<1>3. CASE l.high = 0 /\ cp \in HighSurrogates
  <2>1. ScanCodepoint(l, cp) = [Goto(l, "surrogate") EXCEPT !.high = cp]
    BY <1>3, SurrogatesApart, SMT DEF ScanCodepoint
  <2>2. cp \in Nat
    BY <1>3, SurrogatesApart
  <2>3. "surrogate" \in LexerLabels
    BY DEF LexerLabels
  <2>4. PICK new : new = Goto(l, "surrogate") /\ new \in Lexers /\ new.at = "surrogate"
    BY <2>3, GotoIn
  <2>5. ScanCodepoint(l, cp) = [new EXCEPT !.high = cp]
    BY <2>1, <2>4
  <2>6. PICK next : next = ScanCodepoint(l, cp) /\ next \in Lexers /\ next.at = "surrogate"
                    /\ next.high = cp
    BY <2>2, <2>4, <2>5 DEF Lexers
  <2>7. LexOK(next)
    BY <1>3, <2>6 DEF LexOK, Shaped, Surrogates
  <2>8. QED BY <2>6, <2>7
<1>4. CASE l.high = 0 /\ cp \in LowSurrogates
  <2>1. ScanCodepoint(l, cp) = Fail(l)
    BY <1>4, SurrogatesApart, SMT DEF ScanCodepoint
  <2>2. QED BY <2>1, FailOK
<1>5. CASE l.high = 0 /\ cp \notin HighSurrogates /\ cp \notin LowSurrogates
  <2>1. ScanCodepoint(l, cp) = Goto(Add(l, Utf8(cp)), "string")
    BY <1>5, SMT DEF ScanCodepoint
  <2>2. IsCodePoint(cp)
    BY SMT DEF IsUnit, IsCodePoint
  <2>3. QED BY <2>1, <2>2, Utf8OK, AddGotoOK DEF Plainly
<1>6. QED BY <1>1, <1>2, <1>3, <1>4, <1>5

\* One more digit of the four.
LEMMA HexGrows ==
  ASSUME NEW n \in Nat, NEW cp \in Nat, NEW digit \in 0..15, HexSoFar(n, cp)
  PROVE  /\ IsUnit(16 * cp + digit)
         /\ n > 1 => HexSoFar(n - 1, 16 * cp + digit)
BY SMT DEF HexSoFar, IsUnit

LEMMA HexLeft ==
  ASSUME NEW n \in Nat, NEW cp, HexSoFar(n, cp)
  PROVE  n > 0
BY DEF HexSoFar

LEMMA GetCodepointOK ==
  ASSUME NEW l \in Lexers, Shaped(l), NEW c \in Inputs
  PROVE  l.at = "hex" => LexOK(GetCodepoint(l, c))
<1> SUFFICES ASSUME l.at = "hex" PROVE LexOK(GetCodepoint(l, c))
  OBVIOUS
<1>1. l.need \in Seq(Int) /\ HexSoFar(Len(l.need), l.codepoint) /\ l.high \in Surrogates
      /\ l.codepoint \in Nat
  BY DEF Shaped, Lexers
<1>2. HexDigit(c) \in -1..15
  <2>1. c \in Int
    BY DEF Inputs, Byte, EOF
  <2>2. QED BY <2>1, SMT DEF HexDigit
<1>3. CASE HexDigit(c) = -1
  <2>1. GetCodepoint(l, c) = Fail(l)
    BY <1>3, SMT DEF GetCodepoint
  <2>2. QED BY <2>1, FailOK
<1>4. CASE HexDigit(c) # -1
  <2>1. PICK digit : digit = HexDigit(c) /\ digit \in 0..15
    BY <1>2, <1>4
  <2>2. PICK cp : cp = 16 * l.codepoint + HexDigit(c)
    OBVIOUS
  <2>3. PICK need : need = Tail(l.need)
    OBVIOUS
  <2>4. cp = 16 * l.codepoint + digit
    BY <2>1, <2>2
  <2>5. Len(l.need) \in Nat /\ Len(l.need) > 0
    <3>1. Len(l.need) \in Nat
      BY <1>1
    <3>2. QED BY <1>1, <3>1, HexLeft
  <2>6. need \in Seq(Int) /\ Len(need) = Len(l.need) - 1
    BY <1>1, <2>3, <2>5
  <2>7. /\ IsUnit(cp)
        /\ Len(l.need) > 1 => HexSoFar(Len(need), cp)
    BY <1>1, <2>1, <2>4, <2>5, <2>6, HexGrows
  <2>8. PICK read : read = [l EXCEPT !.codepoint = cp, !.need = need]
    OBVIOUS
  <2>9. read = [l EXCEPT !.codepoint = 16 * l.codepoint + HexDigit(c), !.need = Tail(@)]
    BY <2>2, <2>3, <2>8
  <2>10. read \in Lexers /\ read.at = "hex" /\ read.need = need /\ read.codepoint = cp
         /\ read.high = l.high
    <3>1. cp \in Nat /\ need \in Needs
      BY <2>6, <2>7 DEF Needs, IsUnit
    <3>2. PICK half : half = [l EXCEPT !.codepoint = cp]
      OBVIOUS
    <3>3. half \in Lexers /\ half.at = "hex" /\ half.codepoint = cp /\ half.high = l.high
      BY <3>1, <3>2 DEF Lexers
    <3>4. read = [half EXCEPT !.need = need]
      BY <2>8, <3>2
    <3>5. QED BY <3>1, <3>3, <3>4 DEF Lexers
  <2>11. CASE Len(l.need) > 1
    <3>1. GetCodepoint(l, c) = read
      BY <1>4, <2>9, <2>11, Zenon DEF GetCodepoint
    <3>2. LexOK(read)
      BY <1>1, <2>6, <2>7, <2>10, <2>11 DEF LexOK, Shaped
    <3>3. QED BY <3>1, <3>2
  <2>12. CASE ~(Len(l.need) > 1)
    <3>1. GetCodepoint(l, c) = ScanCodepoint(read, cp)
      BY <1>4, <2>2, <2>9, <2>12, Zenon DEF GetCodepoint
    <3>2. QED BY <1>1, <2>7, <2>10, <3>1, ScanCodepointOK
  <2>13. QED BY <2>11, <2>12
<1>5. QED BY <1>3, <1>4

LEMMA SurrogatesOK ==
  ASSUME NEW l \in Lexers, Shaped(l), NEW c \in Inputs
  PROVE  /\ l.at = "surrogate" => LexOK(ScanSurrogate(l, c))
         /\ l.at = "surrogate u" => LexOK(ScanSurrogateU(l, c))
<1>1. ASSUME l.at = "surrogate" PROVE LexOK(ScanSurrogate(l, c))
  <2>1. CASE c = Backslash
    <3>1. PICK next : next = Goto(l, "surrogate u")
      OBVIOUS
    <3>2. next \in Lexers /\ next.at = "surrogate u" /\ next.high = l.high
      BY <3>1 DEF Goto, Lexers, LexerLabels
    <3>3. l.high \in Surrogates
      BY <1>1 DEF Shaped
    <3>4. LexOK(next)
      BY <3>2, <3>3 DEF LexOK, Shaped
    <3>5. QED BY <2>1, <3>1, <3>4 DEF ScanSurrogate
  <2>2. CASE c # Backslash
    BY <2>2, FailOK DEF ScanSurrogate
  <2>3. QED BY <2>1, <2>2
<1>2. ASSUME l.at = "surrogate u" PROVE LexOK(ScanSurrogateU(l, c))
  <2>1. l.high \in Surrogates
    BY <1>2 DEF Shaped
  <2>2. QED BY <2>1, FailOK, Hex4OK DEF ScanSurrogateU
<1>3. QED BY <1>1, <1>2

-----------------------------------------------------------------------------
(* Numbers.                                                                *)

LEMMA AddKeeps ==
  ASSUME NEW l \in Lexers, NEW bytes \in Seq(Byte)
  PROVE  /\ Add(l, bytes).buffer = l.buffer \o bytes
         /\ Add(l, bytes).at = l.at /\ Add(l, bytes).type = l.type
BY DEF Add, Lexers

LEMMA DigitsOfOK ==
  ASSUME NEW bytes \in Seq(Digits)
  PROVE  DigitsOf(bytes) \in Seq(0..9)
<1>1. Len(bytes) \in Nat /\ DOMAIN bytes = 1..Len(bytes)
      /\ \A i \in 1..Len(bytes) : bytes[i] \in Digits
  OBVIOUS
<1>2. \A i \in 1..Len(bytes) : bytes[i] - 48 \in 0..9
  BY <1>1 DEF Digits
<1>3. DigitsOf(bytes) = [i \in 1..Len(bytes) |-> bytes[i] - 48]
  BY <1>1 DEF DigitsOf
<1>4. QED BY <1>1, <1>2, <1>3

\* The value of digits.
LEMMA NumberIsNat ==
  ASSUME NEW s \in Seq(0..9)
  PROVE  Number(s) \in Nat
<1>1. s \in Seq(Int) /\ Len(s) \in Nat /\ \A i \in 1..Len(s) : s[i] \in 0..9
  OBVIOUS
<1>2. PICK n \in Nat : n = Len(s)
  BY <1>1
<1>3. PICK r \in [0..n -> Int] : /\ r[0] = 0 /\ \A i \in 1..n : r[i] = 10 * r[i - 1] + s[i]
                                 /\ Number(s) = r[n]
  BY <1>1, <1>2, NumberOf
<1>4. ASSUME NEW i \in 0..n, \A j \in 0..(i - 1) : r[j] \in Nat
      PROVE  r[i] \in Nat
  <2>1. CASE i = 0
    BY <1>3, <2>1
  <2>2. CASE i # 0
    <3>1. i \in 1..n /\ i - 1 \in 0..(i - 1)
      BY <2>2
    <3>2. r[i - 1] \in Nat /\ s[i] \in Nat
      <4>1. r[i - 1] \in Nat
        BY <1>4, <3>1
      <4>2. s[i] \in 0..9
        BY <1>1, <1>2, <3>1
      <4>3. 0..9 \subseteq Nat
        OBVIOUS
      <4>4. s[i] \in Nat
        BY <4>2, <4>3, Zenon
      <4>5. QED BY <4>1, <4>4, Zenon
    <3>3. r[i] = 10 * r[i - 1] + s[i]
      BY <1>3, <3>1
    <3>4. PICK a \in Nat, b \in Nat : a = r[i - 1] /\ b = s[i]
      BY <3>2
    <3>5. QED BY <3>3, <3>4
  <2>3. QED BY <2>1, <2>2
<1>5. \A i \in 0..n : r[i] \in Nat
  <2> DEFINE bad == {i \in 0..n : r[i] \notin Nat}
  <2>1. SUFFICES ASSUME bad # {} PROVE FALSE
    OBVIOUS
  <2>2. bad \in SUBSET Nat
    OBVIOUS
  <2> HIDE DEF bad
  <2>3. PICK i \in bad : \A j \in bad : i <= j
    BY <2>1, <2>2, LeastNumber
  <2> USE DEF bad
  <2>4. \A j \in 0..(i - 1) : r[j] \in Nat
    BY <2>3
  <2>5. QED BY <1>4, <2>3, <2>4
<1>6. QED BY <1>2, <1>3, <1>5

\* scan_number_done.
LEMMA ConvertOK ==
  ASSUME NEW l \in Lexers, l.type = "float" \/ IntegerBytes(l.type, l.buffer)
  PROVE  Convert(l) \in Tokens
<1>1. PICK b \in Seq(Byte) : b = l.buffer
  BY DEF Lexers
<1>2. PICK n : n = Number(DigitsOf(IF b[1] = Minus THEN Tail(b) ELSE b))
  OBVIOUS
<1>3. Convert(l) =
        CASE l.type = "unsigned" /\ n <= MaxUnsigned -> Token("value_unsigned", Unsigned(n))
          [] l.type = "integer" /\ n <= MaxSigned + 1 -> Token("value_integer", Integer(-n))
          [] OTHER -> Token("value_float", Strtod(b))
  BY <1>1, <1>2, Zenon DEF Convert
<1>4. Token("value_float", Strtod(b)) \in Tokens
  BY TokenOK, ScalarTypes
<1>5. CASE l.type = "float"
  <2>1. Convert(l) = Token("value_float", Strtod(b))
    BY <1>3, <1>5
  <2>2. QED BY <1>4, <2>1
<1>6. CASE l.type = "unsigned" /\ b \in Seq(Digits) /\ Len(b) > 0
  <2>1. b[1] \in Digits
    BY <1>6
  <2>2. n = Number(DigitsOf(b))
    BY <1>2, <2>1 DEF Digits, Minus
  <2>3. n \in Nat
    BY <1>6, <2>2, DigitsOfOK, NumberIsNat
  <2>4. CASE n <= MaxUnsigned
    <3>1. Convert(l) = Token("value_unsigned", Unsigned(n))
      BY <1>3, <1>6, <2>4
    <3>2. n \in 0..MaxUnsigned
      BY <2>3, <2>4, NumberAssumption
    <3>3. Unsigned(n) \in ScalarValues
      BY <3>2 DEF ScalarValues
    <3>4. QED BY <3>1, <3>3, TokenOK DEF Scalars
  <2>5. CASE ~(n <= MaxUnsigned)
    <3>1. Convert(l) = Token("value_float", Strtod(b))
      BY <1>3, <1>6, <2>5
    <3>2. QED BY <1>4, <3>1
  <2>6. QED BY <2>4, <2>5
<1>7. CASE l.type = "integer" /\ b[1] = Minus /\ Tail(b) \in Seq(Digits)
  <2>1. n = Number(DigitsOf(Tail(b)))
    BY <1>2, <1>7
  <2>2. n \in Nat
    BY <1>7, <2>1, DigitsOfOK, NumberIsNat
  <2>3. CASE n <= MaxSigned + 1
    <3>1. Convert(l) = Token("value_integer", Integer(-n))
      BY <1>3, <1>7, <2>3
    <3>2. -n \in (-MaxSigned - 1)..0
      BY <2>2, <2>3, NumberAssumption
    <3>3. Integer(-n) \in ScalarValues
      BY <3>2 DEF ScalarValues
    <3>4. QED BY <3>1, <3>3, TokenOK DEF Scalars
  <2>4. CASE ~(n <= MaxSigned + 1)
    <3>1. Convert(l) = Token("value_float", Strtod(b))
      BY <1>3, <1>7, <2>4
    <3>2. QED BY <1>4, <3>1
  <2>5. QED BY <2>3, <2>4
<1>8. QED BY <1>1, <1>5, <1>6, <1>7 DEF IntegerBytes

LEMMA NumberDoneOK ==
  ASSUME NEW l \in Lexers, l.type = "float" \/ IntegerBytes(l.type, l.buffer)
  PROVE  LexOK(NumberDone(l))
<1>1. Convert(l) \in Tokens
  BY ConvertOK
<1>2. NumberDone(l) \in Lexers /\ NumberDone(l).at = "scan"
  BY <1>1 DEF NumberDone, Lexers, LexerLabels
<1>3. QED BY <1>2, PlainlyShaped DEF Plainly

\* A byte more and another label.
Taking(l, c, label) == Goto(Add(l, <<c>>), label)

LEMMA TakingOK ==
  ASSUME NEW l \in Lexers, NEW c \in Byte, NEW label \in LexerLabels
  PROVE  /\ Taking(l, c, label) \in Lexers
         /\ Taking(l, c, label).at = label
         /\ Taking(l, c, label).type = l.type
         /\ Taking(l, c, label).buffer = l.buffer \o <<c>>
<1>1. PICK new : new = Add(l, <<c>>) /\ new \in Lexers /\ new = [l EXCEPT !.buffer = l.buffer \o <<c>>]
  BY OneByte, AddIn
<1>2. new.type = l.type /\ new.buffer = l.buffer \o <<c>>
  BY <1>1 DEF Lexers
<1>3. QED BY <1>1, <1>2, GotoIn DEF Taking

LEMMA TakingPlainly ==
  ASSUME NEW l \in Lexers, NEW c \in Byte, NEW label \in Plainly
  PROVE  LexOK(Taking(l, c, label))
BY OneByte, AddGotoOK DEF Taking

LEMMA TakingFloat ==
  ASSUME NEW l \in Lexers, NEW c \in Byte, NEW label \in {"decimal2", "any2", "sign"},
         l.type = "float"
  PROVE  LexOK(Taking(l, c, label))
<1>1. label \in LexerLabels
  BY DEF LexerLabels
<1>2. PICK new : new = Taking(l, c, label)
  OBVIOUS
<1>3. new \in Lexers /\ new.at = label /\ new.type = "float"
  BY <1>1, <1>2, TakingOK
<1>4. LexOK(new)
  BY <1>3 DEF LexOK, Shaped
<1>5. QED BY <1>2, <1>4

LEMMA TakingInteger ==
  ASSUME NEW l \in Lexers, NEW c \in Byte, NEW label \in {"zero", "any1"},
         IntegerBytes(l.type, l.buffer \o <<c>>)
  PROVE  LexOK(Taking(l, c, label))
<1>1. label \in LexerLabels
  BY DEF LexerLabels
<1>2. PICK new : /\ new = Taking(l, c, label) /\ new \in Lexers /\ new.at = label
                 /\ new.type = l.type /\ new.buffer = l.buffer \o <<c>>
  BY <1>1, TakingOK
<1>3. IntegerBytes(new.type, new.buffer)
  BY <1>2
<1>4. LexOK(new)
  BY <1>2, <1>3 DEF LexOK, Shaped
<1>5. QED BY <1>2, <1>4

LEMMA TailOf ==
  ASSUME NEW b \in Seq(Int), Len(b) > 0
  PROVE  /\ Tail(b) \in Seq(Int)
         /\ Len(Tail(b)) = Len(b) - 1
         /\ Len(b) > 1 => Tail(b)[1] = b[2]
OBVIOUS

LEMMA SingleOf ==
  ASSUME NEW s \in Seq(Int), NEW x, Len(s) = 1, s[1] = x
  PROVE  s = <<x>>
OBVIOUS

LEMMA TailOfTwo ==
  ASSUME NEW b \in Seq(Int), Len(b) = 2
  PROVE  Tail(b) = <<b[2]>>
<1>1. Len(b) > 0 /\ Len(b) > 1
  OBVIOUS
<1>2. Tail(b) \in Seq(Int) /\ Len(Tail(b)) = Len(b) - 1 /\ Tail(b)[1] = b[2]
  BY <1>1, TailOf, Zenon
<1>3. Len(Tail(b)) = 1
  BY <1>2
<1>4. PICK t \in Seq(Int) : t = Tail(b) /\ Len(t) = 1 /\ t[1] = b[2]
  BY <1>2, <1>3, Zenon
<1>5. t = <<b[2]>>
  BY <1>4, SingleOf, Zenon
<1>6. QED BY <1>4, <1>5

\* The first bytes of an integer, and one more.
LEMMA IntegerBegins ==
  ASSUME NEW c \in Digits
  PROVE  IntegerBytes("unsigned", <<>> \o <<c>>) /\ IntegerBytes("integer", <<Minus>> \o <<c>>)
<1>1. <<>> \o <<c>> = <<c>> /\ <<c>> \in Seq(Digits) /\ Len(<<c>>) = 1
  OBVIOUS
<1>2. PICK b : b = <<Minus>> \o <<c>>
  OBVIOUS
<1>3. Len(b) = 2 /\ b[1] = Minus
  BY <1>2
<1>4. Tail(b) \in Seq(Digits)
  <2>1. b \in Seq(Int) /\ b[2] = c
    BY <1>2 DEF Minus, Digits
  <2>2. Tail(b) = <<c>>
    BY <1>3, <2>1, TailOfTwo
  <2>3. QED BY <1>1, <2>2
<1>5. IntegerBytes("unsigned", <<>> \o <<c>>)
  BY <1>1 DEF IntegerBytes
<1>6. IntegerBytes("integer", b)
  BY <1>3, <1>4 DEF IntegerBytes
<1>7. QED BY <1>2, <1>5, <1>6

LEMMA IntegerGrows ==
  ASSUME NEW type, NEW b \in Seq(Byte), IntegerBytes(type, b), NEW c \in Digits
  PROVE  IntegerBytes(type, b \o <<c>>)
<1>1. Len(b) \in Nat /\ Len(b) > 0 /\ Len(b \o <<c>>) = Len(b) + 1 /\ (b \o <<c>>)[1] = b[1]
  BY DEF IntegerBytes
<1>2. b \in Seq(Digits) => b \o <<c>> \in Seq(Digits)
  OBVIOUS
<1>3. Tail(b) \in Seq(Digits) => Tail(b \o <<c>>) \in Seq(Digits)
  <2>1. Tail(b \o <<c>>) = Tail(b) \o <<c>>
    BY <1>1
  <2>2. QED BY <2>1
<1>4. QED BY <1>1, <1>2, <1>3 DEF IntegerBytes

LEMMA DigitsAreBytes == Digits \subseteq Byte
BY DEF Digits, Byte

LEMMA Float1OK ==
  ASSUME NEW l \in Lexers
  PROVE  Float1(l) \in Lexers /\ Float1(l).type = "float"
BY DEF Float1, Lexers

LEMMA NumberInitOK ==
  ASSUME NEW l \in Lexers, NEW c \in Digits \cup {Minus}
  PROVE  LexOK(NumberInit(l, c))
<1> DEFINE new == [Add(Reset(l), <<c>>) EXCEPT !.type = "unsigned"]
<1>1. c \in Byte
  BY DEF Digits, Minus, Byte
<1>2. Reset(l) \in Lexers /\ Reset(l).buffer = <<>>
  <2>1. <<>> \in Seq(Byte)
    OBVIOUS
  <2>2. QED BY <2>1 DEF Reset, Lexers
<1>3. Add(Reset(l), <<c>>) \in Lexers /\ Add(Reset(l), <<c>>).buffer = <<c>>
  <2>1. <<c>> \in Seq(Byte) /\ <<>> \o <<c>> = <<c>>
    BY <1>1
  <2>2. QED BY <1>2, <2>1, AddIn, AddKeeps
<1>4. new \in Lexers /\ new.buffer = <<c>> /\ new.type = "unsigned"
  BY <1>3 DEF Lexers
<1>5. NumberInit(l, c) = CASE c = Minus -> Goto(new, "minus")
                           [] c = 48 -> Goto(new, "zero")
                           [] OTHER -> Goto(new, "any1")
  BY DEF NumberInit
<1> HIDE DEF new
<1>6. "minus" \in LexerLabels /\ "zero" \in LexerLabels /\ "any1" \in LexerLabels
  BY DEF LexerLabels
<1>7. CASE c = Minus
  <2>1. PICK next : next = Goto(new, "minus")
    OBVIOUS
  <2>2. next \in Lexers /\ next.at = "minus" /\ next.buffer = <<Minus>>
    BY <1>4, <1>6, <1>7, <2>1, GotoIn
  <2>3. LexOK(next)
    BY <2>2 DEF LexOK, Shaped
  <2>4. NumberInit(l, c) = next
    BY <1>5, <1>7, <2>1 DEF Minus
  <2>5. QED BY <2>3, <2>4
<1>8. CASE c # Minus
  <2>1. IntegerBytes("unsigned", <<c>>)
    BY <1>8 DEF IntegerBytes
  <2>2. ASSUME NEW label \in {"zero", "any1"} PROVE LexOK(Goto(new, label))
    <3>1. PICK next : next = Goto(new, label)
      OBVIOUS
    <3>2. next \in Lexers /\ next.at = label /\ next.buffer = <<c>> /\ next.type = "unsigned"
      BY <1>4, <1>6, <3>1, GotoIn
    <3>3. LexOK(next)
      BY <2>1, <3>2 DEF LexOK, Shaped
    <3>4. QED BY <3>1, <3>3
  <2>3. NumberInit(l, c) = Goto(new, "zero") \/ NumberInit(l, c) = Goto(new, "any1")
    BY <1>5, <1>8
  <2>4. QED BY <2>2, <2>3
<1>9. QED BY <1>7, <1>8

LEMMA NumberMinusOK ==
  ASSUME NEW l \in Lexers, Shaped(l), NEW c \in Inputs
  PROVE  l.at = "minus" => LexOK(NumberMinus(l, c))
<1> SUFFICES ASSUME l.at = "minus" PROVE LexOK(NumberMinus(l, c))
  OBVIOUS
<1> DEFINE new == [Add(l, <<c>>) EXCEPT !.type = "integer"]
<1>1. l.buffer = <<Minus>>
  BY DEF Shaped
<1>2. NumberMinus(l, c) = CASE c = 48 -> Goto(new, "zero")
                            [] c \in Digits \ {48} -> Goto(new, "any1")
                            [] OTHER -> Fail(l)
  BY DEF NumberMinus
<1>3. CASE c \in Digits
  <2>1. <<c>> \in Seq(Byte)
    BY <1>3, DigitsAreBytes, OneByte
  <2>2. Add(l, <<c>>) \in Lexers /\ Add(l, <<c>>).buffer = <<Minus>> \o <<c>>
    BY <1>1, <2>1, AddIn, AddKeeps
  <2>3. new \in Lexers /\ new.buffer = <<Minus>> \o <<c>> /\ new.type = "integer"
    BY <2>2 DEF Lexers
  <2>4. IntegerBytes("integer", <<Minus>> \o <<c>>)
    BY <1>3, IntegerBegins
  <2> HIDE DEF new
  <2>5. ASSUME NEW label \in {"zero", "any1"} PROVE LexOK(Goto(new, label))
    <3>1. PICK next : next = Goto(new, label)
      OBVIOUS
    <3>2. label \in LexerLabels
      BY DEF LexerLabels
    <3>3. next \in Lexers /\ next.at = label /\ next.buffer = <<Minus>> \o <<c>>
          /\ next.type = "integer"
      BY <2>3, <3>1, <3>2, GotoIn
    <3>4. IntegerBytes(next.type, next.buffer)
      BY <2>4, <3>3
    <3>5. LexOK(next)
      BY <3>3, <3>4 DEF LexOK, Shaped
    <3>6. QED BY <3>1, <3>5
  <2>6. NumberMinus(l, c) = Goto(new, "zero") \/ NumberMinus(l, c) = Goto(new, "any1")
    <3>1. CASE c = 48
      BY <1>2, <3>1
    <3>2. CASE c # 48
      BY <1>2, <1>3, <3>2
    <3>3. QED BY <3>1, <3>2
  <2>7. QED BY <2>5, <2>6
<1>4. CASE c \notin Digits
  <2>1. c # 48
    BY <1>4 DEF Digits
  <2>2. NumberMinus(l, c) = Fail(l)
    BY <1>2, <1>4, <2>1
  <2>3. QED BY <2>2, FailOK
<1>5. QED BY <1>3, <1>4

LEMMA NumberZeroOK ==
  ASSUME NEW l \in Lexers, IntegerBytes(l.type, l.buffer), NEW c \in Inputs
  PROVE  LexOK(NumberZero(l, c))
<1>1. CASE c = Dot
  <2>1. Dot \in Byte /\ "decimal1" \in Plainly /\ Dot \notin Ee
    BY DEF Dot, Byte, Plainly, Ee
  <2>2. NumberZero(l, c) = Taking(l, Dot, "decimal1")
    BY <1>1, <2>1 DEF NumberZero, Taking
  <2>3. QED BY <2>1, <2>2, TakingPlainly
<1>2. CASE c \in Ee
  <2>1. c \in Byte /\ "exponent" \in Plainly /\ c # Dot
    BY <1>2 DEF Dot, Byte, Plainly, Ee
  <2>2. NumberZero(l, c) = Taking(l, c, "exponent")
    BY <1>2, <2>1 DEF NumberZero, Taking
  <2>3. QED BY <2>1, <2>2, TakingPlainly
<1>3. CASE c # Dot /\ c \notin Ee
  <2>1. NumberZero(l, c) = NumberDone(l)
    BY <1>3 DEF NumberZero
  <2>2. QED BY <2>1, NumberDoneOK
<1>4. QED BY <1>1, <1>2, <1>3

\* A byte more, where the label knows enough for it.
LEMMA AddDigit ==
  ASSUME NEW l \in Lexers, NEW c \in Digits,
         \/ l.at \in {"decimal2", "any2"} /\ l.type = "float"
         \/ l.at = "any1" /\ IntegerBytes(l.type, l.buffer)
  PROVE  LexOK(Add(l, <<c>>))
<1>1. l.buffer \in Seq(Byte)
  BY DEF Lexers
<1>2. PICK new : new = Add(l, <<c>>) /\ new \in Lexers
                 /\ new = [l EXCEPT !.buffer = l.buffer \o <<c>>]
  BY DigitsAreBytes, OneByte, AddIn
<1>3. new.at = l.at /\ new.type = l.type /\ new.buffer = l.buffer \o <<c>>
  BY <1>2 DEF Lexers
<1>4. CASE l.at \in {"decimal2", "any2"} /\ l.type = "float"
  BY <1>2, <1>3, <1>4 DEF LexOK, Shaped
<1>5. CASE l.at = "any1" /\ IntegerBytes(l.type, l.buffer)
  <2>1. IntegerBytes(new.type, new.buffer)
    BY <1>1, <1>3, <1>5, IntegerGrows
  <2>2. LexOK(new)
    BY <1>2, <1>3, <1>5, <2>1 DEF LexOK, Shaped
  <2>3. QED BY <1>2, <2>2
<1>6. QED BY <1>4, <1>5

LEMMA DotAndE ==
  /\ Dot \in Byte /\ Dot \notin Ee /\ Dot \notin Digits /\ Ee \subseteq Byte
  /\ Ee \cap Digits = {} /\ {43, Minus} \subseteq Byte /\ {43, Minus} \cap Digits = {}
BY DEF Dot, Ee, Digits, Byte, Minus

LEMMA NumberAny1OK ==
  ASSUME NEW l \in Lexers, IntegerBytes(l.type, l.buffer), l.at = "any1", NEW c \in Inputs
  PROVE  LexOK(NumberAny1(l, c))
<1>1. CASE c \in Digits
  <2>1. c # Dot /\ c \notin Ee
    BY <1>1, DotAndE
  <2>2. NumberAny1(l, c) = Add(l, <<c>>)
    BY <1>1, <2>1 DEF NumberAny1
  <2>3. QED BY <1>1, <2>2, AddDigit
<1>2. CASE c = Dot
  <2>1. NumberAny1(l, c) = Taking(l, Dot, "decimal1")
    BY <1>2, DotAndE DEF NumberAny1, Taking
  <2>2. QED BY <2>1, DotAndE, TakingPlainly DEF Plainly
<1>3. CASE c \in Ee
  <2>1. c # Dot /\ c \notin Digits
    BY <1>3, DotAndE
  <2>2. NumberAny1(l, c) = Taking(l, c, "exponent")
    BY <1>3, <2>1 DEF NumberAny1, Taking
  <2>3. QED BY <1>3, <2>2, DotAndE, TakingPlainly DEF Plainly
<1>4. CASE c \notin Digits /\ c # Dot /\ c \notin Ee
  <2>1. NumberAny1(l, c) = NumberDone(l)
    BY <1>4 DEF NumberAny1
  <2>2. QED BY <2>1, NumberDoneOK
<1>5. QED BY <1>1, <1>2, <1>3, <1>4

LEMMA NumberDecimal1OK ==
  ASSUME NEW l \in Lexers, NEW c \in Inputs
  PROVE  LexOK(NumberDecimal1(l, c))
<1>1. CASE c \in Digits
  <2>1. NumberDecimal1(l, c) = Taking(Float1(l), c, "decimal2")
    BY <1>1 DEF NumberDecimal1, Taking
  <2>2. QED BY <1>1, <2>1, DigitsAreBytes, Float1OK, TakingFloat
<1>2. CASE c \notin Digits
  BY <1>2, FailOK DEF NumberDecimal1
<1>3. QED BY <1>1, <1>2

LEMMA NumberDecimal2OK ==
  ASSUME NEW l \in Lexers, l.at = "decimal2", l.type = "float", NEW c \in Inputs
  PROVE  LexOK(NumberDecimal2(l, c))
<1>1. CASE c \in Digits
  <2>1. NumberDecimal2(l, c) = Add(l, <<c>>)
    BY <1>1, DotAndE DEF NumberDecimal2
  <2>2. QED BY <1>1, <2>1, AddDigit
<1>2. CASE c \in Ee
  <2>1. NumberDecimal2(l, c) = Taking(l, c, "exponent")
    BY <1>2, DotAndE DEF NumberDecimal2, Taking
  <2>2. QED BY <1>2, <2>1, DotAndE, TakingPlainly DEF Plainly
<1>3. CASE c \notin Digits /\ c \notin Ee
  <2>1. NumberDecimal2(l, c) = NumberDone(l)
    BY <1>3 DEF NumberDecimal2
  <2>2. QED BY <2>1, NumberDoneOK
<1>4. QED BY <1>1, <1>2, <1>3

LEMMA NumberExponentOK ==
  ASSUME NEW l \in Lexers, NEW c \in Inputs
  PROVE  LexOK(NumberExponent(l, c))
<1>1. CASE c \in {43, Minus}
  <2>1. NumberExponent(l, c) = Taking(Float1(l), c, "sign")
    BY <1>1, DotAndE DEF NumberExponent, Taking
  <2>2. QED BY <1>1, <2>1, DotAndE, Float1OK, TakingFloat
<1>2. CASE c \in Digits
  <2>1. NumberExponent(l, c) = Taking(Float1(l), c, "any2")
    BY <1>2, DotAndE DEF NumberExponent, Taking
  <2>2. QED BY <1>2, <2>1, DigitsAreBytes, Float1OK, TakingFloat
<1>3. CASE c \notin {43, Minus} /\ c \notin Digits
  BY <1>3, FailOK DEF NumberExponent
<1>4. QED BY <1>1, <1>2, <1>3

LEMMA NumberSignOK ==
  ASSUME NEW l \in Lexers, l.type = "float", NEW c \in Inputs
  PROVE  LexOK(NumberSign(l, c))
<1>1. CASE c \in Digits
  <2>1. NumberSign(l, c) = Taking(l, c, "any2")
    BY <1>1 DEF NumberSign, Taking
  <2>2. QED BY <1>1, <2>1, DigitsAreBytes, TakingFloat
<1>2. CASE c \notin Digits
  BY <1>2, FailOK DEF NumberSign
<1>3. QED BY <1>1, <1>2

LEMMA NumberAny2OK ==
  ASSUME NEW l \in Lexers, l.at = "any2", l.type = "float", NEW c \in Inputs
  PROVE  LexOK(NumberAny2(l, c))
<1>1. CASE c \in Digits
  BY <1>1, AddDigit DEF NumberAny2
<1>2. CASE c \notin Digits
  BY <1>2, NumberDoneOK DEF NumberAny2
<1>3. QED BY <1>1, <1>2

-----------------------------------------------------------------------------
(* Literals and the scanner.                                               *)

LEMMA ScanLiteralOK ==
  ASSUME NEW l \in Lexers, Shaped(l), NEW c \in Inputs
  PROVE  l.at = "literal" => LexOK(ScanLiteral(l, c))
<1> SUFFICES ASSUME l.at = "literal" PROVE LexOK(ScanLiteral(l, c))
  OBVIOUS
<1>1. l.codepoint \in {116, 102, 110} /\ l.need \in Seq(Int)
  BY DEF Shaped
<1>2. CASE c # Head(l.need)
  BY <1>2, FailOK DEF ScanLiteral
<1>3. CASE c = Head(l.need) /\ Len(l.need) > 1
  <2>1. ScanLiteral(l, c) = [l EXCEPT !.need = Tail(@)]
    BY <1>3, Zenon DEF ScanLiteral
  <2>2. PICK need \in Seq(Int) : need = Tail(l.need)
    <3>1. Tail(l.need) \in Seq(Int)
      BY <1>1, <1>3
    <3>2. QED BY <3>1
  <2>3. PICK next : next = [l EXCEPT !.need = need]
    OBVIOUS
  <2>4. need \in Needs
    BY DEF Needs
  <2>5. next \in Lexers /\ next.at = "literal" /\ next.codepoint = l.codepoint /\ next.need = need
    BY <2>3, <2>4 DEF Lexers
  <2>6. LexOK(next)
    BY <1>1, <2>5 DEF LexOK, Shaped
  <2>7. ScanLiteral(l, c) = next
    BY <2>1, <2>2, <2>3
  <2>8. QED BY <2>6, <2>7
<1>4. CASE c = Head(l.need) /\ ~(Len(l.need) > 1)
  <2>1. \/ ScanLiteral(l, c) = Done(l, "literal_true", Boolean(TRUE))
        \/ ScanLiteral(l, c) = Done(l, "literal_false", Boolean(FALSE))
        \/ ScanLiteral(l, c) = Done(l, "literal_null", Null)
    <3>1. ScanLiteral(l, c) =
            CASE l.codepoint = 116 -> Done(l, "literal_true", Boolean(TRUE))
              [] l.codepoint = 102 -> Done(l, "literal_false", Boolean(FALSE))
              [] l.codepoint = 110 -> Done(l, "literal_null", Null)
      BY <1>4, Zenon DEF ScanLiteral
    <3>2. CASE l.codepoint = 116
      BY <3>1, <3>2
    <3>3. CASE l.codepoint = 102
      BY <3>1, <3>3
    <3>4. CASE l.codepoint = 110
      BY <3>1, <3>4
    <3>5. QED BY <1>1, <3>2, <3>3, <3>4
  <2>2. Boolean(TRUE) \in ScalarValues /\ Boolean(FALSE) \in ScalarValues /\ Null \in ScalarValues
    BY ScalarTypes
  <2>3. /\ Token("literal_true", Boolean(TRUE)) \in Tokens
        /\ Token("literal_false", Boolean(FALSE)) \in Tokens
        /\ Token("literal_null", Null) \in Tokens
    BY <2>2, TokenOK DEF Scalars
  <2>4. QED BY <2>1, <2>3, DoneOK
<1>5. QED BY <1>2, <1>3, <1>4

\* The first bytes of tokens are apart.
LEMMA FirstBytes ==
  /\ Space \cap DOMAIN Structural = {} /\ Space \cap DOMAIN Literals = {}
  /\ Quote \notin Space /\ Space \cap (Digits \cup {Minus}) = {} /\ Space \cap {0, EOF} = {}
  /\ DOMAIN Structural \cap DOMAIN Literals = {} /\ Quote \notin DOMAIN Structural
  /\ DOMAIN Structural \cap (Digits \cup {Minus}) = {} /\ DOMAIN Structural \cap {0, EOF} = {}
  /\ Quote \notin DOMAIN Literals /\ DOMAIN Literals \cap (Digits \cup {Minus}) = {}
  /\ DOMAIN Literals \cap {0, EOF} = {} /\ Quote \notin Digits \cup {Minus}
  /\ Quote \notin {0, EOF} /\ (Digits \cup {Minus}) \cap {0, EOF} = {}
<1>1. Space \cap DOMAIN Structural = {} /\ Space \cap DOMAIN Literals = {}
  BY DEF Space, Structural, Literals
<1>2. Quote \notin Space /\ Space \cap (Digits \cup {Minus}) = {} /\ Space \cap {0, EOF} = {}
  BY DEF Space, Quote, Digits, Minus, EOF
<1>3. DOMAIN Structural \cap DOMAIN Literals = {} /\ Quote \notin DOMAIN Structural
  BY DEF Structural, Literals, Quote
<1>4. DOMAIN Structural \cap (Digits \cup {Minus}) = {} /\ DOMAIN Structural \cap {0, EOF} = {}
  BY DEF Structural, Digits, Minus, EOF
<1>5. Quote \notin DOMAIN Literals /\ DOMAIN Literals \cap (Digits \cup {Minus}) = {}
  BY DEF Quote, Literals, Digits, Minus
<1>6. DOMAIN Literals \cap {0, EOF} = {} /\ Quote \notin Digits \cup {Minus}
  BY DEF Literals, EOF, Quote, Digits, Minus
<1>7. Quote \notin {0, EOF} /\ (Digits \cup {Minus}) \cap {0, EOF} = {}
  BY DEF Quote, EOF, Digits, Minus
<1>8. QED BY <1>1, <1>2, <1>3, <1>4, <1>5, <1>6, <1>7

LEMMA ScanTokenOK ==
  ASSUME NEW l \in Lexers, l.at = "scan", NEW c \in Inputs
  PROVE  LexOK(ScanToken(l, c))
<1>1. CASE c \in Space
  <2>1. ScanToken(l, c) = l
    BY <1>1, FirstBytes, Zenon DEF ScanToken
  <2>2. QED BY <2>1, PlainlyShaped DEF Plainly
<1>2. CASE c \in DOMAIN Structural
  <2>1. ScanToken(l, c) = Done(l, Structural[c], None)
    BY <1>2, FirstBytes, Zenon DEF ScanToken
  <2>2. Structural[c] \in Kinds \ (Scalars \cup {"value_float"})
    BY <1>2 DEF Structural, Kinds, Scalars
  <2>3. QED BY <2>1, <2>2, TokenOK, DoneOK
<1>3. CASE c \in DOMAIN Literals
  <2>1. ScanToken(l, c) = [Goto(l, "literal") EXCEPT !.need = Literals[c], !.codepoint = c]
    BY <1>3, FirstBytes, Zenon DEF ScanToken
  <2>2. c \in {116, 102, 110} /\ Literals[c] \in Seq(Int)
    BY <1>3 DEF Literals
  <2>3. PICK need \in Seq(Int) : need = Literals[c]
    BY <2>2
  <2>4. need \in Needs /\ c \in Nat /\ "literal" \in LexerLabels
    BY <2>2 DEF Needs, LexerLabels
  <2>5. PICK half : half = Needing(l, "literal", need)
    OBVIOUS
  <2>6. half \in Lexers /\ half.at = "literal" /\ half.need = need
    BY <2>4, <2>5, NeedOK
  <2>7. ScanToken(l, c) = [half EXCEPT !.codepoint = c]
    BY <2>1, <2>3, <2>5 DEF Needing
  <2>8. PICK next : next = [half EXCEPT !.codepoint = c]
    OBVIOUS
  <2>9. next \in Lexers /\ next.at = "literal" /\ next.need = need /\ next.codepoint = c
    BY <2>4, <2>6, <2>8 DEF Lexers
  <2>10. LexOK(next)
    BY <2>2, <2>9 DEF LexOK, Shaped
  <2>11. QED BY <2>7, <2>8, <2>10
<1>4. CASE c = Quote
  <2>1. ScanToken(l, c) = Goto(Reset(l), "string")
    BY <1>4, FirstBytes, Zenon DEF ScanToken
  <2>2. Reset(l) \in Lexers
    <3>1. <<>> \in Seq(Byte)
      OBVIOUS
    <3>2. QED BY <3>1 DEF Reset, Lexers
  <2>3. QED BY <2>1, <2>2, GotoOK DEF Plainly
<1>5. CASE c \in Digits \cup {Minus}
  <2>1. ScanToken(l, c) = NumberInit(l, c)
    BY <1>5, FirstBytes, Zenon DEF ScanToken
  <2>2. QED BY <1>5, <2>1, NumberInitOK
<1>6. CASE c \in {0, EOF}
  <2>1. ScanToken(l, c) = Done(l, "end_of_input", None)
    BY <1>6, FirstBytes, Zenon DEF ScanToken
  <2>2. "end_of_input" \in Kinds \ (Scalars \cup {"value_float"})
    BY DEF Kinds, Scalars
  <2>3. QED BY <2>1, <2>2, TokenOK, DoneOK
<1>7. CASE /\ c \notin Space /\ c \notin DOMAIN Structural /\ c \notin DOMAIN Literals
           /\ c # Quote /\ c \notin Digits \cup {Minus} /\ c \notin {0, EOF}
  <2>1. ScanToken(l, c) = Fail(l)
    BY <1>7, Zenon DEF ScanToken
  <2>2. QED BY <2>1, FailOK
<1>8. QED BY <1>1, <1>2, <1>3, <1>4, <1>5, <1>6, <1>7

LEMMA SkipBomOK ==
  ASSUME NEW l \in Lexers, NEW c \in Inputs
  PROVE  LexOK(SkipBom(l, c)) /\ LexOK(SkipBom2(l, c)) /\ LexOK(SkipBom3(l, c))
<1>1. LexOK(SkipBom(l, c))
  <2>1. CASE c = 239
    BY <2>1, GotoOK DEF SkipBom, Plainly
  <2>2. CASE c # 239
    <3>1. "scan" \in LexerLabels
      BY DEF LexerLabels
    <3>2. PICK new : new = Goto(l, "scan") /\ new \in Lexers /\ new.at = "scan"
      BY <3>1, GotoIn
    <3>3. QED BY <2>2, <3>2, ScanTokenOK DEF SkipBom
  <2>3. QED BY <2>1, <2>2
<1>2. LexOK(SkipBom2(l, c))
  <2>1. "bom3" \in Plainly
    BY DEF Plainly
  <2>2. QED BY <2>1, GotoOK, FailOK DEF SkipBom2
<1>3. LexOK(SkipBom3(l, c))
  <2>1. "scan" \in Plainly
    BY DEF Plainly
  <2>2. QED BY <2>1, GotoOK, FailOK DEF SkipBom3
<1>4. QED BY <1>1, <1>2, <1>3

\* Whatever byte the lexer reads, its state stays well-formed.
LEMMA ScanOK ==
  ASSUME NEW l, LexOK(l), l.at # "failed", NEW c \in Inputs
  PROVE  LexOK(Scan(l, c))
<1>1. l \in Lexers /\ Shaped(l)
  BY DEF LexOK
<1>2. l.at \in LexerLabels
  BY <1>1 DEF Lexers
<1>3. CASE l.at = "bom"
  <2>1. Scan(l, c) = SkipBom(l, c)
    BY <1>3 DEF Scan
  <2>2. QED BY <1>1, <2>1, SkipBomOK
<1>4. CASE l.at = "bom2"
  <2>1. Scan(l, c) = SkipBom2(l, c)
    BY <1>4 DEF Scan
  <2>2. QED BY <1>1, <2>1, SkipBomOK
<1>5. CASE l.at = "bom3"
  <2>1. Scan(l, c) = SkipBom3(l, c)
    BY <1>5 DEF Scan
  <2>2. QED BY <1>1, <2>1, SkipBomOK
<1>6. CASE l.at = "scan"
  <2>1. Scan(l, c) = ScanToken(l, c)
    BY <1>6 DEF Scan
  <2>2. QED BY <1>1, <1>6, <2>1, ScanTokenOK
<1>7. CASE l.at = "literal"
  <2>1. Scan(l, c) = ScanLiteral(l, c)
    BY <1>7 DEF Scan
  <2>2. QED BY <1>1, <1>7, <2>1, ScanLiteralOK
<1>8. CASE l.at = "string"
  <2>1. Scan(l, c) = ScanString(l, c)
    BY <1>8 DEF Scan
  <2>2. QED BY <1>1, <1>8, <2>1, ScanStringOK
<1>9. CASE l.at = "range"
  <2>1. Scan(l, c) = NextByteInRange(l, c)
    BY <1>9 DEF Scan
  <2>2. QED BY <1>1, <1>9, <2>1, NextByteInRangeOK
<1>10. CASE l.at = "escape"
  <2>1. Scan(l, c) = ScanEscape(l, c)
    BY <1>10 DEF Scan
  <2>2. QED BY <1>1, <2>1, ScanEscapeOK
<1>11. CASE l.at = "hex"
  <2>1. Scan(l, c) = GetCodepoint(l, c)
    BY <1>11 DEF Scan
  <2>2. QED BY <1>1, <1>11, <2>1, GetCodepointOK
<1>12. CASE l.at = "surrogate"
  <2>1. Scan(l, c) = ScanSurrogate(l, c)
    BY <1>12 DEF Scan
  <2>2. QED BY <1>1, <1>12, <2>1, SurrogatesOK
<1>13. CASE l.at = "surrogate u"
  <2>1. Scan(l, c) = ScanSurrogateU(l, c)
    BY <1>13 DEF Scan
  <2>2. QED BY <1>1, <1>13, <2>1, SurrogatesOK
<1>14. CASE l.at = "minus"
  <2>1. Scan(l, c) = NumberMinus(l, c)
    BY <1>14 DEF Scan
  <2>2. QED BY <1>1, <1>14, <2>1, NumberMinusOK
<1>15. CASE l.at = "zero"
  <2>1. Scan(l, c) = NumberZero(l, c)
    BY <1>15 DEF Scan
  <2>2. IntegerBytes(l.type, l.buffer)
    BY <1>1, <1>15 DEF Shaped
  <2>3. QED BY <1>1, <2>1, <2>2, NumberZeroOK
<1>16. CASE l.at = "any1"
  <2>1. Scan(l, c) = NumberAny1(l, c)
    BY <1>16 DEF Scan
  <2>2. IntegerBytes(l.type, l.buffer)
    BY <1>1, <1>16 DEF Shaped
  <2>3. QED BY <1>1, <1>16, <2>1, <2>2, NumberAny1OK
<1>17. CASE l.at = "decimal1"
  <2>1. Scan(l, c) = NumberDecimal1(l, c)
    BY <1>17 DEF Scan
  <2>2. QED BY <1>1, <2>1, NumberDecimal1OK
<1>18. CASE l.at = "decimal2"
  <2>1. Scan(l, c) = NumberDecimal2(l, c)
    BY <1>18 DEF Scan
  <2>2. l.type = "float"
    BY <1>1, <1>18 DEF Shaped
  <2>3. QED BY <1>1, <1>18, <2>1, <2>2, NumberDecimal2OK
<1>19. CASE l.at = "exponent"
  <2>1. Scan(l, c) = NumberExponent(l, c)
    BY <1>19 DEF Scan
  <2>2. QED BY <1>1, <2>1, NumberExponentOK
<1>20. CASE l.at = "sign"
  <2>1. Scan(l, c) = NumberSign(l, c)
    BY <1>20 DEF Scan
  <2>2. l.type = "float"
    BY <1>1, <1>20 DEF Shaped
  <2>3. QED BY <1>1, <2>1, <2>2, NumberSignOK
<1>21. CASE l.at = "any2"
  <2>1. Scan(l, c) = NumberAny2(l, c)
    BY <1>21 DEF Scan
  <2>2. l.type = "float"
    BY <1>1, <1>21 DEF Shaped
  <2>3. QED BY <1>1, <1>21, <2>1, <2>2, NumberAny2OK
<1>22. QED
  BY <1>2, <1>3, <1>4, <1>5, <1>6, <1>7, <1>8, <1>9, <1>10, <1>11, <1>12, <1>13, <1>14, <1>15,
     <1>16, <1>17, <1>18, <1>19, <1>20, <1>21 DEF LexerLabels

-----------------------------------------------------------------------------
(* The parser.                                                             *)

ParserLabels ==
  {"value", "first key", "first colon", "first element", "array", "object", "key", "colon",
   "end", "accepted", "error"}

\* A container under construction has its parts in W.
Frames(W) == [node : Containers(W), key : Seq(Byte)]
Parsers(W) ==
  [l : Lexers, at : ParserLabels, states : Seq({"array", "object"}), refs : Seq(Frames(W)),
   root : W]

\* Every enclosing state has its container.
Stacked(p) ==
  /\ Len(p.states) <= Len(p.refs)
  /\ p.at \in {"first key", "first colon", "first element"} => Len(p.states) < Len(p.refs)
  /\ p.at \in {"array", "object", "key"} => Len(p.states) > 0

\* The parser, until it stops.
ParserOK(p) == \E W : Closed(W) /\ p \in Parsers(W) /\ Stacked(p)

LEMMA MoreParts ==
  ASSUME NEW W, NEW V, W \subseteq V
  PROVE  /\ Containers(W) \subseteq Containers(V)
         /\ Frames(W) \subseteq Frames(V) /\ Seq(Frames(W)) \subseteq Seq(Frames(V))
<1>1. ArraysOf(W) \subseteq ArraysOf(V)
  <2>1. Seq(W) \subseteq Seq(V)
    OBVIOUS
  <2>2. QED BY <2>1 DEF ArraysOf
<1>2. ObjectsOf(W) \subseteq ObjectsOf(V)
  <2>1. \A K : [K -> W] \subseteq [K -> V]
    OBVIOUS
  <2>2. QED BY <2>1 DEF ObjectsOf
<1>3. Containers(W) \subseteq Containers(V)
  BY <1>1, <1>2 DEF Containers
<1>4. Frames(W) \subseteq Frames(V)
  BY <1>3 DEF Frames
<1>5. Seq(Frames(W)) \subseteq Seq(Frames(V))
  BY <1>4
<1>6. QED BY <1>3, <1>4, <1>5

\* A complete container is a value.
LEMMA ContainerJoins ==
  ASSUME NEW W, Closed(W), NEW node \in Containers(W)
  PROVE  Closed(W \cup {node}) /\ W \subseteq W \cup {node}
<1>1. Containers(W) \subseteq Containers(W \cup {node})
  BY MoreParts
<1>2. QED BY <1>1 DEF Closed

\* The elements of a list and the members of an object.
LEMMA ContainerParts ==
  ASSUME NEW W, NEW node \in Containers(W)
  PROVE  \/ /\ node = Array(node.items) /\ node.items \in Seq(W) /\ node.type = "array"
         \/ /\ node = Object(node.map) /\ node.type = "object"
            /\ IsFiniteSet(DOMAIN node.map) /\ DOMAIN node.map \subseteq Seq(Byte)
            /\ node.map \in [DOMAIN node.map -> W]
<1>1. CASE node \in ArraysOf(W)
  <2>1. PICK items \in Seq(W) : node = Array(items)
    BY <1>1 DEF ArraysOf
  <2>2. QED BY <2>1 DEF Array
<1>2. CASE node \in ObjectsOf(W)
  <2>1. PICK K \in KeySets : \E map \in [K -> W] : node = Object(map)
    BY <1>2 DEF ObjectsOf
  <2>2. PICK map \in [K -> W] : node = Object(map)
    BY <2>1
  <2>3. node.map = map /\ node.type = "object" /\ DOMAIN map = K
    BY <2>2 DEF Object
  <2>4. IsFiniteSet(K) /\ K \subseteq Seq(Byte)
    BY DEF KeySets
  <2>5. QED BY <2>2, <2>3, <2>4
<1>3. QED BY <1>1, <1>2 DEF Containers

LEMMA ObjectIsContainer ==
  ASSUME NEW W, NEW map, IsFiniteSet(DOMAIN map), DOMAIN map \subseteq Seq(Byte),
         map \in [DOMAIN map -> W]
  PROVE  Object(map) \in Containers(W)
<1>1. DOMAIN map \in KeySets
  BY DEF KeySets
<1>2. Object(map) \in ObjectsOf(W)
  BY <1>1 DEF ObjectsOf
<1>3. QED BY <1>2 DEF Containers

LEMMA ArrayIsContainer ==
  ASSUME NEW W, NEW items \in Seq(W)
  PROVE  Array(items) \in Containers(W)
BY DEF Containers, ArraysOf

LEMMA AppendItem ==
  ASSUME NEW W, NEW node \in Containers(W), node.type = "array", NEW v \in W
  PROVE  [node EXCEPT !.items = Append(@, v)] \in Containers(W)
<1>1. node = Array(node.items) /\ node.items \in Seq(W)
  BY ContainerParts
<1>2. PICK items \in Seq(W) : items = node.items
  BY <1>1
<1>3. [node EXCEPT !.items = Append(@, v)] = Array(Append(items, v))
  <2>1. node = [type |-> "array", items |-> items]
    BY <1>1, <1>2 DEF Array
  <2>2. PICK more : more = Append(items, v)
    OBVIOUS
  <2>3. [node EXCEPT !.items = more] = [type |-> "array", items |-> more]
    BY <2>1
  <2>4. QED BY <1>2, <2>2, <2>3 DEF Array
<1>4. Append(items, v) \in Seq(W)
  OBVIOUS
<1>5. QED BY <1>3, <1>4, ArrayIsContainer

LEMMA PutMember ==
  ASSUME NEW W, NEW node \in Containers(W), node.type = "object", NEW key \in Seq(Byte), NEW v \in W
  PROVE  [node EXCEPT !.map = With(@, key, v)] \in Containers(W)
<1>1. /\ node = Object(node.map) /\ IsFiniteSet(DOMAIN node.map)
      /\ DOMAIN node.map \subseteq Seq(Byte) /\ node.map \in [DOMAIN node.map -> W]
  BY ContainerParts
<1>2. PICK map : map = node.map
  OBVIOUS
<1>3. [node EXCEPT !.map = With(@, key, v)] = Object(With(map, key, v))
  BY <1>1, <1>2 DEF Object
<1>4. DOMAIN With(map, key, v) = DOMAIN map \cup {key}
  BY DEF With
<1>5. With(map, key, v) \in [DOMAIN With(map, key, v) -> W]
  BY <1>1, <1>2 DEF With
<1>6. IsFiniteSet(DOMAIN map \cup {key})
  BY <1>1, <1>2, FS_AddElement
<1>7. DOMAIN map \cup {key} \subseteq Seq(Byte)
  BY <1>1, <1>2
<1>8. QED BY <1>3, <1>4, <1>5, <1>6, <1>7, ObjectIsContainer

\* A field that a list does not have cannot be set.
LEMMA NoMapSet ==
  ASSUME NEW W, NEW node \in Containers(W), node.type # "object", NEW map
  PROVE  [node EXCEPT !.map = map] = node
<1>1. node = Array(node.items)
  BY ContainerParts
<1>2. PICK items : items = node.items
  OBVIOUS
<1>3. node = [type |-> "array", items |-> items]
  BY <1>1, <1>2 DEF Array
<1>4. QED BY <1>3

\* The last container under construction.
LEMMA TopOf ==
  ASSUME NEW W, NEW p \in Parsers(W), Len(p.refs) > 0
  PROVE  /\ Len(p.refs) \in 1..Len(p.refs) /\ Len(p.refs) \in Nat
         /\ Last(p.refs) = p.refs[Len(p.refs)]
         /\ p.refs[Len(p.refs)] \in Frames(W)
         /\ Last(p.refs).node \in Containers(W) /\ Last(p.refs).key \in Seq(Byte)
<1>1. p.refs \in Seq(Frames(W))
  BY DEF Parsers
<1>2. Len(p.refs) \in 1..Len(p.refs) /\ Len(p.refs) \in Nat
  BY <1>1
<1>3. p.refs[Len(p.refs)] \in Frames(W)
  BY <1>1, <1>2
<1>4. Last(p.refs) = p.refs[Len(p.refs)]
  BY DEF Last
<1>5. QED BY <1>2, <1>3, <1>4 DEF Frames

\* Another last container.
LEMMA TopChanged ==
  ASSUME NEW W, NEW p \in Parsers(W), Len(p.refs) > 0, NEW frame \in Frames(W)
  PROVE  LET q == [p EXCEPT !.refs = [@ EXCEPT ![Len(p.refs)] = frame]]
         IN /\ q \in Parsers(W) /\ Len(q.refs) = Len(p.refs)
            /\ q.l = p.l /\ q.at = p.at /\ q.states = p.states
<1> DEFINE refs == [p.refs EXCEPT ![Len(p.refs)] = frame]
           q == [p EXCEPT !.refs = [@ EXCEPT ![Len(p.refs)] = frame]]
<1>1. p.refs \in Seq(Frames(W))
  BY DEF Parsers
<1>2. refs \in Seq(Frames(W)) /\ Len(refs) = Len(p.refs)
  BY <1>1
<1>3. q = [p EXCEPT !.refs = refs]
  OBVIOUS
<1> HIDE DEF refs
<1>4. QED BY <1>2, <1>3 DEF Parsers

LEMMA HandleValueOK ==
  ASSUME NEW W, NEW p \in Parsers(W), NEW v \in W
  PROVE  /\ HandleValue(p, v) \in Parsers(W)
         /\ HandleValue(p, v).l = p.l /\ HandleValue(p, v).at = p.at
         /\ HandleValue(p, v).states = p.states
         /\ Len(HandleValue(p, v).refs) = Len(p.refs)
<1>1. CASE p.refs = <<>>
  <2>1. HandleValue(p, v) = [p EXCEPT !.root = v]
    BY <1>1 DEF HandleValue
  <2>2. QED BY <2>1 DEF Parsers
<1>2. CASE p.refs # <<>>
  <2>1. Len(p.refs) > 0
    BY <1>2 DEF Parsers
  <2>2. PICK n, top : n = Len(p.refs) /\ top = p.refs[n]
    OBVIOUS
  <2>3. /\ top = Last(p.refs) /\ top \in Frames(W) /\ top.node \in Containers(W)
        /\ n \in DOMAIN p.refs
    BY <2>1, <2>2, TopOf DEF Parsers
  <2>4. CASE top.node.type = "array"
    <3>1. HandleValue(p, v) = [p EXCEPT !.refs[n].node.items = Append(@, v)]
      BY <1>2, <2>2, <2>3, <2>4 DEF HandleValue
    <3>2. PICK node : node = [top.node EXCEPT !.items = Append(@, v)]
      OBVIOUS
    <3>3. node \in Containers(W)
      BY <2>3, <2>4, <3>2, AppendItem
    <3>4. PICK frame : frame = [top EXCEPT !.node = node]
      OBVIOUS
    <3>5. frame \in Frames(W)
      BY <2>3, <3>3, <3>4 DEF Frames
    <3>6. HandleValue(p, v) = [p EXCEPT !.refs = [@ EXCEPT ![n] = frame]]
      BY <2>2, <2>3, <3>1, <3>2, <3>4
    <3>7. QED BY <2>1, <2>2, <3>5, <3>6, TopChanged
  <2>5. CASE top.node.type # "array"
    <3>1. HandleValue(p, v) = [p EXCEPT !.refs[n].node.map = With(@, top.key, v)]
      BY <1>2, <2>2, <2>3, <2>5 DEF HandleValue
    <3>2. PICK node : node = [top.node EXCEPT !.map = With(@, top.key, v)]
      OBVIOUS
    <3>3. top.node.type = "object" /\ top.key \in Seq(Byte)
      BY <2>1, <2>3, <2>5, ContainerParts, TopOf
    <3>4. node \in Containers(W)
      BY <2>3, <3>2, <3>3, PutMember
    <3>5. PICK frame : frame = [top EXCEPT !.node = node]
      OBVIOUS
    <3>6. frame \in Frames(W)
      BY <2>3, <3>4, <3>5 DEF Frames
    <3>7. HandleValue(p, v) = [p EXCEPT !.refs = [@ EXCEPT ![n] = frame]]
      BY <2>2, <2>3, <3>1, <3>2, <3>5
    <3>8. QED BY <2>1, <2>2, <3>6, <3>7, TopChanged
  <2>6. QED BY <2>4, <2>5
<1>3. QED BY <1>1, <1>2

\* What an operation of the parser keeps.
Kept(W, p, q) == q \in Parsers(W) /\ q.l = p.l /\ q.at = p.at /\ q.states = p.states

LEMMA StartContainerOK ==
  ASSUME NEW W, NEW p \in Parsers(W), NEW node \in Containers(W)
  PROVE  Kept(W, p, StartContainer(p, node)) /\ Len(StartContainer(p, node).refs) = Len(p.refs) + 1
<1>1. <<>> \in Seq(Byte)
  OBVIOUS
<1>2. PICK frame : frame = [node |-> node, key |-> <<>>]
  OBVIOUS
<1>3. frame \in Frames(W)
  BY <1>1, <1>2 DEF Frames
<1>4. p.refs \in Seq(Frames(W))
  BY DEF Parsers
<1>5. PICK refs : refs = Append(p.refs, frame)
  OBVIOUS
<1>6. refs \in Seq(Frames(W)) /\ Len(refs) = Len(p.refs) + 1
  BY <1>3, <1>4, <1>5
<1>7. StartContainer(p, node) = [p EXCEPT !.refs = refs]
  BY <1>2, <1>5 DEF StartContainer
<1>8. QED BY <1>6, <1>7 DEF Parsers, Kept

LEMMA EmptyContainers ==
  ASSUME NEW W
  PROVE  Object(EmptyMap) \in Containers(W) /\ Array(<<>>) \in Containers(W)
<1>1. DOMAIN EmptyMap = {} /\ EmptyMap \in [DOMAIN EmptyMap -> W]
  BY DEF EmptyMap
<1>2. IsFiniteSet({})
  BY FS_EmptySet
<1>3. Object(EmptyMap) \in Containers(W)
  BY <1>1, <1>2, ObjectIsContainer
<1>4. <<>> \in Seq(W)
  OBVIOUS
<1>5. QED BY <1>3, <1>4, ArrayIsContainer

LEMMA KeyOK ==
  ASSUME NEW W, Null \in W, NEW p \in Parsers(W), Len(p.refs) > 0, NEW key \in Seq(Byte)
  PROVE  Kept(W, p, Key(p, key)) /\ Len(Key(p, key).refs) = Len(p.refs)
<1>1. PICK n, top : n = Len(p.refs) /\ top = p.refs[n]
  OBVIOUS
<1>2. /\ top = Last(p.refs) /\ top \in Frames(W) /\ top.node \in Containers(W)
      /\ n \in DOMAIN p.refs
  BY <1>1, TopOf DEF Parsers
<1>3. PICK map : map = IF key \in DOMAIN top.node.map THEN top.node.map
                       ELSE With(top.node.map, key, Null)
  OBVIOUS
<1>4. Key(p, key) = [p EXCEPT !.refs[n].key = key, !.refs[n].node.map = map]
  BY <1>1, <1>2, <1>3 DEF Key
<1>5. PICK node : node = [top.node EXCEPT !.map = map]
  OBVIOUS
<1>6. node \in Containers(W)
  <2>1. CASE top.node.type # "object"
    BY <1>2, <1>5, <2>1, NoMapSet
  <2>2. CASE top.node.type = "object" /\ key \in DOMAIN top.node.map
    <3>1. top.node = Object(top.node.map)
      BY <1>2, <2>2, ContainerParts
    <3>2. node = [top.node EXCEPT !.map = top.node.map]
      BY <1>3, <1>5, <2>2
    <3>3. node = top.node
      BY <3>1, <3>2 DEF Object
    <3>4. QED BY <1>2, <3>3
  <2>3. CASE top.node.type = "object" /\ key \notin DOMAIN top.node.map
    <3>1. node = [top.node EXCEPT !.map = With(@, key, Null)]
      BY <1>3, <1>5, <2>3
    <3>2. QED BY <1>2, <2>3, <3>1, PutMember
  <2>4. QED BY <2>1, <2>2, <2>3
<1>7. PICK frame : frame = [top EXCEPT !.key = key, !.node = node]
  OBVIOUS
<1>8. frame \in Frames(W)
  BY <1>2, <1>6, <1>7 DEF Frames
<1>9. Key(p, key) = [p EXCEPT !.refs = [@ EXCEPT ![n] = frame]]
  BY <1>1, <1>2, <1>4, <1>5, <1>7, ZenonT(30) DEF Frames
<1>10. QED BY <1>1, <1>8, <1>9, TopChanged DEF Kept

\* The container that ends becomes a value.
LEMMA EndContainerOK ==
  ASSUME NEW W, Closed(W), NEW p \in Parsers(W), Len(p.refs) > 0
  PROVE  \E V : /\ Closed(V) /\ Kept(V, p, EndContainer(p))
                /\ Len(EndContainer(p).refs) = Len(p.refs) - 1
<1>1. PICK node : node = Last(p.refs).node /\ node \in Containers(W)
  BY TopOf
<1> DEFINE V == W \cup {node}
<1>2. Closed(V) /\ W \subseteq V /\ node \in V
  BY <1>1, ContainerJoins
<1> HIDE DEF V
<1>3. PICK refs : refs = Front(p.refs)
  OBVIOUS
<1>4. p.refs \in Seq(Frames(W))
  BY DEF Parsers
<1>5. refs \in Seq(Frames(W)) /\ Len(refs) = Len(p.refs) - 1
  BY <1>3, <1>4 DEF Front
<1>6. refs \in Seq(Frames(V))
  BY <1>2, <1>5, MoreParts
<1>7. PICK q : q = [p EXCEPT !.refs = refs]
  OBVIOUS
<1>8. q \in Parsers(V) /\ q.l = p.l /\ q.at = p.at /\ q.states = p.states /\ q.refs = refs
  BY <1>2, <1>6, <1>7 DEF Parsers
<1>9. EndContainer(p) = HandleValue(q, node)
  BY <1>1, <1>3, <1>7 DEF EndContainer
<1>10. Kept(V, p, EndContainer(p)) /\ Len(EndContainer(p).refs) = Len(refs)
  BY <1>2, <1>8, <1>9, HandleValueOK DEF Kept
<1>11. QED BY <1>2, <1>5, <1>10

\* Another label.
At(p, label) == [p EXCEPT !.at = label]

LEMMA AtOK ==
  ASSUME NEW W, NEW p \in Parsers(W), NEW label \in ParserLabels
  PROVE  /\ At(p, label) \in Parsers(W) /\ At(p, label).at = label /\ At(p, label).l = p.l
         /\ At(p, label).states = p.states /\ At(p, label).refs = p.refs
BY DEF At, Parsers

LEMMA MovesTo ==
  ASSUME NEW W, Closed(W), NEW p \in Parsers(W), NEW label \in ParserLabels,
         Len(p.states) <= Len(p.refs),
         label \in {"first key", "first colon", "first element"} => Len(p.states) < Len(p.refs),
         label \in {"array", "object", "key"} => Len(p.states) > 0
  PROVE  ParserOK(At(p, label)) /\ At(p, label).l = p.l
<1>1. PICK q : q = At(p, label)
  OBVIOUS
<1>2. q \in Parsers(W) /\ q.at = label /\ q.l = p.l /\ q.states = p.states /\ q.refs = p.refs
  BY <1>1, AtOK
<1>3. Stacked(q)
  BY <1>2 DEF Stacked
<1>4. QED BY <1>1, <1>2, <1>3 DEF ParserOK

LEMMA ParseErrorOK ==
  ASSUME NEW W, Closed(W), NEW p \in Parsers(W), Len(p.states) <= Len(p.refs)
  PROVE  ParserOK(ParseError(p)) /\ ParseError(p).l = p.l
<1>1. "error" \in ParserLabels
  BY DEF ParserLabels
<1>2. QED BY <1>1, MovesTo DEF ParseError, At

LEMMA AfterValueOK ==
  ASSUME NEW W, Closed(W), NEW p \in Parsers(W), Len(p.states) <= Len(p.refs)
  PROVE  ParserOK(AfterValue(p)) /\ AfterValue(p).l = p.l
<1>1. PICK label : label = IF p.states = <<>> THEN "end"
                           ELSE IF Last(p.states) = "array" THEN "array" ELSE "object"
  OBVIOUS
<1>2. AfterValue(p) = At(p, label)
  BY <1>1 DEF AfterValue, At
<1>3. label \in ParserLabels /\ label \notin {"first key", "first colon", "first element"}
  BY <1>1 DEF ParserLabels
<1>4. label \in {"array", "object", "key"} => Len(p.states) > 0
  <2>1. CASE p.states = <<>>
    BY <1>1, <2>1
  <2>2. CASE p.states # <<>>
    BY <2>2 DEF Parsers
  <2>3. QED BY <2>1, <2>2
<1>5. QED BY <1>2, <1>3, <1>4, MovesTo

LEMMA TokenParts ==
  ASSUME NEW t \in Tokens
  PROVE  /\ t.kind \in Scalars \cup {"value_float"} => t.value \in ScalarValues
         /\ t.kind = "value_string" => t.value.text \in Seq(Byte)
<1>1. ASSUME t.kind = "value_string" PROVE t.value.text \in Seq(Byte)
  <2>1. PICK s \in Seq(Byte) : t.value = Text(s)
    BY <1>1 DEF Tokens
  <2>2. QED BY <2>1 DEF Text
<1>2. QED BY <1>1 DEF Tokens

\* A parser between two operations.
Between(W, p) == Closed(W) /\ p \in Parsers(W) /\ Len(p.states) <= Len(p.refs)

LEMMA OneMore ==
  ASSUME NEW m \in Nat, NEW n \in Nat, m <= n
  PROVE  m < n + 1 /\ m <= n + 1
OBVIOUS

LEMMA ParseValueOK ==
  ASSUME NEW W, NEW p, Between(W, p), NEW t \in Tokens
  PROVE  ParserOK(ParseValue(p, t)) /\ ParseValue(p, t).l = p.l
<1>1. Closed(W) /\ p \in Parsers(W) /\ Len(p.states) <= Len(p.refs)
  BY DEF Between
<1>2. Len(p.states) \in Nat /\ Len(p.refs) \in Nat
  BY <1>1 DEF Parsers
<1>3. ParserOK(ParseError(p)) /\ ParseError(p).l = p.l
  BY <1>1, ParseErrorOK
<1>4. ASSUME NEW node \in Containers(W), NEW label \in {"first key", "first element"}
      PROVE  /\ ParserOK(At(StartContainer(p, node), label))
             /\ At(StartContainer(p, node), label).l = p.l
  <2>1. PICK q : q = StartContainer(p, node)
    OBVIOUS
  <2>2. q \in Parsers(W) /\ q.l = p.l /\ q.states = p.states /\ Len(q.refs) = Len(p.refs) + 1
    BY <1>1, <2>1, StartContainerOK DEF Kept
  <2>3. label \in ParserLabels /\ label \notin {"array", "object", "key"}
    BY DEF ParserLabels
  <2>4. Len(q.states) < Len(q.refs) /\ Len(q.states) <= Len(q.refs)
    BY <1>1, <1>2, <2>2, OneMore, Zenon
  <2>5. QED BY <1>1, <2>1, <2>2, <2>3, <2>4, MovesTo
<1>5. ASSUME t.value \in ScalarValues
      PROVE  /\ ParserOK(AfterValue(HandleValue(p, t.value)))
             /\ AfterValue(HandleValue(p, t.value)).l = p.l
  <2>1. t.value \in W
    BY <1>1, <1>5 DEF Closed
  <2>2. PICK q : q = HandleValue(p, t.value)
    OBVIOUS
  <2>3. q \in Parsers(W) /\ q.l = p.l /\ q.states = p.states /\ Len(q.refs) = Len(p.refs)
    BY <1>1, <2>1, <2>2, HandleValueOK
  <2>4. QED BY <1>1, <2>2, <2>3, AfterValueOK
<1>6. CASE t.kind = "begin_object"
  <2>1. ParseValue(p, t) = At(StartContainer(p, Object(EmptyMap)), "first key")
    BY <1>6 DEF ParseValue, Scalars, At
  <2>2. PICK node : node = Object(EmptyMap)
    OBVIOUS
  <2>3. node \in Containers(W)
    BY <2>2, EmptyContainers
  <2>4. /\ ParserOK(At(StartContainer(p, node), "first key"))
        /\ At(StartContainer(p, node), "first key").l = p.l
    BY <1>4, <2>3
  <2>5. ParseValue(p, t) = At(StartContainer(p, node), "first key")
    BY <2>1, <2>2
  <2>6. QED BY <2>4, <2>5
<1>7. CASE t.kind = "begin_array"
  <2>1. ParseValue(p, t) = At(StartContainer(p, Array(<<>>)), "first element")
    BY <1>7 DEF ParseValue, Scalars, At
  <2>2. PICK node : node = Array(<<>>)
    OBVIOUS
  <2>3. node \in Containers(W)
    BY <2>2, EmptyContainers
  <2>4. /\ ParserOK(At(StartContainer(p, node), "first element"))
        /\ At(StartContainer(p, node), "first element").l = p.l
    BY <1>4, <2>3
  <2>5. ParseValue(p, t) = At(StartContainer(p, node), "first element")
    BY <2>1, <2>2
  <2>6. QED BY <2>4, <2>5
<1>8. CASE t.kind \in Scalars
  <2>1. ParseValue(p, t) = AfterValue(HandleValue(p, t.value))
    BY <1>8 DEF ParseValue, Scalars
  <2>2. QED BY <1>5, <1>8, <2>1, TokenParts
<1>9. CASE t.kind = "value_float"
  <2>1. ParseValue(p, t) = IF IsFinite(t.value) THEN AfterValue(HandleValue(p, t.value))
                           ELSE ParseError(p)
    BY <1>9 DEF ParseValue, Scalars
  <2>2. QED BY <1>3, <1>5, <1>9, <2>1, TokenParts
<1>10. CASE t.kind \notin Scalars \cup {"begin_object", "begin_array", "value_float"}
  <2>1. ParseValue(p, t) = ParseError(p)
    BY <1>10 DEF ParseValue
  <2>2. QED BY <1>3, <2>1
<1>11. QED BY <1>6, <1>7, <1>8, <1>9, <1>10

\* The container that ends, after the state it was in.
LEMMA EndsOK ==
  ASSUME NEW W, NEW p, Between(W, p)
  PROVE  /\ Len(p.states) < Len(p.refs) =>
              ParserOK(AfterValue(EndContainer(p))) /\ AfterValue(EndContainer(p)).l = p.l
         /\ Len(p.states) > 0 => ParserOK(Leave(p)) /\ Leave(p).l = p.l
<1>1. Closed(W) /\ p \in Parsers(W) /\ Len(p.states) <= Len(p.refs)
  BY DEF Between
<1>2. Len(p.states) \in Nat /\ Len(p.refs) \in Nat /\ p.states \in Seq({"array", "object"})
  BY <1>1 DEF Parsers
<1>3. ASSUME Len(p.states) < Len(p.refs)
      PROVE  ParserOK(AfterValue(EndContainer(p))) /\ AfterValue(EndContainer(p)).l = p.l
  <2>1. Len(p.refs) > 0
    BY <1>2, <1>3
  <2>2. PICK q : q = EndContainer(p)
    OBVIOUS
  <2>3. PICK V : Closed(V) /\ Kept(V, p, q) /\ Len(q.refs) = Len(p.refs) - 1
    BY <1>1, <2>1, <2>2, EndContainerOK
  <2>4. q \in Parsers(V) /\ q.l = p.l /\ Len(q.states) <= Len(q.refs)
    BY <1>2, <1>3, <2>3 DEF Kept
  <2>5. QED BY <2>2, <2>3, <2>4, AfterValueOK
<1>4. ASSUME Len(p.states) > 0 PROVE ParserOK(Leave(p)) /\ Leave(p).l = p.l
  <2>1. Len(p.refs) > 0
    BY <1>1, <1>2, <1>4
  <2>2. PICK q : q = EndContainer(p)
    OBVIOUS
  <2>3. PICK V : Closed(V) /\ Kept(V, p, q) /\ Len(q.refs) = Len(p.refs) - 1
    BY <1>1, <2>1, <2>2, EndContainerOK
  <2>4. q \in Parsers(V) /\ q.l = p.l /\ q.states = p.states
    BY <2>3 DEF Kept
  <2>5. PICK states : states = Front(p.states)
    OBVIOUS
  <2>6. states \in Seq({"array", "object"}) /\ Len(states) = Len(p.states) - 1
    BY <1>2, <1>4, <2>5 DEF Front
  <2>7. PICK r : r = [q EXCEPT !.states = states]
    OBVIOUS
  <2>8. r \in Parsers(V) /\ r.l = p.l /\ r.states = states /\ r.refs = q.refs
    BY <2>4, <2>6, <2>7 DEF Parsers
  <2>9. Leave(p) = AfterValue(r)
    BY <2>2, <2>4, <2>5, <2>7 DEF Leave
  <2>10. Len(r.states) <= Len(r.refs)
    BY <1>1, <1>2, <2>3, <2>6, <2>8
  <2>11. QED BY <2>3, <2>8, <2>9, <2>10, AfterValueOK
<1>5. QED BY <1>3, <1>4

\* A key, and a label after it.
LEMMA KeyThen ==
  ASSUME NEW W, NEW p, Between(W, p), Len(p.refs) > 0, NEW key \in Seq(Byte),
         NEW label \in {"first colon", "colon"},
         label = "first colon" => Len(p.states) < Len(p.refs)
  PROVE  ParserOK(At(Key(p, key), label)) /\ At(Key(p, key), label).l = p.l
<1>1. Closed(W) /\ p \in Parsers(W) /\ Len(p.states) <= Len(p.refs)
  BY DEF Between
<1>2. Null \in W
  BY <1>1, ScalarTypes DEF Closed
<1>3. PICK q : q = Key(p, key)
  OBVIOUS
<1>4. q \in Parsers(W) /\ q.l = p.l /\ q.states = p.states /\ Len(q.refs) = Len(p.refs)
  BY <1>1, <1>2, <1>3, KeyOK DEF Kept
<1>5. label \in ParserLabels /\ label \notin {"array", "object", "key"}
      /\ (label \in {"first key", "first colon", "first element"} => Len(p.states) < Len(p.refs))
  BY DEF ParserLabels
<1>6. QED BY <1>1, <1>3, <1>4, <1>5, MovesTo

\* A state more on the stack.
Entering(p, state) == [p EXCEPT !.states = Append(@, state)]

LEMMA EntersOK ==
  ASSUME NEW W, NEW p, Between(W, p), Len(p.states) < Len(p.refs), NEW state \in {"array", "object"}
  PROVE  /\ Between(W, Entering(p, state))
         /\ Entering(p, state).l = p.l
<1>1. Closed(W) /\ p \in Parsers(W)
  BY DEF Between
<1>2. p.states \in Seq({"array", "object"}) /\ Len(p.states) \in Nat /\ Len(p.refs) \in Nat
  BY <1>1 DEF Parsers
<1>3. PICK states : states = Append(p.states, state)
  OBVIOUS
<1>4. states \in Seq({"array", "object"}) /\ Len(states) = Len(p.states) + 1
  BY <1>2, <1>3
<1>5. PICK q : q = [p EXCEPT !.states = states]
  OBVIOUS
<1>6. q \in Parsers(W) /\ q.l = p.l /\ q.states = states /\ q.refs = p.refs
  BY <1>1, <1>4, <1>5 DEF Parsers
<1>7. Between(W, q)
  BY <1>1, <1>2, <1>4, <1>6 DEF Between
<1>8. QED BY <1>3, <1>5, <1>6, <1>7 DEF Entering

\* Whatever token comes, the parser stays well-formed and leaves the lexer alone.
LEMMA ParseOK ==
  ASSUME NEW p, ParserOK(p), ~Stopped(p), NEW t \in Tokens
  PROVE  /\ ParserOK(Parse(p, t)) /\ Parse(p, t).l = p.l
         /\ t.kind = "parse_error" => Parse(p, t).at = "error"
<1>1. PICK W : Closed(W) /\ p \in Parsers(W) /\ Stacked(p)
  BY DEF ParserOK
<1>2. Between(W, p)
  BY <1>1 DEF Between, Stacked
<1>3. p.at \in ParserLabels /\ Len(p.states) \in Nat /\ Len(p.refs) \in Nat
  BY <1>1 DEF Parsers
<1>4. ParserOK(ParseError(p)) /\ ParseError(p).l = p.l /\ ParseError(p).at = "error"
  <2>1. ParserOK(ParseError(p)) /\ ParseError(p).l = p.l
    BY <1>1, <1>2, ParseErrorOK DEF Between
  <2>2. ParseError(p).at = "error"
    BY <1>1 DEF ParseError, Parsers
  <2>3. QED BY <2>1, <2>2
<1>5. CASE t.kind = "parse_error"
  BY <1>4, <1>5 DEF Parse
<1>6. ASSUME t.kind # "parse_error" PROVE ParserOK(Parse(p, t)) /\ Parse(p, t).l = p.l
  <2>1. CASE p.at = "value"
    <3>1. Parse(p, t) = ParseValue(p, t)
      BY <1>6, <2>1 DEF Parse
    <3>2. QED BY <1>2, <3>1, ParseValueOK
  <2>2. CASE p.at = "first key"
    <3>1. Parse(p, t) = ParseFirstKey(p, t)
      BY <1>6, <2>2 DEF Parse
    <3>2. Len(p.states) < Len(p.refs) /\ Len(p.refs) > 0
      <4>1. Len(p.states) < Len(p.refs)
        BY <1>1, <2>2 DEF Stacked
      <4>2. QED BY <1>3, <4>1
    <3>3. CASE t.kind = "end_object"
      <4>1. Parse(p, t) = AfterValue(EndContainer(p))
        BY <3>1, <3>3 DEF ParseFirstKey, At
      <4>2. QED BY <1>2, <3>2, <4>1, EndsOK
    <3>4. CASE t.kind = "value_string"
      <4>1. Parse(p, t) = At(Key(p, t.value.text), "first colon")
        BY <3>1, <3>4 DEF ParseFirstKey, At
      <4>2. t.value.text \in Seq(Byte)
        BY <3>4, TokenParts
      <4>3. PICK key \in Seq(Byte) : key = t.value.text
        BY <4>2
      <4>4. QED BY <1>2, <3>2, <4>1, <4>3, KeyThen
    <3>5. CASE t.kind # "end_object" /\ t.kind # "value_string"
      BY <1>4, <3>1, <3>5 DEF ParseFirstKey, At
    <3>6. QED BY <3>3, <3>4, <3>5
  <2>3. CASE p.at = "first colon"
    <3>1. Parse(p, t) = ParseFirstColon(p, t)
      BY <1>6, <2>3 DEF Parse
    <3>2. Len(p.states) < Len(p.refs)
      BY <1>1, <2>3 DEF Stacked
    <3>3. CASE t.kind = "name_separator"
      <4>1. PICK q : q = Entering(p, "object")
        OBVIOUS
      <4>2. Between(W, q) /\ q.l = p.l
        BY <1>2, <3>2, <4>1, EntersOK
      <4>3. Parse(p, t) = At(q, "value")
        BY <3>1, <3>3, <4>1 DEF ParseFirstColon, At, Entering
      <4>4. "value" \in ParserLabels
        BY DEF ParserLabels
      <4>5. QED BY <4>2, <4>3, <4>4, MovesTo DEF Between
    <3>4. CASE t.kind # "name_separator"
      BY <1>4, <3>1, <3>4 DEF ParseFirstColon, At, Entering
    <3>5. QED BY <3>3, <3>4
  <2>4. CASE p.at = "first element"
    <3>1. Parse(p, t) = ParseFirstElement(p, t)
      BY <1>6, <2>4 DEF Parse
    <3>2. Len(p.states) < Len(p.refs)
      BY <1>1, <2>4 DEF Stacked
    <3>3. CASE t.kind = "end_array"
      <4>1. Parse(p, t) = AfterValue(EndContainer(p))
        BY <3>1, <3>3 DEF ParseFirstElement, Entering
      <4>2. QED BY <1>2, <3>2, <4>1, EndsOK
    <3>4. CASE t.kind # "end_array"
      <4>1. PICK q : q = Entering(p, "array")
        OBVIOUS
      <4>2. Between(W, q) /\ q.l = p.l
        BY <1>2, <3>2, <4>1, EntersOK
      <4>3. Parse(p, t) = ParseValue(q, t)
        BY <3>1, <3>4, <4>1 DEF ParseFirstElement, Entering
      <4>4. QED BY <4>2, <4>3, ParseValueOK
    <3>5. QED BY <3>3, <3>4
  <2>5. ASSUME NEW label \in {"value", "key"}, label = "key" => Len(p.states) > 0
        PROVE  ParserOK(At(p, label)) /\ At(p, label).l = p.l
    <3>1. label \in ParserLabels
      BY DEF ParserLabels
    <3>2. Len(p.states) <= Len(p.refs)
      BY <1>1 DEF Stacked
    <3>3. label \notin {"first key", "first colon", "first element"}
          /\ (label \in {"array", "object", "key"} => Len(p.states) > 0)
      BY <2>5
    <3>4. QED BY <1>1, <3>1, <3>2, <3>3, MovesTo
  <2>6. CASE p.at = "array"
    <3>1. Parse(p, t) = ParseArray(p, t)
      BY <1>6, <2>6 DEF Parse
    <3>2. Len(p.states) > 0
      BY <1>1, <2>6 DEF Stacked
    <3>3. CASE t.kind = "value_separator"
      <4>1. Parse(p, t) = At(p, "value")
        BY <3>1, <3>3 DEF ParseArray, At
      <4>2. QED BY <2>5, <4>1
    <3>4. CASE t.kind = "end_array"
      <4>1. Parse(p, t) = Leave(p)
        BY <3>1, <3>4 DEF ParseArray, At
      <4>2. QED BY <1>2, <3>2, <4>1, EndsOK
    <3>5. CASE t.kind # "value_separator" /\ t.kind # "end_array"
      BY <1>4, <3>1, <3>5 DEF ParseArray, At
    <3>6. QED BY <3>3, <3>4, <3>5
  <2>7. CASE p.at = "object"
    <3>1. Parse(p, t) = ParseObject(p, t)
      BY <1>6, <2>7 DEF Parse
    <3>2. Len(p.states) > 0
      BY <1>1, <2>7 DEF Stacked
    <3>3. CASE t.kind = "value_separator"
      <4>1. Parse(p, t) = At(p, "key")
        BY <3>1, <3>3 DEF ParseObject, At
      <4>2. QED BY <2>5, <3>2, <4>1
    <3>4. CASE t.kind = "end_object"
      <4>1. Parse(p, t) = Leave(p)
        BY <3>1, <3>4 DEF ParseObject, At
      <4>2. QED BY <1>2, <3>2, <4>1, EndsOK
    <3>5. CASE t.kind # "value_separator" /\ t.kind # "end_object"
      BY <1>4, <3>1, <3>5 DEF ParseObject, At
    <3>6. QED BY <3>3, <3>4, <3>5
  <2>8. CASE p.at = "key"
    <3>1. Parse(p, t) = ParseKey(p, t)
      BY <1>6, <2>8 DEF Parse
    <3>2. Len(p.refs) > 0
      BY <1>1, <1>3, <2>8 DEF Stacked
    <3>3. CASE t.kind = "value_string"
      <4>1. Parse(p, t) = At(Key(p, t.value.text), "colon")
        BY <3>1, <3>3 DEF ParseKey, At
      <4>2. t.value.text \in Seq(Byte)
        BY <3>3, TokenParts
      <4>3. QED BY <1>2, <3>2, <4>1, <4>2, KeyThen
    <3>4. CASE t.kind # "value_string"
      BY <1>4, <3>1, <3>4 DEF ParseKey, At
    <3>5. QED BY <3>3, <3>4
  <2>9. CASE p.at = "colon"
    <3>1. Parse(p, t) = ParseColon(p, t)
      BY <1>6, <2>9 DEF Parse
    <3>2. QED BY <1>4, <2>5, <3>1 DEF ParseColon, At
  <2>10. CASE p.at = "end"
    <3>1. Parse(p, t) = ParseEnd(p, t)
      BY <1>6, <2>10 DEF Parse
    <3>2. "accepted" \in ParserLabels /\ Len(p.states) <= Len(p.refs)
      BY <1>1 DEF ParserLabels, Stacked
    <3>3. ParserOK(At(p, "accepted")) /\ At(p, "accepted").l = p.l
      BY <1>1, <3>2, MovesTo
    <3>4. QED BY <1>4, <3>1, <3>3 DEF ParseEnd, At
  <2>11. QED
    BY <1>3, <2>1, <2>2, <2>3, <2>4, <2>6, <2>7, <2>8, <2>9, <2>10 DEF ParserLabels, Stopped
<1>7. QED BY <1>5, <1>6, <1>4

\* Until it stops, the parser has a lexer that has not failed.
Reading(p) == ParserOK(p) /\ (~Stopped(p) => Shaped(p.l) /\ p.l.at # "failed")

LEMMA LexerOf ==
  ASSUME NEW p, ParserOK(p)
  PROVE  p.l \in Lexers /\ p.l.token \in Tokens /\ p.l.again \in BOOLEAN
BY DEF ParserOK, Parsers, Lexers

LEMMA LexerChanged ==
  ASSUME NEW p, ParserOK(p), NEW l \in Lexers
  PROVE  LET q == [p EXCEPT !.l = l] IN ParserOK(q) /\ q.l = l /\ q.at = p.at
<1>1. PICK W : Closed(W) /\ p \in Parsers(W) /\ Stacked(p)
  BY DEF ParserOK
<1>2. PICK q : q = [p EXCEPT !.l = l]
  OBVIOUS
<1>3. q \in Parsers(W) /\ q.l = l /\ q.at = p.at /\ q.states = p.states /\ q.refs = p.refs
  BY <1>1, <1>2 DEF Parsers
<1>4. Stacked(q)
  BY <1>1, <1>3 DEF Stacked
<1>5. ParserOK(q)
  BY <1>1, <1>3, <1>4 DEF ParserOK
<1>6. QED BY <1>2, <1>3, <1>5

LEMMA ParserInitOK == Reading(ParserInit)
<1>1. NoToken \in Tokens
  BY DEF NoToken, Tokens, Kinds, Scalars
<1>2. LexerInit \in Lexers /\ LexerInit.at = "bom"
  <2>1. <<>> \in Seq(Byte) /\ <<>> \in Needs
    BY DEF Needs
  <2>2. QED BY <1>1, <2>1 DEF LexerInit, Lexers, LexerLabels
<1>3. Shaped(LexerInit) /\ LexerInit.at # "failed"
  BY <1>2, PlainlyShaped DEF LexOK, Plainly
<1>4. Closed(ScalarValues)
  BY DEF Closed
<1>5. ParserInit \in Parsers(ScalarValues) /\ Stacked(ParserInit) /\ ParserInit.l = LexerInit
  <2>1. <<>> \in Seq({"array", "object"}) /\ <<>> \in Seq(Frames(ScalarValues)) /\ Len(<<>>) = 0
    OBVIOUS
  <2>2. "value" \in ParserLabels /\ Null \in ScalarValues
    BY ScalarTypes DEF ParserLabels
  <2>3. ParserInit \in Parsers(ScalarValues) /\ ParserInit.l = LexerInit
    BY <1>2, <2>1, <2>2 DEF ParserInit, Parsers
  <2>4. Stacked(ParserInit)
    BY <2>1 DEF Stacked, ParserInit
  <2>5. QED BY <2>3, <2>4
<1>6. QED BY <1>3, <1>4, <1>5 DEF Reading, ParserOK

\* The token of the lexer goes to the parser.
LEMMA GetTokenOK ==
  ASSUME NEW p, ParserOK(p), ~Stopped(p), Shaped(p.l)
  PROVE  Reading(GetToken(p))
<1>1. p.l \in Lexers /\ p.l.token \in Tokens
  BY LexerOf
<1>2. CASE p.l.token = NoToken
  <2>1. p.l.token.kind = "none"
    BY <1>2 DEF NoToken
  <2>2. p.l.at # "failed"
    BY <2>1 DEF Shaped
  <2>3. GetToken(p) = p
    BY <1>2 DEF GetToken
  <2>4. QED BY <2>2, <2>3 DEF Reading
<1>3. CASE p.l.token # NoToken
  <2>1. PICK t \in Tokens : t = p.l.token
    BY <1>1
  <2>2. PICK l : l = [p.l EXCEPT !.token = NoToken]
    OBVIOUS
  <2>3. NoToken \in Tokens
    BY DEF NoToken, Tokens, Kinds, Scalars
  <2>4. l \in Lexers /\ l.at = p.l.at /\ l.type = p.l.type /\ l.buffer = p.l.buffer
        /\ l.need = p.l.need /\ l.codepoint = p.l.codepoint /\ l.high = p.l.high
    BY <1>1, <2>2, <2>3 DEF Lexers
  <2>5. PICK q : q = [p EXCEPT !.l = l]
    OBVIOUS
  <2>6. ParserOK(q) /\ q.l = l /\ ~Stopped(q)
    BY <2>4, <2>5, LexerChanged DEF Stopped
  <2>7. GetToken(p) = Parse(q, t)
    <3>1. q = [p EXCEPT !.l.token = NoToken]
      BY <2>2, <2>5
    <3>2. QED BY <1>3, <2>1, <3>1 DEF GetToken
  <2>8. ParserOK(Parse(q, t)) /\ Parse(q, t).l = l
        /\ (t.kind = "parse_error" => Parse(q, t).at = "error")
    BY <2>6, ParseOK
  <2>9. CASE p.l.at = "failed"
    <3>1. t.kind = "parse_error"
      BY <2>1, <2>9 DEF Shaped
    <3>2. QED BY <2>7, <2>8, <3>1 DEF Reading, Stopped
  <2>10. CASE p.l.at # "failed"
    <3>1. Shaped(l) /\ l.at # "failed"
      BY <2>4, <2>10 DEF Shaped
    <3>2. QED BY <2>7, <2>8, <3>1 DEF Reading
  <2>11. QED BY <2>9, <2>10
<1>4. QED BY <1>2, <1>3

LEMMA OfferOK ==
  ASSUME NEW p, Reading(p), ~Stopped(p), NEW c \in Inputs
  PROVE  Reading(Offer(p, c))
<1>1. ParserOK(p) /\ Shaped(p.l) /\ p.l.at # "failed" /\ p.l \in Lexers
  BY LexerOf DEF Reading
<1>2. PICK l : l = Scan(p.l, c) /\ l \in Lexers /\ Shaped(l)
  BY <1>1, ScanOK DEF LexOK
<1>3. PICK q : q = [p EXCEPT !.l = l]
  OBVIOUS
<1>4. ParserOK(q) /\ q.l = l /\ ~Stopped(q)
  BY <1>1, <1>2, <1>3, LexerChanged DEF Stopped
<1>5. Offer(p, c) = GetToken(q)
  BY <1>2, <1>3 DEF Offer
<1>6. QED BY <1>2, <1>4, <1>5, GetTokenOK

LEMMA OfferAgainOK ==
  ASSUME NEW p, Reading(p), NEW c \in Inputs
  PROVE  Reading(OfferAgain(p, c))
<1>1. CASE p.l.again /\ ~Stopped(p)
  <2>1. ParserOK(p) /\ Shaped(p.l) /\ p.l.at # "failed" /\ p.l \in Lexers
    BY <1>1, LexerOf DEF Reading
  <2>2. PICK l : l = [p.l EXCEPT !.again = FALSE]
    OBVIOUS
  <2>3. l \in Lexers /\ l.at = p.l.at /\ l.type = p.l.type /\ l.buffer = p.l.buffer
        /\ l.need = p.l.need /\ l.codepoint = p.l.codepoint /\ l.high = p.l.high
        /\ l.token = p.l.token
    BY <2>1, <2>2 DEF Lexers
  <2>4. Shaped(l) /\ l.at # "failed"
    BY <2>1, <2>3 DEF Shaped
  <2>5. PICK q : q = [p EXCEPT !.l = l]
    OBVIOUS
  <2>6. ParserOK(q) /\ q.l = l /\ ~Stopped(q)
    BY <1>1, <2>1, <2>3, <2>5, LexerChanged DEF Stopped
  <2>7. OfferAgain(p, c) = Offer(q, c)
    BY <1>1, <2>2, <2>5 DEF OfferAgain
  <2>8. QED BY <2>4, <2>6, <2>7, OfferOK DEF Reading
<1>2. CASE ~(p.l.again /\ ~Stopped(p))
  BY <1>2 DEF OfferAgain
<1>3. QED BY <1>1, <1>2

\* Whatever byte the reader is fed, it stays well-formed.
LEMMA FeedOK ==
  ASSUME NEW p, Reading(p), NEW c \in Inputs
  PROVE  Reading(Feed(p, c))
<1>1. CASE Stopped(p)
  BY <1>1 DEF Feed
<1>2. CASE ~Stopped(p)
  BY <1>2, OfferOK, OfferAgainOK DEF Feed
<1>3. QED BY <1>1, <1>2


-----------------------------------------------------------------------------
(* The parse of a whole text.                                              *)

\* The reader after each byte of a text.
ReadsOf(bytes, n, read) ==
  read = [i \in 0..n |-> IF i = 0 THEN ParserInit ELSE Feed(read[i - 1], bytes[i])]

LEMMA ReadsExtend ==
  ASSUME NEW bytes, NEW n \in Nat \ {0}, NEW read, ReadsOf(bytes, n - 1, read)
  PROVE  \E more : ReadsOf(bytes, n, more) /\ \A i \in 0..(n - 1) : more[i] = read[i]
<1> DEFINE more == [i \in 0..n |-> IF i = n THEN Feed(read[n - 1], bytes[n]) ELSE read[i]]
           next == [i \in 0..n |-> IF i = 0 THEN ParserInit ELSE Feed(more[i - 1], bytes[i])]
<1>1. \A i \in 0..(n - 1) : more[i] = read[i]
  OBVIOUS
<1>2. read[0] = ParserInit /\ \A i \in 1..(n - 1) : read[i] = Feed(read[i - 1], bytes[i])
  <2> DEFINE f == [i \in 0..(n - 1) |-> IF i = 0 THEN ParserInit ELSE Feed(read[i - 1], bytes[i])]
  <2>1. f[0] = ParserInit /\ \A i \in 1..(n - 1) : f[i] = Feed(read[i - 1], bytes[i])
    OBVIOUS
  <2>2. read = f
    BY DEF ReadsOf
  <2> HIDE DEF f
  <2>3. QED BY <2>1, <2>2
<1>3. \A i \in 0..n : more[i] = next[i]
  <2> SUFFICES ASSUME NEW i \in 0..n PROVE more[i] = next[i]
    OBVIOUS
  <2>1. CASE i = 0
    BY <1>2, <2>1
  <2>2. CASE i \in 1..(n - 1)
    BY <1>1, <1>2, <2>2
  <2>3. CASE i = n
    BY <1>1, <2>3
  <2>4. QED BY <2>1, <2>2, <2>3
<1>4. more = next
  BY <1>3
<1>5. ReadsOf(bytes, n, more)
  BY <1>4 DEF ReadsOf
<1> HIDE DEF more
<1>6. QED BY <1>1, <1>5

LEMMA ReadsExist ==
  ASSUME NEW bytes, NEW N \in Nat
  PROVE  \E read : ReadsOf(bytes, N, read)
<1> DEFINE P == {n \in 0..N : \E read : ReadsOf(bytes, n, read)}
<1>1. 0 \in P
  <2> DEFINE read == [i \in 0..0 |-> ParserInit]
  <2>1. read = [i \in 0..0 |-> IF i = 0 THEN ParserInit ELSE Feed(read[i - 1], bytes[i])]
    OBVIOUS
  <2> HIDE DEF read
  <2>2. ReadsOf(bytes, 0, read)
    BY <2>1 DEF ReadsOf
  <2>3. QED BY <2>2
<1>2. ASSUME NEW n \in 1..N, n - 1 \in P PROVE n \in P
  <2>1. PICK read : ReadsOf(bytes, n - 1, read)
    BY <1>2
  <2>2. n \in Nat \ {0} /\ n \in 0..N
    OBVIOUS
  <2>3. \E more : ReadsOf(bytes, n, more)
    BY <2>1, <2>2, ReadsExtend
  <2>4. QED BY <2>2, <2>3
<1> HIDE DEF P
<1>3. 0..N \subseteq P
  BY <1>1, <1>2, BoundedInduction
<1>4. N \in P
  BY <1>3
<1>5. QED BY <1>4 DEF P

LEMMA ReadsStayOK ==
  ASSUME NEW bytes \in Seq(Byte), NEW read, ReadsOf(bytes, Len(bytes), read)
  PROVE  Reading(read[Len(bytes)])
<1> DEFINE N == Len(bytes)
           P == {n \in 0..N : Reading(read[n])}
           f == [i \in 0..N |-> IF i = 0 THEN ParserInit ELSE Feed(read[i - 1], bytes[i])]
<1>1. N \in Nat /\ \A i \in 1..N : bytes[i] \in Inputs
  BY BytesOf DEF Inputs
<1>2. read = f
  BY DEF ReadsOf
<1> HIDE DEF N
<1>3. f[0] = ParserInit /\ \A i \in 1..N : f[i] = Feed(read[i - 1], bytes[i])
  BY <1>1
<1> HIDE DEF f
<1>4. read[0] = ParserInit /\ \A i \in 1..N : read[i] = Feed(read[i - 1], bytes[i])
  BY <1>2, <1>3
<1>5. 0 \in P
  BY <1>1, <1>4, ParserInitOK
<1>6. ASSUME NEW n \in 1..N, n - 1 \in P PROVE n \in P
  <2>1. Reading(read[n - 1])
    BY <1>6
  <2>2. Reading(read[n])
    BY <1>1, <1>4, <2>1, FeedOK
  <2>3. QED BY <1>1, <2>2
<1> HIDE DEF P
<1>7. 0..N \subseteq P
  BY <1>1, <1>5, <1>6, BoundedInduction
<1>8. N \in P
  BY <1>1, <1>7
<1>9. QED BY <1>8 DEF P, N

\* Whatever the text, the reader is well-formed at its end.
LEMMA ParseTextOK ==
  ASSUME NEW bytes \in Seq(Byte)
  PROVE  Reading(ParseText(bytes))
<1> DEFINE read == CHOOSE read : read = [i \in 0..Len(bytes) |->
                      IF i = 0 THEN ParserInit ELSE Feed(read[i - 1], bytes[i])]
<1>1. Len(bytes) \in Nat
  BY BytesOf
<1>2. \E r : r = [i \in 0..Len(bytes) |-> IF i = 0 THEN ParserInit ELSE Feed(r[i - 1], bytes[i])]
  BY <1>1, ReadsExist DEF ReadsOf
<1>3. ReadsOf(bytes, Len(bytes), read)
  BY <1>2 DEF ReadsOf
<1>4. ParseText(bytes) = Feed(read[Len(bytes)], EOF)
  BY DEF ParseText
<1> HIDE DEF read
<1>5. Reading(read[Len(bytes)])
  BY <1>3, ReadsStayOK
<1>6. QED BY <1>4, <1>5, FeedOK DEF Inputs

\* What is accepted is a well-formed value.
LEMMA RootWellFormed ==
  ASSUME NEW p, Reading(p)
  PROVE  WellFormed(Parsed(p))
<1>1. PICK W : Closed(W) /\ p \in Parsers(W)
  BY DEF Reading, ParserOK
<1>2. p.root \in W /\ Null \in W
  BY <1>1, ScalarTypes DEF Parsers, Closed
<1>3. QED BY <1>1, <1>2 DEF Parsed, WellFormed

\* The keys of a well-formed value are byte strings, and so are those of its
\* members.
LEMMA WellFormedKeys ==
  ASSUME NEW W, Closed(W), NEW v \in W, IsObject(v)
  PROVE  /\ KeysAreBytes(v) /\ v.map \in [DOMAIN v.map -> W]
<1>1. v \notin ScalarValues
  BY ScalarTypes DEF IsObject
<1>2. v \in Containers(W)
  BY <1>1 DEF Closed
<1>3. QED BY <1>2, ContainerParts DEF IsObject, KeysAreBytes

LEMMA WellFormedTwoDeep ==
  ASSUME NEW v, WellFormed(v)
  PROVE  KeysTwoDeep(v)
<1>1. PICK W : v \in W /\ Closed(W)
  BY DEF WellFormed
<1>2. CASE ~IsObject(v)
  BY <1>2 DEF KeysTwoDeep, KeysAreBytes
<1>3. CASE IsObject(v)
  <2>1. KeysAreBytes(v) /\ v.map \in [DOMAIN v.map -> W]
    BY <1>1, <1>3, WellFormedKeys
  <2>2. ASSUME NEW k \in DOMAIN v.map PROVE KeysAreBytes(v.map[k])
    <3>1. v.map[k] \in W
      BY <2>1
    <3>2. CASE IsObject(v.map[k])
      BY <1>1, <3>1, <3>2, WellFormedKeys
    <3>3. CASE ~IsObject(v.map[k])
      BY <3>3 DEF KeysAreBytes
    <3>4. QED BY <3>2, <3>3
  <2>3. QED BY <2>1, <2>2 DEF KeysTwoDeep
<1>4. QED BY <1>2, <1>3

-----------------------------------------------------------------------------
(* The text of the variables.                                              *)

\* The sequences joined so far.
JoinsOf(seqs, n, joined) ==
  joined = [i \in 1..n |-> IF i = 1 THEN seqs[i] ELSE joined[i - 1] \o seqs[i]]

LEMMA JoinsExtend ==
  ASSUME NEW seqs, NEW n \in Nat \ {0}, NEW joined, JoinsOf(seqs, n - 1, joined)
  PROVE  \E more : JoinsOf(seqs, n, more)
<1> DEFINE more == [i \in 1..n |->
                      IF i # n THEN joined[i]
                      ELSE IF i = 1 THEN seqs[i] ELSE joined[n - 1] \o seqs[n]]
           next == [i \in 1..n |-> IF i = 1 THEN seqs[i] ELSE more[i - 1] \o seqs[i]]
           f == [i \in 1..(n - 1) |-> IF i = 1 THEN seqs[i] ELSE joined[i - 1] \o seqs[i]]
<1>1. \A i \in 1..(n - 1) : more[i] = joined[i]
  OBVIOUS
<1>2. \A i \in 1..(n - 1) : f[i] = IF i = 1 THEN seqs[i] ELSE joined[i - 1] \o seqs[i]
  OBVIOUS
<1>3. joined = f
  BY DEF JoinsOf
<1> HIDE DEF f
<1>4. \A i \in 1..n : more[i] = next[i]
  <2> SUFFICES ASSUME NEW i \in 1..n PROVE more[i] = next[i]
    OBVIOUS
  <2>1. i = 1 => more[i] = seqs[i]
    BY <1>2, <1>3
  <2>2. i # 1 => more[i] = more[i - 1] \o seqs[i]
    <3>1. ASSUME i # 1 PROVE more[i - 1] = joined[i - 1]
      <4>1. i - 1 \in 1..(n - 1)
        BY <3>1
      <4>2. QED BY <1>1, <4>1
    <3>2. CASE i # 1 /\ i # n
      <4>1. i \in 1..(n - 1)
        BY <3>2
      <4>2. f[i] = joined[i - 1] \o seqs[i]
        BY <1>2, <3>2, <4>1
      <4>3. QED BY <1>1, <1>3, <3>1, <3>2, <4>1, <4>2
    <3>3. CASE i # 1 /\ i = n
      <4>1. more[i] = joined[n - 1] \o seqs[n]
        BY <3>3
      <4>2. QED BY <3>1, <3>3, <4>1
    <3>4. QED BY <3>2, <3>3
  <2> HIDE DEF more
  <2>3. next[i] = IF i = 1 THEN seqs[i] ELSE more[i - 1] \o seqs[i]
    OBVIOUS
  <2>4. QED BY <2>1, <2>2, <2>3
<1>5. more = next
  BY <1>4
<1>6. JoinsOf(seqs, n, more)
  BY <1>5 DEF JoinsOf
<1> HIDE DEF more
<1>7. QED BY <1>6

LEMMA JoinsExist ==
  ASSUME NEW seqs, NEW N \in Nat
  PROVE  \E joined : JoinsOf(seqs, N, joined)
<1> DEFINE P == {n \in 0..N : \E joined : JoinsOf(seqs, n, joined)}
<1>1. 0 \in P
  <2> DEFINE joined == [i \in 1..0 |-> seqs]
  <2>1. joined = [i \in 1..0 |-> IF i = 1 THEN seqs[i] ELSE joined[i - 1] \o seqs[i]]
    OBVIOUS
  <2> HIDE DEF joined
  <2>2. JoinsOf(seqs, 0, joined)
    BY <2>1 DEF JoinsOf
  <2>3. QED BY <2>2
<1>2. ASSUME NEW n \in 1..N, n - 1 \in P PROVE n \in P
  <2>1. PICK joined : JoinsOf(seqs, n - 1, joined)
    BY <1>2
  <2>2. n \in Nat \ {0} /\ n \in 0..N
    OBVIOUS
  <2>3. \E more : JoinsOf(seqs, n, more)
    BY <2>1, <2>2, JoinsExtend
  <2>4. QED BY <2>2, <2>3
<1> HIDE DEF P
<1>3. 0..N \subseteq P
  BY <1>1, <1>2, BoundedInduction
<1>4. N \in P
  BY <1>3
<1>5. QED BY <1>4 DEF P

LEMMA JoinsAreBytes ==
  ASSUME NEW N \in Nat \ {0}, NEW seqs, \A i \in 1..N : seqs[i] \in Seq(Byte),
         NEW joined, JoinsOf(seqs, N, joined)
  PROVE  joined[N] \in Seq(Byte)
<1> DEFINE f == [i \in 1..N |-> IF i = 1 THEN seqs[i] ELSE joined[i - 1] \o seqs[i]]
           P == {n \in 0..N : n = 0 \/ joined[n] \in Seq(Byte)}
<1>1. \A i \in 1..N : f[i] = IF i = 1 THEN seqs[i] ELSE joined[i - 1] \o seqs[i]
  OBVIOUS
<1>2. joined = f
  BY DEF JoinsOf
<1> HIDE DEF f
<1>3. 0 \in P
  OBVIOUS
<1>4. ASSUME NEW n \in 1..N, n - 1 \in P PROVE n \in P
  <2>1. CASE n = 1
    <3>1. joined[n] = seqs[n]
      BY <1>1, <1>2, <2>1
    <3>2. QED BY <3>1
  <2>2. CASE n # 1
    <3>1. joined[n] = joined[n - 1] \o seqs[n]
      BY <1>1, <1>2, <2>2
    <3>2. joined[n - 1] \in Seq(Byte) /\ seqs[n] \in Seq(Byte)
      BY <1>4, <2>2
    <3>3. \A a, b \in Seq(Byte) : a \o b \in Seq(Byte)
      OBVIOUS
    <3>4. joined[n] \in Seq(Byte)
      BY <3>1, <3>2, <3>3
    <3>5. QED BY <3>4
  <2>3. QED BY <2>1, <2>2
<1> HIDE DEF P
<1>5. 0..N \subseteq P
  BY <1>3, <1>4, BoundedInduction
<1>6. N \in P
  BY <1>5
<1>7. QED BY <1>6 DEF P

\* The chunks are joined to a byte string.
LEMMA FlattenBytes ==
  ASSUME NEW n \in Nat, NEW e, \A i \in 1..n : e[i] \in Seq(Byte)
  PROVE  FlattenSeq([i \in 1..n |-> e[i]]) \in Seq(Byte)
<1>1. PICK seqs : seqs = [i \in 1..n |-> e[i]]
  OBVIOUS
<1>2. Len(seqs) = n /\ \A i \in 1..n : seqs[i] \in Seq(Byte)
  BY <1>1
<1>3. CASE n = 0
  <2>1. FlattenSeq(seqs) = seqs
    BY <1>2, <1>3 DEF FlattenSeq
  <2>2. seqs = <<>> /\ <<>> \in Seq(Byte)
    BY <1>1, <1>3
  <2>3. FlattenSeq(seqs) \in Seq(Byte)
    BY <2>1, <2>2
  <2>4. QED BY <1>1, <2>3
<1>4. CASE n # 0
  <2> DEFINE joined == CHOOSE joined : joined = [i \in 1..Len(seqs) |->
                         IF i = 1 THEN seqs[i] ELSE joined[i - 1] \o seqs[i]]
  <2>1. FlattenSeq(seqs) = joined[Len(seqs)]
    BY <1>2, <1>4 DEF FlattenSeq
  <2>2. \E j : j = [i \in 1..Len(seqs) |-> IF i = 1 THEN seqs[i] ELSE j[i - 1] \o seqs[i]]
    BY <1>2, JoinsExist DEF JoinsOf
  <2>3. JoinsOf(seqs, Len(seqs), joined)
    BY <2>2 DEF JoinsOf
  <2> HIDE DEF joined
  <2>4. joined[Len(seqs)] \in Seq(Byte)
    BY <1>2, <1>4, <2>3, JoinsAreBytes
  <2>5. FlattenSeq(seqs) \in Seq(Byte)
    BY <2>1, <2>4
  <2>6. QED BY <1>1, <2>5
<1>5. QED BY <1>3, <1>4

\* The variables hold byte strings or are not set.
Environment(e) == e \in [0..MaxVariables -> Seq(Byte) \cup {Unset}]

LEMMA NumberedBytes ==
  ASSUME NEW e, Environment(e)
  PROVE  Numbered(e) \in Seq(Byte)
<1> DEFINE missing == {i \in 1..MaxVariables : e[i] = Unset}
           n == IF missing = {} THEN MaxVariables
                ELSE (CHOOSE i \in missing : \A j \in missing : i <= j) - 1
<1>1. MaxVariables \in Nat
  BY ConfigAssumption
<1>2. n \in Nat /\ n <= MaxVariables /\ \A i \in 1..n : i \notin missing
  <2>1. CASE missing = {}
    BY <1>1, <2>1
  <2>2. CASE missing # {}
    <3>1. missing \in SUBSET Nat
      BY <1>1
    <3> HIDE DEF missing
    <3>2. \E i \in missing : \A j \in missing : i <= j
      BY <2>2, <3>1, LeastNumber
    <3>3. PICK i \in missing : i - 1 = n /\ \A j \in missing : i <= j
      BY <2>2, <3>2
    <3>4. i \in 1..MaxVariables
      BY <3>3 DEF missing
    <3> HIDE DEF n
    <3>5. QED BY <1>1, <3>1, <3>3, <3>4
  <2>3. QED BY <2>1, <2>2
<1>3. Numbered(e) = FlattenSeq([i \in 1..n |-> e[i]])
  BY DEF Numbered
<1> HIDE DEF n
<1>4. \A i \in 1..n : e[i] \in Seq(Byte)
  BY <1>1, <1>2 DEF Environment
<1>5. QED BY <1>2, <1>3, <1>4, FlattenBytes

LEMMA ConfigTextBytes ==
  ASSUME NEW e, Environment(e)
  PROVE  ConfigText(e) \in Seq(Byte)
<1>1. Numbered(e) \in Seq(Byte)
  BY NumberedBytes
<1>2. e[0] # Unset => e[0] \in Seq(Byte)
  BY ConfigAssumption DEF Environment
<1>3. QED BY <1>1, <1>2 DEF ConfigText

LEMMA LoadJsonOK ==
  ASSUME NEW e, Environment(e)
  PROVE  WellFormed(LoadJson(e))
<1>1. WellFormed(Null)
  BY ScalarTypes DEF WellFormed, Closed
<1>2. WellFormed(Parsed(ParseText(ConfigText(e))))
  BY ConfigTextBytes, ParseTextOK, RootWellFormed
<1>3. QED BY <1>1, <1>2 DEF LoadJson

-----------------------------------------------------------------------------
(* The lookups of every reachable state.                                   *)

\* The inductive invariant: the variables hold bytes, the configuration is a
\* well-formed value, and the index of a browser that is ready is its index.
LookupsInv ==
  /\ Environment(env) /\ rest \in Seq(Byte)
  /\ WellFormed(config)
  /\ phase = "ready" => index = GetIndex(config)

LEMMA LookupsInit ==
  ASSUME Init
  PROVE  LookupsInv
<1>1. Environment(env)
  <2>1. PICK stray \in {Unset, <<Quote>>} :
          env = [i \in 0..MaxVariables |-> IF i = MaxVariables THEN stray ELSE Unset]
    BY DEF Init
  <2>2. <<Quote>> \in Seq(Byte)
    BY DEF Quote, Byte
  <2>3. QED BY <2>1, <2>2 DEF Environment
<1>2. rest \in Seq(Byte)
  <2>1. rest \in Texts \cup {<<>>} /\ <<>> \in Seq(Byte)
    BY DEF Init
  <2>2. Texts \subseteq Seq(Byte)
    BY ConfigAssumption DEF Byte
  <2>3. QED BY <2>1, <2>2
<1>3. WellFormed(config)
  BY ScalarTypes DEF WellFormed, Closed, Init
<1>4. phase # "ready"
  BY DEF Init
<1>5. QED BY <1>1, <1>2, <1>3, <1>4 DEF LookupsInv

LEMMA LookupsStep ==
  ASSUME LookupsInv, [Next]_vars
  PROVE  LookupsInv'
<1>1. Environment(env) /\ rest \in Seq(Byte) /\ WellFormed(config)
      /\ (phase = "ready" => index = GetIndex(config))
  BY DEF LookupsInv
<1>2. ASSUME NEW c \in 0..255, Write(c) PROVE LookupsInv'
  <2>1. /\ phase' = phase /\ config' = config /\ index' = index
        /\ phase = "launch" /\ Put(c)
    BY <1>2 DEF Write
  <2>2. c \in Byte
    BY DEF Byte
  <2>3. PICK s : env' = [env EXCEPT ![s] = IF @ = Unset THEN <<c>> ELSE Append(@, c)]
    BY <2>1 DEF Put
  <2>4. Environment(env')
    <3>1. env[s] \in Seq(Byte) \cup {Unset} \/ s \notin 0..MaxVariables
      BY <1>1 DEF Environment
    <3>2. PICK text : text = IF env[s] = Unset THEN <<c>> ELSE Append(env[s], c)
      OBVIOUS
    <3>3. text \in Seq(Byte) \/ s \notin 0..MaxVariables
      BY <2>2, <3>1, <3>2
    <3>4. env' = [env EXCEPT ![s] = text]
      BY <2>3, <3>2
    <3>5. QED BY <1>1, <3>3, <3>4 DEF Environment
  <2>5. rest' \in Seq(Byte)
    BY <1>1, <1>2 DEF Write
  <2>6. QED BY <1>1, <2>1, <2>4, <2>5 DEF LookupsInv
<1>3. CASE Load
  <2>1. WellFormed(config')
    BY <1>1, <1>3, LoadJsonOK DEF Load
  <2>2. QED BY <1>1, <1>3, <2>1 DEF Load, LookupsInv
<1>4. CASE BuildIndex
  BY <1>1, <1>4 DEF BuildIndex, LookupsInv
<1>5. CASE UNCHANGED vars
  BY <1>1, <1>5 DEF vars, LookupsInv
<1>6. QED BY <1>2, <1>3, <1>4, <1>5 DEF Next

\* LookupsAgree in every reachable state: whatever is in the variables, and for
\* every hash function, each lookup of MaskConfig.hpp answers from its index what
\* the configuration holds.
THEOREM LookupsTheorem ==
  ASSUME HashesAreNumbers, SlotsAreUsed
  PROVE  Spec => []LookupsAgree
<1>1. Init => LookupsInv
  BY LookupsInit
<1>2. LookupsInv /\ [Next]_vars => LookupsInv'
  BY LookupsStep
<1>3. LookupsInv => LookupsAgree
  BY WellFormedTwoDeep, IndexedAgrees DEF LookupsInv, Indexed
<1>4. QED BY <1>1, <1>2, <1>3, PTL DEF Spec

-----------------------------------------------------------------------------
(* The typed getters.                                                      *)

\* A well-formed value has one of the types, and the fields of it.
LEMMA ValueParts ==
  ASSUME NEW v, WellFormed(v)
  PROVE  /\ v.type \in {"null", "boolean", "unsigned", "integer", "string", "float", "array", "object"}
         /\ v.type = "null" => v = Null
         /\ v.type = "boolean" => v.bool \in BOOLEAN /\ v = Boolean(v.bool)
         /\ v.type = "unsigned" => v.num \in 0..MaxUnsigned /\ v = Unsigned(v.num)
         /\ v.type = "integer" => v.num \in (-MaxSigned - 1)..0 /\ v = Integer(v.num)
         /\ v.type = "string" => v.text \in Seq(Byte) /\ v = Text(v.text)
<1>1. PICK W : v \in W /\ Closed(W)
  BY DEF WellFormed
<1>2. v \in ScalarValues \/ v \in Containers(W)
  BY <1>1 DEF Closed
<1>3. CASE v \in Containers(W)
  BY <1>3, ContainerParts
<1>4. CASE v \in ScalarValues
  <2>1. CASE v = Null
    BY <2>1 DEF Null
  <2>2. CASE \E b \in BOOLEAN : v = Boolean(b)
    BY <2>2 DEF Boolean
  <2>3. CASE \E n \in 0..MaxUnsigned : v = Unsigned(n)
    BY <2>3 DEF Unsigned
  <2>4. CASE \E n \in (-MaxSigned - 1)..0 : v = Integer(n)
    BY <2>4 DEF Integer
  <2>5. CASE \E s \in Seq(Byte) : v = Text(s)
    BY <2>5 DEF Text
  <2>6. CASE \E s \in Seq(Byte) : v = Strtod(s)
    BY <2>6, StrtodIsFloat
  <2>7. QED BY <1>4, <2>1, <2>2, <2>3, <2>4, <2>5, <2>6 DEF ScalarValues
<1>5. QED BY <1>2, <1>3, <1>4

\* The elements and the members of a well-formed value are well-formed.
LEMMA PartsWellFormed ==
  ASSUME NEW v, WellFormed(v)
  PROVE  /\ IsArray(v) => /\ Len(v.items) \in Nat /\ DOMAIN v.items = 1..Len(v.items)
                          /\ \A i \in 1..Len(v.items) : WellFormed(v.items[i])
         /\ IsObject(v) => /\ KeysAreBytes(v)
                           /\ \A k \in DOMAIN v.map : WellFormed(v.map[k])
<1>1. PICK W : v \in W /\ Closed(W)
  BY DEF WellFormed
<1>2. \A w \in W : WellFormed(w)
  BY <1>1 DEF WellFormed
<1>3. ASSUME IsObject(v)
      PROVE  KeysAreBytes(v) /\ \A k \in DOMAIN v.map : WellFormed(v.map[k])
  <2>1. KeysAreBytes(v) /\ v.map \in [DOMAIN v.map -> W]
    BY <1>1, <1>3, WellFormedKeys
  <2>2. QED BY <1>2, <2>1
<1>4. ASSUME IsArray(v)
      PROVE  /\ Len(v.items) \in Nat /\ DOMAIN v.items = 1..Len(v.items)
             /\ \A i \in 1..Len(v.items) : WellFormed(v.items[i])
  <2>1. v \notin ScalarValues
    BY <1>4, ScalarTypes DEF IsArray
  <2>2. v \in Containers(W)
    BY <1>1, <2>1 DEF Closed
  <2>3. v.items \in Seq(W)
    BY <1>4, <2>2, ContainerParts DEF IsArray
  <2>4. \A i \in 1..Len(v.items) : v.items[i] \in W
    BY <2>3
  <2>5. Len(v.items) \in Nat /\ DOMAIN v.items = 1..Len(v.items)
    BY <2>3
  <2>6. QED BY <1>2, <2>4, <2>5
<1>5. QED BY <1>3, <1>4

LEMMA PlainWellFormed ==
  ASSUME NEW v, WellFormed(v), NEW key
  PROVE  Plain(v, key) = None \/ WellFormed(Plain(v, key))
BY PartsWellFormed DEF Plain

\* A conversion keeps a number that fits.
LEMMA LowBitsKeep ==
  ASSUME NEW max \in Nat, NEW n \in 0..max
  PROVE  n % (max + 1) = n
<1>1. max + 1 \in Nat \ {0} /\ 0 <= n /\ n < max + 1
  OBVIOUS
<1>2. \A m \in Nat \ {0}, k \in Nat : k < m => k % m = k
  OBVIOUS
<1>3. QED BY <1>1, <1>2

LEMMA WrapKeeps ==
  ASSUME NEW max \in Nat, NEW n \in (-max - 1)..max
  PROVE  Wrap(n, max) = n
<1>1. PICK k : k = n + max + 1
  OBVIOUS
<1>2. PICK m : m = 2 * (max + 1)
  OBVIOUS
<1>3. k \in Nat /\ m \in Nat /\ m > 0 /\ k <= m - 1 /\ m - 1 \in Nat /\ (m - 1) + 1 = m
  BY <1>1, <1>2
<1>4. k % m = k
  BY <1>3, LowBitsKeep
<1>5. Wrap(n, max) = (k % m) - (max + 1)
  BY <1>1, <1>2 DEF Wrap
<1>6. QED BY <1>1, <1>4, <1>5

\* get<T> of a number.
LEMMA UnsignedServed ==
  ASSUME NEW v, WellFormed(v), IsNumberUnsigned(v)
  PROVE  /\ GetAsUint64(v) = v
         /\ GetAsUint32(v) # None /\ (v.num <= MaxUint32 => GetAsUint32(v) = v)
<1>1. v.num \in 0..MaxUnsigned /\ v = Unsigned(v.num) /\ IsNumberInteger(v) /\ MaxUnsigned \in Nat
  BY ValueParts, NumberAssumption DEF IsNumberUnsigned, IsNumberInteger
<1>2. /\ GetAsUint64(v) = Unsigned(v.num % (MaxUnsigned + 1))
      /\ GetAsUint32(v) = Unsigned(v.num % (MaxUint32 + 1))
  BY <1>1 DEF GetAsUint64, GetAsUint32, GetArithmetic, ToUint64, ToUint32,
     IsNumberFloat, IsNumberInteger, IsBoolean
<1>3. v.num % (MaxUnsigned + 1) = v.num
  BY <1>1, LowBitsKeep
<1>4. v.num <= MaxUint32 => v.num % (MaxUint32 + 1) = v.num
  BY <1>1, LowBitsKeep, WidthsAssumption
<1>5. \A n : Unsigned(n) # None
  BY DEF Unsigned, None
<1>6. QED BY <1>1, <1>2, <1>3, <1>4, <1>5

LEMMA WholeServed ==
  ASSUME NEW v, WellFormed(v), IsNumberInteger(v)
  PROVE  /\ v.num \in Int /\ -MaxSigned - 1 <= v.num
         /\ GetAsInt32(v) = Integer(Wrap(v.num, MaxInt32))
         /\ GetAsInt64(v) = Integer(Wrap(v.num, MaxSigned))
         /\ v.num \in (-MaxInt32 - 1)..MaxInt32 => GetAsInt32(v) = Integer(v.num)
         /\ v.num <= MaxSigned => GetAsInt64(v) = Integer(v.num)
<1>1. v.num \in Int /\ -MaxSigned - 1 <= v.num
  BY ValueParts, NumberAssumption DEF IsNumberInteger
<1>2. /\ GetAsInt32(v) = Integer(Wrap(v.num, MaxInt32))
      /\ GetAsInt64(v) = Integer(Wrap(v.num, MaxSigned))
  BY DEF GetAsInt32, GetAsInt64, GetArithmetic, ToInt32, ToInt64, IsNumberFloat,
     IsNumberInteger, IsBoolean
<1>3. v.num \in (-MaxInt32 - 1)..MaxInt32 => Wrap(v.num, MaxInt32) = v.num
  BY WrapKeeps, WidthsAssumption
<1>4. v.num <= MaxSigned => Wrap(v.num, MaxSigned) = v.num
  <2>1. v.num <= MaxSigned => v.num \in (-MaxSigned - 1)..MaxSigned
    BY <1>1, NumberAssumption
  <2>2. QED BY <2>1, WrapKeeps, NumberAssumption
<1>5. QED BY <1>1, <1>2, <1>3, <1>4

\* An integer that keeps its number is the same number.
LEMMA SameInteger ==
  ASSUME NEW v, IsNumberInteger(v)
  PROVE  SameNumber(Integer(v.num), v)
<1>1. PICK a : a = Integer(v.num)
  OBVIOUS
<1>2. a.type = "integer" /\ a.num = v.num
  BY <1>1 DEF Integer
<1>3. IsNumber(a) /\ ~IsNumberFloat(a) /\ ~IsNumberFloat(v)
  BY <1>2 DEF IsNumber, IsNumberInteger, IsNumberFloat
<1>4. NumbersEqual(a, v)
  BY <1>2, <1>3 DEF NumbersEqual
<1>5. QED BY <1>1, <1>3, <1>4 DEF SameNumber

LEMMA SameFloatServed ==
  /\ \A v : IsNumberFloat(v) => SameNumber(v, v)
  /\ \A v : IsNumberInteger(v) => SameNumber(AsFloat(v.num), v)
  /\ \A n : AsFloat(n) # None
<1>1. \A n : AsFloat(n).type = "float"
  <2>1. \A neg, whole, fraction, exp : Decimal(neg, whole, fraction, exp).type = "float"
    BY DEF Decimal, Float
  <2>2. QED BY <2>1 DEF AsFloat
<1>2. \A v : SameFloat(v, v)
  BY DEF SameFloat
<1>3. \A v : IsNumberFloat(v) => SameNumber(v, v)
  BY <1>2 DEF SameNumber, NumbersEqual, IsNumber, GetAsDouble
<1>4. ASSUME NEW v, IsNumberInteger(v) PROVE SameNumber(AsFloat(v.num), v)
  <2>1. PICK a : a = AsFloat(v.num)
    OBVIOUS
  <2>2. IsNumberFloat(a)
    BY <1>1, <2>1 DEF IsNumberFloat
  <2>3. GetAsDouble(a) = a
    BY <2>2 DEF GetAsDouble, IsNumberFloat, IsNumberInteger
  <2>4. GetAsDouble(v) = a
    BY <1>4, <2>1 DEF GetAsDouble, IsNumberFloat, IsNumberInteger
  <2>5. QED BY <1>2, <2>1, <2>2, <2>3, <2>4 DEF SameNumber, NumbersEqual, IsNumber
<1>5. \A n : AsFloat(n) # None
  BY <1>1 DEF None
<1>6. QED BY <1>3, <1>4, <1>5

\* The state that the lookups of a browser that is ready are made in.
Serving == Indexed /\ WellFormed(config)

LEMMA FoundIsPlain ==
  ASSUME HashesAreNumbers, SlotsAreUsed, Serving, NEW key \in Seq(Byte)
  PROVE  /\ Find(key) = Plain(config, key)
         /\ Plain(config, key) = None \/ WellFormed(Plain(config, key))
BY FindIsPlain, PlainWellFormed DEF Serving

LEMMA NumbersServed ==
  ASSUME HashesAreNumbers, SlotsAreUsed, Serving, NEW key \in Seq(Byte)
  PROVE  ServesNumbers(key)
<1>1. PICK v : v = Find(key) /\ v = Plain(config, key) /\ (v = None \/ WellFormed(v))
  BY FoundIsPlain
<1>2. \A n : Integer(n) # None
  BY DEF Integer, None
<1>3. \A w \in {<<GetUint64(key), MaxUnsigned>>, <<GetUint32(key), MaxUint32>>} :
        /\ w[1] # None <=> v # None /\ IsNumberUnsigned(v)
        /\ w[1] # None /\ v.num <= w[2] => w[1] = v
  <2>1. /\ GetUint64(key) = IF v # None /\ IsNumberUnsigned(v) THEN GetAsUint64(v) ELSE None
        /\ GetUint32(key) = IF v # None /\ IsNumberUnsigned(v) THEN GetAsUint32(v) ELSE None
    BY <1>1 DEF GetUint64, GetUint32, GetUintImpl
  <2>2. CASE v # None /\ IsNumberUnsigned(v)
    <3>1. /\ GetUint64(key) = v /\ GetUint32(key) # None
          /\ (v.num <= MaxUint32 => GetUint32(key) = v)
      BY <1>1, <2>1, <2>2, UnsignedServed
    <3>2. QED BY <2>2, <3>1
  <2>3. CASE ~(v # None /\ IsNumberUnsigned(v))
    <3>1. GetUint64(key) = None /\ GetUint32(key) = None
      BY <2>1, <2>3
    <3>2. QED BY <2>3, <3>1
  <2>4. QED BY <2>2, <2>3
<1>4. /\ GetInt32(key) # None <=> v # None /\ IsNumberInteger(v)
      /\ v # None /\ IsNumberInteger(v) /\ v.num \in (-MaxInt32 - 1)..MaxInt32 =>
           SameNumber(GetInt32(key), v)
  <2>1. GetInt32(key) = IF v # None /\ IsNumberInteger(v) THEN GetAsInt32(v) ELSE None
    BY <1>1 DEF GetInt32
  <2>2. QED BY <1>1, <1>2, <2>1, WholeServed, SameInteger
<1>5. /\ GetDouble(key) # None <=> v # None /\ IsNumber(v)
      /\ v # None /\ IsNumber(v) /\ (v # None /\ IsNumberInteger(v) => v.num <= MaxSigned) =>
           SameNumber(GetDouble(key), v)
  <2>1. CASE v = None
    BY <1>1, <2>1 DEF GetDouble, IsNumberFloat, IsNumberInteger, None
  <2>2. CASE v # None /\ IsNumberFloat(v)
    <3>1. GetDouble(key) = v
      BY <1>1, <2>2 DEF GetDouble, IsNumberFloat, IsNumberInteger
    <3>2. QED BY <2>2, <3>1, SameFloatServed DEF IsNumber, IsNumberFloat, IsNumberInteger
  <2>3. CASE v # None /\ IsNumberInteger(v)
    <3>1. GetDouble(key) = AsFloat(GetAsInt64(v).num)
      BY <1>1, <2>3 DEF GetDouble, IsNumberFloat, IsNumberInteger
    <3>2. v.num <= MaxSigned => GetAsInt64(v).num = v.num
      BY <1>1, <2>3, WholeServed DEF Integer
    <3>3. QED BY <2>3, <3>1, <3>2, SameFloatServed DEF IsNumber
  <2>4. CASE v # None /\ ~IsNumberFloat(v) /\ ~IsNumberInteger(v)
    <3>1. GetDouble(key) = None
      BY <1>1, <2>4 DEF GetDouble
    <3>2. QED BY <2>4, <3>1 DEF IsNumber
  <2>5. QED BY <2>1, <2>2, <2>3, <2>4
<1>6. QED BY <1>1, <1>3, <1>4, <1>5 DEF ServesNumbers

\* operator[] and find agree on which members there are.
LEMMA MemberOf ==
  ASSUME NEW v, v = None \/ WellFormed(v), NEW key
  PROVE  /\ HasMember(v, key) <=> IsObject(v) /\ key \in DOMAIN v.map
         /\ HasMember(v, key) => Member(v, key) = v.map[key]
<1>1. CASE ~IsObject(v)
  BY <1>1 DEF HasMember
<1>2. CASE IsObject(v)
  <2>1. KeysAreBytes(v)
    BY <1>2, PartsWellFormed DEF IsObject, None
  <2>2. /\ Size(v) \in Nat
        /\ \A n \in 1..Size(v) : KeyAt(v, n - 1) \in DOMAIN v.map
        /\ \A k \in DOMAIN v.map : \E n \in 1..Size(v) : KeyAt(v, n - 1) = k
    BY <1>2, <2>1, PlacesOf
  <2>3. End(v) = Size(v)
    BY <1>2 DEF End, IsObject
  <2>4. CASE key \notin DOMAIN v.map
    BY <1>2, <2>4 DEF HasMember, FindKey
  <2>5. CASE key \in DOMAIN v.map
    <3>1. FindKey(v, key) = CHOOSE it \in 0..(Size(v) - 1) : KeyAt(v, it) = key
      BY <1>2, <2>5 DEF FindKey
    <3>2. PICK n \in 1..Size(v) : KeyAt(v, n - 1) = key
      BY <2>2, <2>5
    <3>3. n - 1 \in 0..(Size(v) - 1)
      BY <2>2
    <3>4. FindKey(v, key) \in 0..(Size(v) - 1) /\ KeyAt(v, FindKey(v, key)) = key
      BY <3>1, <3>2, <3>3
    <3>5. FindKey(v, key) # End(v)
      BY <2>2, <2>3, <3>4
    <3>6. Deref(v, FindKey(v, key)) = v.map[key]
      BY <1>2, <3>4 DEF Deref, IsObject, IsArray
    <3>7. QED BY <1>2, <2>5, <3>5, <3>6 DEF HasMember, Member
  <2>6. QED BY <2>4, <2>5
<1>3. QED BY <1>1, <1>2

\* A range-based for passes over finitely many elements, those of a list in
\* their order.
LEMMA ElementsOf ==
  ASSUME NEW v, WellFormed(v)
  PROVE  /\ \E k \in Nat : DOMAIN Elements(v) = 1..k
         /\ IsArray(v) => /\ Len(v.items) \in Nat /\ DOMAIN Elements(v) = 1..Len(v.items)
                          /\ Len(Elements(v)) = Len(v.items)
                          /\ \A i \in 1..Len(v.items) : Elements(v)[i] = v.items[i]
<1>1. DOMAIN Elements(v) = 1..(End(v) - Begin(v))
  BY DEF Elements
<1>2. CASE v.type = "null"
  <2>1. End(v) = 1 /\ Begin(v) = 1
    BY <1>2 DEF End, Begin
  <2>2. QED BY <1>1, <1>2, <2>1 DEF IsArray
<1>3. CASE IsArray(v)
  <2>1. Begin(v) = 0 /\ End(v) = Len(v.items) /\ Len(v.items) \in Nat
    BY <1>3, PartsWellFormed DEF Begin, End, Size, IsArray, IsObject
  <2>2. ASSUME NEW i \in 1..Len(v.items) PROVE Elements(v)[i] = v.items[i]
    <3>1. Elements(v)[i] = Deref(v, 0 + i - 1)
      BY <1>1, <2>1 DEF Elements
    <3>2. (0 + i - 1) + 1 = i
      BY <2>1
    <3>3. QED BY <1>3, <3>1, <3>2 DEF Deref, IsArray, IsObject
  <2>3. DOMAIN Elements(v) = 1..Len(v.items)
    BY <1>1, <2>1
  <2>4. Len(Elements(v)) = Len(v.items)
    <3>1. Elements(v) = [n \in 1..Len(v.items) |-> Deref(v, Begin(v) + n - 1)]
      BY <2>1 DEF Elements
    <3>2. QED BY <2>1, <3>1
  <2>5. QED BY <2>1, <2>2, <2>3, <2>4
<1>4. CASE IsObject(v)
  <2>1. KeysAreBytes(v)
    BY <1>4, PartsWellFormed
  <2>2. Size(v) \in Nat
    BY <1>4, <2>1, PlacesOf
  <2>3. Begin(v) = 0 /\ End(v) = Size(v)
    BY <1>4 DEF Begin, End, IsObject
  <2>4. QED BY <1>1, <1>4, <2>2, <2>3 DEF IsArray, IsObject
<1>5. CASE v.type # "null" /\ ~IsArray(v) /\ ~IsObject(v)
  <2>1. Begin(v) = 0 /\ End(v) = 1
    BY <1>5 DEF Begin, End, Size
  <2>2. QED BY <1>1, <1>5, <2>1
<1>6. QED BY <1>2, <1>3, <1>4, <1>5

\* A boolean, a key and a rectangle.
LEMMA PlainlyServed ==
  ASSUME HashesAreNumbers, SlotsAreUsed, Serving, NEW key \in Seq(Byte)
  PROVE  /\ GetBool(key) <=> Plain(config, key) = Boolean(TRUE)
         /\ HasKey(key, config) <=> Plain(config, key) # None
         /\ GetRect(key, Fonts, key, Voices) # None
              <=> GetUint32(key) # None /\ GetUint32(Voices) # None
<1>1. PICK v : v = Find(key) /\ v = Plain(config, key)
  BY FoundIsPlain
<1>2. GetOptionalBool(key) = IF v # None /\ IsBoolean(v) THEN v ELSE None
  BY <1>1 DEF GetOptionalBool, GetAsBool
<1>3. IsBoolean(Boolean(TRUE)) /\ None # Boolean(TRUE)
  BY DEF IsBoolean, Boolean, None
<1>4. GetBool(key) <=> v = Boolean(TRUE)
  BY <1>2, <1>3 DEF GetBool
<1>5. HasKey(key, config) <=> v # None
  BY <1>1 DEF HasKey
<1>6. \A items : Array(items) # None
  BY DEF Array, None
<1>7. GetRect(key, Fonts, key, Voices) # None
        <=> GetUint32(key) # None /\ GetUint32(Voices) # None
  BY <1>6 DEF GetRect
<1>8. QED BY <1>1, <1>4, <1>5, <1>7

\* A WebGL parameter.
LEMMA ParameterServed ==
  ASSUME HashesAreNumbers, SlotsAreUsed, Serving,
         NEW pname \in 0..MaxUint32, NEW webGl2 \in BOOLEAN
  PROVE  ServesParameter(pname, webGl2)
<1>1. PICK v : v = FindGLParam(pname, webGl2)
  OBVIOUS
<1>2. v = None \/ WellFormed(v)
  <2>1. PICK name : name = IF webGl2 THEN Gl2Parameters ELSE GlParameters
    OBVIOUS
  <2>2. v = Plain(Plain(config, name), DumpInteger(pname))
    BY <1>1, <2>1, FindGLParamIsPlain DEF Serving
  <2>3. Plain(config, name) = None \/ WellFormed(Plain(config, name))
    BY PlainWellFormed DEF Serving
  <2>4. QED BY <2>2, <2>3, PlainWellFormed, NothingPlain
<1>3. PICK served : served = GLParam(pname, webGl2)
  OBVIOUS
<1>4. served = CASE v = None -> None
                 [] v.type = "null" -> v
                 [] IsNumberInteger(v) -> GetAsInt64(v)
                 [] v.type \in {"boolean", "float", "string"} -> v
                 [] OTHER -> None
  BY <1>1, <1>3 DEF GLParam
<1>5. None.type = "none" /\ \A n : Integer(n) # None
  BY DEF None, Integer
<1>6. CASE v = None
  <2>1. served = None
    BY <1>4, <1>5, <1>6 DEF IsNumberInteger
  <2>2. MParamGL(pname, Null, webGl2) = Null
    BY <1>1, <1>6 DEF MParamGL
  <2>3. QED BY <1>1, <1>3, <1>6, <2>1, <2>2 DEF ServesParameter
<1>7. CASE v # None /\ v.type \in {"null", "boolean", "float", "string"}
  <2>1. served = v
    BY <1>4, <1>7 DEF IsNumberInteger
  <2>2. ~IsArray(v) /\ ~IsObject(v) /\ (IsNumber(v) => IsNumberFloat(v))
    BY <1>7 DEF IsArray, IsObject, IsNumber, IsNumberInteger
  <2>3. QED BY <1>1, <1>3, <1>7, <2>1, <2>2, SameFloatServed DEF ServesParameter
<1>8. CASE v # None /\ v.type \in {"unsigned", "integer"}
  <2>1. served = GetAsInt64(v) /\ IsNumberInteger(v)
    BY <1>4, <1>8 DEF IsNumberInteger
  <2>2. served # None /\ (v.num <= MaxSigned => SameNumber(served, v))
    BY <1>2, <1>5, <1>8, <2>1, WholeServed, SameInteger
  <2>3. ~IsArray(v) /\ ~IsObject(v) /\ IsNumber(v)
    BY <1>8 DEF IsArray, IsObject, IsNumber, IsNumberInteger
  <2>4. QED BY <1>1, <1>3, <1>8, <2>1, <2>2, <2>3 DEF ServesParameter
<1>9. CASE v # None /\ v.type \in {"array", "object"}
  <2>1. served = None
    BY <1>4, <1>9 DEF IsNumberInteger
  <2>2. QED BY <1>1, <1>3, <1>9, <2>1 DEF ServesParameter, IsArray, IsObject
<1>10. QED BY <1>2, <1>6, <1>7, <1>8, <1>9, ValueParts

\* The fonts, in any case of their letters.
LEMMA FontsServed ==
  ASSUME HashesAreNumbers, SlotsAreUsed, Serving
  PROVE  ServesFonts
<1>1. Fonts \in Seq(Byte)
  BY NamesAssumption DEF Byte
<1>2. PICK v : v = Find(Fonts) /\ v = Plain(config, Fonts) /\ (v = None \/ WellFormed(v))
  BY <1>1, FoundIsPlain
<1>3. PICK items : items = IF v = None THEN <<>> ELSE Elements(v)
  OBVIOUS
<1>4. PICK k \in Nat : DOMAIN items = 1..k
  <2>1. CASE v = None
    BY <1>3, <2>1
  <2>2. CASE v # None
    BY <1>2, <1>3, <2>2, ElementsOf
  <2>3. QED BY <2>1, <2>2
<1>5. PICK texts : texts = [i \in 1..k |-> GetAsString(items[i])]
  OBVIOUS
<1>6. GetStringList(Fonts) = IF \E i \in 1..k : IsThrow(texts[i]) THEN Throw ELSE Array(texts)
  <2>1. texts = [i \in DOMAIN items |-> GetAsString(items[i])] /\ DOMAIN texts = 1..k
    BY <1>4, <1>5
  <2>2. QED BY <1>2, <1>3, <2>1 DEF GetStringList
<1>7. \A i \in 1..k : /\ IsThrow(texts[i]) <=> ~IsString(items[i])
                      /\ IsString(items[i]) => texts[i] = items[i]
  BY <1>5 DEF GetAsString, IsThrow, IsString, Throw
<1>8. IsThrow(Throw) /\ \A s : ~IsThrow(Array(s)) /\ Array(s).items = s
  BY DEF IsThrow, Throw, Array
<1>9. CASE \E i \in 1..k : IsThrow(texts[i])
  <2>1. FontAllowlist = Throw
    BY <1>6, <1>8, <1>9 DEF FontAllowlist
  <2>2. v # None
    <3>1. v = None => DOMAIN items = {}
      BY <1>3
    <3>2. QED BY <1>4, <1>9, <3>1
  <2>3. items = Elements(v)
    BY <1>3, <2>2
  <2>4. QED BY <1>2, <1>4, <1>7, <1>8, <1>9, <2>1, <2>2, <2>3 DEF ServesFonts
<1>10. CASE ~\E i \in 1..k : IsThrow(texts[i])
  <2>1. PICK list : list = [i \in 1..k |-> Text(Lower(texts[i].text))]
    OBVIOUS
  <2>2. FontAllowlist = Array(list)
    <3>1. GetStringList(Fonts) = Array(texts)
      BY <1>6, <1>10
    <3>2. DOMAIN texts = 1..k
      BY <1>5
    <3>3. QED BY <1>8, <2>1, <3>1, <3>2 DEF FontAllowlist
  <2>3. CASE v = None
    <3>1. DOMAIN items = {}
      BY <1>3, <2>3
    <3>2. k = 0
      BY <1>4, <3>1
    <3>3. list = <<>>
      BY <2>1, <3>2
    <3>4. QED BY <1>2, <2>2, <2>3, <3>3 DEF ServesFonts
  <2>4. CASE v # None
    <3>1. items = Elements(v)
      BY <1>3, <2>4
    <3>2. ASSUME NEW i \in 1..k PROVE IsFontAllowed(Lower(items[i].text))
      <4>1. list[i] = Text(Lower(items[i].text)) /\ Len(list) = k
        BY <1>7, <1>10, <2>1
      <4>2. Contains(list, Text(Lower(items[i].text)))
        BY <4>1 DEF Contains
      <4>3. QED BY <1>8, <2>2, <4>2 DEF IsFontAllowed
    <3>3. ~IsThrow(FontAllowlist) /\ \A i \in 1..k : IsString(items[i])
      BY <1>7, <1>8, <1>10, <2>2
    <3>4. QED BY <1>2, <1>4, <2>4, <3>1, <3>2, <3>3 DEF ServesFonts
  <2>5. QED BY <2>3, <2>4
<1>11. QED BY <1>9, <1>10

\* The range of ports follows the platform.
LEMMA PortsServed ==
  ASSUME HashesAreNumbers, SlotsAreUsed, Serving
  PROVE  SpoofedEphemeralPorts(GetSpoofedOS) # <<>> <=>
           LET platform == Plain(config, Platform)
           IN platform # None /\ IsString(platform)
                /\ (platform.text \in {Windows, MacOS} \/ IsPrefix(Linux, platform.text))
<1>1. PICK v : v = Find(Platform) /\ v = Plain(config, Platform)
  BY NamesAssumption, FoundIsPlain DEF Byte
<1>2. /\ SpoofedEphemeralPorts("Windows") # <<>> /\ SpoofedEphemeralPorts("MacOS") # <<>>
      /\ SpoofedEphemeralPorts("Linux") # <<>> /\ SpoofedEphemeralPorts("Other") = <<>>
      /\ SpoofedEphemeralPorts("None") = <<>> /\ SpoofedEphemeralPorts("Throw") = <<>>
  <2>1. <<49152, 65535>> # <<>> /\ <<32768, 60999>> # <<>>
    OBVIOUS
  <2>2. QED BY <2>1 DEF SpoofedEphemeralPorts
<1>3. PICK platform : platform = GetString(Platform)
  OBVIOUS
<1>4. platform = IF v = None THEN None ELSE IF IsString(v) THEN v ELSE Throw
  BY <1>1, <1>3 DEF GetString, Having, GetAsString
<1>5. GetSpoofedOS = CASE platform = None -> "None"
                       [] platform = Throw -> "Throw"
                       [] OTHER -> SpoofedOSFor(platform.text)
  BY <1>3 DEF GetSpoofedOS
<1>6. None # Throw
  BY DEF None, Throw
<1>7. CASE v = None
  BY <1>1, <1>2, <1>4, <1>5, <1>6, <1>7
<1>8. CASE v # None /\ ~IsString(v)
  BY <1>1, <1>2, <1>4, <1>5, <1>6, <1>8
<1>9. CASE v # None /\ IsString(v)
  <2>1. platform = v /\ v # Throw
    BY <1>4, <1>9 DEF IsString, Throw
  <2>2. GetSpoofedOS = SpoofedOSFor(v.text)
    BY <1>5, <1>9, <2>1
  <2>3. SpoofedEphemeralPorts(SpoofedOSFor(v.text)) # <<>>
          <=> v.text \in {Windows, MacOS} \/ IsPrefix(Linux, v.text)
    BY <1>2 DEF SpoofedOSFor
  <2>4. QED BY <1>1, <1>9, <2>2, <2>3
<1>10. QED BY <1>7, <1>8, <1>9

\* A number of a format, or what stops the process.
LEMMA ExtentServed ==
  ASSUME NEW v, WellFormed(v)
  PROVE  /\ IsThrow(GetAsInt32(v)) <=> ~IsNumber(v) /\ ~IsBoolean(v)
         /\ IsNumberInteger(v) /\ v.num \in (-MaxInt32 - 1)..MaxInt32 =>
              SameNumber(GetAsInt32(v), v)
<1>1. IsThrow(Throw) /\ \A n : ~IsThrow(Integer(n))
  BY DEF IsThrow, Throw, Integer
<1>2. CASE IsNumberInteger(v)
  BY <1>1, <1>2, WholeServed, SameInteger DEF IsNumber
<1>3. CASE IsNumberFloat(v)
  <2>1. GetAsInt32(v) = Integer(Wrap(Truncated(v), MaxInt32))
    BY <1>3 DEF GetAsInt32, GetArithmetic, ToInt32, IsNumberFloat, IsNumberInteger, IsBoolean
  <2>2. ~IsNumberInteger(v)
    BY <1>3 DEF IsNumberFloat, IsNumberInteger
  <2>3. QED BY <1>1, <1>3, <2>1, <2>2 DEF IsNumber
<1>4. CASE IsBoolean(v)
  <2>1. GetAsInt32(v) = Integer(Wrap(IF v.bool THEN 1 ELSE 0, MaxInt32))
    BY <1>4 DEF GetAsInt32, GetArithmetic, ToInt32, IsNumberFloat, IsNumberInteger, IsBoolean
  <2>2. ~IsNumberInteger(v)
    BY <1>4 DEF IsBoolean, IsNumberInteger
  <2>3. QED BY <1>1, <1>4, <2>1, <2>2
<1>5. CASE ~IsNumberInteger(v) /\ ~IsNumberFloat(v) /\ ~IsBoolean(v)
  <2>1. GetAsInt32(v) = Throw
    BY <1>5 DEF GetAsInt32, GetArithmetic
  <2>2. QED BY <1>1, <1>5, <2>1 DEF IsNumber
<1>6. QED BY <1>2, <1>3, <1>4, <1>5

\* The name of a format is a byte string.
LEMMA FormatName ==
  ASSUME NEW shaderType \in 0..1, NEW precisionType \in 0..3
  PROVE  DumpInteger(shaderType) \o <<44>> \o DumpInteger(precisionType) \in Seq(Byte)
<1>1. ASSUME NEW n \in 0..9 PROVE DumpInteger(n) \in Seq(Byte)
  <2>1. n \in Nat /\ n < 10
    OBVIOUS
  <2>2. DumpInteger(n) = <<48 + n>>
    BY <2>1, DumpIntegerStep
  <2>3. 48 + n \in Byte
    BY DEF Byte
  <2>4. <<48 + n>> \in Seq(Byte)
    BY <2>3
  <2>5. QED BY <2>2, <2>4
<1>2. shaderType \in 0..9 /\ precisionType \in 0..9 /\ 44 \in Byte
  BY DEF Byte
<1>3. \A a, b \in Seq(Byte), c \in Byte : a \o <<c>> \o b \in Seq(Byte)
  OBVIOUS
<1>4. QED BY <1>1, <1>2, <1>3

LEMMA FormatServed ==
  ASSUME HashesAreNumbers, SlotsAreUsed, Serving,
         NEW shaderType \in 0..1, NEW precisionType \in 0..3, NEW webGl2 \in BOOLEAN
  PROVE  ServesFormat(shaderType, precisionType, webGl2)
<1>1. PICK domain \in Seq(Byte) : domain = IF webGl2 THEN Gl2Formats ELSE GlFormats
  BY NamesAssumption DEF Byte
<1>2. PICK name \in Seq(Byte) :
        name = DumpInteger(shaderType) \o <<44>> \o DumpInteger(precisionType)
  BY FormatName
<1>3. PICK data : /\ data = FindNested(domain, name)
                  /\ data = Plain(Plain(config, domain), name)
  BY FindNestedIsPlain DEF Serving
<1>4. data = None \/ WellFormed(data)
  <2>1. Plain(config, domain) = None \/ WellFormed(Plain(config, domain))
    BY PlainWellFormed DEF Serving
  <2>2. QED BY <1>3, <2>1, PlainWellFormed, NothingPlain
<1>5. PICK format : format = MShaderData(shaderType, precisionType, webGl2)
  OBVIOUS
<1>6. format = IF data = None \/ \E i \in DOMAIN Extents : ~HasMember(data, Extents[i]) THEN None
               ELSE Array([i \in DOMAIN Extents |-> GetAsInt32(Member(data, Extents[i]))])
  BY <1>1, <1>2, <1>3, <1>5 DEF MShaderData
<1>7. \A key : /\ HasMember(data, key) <=> IsObject(data) /\ key \in DOMAIN data.map
               /\ HasMember(data, key) => Member(data, key) = data.map[key]
  BY <1>4, MemberOf
<1>8. \A s : Array(s) # None /\ Array(s).items = s
  BY DEF Array, None
<1>9. ~IsObject(None)
  BY DEF IsObject, None
<1>10. format # None <=> IsObject(data) /\ Range(Extents) \subseteq DOMAIN data.map
  <2>1. Range(Extents) \subseteq DOMAIN data.map
          <=> \A i \in DOMAIN Extents : Extents[i] \in DOMAIN data.map
    BY DEF Range
  <2>2. DOMAIN Extents # {}
    BY NamesAssumption
  <2>3. format # None <=> data # None /\ \A i \in DOMAIN Extents : HasMember(data, Extents[i])
    BY <1>6, <1>8
  <2>4. QED BY <1>7, <1>9, <2>1, <2>2, <2>3
<1>11. ASSUME format # None, NEW i \in DOMAIN Extents
       PROVE  /\ IsThrow(format.items[i]) <=>
                   ~IsNumber(data.map[Extents[i]]) /\ ~IsBoolean(data.map[Extents[i]])
              /\ IsNumberInteger(data.map[Extents[i]])
                   /\ data.map[Extents[i]].num \in (-MaxInt32 - 1)..MaxInt32 =>
                     SameNumber(format.items[i], data.map[Extents[i]])
  <2>1. format = Array([j \in DOMAIN Extents |-> GetAsInt32(Member(data, Extents[j]))])
        /\ HasMember(data, Extents[i])
    BY <1>6, <1>11
  <2>2. format.items[i] = GetAsInt32(Member(data, Extents[i]))
    BY <1>8, <2>1
  <2>3. PICK given : given = data.map[Extents[i]] /\ given = Member(data, Extents[i])
    BY <1>7, <2>1
  <2>4. WellFormed(given)
    BY <1>4, <1>7, <1>9, <2>1, <2>3, PartsWellFormed
  <2>5. QED BY <2>2, <2>3, <2>4, ExtentServed
<1>12. QED BY <1>1, <1>2, <1>3, <1>5, <1>10, <1>11 DEF ServesFormat

\* The members of a set of numbers up to one, and how many they are.
MembersTo(whole, n) == {j \in whole : j <= n}
Upto(whole, n) == Cardinality(MembersTo(whole, n))

Counted(whole, N) ==
  /\ \A n \in 0..N : Upto(whole, n) \in Nat
  /\ Upto(whole, 0) = 0 /\ Upto(whole, N) = Cardinality(whole)
  /\ \A n \in 1..N : Upto(whole, n) = Upto(whole, n - 1) + (IF n \in whole THEN 1 ELSE 0)
  /\ \A i \in whole, n \in 1..N :
       i <= n => 1 <= Upto(whole, i) /\ Upto(whole, i) <= Upto(whole, n)

LEMMA MembersCounted ==
  ASSUME NEW N \in Nat, NEW whole, whole \subseteq 1..N
  PROVE  Counted(whole, N)
<1>1. IsFiniteSet(whole)
  <2>1. IsFiniteSet(1..N)
    BY FS_Interval
  <2>2. QED BY <2>1, FS_Subset
<1>2. \A n : IsFiniteSet(MembersTo(whole, n)) /\ Upto(whole, n) \in Nat
  <2>1. \A n : MembersTo(whole, n) \subseteq whole
    BY DEF MembersTo
  <2>2. \A n : IsFiniteSet(MembersTo(whole, n))
    BY <1>1, <2>1, FS_Subset
  <2>3. QED BY <2>2, FS_CardinalityType DEF Upto
<1>3. \A j \in whole : j \in Int /\ 1 <= j /\ j <= N
  OBVIOUS
<1>4. MembersTo(whole, 0) = {} /\ MembersTo(whole, N) = whole
  <2>1. \A j \in whole : ~(j <= 0) /\ j <= N
    BY <1>3
  <2>2. QED BY <2>1 DEF MembersTo
<1>5. Upto(whole, 0) = 0 /\ Upto(whole, N) = Cardinality(whole)
  BY <1>4, FS_EmptySet DEF Upto
<1>6. ASSUME NEW n \in 1..N
      PROVE  Upto(whole, n) = Upto(whole, n - 1) + (IF n \in whole THEN 1 ELSE 0)
  <2>1. \A j \in whole : j <= n <=> j <= n - 1 \/ j = n
    BY <1>3
  <2>2. n \in whole => /\ MembersTo(whole, n) = MembersTo(whole, n - 1) \cup {n}
                       /\ n \notin MembersTo(whole, n - 1)
    <3>1. ~(n <= n - 1) /\ n <= n
      OBVIOUS
    <3>2. QED BY <2>1, <3>1 DEF MembersTo
  <2>3. n \notin whole => MembersTo(whole, n) = MembersTo(whole, n - 1)
    BY <2>1 DEF MembersTo
  <2>4. CASE n \in whole
    <3>1. Cardinality(MembersTo(whole, n - 1) \cup {n}) = Cardinality(MembersTo(whole, n - 1)) + 1
      BY <1>2, <2>2, <2>4, FS_AddElement
    <3>2. QED BY <2>2, <2>4, <3>1 DEF Upto
  <2>5. CASE n \notin whole
    BY <1>2, <2>3, <2>5 DEF Upto
  <2>6. QED BY <2>4, <2>5
<1>7. ASSUME NEW i \in whole, NEW n \in 1..N, i <= n
      PROVE  1 <= Upto(whole, i) /\ Upto(whole, i) <= Upto(whole, n)
  <2>1. \A j \in whole : (j <= i => j <= n) /\ i <= i
    BY <1>7, <1>3
  <2>2. MembersTo(whole, i) \subseteq MembersTo(whole, n) /\ i \in MembersTo(whole, i)
    BY <2>1 DEF MembersTo
  <2>3. Upto(whole, i) <= Upto(whole, n)
    BY <1>2, <2>2, FS_Subset DEF Upto
  <2>4. Upto(whole, i) # 0
    BY <1>2, <2>2, FS_EmptySet DEF Upto
  <2>5. QED BY <1>2, <2>3, <2>4
<1>8. QED BY <1>2, <1>5, <1>6, <1>7 DEF Counted

\* The list after each voice.
ListsOf(voices, N, listed) ==
  listed = [n \in 0..N |->
              IF n = 0 THEN <<>>
              ELSE IF CompleteVoice(voices[n]) THEN Append(listed[n - 1], VoiceOf(voices[n]))
              ELSE listed[n - 1]]

LEMMA ListsExist ==
  ASSUME NEW voices, NEW N \in Nat
  PROVE  \E listed : ListsOf(voices, N, listed)
<1> DEFINE X == Seq({VoiceOf(voices[i]) : i \in 1..N})
           step == [x \in (1..N) \X X |->
                      IF CompleteVoice(voices[x[1]]) THEN Append(x[2], VoiceOf(voices[x[1]]))
                      ELSE x[2]]
<1>1. step \in Steps(N, X)
  <2>1. ASSUME NEW i \in 1..N, NEW s \in X
        PROVE  Append(s, VoiceOf(voices[i])) \in X
    OBVIOUS
  <2> HIDE DEF X
  <2>2. QED BY <2>1 DEF Steps
<1>2. <<>> \in X
  OBVIOUS
<1>3. \A i \in 1..N, s \in X :
        step[<<i, s>>] = IF CompleteVoice(voices[i]) THEN Append(s, VoiceOf(voices[i])) ELSE s
  OBVIOUS
<1> HIDE DEF X, step
<1>4. PICK f : Recursive(f, N, X, <<>>, step)
  BY <1>1, <1>2, Recursion
<1>5. f \in [0..N -> X] /\ f[0] = <<>> /\ \A i \in 1..N : f[i] = step[<<i, f[i - 1]>>]
  BY <1>4 DEF Recursive
<1>6. \A i \in 1..N : f[i - 1] \in X
  BY <1>5
<1>7. \A i \in 1..N : f[i] = IF CompleteVoice(voices[i]) THEN Append(f[i - 1], VoiceOf(voices[i]))
                             ELSE f[i - 1]
  BY <1>3, <1>5, <1>6
<1>8. f = [n \in 0..N |->
             IF n = 0 THEN <<>>
             ELSE IF CompleteVoice(voices[n]) THEN Append(f[n - 1], VoiceOf(voices[n]))
             ELSE f[n - 1]]
  <2> DEFINE g == [n \in 0..N |->
                     IF n = 0 THEN <<>>
                     ELSE IF CompleteVoice(voices[n]) THEN Append(f[n - 1], VoiceOf(voices[n]))
                     ELSE f[n - 1]]
  <2>1. ASSUME NEW n \in 0..N PROVE f[n] = g[n]
    <3>1. CASE n = 0
      BY <1>5, <3>1
    <3>2. CASE n # 0
      <4>1. n \in 1..N
        BY <3>2
      <4>2. QED BY <1>7, <3>2, <4>1
    <3>3. QED BY <3>1, <3>2
  <2>2. f = [n \in 0..N |-> f[n]]
    BY <1>5
  <2>3. g = [n \in 0..N |-> g[n]]
    OBVIOUS
  <2> HIDE DEF g
  <2>4. f = g
    BY <2>1, <2>2, <2>3
  <2>5. QED BY <2>4 DEF g
<1>9. QED BY <1>8 DEF ListsOf

\* What is listed up to a voice: the complete ones, each at its place.
ListedTo(voices, N, whole, listed, n) ==
  /\ listed[n] \in Seq({VoiceOf(voices[i]) : i \in 1..N})
  /\ Len(listed[n]) = Upto(whole, n)
  /\ \A i \in whole : i <= n => listed[n][Upto(whole, i)] = VoiceOf(voices[i])

LEMMA ListedInOrder ==
  ASSUME NEW voices, NEW N \in Nat, NEW listed, ListsOf(voices, N, listed),
         NEW whole, whole = {i \in 1..N : CompleteVoice(voices[i])}
  PROVE  ListedTo(voices, N, whole, listed, N) /\ Len(listed[N]) = Cardinality(whole)
<1>1. /\ \A n \in 0..N : Upto(whole, n) \in Nat
      /\ Upto(whole, 0) = 0 /\ Upto(whole, N) = Cardinality(whole)
      /\ \A n \in 1..N : Upto(whole, n) = Upto(whole, n - 1) + (IF n \in whole THEN 1 ELSE 0)
      /\ \A i \in whole, n \in 1..N :
           i <= n => 1 <= Upto(whole, i) /\ Upto(whole, i) <= Upto(whole, n)
  <2>1. whole \subseteq 1..N
    OBVIOUS
  <2>2. Counted(whole, N)
    BY <2>1, MembersCounted
  <2>3. QED BY <2>2 DEF Counted
<1> DEFINE V == {VoiceOf(voices[i]) : i \in 1..N}
           f == [n \in 0..N |->
                   IF n = 0 THEN <<>>
                   ELSE IF CompleteVoice(voices[n]) THEN Append(listed[n - 1], VoiceOf(voices[n]))
                   ELSE listed[n - 1]]
           P == {n \in 0..N : ListedTo(voices, N, whole, listed, n)}
<1>2. listed = f
  BY DEF ListsOf
<1>3. /\ f[0] = <<>>
      /\ \A n \in 1..N : f[n] = IF CompleteVoice(voices[n])
                                  THEN Append(listed[n - 1], VoiceOf(voices[n]))
                                  ELSE listed[n - 1]
  OBVIOUS
<1>4. /\ \A i \in 1..N : i \in whole <=> CompleteVoice(voices[i])
      /\ \A i \in whole : i \in 1..N
      /\ \A i \in 1..N : VoiceOf(voices[i]) \in V
  OBVIOUS
<1> HIDE DEF f, V
<1>5. 0 \in P
  <2>1. listed[0] = <<>> /\ <<>> \in Seq(V) /\ Len(<<>>) = 0
    BY <1>2, <1>3
  <2>2. \A i \in whole : ~(i <= 0)
    BY <1>4
  <2>3. Len(listed[0]) = Upto(whole, 0)
    BY <1>1, <2>1
  <2>4. ListedTo(voices, N, whole, listed, 0)
    BY <2>1, <2>2, <2>3 DEF ListedTo, V
  <2>5. QED BY <2>4
<1>6. ASSUME NEW n \in 1..N, n - 1 \in P PROVE n \in P
  <2>1. ListedTo(voices, N, whole, listed, n - 1)
    BY <1>6
  <2>2. PICK s \in Seq(V) : s = listed[n - 1]
    BY <2>1 DEF ListedTo, V
  <2>3. /\ Len(s) = Upto(whole, n - 1)
        /\ \A i \in whole : i <= n - 1 => s[Upto(whole, i)] = VoiceOf(voices[i])
    BY <2>1, <2>2 DEF ListedTo
  <2>4. CASE n \notin whole
    <3>1. listed[n] = s /\ Upto(whole, n) = Upto(whole, n - 1)
      BY <1>1, <1>2, <1>3, <1>4, <2>2, <2>4
    <3>2. \A i \in whole : i <= n => i <= n - 1
      BY <1>4, <2>4
    <3>3. ListedTo(voices, N, whole, listed, n)
      BY <2>3, <3>1, <3>2 DEF ListedTo, V
    <3>4. QED BY <3>3
  <2>5. CASE n \in whole
    <3>1. PICK v \in V : v = VoiceOf(voices[n])
      BY <1>4
    <3>2. listed[n] = Append(s, v) /\ Upto(whole, n) = Upto(whole, n - 1) + 1
      BY <1>1, <1>2, <1>3, <1>4, <2>2, <2>5, <3>1
    <3>3. Append(s, v) \in Seq(V) /\ Len(Append(s, v)) = Len(s) + 1
          /\ Append(s, v)[Len(s) + 1] = v /\ \A i \in 1..Len(s) : Append(s, v)[i] = s[i]
      OBVIOUS
    <3>4. ASSUME NEW i \in whole, i <= n PROVE listed[n][Upto(whole, i)] = VoiceOf(voices[i])
      <4>1. CASE i = n
        BY <2>3, <3>1, <3>2, <3>3, <4>1
      <4>2. CASE i # n
        <5>1. i <= n - 1 /\ n - 1 \in 1..N
          BY <1>4, <3>4, <4>2
        <5>2. Upto(whole, i) \in 1..Len(s)
          BY <1>1, <1>4, <2>3, <5>1
        <5>3. QED BY <2>3, <3>2, <3>3, <5>1, <5>2
      <4>3. QED BY <4>1, <4>2
    <3>5. ListedTo(voices, N, whole, listed, n)
      BY <2>3, <3>2, <3>3, <3>4 DEF ListedTo, V
    <3>6. QED BY <3>5
  <2>6. QED BY <2>4, <2>5
<1> HIDE DEF P
<1>7. 0..N \subseteq P
  BY <1>5, <1>6, BoundedInduction
<1>8. N \in P
  BY <1>7
<1>9. ListedTo(voices, N, whole, listed, N)
  BY <1>8 DEF P
<1>10. QED BY <1>1, <1>9 DEF ListedTo

\* A field of a voice.
LEMMA FieldServed ==
  ASSUME NEW v, WellFormed(v), CompleteVoice(v), NEW f \in DOMAIN VoiceFields
  PROVE  IF v.map[f].type = VoiceFields[f] THEN VoiceOf(v).map[f] = v.map[f]
         ELSE IsThrow(VoiceOf(v).map[f])
<1>1. Member(v, f) = v.map[f]
  BY MemberOf DEF CompleteVoice
<1>2. VoiceOf(v).map[f] = IF VoiceFields[f] = "string" THEN GetAsString(v.map[f])
                          ELSE GetAsBool(v.map[f])
  BY <1>1 DEF VoiceOf, Object
<1>3. VoiceFields[f] \in {"string", "boolean"}
  BY NamesAssumption
<1>4. QED BY <1>2, <1>3 DEF GetAsString, GetAsBool, IsString, IsBoolean, IsThrow, Throw

LEMMA VoicesServed ==
  ASSUME HashesAreNumbers, SlotsAreUsed, Serving
  PROVE  ServesVoices
<1> SUFFICES ASSUME MVoices # None PROVE ServesVoices
  BY DEF ServesVoices
<1>1. HasMember(config, Voices) /\ IsArray(Member(config, Voices))
  BY DEF MVoices
<1>2. PICK list : list = config.map[Voices] /\ list = Member(config, Voices) /\ IsArray(list)
  BY <1>1, MemberOf DEF Serving
<1>3. WellFormed(list)
  BY <1>1, <1>2, MemberOf, PartsWellFormed DEF Serving
<1>4. PICK voices : voices = Elements(list)
  OBVIOUS
<1> DEFINE N == Len(list.items)
<1>5. N \in Nat /\ DOMAIN voices = 1..N /\ Len(voices) = N
  BY <1>2, <1>3, <1>4, ElementsOf
<1>6. \A i \in 1..N : WellFormed(voices[i])
  BY <1>2, <1>3, <1>4, ElementsOf, PartsWellFormed
<1> HIDE DEF N
<1> DEFINE listed == CHOOSE listed : listed = [n \in 0..Len(voices) |->
                       IF n = 0 THEN <<>>
                       ELSE IF CompleteVoice(voices[n])
                              THEN Append(listed[n - 1], VoiceOf(voices[n]))
                       ELSE listed[n - 1]]
<1>7. MVoices = Array(listed[Len(voices)])
  BY <1>1, <1>2, <1>4 DEF MVoices
<1>8. ListsOf(voices, N, listed)
  <2>1. \E l : l = [n \in 0..Len(voices) |->
                      IF n = 0 THEN <<>>
                      ELSE IF CompleteVoice(voices[n]) THEN Append(l[n - 1], VoiceOf(voices[n]))
                      ELSE l[n - 1]]
    <3>1. PICK l : ListsOf(voices, Len(voices), l)
      BY ListsExist, <1>2, <1>5
    <3>2. QED BY <3>1 DEF ListsOf
  <2>2. QED BY <1>5, <2>1 DEF ListsOf
<1> HIDE DEF listed
<1>9. PICK whole : whole = {i \in 1..N : CompleteVoice(voices[i])}
  OBVIOUS
<1>10. /\ Len(listed[N]) = Cardinality(whole)
       /\ \A i \in whole : listed[N][Upto(whole, i)] = VoiceOf(voices[i])
  <2>1. ListedTo(voices, N, whole, listed, N) /\ Len(listed[N]) = Cardinality(whole)
    BY <1>5, <1>8, <1>9, ListedInOrder
  <2>2. \A i \in whole : i <= N
    BY <1>5, <1>9
  <2>3. QED BY <2>1, <2>2 DEF ListedTo
<1>11. \A i \in 1..N : CompleteVoice(voices[i])
         <=> IsObject(voices[i]) /\ DOMAIN VoiceFields \subseteq DOMAIN voices[i].map
  <2>1. ASSUME NEW i \in 1..N
        PROVE  CompleteVoice(voices[i])
                 <=> IsObject(voices[i]) /\ DOMAIN VoiceFields \subseteq DOMAIN voices[i].map
    <3>1. \A f : HasMember(voices[i], f) <=> IsObject(voices[i]) /\ f \in DOMAIN voices[i].map
      BY <1>6, MemberOf
    <3>2. QED BY <3>1, NamesAssumption DEF CompleteVoice
  <2>2. QED BY <2>1
<1>12. whole = {i \in DOMAIN voices : IsObject(voices[i])
                                        /\ DOMAIN VoiceFields \subseteq DOMAIN voices[i].map}
  BY <1>5, <1>9, <1>11
<1>13. MVoices.items = listed[N]
  BY <1>5, <1>7 DEF Array
<1>14. ASSUME NEW i \in whole, NEW f \in DOMAIN VoiceFields
       PROVE  LET field == MVoices.items[Cardinality({j \in whole : j <= i})].map[f]
              IN IF voices[i].map[f].type = VoiceFields[f] THEN field = voices[i].map[f]
                 ELSE IsThrow(field)
  <2>1. WellFormed(voices[i]) /\ CompleteVoice(voices[i])
    BY <1>6, <1>9
  <2>2. MVoices.items[Cardinality({j \in whole : j <= i})] = VoiceOf(voices[i])
    BY <1>10, <1>13 DEF Upto, MembersTo
  <2>3. QED BY <2>1, <2>2, FieldServed
<1>15. Len(MVoices.items) = Cardinality(whole)
  BY <1>10, <1>13
<1>16. QED BY <1>2, <1>4, <1>12, <1>14, <1>15 DEF ServesVoices

\* Once the index is built, every getter serves what the configuration holds.
LEMMA ServingServes ==
  ASSUME HashesAreNumbers, SlotsAreUsed, phase = "ready" => Serving
  PROVE  GettersServe
<1> SUFFICES ASSUME phase = "ready" PROVE GettersServe
  BY DEF GettersServe
<1>1. Serving /\ Names \subseteq Seq(Byte)
  BY NamesAreBytes DEF Serving, Indexed
<1>2. \A key \in Names :
        /\ ServesNumbers(key)
        /\ GetBool(key) <=> Plain(config, key) = Boolean(TRUE)
        /\ HasKey(key, config) <=> Plain(config, key) # None
        /\ GetRect(key, Fonts, key, Voices) # None
             <=> GetUint32(key) # None /\ GetUint32(Voices) # None
  BY <1>1, NumbersServed, PlainlyServed
<1>3. \A pname \in 0..MaxUint32, webGl2 \in BOOLEAN : ServesParameter(pname, webGl2)
  BY <1>1, ParameterServed
<1>4. ServesVoices /\ ServesFonts
  BY <1>1, VoicesServed, FontsServed
<1>5. \A shaderType \in 0..1, precisionType \in 0..3, webGl2 \in BOOLEAN :
        ServesFormat(shaderType, precisionType, webGl2)
  BY <1>1, FormatServed
<1>6. QED BY <1>1, <1>2, <1>3, <1>4, <1>5, PortsServed DEF GettersServe

\* GettersServe in every reachable state: whatever is in the variables, each typed
\* getter of MaskConfig.hpp serves the value of the text or nothing, and throws
\* only where the code reads a value without a check of its type.
THEOREM GettersTheorem ==
  ASSUME HashesAreNumbers, SlotsAreUsed
  PROVE  Spec => []GettersServe
<1>1. Init => LookupsInv
  BY LookupsInit
<1>2. LookupsInv /\ [Next]_vars => LookupsInv'
  BY LookupsStep
<1>3. LookupsInv => GettersServe
  BY WellFormedTwoDeep, ServingServes DEF LookupsInv, Serving, Indexed
<1>4. QED BY <1>1, <1>2, <1>3, PTL DEF Spec

-----------------------------------------------------------------------------
(* The text is read back.                                                  *)

\* The first n members of two functions are the same.
Alike(f, g, n) == \A i \in 1..n : f[i] = g[i]

\* The joins of two lists are the same as far as the lists are.
LEMMA JoinsAlike ==
  ASSUME NEW seqs, NEW N \in Nat, NEW joined, JoinsOf(seqs, N, joined),
         NEW others, NEW M \in Nat, NEW more, JoinsOf(others, M, more),
         NEW n \in Nat, n <= N, n <= M, Alike(seqs, others, n)
  PROVE  Alike(joined, more, n)
<1> DEFINE f == [i \in 1..N |-> IF i = 1 THEN seqs[i] ELSE joined[i - 1] \o seqs[i]]
           g == [i \in 1..M |-> IF i = 1 THEN others[i] ELSE more[i - 1] \o others[i]]
           P == {m \in 0..n : m = 0 \/ joined[m] = more[m]}
<1>1. \A i \in 1..n : f[i] = IF i = 1 THEN seqs[i] ELSE joined[i - 1] \o seqs[i]
  OBVIOUS
<1>2. \A i \in 1..n : g[i] = IF i = 1 THEN others[i] ELSE more[i - 1] \o others[i]
  OBVIOUS
<1>3. joined = f /\ more = g
  BY DEF JoinsOf
<1> HIDE DEF f, g
<1>4. 0 \in P
  OBVIOUS
<1>5. ASSUME NEW m \in 1..n, m - 1 \in P PROVE m \in P
  <2>1. CASE m = 1
    <3>1. joined[m] = seqs[m] /\ more[m] = others[m]
      BY <1>1, <1>2, <1>3, <2>1
    <3>2. QED BY <3>1 DEF Alike
  <2>2. CASE m # 1
    <3>1. joined[m] = joined[m - 1] \o seqs[m] /\ more[m] = more[m - 1] \o others[m]
      BY <1>1, <1>2, <1>3, <2>2
    <3>2. joined[m - 1] = more[m - 1]
      BY <1>5, <2>2
    <3>3. joined[m] = more[m]
      BY <3>1, <3>2 DEF Alike
    <3>4. QED BY <3>3
  <2>3. QED BY <2>1, <2>2
<1> HIDE DEF P
<1>6. 0..n \subseteq P
  BY <1>4, <1>5, BoundedInduction
<1>7. QED BY <1>6 DEF P, Alike

\* FlattenSeq as a join.
LEMMA FlattenJoins ==
  ASSUME NEW n \in Nat \ {0}, NEW seqs, seqs = [i \in 1..n |-> seqs[i]]
  PROVE  \E joined : JoinsOf(seqs, n, joined) /\ FlattenSeq(seqs) = joined[n]
<1> DEFINE joined == CHOOSE joined : joined = [i \in 1..Len(seqs) |->
                       IF i = 1 THEN seqs[i] ELSE joined[i - 1] \o seqs[i]]
<1>1. Len(seqs) = n
  OBVIOUS
<1>2. FlattenSeq(seqs) = joined[Len(seqs)]
  BY <1>1 DEF FlattenSeq
<1>3. \E j : j = [i \in 1..Len(seqs) |-> IF i = 1 THEN seqs[i] ELSE j[i - 1] \o seqs[i]]
  BY <1>1, JoinsExist DEF JoinsOf
<1>4. JoinsOf(seqs, Len(seqs), joined)
  BY <1>3 DEF JoinsOf
<1> HIDE DEF joined
<1>5. QED BY <1>1, <1>2, <1>4

\* The first n variables, joined.
Joined(e, n) == FlattenSeq([i \in 1..n |-> e[i]])

LEMMA JoinedNone ==
  ASSUME NEW e
  PROVE  Joined(e, 0) = <<>>
<1>1. PICK seqs : seqs = [i \in 1..0 |-> e[i]]
  OBVIOUS
<1>2. seqs = <<>> /\ Len(seqs) = 0
  BY <1>1
<1>3. FlattenSeq(seqs) = seqs
  BY <1>2 DEF FlattenSeq
<1>4. QED BY <1>1, <1>2, <1>3 DEF Joined

LEMMA JoinedLast ==
  ASSUME NEW n \in Nat \ {0}, NEW e, \A i \in 1..n : e[i] \in Seq(Byte)
  PROVE  Joined(e, n) = Joined(e, n - 1) \o e[n]
<1>1. PICK seqs : seqs = [i \in 1..n |-> e[i]]
  OBVIOUS
<1>2. PICK joined : JoinsOf(seqs, n, joined) /\ FlattenSeq(seqs) = joined[n]
  BY <1>1, FlattenJoins
<1>3. Joined(e, n) = joined[n]
  BY <1>1, <1>2 DEF Joined
<1> DEFINE f == [i \in 1..n |-> IF i = 1 THEN seqs[i] ELSE joined[i - 1] \o seqs[i]]
<1>4. f[n] = IF n = 1 THEN seqs[n] ELSE joined[n - 1] \o seqs[n]
  OBVIOUS
<1>5. joined = f
  BY <1>2 DEF JoinsOf
<1> HIDE DEF f
<1>6. seqs[n] = e[n] /\ e[n] \in Seq(Byte)
  BY <1>1
<1>7. CASE n = 1
  <2>1. Joined(e, n) = e[n]
    BY <1>3, <1>4, <1>5, <1>6, <1>7
  <2>2. Joined(e, n - 1) = <<>>
    BY <1>7, JoinedNone
  <2>3. <<>> \o e[n] = e[n]
    BY <1>6
  <2>4. QED BY <2>1, <2>2, <2>3
<1>8. CASE n # 1
  <2>1. PICK k \in Nat \ {0} : k = n - 1
    BY <1>8
  <2>2. PICK fewer : fewer = [i \in 1..k |-> e[i]]
    OBVIOUS
  <2>3. PICK less : JoinsOf(fewer, k, less) /\ FlattenSeq(fewer) = less[k]
    BY <2>2, FlattenJoins
  <2>4. Alike(seqs, fewer, k)
    BY <1>1, <2>1, <2>2 DEF Alike
  <2>5. k \in Nat /\ n \in Nat /\ k <= n /\ k <= k
    BY <2>1
  <2>6. Alike(joined, less, k)
    BY <1>2, <2>3, <2>4, <2>5, JoinsAlike
  <2>7. joined[n - 1] = less[k]
    BY <2>1, <2>6 DEF Alike
  <2>8. Joined(e, n - 1) = less[k]
    BY <2>1, <2>2, <2>3 DEF Joined
  <2>9. QED BY <1>3, <1>4, <1>5, <1>6, <1>8, <2>7, <2>8
<1>9. QED BY <1>7, <1>8

\* The variables that are read are those before the first that is not set.
LEMMA NumberedTo ==
  ASSUME NEW e, NEW n \in Nat, n < MaxVariables,
         \A i \in 1..n : e[i] # Unset, e[n + 1] = Unset
  PROVE  Numbered(e) = Joined(e, n)
<1> DEFINE missing == {i \in 1..MaxVariables : e[i] = Unset}
           m == IF missing = {} THEN MaxVariables
                ELSE (CHOOSE i \in missing : \A j \in missing : i <= j) - 1
<1>1. MaxVariables \in Nat
  BY ConfigAssumption
<1>2. n + 1 \in missing /\ \A j \in missing : j \in Nat /\ n + 1 <= j
  BY <1>1
<1>3. Numbered(e) = Joined(e, m)
  BY DEF Numbered, Joined
<1>4. \A i \in missing : (\A j \in missing : i <= j) => i = n + 1
  <2> SUFFICES ASSUME NEW i \in missing, \A j \in missing : i <= j PROVE i = n + 1
    OBVIOUS
  <2> HIDE DEF missing
  <2>1. i <= n + 1 /\ n + 1 <= i /\ i \in Nat
    BY <1>2
  <2>2. QED BY <2>1
<1> HIDE DEF missing
<1>5. (CHOOSE i \in missing : \A j \in missing : i <= j) = n + 1
  <2>1. \E i \in missing : \A j \in missing : i <= j
    BY <1>2
  <2>2. QED BY <1>4, <2>1
<1>6. m = n
  BY <1>2, <1>5
<1>7. QED BY <1>3, <1>6

LEMMA ReadsAlike ==
  ASSUME NEW bytes, NEW N \in Nat, NEW read, ReadsOf(bytes, N, read),
         NEW others, NEW M \in Nat, NEW more, ReadsOf(others, M, more),
         NEW n \in Nat, n <= N, n <= M, Alike(bytes, others, n)
  PROVE  read[n] = more[n]
<1> DEFINE f == [i \in 0..N |-> IF i = 0 THEN ParserInit ELSE Feed(read[i - 1], bytes[i])]
           g == [i \in 0..M |-> IF i = 0 THEN ParserInit ELSE Feed(more[i - 1], others[i])]
           P == {m \in 0..n : read[m] = more[m]}
<1>1. f[0] = ParserInit /\ \A i \in 1..n : f[i] = Feed(read[i - 1], bytes[i])
  OBVIOUS
<1>2. g[0] = ParserInit /\ \A i \in 1..n : g[i] = Feed(more[i - 1], others[i])
  OBVIOUS
<1>3. read = f /\ more = g
  BY DEF ReadsOf
<1> HIDE DEF f, g
<1>4. 0 \in P
  BY <1>1, <1>2, <1>3
<1>5. ASSUME NEW m \in 1..n, m - 1 \in P PROVE m \in P
  <2>1. read[m] = Feed(read[m - 1], bytes[m]) /\ more[m] = Feed(more[m - 1], others[m])
    BY <1>1, <1>2, <1>3
  <2>2. bytes[m] = others[m] /\ read[m - 1] = more[m - 1]
    BY <1>5 DEF Alike
  <2>3. read[m] = more[m]
    BY <2>1, <2>2
  <2>4. QED BY <2>3
<1> HIDE DEF P
<1>6. 0..n \subseteq P
  BY <1>4, <1>5, BoundedInduction
<1>7. n \in P
  BY <1>6
<1>8. QED BY <1>7 DEF P

\* The reader p is that of all the bytes.
ReadTo(bytes, p) == \E read : ReadsOf(bytes, Len(bytes), read) /\ p = read[Len(bytes)]

LEMMA ReadNothing == ReadTo(<<>>, ParserInit)
<1>1. PICK read : ReadsOf(<<>>, 0, read)
  BY ReadsExist
<1> DEFINE f == [i \in 0..0 |-> IF i = 0 THEN ParserInit ELSE Feed(read[i - 1], <<>>[i])]
<1>2. f[0] = ParserInit
  OBVIOUS
<1>3. read = f
  BY <1>1 DEF ReadsOf
<1> HIDE DEF f
<1>4. Len(<<>>) = 0
  OBVIOUS
<1>5. QED BY <1>1, <1>2, <1>3, <1>4 DEF ReadTo

LEMMA ReadOneMore ==
  ASSUME NEW bytes \in Seq(Byte), NEW p, ReadTo(bytes, p), NEW c \in Byte
  PROVE  ReadTo(Append(bytes, c), Feed(p, c))
<1>1. PICK n, longer : n = Len(bytes) + 1 /\ longer = Append(bytes, c)
  OBVIOUS
<1>2. /\ Len(longer) = n /\ longer[n] = c /\ n \in Nat \ {0} /\ n - 1 = Len(bytes)
      /\ n - 1 \in Nat /\ n - 1 <= n
      /\ \A i \in 1..(n - 1) : bytes[i] = longer[i]
  BY <1>1, BytesOf
<1>3. PICK k \in Nat : k = n - 1 /\ k = Len(bytes)
  BY <1>2
<1>4. PICK more : ReadsOf(longer, n, more)
  BY <1>2, ReadsExist
<1>5. Alike(bytes, longer, k)
  BY <1>2, <1>3 DEF Alike
<1>6. PICK read : ReadsOf(bytes, k, read) /\ p = read[k]
  BY <1>3 DEF ReadTo
<1>7. k <= k /\ k <= n /\ n \in Nat
  BY <1>2, <1>3
<1>8. read[k] = more[k]
  BY <1>4, <1>5, <1>6, <1>7, ReadsAlike
<1> DEFINE f == [i \in 0..n |-> IF i = 0 THEN ParserInit ELSE Feed(more[i - 1], longer[i])]
<1>9. f[n] = Feed(more[n - 1], longer[n])
  BY <1>2
<1>10. more = f
  BY <1>4 DEF ReadsOf
<1> HIDE DEF f
<1>11. more[n] = Feed(p, c)
  BY <1>2, <1>3, <1>6, <1>8, <1>9, <1>10
<1>12. QED BY <1>1, <1>2, <1>4, <1>11 DEF ReadTo

\* The parse of the whole text is what the reader makes of its end.
LEMMA ReadWhole ==
  ASSUME NEW bytes \in Seq(Byte), NEW p, ReadTo(bytes, p)
  PROVE  ParseText(bytes) = Feed(p, EOF)
<1> DEFINE read == CHOOSE read : read = [i \in 0..Len(bytes) |->
                      IF i = 0 THEN ParserInit ELSE Feed(read[i - 1], bytes[i])]
<1>1. Len(bytes) \in Nat /\ Len(bytes) <= Len(bytes)
  BY BytesOf
<1>2. \E r : r = [i \in 0..Len(bytes) |->
                    IF i = 0 THEN ParserInit ELSE Feed(r[i - 1], bytes[i])]
  <2>1. PICK r : ReadsOf(bytes, Len(bytes), r)
    BY <1>1, ReadsExist
  <2>2. QED BY <2>1 DEF ReadsOf
<1>3. ReadsOf(bytes, Len(bytes), read)
  BY <1>2 DEF ReadsOf
<1>4. ParseText(bytes) = Feed(read[Len(bytes)], EOF)
  BY DEF ParseText
<1> HIDE DEF read
<1>5. PICK r : ReadsOf(bytes, Len(bytes), r) /\ p = r[Len(bytes)]
  BY DEF ReadTo
<1>6. Alike(bytes, bytes, Len(bytes))
  BY DEF Alike
<1>7. read[Len(bytes)] = r[Len(bytes)]
  BY <1>1, <1>3, <1>5, <1>6, ReadsAlike
<1>8. QED BY <1>4, <1>5, <1>7

\* A variable that is not set does not look like one that is.
UnsetIsNoText == Unset \notin Seq(Byte)

\* The launcher's variables, of which it writes to s: none is set behind that
\* one but for the last, which is never reached, and none before it is left out.
Arranged(e, s) ==
  /\ s \in Nat /\ s < MaxVariables
  /\ \A i \in 1..(MaxVariables - 1) : i > s => e[i] = Unset
  /\ \A i \in 1..(s - 1) : e[i] # Unset
  /\ s > 0 => e[0] = Unset

LEMMA JoinedBytes ==
  ASSUME NEW n \in Nat, NEW e, \A i \in 1..n : e[i] \in Seq(Byte)
  PROVE  Joined(e, n) \in Seq(Byte)
BY FlattenBytes DEF Joined

LEMMA TextAt ==
  ASSUME NEW e, Environment(e), NEW s \in Nat \ {0}, s < MaxVariables - 1, e[0] = Unset,
         \A i \in 1..(s - 1) : e[i] # Unset, e[s + 1] = Unset
  PROVE  /\ Joined(e, s - 1) \in Seq(Byte)
         /\ ConfigText(e) = IF e[s] = Unset THEN Joined(e, s - 1) ELSE Joined(e, s - 1) \o e[s]
<1>1. MaxVariables \in Nat
  BY ConfigAssumption
<1>2. PICK k \in Nat : k = s - 1
  OBVIOUS
<1>3. \A i \in 1..k : e[i] \in Seq(Byte) /\ e[i] # Unset
  BY <1>1, <1>2 DEF Environment
<1>4. Joined(e, k) \in Seq(Byte)
  BY <1>3, JoinedBytes
<1>5. ConfigText(e) = Numbered(e)
  BY DEF ConfigText
<1>6. CASE e[s] = Unset
  <2>1. k < MaxVariables /\ e[k + 1] = Unset
    BY <1>1, <1>2, <1>6
  <2>2. Numbered(e) = Joined(e, k)
    BY <1>3, <2>1, NumberedTo
  <2>3. QED BY <1>2, <1>4, <1>5, <1>6, <2>2
<1>7. CASE e[s] # Unset
  <2>1. \A i \in 1..s : i \in 1..k \/ i = s
    BY <1>2
  <2>2. s \in Nat /\ s < MaxVariables /\ e[s] \in Seq(Byte)
    BY <1>1, <1>7 DEF Environment
  <2>3. \A i \in 1..s : e[i] # Unset /\ e[i] \in Seq(Byte)
    BY <1>3, <1>7, <2>1, <2>2
  <2>4. Numbered(e) = Joined(e, s)
    BY <2>2, <2>3, NumberedTo
  <2>5. Joined(e, s) = Joined(e, s - 1) \o e[s]
    BY <2>3, JoinedLast
  <2>6. QED BY <1>2, <1>4, <1>5, <1>7, <2>4, <2>5
<1>8. QED BY <1>6, <1>7

LEMMA TextUnnumbered ==
  ASSUME NEW e, Arranged(e, 0)
  PROVE  ConfigText(e) = IF e[0] = Unset THEN <<>> ELSE e[0]
<1>1. PICK n \in Nat : n = 0
  OBVIOUS
<1>2. e[n + 1] = Unset /\ n < MaxVariables
  BY <1>1, ConfigAssumption DEF Arranged
<1>3. \A i \in 1..n : e[i] # Unset
  BY <1>1
<1>4. Numbered(e) = Joined(e, n)
  BY <1>2, <1>3, NumberedTo
<1>5. Numbered(e) = <<>>
  BY <1>1, <1>4, JoinedNone
<1>6. QED BY <1>5 DEF ConfigText

\* A byte is written to the variable s, which is that of the byte before or the
\* next one.
Writes(e, before, s, c, f) ==
  /\ s = before \/ (s = before + 1 /\ before > 0 /\ e[before] # Unset)
  /\ s < MaxVariables - 1
  /\ f = [e EXCEPT ![s] = IF e[s] = Unset THEN <<c>> ELSE Append(e[s], c)]

\* A byte that is written ends the text.
LEMMA TextGrows ==
  ASSUME UnsetIsNoText, NEW e, Environment(e), NEW before, Arranged(e, before),
         NEW c \in Byte, NEW s, NEW f, Writes(e, before, s, c, f)
  PROVE  Environment(f) /\ Arranged(f, s) /\ ConfigText(f) = Append(ConfigText(e), c)
<1>1. /\ s = before \/ (s = before + 1 /\ before > 0 /\ e[before] # Unset)
      /\ s < MaxVariables - 1
      /\ f = [e EXCEPT ![s] = IF e[s] = Unset THEN <<c>> ELSE Append(e[s], c)]
  BY DEF Writes
<1>2. MaxVariables \in Nat /\ MaxVariables > 1 /\ before \in Nat /\ s \in Nat
      /\ s \in 0..MaxVariables
  BY <1>1, ConfigAssumption DEF Arranged
<1>3. e[s] \in Seq(Byte) \cup {Unset} /\ DOMAIN e = 0..MaxVariables
  BY <1>2 DEF Environment
<1>4. PICK text : text = IF e[s] = Unset THEN <<c>> ELSE Append(e[s], c)
  OBVIOUS
<1>5. text \in Seq(Byte) /\ text # Unset
  <2>1. e[s] \in Seq(Byte) => Append(e[s], c) \in Seq(Byte)
    OBVIOUS
  <2>2. <<c>> \in Seq(Byte)
    OBVIOUS
  <2>3. text \in Seq(Byte)
    BY <1>3, <1>4, <2>1, <2>2
  <2>4. QED BY <2>3 DEF UnsetIsNoText
<1>6. f[s] = text /\ \A i \in 0..MaxVariables : i # s => f[i] = e[i]
  BY <1>1, <1>2, <1>3, <1>4
<1>7. Environment(f)
  BY <1>1, <1>2, <1>4, <1>5 DEF Environment
<1>8. Arranged(f, s)
  <2>1. s < MaxVariables
    BY <1>1, <1>2
  <2>2. ASSUME NEW i \in 1..(MaxVariables - 1), i > s PROVE f[i] = Unset
    BY <1>1, <1>2, <1>6, <2>2 DEF Arranged
  <2>3. ASSUME NEW i \in 1..(s - 1) PROVE f[i] # Unset
    <3>1. i \in 0..MaxVariables /\ i # s
      BY <1>1, <1>2, <2>3
    <3>2. i \in 1..(before - 1) \/ (i = before /\ s # before)
      BY <1>1, <1>2, <2>3
    <3>3. e[i] # Unset
      BY <1>1, <3>2 DEF Arranged
    <3>4. QED BY <1>6, <3>1, <3>3
  <2>4. ASSUME s > 0 PROVE f[0] = Unset
    <3>1. before > 0
      BY <1>1, <1>2, <2>4
    <3>2. 0 \in 0..MaxVariables /\ 0 # s
      BY <1>1, <1>2, <2>4
    <3>3. e[0] = Unset
      BY <3>1 DEF Arranged
    <3>4. QED BY <1>6, <3>2, <3>3
  <2>5. QED BY <1>2, <2>1, <2>2, <2>3, <2>4 DEF Arranged
<1>9. CASE s = 0
  <2>1. before = 0
    BY <1>1, <1>2, <1>9
  <2>2. ConfigText(e) = IF e[s] = Unset THEN <<>> ELSE e[s]
    BY <1>9, <2>1, TextUnnumbered
  <2>3. ConfigText(f) = text
    BY <1>5, <1>6, <1>8, <1>9, TextUnnumbered
  <2>4. Append(<<>>, c) = <<c>>
    OBVIOUS
  <2>5. QED BY <1>4, <1>7, <1>8, <2>2, <2>3, <2>4
<1>10. CASE s # 0
  <2>1. s \in Nat \ {0} /\ s + 1 \in 1..(MaxVariables - 1) /\ s + 1 \in 0..MaxVariables
    BY <1>1, <1>2, <1>10
  <2>2. e[0] = Unset /\ f[0] = Unset
    <3>1. before > 0
      BY <1>1, <1>2, <1>10
    <3>2. e[0] = Unset
      BY <3>1 DEF Arranged
    <3>3. QED BY <1>2, <1>6, <1>10, <3>2
  <2>3. \A i \in 1..(s - 1) : f[i] # Unset /\ e[i] = f[i]
    <3>1. \A i \in 1..(s - 1) : i \in 0..MaxVariables /\ i # s
      BY <1>1, <1>2
    <3>2. QED BY <1>6, <1>8, <3>1 DEF Arranged
  <2>4. e[s + 1] = Unset /\ f[s + 1] = Unset
    <3>1. s + 1 > before /\ s + 1 # s
      BY <1>1, <1>2
    <3>2. e[s + 1] = Unset
      BY <2>1, <3>1 DEF Arranged
    <3>3. QED BY <1>6, <2>1, <3>1, <3>2
  <2>5. PICK J : J = Joined(e, s - 1)
    OBVIOUS
  <2>6. [i \in 1..(s - 1) |-> e[i]] = [i \in 1..(s - 1) |-> f[i]]
    BY <2>3
  <2>7. J = Joined(f, s - 1)
    BY <2>5, <2>6 DEF Joined
  <2>8. /\ J \in Seq(Byte)
        /\ ConfigText(e) = IF e[s] = Unset THEN J ELSE J \o e[s]
    <3>1. \A i \in 1..(s - 1) : e[i] # Unset
      BY <2>3
    <3>2. /\ Joined(e, s - 1) \in Seq(Byte)
          /\ ConfigText(e) = IF e[s] = Unset THEN Joined(e, s - 1) ELSE Joined(e, s - 1) \o e[s]
      BY <1>1, <2>1, <2>2, <2>4, <3>1, TextAt
    <3>3. QED BY <2>5, <3>2
  <2>9. ConfigText(f) = J \o text
    <3>1. \A i \in 1..(s - 1) : f[i] # Unset
      BY <2>3
    <3>2. ConfigText(f) = IF f[s] = Unset THEN Joined(f, s - 1) ELSE Joined(f, s - 1) \o f[s]
      BY <1>1, <1>7, <2>1, <2>2, <2>4, <3>1, TextAt
    <3>3. QED BY <1>5, <1>6, <2>7, <3>2
  <2>10. CASE e[s] = Unset
    <3>1. J \o <<c>> = Append(J, c)
      BY <2>8
    <3>2. QED BY <1>4, <1>7, <1>8, <2>8, <2>9, <2>10, <3>1
  <2>11. CASE e[s] # Unset
    <3>1. e[s] \in Seq(Byte)
      BY <1>3, <2>11
    <3>2. J \o Append(e[s], c) = Append(J \o e[s], c)
      BY <2>8, <3>1
    <3>3. QED BY <1>4, <1>7, <1>8, <2>8, <2>9, <2>11, <3>2
  <2>12. QED BY <2>10, <2>11
<1>11. QED BY <1>9, <1>10

\* The inductive invariant: the variables are arranged as the launcher fills
\* them, and the reader has read the very text that they join to.
JoinsInv ==
  /\ Environment(env) /\ Arranged(env, slot)
  /\ ReadTo(ConfigText(env), reader)
  /\ JoinsText

LEMMA JoinsInit ==
  ASSUME Init
  PROVE  JoinsInv
<1>1. MaxVariables \in Nat /\ MaxVariables > 1
  BY ConfigAssumption
<1>2. Environment(env)
  BY LookupsInit DEF LookupsInv
<1>3. \A i \in 0..(MaxVariables - 1) : env[i] = Unset
  <2>1. PICK stray :
          env = [i \in 0..MaxVariables |-> IF i = MaxVariables THEN stray ELSE Unset]
    BY DEF Init
  <2>2. QED BY <1>1, <2>1
<1>4. slot \in {0, 1}
  BY DEF Init
<1>5. \A s \in {0, 1} : Arranged(env, s)
  BY <1>1, <1>3 DEF Arranged
<1>6. Arranged(env, 0) /\ env[0] = Unset
  BY <1>1, <1>3, <1>5
<1>7. ConfigText(env) = <<>>
  BY <1>6, TextUnnumbered
<1>8. ReadTo(ConfigText(env), reader)
  BY <1>7, ReadNothing DEF Init
<1>9. JoinsText
  BY DEF Init, JoinsText
<1>10. QED BY <1>2, <1>4, <1>5, <1>8, <1>9 DEF JoinsInv

LEMMA JoinsStep ==
  ASSUME UnsetIsNoText, JoinsInv, [Next]_vars
  PROVE  JoinsInv'
<1>1. ASSUME NEW c \in 0..255, Write(c) PROVE JoinsInv'
  <2>1. c \in Byte
    BY DEF Byte
  <2>2. Put(c) /\ phase = "launch" /\ phase' = phase
    BY <1>1 DEF Write
  <2>3. PICK s : /\ s = IF slot > 0 /\ Full(env[slot], c) THEN slot + 1 ELSE slot
                 /\ s < MaxVariables - 1 /\ slot' = s
                 /\ env' = [env EXCEPT ![s] = IF env[s] = Unset THEN <<c>>
                                              ELSE Append(env[s], c)]
                 /\ reader' = Feed(reader, c)
    BY <2>2 DEF Put
  <2>4. s \in {slot, slot + 1} /\ (s # slot => slot > 0 /\ env[slot] # Unset)
    BY <2>3 DEF Full
  <2>5. Environment(env) /\ Arranged(env, slot) /\ ReadTo(ConfigText(env), reader)
    BY DEF JoinsInv
  <2>6. Writes(env, slot, s, c, env')
    BY <2>3, <2>4 DEF Writes
  <2>7. PICK e, before, f : e = env /\ before = slot /\ f = env'
    OBVIOUS
  <2>8. Environment(f) /\ Arranged(f, s) /\ ConfigText(f) = Append(ConfigText(env), c)
    <3>1. Environment(e) /\ Arranged(e, before) /\ Writes(e, before, s, c, f)
      BY <2>5, <2>6, <2>7
    <3>2. Environment(f) /\ Arranged(f, s) /\ ConfigText(f) = Append(ConfigText(e), c)
      BY <2>1, <3>1, TextGrows
    <3>3. QED BY <2>7, <3>2
  <2>9. ReadTo(Append(ConfigText(env), c), reader')
    BY <2>1, <2>3, <2>5, ConfigTextBytes, ReadOneMore
  <2>10. ConfigText(f) = ConfigText(env)'
    BY <2>7 DEF ConfigText, Numbered
  <2>11. Environment(env)' /\ Arranged(env, slot)'
    BY <2>3, <2>7, <2>8 DEF Environment, Arranged
  <2>12. JoinsText'
    BY <2>2 DEF JoinsText
  <2>13. QED BY <2>8, <2>9, <2>10, <2>11, <2>12 DEF JoinsInv
<1>2. CASE Load
  <2>1. env' = env /\ reader' = reader /\ slot' = slot /\ config' = LoadJson(env)
    BY <1>2 DEF Load
  <2>2. Environment(env) /\ Arranged(env, slot) /\ ReadTo(ConfigText(env), reader)
    BY DEF JoinsInv
  <2>3. ParseText(ConfigText(env)) = Feed(reader, EOF)
    BY <2>2, ConfigTextBytes, ReadWhole
  <2>4. ConfigText(env)' = ConfigText(env)
    BY <2>1 DEF ConfigText, Numbered
  <2>5. JoinsText'
    BY <2>1, <2>3, <2>4 DEF JoinsText, LoadJson
  <2>6. Environment(env)' /\ Arranged(env, slot)'
    BY <2>1, <2>2 DEF Environment, Arranged
  <2>7. QED BY <2>1, <2>2, <2>4, <2>5, <2>6 DEF JoinsInv
<1>3. CASE BuildIndex \/ UNCHANGED vars
  <2>1. /\ env' = env /\ reader' = reader /\ slot' = slot /\ config' = config
        /\ phase' # "launch" => phase # "launch"
    BY <1>3 DEF BuildIndex, vars
  <2>2. ConfigText(env)' = ConfigText(env)
    BY <2>1 DEF ConfigText, Numbered
  <2>3. JoinsText'
    BY <2>1, <2>2 DEF JoinsInv, JoinsText
  <2>4. Environment(env)' /\ Arranged(env, slot)'
    BY <2>1 DEF JoinsInv, Environment, Arranged
  <2>5. QED BY <2>1, <2>2, <2>3, <2>4 DEF JoinsInv
<1>4. QED BY <1>1, <1>2, <1>3 DEF Next

\* JoinsText in every reachable state: LoadJson parses the bytes the launcher
\* wrote, in their order, whatever the size of its chunks.
THEOREM JoinsTheorem ==
  ASSUME UnsetIsNoText
  PROVE  Spec => []JoinsText
<1>1. Init => JoinsInv
  BY JoinsInit
<1>2. JoinsInv /\ [Next]_vars => JoinsInv'
  BY JoinsStep
<1>3. JoinsInv => JoinsText
  BY DEF JoinsInv
<1>4. QED BY <1>1, <1>2, <1>3, PTL DEF Spec

\* The reader of the launcher's bytes is well-formed in every reachable state:
\* each container that is open has its place on the stack, and what is read so
\* far consists of well-formed values.
THEOREM ReaderTheorem == Spec => []Reading(reader)
<1>1. Init => Reading(reader)
  BY ParserInitOK DEF Init
<1>2. Reading(reader) /\ [Next]_vars => Reading(reader)'
  <2> SUFFICES ASSUME Reading(reader), [Next]_vars PROVE Reading(reader')
    BY DEF Reading, ParserOK, Stopped, Shaped
  <2>1. ASSUME NEW c \in 0..255, Write(c) PROVE Reading(reader')
    <3>1. reader' = Feed(reader, c)
      BY <2>1 DEF Write, Put
    <3>2. c \in Inputs
      BY DEF Inputs, Byte
    <3>3. QED BY <3>1, <3>2, FeedOK
  <2>2. CASE reader' = reader
    BY <2>2
  <2>3. QED BY <2>1, <2>2 DEF Next, Load, BuildIndex, vars
<1>3. QED BY <1>1, <1>2, PTL DEF Spec
=============================================================================
