------------------------------- MODULE FlatIndex -------------------------------
(***************************************************************************)
(* The open-addressed table of MaskConfig: a key goes to the first free    *)
(* slot from its hash on, and a lookup walks the slots from the hash on    *)
(* until it meets the key or a free slot.  The table has more slots than   *)
(* keys, nothing is ever removed, and nothing is assumed of the hash.      *)
(***************************************************************************)
EXTENDS Integers, Sequences, FiniteSets

CONSTANTS
  Free         \* a slot whose value is null

Slot(key, value) == [key |-> key, value |-> value]

Capacity(slots) == Cardinality(DOMAIN slots)

\* The slot that is d steps after that of the hash h.
Probe(slots, h, d) == ((h % Capacity(slots)) + d) % Capacity(slots)

\* How many steps it is from h to the first slot of a set.
FirstFrom(slots, h, set) ==
  CHOOSE d \in 0..(Capacity(slots) - 1) :
    /\ Probe(slots, h, d) \in set
    /\ \A e \in 0..(d - 1) : Probe(slots, h, e) \notin set

FreeSlots(slots) == {i \in DOMAIN slots : slots[i] = Free}

Insert(slots, h, key, value) ==
  LET i == Probe(slots, h, FirstFrom(slots, h, FreeSlots(slots)))
  IN [slots EXCEPT ![i] = Slot(key, value)]

\* Faulty variant: a lookup would try the slot of the hash only.
FindHere(slots, h, key) ==
  IF DOMAIN slots = {} THEN Free
  ELSE LET slot == slots[Probe(slots, h, 0)]
       IN IF slot = Free THEN Free ELSE IF slot.key = key THEN slot ELSE Free

\* Where a lookup stops: at the key or at a free slot.
Stops(slots, key) ==
  FreeSlots(slots) \cup {i \in DOMAIN slots \ FreeSlots(slots) : slots[i].key = key}

\* The slot of the key, or Free; a table that was never made has no slot.
Find(slots, h, key) ==
  IF DOMAIN slots = {} THEN Free
  ELSE slots[Probe(slots, h, FirstFrom(slots, h, Stops(slots, key)))]

\* Of a capacity that doubles until the table is less than half full.
CapacityFor(n) ==
  LET doubled[i \in 0..n] == IF i = 0 THEN 16 ELSE 2 * doubled[i - 1]
      enough == CHOOSE i \in 0..n :
                  /\ doubled[i] >= 2 * n + 1
                  /\ i = 0 \/ doubled[i - 1] < 2 * n + 1
  IN doubled[enough]

NewTable(n) == [i \in 0..(CapacityFor(n) - 1) |-> Free]
NoTable == [i \in {} |-> Free]

\* A table of n elements: of each in turn its entry, or nothing, is inserted.
Entry(h, key, value) == <<h, key, value>>
NoEntry == <<>>

Put(slots, entry) ==
  IF entry = NoEntry THEN slots ELSE Insert(slots, entry[1], entry[2], entry[3])

Filled(n, entries) ==
  LET after[i \in 0..Len(entries)] ==
        IF i = 0 THEN NewTable(n) ELSE Put(after[i - 1], entries[i])
  IN after[Len(entries)]
=============================================================================
