------------------------------- MODULE OrderedMap -------------------------------
(***************************************************************************)
(* ordered_map, the map behind ordered_json: a vector of pairs in the      *)
(* order they came in, searched from its front.  A position counts from 0; *)
(* the length of the map is its end.                                       *)
(***************************************************************************)
EXTENDS JsonContainer

FindOrdered(m, key) ==
  LET at == {i \in DOMAIN m : m[i][1] = key}
  IN IF at = {} THEN Len(m) ELSE (CHOOSE i \in at : \A j \in at : i <= j) - 1

CountOrdered(m, key) == IF FindOrdered(m, key) = Len(m) THEN 0 ELSE 1

AtOrdered(m, key) ==
  LET it == FindOrdered(m, key) IN IF it = Len(m) THEN Throw ELSE m[it + 1][2]

\* emplace and insert: a key that is there keeps its value and its place.
Emplace(m, key, val) == IF FindOrdered(m, key) = Len(m) THEN Append(m, <<key, val>>) ELSE m
OpenOrdered(m, key) == Emplace(m, key, Null)
InsertPair(m, pair) == Emplace(m, pair[1], pair[2])
InsertPairs(m, pairs) == FoldLeft(InsertPair, m, pairs)

\* Each pair after the gap is moved down over it, and the vector cut.
EraseOrderedRange(m, first, last) ==
  LET affected == last - first
  IN [i \in 1..(Len(m) - affected) |-> IF i <= first THEN m[i] ELSE m[i + affected]]

\* The pairs behind the key move down by one.
EraseOrdered(m, key) ==
  LET it == FindOrdered(m, key)
  IN IF it = Len(m) THEN m
     ELSE [i \in 1..(Len(m) - 1) |-> IF i <= it THEN m[i] ELSE m[i + 1]]
=============================================================================
