-------------------------- MODULE MCSimpleChannel --------------------------
(* Finite instances of SimpleChannel.                                      *)
EXTENDS SimpleChannel

\* Every end sends one request.
OneEach   == [e \in End |-> 1]
\* Both requests come from the parent, as when a client drives a quiet page.
ParentOnly == [e \in End |-> IF e = Parent THEN 2 ELSE 0]

\* Every end lives in a process of its own, whose pid its uid is made of.
UniqueUid == [e \in End |-> e + 1]
\* The request of the second content end names no method of the parent.
LastUnknown == {<<2, 1>>}
=============================================================================
