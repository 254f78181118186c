--------------------------- MODULE MCNetworkObserver ---------------------------
(* Finite instances of NetworkObserver.                                      *)
EXTENDS NetworkObserver

\* The first load may be intercepted, resumed and redirected, the second
\* intercepted and resumed.
MCHops == [l \in Load |-> IF l = 1 THEN 3 ELSE 2]

\* Only the first may have a response that is too long to keep.
MCMaxBody == [l \in Load |-> IF l = 1 THEN 4 ELSE 2]
=============================================================================
