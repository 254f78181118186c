--------------------------------- MODULE Rpc ---------------------------------
(***************************************************************************)
(* What a channel promises to the code that calls connect().send(): every  *)
(* call is answered at most once, with the outcome of a run of its own     *)
(* handler, or rejected.  Nothing is said of transports, ids, peers or     *)
(* retransmissions.                                                        *)
(***************************************************************************)
CONSTANTS
  Call,      \* the calls that may be made
  NoMethod   \* those that name a method that does not exist

VARIABLES
  status,    \* what the caller knows of each call
  ran        \* the calls whose handler was started at least once

Status == {"idle", "waiting", "answered", "rejected"}

Init == status = [c \in Call |-> "idle"] /\ ran = {}

Issue(c) ==
  /\ status[c] = "idle"
  /\ status' = [status EXCEPT ![c] = "waiting"]
  /\ UNCHANGED ran

\* The handler may still run for a caller that gave up, never for one that
\* has its answer.
Run(c) ==
  /\ status[c] \in {"waiting", "rejected"}
  /\ ran' = ran \cup {c}
  /\ UNCHANGED status

Answer(c) ==
  /\ status[c] = "waiting"
  /\ c \in ran \cup NoMethod
  /\ status' = [status EXCEPT ![c] = "answered"]
  /\ UNCHANGED ran

\* A connector or the channel is disposed: its calls are rejected together.
Reject(C) ==
  /\ C # {} /\ \A c \in C : status[c] = "waiting"
  /\ status' = [c \in Call |-> IF c \in C THEN "rejected" ELSE status[c]]
  /\ UNCHANGED ran

Next ==
  \/ \E c \in Call : Issue(c) \/ Run(c) \/ Answer(c)
  \/ \E C \in SUBSET Call : Reject(C)

Spec == Init /\ [][Next]_<<status, ran>>
=============================================================================
