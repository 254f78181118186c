------------------------------- MODULE Throttle -------------------------------
(***************************************************************************)
(* What a screencast promises to its client, whichever way the frames are  *)
(* captured: frames come only between start and stop, and a client that    *)
(* does not acknowledge holds no more frames than it started screencasts.  *)
(***************************************************************************)
EXTENDS Naturals

VARIABLES
  on,        \* a screencast is running
  started,   \* how many were started
  unacked    \* frames the client received and has not acknowledged

Init == on = FALSE /\ started = 0 /\ unacked = 0

Start == ~on /\ on' = TRUE /\ started' = started + 1 /\ UNCHANGED unacked
Stop  == on /\ on' = FALSE /\ UNCHANGED <<started, unacked>>
Frame == /\ on /\ unacked < started
         /\ unacked' = unacked + 1 /\ UNCHANGED <<on, started>>
Ack   == unacked > 0 /\ unacked' = unacked - 1 /\ UNCHANGED <<on, started>>

Next == Start \/ Stop \/ Frame \/ Ack

Spec == Init /\ [][Next]_<<on, started, unacked>>
=============================================================================
