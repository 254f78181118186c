------------------------ MODULE ActivationChainProofs ------------------------
(***************************************************************************)
(* Proofs about ActivationChain, for any slots, tabs, windows, budgets and *)
(* deadlines: callbacks are serialized, input reaches its own tab, and a   *)
(* slot whose waits all have a deadline keeps to its budget.               *)
(***************************************************************************)
EXTENDS ActivationChain, TLAPS

\* What the chain is made of: no slot is on it twice, those it has left are
\* over, at most one is under way, and those behind it wait.
ChainInv ==
  /\ asked \in Seq(Slot) /\ served \in 0..Len(asked)
  /\ stage \in [Slot -> {"idle", "queued", "switching", "running", "over"}]
  /\ \A i, j \in 1..Len(asked) : asked[i] = asked[j] => i = j
  /\ \A s \in Slot : stage[s] # "idle" => \E i \in 1..Len(asked) : asked[i] = s
  /\ \A i \in 1..Len(asked) :
       /\ stage[asked[i]] # "idle"
       /\ i <= served => stage[asked[i]] = "over"
       /\ i = served + 1 => stage[asked[i]] \in {"queued", "switching", "running"}
       /\ i > served + 1 => stage[asked[i]] = "queued"

\* A callback outlives its slot only when the slot expired.
CallbackInv ==
  /\ callback \in [Slot -> Stops]
  /\ expired \subseteq Slot
  /\ \A s \in Slot :
       /\ stage[s] \in {"idle", "queued", "switching"} => callback[s] = "none"
       /\ stage[s] = "over" => callback[s] \in Settled \/ s \in expired

\* The tab of the slot under way is the selected one.
TabInv ==
  /\ selected \in [Window -> Tab]
  /\ stolen \subseteq Slot
  /\ landed \in [Slot -> SUBSET Tab]
  /\ \A s \in Slot : stage[s] \in {"switching", "running"} /\ s \notin stolen
                       => selected[WindowOfSlot(s)] = TabOf[s]

IInv == ChainInv /\ CallbackInv /\ TabInv /\ ReachesOwnTab

-----------------------------------------------------------------------------

LEMMA ConstantTypes ==
  /\ \A s \in Slot : TabOf[s] \in Tab /\ WindowOfSlot(s) \in Window
  /\ \A t \in Tab : WindowOf[t] \in Window
BY ActivationAssumption DEF WindowOfSlot

\* The slot under way is the one whose turn it is.
LEMMA UnderWay ==
  ASSUME ChainInv, NEW s \in Slot, stage[s] \in {"switching", "running"}
  PROVE  served < Len(asked) /\ s = Current
<1>1. PICK i \in 1..Len(asked) : asked[i] = s
  BY DEF ChainInv
<1>2. i = served + 1
  BY <1>1 DEF ChainInv
<1>3. QED
  BY <1>1, <1>2 DEF ChainInv, Current

\* The turn of the slot under way: its stage changes, or it is over.
LEMMA ChainStage ==
  ASSUME ChainInv, NEW s \in Slot, served < Len(asked), s = Current, asked' = asked,
         \/ served' = served /\ \E x \in {"switching", "running"} :
                                  stage' = [stage EXCEPT ![s] = x]
         \/ served' = served + 1 /\ stage' = [stage EXCEPT ![s] = "over"]
  PROVE  ChainInv'
<1>1. \A i \in 1..Len(asked) : asked[i] \in Slot /\ (asked[i] = s <=> i = served + 1)
  BY DEF ChainInv, Current
<1>2. stage' \in [Slot -> {"idle", "queued", "switching", "running", "over"}]
  BY DEF ChainInv
<1>3. \A r \in Slot : stage'[r] # "idle" => stage[r] # "idle"
  BY <1>1 DEF ChainInv, Current
<1>4. \A i \in 1..Len(asked) : i # served + 1 => stage'[asked[i]] = stage[asked[i]]
  BY <1>1 DEF ChainInv
<1>5. served' \in 0..Len(asked)
  BY DEF ChainInv
<1>6. CASE served' = served
  BY <1>1, <1>2, <1>3, <1>4, <1>6 DEF ChainInv
<1>7. CASE served' = served + 1
  <2>1. stage'[asked[served + 1]] = "over"
    BY <1>1, <1>7 DEF ChainInv
  <2>2. \A i \in 1..Len(asked) :
          /\ stage'[asked[i]] # "idle"
          /\ i <= served' => stage'[asked[i]] = "over"
          /\ i = served' + 1 => stage'[asked[i]] \in {"queued", "switching", "running"}
          /\ i > served' + 1 => stage'[asked[i]] = "queued"
    BY <1>4, <1>7, <2>1 DEF ChainInv
  <2>3. QED
    BY <1>2, <1>3, <1>5, <2>2 DEF ChainInv
<1>8. QED
  BY <1>6, <1>7

LEMMA InvInit == Init => IInv
BY ActivationAssumption
DEF Init, IInv, ChainInv, CallbackInv, TabInv, ReachesOwnTab, Settled, Stops, Timed, DragWaits

LEMMA InvAsk == ASSUME IInv, NEW s \in Slot, Ask(s) PROVE IInv'
<1>1. ChainInv'
  <2>1. asked' \in Seq(Slot) /\ Len(asked') = Len(asked) + 1
    BY DEF Ask, IInv, ChainInv
  <2>2. /\ \A i \in 1..Len(asked) : asked'[i] = asked[i] /\ asked[i] \in Slot
        /\ asked'[Len(asked) + 1] = s
    BY DEF Ask, IInv, ChainInv
  <2>3. stage' = [stage EXCEPT ![s] = "queued"] /\ served' = served /\ stage[s] = "idle"
    BY DEF Ask
  <2>4. \A i \in 1..Len(asked) : asked[i] # s
    BY <2>3 DEF IInv, ChainInv
  <2>5. \A i \in 1..Len(asked) : stage'[asked[i]] = stage[asked[i]]
    BY <2>2, <2>3, <2>4 DEF IInv, ChainInv
  <2>6. stage'[s] = "queued" /\ stage' \in [Slot -> {"idle", "queued", "switching", "running", "over"}]
    BY <2>3 DEF IInv, ChainInv
  <2>7. Len(asked) \in Nat /\ served \in 0..Len(asked)
    BY DEF IInv, ChainInv
  <2>8. \A i, j \in 1..Len(asked') : asked'[i] = asked'[j] => i = j
    BY <2>1, <2>2, <2>4, <2>7 DEF IInv, ChainInv
  <2>9. \A r \in Slot : stage'[r] # "idle" => \E i \in 1..Len(asked') : asked'[i] = r
    BY <2>1, <2>2, <2>3, <2>7 DEF IInv, ChainInv
  <2>10. \A i \in 1..Len(asked') :
           /\ stage'[asked'[i]] # "idle"
           /\ i <= served' => stage'[asked'[i]] = "over"
           /\ i = served' + 1 => stage'[asked'[i]] \in {"queued", "switching", "running"}
           /\ i > served' + 1 => stage'[asked'[i]] = "queued"
    BY <2>1, <2>2, <2>3, <2>5, <2>6, <2>7 DEF IInv, ChainInv
  <2>11. QED
    BY <2>1, <2>3, <2>6, <2>7, <2>8, <2>9, <2>10 DEF ChainInv
<1>2. CallbackInv' /\ TabInv' /\ ReachesOwnTab'
  BY DEF Ask, IInv, ChainInv, CallbackInv, TabInv, ReachesOwnTab, callVars, browserVars, WindowOfSlot
<1>3. QED
  BY <1>1, <1>2 DEF IInv

\* Where a callback may go, and where it may stop first.
LEMMA Stopping ==
  /\ {"reply", "flush", "send", "ack", "settleAfter"} \subseteq Stops
  /\ Settled \subseteq Stops /\ {"none", "settleBefore"} \subseteq Stops
  /\ \A s \in Slot : First(s) \subseteq {"done", "reply", "flush", "send", "settleBefore"}
<1>1. \A s \in Slot : TypeOf[s] \in Type
  BY ActivationAssumption
<1>2. ASSUME NEW s \in Slot
      PROVE  First(s) \subseteq {"done", "reply", "flush", "send", "settleBefore"}
  <2>1. CASE TypeOf[s] \in {"mousemove", "mouseup"}
    BY <2>1 DEF First, DragOrSend, SendEvents
  <2>2. CASE TypeOf[s] \in {"none", "wheel", "mousedown"}
    BY <2>2 DEF First, SendEvents
  <2>3. QED
    BY <1>1, <2>1, <2>2 DEF Type
<1>3. QED
  BY <1>2 DEF Stops, Settled, Timed, DragWaits

\* What Begin leaves of the invariant, for the slot whose turn it is.
LEMMA InvBegin ==
  ASSUME IInv, NEW s \in Slot, served < Len(asked), s = Current,
         stage[s] \in {"queued", "switching"},
         stage[s] = "queued" \/ s \in stolen \/ selected[WindowOfSlot(s)] = TabOf[s],
         stage[s] = "queued" => selected[WindowOfSlot(s)] = TabOf[s],
         Begin(s),
         UNCHANGED <<asked, served, expired, failed, browserVars, detached>>
  PROVE  IInv'
<1>1. stage' = [stage EXCEPT ![s] = "running"]
  BY DEF Begin
<1>2. ChainInv'
  BY <1>1, ChainStage DEF IInv
<1>3. PICK first \in Stops \ {"none"} : callback' = [callback EXCEPT ![s] = first]
  <2>1. First(s) \subseteq Stops \ {"none"}
    BY Stopping DEF Settled
  <2>2. QED
    BY <2>1 DEF Begin, Goto
<1>4. CallbackInv'
  BY <1>1, <1>3 DEF IInv, ChainInv, CallbackInv
<1>5. TabInv'
  BY <1>1 DEF IInv, ChainInv, TabInv, browserVars, WindowOfSlot
<1>6. ReachesOwnTab'
  BY DEF IInv, ReachesOwnTab, browserVars
<1>7. QED
  BY <1>2, <1>4, <1>5, <1>6 DEF IInv

LEMMA InvStart == ASSUME IInv, NEW s \in Slot, Start(s) PROVE IInv'
<1>1. served < Len(asked) /\ s = Current /\ stage[s] = "queued"
  BY DEF Start
<1>2. CASE selected[WindowOfSlot(s)] = TabOf[s]
  BY <1>1, <1>2, InvBegin DEF Start, browserVars
<1>3. CASE selected[WindowOfSlot(s)] # TabOf[s]
  <2>1. /\ selected' = [selected EXCEPT ![WindowOfSlot(s)] = TabOf[s]]
        /\ stage' = [stage EXCEPT ![s] = "switching"]
        /\ UNCHANGED <<asked, served, callback, expired, stolen, landed>>
    BY <1>3 DEF Start
  <2>2. ChainInv'
    BY <1>1, <2>1, ChainStage DEF IInv
  <2>3. CallbackInv'
    BY <1>1, <2>1 DEF IInv, ChainInv, CallbackInv
  <2>4. \A r \in Slot : stage[r] \notin {"switching", "running"}
    BY <1>1, UnderWay DEF IInv
  <2>5. TabInv'
    <3>1. selected' \in [Window -> Tab] /\ selected'[WindowOfSlot(s)] = TabOf[s]
      BY <2>1, ConstantTypes DEF IInv, TabInv
    <3>2. \A r \in Slot : stage'[r] \in {"switching", "running"} => r = s
      BY <2>1, <2>4 DEF IInv, ChainInv
    <3>3. stolen' \subseteq Slot /\ landed' \in [Slot -> SUBSET Tab]
      BY <2>1 DEF IInv, TabInv
    <3>4. QED
      BY <3>1, <3>2, <3>3 DEF TabInv, WindowOfSlot
  <2>6. QED
    BY <2>1, <2>2, <2>3, <2>5 DEF IInv, ReachesOwnTab
<1>4. QED
  BY <1>2, <1>3

LEMMA InvSwitchDone == ASSUME IInv, NEW s \in Slot, SwitchDone(s) PROVE IInv'
<1>1. stage[s] = "switching"
  BY DEF SwitchDone
<1>2. served < Len(asked) /\ s = Current
  BY <1>1, UnderWay DEF IInv
<1>3. s \in stolen \/ selected[WindowOfSlot(s)] = TabOf[s]
  BY <1>1 DEF IInv, TabInv
<1>4. QED
  BY <1>1, <1>2, <1>3, InvBegin DEF SwitchDone

\* The chain leaves the slot under way.
LEMMA InvEnd ==
  ASSUME IInv, NEW s \in Slot, Settle(s) \/ Expire(s)
  PROVE  IInv'
<1>1. /\ stage[s] = "running" /\ served' = served + 1
      /\ stage' = [stage EXCEPT ![s] = "over"]
      /\ UNCHANGED <<asked, callback, selected, stolen, landed>>
      /\ expired \subseteq expired' /\ expired' \subseteq Slot
      /\ callback[s] \in Settled \/ s \in expired'
  BY DEF Settle, Expire, callVars, browserVars, IInv, CallbackInv
<1>2. served < Len(asked) /\ s = Current
  BY <1>1, UnderWay DEF IInv
<1>3. ChainInv'
  BY <1>1, <1>2, ChainStage DEF IInv
<1>4. CallbackInv'
  BY <1>1 DEF IInv, ChainInv, CallbackInv
<1>5. TabInv' /\ ReachesOwnTab'
  BY <1>1 DEF IInv, ChainInv, TabInv, ReachesOwnTab, WindowOfSlot
<1>6. QED
  BY <1>3, <1>4, <1>5 DEF IInv

\* A callback goes on, on the chain or past its budget: it was called already.
LEMMA InvCallback ==
  ASSUME IInv, NEW s \in Slot,
         NEW to \in Stops, callback[s] \notin {"none", "done", "failed"},
         callback' = [callback EXCEPT ![s] = to],
         UNCHANGED <<chainVars, selected, stolen>>,
         landed' \in [Slot -> SUBSET Tab],
         ReachesOwnTab'
  PROVE  IInv'
<1>1. ChainInv'
  BY DEF chainVars, IInv, ChainInv
<1>2. CallbackInv'
  BY DEF chainVars, IInv, ChainInv, CallbackInv, Settled
<1>3. TabInv'
  BY DEF chainVars, IInv, TabInv, WindowOfSlot
<1>4. QED
  BY <1>1, <1>2, <1>3 DEF IInv

LEMMA InvDispatch == ASSUME IInv, NEW s \in Slot, Dispatch(s) PROVE IInv'
<1>1. /\ callback[s] = "send"
      /\ landed' = [landed EXCEPT ![s] = landed[s] \cup {selected[WindowOfSlot(s)]}]
      /\ UNCHANGED <<chainVars, selected, stolen>>
  BY DEF Dispatch
<1>2. landed' \in [Slot -> SUBSET Tab]
  BY <1>1, ConstantTypes DEF IInv, TabInv
<1>3. stage[s] = "running" \/ s \in expired
  BY <1>1 DEF IInv, ChainInv, CallbackInv, Settled
<1>4. s \notin expired \cup stolen => selected[WindowOfSlot(s)] = TabOf[s]
  BY <1>3 DEF IInv, TabInv
<1>5. ReachesOwnTab'
  BY <1>1, <1>4 DEF IInv, TabInv, ReachesOwnTab, chainVars
<1>6. PICK to \in Stops : callback' = [callback EXCEPT ![s] = to]
  BY Stopping DEF Dispatch, Goto, Settled
<1>7. QED
  BY <1>1, <1>2, <1>5, <1>6, InvCallback

LEMMA InvWait ==
  ASSUME IInv, NEW s \in Slot,
         \/ Finalized(s) \/ FinalizedTimeout(s) \/ Reply(s)
         \/ Flushed(s) \/ Ack(s) \/ AckTimeout(s)
  PROVE  IInv'
<1>1. /\ callback[s] \notin {"none", "done", "failed"}
      /\ \E to \in Stops : callback' = [callback EXCEPT ![s] = to]
      /\ UNCHANGED <<chainVars, selected, stolen, landed>>
  <2>1. CASE Finalized(s) \/ FinalizedTimeout(s)
    BY <2>1, Stopping
    DEF Finalized, FinalizedTimeout, Resume, DragOrSend, SendEvents, Goto, DragWaits, browserVars,
        Settled
  <2>2. CASE Reply(s) \/ Flushed(s)
    BY <2>2, Stopping DEF Reply, Flushed, Goto, browserVars, Settled
  <2>3. CASE Ack(s) \/ AckTimeout(s)
    BY <2>3, Stopping DEF Ack, AckTimeout, Proceed, Goto, browserVars, Settled
  <2>4. QED
    BY <2>1, <2>2, <2>3
<1>2. ReachesOwnTab' /\ landed' \in [Slot -> SUBSET Tab]
  BY <1>1 DEF IInv, TabInv, ReachesOwnTab, chainVars
<1>3. QED
  BY <1>1, <1>2, InvCallback

LEMMA InvDetach == ASSUME IInv, NEW t \in Tab, Detach(t) PROVE IInv'
<1>1. PICK hit \in SUBSET Slot :
        /\ callback' = [s \in Slot |-> IF s \in hit THEN "failed" ELSE callback[s]]
        /\ \A s \in hit : callback[s] \notin {"none", "done", "failed"}
        /\ UNCHANGED <<chainVars, browserVars>>
  <2>1. {s \in Slot : TabOf[s] = t /\ callback[s] \in DragWaits \cup {"ack", "reply"}} \in SUBSET Slot
    OBVIOUS
  <2>2. QED
    BY <2>1 DEF Detach, DragWaits
<1>2. CallbackInv'
  BY <1>1, Stopping DEF IInv, ChainInv, CallbackInv, Settled, chainVars
<1>3. ChainInv' /\ TabInv' /\ ReachesOwnTab'
  BY <1>1 DEF IInv, ChainInv, TabInv, ReachesOwnTab, WindowOfSlot, chainVars, browserVars
<1>4. QED
  BY <1>2, <1>3 DEF IInv

LEMMA InvSteal == ASSUME IInv, NEW t \in Tab, Steal(t) PROVE IInv'
<1>1. /\ selected' = [selected EXCEPT ![WindowOf[t]] = t]
      /\ stolen' = stolen \cup {s \in Slot : WindowOfSlot(s) = WindowOf[t]
                                               /\ stage[s] \in {"switching", "running"}}
      /\ UNCHANGED <<chainVars, callback, landed>>
  BY DEF Steal, callVars
<1>2. ChainInv' /\ CallbackInv'
  BY <1>1 DEF IInv, ChainInv, CallbackInv, chainVars
<1>3. TabInv'
  <2>1. selected' \in [Window -> Tab] /\ stolen' \subseteq Slot /\ landed' \in [Slot -> SUBSET Tab]
    BY <1>1, ConstantTypes DEF IInv, TabInv
  <2>2. ASSUME NEW s \in Slot, stage'[s] \in {"switching", "running"}, s \notin stolen'
        PROVE  selected'[WindowOfSlot(s)] = TabOf[s]
    BY <1>1, <2>2, ConstantTypes DEF IInv, TabInv, chainVars
  <2>3. QED
    BY <2>1, <2>2 DEF TabInv, WindowOfSlot
<1>4. ReachesOwnTab'
  BY <1>1 DEF IInv, ReachesOwnTab, chainVars
<1>5. QED
  BY <1>2, <1>3, <1>4 DEF IInv

LEMMA InvNext == IInv /\ [Next]_vars => IInv'
<1>1. ASSUME IInv, Tick \/ (\E t \in Tab : Escape(t)) \/ UNCHANGED vars PROVE IInv'
  <2>1. UNCHANGED <<chainVars, callback, browserVars>>
    BY <1>1 DEF Tick, Escape, vars, callVars
  <2>2. QED
    BY <1>1, <2>1
    DEF IInv, ChainInv, CallbackInv, TabInv, ReachesOwnTab, WindowOfSlot, chainVars, browserVars
<1>2. QED
  BY <1>1, InvAsk, InvStart, InvSwitchDone, InvEnd, InvDispatch, InvWait, InvDetach, InvSteal
  DEF Next

\* Every event of a slot that keeps to its budget lands on the slot's own tab,
\* unless the browser selects another one meanwhile (Page.dispatchMouseEvent).
THEOREM InputReachesOwnTab == Spec => []ReachesOwnTab
<1>1. IInv => ReachesOwnTab
  BY DEF IInv
<1>2. QED
  BY <1>1, InvInit, InvNext, PTL DEF Spec

\* A callback starts only when those asked for before it have ended, or their
\* budget has (activateAndRun).
THEOREM CallbacksAreSerialized == Spec => Serialized
<1> DEFINE A == \A i \in DOMAIN asked :
                  callback[asked[i]] = "none" /\ callback'[asked[i]] # "none" =>
                    \A j \in 1..(i - 1) :
                      callback[asked[j]] \in Settled \/ asked[j] \in expired
<1>1. IInv /\ Next => A
  <2> SUFFICES ASSUME IInv, Next, NEW i \in DOMAIN asked,
                      callback[asked[i]] = "none", callback'[asked[i]] # "none",
                      NEW j \in 1..(i - 1)
               PROVE  callback[asked[j]] \in Settled \/ asked[j] \in expired
    OBVIOUS
  <2>1. /\ DOMAIN asked = 1..Len(asked) /\ Len(asked) \in Nat
        /\ i \in 1..Len(asked) /\ j \in 1..Len(asked)
        /\ asked[i] \in Slot /\ asked[j] \in Slot
    BY DEF IInv, ChainInv
  <2>2. PICK s \in Slot : Start(s) \/ SwitchDone(s)
    <3>1. ASSUME NEW s \in Slot,
                 \/ Finalized(s) \/ FinalizedTimeout(s) \/ Reply(s)
                 \/ Flushed(s) \/ Dispatch(s) \/ Ack(s) \/ AckTimeout(s)
          PROVE  FALSE
      <4>1. callback[s] # "none"
        BY <3>1 DEF Finalized, FinalizedTimeout, Reply, Flushed, Dispatch, Ack, AckTimeout, DragWaits
      <4>2. \E to : callback' = [callback EXCEPT ![s] = to]
        BY <3>1 DEF Finalized, FinalizedTimeout, Reply, Flushed, Dispatch, Ack, AckTimeout, Proceed,
                    Goto
      <4>3. QED
        BY <2>1, <4>1, <4>2 DEF IInv, CallbackInv
    <3>2. ASSUME NEW s \in Slot, Ask(s) \/ Settle(s) \/ Expire(s) PROVE FALSE
      BY <2>1, <3>2 DEF Ask, Settle, Expire, callVars
    <3>3. ASSUME NEW t \in Tab, Detach(t) \/ Escape(t) \/ Steal(t) PROVE FALSE
      BY <2>1, <3>3 DEF Detach, Escape, Steal, callVars, DragWaits
    <3>4. ASSUME Tick PROVE FALSE
      BY <3>4 DEF Tick
    <3>5. QED
      BY <3>1, <3>2, <3>3, <3>4 DEF Next
  <2>3. served < Len(asked) /\ s = Current
    BY <2>2, UnderWay DEF Start, SwitchDone, IInv
  <2>4. asked[i] = s
    BY <2>1, <2>2 DEF Start, SwitchDone, Begin, Goto, IInv, CallbackInv
  <2>5. i = served + 1
    BY <2>1, <2>3, <2>4 DEF IInv, ChainInv, Current
  <2>6. stage[asked[j]] = "over"
    BY <2>1, <2>5 DEF IInv, ChainInv
  <2>7. QED
    BY <2>1, <2>6 DEF IInv, CallbackInv
<1>2. IInv /\ [Next]_vars => [A]_vars
  BY <1>1
<1>3. QED
  BY <1>2, InvInit, InvNext, PTL DEF Spec, Serialized


-----------------------------------------------------------------------------
(* Budgets and deadlines.                                                    *)

\* The deadlines a callback has still ahead of it, besides the one it waits under;
\* what its waits and pauses may still take.
Ahead(s) == (IF callback[s] = "settleBefore" THEN 1 ELSE 0)
            + (IF TypeOf[s] = "wheel" THEN 0 ELSE left[s])
            + (IF TypeOf[s] = "mousemove" /\ callback[s] \notin Settled \cup {"settleAfter"}
               THEN 1 ELSE 0)
Due(s) == wait[s] + plan[s] + Ahead(s) * AckDeadline

TimeTypes ==
  /\ left \in [Slot -> Nat] /\ plan \in [Slot -> Nat] /\ wait \in [Slot -> 0..AckDeadline]
  /\ budget \in [Slot -> 0..Budget]

\* Neither over nor waiting for the page's answer to a dragover.
Bounded == Stops \ (Settled \cup {"none", "reply"})

\* What a slot has spent and what its waits may still take never exceed the
\* worst they may take altogether.
InTime(s) ==
  stage[s] = "running" /\ callback[s] \in Bounded => Budget - budget[s] + Due(s) <= Worst(s)
SlotTime(s) ==
  /\ callback[s] \in {"none", "settleBefore"} => left[s] = Sends[s]
  /\ callback[s] = "none" => plan[s] = Pauses[s]
  /\ callback[s] \in {"flush", "send"} => left[s] > 0
  /\ callback[s] = "send" => wait[s] = 0
  /\ stage[s] = "running" => callback[s] # "none"
  /\ InTime(s)

TimeInv == TimeTypes /\ \A s \in Slot : SlotTime(s)

FullInv == IInv /\ TimeInv

LEMMA TimeConstants ==
  /\ Budget \in Nat /\ AckDeadline \in Nat
  /\ Sends \in [Slot -> Nat] /\ Pauses \in [Slot -> Nat] /\ TypeOf \in [Slot -> Type]
BY ActivationAssumption

LEMMA Products ==
  ASSUME NEW m \in Nat, NEW n \in Nat, m <= n
  PROVE  /\ m * AckDeadline \in Nat /\ n * AckDeadline \in Nat
         /\ m * AckDeadline <= n * AckDeadline
         /\ m + 1 <= n => m * AckDeadline + AckDeadline <= n * AckDeadline
<1>1. AckDeadline \in Nat
  BY ActivationAssumption
<1>2. PICK d \in Nat : n = m + d
  <2>1. n - m \in Nat /\ n = m + (n - m)
    OBVIOUS
  <2>2. QED
    BY <2>1
<1>3. /\ n * AckDeadline = m * AckDeadline + d * AckDeadline
      /\ m * AckDeadline \in Nat /\ d * AckDeadline \in Nat
  BY <1>1, <1>2
<1>4. ASSUME m + 1 <= n PROVE AckDeadline <= d * AckDeadline
  <2>1. d - 1 \in Nat /\ d = (d - 1) + 1
    BY <1>2, <1>4
  <2>2. d * AckDeadline = (d - 1) * AckDeadline + AckDeadline /\ (d - 1) * AckDeadline \in Nat
    BY <1>1, <2>1
  <2>3. QED
    BY <1>1, <2>2
<1>5. QED
  BY <1>1, <1>3, <1>4

LEMMA AheadTypes ==
  ASSUME TimeTypes, NEW s \in Slot
  PROVE  Ahead(s) \in Nat /\ Due(s) \in Nat /\ Deadlines(s) \in Nat /\ Worst(s) \in Nat
<1>1. left[s] \in Nat /\ plan[s] \in Nat /\ wait[s] \in Nat /\ Sends[s] \in Nat /\ Pauses[s] \in Nat
  BY TimeConstants DEF TimeTypes
<1>2. Ahead(s) \in Nat
  BY <1>1 DEF Ahead
<1>3. Deadlines(s) \in Nat
  <2>1. TypeOf[s] \in Type
    BY TimeConstants
  <2>2. QED
    BY <1>1, <2>1 DEF Deadlines, Type
<1>4. Ahead(s) * AckDeadline \in Nat /\ Deadlines(s) * AckDeadline \in Nat
  BY <1>2, <1>3, Products
<1>5. QED
  BY <1>1, <1>2, <1>3, <1>4 DEF Due, Worst

LEMMA TimeInit == Init => TimeInv
BY TimeConstants DEF Init, TimeInv, TimeTypes, SlotTime, InTime

\* A slot that nothing happened to.
LEMMA Untouched ==
  ASSUME NEW s \in Slot, SlotTime(s),
         callback'[s] = callback[s], left'[s] = left[s], wait'[s] = wait[s], plan'[s] = plan[s],
         budget'[s] = budget[s] \/ stage'[s] # "running",
         stage'[s] = stage[s] \/ stage'[s] # "running"
  PROVE  SlotTime(s)'
BY DEF SlotTime, InTime, Due, Ahead, Worst, Deadlines

\* A callback that goes on keeps to its time if it takes up no deadline it had not
\* ahead of it.
LEMMA KeepsTime ==
  ASSUME TimeTypes, TimeTypes', NEW s \in Slot, SlotTime(s), callback[s] \in Bounded,
         stage'[s] = stage[s], budget'[s] = budget[s], plan'[s] <= plan[s],
         Ahead(s)' <= Ahead(s),
         wait'[s] <= wait[s] \/ Ahead(s)' + 1 <= Ahead(s)
  PROVE  InTime(s)'
<1>1. /\ Ahead(s) \in Nat /\ Due(s) \in Nat /\ Worst(s) \in Nat
      /\ plan[s] \in Nat /\ wait[s] \in 0..AckDeadline /\ budget[s] \in 0..Budget
  BY AheadTypes DEF TimeTypes
<1>2. plan'[s] \in Nat /\ wait'[s] \in 0..AckDeadline
  BY DEF TimeTypes
<1>3. PICK b \in Nat : b = Ahead(s)'
  <2>1. left'[s] \in Nat
    BY DEF TimeTypes
  <2>2. Ahead(s)' \in Nat
    BY <2>1 DEF Ahead
  <2>3. QED
    BY <2>2
<1>4. PICK a \in Nat : a = Ahead(s)
  BY <1>1
<1>5. /\ b * AckDeadline \in Nat /\ a * AckDeadline \in Nat /\ b * AckDeadline <= a * AckDeadline
      /\ b + 1 <= a => b * AckDeadline + AckDeadline <= a * AckDeadline
  BY <1>3, <1>4, Products
<1>6. Due(s) = wait[s] + plan[s] + a * AckDeadline
  BY <1>4 DEF Due
<1>7. Due(s)' = wait'[s] + plan'[s] + b * AckDeadline
  BY <1>3 DEF Due
<1>8. wait'[s] <= wait[s] \/ b + 1 <= a
  BY <1>3, <1>4
<1>9. Due(s)' \in Int /\ Due(s)' <= Due(s)
  BY <1>1, <1>2, <1>5, <1>6, <1>7, <1>8, TimeConstants
<1>10. Worst(s)' = Worst(s)
  BY DEF Worst, Deadlines
<1>11. stage[s] = "running" => Budget - budget[s] + Due(s) <= Worst(s)
  BY DEF SlotTime, InTime
<1>12. QED
  BY <1>1, <1>9, <1>10, <1>11, TimeConstants DEF InTime

\* A callback that begins has its worst time ahead of it at most.
LEMMA BeginsInTime ==
  ASSUME TimeTypes, NEW s \in Slot, NEW first \in First(s), first \in Bounded,
         callback'[s] = first, left'[s] = Sends[s], plan'[s] = Pauses[s],
         wait'[s] = IF first \in Timed THEN AckDeadline ELSE 0
  PROVE  Due(s)' <= Worst(s)'
<1>1. Sends[s] \in Nat /\ Pauses[s] \in Nat /\ AckDeadline \in Nat /\ TypeOf[s] \in Type
  BY TimeConstants
<1>2. first \in {"flush", "send", "settleBefore"}
  BY Stopping DEF Bounded, Settled
<1>3. first = "settleBefore" => TypeOf[s] \in {"mousemove", "mouseup"}
  BY <1>1 DEF First, SendEvents, Type
<1>4. PICK b \in Nat : b = Ahead(s)'
  <2>1. Ahead(s)' \in Nat
    BY <1>1 DEF Ahead
  <2>2. QED
    BY <2>1
<1>5. PICK d \in Nat : d = Deadlines(s)
  BY AheadTypes
<1>6. TypeOf[s] # "none"
  BY <1>2 DEF First
<1>7. b = (IF first = "settleBefore" THEN 1 ELSE 0)
          + (IF TypeOf[s] = "wheel" THEN 0 ELSE Sends[s])
          + (IF TypeOf[s] = "mousemove" THEN 1 ELSE 0)
  BY <1>2, <1>4 DEF Ahead, Settled
<1>8. b + 1 <= d
  <2>1. CASE TypeOf[s] = "wheel"
    <3>1. d = 1
      BY <1>5, <2>1 DEF Deadlines
    <3>2. QED
      BY <1>3, <1>7, <2>1, <3>1
  <2>2. CASE TypeOf[s] = "mousedown"
    <3>1. d = 1 + Sends[s]
      BY <1>5, <2>2 DEF Deadlines
    <3>2. QED
      BY <1>1, <1>3, <1>7, <2>2, <3>1
  <2>3. CASE TypeOf[s] = "mouseup"
    <3>1. d = 2 + Sends[s]
      BY <1>5, <2>3 DEF Deadlines
    <3>2. QED
      BY <1>1, <1>7, <2>3, <3>1
  <2>4. CASE TypeOf[s] = "mousemove"
    <3>1. d = 3 + Sends[s]
      BY <1>5, <2>4 DEF Deadlines
    <3>2. QED
      BY <1>1, <1>7, <2>4, <3>1
  <2>5. QED
    BY <1>1, <1>6, <2>1, <2>2, <2>3, <2>4 DEF Type
<1>9. b * AckDeadline \in Nat /\ d * AckDeadline \in Nat /\ b * AckDeadline + AckDeadline <= d * AckDeadline
  BY <1>8, Products
<1>10. wait'[s] \in Nat /\ wait'[s] <= AckDeadline
  BY <1>1
<1>11. Due(s)' = wait'[s] + Pauses[s] + b * AckDeadline
  BY <1>4 DEF Due
<1>12. Worst(s)' = d * AckDeadline + Pauses[s]
  BY <1>5 DEF Worst, Deadlines
<1>13. QED
  BY <1>1, <1>9, <1>10, <1>11, <1>12

LEMMA TimeBegin ==
  ASSUME IInv, TimeInv, NEW s \in Slot, callback[s] = "none", Begin(s),
         UNCHANGED <<left, plan>>
  PROVE  TimeInv'
<1>1. PICK first \in First(s) :
        /\ callback' = [callback EXCEPT ![s] = first]
        /\ wait' = [wait EXCEPT ![s] = IF first \in Timed THEN AckDeadline ELSE 0]
  BY DEF Begin, Goto
<1>2. /\ budget' = [budget EXCEPT ![s] = Budget] /\ stage' = [stage EXCEPT ![s] = "running"]
      /\ callback \in [Slot -> Stops] /\ DOMAIN stage = Slot
  BY DEF Begin, IInv, ChainInv, CallbackInv
<1>3. TimeTypes'
  BY <1>1, <1>2, TimeConstants DEF TimeInv, TimeTypes
<1>4. ASSUME NEW r \in Slot, r # s PROVE SlotTime(r)'
  BY <1>1, <1>2, <1>4, Untouched DEF TimeInv, TimeTypes
<1>5. SlotTime(s)'
  <2>1. /\ callback'[s] = first /\ budget'[s] = Budget
        /\ left'[s] = Sends[s] /\ plan'[s] = Pauses[s]
        /\ wait'[s] = IF first \in Timed THEN AckDeadline ELSE 0
    BY <1>1, <1>2 DEF TimeInv, TimeTypes, SlotTime
  <2>2. first \in {"done", "reply", "flush", "send", "settleBefore"}
    BY Stopping
  <2>3. first \in {"flush", "send"} => Sends[s] > 0
    <3>1. Sends[s] \in Nat /\ TypeOf[s] \in Type
      BY TimeConstants
    <3>2. QED
      BY <3>1 DEF First, DragOrSend, SendEvents, Type
  <2>4. InTime(s)'
    <3>1. first \in Bounded => Due(s)' <= Worst(s)'
      BY <2>1, BeginsInTime DEF TimeInv
    <3>2. Due(s)' \in Int
      <4>1. Ahead(s)' \in Nat
        BY <2>1, TimeConstants DEF Ahead
      <4>2. PICK b \in Nat : b = Ahead(s)'
        BY <4>1
      <4>3. b * AckDeadline \in Nat
        BY Products
      <4>4. QED
        BY <2>1, <4>2, <4>3, TimeConstants DEF Due
    <3>3. Budget - budget'[s] + Due(s)' = Due(s)'
      BY <2>1, <3>2, TimeConstants
    <3>4. QED
      BY <2>1, <3>1, <3>3 DEF InTime
  <2>5. first = "send" => wait'[s] = 0
    BY <2>1 DEF Timed, DragWaits
  <2>6. QED
    BY <2>1, <2>2, <2>3, <2>4, <2>5 DEF SlotTime
<1>6. QED
  BY <1>3, <1>4, <1>5 DEF TimeInv

\* Steps of the chain: a slot is asked for, begins, or is left behind.
LEMMA TimeChain ==
  ASSUME IInv, TimeInv, NEW s \in Slot,
         Ask(s) \/ Start(s) \/ SwitchDone(s) \/ Settle(s) \/ Expire(s)
  PROVE  TimeInv'
<1>1. CASE Start(s) \/ SwitchDone(s)
  <2>1. callback[s] = "none" /\ UNCHANGED <<left, plan>>
    BY <1>1 DEF Start, SwitchDone, IInv, CallbackInv
  <2>2. CASE Begin(s)
    BY <2>1, <2>2, TimeBegin
  <2>3. CASE ~Begin(s)
    <3>1. /\ stage' = [stage EXCEPT ![s] = "switching"]
          /\ UNCHANGED <<callback, wait, budget, left, plan>>
      BY <1>1, <2>1, <2>3 DEF Start, SwitchDone
    <3>2. \A r \in Slot : SlotTime(r)'
      BY <3>1, Untouched DEF IInv, ChainInv, TimeInv
    <3>3. QED
      BY <3>1, <3>2 DEF TimeInv, TimeTypes
  <2>4. QED
    BY <2>2, <2>3
<1>2. CASE Ask(s) \/ Settle(s) \/ Expire(s)
  <2>1. /\ UNCHANGED callVars
        /\ \E x \in {"queued", "over"} : stage' = [stage EXCEPT ![s] = x]
        /\ budget' = budget \/ budget' = [budget EXCEPT ![s] = 0]
    BY <1>2 DEF Ask, Settle, Expire
  <2>2. \A r \in Slot : stage'[r] = stage[r] \/ (r = s /\ stage'[r] # "running")
    BY <2>1 DEF IInv, ChainInv
  <2>3. \A r \in Slot : r # s => budget'[r] = budget[r]
    BY <2>1 DEF TimeInv, TimeTypes
  <2>4. stage'[s] # "running"
    BY <2>1 DEF IInv, ChainInv
  <2>5. ASSUME NEW r \in Slot PROVE SlotTime(r)'
    BY <2>1, <2>2, <2>3, <2>4, Untouched DEF TimeInv, callVars
  <2>6. TimeTypes'
    BY <2>1, TimeConstants DEF TimeInv, TimeTypes, callVars
  <2>7. QED
    BY <2>5, <2>6 DEF TimeInv
<1>3. QED
  BY <1>1, <1>2

\* Every step of a callback touches its own slot only, and none of the timers of the
\* chain.
CallbackStep(s) ==
  \/ Finalized(s) \/ FinalizedTimeout(s) \/ Reply(s)
  \/ Flushed(s) \/ Dispatch(s) \/ Ack(s) \/ AckTimeout(s)

LEMMA OwnSlot ==
  ASSUME IInv, TimeInv, NEW s \in Slot, CallbackStep(s)
  PROVE  /\ UNCHANGED <<stage, budget>>
         /\ \E to \in Stops : Goto(s, to)
         /\ left' \in [Slot -> Int] /\ plan' \in [Slot -> Nat]
         /\ \A r \in Slot : r # s => left'[r] = left[r] /\ plan'[r] = plan[r]
<1>0. left \in [Slot -> Nat] /\ plan \in [Slot -> Nat]
  BY DEF TimeInv, TimeTypes
<1>1. CASE Finalized(s) \/ FinalizedTimeout(s)
  BY <1>0, <1>1, Stopping
  DEF Finalized, FinalizedTimeout, Resume, DragOrSend, SendEvents, chainVars, Settled
<1>2. CASE Reply(s) \/ Flushed(s)
  BY <1>0, <1>2, Stopping DEF Reply, Flushed, chainVars, Settled
<1>3. CASE Dispatch(s)
  BY <1>0, <1>3, Stopping DEF Dispatch, chainVars, Settled
<1>4. CASE Ack(s) \/ AckTimeout(s)
  BY <1>0, <1>4, Stopping DEF Ack, AckTimeout, Proceed, chainVars, Settled
<1>5. QED
  BY <1>1, <1>2, <1>3, <1>4 DEF CallbackStep

\* What such a step does to the time of its slot.
LEMMA StepInTime ==
  ASSUME IInv, TimeInv, NEW s \in Slot, CallbackStep(s), NEW to \in Stops, Goto(s, to)
  PROVE  /\ left'[s] \in Nat
         /\ to \in {"flush", "send"} => left'[s] > 0
         /\ to \notin {"none", "settleBefore"}
         /\ to \notin Settled \cup {"reply"} =>
              /\ plan'[s] <= plan[s] /\ Ahead(s)' <= Ahead(s)
              /\ wait'[s] <= wait[s] \/ Ahead(s)' + 1 <= Ahead(s)
<1>0. /\ SlotTime(s) /\ left[s] \in Nat /\ plan[s] \in Nat /\ wait[s] \in 0..AckDeadline
      /\ left \in [Slot -> Nat] /\ plan \in [Slot -> Nat] /\ wait \in [Slot -> 0..AckDeadline]
      /\ callback \in [Slot -> Stops] /\ Sends[s] \in Nat /\ AckDeadline \in Nat
  BY TimeConstants DEF TimeInv, TimeTypes, IInv, CallbackInv
<1>1. callback'[s] = to /\ wait'[s] = IF to \in Timed THEN AckDeadline ELSE 0
  BY <1>0 DEF Goto
<1>2. \A x \in Stops, y \in Stops : [callback EXCEPT ![s] = x] = [callback EXCEPT ![s] = y] => x = y
  BY <1>0
<1>3. CASE Finalized(s) \/ FinalizedTimeout(s)
  <2>1. /\ callback[s] \in DragWaits /\ left' = left /\ plan' = plan
        /\ \E dragging : \E x \in Resume(s, dragging) : Goto(s, x)
    BY <1>3 DEF Finalized, FinalizedTimeout
  <2>2. \A dragging : Resume(s, dragging) \subseteq {"done", "reply", "flush", "send"}
    BY DEF Resume, DragOrSend, SendEvents
  <2>3. to \in {"done", "reply", "flush", "send"}
    BY <1>2, <2>1, <2>2, Stopping DEF Goto, Settled
  <2>4. to \in {"flush", "send"} => callback[s] = "settleBefore" /\ Sends[s] > 0
    BY <1>0, <1>2, <2>1, Stopping DEF Goto, Resume, DragOrSend, SendEvents, DragWaits, Settled
  <2>5. QED
    BY <1>0, <1>1, <2>1, <2>3, <2>4 DEF SlotTime, Ahead, Timed, DragWaits, Settled
<1>4. CASE Reply(s)
  BY <1>0, <1>2, <1>4, Stopping DEF Reply, Goto, Settled
<1>5. CASE Flushed(s)
  <2>1. to = "send" /\ callback[s] = "flush" /\ left' = left /\ plan' = plan
    BY <1>2, <1>5, Stopping DEF Flushed, Goto
  <2>2. QED
    BY <1>0, <1>1, <2>1 DEF SlotTime, Ahead, Timed, DragWaits, Settled
<1>6. CASE Dispatch(s)
  <2>1. /\ callback[s] = "send" /\ left'[s] = left[s] - 1 /\ plan' = plan /\ left[s] > 0
        /\ to = IF TypeOf[s] # "wheel" THEN "ack" ELSE IF left[s] = 1 THEN "done" ELSE "send"
    BY <1>0, <1>2, <1>6, Stopping DEF Dispatch, Goto, SlotTime, Settled
  <2>2. QED
    BY <1>0, <1>1, <2>1 DEF SlotTime, Ahead, Timed, DragWaits, Settled
<1>7. CASE Ack(s) \/ AckTimeout(s)
  <2>1. /\ callback[s] = "ack" /\ Proceed(s)
        /\ plan'[s] \in Nat /\ plan'[s] <= plan[s]
        /\ left'[s] = left[s] \/ (left[s] > 0 /\ left'[s] = 1)
    BY <1>0, <1>7 DEF Ack, AckTimeout
  <2>2. \/ left[s] > 0 /\ to = "send"
        \/ left[s] = 0 /\ to = "done"
        \/ left[s] = 0 /\ TypeOf[s] = "mousemove" /\ to = "settleAfter"
    BY <1>2, <2>1, Stopping DEF Proceed, Goto, Settled
  <2>3. QED
    BY <1>0, <1>1, <2>1, <2>2 DEF Ahead, Timed, DragWaits, Settled
<1>8. QED
  BY <1>3, <1>4, <1>5, <1>6, <1>7 DEF CallbackStep

LEMMA TimeCallback ==
  ASSUME IInv, TimeInv, NEW s \in Slot, CallbackStep(s)
  PROVE  TimeInv'
<1>1. PICK to \in Stops : Goto(s, to)
  BY OwnSlot
<1>2. /\ UNCHANGED <<stage, budget>> /\ plan' \in [Slot -> Nat] /\ left' \in [Slot -> Int]
      /\ \A r \in Slot : r # s => left'[r] = left[r] /\ plan'[r] = plan[r]
  BY OwnSlot
<1>3. /\ left'[s] \in Nat
      /\ to \in {"flush", "send"} => left'[s] > 0
      /\ to \notin {"none", "settleBefore"}
      /\ to \notin Settled \cup {"reply"} =>
           /\ plan'[s] <= plan[s] /\ Ahead(s)' <= Ahead(s)
           /\ wait'[s] <= wait[s] \/ Ahead(s)' + 1 <= Ahead(s)
  BY <1>1, StepInTime
<1>4. /\ callback' = [callback EXCEPT ![s] = to] /\ callback \in [Slot -> Stops]
      /\ wait' = [wait EXCEPT ![s] = IF to \in Timed THEN AckDeadline ELSE 0]
      /\ wait \in [Slot -> 0..AckDeadline]
  BY <1>1 DEF Goto, IInv, CallbackInv, TimeInv, TimeTypes
<1>5. TimeTypes'
  <2>1. \A r \in Slot : left'[r] \in Nat
    BY <1>2, <1>3 DEF TimeInv, TimeTypes
  <2>2. QED
    BY <1>2, <1>4, <2>1, TimeConstants DEF TimeInv, TimeTypes
<1>6. ASSUME NEW r \in Slot, r # s PROVE SlotTime(r)'
  BY <1>2, <1>4, <1>6, Untouched DEF TimeInv
<1>7. SlotTime(s)'
  <2>1. callback'[s] = to /\ wait'[s] = IF to \in Timed THEN AckDeadline ELSE 0
    BY <1>4
  <2>2. InTime(s)'
    <3>1. CASE to \in Settled \cup {"none", "reply"}
      BY <2>1, <3>1 DEF InTime, Bounded
    <3>2. CASE to \notin Settled \cup {"none", "reply"}
      <4>1. callback[s] \in Bounded
        <5>1. callback[s] \notin Settled \cup {"none", "reply"}
          <6>1. CASE Reply(s)
            <7>1. to = "done"
              BY <1>4, <6>1 DEF Reply, Goto
            <7>2. QED
              BY <3>2, <7>1 DEF Settled
          <6>2. CASE ~Reply(s)
            BY <6>2 DEF CallbackStep, Finalized, FinalizedTimeout, Flushed, Dispatch, Ack,
                        AckTimeout, DragWaits, Settled
          <6>3. QED
            BY <6>1, <6>2
        <5>2. QED
          BY <1>4, <5>1 DEF Bounded
      <4>2. stage'[s] = stage[s] /\ budget'[s] = budget[s]
        BY <1>2
      <4>3. TimeTypes /\ SlotTime(s)
        BY DEF TimeInv
      <4>4. QED
        BY <1>3, <1>5, <3>2, <4>1, <4>2, <4>3, KeepsTime
    <3>3. QED
      BY <3>1, <3>2
  <2>3. to = "send" => wait'[s] = 0
    BY <2>1 DEF Timed, DragWaits
  <2>4. QED
    BY <1>3, <2>1, <2>2, <2>3 DEF SlotTime
<1>8. QED
  BY <1>5, <1>6, <1>7 DEF TimeInv

\* Time passes only while every slot under way waits under a deadline or pauses.
LEMMA TimeTick ==
  ASSUME IInv, TimeInv, Tick
  PROVE  TimeInv'
<1>1. UNCHANGED <<stage, callback, left>>
  BY DEF Tick, chainVars
<1>2. TimeTypes'
  BY <1>1, TimeConstants DEF Tick, TimeInv, TimeTypes
<1>3. ASSUME NEW s \in Slot PROVE SlotTime(s)'
  <2>1. /\ SlotTime(s) /\ Ahead(s) \in Nat /\ Due(s) \in Nat /\ Worst(s) \in Nat
        /\ plan[s] \in Nat /\ wait[s] \in 0..AckDeadline /\ budget[s] \in 0..Budget
        /\ callback[s] \in Stops
    BY AheadTypes DEF IInv, CallbackInv, TimeInv, TimeTypes
  <2>2. /\ budget'[s] = IF stage[s] = "running" THEN budget[s] - 1 ELSE budget[s]
        /\ wait'[s] = IF callback[s] \in Timed THEN wait[s] - 1 ELSE wait[s]
        /\ plan'[s] = IF callback[s] \in {"send", "ack"} /\ plan[s] > 0 THEN plan[s] - 1 ELSE plan[s]
    BY DEF Tick
  <2>3. callback[s] = "send" => plan[s] > 0
    BY DEF Tick, Instant, Pausing
  <2>4. callback'[s] = callback[s] /\ left'[s] = left[s] /\ stage'[s] = stage[s]
    BY <1>1
  <2>5. callback[s] = "send" => wait'[s] = 0
    BY <2>1, <2>2 DEF SlotTime, Timed, DragWaits
  <2>6. InTime(s)'
    <3>1. Ahead(s)' = Ahead(s) /\ Worst(s)' = Worst(s)
      BY <2>4 DEF Ahead, Worst, Deadlines
    <3>2. PICK p \in Nat : p = Ahead(s) * AckDeadline
      BY <2>1, Products
    <3>3. Due(s) = wait[s] + plan[s] + p /\ Due(s)' = wait'[s] + plan'[s] + p
      BY <3>1, <3>2 DEF Due
    <3>4. CASE callback[s] \in Bounded /\ stage[s] = "running"
      <4>1. callback[s] \in Timed \/ callback[s] = "send"
        BY <3>4 DEF Bounded, Stops
      <4>2. Due(s)' \in Int /\ Due(s)' <= Due(s) - 1
        BY <2>1, <2>2, <2>3, <3>3, <4>1, TimeConstants DEF Timed, DragWaits
      <4>3. Budget - budget[s] + Due(s) <= Worst(s)
        BY <2>1, <3>4 DEF SlotTime, InTime
      <4>4. budget'[s] = budget[s] - 1
        BY <2>2, <3>4
      <4>5. QED
        BY <2>1, <3>1, <4>2, <4>3, <4>4, TimeConstants DEF InTime
    <3>5. CASE ~(callback[s] \in Bounded /\ stage[s] = "running")
      BY <2>4, <3>5 DEF InTime
    <3>6. QED
      BY <3>4, <3>5
  <2>7. callback[s] = "none" => plan'[s] = plan[s]
    BY <2>2
  <2>8. QED
    BY <2>1, <2>4, <2>5, <2>6, <2>7 DEF SlotTime
<1>4. QED
  BY <1>2, <1>3 DEF TimeInv

LEMMA TimeTab ==
  ASSUME IInv, TimeInv, NEW t \in Tab, Detach(t) \/ Escape(t) \/ Steal(t)
  PROVE  TimeInv'
<1>1. CASE Escape(t) \/ Steal(t)
  BY <1>1, Untouched DEF Escape, Steal, chainVars, callVars, TimeInv, TimeTypes
<1>2. CASE Detach(t)
  <2>1. PICK hit \in SUBSET Slot :
          /\ callback' = [s \in Slot |-> IF s \in hit THEN "failed" ELSE callback[s]]
          /\ wait' = [s \in Slot |-> IF s \in hit THEN 0 ELSE wait[s]]
          /\ UNCHANGED <<stage, left, plan, budget>>
    <3>1. {s \in Slot : TabOf[s] = t /\ callback[s] \in DragWaits \cup {"ack", "reply"}} \in SUBSET Slot
      OBVIOUS
    <3>2. QED
      BY <1>2, <3>1 DEF Detach, chainVars
  <2>2. ASSUME NEW s \in Slot, s \in hit PROVE SlotTime(s)'
    <3>1. callback'[s] = "failed"
      BY <2>1, <2>2
    <3>2. QED
      BY <3>1 DEF SlotTime, InTime, Bounded, Settled
  <2>3. ASSUME NEW s \in Slot, s \notin hit PROVE SlotTime(s)'
    BY <2>1, <2>3, Untouched DEF TimeInv
  <2>4. TimeTypes'
    BY <2>1, TimeConstants DEF TimeInv, TimeTypes
  <2>5. QED
    BY <2>2, <2>3, <2>4 DEF TimeInv
<1>3. QED
  BY <1>1, <1>2

LEMMA TimeNext == IInv /\ TimeInv /\ [Next]_vars => TimeInv'
<1> SUFFICES ASSUME IInv, TimeInv, [Next]_vars PROVE TimeInv'
  OBVIOUS
<1>1. CASE UNCHANGED vars
  BY <1>1, Untouched DEF vars, callVars, chainVars, TimeInv, TimeTypes
<1>2. CASE Next
  BY <1>2, TimeChain, TimeCallback, TimeTick, TimeTab DEF Next, CallbackStep
<1>3. QED
  BY <1>1, <1>2

\* A slot that expires had not ended: its waits had spent the whole budget.
LEMMA ExpiryNext ==
  ASSUME FullInv, Next, NEW s \in expired' \ expired
  PROVE  callback[s] = "reply" \/ Worst(s) >= Budget
<1>1. Expire(s) /\ s \in Slot
  <2>1. ASSUME expired' = expired PROVE FALSE
    BY <2>1
  <2>2. PICK r \in Slot : Expire(r)
    BY <2>1
    DEF Next, Ask, Start, SwitchDone, Settle, Finalized, FinalizedTimeout, Reply, Flushed,
        Dispatch, Ack, AckTimeout, Detach, Escape, Steal, Tick, chainVars
  <2>3. expired' = expired \cup {r}
    BY <2>2 DEF Expire
  <2>4. QED
    BY <2>2, <2>3
<1>2. /\ stage[s] = "running" /\ callback[s] \notin Settled /\ budget[s] = 0
      /\ callback[s] \in Stops /\ callback[s] # "none"
  BY <1>1 DEF Expire, FullInv, IInv, CallbackInv, TimeInv, SlotTime
<1>3. CASE callback[s] # "reply"
  <2>1. Budget - budget[s] + Due(s) <= Worst(s)
    BY <1>1, <1>2, <1>3 DEF FullInv, TimeInv, SlotTime, InTime, Bounded
  <2>2. Due(s) \in Nat /\ Worst(s) \in Nat
    BY <1>1, AheadTypes DEF FullInv, TimeInv
  <2>3. QED
    BY <1>2, <2>1, <2>2, TimeConstants
<1>4. QED
  BY <1>3

\* The budget of a slot covers the deadlines and the pauses of its waits: only a
\* drag the page leaves unanswered, or a callback whose own deadlines and pauses add
\* up to the budget, makes a slot expire (kActivationSlotBudgetMs in
\* TargetRegistry.js).
THEOREM ExpiryNeedsHang == Spec => OnlyHangsExpire
<1>1. Init => FullInv
  BY InvInit, TimeInit DEF FullInv
<1>2. FullInv /\ [Next]_vars => FullInv'
  BY InvNext, TimeNext DEF FullInv
<1>3. FullInv /\ [Next]_vars =>
        [\A s \in expired' \ expired : callback[s] = "reply" \/ Worst(s) >= Budget]_vars
  BY ExpiryNext
<1>4. QED
  BY <1>1, <1>2, <1>3, PTL DEF Spec, OnlyHangsExpire

\* What the proofs above do not speak of keeps its type, too: the browser's own
\* selections, the drags and the sessions that went.
RestInv ==
  /\ failed \subseteq Slot /\ detached \subseteq Tab /\ steals \in 0..MaxSteal
  /\ dragWatcher \subseteq Tab /\ isDragging \subseteq Tab
  /\ \A w \in Window : WindowOf[selected[w]] = w

LEMMA RestNext == IInv /\ RestInv /\ [Next]_vars => RestInv'
<1> SUFFICES ASSUME IInv, RestInv, [Next]_vars PROVE RestInv'
  OBVIOUS
<1>1. selected \in [Window -> Tab]
  BY DEF IInv, TabInv
<1>2. ASSUME NEW s \in Slot, Ask(s) \/ Start(s) \/ SwitchDone(s) \/ Settle(s) \/ Expire(s)
      PROVE  RestInv'
  BY <1>1, <1>2, ConstantTypes
  DEF Ask, Start, SwitchDone, Settle, Expire, RestInv, browserVars, dragVars, WindowOfSlot
<1>3. ASSUME NEW s \in Slot, CallbackStep(s)
      PROVE  RestInv'
  <2>1. UNCHANGED <<failed, detached, steals, selected>>
    BY <1>3 DEF CallbackStep, Finalized, FinalizedTimeout, Reply, Flushed, Dispatch, Ack,
                AckTimeout, browserVars, chainVars
  <2>2. dragWatcher' \subseteq dragWatcher \cup {TabOf[s]} /\ isDragging' \subseteq isDragging \cup {TabOf[s]}
    <3>1. CASE Finalized(s) \/ FinalizedTimeout(s) \/ Reply(s)
      BY <3>1 DEF Finalized, FinalizedTimeout, Reply
    <3>2. CASE Flushed(s) \/ Dispatch(s)
      BY <3>2 DEF Flushed, Dispatch, dragVars
    <3>3. CASE Ack(s) \/ AckTimeout(s)
      BY <3>3 DEF Ack, AckTimeout, Proceed
    <3>4. QED
      BY <1>3, <3>1, <3>2, <3>3 DEF CallbackStep
  <2>3. QED
    BY <2>1, <2>2, ConstantTypes DEF RestInv
<1>4. ASSUME NEW t \in Tab, Detach(t) \/ Escape(t) \/ Steal(t) PROVE RestInv'
  BY <1>1, <1>4, ConstantTypes, ActivationAssumption
  DEF Detach, Escape, Steal, RestInv, browserVars, chainVars, dragVars
<1>5. ASSUME Tick PROVE RestInv'
  BY <1>5 DEF Tick, RestInv, browserVars, chainVars, dragVars
<1>6. ASSUME UNCHANGED vars PROVE RestInv'
  BY <1>6 DEF vars, RestInv, browserVars, chainVars, dragVars
<1>7. QED
  BY <1>2, <1>3, <1>4, <1>5, <1>6 DEF Next, CallbackStep

\* Every variable of the chain, its callbacks and its timers keeps its type, for
\* any slots, tabs, windows and budgets.
THEOREM ActivationTypes == Spec => []TypeOK
<1>1. Init => IInv /\ TimeInv /\ RestInv
  <2>1. Init => RestInv
    BY ActivationAssumption DEF Init, RestInv
  <2>2. QED
    BY <2>1, InvInit, TimeInit
<1>2. IInv /\ TimeInv /\ RestInv /\ [Next]_vars => (IInv /\ TimeInv /\ RestInv)'
  BY InvNext, TimeNext, RestNext
<1>3. IInv /\ TimeInv /\ RestInv => TypeOK
  BY DEF IInv, TimeInv, RestInv, ChainInv, CallbackInv, TabInv, TimeTypes, TypeOK
<1>4. QED
  BY <1>1, <1>2, <1>3, PTL DEF Spec
=============================================================================
