--------------------------- MODULE ActivationChain ---------------------------
(***************************************************************************)
(* How synthesized input takes its turn.  PageTarget.activateAndRun (in    *)
(* juggler/TargetRegistry.js) puts every input event of every tab on one   *)
(* chain of promises, globalTabAndWindowActivationChain: a slot selects    *)
(* its tab, runs its callback under a budget, and lets the next one in.    *)
(* The callbacks are those of Page.dispatchMouseEvent and                  *)
(* Page.dispatchWheelEvent in PageHandler.js, with the drag they keep      *)
(* track of, and the acks, deadlines and pauses of input/MouseDispatch.js. *)
(*                                                                         *)
(* Time is a number of ticks left on each armed timer.  Code that awaits   *)
(* nothing takes no time: no tick passes while such a step can be taken.   *)
(***************************************************************************)
EXTENDS Integers, Sequences, FiniteSets

CONSTANTS
  Slot,         \* calls of activateAndRun
  Tab,
  Window,
  WindowOf,     \* [Tab -> Window]
  TabOf,        \* [Slot -> Tab]
  TypeOf,       \* [Slot -> Type]
  Sends,        \* [Slot -> Nat]: the events the callback dispatches in turn
  Pauses,       \* [Slot -> Nat]: ticks to compute and to play a curve, or the
                \* pauses between the notches of a wheel altogether
  Budget,       \* kActivationSlotBudgetMs, in ticks
  AckDeadline,  \* kAckDeadlineMs, in ticks
  MaxSteal      \* how often the browser selects a tab by itself

\* What a callback dispatches; "none" for one that dispatches nothing, as that of
\* Page.bringToFront or of a point outside the viewport.
Type == {"none", "mousedown", "mousemove", "mouseup", "wheel"}

\* The contextmenu of a button is dispatched and awaited together with its event.
ASSUME ActivationAssumption ==
  /\ WindowOf \in [Tab -> Window] /\ TabOf \in [Slot -> Tab]
  /\ TypeOf \in [Slot -> Type] /\ Sends \in [Slot -> Nat] /\ Pauses \in [Slot -> Nat]
  /\ \A s \in Slot : TypeOf[s] \in {"mousedown", "mouseup"} => Sends[s] = 1 /\ Pauses[s] = 0
  /\ Budget \in Nat /\ AckDeadline \in Nat /\ MaxSteal \in Nat
  /\ \A w \in Window : \E t \in Tab : WindowOf[t] = w

VARIABLES
  asked,      \* the slots in the order activateAndRun was called
  served,     \* how many of them the chain has left behind
  stage,      \* what each slot is doing on the chain
  callback,   \* what the callback of each slot is doing
  left,       \* events the callback has still to dispatch
  wait,       \* ticks left on the deadline the callback waits under
  plan,       \* ticks left of the callback's pauses
  dragWatcher,  \* tabs with a _dragWatcher: a drag that is not settled
  isDragging,   \* tabs with _isDragging
  budget,     \* ticks left on the slot's timer
  expired,    \* slots the chain went on without
  failed,     \* slots whose promise was rejected
  selected,   \* the selected tab of each window
  steals,     \* how often the browser selected a tab by itself
  stolen,     \* slots that were under way when it did
  detached,   \* tabs whose session was disposed
  landed      \* the tabs that got an event of each slot

chainVars   == <<asked, served, stage, expired, failed>>
callVars    == <<callback, left, wait, plan>>
dragVars    == <<dragWatcher, isDragging>>
browserVars == <<selected, steals, stolen, landed>>
vars == <<chainVars, callVars, dragVars, budget, browserVars, detached>>

\* Faulty variant: the flush and the end of a drag would be awaited without a
\* deadline.
TimedAcks == {"ack"}

DragWaits == {"settleBefore", "settleAfter"}    \* _settleDrag, before and after the events
Timed == DragWaits \cup {"flush", "ack"}         \* waits with a deadline of their own
Settled == {"done", "failed"}
Stops == Timed \cup Settled \cup {"none", "reply", "send"}
Current == asked[served + 1]       \* the slot whose turn it is
WindowOfSlot(s) == WindowOf[TabOf[s]]

Init ==
  /\ asked = <<>> /\ served = 0
  /\ stage = [s \in Slot |-> "idle"]
  /\ callback = [s \in Slot |-> "none"]
  /\ left = Sends
  /\ wait = [s \in Slot |-> 0]
  /\ plan = Pauses
  /\ dragWatcher = {} /\ isDragging = {}
  /\ budget = [s \in Slot |-> 0]
  /\ expired = {} /\ failed = {}
  /\ selected \in [Window -> Tab] /\ \A w \in Window : WindowOf[selected[w]] = w
  /\ steals = 0 /\ stolen = {}
  /\ detached = {}
  /\ landed = [s \in Slot |-> {}]

-----------------------------------------------------------------------------
(* The chain *)

\* activateAndRun: then() on the chain, whatever its state.
Ask(s) ==
  /\ stage[s] = "idle" /\ TabOf[s] \notin detached
  /\ asked' = Append(asked, s)
  /\ stage' = [stage EXCEPT ![s] = "queued"]
  /\ UNCHANGED <<served, expired, failed, callVars, dragVars, budget, browserVars, detached>>

\* The callback goes on to another of its waits, or to its end.
Goto(s, to) ==
  /\ callback' = [callback EXCEPT ![s] = to]
  /\ wait' = [wait EXCEPT ![s] = IF to \in Timed THEN AckDeadline ELSE 0]

\* sendEvents: the flush of the compositor if one is due, and the events.  A move
\* without displacement has none.
SendEvents(s) == IF Sends[s] = 0 THEN {"done"} ELSE {"flush", "send"}

\* A page that drags is told of the mouse by its content process.
DragOrSend(s, dragging) == IF TabOf[s] \in dragging THEN {"reply"} ELSE SendEvents(s)

\* Where the callback of each type stops first.
First(s) ==
  CASE TypeOf[s] = "none" -> {"done"}
    [] TypeOf[s] = "wheel" -> SendEvents(s)
    [] TypeOf[s] = "mousedown" -> IF TabOf[s] \in isDragging THEN {"done"} ELSE SendEvents(s)
    [] TypeOf[s] \in {"mousemove", "mouseup"} ->
         IF TabOf[s] \in dragWatcher THEN {"settleBefore"} ELSE DragOrSend(s, isDragging)

\* The slot's timer is armed and its callback called.
Begin(s) ==
  /\ stage' = [stage EXCEPT ![s] = "running"]
  /\ budget' = [budget EXCEPT ![s] = Budget]
  /\ \E first \in First(s) : Goto(s, first)

\* Faulty variant: one chain per tab, where the code has one per process.
StartPerTab(s) ==
  /\ stage[s] = "queued"
  /\ ~\E r \in Slot : TabOf[r] = TabOf[s] /\ stage[r] \in {"switching", "running"}
  /\ IF selected[WindowOfSlot(s)] = TabOf[s]
     THEN Begin(s) /\ UNCHANGED selected
     ELSE /\ selected' = [selected EXCEPT ![WindowOfSlot(s)] = TabOf[s]]
          /\ stage' = [stage EXCEPT ![s] = "switching"]
          /\ UNCHANGED <<callback, wait, budget>>
  /\ UNCHANGED <<asked, served, expired, failed, left, plan, dragVars, steals, stolen, landed,
                 detached>>

\* Faulty variant: the tab would not be selected before the callback runs.
StartUnselected(s) ==
  /\ served < Len(asked) /\ s = Current
  /\ stage[s] = "queued"
  /\ Begin(s)
  /\ UNCHANGED <<asked, served, expired, failed, left, plan, dragVars, browserVars, detached>>

\* The slot's turn: its tab is selected already, or the switch begins.
Start(s) ==
  /\ served < Len(asked) /\ s = Current
  /\ stage[s] = "queued"
  /\ IF selected[WindowOfSlot(s)] = TabOf[s]
     THEN Begin(s) /\ UNCHANGED selected
     ELSE /\ selected' = [selected EXCEPT ![WindowOfSlot(s)] = TabOf[s]]
          /\ stage' = [stage EXCEPT ![s] = "switching"]
          /\ UNCHANGED <<callback, wait, budget>>
  /\ UNCHANGED <<asked, served, expired, failed, left, plan, dragVars, steals, stolen, landed,
                 detached>>

\* TabSwitchDone fires on the slot's window.
SwitchDone(s) ==
  /\ stage[s] = "switching"
  /\ Begin(s)
  /\ UNCHANGED <<asked, served, expired, failed, left, plan, dragVars, browserVars, detached>>

\* Faulty variant: a rejected slot would reject the chain with it.
SettleBreaksChain(s) ==
  /\ stage[s] = "running" /\ callback[s] = "done"
  /\ served' = served + 1
  /\ stage' = [stage EXCEPT ![s] = "over"]
  /\ budget' = [budget EXCEPT ![s] = 0]
  /\ UNCHANGED <<asked, expired, failed, callVars, dragVars, browserVars, detached>>

\* The callback wins the race: the timer is cleared and the chain goes on, an
\* error swallowed.
Settle(s) ==
  /\ stage[s] = "running" /\ callback[s] \in Settled
  /\ served' = served + 1
  /\ stage' = [stage EXCEPT ![s] = "over"]
  /\ failed' = IF callback[s] = "failed" THEN failed \cup {s} ELSE failed
  /\ budget' = [budget EXCEPT ![s] = 0]
  /\ UNCHANGED <<asked, expired, callVars, dragVars, browserVars, detached>>

\* The timer wins: the chain goes on, and so does the callback.
Expire(s) ==
  /\ stage[s] = "running" /\ callback[s] \notin Settled
  /\ budget[s] = 0
  /\ served' = served + 1
  /\ stage' = [stage EXCEPT ![s] = "over"]
  /\ expired' = expired \cup {s}
  /\ UNCHANGED <<asked, failed, callVars, dragVars, budget, browserVars, detached>>

-----------------------------------------------------------------------------
(* The callback: Page.dispatchMouseEvent, Page.dispatchWheelEvent *)

\* Where _settleDrag returns to.
Resume(s, dragging) ==
  IF callback[s] = "settleAfter" THEN {"done"} ELSE DragOrSend(s, dragging)

\* _settleDrag: the page reports whether the drag has a session.
Finalized(s) ==
  /\ callback[s] \in DragWaits
  /\ dragWatcher' = dragWatcher \ {TabOf[s]}
  /\ isDragging' \in {isDragging \cup {TabOf[s]}, isDragging \ {TabOf[s]}}
  /\ \E to \in Resume(s, isDragging') : Goto(s, to)
  /\ UNCHANGED <<chainVars, left, plan, budget, browserVars, detached>>

\* ... or it does not in time: a mouseup takes it that there is none, a mousemove
\* leaves the question to the next event.
FinalizedTimeout(s) ==
  /\ callback[s] \in DragWaits /\ wait[s] = 0
  /\ LET over == IF TypeOf[s] = "mouseup" THEN {TabOf[s]} ELSE {} IN
       dragWatcher' = dragWatcher \ over /\ isDragging' = isDragging \ over
  /\ \E to \in Resume(s, isDragging') : Goto(s, to)
  /\ UNCHANGED <<chainVars, left, plan, budget, browserVars, detached>>

\* The page answers a dragover: no deadline of its own on this wait.  With the
\* answer to a mouseup the drag is over.
Reply(s) ==
  /\ callback[s] = "reply"
  /\ isDragging' = IF TypeOf[s] = "mouseup" THEN isDragging \ {TabOf[s]} ELSE isDragging
  /\ Goto(s, "done")
  /\ UNCHANGED <<chainVars, left, plan, dragWatcher, budget, browserVars, detached>>

\* awaitTopicWithin: the flush is over, or its deadline is.
Flushed(s) ==
  /\ callback[s] = "flush"
  /\ Goto(s, "send")
  /\ UNCHANGED <<chainVars, left, plan, dragVars, budget, browserVars, detached>>

\* The first notch of a wheel is sent at once, the others after a pause.  The points
\* of a curve are due on its plan, which goes on while their acks are awaited.
Pausing(s) ==
  /\ callback[s] = "send" /\ plan[s] > 0
  /\ TypeOf[s] = "wheel" => left[s] < Sends[s]

\* sendAcked and sendWheel dispatch to the window, at coordinates: the event goes
\* to whichever tab is selected there.  The destination is due when the whole plan
\* is; a notch is not acked.
Dispatch(s) ==
  /\ callback[s] = "send"
  /\ TypeOf[s] = "mousemove" /\ left[s] = 1 => plan[s] = 0
  /\ landed' = [landed EXCEPT ![s] = @ \cup {selected[WindowOfSlot(s)]}]
  /\ left' = [left EXCEPT ![s] = @ - 1]
  /\ Goto(s, IF TypeOf[s] # "wheel" THEN "ack" ELSE IF left[s] = 1 THEN "done" ELSE "send")
  /\ UNCHANGED <<chainVars, plan, dragVars, budget, selected, steals, stolen, detached>>

\* On to the next point; or past the last event, where a mousemove that started a
\* drag waits for it to be settled.
Proceed(s) ==
  \/ left[s] > 0 /\ Goto(s, "send") /\ UNCHANGED dragWatcher
  \/ left[s] = 0 /\ Goto(s, "done") /\ UNCHANGED dragWatcher
  \/ /\ left[s] = 0 /\ TypeOf[s] = "mousemove"
     /\ dragWatcher' = dragWatcher \cup {TabOf[s]}
     /\ Goto(s, "settleAfter")

\* The renderer acks the event.
Ack(s) ==
  /\ callback[s] = "ack"
  /\ Proceed(s)
  /\ UNCHANGED <<chainVars, left, plan, isDragging, budget, browserVars, detached>>

\* No ack in time: the rest of the curve is dropped with its pauses, the destination
\* is not.
AckTimeout(s) ==
  /\ callback[s] = "ack" /\ wait[s] = 0
  /\ left' = [left EXCEPT ![s] = IF @ = 0 THEN 0 ELSE 1]
  /\ plan' = [plan EXCEPT ![s] = 0]
  /\ Proceed(s)
  /\ UNCHANGED <<chainVars, isDragging, budget, browserVars, detached>>

\* PageHandler.dispose: every EventWatcher of the session rejects.
Detach(t) ==
  LET hit == {s \in Slot : TabOf[s] = t /\ callback[s] \in DragWaits \cup {"ack", "reply"}} IN
  /\ t \notin detached
  /\ detached' = detached \cup {t}
  /\ callback' = [s \in Slot |-> IF s \in hit THEN "failed" ELSE callback[s]]
  /\ wait' = [s \in Slot |-> IF s \in hit THEN 0 ELSE wait[s]]
  /\ UNCHANGED <<chainVars, left, plan, dragVars, budget, browserVars>>

\* Page.dispatchKeyEvent ends a drag by Escape, off the chain.
Escape(t) ==
  /\ t \in isDragging
  /\ isDragging' = isDragging \ {t}
  /\ UNCHANGED <<chainVars, callVars, dragWatcher, budget, browserVars, detached>>

-----------------------------------------------------------------------------
(* The browser and the clock *)

\* A popup opens, or a tab closes: the browser selects a tab by itself.
Steal(t) ==
  /\ steals < MaxSteal
  /\ selected[WindowOf[t]] # t
  /\ selected' = [selected EXCEPT ![WindowOf[t]] = t]
  /\ steals' = steals + 1
  /\ stolen' = stolen \cup {s \in Slot : WindowOfSlot(s) = WindowOf[t]
                                           /\ stage[s] \in {"switching", "running"}}
  /\ UNCHANGED <<chainVars, callVars, dragVars, budget, landed, detached>>

\* Something takes no time to happen.
Instant ==
  \/ served < Len(asked) /\ stage[Current] = "queued"
  \/ \E s \in Slot : \/ callback[s] = "send" /\ ~Pausing(s)
                     \/ stage[s] = "running" /\ callback[s] \in Settled

Tick ==
  /\ ~Instant
  /\ \E s \in Slot : stage[s] = "running" \/ callback[s] \in Timed \/ Pausing(s)
  /\ \A s \in Slot : /\ stage[s] = "running" => budget[s] > 0
                     /\ callback[s] \in Timed => wait[s] > 0
  /\ budget' = [s \in Slot |-> IF stage[s] = "running" THEN budget[s] - 1 ELSE budget[s]]
  /\ wait' = [s \in Slot |-> IF callback[s] \in Timed THEN wait[s] - 1 ELSE wait[s]]
  /\ plan' = [s \in Slot |-> IF callback[s] \in {"send", "ack"} /\ plan[s] > 0
                             THEN plan[s] - 1 ELSE plan[s]]
  /\ UNCHANGED <<chainVars, callback, left, dragVars, browserVars, detached>>

-----------------------------------------------------------------------------

Next ==
  \/ \E s \in Slot : Ask(s) \/ Start(s) \/ SwitchDone(s) \/ Settle(s) \/ Expire(s)
  \/ \E s \in Slot : Finalized(s) \/ FinalizedTimeout(s) \/ Reply(s)
  \/ \E s \in Slot : Flushed(s) \/ Dispatch(s) \/ Ack(s) \/ AckTimeout(s)
  \/ \E t \in Tab : Detach(t) \/ Escape(t) \/ Steal(t)
  \/ Tick

Spec == Init /\ [][Next]_vars

\* The event loop runs and timers fire; nothing is promised of the renderer, the
\* page, or the browser's tab switcher.
Fairness ==
  /\ WF_vars(Tick)
  /\ \A s \in Slot :
       /\ WF_vars(Start(s)) /\ WF_vars(Settle(s)) /\ WF_vars(Expire(s))
       /\ WF_vars(Dispatch(s)) /\ WF_vars(AckTimeout(s)) /\ WF_vars(FinalizedTimeout(s))
       /\ WF_vars(wait[s] = 0 /\ Flushed(s))

FairSpec == Spec /\ Fairness

\* ... but the switch of every slot is reported.
SwitchingSpec == FairSpec /\ \A s \in Slot : WF_vars(SwitchDone(s))

-----------------------------------------------------------------------------
(* Properties *)

TypeOK ==
  /\ asked \in Seq(Slot)
  /\ served \in 0..Len(asked)
  /\ stage \in [Slot -> {"idle", "queued", "switching", "running", "over"}]
  /\ callback \in [Slot -> Stops]
  /\ left \in [Slot -> Nat] /\ plan \in [Slot -> Nat]
  /\ dragWatcher \subseteq Tab /\ isDragging \subseteq Tab
  /\ wait \in [Slot -> 0..AckDeadline]
  /\ budget \in [Slot -> 0..Budget]
  /\ expired \subseteq Slot /\ failed \subseteq Slot /\ stolen \subseteq Slot
  /\ selected \in [Window -> Tab]
  /\ \A w \in Window : WindowOf[selected[w]] = w
  /\ steals \in 0..MaxSteal
  /\ detached \subseteq Tab
  /\ landed \in [Slot -> SUBSET Tab]

\* Input goes to a proper renderer (Page.dispatchMouseEvent): every event of a
\* slot lands on the slot's own tab, as long as the slot keeps to its budget and
\* the browser selects no other tab under it.
ReachesOwnTab ==
  \A s \in Slot : s \notin expired \cup stolen => landed[s] \subseteq {TabOf[s]}

\* The deadlines a callback may wait out one after the other: for the drag before
\* it, the flush, each of its events, and the drag it started.
Deadlines(s) ==
  CASE TypeOf[s] = "none" -> 0
    [] TypeOf[s] = "wheel" -> 1
    [] TypeOf[s] = "mousedown" -> 1 + Sends[s]
    [] TypeOf[s] = "mouseup" -> 2 + Sends[s]
    [] TypeOf[s] = "mousemove" -> 3 + Sends[s]
Worst(s) == Deadlines(s) * AckDeadline + Pauses[s]

\* What kActivationSlotBudgetMs may promise: the budget ends a callback that waits for
\* the page's answer to a dragover, or one whose deadlines and pauses add up to it;
\* every other slot ends before, whatever the renderer, the compositor and the page
\* leave out or delay.  A curve is given up at an ack that misses its deadline, but
\* acks that are late and in time count in full.
OnlyHangsExpire ==
  [][\A s \in expired' \ expired : callback[s] = "reply" \/ Worst(s) >= Budget]_vars

\* Commands are serialized in the order they are given: a callback starts when
\* all the earlier ones have ended, or were given up.
Serialized ==
  [][\A i \in DOMAIN asked :
       callback[asked[i]] = "none" /\ callback'[asked[i]] # "none" =>
         \A j \in 1..(i - 1) : callback[asked[j]] \in Settled \/ asked[j] \in expired]_vars

\* The chain always advances: whatever becomes of the other slots' callbacks, the
\* renderer and the sessions, every slot ends.
ChainAdvances ==
  \A s \in Slot : stage[s] = "queued" ~> stage[s] = "over"
=============================================================================
