---------------------------- MODULE BrowserSession ----------------------------
(***************************************************************************)
(* One client's protocol connection from start-up to quit: Juggler's       *)
(* connection object, the Dispatcher with its sessions, BrowserHandler's   *)
(* enable, close and dispose, on top of the pipe.  Everything here runs on *)
(* the main thread; an await is where one action ends and another begins.  *)
(*                                                                         *)
(* One target comes and goes.  A request is one message of two bytes, and  *)
(* so is an answer or an event; their contents are what they are about.    *)
(***************************************************************************)
EXTENDS RemoteDebuggingPipe

CONSTANTS
  EnableRequest,  \* Browser.enable
  CloseRequest,   \* Browser.close
  PageRequest,    \* requests to the page session of the target
  Blank,          \* an empty message
  Nobody          \* no session; also the end of a call

Request == EnableRequest \cup CloseRequest \cup PageRequest
Caller == CloseRequest \cup {Nobody}     \* Nobody: called by disconnected()
SessionId == 1..Cardinality(EnableRequest)

ASSUME SessionAssumption == Nobody \notin Nat /\ IsFiniteSet(EnableRequest)

VARIABLES
  call,         \* of each request: where it is
  hangup,       \* the Browser.close that disconnected() calls
  accepting,    \* connection.onmessage and onclose are set
  pipeStopped,  \* pipeStopped
  gates,        \* what Browser.close and Browser.enable may wait for, and came
  enabled,      \* BrowserHandler._enabled
  listening,    \* how many sets of listeners are registered
  target,       \* none, live or gone
  sessions,     \* Dispatcher._sessions
  attached,     \* the session of the target in _attachedSessions
  made,         \* sessions created so far
  quit          \* Services.startup.quit was called

jsVars == <<call, hangup, accepting, pipeStopped, gates, enabled, listening,
            target, sessions, attached, made, quit>>
vars == <<pipeVars, jsVars>>

Text(x) == IF x = Blank THEN <<>> ELSE <<x, x>>
Answer(r) == [about |-> "answer", of |-> r]
Event(name, i) == [about |-> name, of |-> i]

Init ==
  /\ PipeInit
  /\ call = [r \in Request |-> "unsent"] /\ hangup = "none"
  /\ accepting = TRUE /\ pipeStopped = FALSE
  /\ gates \in SUBSET {"started", "noWindow"}
  /\ enabled = FALSE /\ listening = 0
  /\ target = "none" /\ sessions = {} /\ attached = Nobody /\ made = 0
  /\ quit = FALSE

\* connection.send of some items: nothing once the pipe is stopped, and the
\* pipe takes nothing without a client.
Post(items) ==
  IF pipeStopped THEN UNCHANGED <<writerQ, toWriter>>
  ELSE SendMessages([i \in DOMAIN items |-> Text(items[i])])

pipeRest == <<wire, clientClosed, line, reader, client, terminated, shut,
              writing, out, stopPc, sent, posted>>

-----------------------------------------------------------------------------
(* The client.                                                             *)

Reported(i) == Text(Event("attached", i)) \in ToSet(toWriter)

ClientSends(r) ==
  /\ ~quit /\ call[r] = "unsent"
  /\ (r \in PageRequest => \E i \in SessionId : Reported(i))
  /\ call' = [call EXCEPT ![r] = "sent"]
  /\ ClientWrites(Text(r))
  /\ UNCHANGED <<hangup, accepting, pipeStopped, gates, enabled, listening,
                 target, sessions, attached, made, quit>>

\* An empty line is not a message.
ClientSendsBlank ==
  /\ ~quit /\ sent = <<>>
  /\ ClientWrites(Text(Blank)) /\ UNCHANGED jsVars

ClientLeaves == ~quit /\ ClientCloses /\ UNCHANGED jsVars

-----------------------------------------------------------------------------
(* Messages.                                                               *)

\* A page request is addressed to the first session the client was told of.
SessionOf(r) == CHOOSE i \in SessionId : Reported(i)

\* _dispatch up to the handler's first await.
Dispatch(r) ==
  \/ /\ r \in CloseRequest
     /\ call' = [call EXCEPT ![r] = "closing"] /\ Post(<<>>)
  \/ /\ r \in EnableRequest /\ ~enabled
     /\ call' = [call EXCEPT ![r] = "enabling"] /\ Post(<<>>)
  \/ /\ r \in PageRequest /\ SessionOf(r) \in sessions
     /\ call' = [call EXCEPT ![r] = "running"] /\ Post(<<>>)
  \/ /\ \/ r \in EnableRequest /\ enabled
        \/ r \in PageRequest /\ SessionOf(r) \notin sessions
     /\ call' = [call EXCEPT ![r] = "answered"] /\ Post(<<Answer(r)>>)

Drop(r) == call' = [call EXCEPT ![r] = "dropped"] /\ Post(<<>>)

RunMain ==
  /\ ~quit /\ mainQ # <<>>
  /\ mainQ' = Tail(mainQ)
  /\ LET m == Head(mainQ) IN
       \/ /\ m.kind = "message"
          /\ LET r == Head(m.text)
             IN IF client /\ accepting THEN Dispatch(r) ELSE Drop(r)
          /\ UNCHANGED hangup
       \/ /\ m.kind = "disconnected"
          /\ hangup' = IF client THEN "closing" ELSE "dropped"
          /\ Post(<<>>) /\ UNCHANGED call
  /\ UNCHANGED pipeRest
  /\ UNCHANGED <<accepting, pipeStopped, gates, enabled, listening, target,
                 sessions, attached, made, quit>>

\* A page handler comes to its end, whatever became of its session; its
\* answer is lost when the pipe has no client any more.
FinishCall(r) ==
  /\ ~quit /\ call[r] = "running"
  /\ call' = [call EXCEPT ![r] = IF client THEN "answered" ELSE "dropped"]
  /\ Post(<<Answer(r)>>)
  /\ UNCHANGED pipeRest
  /\ UNCHANGED <<mainQ, hangup, accepting, pipeStopped, gates, enabled,
                 listening, target, sessions, attached, made, quit>>

-----------------------------------------------------------------------------
(* Targets and Browser.enable.                                             *)

\* Browser.enable after the start-up: listeners, and a session for the target
\* there is.  After dispose() the root session throws at the first event.
FinishEnable(r) ==
  LET attach == target = "live" IN
  /\ ~quit /\ call[r] = "enabling" /\ "started" \in gates
  /\ enabled' = TRUE /\ listening' = listening + 1
  /\ made' = IF attach THEN made + 1 ELSE made
  /\ sessions' = IF attach THEN sessions \cup {made + 1} ELSE sessions
  /\ attached' = IF attach THEN made + 1 ELSE attached
  /\ call' = [call EXCEPT ![r] = IF client THEN "answered" ELSE "dropped"]
  /\ Post(IF attach THEN <<Event("attached", made + 1), Answer(r)>>
                    ELSE <<Answer(r)>>)
  /\ UNCHANGED pipeRest
  /\ UNCHANGED <<mainQ, hangup, accepting, pipeStopped, gates, target, quit>>

\* ... or it throws at a preference it does not take, and answers an error: no
\* listeners, no session, and a later Browser.enable returns at once.
EnableFails(r) ==
  /\ ~quit /\ call[r] = "enabling" /\ "started" \in gates
  /\ enabled' = TRUE
  /\ call' = [call EXCEPT ![r] = IF client THEN "answered" ELSE "dropped"]
  /\ Post(<<Answer(r)>>)
  /\ UNCHANGED pipeRest
  /\ UNCHANGED <<mainQ, hangup, accepting, pipeStopped, gates, listening, target,
                 sessions, attached, made, quit>>

\* Every set of listeners makes a session; the last one is remembered.
TargetCreated ==
  LET new == [k \in 1..listening |-> made + k] IN
  /\ ~quit /\ target = "none"
  /\ target' = "live"
  /\ made' = made + listening
  /\ sessions' = sessions \cup ToSet(new)
  /\ attached' = IF listening > 0 THEN made + listening ELSE attached
  /\ Post(IF accepting THEN [k \in 1..listening |-> Event("attached", new[k])]
                       ELSE <<>>)
  /\ UNCHANGED pipeRest
  /\ UNCHANGED <<mainQ, call, hangup, accepting, pipeStopped, gates, enabled,
                 listening, quit>>

\* Faulty variant: the session would stay with the dispatcher.
TargetDestroyedOnly ==
  LET hears == listening > 0 /\ attached # Nobody IN
  /\ ~quit /\ target = "live"
  /\ target' = "gone"
  /\ attached' = IF hears THEN Nobody ELSE attached
  /\ Post(IF hears /\ accepting THEN <<Event("detached", attached)>> ELSE <<>>)
  /\ UNCHANGED pipeRest
  /\ UNCHANGED <<mainQ, call, hangup, accepting, pipeStopped, gates, enabled,
                 listening, sessions, made, quit>>

TargetDestroyed ==
  LET hears == listening > 0 /\ attached # Nobody IN
  /\ ~quit /\ target = "live"
  /\ target' = "gone"
  /\ sessions' = IF hears THEN sessions \ {attached} ELSE sessions
  /\ attached' = IF hears THEN Nobody ELSE attached
  /\ Post(IF hears /\ accepting THEN <<Event("detached", attached)>> ELSE <<>>)
  /\ UNCHANGED pipeRest
  /\ UNCHANGED <<mainQ, call, hangup, accepting, pipeStopped, gates, enabled,
                 listening, made, quit>>

-----------------------------------------------------------------------------
(* Closing.                                                                *)

\* What a close waits for: the idle tasks of the window or its end, if there
\* is one, and the browser's start-up.
Gate(g) ==
  /\ ~quit /\ g \notin gates
  /\ (g = "idle" => "noWindow" \notin gates)
  /\ gates' = gates \cup {g}
  /\ UNCHANGED <<pipeVars, call, hangup, accepting, pipeStopped, enabled,
                 listening, target, sessions, attached, made, quit>>

\* Faulty variant: the wait for the idle tasks would not race the window.
MayCloseIdle == "idle" \in gates /\ "started" \in gates

MayClose == /\ gates \cap {"idle", "noWindow"} # {}
            /\ "started" \in gates

Closing(c) == IF c = Nobody THEN hangup = "closing" ELSE call[c] = "closing"

Ended(c, how) ==
  IF c = Nobody THEN hangup' = how /\ UNCHANGED call
                ELSE call' = [call EXCEPT ![c] = how] /\ UNCHANGED hangup

\* _onclose of the first close: the dispatcher lets go of the connection and
\* disposes the root session (BrowserHandler.dispose: its listeners and the
\* page sessions); then the pipe is stopped, which runs other main-thread
\* work until its threads have ended.
CloseBegin(c) ==
  /\ ~quit /\ Closing(c) /\ MayClose /\ accepting
  /\ accepting' = FALSE
  /\ listening' = IF listening = 0 THEN 0 ELSE listening - 1
  /\ sessions' = {} /\ attached' = Nobody
  /\ Ended(c, "quitting")
  /\ StopBegin
  /\ UNCHANGED <<writerQ, toWriter>>
  /\ UNCHANGED <<pipeStopped, gates, enabled, target, made, quit>>

\* A later close finds connection.onclose null, throws, and answers an error
\* that is not sent.
CloseAgain(c) ==
  /\ ~quit /\ Closing(c) /\ MayClose /\ ~accepting
  /\ Ended(c, "dropped")
  /\ UNCHANGED pipeVars
  /\ UNCHANGED <<accepting, pipeStopped, gates, enabled, listening, target,
                 sessions, attached, made, quit>>

\* pipe.stop() returned: pipeStopped and the quit of the browser.
CloseEnd ==
  /\ ~quit /\ StopWriter
  /\ pipeStopped' = TRUE /\ quit' = TRUE
  /\ UNCHANGED <<call, hangup, accepting, gates, enabled, listening, target,
                 sessions, attached, made>>

-----------------------------------------------------------------------------
Reader == \/ \E n \in 1..BufSize : Read(n)
          \/ ReadEnd \/ ReaderExit
Writer == \/ WriterTake \/ WriteFails
          \/ \E n \in 1..PacketSize : Write(n)

Next ==
  \/ \E r \in Request : \/ ClientSends(r) \/ FinishCall(r)
                       \/ FinishEnable(r) \/ EnableFails(r)
  \/ ClientSendsBlank \/ ClientLeaves \/ RunMain
  \/ TargetCreated \/ TargetDestroyed
  \/ \E g \in {"idle", "noWindow", "started"} : Gate(g)
  \/ \E c \in Caller : CloseBegin(c) \/ CloseAgain(c)
  \/ CloseEnd
  \/ (Reader \/ Writer \/ StopReader) /\ UNCHANGED jsVars

Spec == Init /\ [][Next]_vars

\* Threads run, the main thread's event loop runs, handlers come to an end,
\* the browser starts, and its window becomes idle or goes.
Fairness ==
  /\ WF_vars(Reader /\ UNCHANGED jsVars)
  /\ WF_vars(Writer /\ UNCHANGED jsVars)
  /\ WF_vars(StopReader /\ UNCHANGED jsVars)
  /\ WF_vars(RunMain) /\ WF_vars(CloseEnd)
  /\ WF_vars(Gate("started")) /\ WF_vars(Gate("idle"))
  /\ WF_vars(\E r \in Request : FinishCall(r))
  /\ WF_vars(\E r \in EnableRequest : FinishEnable(r) \/ EnableFails(r))
  /\ WF_vars(\E c \in Caller : CloseBegin(c) \/ CloseAgain(c))

FairSpec == Spec /\ Fairness

-----------------------------------------------------------------------------
(* Properties.                                                             *)

\* With one Browser.enable there is a page session exactly while its target
\* is there and observed: none outlives the target, whatever the order of
\* enable, dispose and the target's coming and going (BrowserHandler's
\* _attachedSessions against the Dispatcher's _sessions).
NoOrphanSession ==
  Cardinality(EnableRequest) = 1 =>
    /\ sessions = {attached} \ {Nobody}
    /\ sessions # {} => target = "live"

\* Once the connection is disposed no request starts and nothing more is
\* given to the writer, although pipe.stop() runs other work of the main
\* thread before pipeStopped is set (the onclose callback of Juggler.js).
SilentOnceClosed ==
  [][~accepting =>
       /\ toWriter' = toWriter
       /\ \A r \in Request : call[r] = "sent" =>
                               call'[r] \in {"sent", "dropped"}]_vars

\* Every request that was sent is answered, or the browser quits: no message
\* is lost in the pieces the reader gets, and none stays under way.
RequestsSettle ==
  []<>(quit \/ \A r \in Request : call[r] \in {"unsent", "answered", "dropped"})

\* A Browser.close, or a client that is gone, makes the browser quit, also
\* when its window is closed before it became idle ("idleTasksFinishedPromise
\* does not resolve when the window is closed early enough"), and whatever
\* the reader and the writer are doing when Stop joins them.
CloseQuits ==
  []<>(quit \/ (accepting /\ ~clientClosed /\ \A c \in Caller : ~Closing(c)))
=============================================================================
