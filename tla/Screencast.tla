------------------------------ MODULE Screencast ------------------------------
(***************************************************************************)
(* The recordings of one page: PageTarget's startScreencast, ack, stop and *)
(* video methods on top of the native service in a headless browser, and   *)
(* its own drawSnapshot loop in a headful one, driven by a client that     *)
(* acknowledges every frame at most once, with the id of its screencast or *)
(* with none, as Playwright does.  The window is ready from the start.     *)
(***************************************************************************)
EXTENDS ScreencastService

CONSTANTS
  Overlap,    \* the client may start a screencast or a video while one runs
  Hasty       \* it may start one while an earlier one is being torn down

ASSUME ScreencastAssumption == Overlap \in BOOLEAN /\ Hasty \in BOOLEAN

VARIABLES
  headless,   \* Services.appinfo.headless
  cast,       \* _screencastRecordingInfo
  tape,       \* _videoRecordingInfo
  disposed,   \* _disposed
  loop,       \* the snapshotState of each headful screencast
  unacked,    \* frames of each screencast the client has not acknowledged
  notified    \* videos the client was told are finished

pVars == <<headless, cast, tape, disposed, loop, unacked, notified>>
vars == <<sVars, pVars>>

NoLoop == [stopped |-> FALSE, inFlight |-> FALSE, tick |-> "none"]

Init ==
  /\ SInit
  /\ headless \in BOOLEAN
  /\ cast = None /\ tape = None /\ disposed = FALSE
  /\ loop = [s \in Session |-> NoLoop]
  /\ unacked = [s \in Session |-> 0]
  /\ notified = {}

Idle == stops = <<>>
Live == {s \in Session : phase[s] \in {"on", "stopped"}}
MayStart == /\ Idle /\ ~disposed
            /\ Hasty \/ \A s \in Live : s \in known

StartNative(video) == \E s \in Session :
  /\ StartVideoRecording(s, video)
  /\ IF video THEN tape' = s /\ UNCHANGED cast
              ELSE cast' = s /\ UNCHANGED tape
  /\ UNCHANGED <<headless, disposed, loop, unacked, notified>>

\* _startSnapshotScreencast: the id is the script's, the service is not asked.
StartSnapshotScreencast == \E s \in Session :
  /\ Fresh(s)
  /\ phase' = [phase EXCEPT ![s] = "script"]
  /\ loop' = [loop EXCEPT ![s].tick = "timer"]
  /\ cast' = s
  /\ UNCHANGED <<isVideo, capOf, known, flying, capt, listener, snap, mainQ,
                 enc, stops, frame, now>>
  /\ UNCHANGED <<headless, tape, disposed, unacked, notified>>

StartScreencast ==
  /\ MayStart /\ (Overlap \/ cast = None)
  /\ IF headless THEN StartNative(FALSE) ELSE StartSnapshotScreencast

StartVideo ==
  /\ MayStart /\ headless /\ (Overlap \/ tape = None)
  /\ StartNative(TRUE)

\* Faulty variant: the timer is cleared, a capture that is under way is not told.
StopTimerOnly(s) == [loop EXCEPT ![s].tick = IF @ = "timer" THEN "none" ELSE @]

\* The part of stopScreencast that concerns the snapshot loop.
StopLoop(s) ==
  [loop EXCEPT ![s].stopped = TRUE,
               ![s].tick = IF @ = "timer" THEN "none" ELSE @]

StopScreencast ==
  /\ Idle /\ cast # None
  /\ cast' = None
  /\ IF headless THEN stops' = <<cast>> /\ UNCHANGED loop
                 ELSE loop' = StopLoop(cast) /\ UNCHANGED stops
  /\ UNCHANGED <<phase, isVideo, capOf, known, flying, capt, listener, snap,
                 mainQ, enc, frame, now>>
  /\ UNCHANGED <<headless, tape, disposed, unacked, notified>>

StopVideo ==
  /\ Idle /\ tape # None
  /\ tape' = None /\ stops' = <<tape>>
  /\ UNCHANGED <<phase, isVideo, capOf, known, flying, capt, listener, snap,
                 mainQ, enc, frame, now>>
  /\ UNCHANGED <<headless, cast, disposed, loop, unacked, notified>>

\* PageTarget.dispose: what is still recorded is stopped, the video first.
Dispose ==
  /\ Idle /\ ~disposed
  /\ disposed' = TRUE /\ cast' = None /\ tape' = None
  /\ stops' = (IF tape = None THEN <<>> ELSE <<tape>>) \o
              (IF cast # None /\ headless THEN <<cast>> ELSE <<>>)
  /\ loop' = IF cast # None /\ ~headless THEN StopLoop(cast) ELSE loop
  /\ UNCHANGED <<phase, isVideo, capOf, known, flying, capt, listener, snap,
                 mainQ, enc, frame, now>>
  /\ UNCHANGED <<headless, unacked, notified>>

\* The client acknowledges a frame of s: screencastFrameAck ignores the id of
\* another screencast, and takes no id for the current one.
Ack(s, id) ==
  /\ Idle /\ unacked[s] > 0
  /\ unacked' = [unacked EXCEPT ![s] = @ - 1]
  /\ IF cast = None \/ id \notin {None, cast}
     THEN UNCHANGED <<flying, loop>>
     ELSE IF headless
     THEN FrameAck(cast) /\ UNCHANGED loop
     ELSE loop' = [loop EXCEPT ![cast].inFlight = FALSE] /\ UNCHANGED flying
  /\ UNCHANGED <<phase, isVideo, capOf, known, capt, listener, snap, mainQ,
                 enc, stops, frame, now>>
  /\ UNCHANGED <<headless, cast, tape, disposed, notified>>

-----------------------------------------------------------------------------
(* Runnables on the main thread.                                           *)

\* NotifyScreencastFrame: dropped by a stopped session, and by the page when
\* it records nothing.
FrameRunnable(s) ==
  /\ Release(phase, known, Tail(mainQ), enc, listener)
  /\ unacked' = IF phase[s] = "on" /\ cast # None
                THEN [unacked EXCEPT ![s] = @ + 1] ELSE unacked
  /\ UNCHANGED notified

\* Faulty variant: the session is looked up in the map, which has forgotten it.
FinishedIfKnown(s) ==
  /\ Release(phase, known,
       IF s \in known THEN Append(Tail(mainQ), Runnable("stopped", s))
                      ELSE Tail(mainQ), enc, listener)
  /\ UNCHANGED <<unacked, notified>>

\* The callback of finish dispatches NotifyScreencastStopped in its turn.
FinishedRunnable(s) ==
  /\ Release(phase, known, Append(Tail(mainQ), Runnable("stopped", s)), enc,
             listener)
  /\ UNCHANGED <<unacked, notified>>

StoppedRunnable(s) ==
  /\ Release(phase, known, Tail(mainQ), enc, listener)
  /\ notified' = notified \cup {s}
  /\ UNCHANGED unacked

RunMain ==
  /\ Idle /\ mainQ # <<>>
  /\ LET r == Head(mainQ) IN
       \/ r.kind = "frame" /\ FrameRunnable(r.session)
       \/ r.kind = "finished" /\ FinishedRunnable(r.session)
       \/ r.kind = "stopped" /\ StoppedRunnable(r.session)
  /\ UNCHANGED <<isVideo, capOf, flying, capt, snap, stops, frame, now>>
  /\ UNCHANGED <<headless, cast, tape, disposed, loop>>

-----------------------------------------------------------------------------
(* The headful loop: a timer, drawSnapshot, the frame, the timer again.    *)

\* Faulty variant: the frame counts as in flight before there is one.
LoopTickEager(s) ==
  /\ Idle /\ loop[s].tick = "timer" /\ ~loop[s].inFlight
  /\ loop' = [loop EXCEPT ![s].tick = "drawing", ![s].inFlight = TRUE]
  /\ UNCHANGED <<sVars, headless, cast, tape, disposed, unacked, notified>>

LoopTick(s) ==
  /\ Idle /\ loop[s].tick = "timer" /\ ~loop[s].inFlight
  /\ loop' = [loop EXCEPT ![s].tick = IF loop[s].stopped THEN "none"
                                      ELSE "drawing"]
  /\ UNCHANGED <<sVars, headless, cast, tape, disposed, unacked, notified>>

\* drawSnapshot resolves, or rejects while a navigation is in flight.
LoopDrawn(s, drawn) ==
  /\ Idle /\ loop[s].tick = "drawing"
  /\ LET emit == drawn /\ ~loop[s].stopped IN
       /\ loop' = [loop EXCEPT
            ![s].tick = IF loop[s].stopped THEN "none" ELSE "timer",
            ![s].inFlight = @ \/ emit]
       /\ unacked' = IF emit THEN [unacked EXCEPT ![s] = @ + 1] ELSE unacked
  /\ UNCHANGED <<sVars, headless, cast, tape, disposed, notified>>

-----------------------------------------------------------------------------
Native ==
  \/ StopBegin \/ StopEnd
  \/ \E visible \in BOOLEAN : Snapshot(visible)
  \/ SnapshotData
  \/ \E s \in Session : EncoderTask(s)
  \/ Tick

Next ==
  \/ StartScreencast \/ StartVideo \/ StopScreencast \/ StopVideo \/ Dispose
  \/ \E s \in Session : Ack(s, None) \/ Ack(s, s)
  \/ RunMain
  \/ Native /\ UNCHANGED pVars
  \/ \E s \in Session : LoopTick(s) \/ \E drawn \in BOOLEAN : LoopDrawn(s, drawn)

Spec == Init /\ [][Next]_vars

\* The event loops of the three threads run what is dispatched to them, the
\* window manager keeps drawing, drawSnapshot settles.  Clients owe nothing.
Fairness ==
  /\ WF_vars(RunMain)
  /\ WF_vars((StopBegin \/ StopEnd) /\ UNCHANGED pVars)
  /\ WF_vars(SnapshotData /\ UNCHANGED pVars)
  /\ \A s \in Session : /\ WF_vars(EncoderTask(s) /\ UNCHANGED pVars)
                        /\ WF_vars(\E drawn \in BOOLEAN : LoopDrawn(s, drawn))

FairSpec == Spec /\ Fairness

-----------------------------------------------------------------------------
TypeOK ==
  /\ phase \in [Session -> {"none", "on", "script", "stopped", "gone"}]
  /\ isVideo \subseteq Session /\ known \subseteq Session
  /\ capOf \in [Session -> Session \cup {None}]
  /\ flying \in [Session -> 0..kMaxFramesInFlight]
  /\ capt \in [Session -> [count : 0..MaxSession, raw : SUBSET Session,
                           data : SUBSET Session]]
  /\ listener \in Session \cup {None} /\ snap \in Session \cup {None}
  /\ \A i \in DOMAIN mainQ : /\ mainQ[i].session \in Session
                             /\ mainQ[i].kind \in {"frame", "finished", "stopped"}
  /\ stops \in Seq(Session) /\ frame \in 0..MaxFrame /\ now \in 0..MaxTime
  /\ headless \in BOOLEAN /\ disposed \in BOOLEAN
  /\ cast \in Session \cup {None} /\ tape \in Session \cup {None}
  /\ unacked \in [Session -> Nat] /\ notified \subseteq isVideo

Casts == {s \in Session : phase[s] # "none"} \ isVideo

T == INSTANCE Throttle WITH
       on <- cast # None,
       started <- Cardinality(Casts),
       unacked <- MapThenSumSet(LAMBDA s : unacked[s], Casts)

\* Both ways of capturing keep the promise of Throttle to a client that runs
\* one screencast at a time: no frame outside start and stop, and a client
\* that stops acknowledging gets at most one frame per screencast, even when
\* a late acknowledgement without an id is credited to the next screencast
\* (kMaxFramesInFlight, snapshotState.inFlight).
Throttled == T!Spec

\* A recording that was started and not stopped has the window's snapshots: no
\* stop, start or destructor of another recording takes its listener away.
KeepsItsSource ==
  \A s \in Session : phase[s] = "on" =>
    /\ listener = capOf[s]
    /\ s \in capt[listener].raw \cup capt[listener].data

\* A screencast waits for an acknowledgement only while the client has, or is
\* about to get, a frame of it to acknowledge.
NoStall ==
  \A s \in Session :
    \/ phase[s] = "on" /\ flying[s] = 1 /\ s = cast
    \/ loop[s].inFlight /\ ~loop[s].stopped
    => unacked[s] > 0 \/ \E i \in DOMAIN mainQ : mainQ[i] = Runnable("frame", s)

\* When a video's file is closed it holds every frame the encoder received,
\* in order and once, and it lasts as long as the recording did, from the
\* first frame to the stop, give or take one time unit per frame.
VideoComplete ==
  \A s \in Session : enc[s].closed =>
    /\ enc[s].queue = <<>> /\ enc[s].last = None
    /\ enc[s].file = enc[s].seen
    /\ enc[s].seen # <<>> =>
         LET span == ((enc[s].stamp - enc[s].since) * timeScale) \div 2
         IN enc[s].pts \in span..(span + Len(enc[s].file))

\* Every video that is stopped, by the client or because its page goes away,
\* is reported as finished, though its file is written by another thread.
VideoFinishes ==
  \A s \in Session :
    s \in isVideo /\ phase[s] = "stopped" ~> s \in notified /\ enc[s].closed

\* When a page is disposed its recordings end: the window is no longer
\* captured, no loop keeps its timer, every native session is destroyed.
DisposeQuiesces ==
  disposed ~> [](/\ listener = None
                 /\ \A s \in Session : /\ phase[s] \in {"none", "script", "gone"}
                                       /\ loop[s].tick = "none")
=============================================================================
