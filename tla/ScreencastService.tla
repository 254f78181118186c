-------------------------- MODULE ScreencastService --------------------------
(***************************************************************************)
(* The native recorder: nsScreencastService and its sessions, the          *)
(* HeadlessWindowCapturer that several sessions of a window share, the     *)
(* ScreencastEncoder with its thread and the WebM file it writes.  Three   *)
(* threads meet here: the main thread (every call of the service and the   *)
(* runnables in mainQ), the compositor thread (Snapshot, SnapshotData) and *)
(* one encoder thread per video (EncoderTask).                             *)
(*                                                                         *)
(* One window: windows share nothing.  Pixels are not modelled; a frame is *)
(* the number of the snapshot it comes from.  Time is counted in half      *)
(* frame intervals, half of 1/fps second.                                  *)
(***************************************************************************)
EXTENDS Naturals, Sequences, FiniteSets, SequencesExt

CONSTANTS
  MaxSession,  \* bound on the sessions ever started
  MaxFrame,    \* bound on the snapshots a video may record
  MaxTime,     \* bound on the clock
  None         \* no session, capturer, frame or time

Session == 1..MaxSession

ASSUME ServiceAssumption ==
  /\ MaxSession \in Nat \ {0} /\ MaxFrame \in Nat /\ MaxTime \in Nat
  /\ None \notin Nat

kMaxFramesInFlight == 1
timeScale == 1000

VARIABLES
  phase,     \* of each session: not started, recording, mStopped, destroyed
  isVideo,   \* the sessions that have an encoder
  capOf,     \* mCaptureModule, named after the session that created it
  known,     \* mIdToSession
  flying,    \* mFramesInFlight
  capt,      \* of each capturer: capture_counter_ and its two callback sets
  listener,  \* the capturer whose lambda is the window's mSnapshotListener
  snap,      \* the capturer whose lambda is running: mMon is held
  mainQ,     \* runnables dispatched to the main thread
  enc,       \* the encoder of each video
  stops,     \* the sessions the main thread is about to stop, in order
  frame,     \* number of the last snapshot
  now        \* the clock

sVars == <<phase, isVideo, capOf, known, flying, capt, listener, snap, mainQ,
           enc, stops, frame, now>>

Runnable(kind, s) == [kind |-> kind, session |-> s]
Encode(f, d) == [kind |-> "encode", frame |-> f, ticks |-> d]
Finish == [kind |-> "finish"]

\* last and stamp are m_lastFrame and m_lastFrameTimestamp; seen and since
\* record, for the properties, the frames received and when the first came.
NoEncoder == [last |-> None, stamp |-> None, queue |-> <<>>, pts |-> 0,
              file |-> <<>>, closed |-> FALSE, seen |-> <<>>, since |-> None]

SInit ==
  /\ phase = [s \in Session |-> "none"] /\ isVideo = {}
  /\ capOf = [s \in Session |-> None] /\ known = {}
  /\ flying = [s \in Session |-> 0]
  /\ capt = [s \in Session |-> [count |-> 0, raw |-> {}, data |-> {}]]
  /\ listener = None /\ snap = None /\ mainQ = <<>> /\ stops = <<>>
  /\ enc = [s \in Session |-> NoEncoder] /\ frame = 0 /\ now = 0

-----------------------------------------------------------------------------
(* References.  A session lives as long as the map, a runnable or the      *)
(* callback of its encoder's finish holds it; a capturer, as long as one   *)
(* of its sessions.  Its destructor clears the window's listener, whoever  *)
(* set it, because CaptureStarted() is always true.                        *)

Held(s, K, M, E) ==
  \/ s \in K
  \/ \E i \in DOMAIN M : M[i].session = s
  \/ Finish \in ToSet(E[s].queue)

Dying(ph, K, M, E) == {s \in Session : ph[s] = "stopped" /\ ~Held(s, K, M, E)}

Release(ph, K, M, E, L) ==
  LET gone == Dying(ph, K, M, E)
      left == [s \in Session |-> IF s \in gone THEN "gone" ELSE ph[s]]
      Orphan(c) == \A s \in Session : capOf[s] = c => left[s] = "gone"
      dead == \E s \in gone : Orphan(capOf[s])
  IN /\ phase' = left /\ known' = K /\ mainQ' = M /\ enc' = E
     /\ dead => snap = None
     /\ listener' = IF dead THEN None ELSE L

-----------------------------------------------------------------------------
(* The main thread.                                                        *)

Fresh(s) == phase[s] = "none" /\ \A t \in 1..(s - 1) : phase[t] # "none"

\* StartVideoRecording: the capturer of a session of the window is reused,
\* otherwise a new one is created; the first StartCaptureCounted sets the
\* listener.
StartVideoRecording(s, video) ==
  LET c == IF known = {} THEN s ELSE capOf[CHOOSE t \in known : TRUE]
      starts == capt[c].count = 0
  IN /\ Fresh(s) /\ stops = <<>>
     /\ starts => snap = None
     /\ phase' = [phase EXCEPT ![s] = "on"]
     /\ isVideo' = IF video THEN isVideo \cup {s} ELSE isVideo
     /\ capOf' = [capOf EXCEPT ![s] = c]
     /\ known' = known \cup {s}
     /\ capt' = [capt EXCEPT ![c] =
          [count |-> @.count + 1,
           raw |-> IF video THEN @.raw ELSE @.raw \cup {s},
           data |-> IF video THEN @.data \cup {s} ELSE @.data]]
     /\ listener' = IF starts THEN c ELSE listener
     /\ UNCHANGED <<flying, snap, mainQ, enc, stops, frame, now>>

\* Faulty variant: without the test of zero the unsigned counter wraps.
FrameAckWraps(s) ==
  s \in known /\ flying' = [flying EXCEPT ![s] = @ - 1]

\* ScreencastFrameAck of a session the service knows.
FrameAck(s) ==
  /\ s \in known
  /\ flying' = [flying EXCEPT ![s] = IF @ = 0 THEN 0 ELSE @ - 1]

\* Faulty variant: the timestamp is taken once, durations overlap.
FlushKeepsStamp(e) ==
  IF e.stamp = None THEN [e EXCEPT !.stamp = now]
  ELSE IF e.last = None THEN e
  ELSE [e EXCEPT !.last = None,
                 !.queue = Append(@, Encode(e.last, now - e.stamp))]

\* ScreencastEncoder::flushLastFrame.
Flush(e) ==
  IF e.stamp # None /\ e.last = None THEN e
  ELSE [e EXCEPT !.stamp = now, !.last = None,
                 !.queue = IF e.stamp = None THEN @
                           ELSE Append(@, Encode(e.last, now - e.stamp))]

\* Session::Stop, first half: mStopped and the callback's deregistration.
StopBegin ==
  /\ stops # <<>>
  /\ LET s == Head(stops) IN
       /\ phase[s] = "on"
       /\ phase' = [phase EXCEPT ![s] = "stopped"]
       /\ capt' = [capt EXCEPT ![capOf[s]].raw = @ \ {s},
                               ![capOf[s]].data = @ \ {s}]
  /\ UNCHANGED <<isVideo, capOf, known, flying, listener, snap, mainQ, enc,
                 stops, frame, now>>

\* Faulty variant: every stop ends the capture, shared or not.
StopEndUncounted ==
  /\ stops # <<>>
  /\ LET s == Head(stops)
         c == capOf[s]
         e == Flush(enc[s])
     IN /\ phase[s] = "stopped" /\ snap = None
        /\ capt' = [capt EXCEPT ![c].count = @ - 1]
        /\ Release(phase, known \ {s}, mainQ,
             IF s \in isVideo
             THEN [enc EXCEPT ![s] = [e EXCEPT !.queue = Append(@, Finish)]]
             ELSE enc,
             None)
  /\ stops' = Tail(stops)
  /\ UNCHANGED <<isVideo, capOf, flying, snap, frame, now>>

\* The second half: the last StopCaptureCounted clears the listener (it waits
\* for a snapshot that is running), the encoder is asked to finish, and
\* StopVideoRecording forgets the session.
StopEnd ==
  /\ stops # <<>>
  /\ LET s == Head(stops)
         c == capOf[s]
         last == capt[c].count = 1
         e == Flush(enc[s])
     IN /\ phase[s] = "stopped"
        /\ last => snap = None
        /\ capt' = [capt EXCEPT ![c].count = @ - 1]
        /\ Release(phase, known \ {s}, mainQ,
             IF s \in isVideo
             THEN [enc EXCEPT ![s] = [e EXCEPT !.queue = Append(@, Finish)]]
             ELSE enc,
             IF last THEN None ELSE listener)
  /\ stops' = Tail(stops)
  /\ UNCHANGED <<isVideo, capOf, flying, snap, frame, now>>

-----------------------------------------------------------------------------
(* The compositor thread.                                                  *)

\* Faulty variant: the limit allows one frame more.
WantingOneMore(c, visible) ==
  {s \in capt[c].raw : visible /\ flying[s] <= kMaxFramesInFlight}

\* Session::OnRawFrame: one frame in flight, minimised windows are skipped.
Wanting(c, visible) ==
  {s \in capt[c].raw : visible /\ flying[s] < kMaxFramesInFlight}

\* PeriodicSnapshot calls the listener with mMon held: the raw callbacks run
\* under _callBackCs, and the data callbacks after a conversion.
Snapshot(visible) ==
  /\ listener # None /\ snap = None
  /\ LET c == listener
         out == Wanting(c, visible)
         records == capt[c].data # {}
     IN /\ records => frame < MaxFrame
        /\ records \/ out # {}
        /\ flying' = [s \in Session |-> IF s \in out THEN flying[s] + 1
                                        ELSE flying[s]]
        /\ mainQ' = mainQ \o [i \in 1..Cardinality(out) |->
                                Runnable("frame", SetToSeq(out)[i])]
        /\ snap' = IF records THEN c ELSE None
        /\ frame' = IF records THEN frame + 1 ELSE frame
  /\ UNCHANGED <<phase, isVideo, capOf, known, capt, listener, enc, stops, now>>

\* ScreencastEncoder::encodeFrame: the previous frame's duration is known now.
OnFrame(e, f) ==
  [Flush(e) EXCEPT !.last = f, !.seen = Append(@, f),
                   !.since = IF @ = None THEN now ELSE @]

\* NotifyFrameCaptured: the callbacks that are still registered.
SnapshotData ==
  /\ snap # None
  /\ enc' = [s \in Session |-> IF s \in capt[snap].data
                               THEN OnFrame(enc[s], frame) ELSE enc[s]]
  /\ snap' = None
  /\ UNCHANGED <<phase, isVideo, capOf, known, flying, capt, listener, mainQ,
                 stops, frame, now>>

-----------------------------------------------------------------------------
(* The encoder threads.                                                    *)

\* encodeFrameAsync: a duration of d half frames is written as pictures of
\* one frame each while more than one and a half remain, then the rest, at
\* least one time unit long.
Repeats(d) == IF d > 3 THEN (d - 2) \div 2 ELSE 0
Rest(d) == LET r == ((d - 2 * Repeats(d)) * timeScale) \div 2
           IN IF r < 1 THEN 1 ELSE r
Encoded(d) == Repeats(d) * timeScale + Rest(d)

EncoderTask(s) ==
  /\ enc[s].queue # <<>>
  /\ LET task == Head(enc[s].queue)
         rest == [enc[s] EXCEPT !.queue = Tail(@)]
     IN IF task = Finish
        THEN /\ enc' = [enc EXCEPT ![s] = [rest EXCEPT !.closed = TRUE]]
             /\ mainQ' = Append(mainQ, Runnable("finished", s))
        ELSE /\ enc' = [enc EXCEPT ![s] =
                  [rest EXCEPT !.pts = @ + Encoded(task.ticks),
                               !.file = Append(@, task.frame)]]
             /\ UNCHANGED mainQ
  /\ UNCHANGED <<phase, isVideo, capOf, known, flying, capt, listener, snap,
                 stops, frame, now>>

\* Only the time between the frames of a video matters, so the clock stands
\* still unless an encoder has a frame whose duration is open.
Tick ==
  /\ \E s \in Session : enc[s].last # None
  /\ now < MaxTime /\ now' = now + 1
  /\ UNCHANGED <<phase, isVideo, capOf, known, flying, capt, listener, snap,
                 mainQ, enc, stops, frame>>
=============================================================================
