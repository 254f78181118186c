-------------------------- MODULE ScreencastProofs --------------------------
(***************************************************************************)
(* Proofs about Screencast: its types, the counters and the callback sets  *)
(* of the capturers, who holds the window's snapshots, what a client that  *)
(* waits for a frame may count on, that a closed video is complete, and    *)
(* that the frames are throttled as Throttle says.                         *)
(***************************************************************************)
EXTENDS Screencast, Induction, SequenceTheorems

-----------------------------------------------------------------------------
(* Types.                                                                  *)

Phases == {"none", "on", "script", "stopped", "gone"}
Begun == {"on", "stopped", "gone"}
Runnables == [kind : {"frame", "finished", "stopped"}, session : Session]
Tasks == [kind : {"encode"}, frame : Nat, ticks : Nat] \cup {Finish}
Encoders == [last : Nat \cup {None}, stamp : Nat \cup {None}, queue : Seq(Tasks),
             pts : Nat, file : Seq(Nat), closed : BOOLEAN, seen : Seq(Nat),
             since : Nat \cup {None}]
Captures == [count : Int, raw : SUBSET Session, data : SUBSET Session]
Loops == [stopped : BOOLEAN, inFlight : BOOLEAN, tick : {"none", "timer", "drawing"}]

\* The clock has passed the time of an encoder's last frame.
Timed(e, t) == e.stamp # None => e.stamp <= t

NativeTypes ==
  /\ phase \in [Session -> Phases]
  /\ isVideo \subseteq Session /\ known \subseteq Session
  /\ capOf \in [Session -> Session \cup {None}]
  /\ flying \in [Session -> 0..1]
  /\ capt \in [Session -> Captures]
  /\ listener \in Session \cup {None} /\ snap \in Session \cup {None}
  /\ stops \in Seq(Session) /\ frame \in 0..MaxFrame /\ now \in 0..MaxTime

QueueTypes == mainQ \in Seq(Runnables)

EncoderTypes ==
  /\ enc \in [Session -> Encoders]
  /\ \A s \in Session : Timed(enc[s], now)

PageTypes ==
  /\ headless \in BOOLEAN /\ disposed \in BOOLEAN
  /\ cast \in Session \cup {None} /\ tape \in Session \cup {None}
  /\ loop \in [Session -> Loops]
  /\ unacked \in [Session -> Nat] /\ notified \subseteq Session

TypeInv == NativeTypes /\ QueueTypes /\ EncoderTypes /\ PageTypes

-----------------------------------------------------------------------------
(* The structural invariant.                                               *)

\* Who the service knows: every session that records, and one that is being
\* stopped.
KnownInv ==
  /\ \A s \in Session : phase[s] = "on" => s \in known
  /\ \A s \in known : phase[s] # "on" =>
       phase[s] = "stopped" /\ stops # <<>> /\ s = Head(stops)
  /\ \A s \in Session : capOf[s] # None <=> phase[s] \in Begun
  /\ \A s \in isVideo : phase[s] \in Begun
  /\ \A s \in Session : IF headless THEN phase[s] # "script"
                                    ELSE phase[s] \in {"none", "script"}

\* What the page stops, and what it believes is running.
StopsInv ==
  /\ Len(stops) <= 2
  /\ \A i \in 1..Len(stops) : /\ stops[i] \in known
                              /\ i > 1 => phase[stops[i]] = "on" /\ stops[i] # stops[1]
Recorded(s) == phase[s] = "on" /\ \A i \in 1..Len(stops) : stops[i] # s
PageInv ==
  /\ cast # None => IF headless THEN Recorded(cast) /\ cast \notin isVideo
                                ELSE phase[cast] = "script"
  /\ tape # None => Recorded(tape) /\ tape \in isVideo

\* The callbacks of a capturer are those of its sessions that record.
CallbackInv ==
  \A c, s \in Session :
    /\ s \in capt[c].raw <=> phase[s] = "on" /\ capOf[s] = c /\ s \notin isVideo
    /\ s \in capt[c].data <=> phase[s] = "on" /\ capOf[s] = c /\ s \in isVideo

\* capture_counter_ counts the sessions of the map.
SessionsOf(c) == {s \in known : capOf[s] = c}
CountInv == \A c \in Session : capt[c].count = Cardinality(SessionsOf(c))

\* Only the encoder of a video is told to finish, and only it says so.
ReportInv ==
  /\ \A i \in 1..Len(mainQ) : mainQ[i].kind # "frame" => mainQ[i].session \in isVideo
  /\ \A s \in Session : Finish \in ToSet(enc[s].queue) => s \in isVideo
  /\ notified \subseteq isVideo

StructInv == /\ TypeInv /\ KnownInv /\ StopsInv /\ PageInv
             /\ CallbackInv /\ CountInv /\ ReportInv

-----------------------------------------------------------------------------
(* Lemmas about the operators of the model.                                *)

LEMMA Sessions == /\ None \notin Session /\ Session \subseteq Nat /\ IsFiniteSet(Session)
                  /\ Cardinality(Session) = MaxSession
<1>1. IsFiniteSet(Session) /\ Cardinality(Session) = MaxSession
  BY ServiceAssumption, FS_Interval DEF Session
<1>2. QED BY <1>1, ServiceAssumption DEF Session

\* SetToSeq of a finite set is a sequence of its members, each once.
LEMMA Listing ==
  ASSUME NEW S, IsFiniteSet(S)
  PROVE  /\ Cardinality(S) \in Nat
         /\ SetToSeq(S) \in Seq(S) /\ Len(SetToSeq(S)) = Cardinality(S)
         /\ \A i, j \in 1..Cardinality(S) : SetToSeq(S)[i] = SetToSeq(S)[j] => i = j
         /\ \A x \in S : \E i \in 1..Cardinality(S) : SetToSeq(S)[i] = x
<1>1. Cardinality(S) \in Nat /\ ExistsBijection(1..Cardinality(S), S)
  BY FS_CardinalityType
<1>2. PICK g \in [1..Cardinality(S) -> S] : IsInjective(g)
  BY <1>1 DEF ExistsBijection, Bijection, Injection, IsInjective
<1>3. SetToSeq(S) \in [1..Cardinality(S) -> S] /\ IsInjective(SetToSeq(S))
  BY <1>2 DEF SetToSeq
<1> DEFINE f == SetToSeq(S)
<1> HIDE DEF f
<1>4. f \in [1..Cardinality(S) -> S] /\ IsInjective(f)
  BY <1>3 DEF f
<1>5. f \in Seq(S) /\ Len(f) = Cardinality(S)
  BY <1>4, <1>1
<1>6. \A i, j \in 1..Cardinality(S) : f[i] = f[j] => i = j
  BY <1>4 DEF IsInjective
<1>7. f \in Injection(1..Cardinality(S), S)
  BY <1>4 DEF IsInjective, Injection
<1>8. f \in Surjection(1..Cardinality(S), S)
  <2>1. IsFiniteSet(1..Cardinality(S)) /\ Cardinality(1..Cardinality(S)) = Cardinality(S)
    BY <1>1, FS_Interval
  <2>2. QED BY <2>1, <1>7, FS_Injection
<1>9. \A x \in S : \E i \in 1..Cardinality(S) : f[i] = x
  BY <1>8 DEF Surjection
<1>10. QED BY <1>1, <1>5, <1>6, <1>9 DEF f

\* Flush leaves an encoder an encoder, and its frames in time.
LEMMA FlushType ==
  ASSUME NEW e \in Encoders, now \in 0..MaxTime, Timed(e, now)
  PROVE  /\ Flush(e) \in Encoders /\ Flush(e).stamp \in Nat /\ Timed(Flush(e), now)
         /\ Flush(e).last = None
         /\ Flush(e).pts = e.pts /\ Flush(e).file = e.file /\ Flush(e).closed = e.closed
         /\ Flush(e).seen = e.seen /\ Flush(e).since = e.since
<1>0. now \in Nat /\ None \notin Nat
  BY ServiceAssumption
<1>1. CASE e.stamp # None /\ e.last = None
  <2>1. Flush(e) = e
    BY <1>1 DEF Flush
  <2>2. e.stamp \in Nat
    BY <1>1 DEF Encoders
  <2>3. QED BY <2>1, <2>2, <1>1
<1>2. CASE ~(e.stamp # None /\ e.last = None)
  <2>0. e.queue \in Seq(Tasks)
    BY DEF Encoders
  <2> DEFINE Flushes == \E q \in Seq(Tasks) :
                          Flush(e) = [e EXCEPT !.stamp = now, !.last = None, !.queue = q]
  <2>1. ASSUME e.stamp = None PROVE Flushes
    <3>1. Flush(e) = [e EXCEPT !.stamp = now, !.last = None, !.queue = e.queue]
      BY <2>1 DEF Flush
    <3>2. QED BY <3>1, <2>0
  <2>2. ASSUME e.stamp # None PROVE Flushes
    <3>1. e.last \in Nat /\ now - e.stamp \in Nat
      BY <2>2, <1>2, <1>0 DEF Encoders, Timed
    <3>2. Encode(e.last, now - e.stamp) \in Tasks
      BY <3>1 DEF Tasks, Encode
    <3>3. Append(e.queue, Encode(e.last, now - e.stamp)) \in Seq(Tasks)
      BY <2>0, <3>2, AppendProperties
    <3>4. Flush(e) = [e EXCEPT !.stamp = now, !.last = None,
                        !.queue = Append(e.queue, Encode(e.last, now - e.stamp))]
      BY <2>2, <1>2 DEF Flush
    <3>5. QED BY <3>3, <3>4
  <2>3. PICK q \in Seq(Tasks) :
          Flush(e) = [e EXCEPT !.stamp = now, !.last = None, !.queue = q]
    BY <2>1, <2>2
  <2> DEFINE g == [e EXCEPT !.stamp = now, !.last = None, !.queue = q]
  <2>4. g \in Encoders
    BY <1>0 DEF Encoders
  <2>5. /\ g.stamp = now /\ g.last = None /\ g.pts = e.pts /\ g.file = e.file
        /\ g.closed = e.closed /\ g.seen = e.seen /\ g.since = e.since
    BY DEF Encoders
  <2> HIDE DEF g
  <2>6. Flush(e) = g
    BY <2>3 DEF g
  <2>7. QED BY <2>4, <2>5, <2>6, <1>0 DEF Timed
<1>3. QED BY <1>1, <1>2

LEMMA OnFrameType ==
  ASSUME NEW e \in Encoders, now \in 0..MaxTime, Timed(e, now), NEW f \in Nat
  PROVE  /\ OnFrame(e, f) \in Encoders /\ Timed(OnFrame(e, f), now)
         /\ OnFrame(e, f).last = f /\ OnFrame(e, f).stamp = Flush(e).stamp
         /\ OnFrame(e, f).queue = Flush(e).queue
         /\ OnFrame(e, f).pts = e.pts /\ OnFrame(e, f).file = e.file
         /\ OnFrame(e, f).closed = e.closed /\ OnFrame(e, f).seen = Append(e.seen, f)
         /\ OnFrame(e, f).since = (IF e.since = None THEN now ELSE e.since)
<1>0. now \in Nat /\ None \notin Nat
  BY ServiceAssumption
<1> DEFINE g == Flush(e)
<1>1. /\ g \in Encoders /\ Timed(g, now) /\ g.pts = e.pts /\ g.file = e.file
      /\ g.closed = e.closed /\ g.seen = e.seen /\ g.since = e.since
  BY FlushType
<1>2. OnFrame(e, f) = [g EXCEPT !.last = f, !.seen = Append(g.seen, f),
                         !.since = IF g.since = None THEN now ELSE g.since]
  BY DEF OnFrame
<1>3. Append(g.seen, f) \in Seq(Nat)
  BY <1>1, AppendProperties DEF Encoders
<1> HIDE DEF g
<1>4. PICK q \in Seq(Nat), t \in Nat \cup {None} :
        /\ q = Append(g.seen, f) /\ t = (IF g.since = None THEN now ELSE g.since)
  <2>1. (IF g.since = None THEN now ELSE g.since) \in Nat \cup {None}
    BY <1>1, <1>0 DEF Encoders
  <2>2. QED BY <2>1, <1>3
<1> DEFINE h == [g EXCEPT !.last = f, !.seen = q, !.since = t]
<1>5. h \in Encoders
  BY <1>1 DEF Encoders
<1>6. /\ h.last = f /\ h.stamp = g.stamp /\ h.queue = g.queue /\ h.pts = g.pts
      /\ h.file = g.file /\ h.closed = g.closed /\ h.seen = q /\ h.since = t
  BY <1>1 DEF Encoders
<1> HIDE DEF h
<1>7. OnFrame(e, f) = h
  BY <1>2, <1>4 DEF h
<1>8. Timed(h, now)
  BY <1>6, <1>1 DEF Timed
<1>9. QED BY <1>5, <1>6, <1>7, <1>8, <1>4, <1>1 DEF g

\* What becomes of a session when references to it are dropped.
Unheld(s, K, M, E) ==
  /\ s \notin K /\ \A i \in DOMAIN M : M[i].session # s
  /\ Finish \notin ToSet(E[s].queue)
Fate(ph, new, s, K, M, E) ==
  IF ph[s] = "stopped" /\ Unheld(s, K, M, E) THEN new[s] = "gone" ELSE new[s] = ph[s]

LEMMA Released ==
  ASSUME NEW K, NEW M, NEW E, NEW L, phase \in [Session -> Phases],
         Release(phase, K, M, E, L)
  PROVE  /\ phase' \in [Session -> Phases]
         /\ known' = K /\ mainQ' = M /\ enc' = E
         /\ \A s \in Session : Fate(phase, phase', s, K, M, E)
         /\ \/ listener' = L
            \/ listener' = None /\ \E s \in Session :
                 /\ phase[s] = "stopped" /\ phase'[s] = "gone"
                 /\ \A t \in Session : capOf[t] = capOf[s] => phase'[t] = "gone"
<1> DEFINE gone == Dying(phase, K, M, E)
           left == [s \in Session |-> IF s \in gone THEN "gone" ELSE phase[s]]
           Orphan(c) == \A s \in Session : capOf[s] = c => left[s] = "gone"
           dead == \E s \in gone : Orphan(capOf[s])
<1>1. /\ phase' = left /\ known' = K /\ mainQ' = M /\ enc' = E
      /\ listener' = IF dead THEN None ELSE L
  BY DEF Release
<1>2. left \in [Session -> Phases]
  BY DEF Phases
<1>3. \A s \in Session : s \in gone <=> phase[s] = "stopped" /\ Unheld(s, K, M, E)
  BY DEF Dying, Held, Unheld
<1> HIDE DEF gone
<1>4. \A s \in Session : Fate(phase, phase', s, K, M, E)
  BY <1>1, <1>3 DEF Fate
<1>5. gone \subseteq Session
  BY DEF gone, Dying
<1>6. QED BY <1>1, <1>2, <1>3, <1>4, <1>5

-----------------------------------------------------------------------------
(* The steps that leave the recordings alone.                              *)

\* A stopped session that nothing refers to may go away, no other changes.
Fades == \A s \in Session : \/ phase'[s] = phase[s]
                            \/ phase[s] = "stopped" /\ phase'[s] = "gone" /\ s \notin known

Recordings == KnownInv /\ StopsInv /\ PageInv /\ CallbackInv /\ CountInv

LEMMA SameRecordings ==
  ASSUME NativeTypes, PageTypes, Recordings, Fades,
         UNCHANGED <<isVideo, known, capOf, capt, stops, headless, cast, tape>>
  PROVE  Recordings'
<1> USE DEF Fades
<1>1. KnownInv'
  BY DEF KnownInv, Recordings, NativeTypes, Begun
<1>2. StopsInv'
  <2>1. \A i \in 1..Len(stops) : stops[i] \in Session
    BY DEF NativeTypes
  <2>2. QED BY <2>1 DEF StopsInv, Recordings
<1>3. PageInv'
  BY DEF PageInv, Recorded, Recordings, PageTypes
<1>4. CallbackInv'
  BY DEF CallbackInv, Recordings
<1>5. CountInv'
  BY DEF CountInv, SessionsOf, Recordings
<1>6. QED BY <1>1, <1>2, <1>3, <1>4, <1>5 DEF Recordings

\* Runnables that are queued later.
LEMMA QueuedLater ==
  ASSUME QueueTypes, NEW S \in Seq(Runnables),
         \A i \in 1..Len(mainQ) : mainQ[i].kind # "frame" => mainQ[i].session \in isVideo,
         \A i \in 1..Len(S) : S[i].kind # "frame" => S[i].session \in isVideo
  PROVE  /\ mainQ \o S \in Seq(Runnables)
         /\ \A i \in 1..Len(mainQ \o S) :
              (mainQ \o S)[i].kind # "frame" => (mainQ \o S)[i].session \in isVideo
<1>0. mainQ \in Seq(Runnables)
  BY DEF QueueTypes
<1>1. /\ mainQ \o S \in Seq(Runnables) /\ Len(mainQ \o S) = Len(mainQ) + Len(S)
      /\ \A i \in 1..(Len(mainQ) + Len(S)) :
           (mainQ \o S)[i] = IF i <= Len(mainQ) THEN mainQ[i] ELSE S[i - Len(mainQ)]
  BY <1>0, ConcatProperties
<1> DEFINE q == mainQ \o S
<1> HIDE DEF q
<1>2. Len(mainQ) \in Nat /\ Len(S) \in Nat
  BY <1>0
<1>3. ASSUME NEW i \in 1..Len(q), q[i].kind # "frame" PROVE q[i].session \in isVideo
  <2>1. CASE i <= Len(mainQ)
    <3>1. q[i] = mainQ[i] /\ i \in 1..Len(mainQ)
      BY <1>1, <1>2, <2>1 DEF q
    <3>2. QED BY <3>1, <1>3
  <2>2. CASE i > Len(mainQ)
    <3>1. q[i] = S[i - Len(mainQ)] /\ i - Len(mainQ) \in 1..Len(S)
      BY <1>1, <1>2, <2>2 DEF q
    <3>2. QED BY <3>1, <1>3
  <2>3. QED BY <1>1, <1>2, <2>1, <2>2 DEF q
<1>4. QED BY <1>1, <1>3 DEF q

LEMMA QueuedOne ==
  ASSUME NEW Q \in Seq(Runnables), NEW r \in Runnables,
         \A i \in 1..Len(Q) : Q[i].kind # "frame" => Q[i].session \in isVideo,
         r.kind # "frame" => r.session \in isVideo
  PROVE  /\ Append(Q, r) \in Seq(Runnables)
         /\ \A i \in 1..Len(Append(Q, r)) :
              Append(Q, r)[i].kind # "frame" => Append(Q, r)[i].session \in isVideo
<1>1. /\ Append(Q, r) \in Seq(Runnables) /\ Len(Append(Q, r)) = Len(Q) + 1
      /\ \A i \in 1..Len(Q) : Append(Q, r)[i] = Q[i]
      /\ Append(Q, r)[Len(Q) + 1] = r
  BY AppendProperties
<1>2. \A i \in 1..(Len(Q) + 1) : i \in 1..Len(Q) \/ i = Len(Q) + 1
  OBVIOUS
<1> DEFINE q == Append(Q, r)
<1> HIDE DEF q
<1>3. QED BY <1>1, <1>2 DEF q

LEMMA QueueTail ==
  ASSUME QueueTypes, mainQ # <<>>,
         \A i \in 1..Len(mainQ) : mainQ[i].kind # "frame" => mainQ[i].session \in isVideo
  PROVE  /\ Head(mainQ) \in Runnables /\ Head(mainQ) = mainQ[1]
         /\ Tail(mainQ) \in Seq(Runnables) /\ Len(Tail(mainQ)) = Len(mainQ) - 1
         /\ Len(mainQ) \in Nat \ {0}
         /\ \A i \in 1..Len(Tail(mainQ)) : Tail(mainQ)[i] = mainQ[i + 1]
         /\ \A i \in 1..Len(Tail(mainQ)) :
              Tail(mainQ)[i].kind # "frame" => Tail(mainQ)[i].session \in isVideo
         /\ Head(mainQ).kind # "frame" => Head(mainQ).session \in isVideo
<1>0. mainQ \in Seq(Runnables)
  BY DEF QueueTypes
<1>1. /\ Head(mainQ) \in Runnables /\ Head(mainQ) = mainQ[1]
      /\ Tail(mainQ) \in Seq(Runnables) /\ Len(Tail(mainQ)) = Len(mainQ) - 1
      /\ Len(mainQ) \in Nat \ {0}
  BY <1>0
<1>2. \A i \in 1..Len(Tail(mainQ)) : Tail(mainQ)[i] = mainQ[i + 1]
  BY <1>0, HeadTailProperties
<1>3. 1 \in 1..Len(mainQ) /\ \A i \in 1..(Len(mainQ) - 1) : i + 1 \in 1..Len(mainQ)
  BY <1>1
<1> DEFINE q == Tail(mainQ)
<1> HIDE DEF q
<1>4. \A i \in 1..Len(q) : q[i].kind # "frame" => q[i].session \in isVideo
  BY <1>1, <1>2, <1>3 DEF q
<1>5. QED BY <1>1, <1>2, <1>3, <1>4 DEF q

-----------------------------------------------------------------------------
(* Encoders: what Flush and OnFrame do to the queue.                        *)

LEMMA TaskKinds ==
  /\ \A f, d : Encode(f, d).kind = "encode" /\ Encode(f, d) # Finish
  /\ Finish.kind = "finish"
  /\ \A f, d : Encode(f, d).frame = f /\ Encode(f, d).ticks = d
  /\ \A f, d \in Nat : Encode(f, d) \in Tasks
  /\ Finish \in Tasks
  /\ \A t \in Tasks : t # Finish => t.frame \in Nat /\ t.ticks \in Nat /\ t = Encode(t.frame, t.ticks)
<1>1. Finish.kind = "finish"
  BY DEF Finish
<1>2. \A f, d : Encode(f, d).kind = "encode" /\ Encode(f, d).frame = f /\ Encode(f, d).ticks = d
  BY DEF Encode
<1>3. \A f, d \in Nat : Encode(f, d) \in Tasks
  BY DEF Encode, Tasks
<1>4. \A t \in Tasks : t # Finish => t.frame \in Nat /\ t.ticks \in Nat /\ t = Encode(t.frame, t.ticks)
  BY DEF Encode, Tasks
<1>5. QED BY <1>1, <1>2, <1>3, <1>4 DEF Tasks

LEMMA FlushQueue ==
  ASSUME NEW e \in Encoders
  PROVE  \/ /\ e.stamp = None \/ e.last = None
            /\ Flush(e).queue = e.queue
            /\ Flush(e).stamp = (IF e.stamp = None THEN now ELSE e.stamp)
         \/ /\ e.stamp # None /\ e.last # None
            /\ Flush(e).queue = Append(e.queue, Encode(e.last, now - e.stamp))
            /\ Flush(e).stamp = now
<1>1. CASE e.stamp # None /\ e.last = None
  BY <1>1 DEF Flush
<1>2. CASE e.stamp = None
  <2>1. Flush(e) = [e EXCEPT !.stamp = now, !.last = None, !.queue = e.queue]
    BY <1>2 DEF Flush
  <2>2. Flush(e).queue = e.queue /\ Flush(e).stamp = now
    BY <2>1 DEF Encoders
  <2>3. QED BY <2>2, <1>2
<1>3. CASE e.stamp # None /\ e.last # None
  <2> DEFINE q == Append(e.queue, Encode(e.last, now - e.stamp))
  <2>1. Flush(e) = [e EXCEPT !.stamp = now, !.last = None, !.queue = q]
    BY <1>3 DEF Flush
  <2> HIDE DEF q
  <2>2. Flush(e).queue = q /\ Flush(e).stamp = now
    BY <2>1 DEF Encoders
  <2>3. QED BY <2>2, <1>3 DEF q
<1>4. QED BY <1>1, <1>2, <1>3

Finishing(e) == Finish \in ToSet(e.queue)

\* Who is told to finish: nobody by a task to encode.
LEMMA FinishAppended ==
  ASSUME NEW q \in Seq(Tasks), NEW t \in Tasks
  PROVE  Finish \in ToSet(Append(q, t)) <=> Finish \in ToSet(q) \/ t = Finish
<1>1. /\ Append(q, t) \in Seq(Tasks) /\ Len(Append(q, t)) = Len(q) + 1
      /\ \A i \in 1..Len(q) : Append(q, t)[i] = q[i]
      /\ Append(q, t)[Len(q) + 1] = t
  BY AppendProperties
<1>2. /\ Len(q) \in Nat
      /\ \A i \in 1..(Len(q) + 1) : i \in 1..Len(q) \/ i = Len(q) + 1
      /\ \A i \in 1..Len(q) : i \in 1..(Len(q) + 1)
      /\ Len(q) + 1 \in 1..(Len(q) + 1)
  OBVIOUS
<1>3. ToSet(q) = {q[i] : i \in 1..Len(q)}
  BY DEF ToSet
<1> DEFINE p == Append(q, t)
<1>4. ToSet(p) = {p[i] : i \in 1..Len(p)}
  BY <1>1 DEF ToSet
<1> HIDE DEF p
<1>5. ToSet(p) = ToSet(q) \cup {t}
  <2>1. \A x \in ToSet(p) : x \in ToSet(q) \cup {t}
    BY <1>1, <1>2, <1>3, <1>4 DEF p
  <2>2. \A x \in ToSet(q) : x \in ToSet(p)
    BY <1>1, <1>2, <1>3, <1>4 DEF p
  <2>3. t \in ToSet(p)
    BY <1>1, <1>2, <1>3, <1>4 DEF p
  <2>4. QED BY <2>1, <2>2, <2>3
<1>6. QED BY <1>5 DEF p

LEMMA FlushFinishing ==
  ASSUME NEW e \in Encoders, now \in 0..MaxTime, Timed(e, now)
  PROVE  Finishing(Flush(e)) <=> Finishing(e)
<1>1. CASE Flush(e).queue = e.queue
  BY <1>1 DEF Finishing
<1>2. CASE /\ e.stamp # None /\ e.last # None
           /\ Flush(e).queue = Append(e.queue, Encode(e.last, now - e.stamp))
  <2>1. now \in Nat /\ None \notin Nat
    BY ServiceAssumption
  <2>2. e.last \in Nat /\ now - e.stamp \in Nat /\ e.queue \in Seq(Tasks)
    BY <1>2, <2>1 DEF Encoders, Timed
  <2>3. Encode(e.last, now - e.stamp) \in Tasks /\ Encode(e.last, now - e.stamp) # Finish
    BY <2>2, TaskKinds
  <2>4. QED BY <2>2, <2>3, <1>2, FinishAppended DEF Finishing
<1>3. QED BY <1>1, <1>2, FlushQueue

-----------------------------------------------------------------------------
(* The structural invariant is inductive: one lemma per action.            *)

LEMMA InitStruct == Init => StructInv
<1> SUFFICES ASSUME Init PROVE StructInv
  OBVIOUS
<1> USE DEF Init, SInit
<1>0. /\ None \notin Session /\ MaxTime \in Nat /\ MaxFrame \in Nat /\ None \notin Nat
      /\ 0 \in 0..1 /\ 0 \in 0..MaxFrame /\ 0 \in 0..MaxTime
  BY Sessions, ServiceAssumption
<1>1. NativeTypes
  BY <1>0 DEF NativeTypes, Phases, Captures
<1>2. QueueTypes
  BY DEF QueueTypes
<1>3. EncoderTypes
  <2>1. NoEncoder \in Encoders
    BY DEF NoEncoder, Encoders
  <2>2. Timed(NoEncoder, now)
    BY DEF Timed, NoEncoder
  <2>3. QED BY <2>1, <2>2 DEF EncoderTypes
<1>4. PageTypes
  BY DEF PageTypes, NoLoop, Loops
<1>5. KnownInv
  BY <1>0 DEF KnownInv, Begun
<1>6. StopsInv /\ PageInv
  BY DEF StopsInv, PageInv
<1>7. CallbackInv
  BY DEF CallbackInv
<1>8. CountInv
  <2>1. \A c \in Session : SessionsOf(c) = {}
    BY DEF SessionsOf
  <2>2. QED BY <2>1, FS_EmptySet DEF CountInv
<1>9. ReportInv
  <2>1. ToSet(NoEncoder.queue) = {}
    BY DEF NoEncoder, ToSet
  <2>2. QED BY <2>1 DEF ReportInv
<1>10. QED BY <1>1, <1>2, <1>3, <1>4, <1>5, <1>6, <1>7, <1>8, <1>9 DEF StructInv, TypeInv

\* The capturer that a new session uses: its own, or the one that is there.
LEMMA CaptureOf ==
  ASSUME StructInv, NEW s \in Session
  PROVE  (IF known = {} THEN s ELSE capOf[CHOOSE t \in known : TRUE]) \in Session
<1>1. ASSUME NEW t \in known PROVE capOf[t] \in Session
  BY DEF StructInv, TypeInv, NativeTypes, KnownInv, Begun
<1>2. known # {} => (CHOOSE t \in known : TRUE) \in known
  OBVIOUS
<1>3. QED BY <1>1, <1>2

LEMMA StartNativeStruct ==
  ASSUME StructInv, NEW video \in BOOLEAN, StartNative(video), headless, stops = <<>>
  PROVE  StructInv'
<1>1. PICK s \in Session :
        /\ StartVideoRecording(s, video)
        /\ IF video THEN tape' = s /\ UNCHANGED cast ELSE cast' = s /\ UNCHANGED tape
        /\ UNCHANGED <<headless, disposed, loop, unacked, notified>>
  BY DEF StartNative
<1> DEFINE c0 == IF known = {} THEN s ELSE capOf[CHOOSE t \in known : TRUE]
           more == [count |-> capt[c0].count + 1,
                    raw |-> IF video THEN capt[c0].raw ELSE capt[c0].raw \cup {s},
                    data |-> IF video THEN capt[c0].data \cup {s} ELSE capt[c0].data]
<1>2. PICK c \in Session : c = c0
  BY CaptureOf
<1>3. /\ Fresh(s) /\ phase' = [phase EXCEPT ![s] = "on"]
      /\ isVideo' = (IF video THEN isVideo \cup {s} ELSE isVideo)
      /\ capOf' = [capOf EXCEPT ![s] = c]
      /\ known' = known \cup {s}
      /\ capt' = [capt EXCEPT ![c] = more]
      /\ listener' \in {c, listener}
      /\ UNCHANGED <<flying, snap, mainQ, enc, stops, frame, now>>
  BY <1>1, <1>2 DEF StartVideoRecording
<1>4. capt' = [capt EXCEPT ![c] = [count |-> capt[c].count + 1,
                 raw |-> IF video THEN capt[c].raw ELSE capt[c].raw \cup {s},
                 data |-> IF video THEN capt[c].data \cup {s} ELSE capt[c].data]]
  BY <1>2, <1>3
<1> HIDE DEF c0
<1> USE DEF StructInv
<1>t. NativeTypes /\ PageTypes /\ TypeInv
  BY DEF TypeInv
<1>5. phase[s] = "none" /\ s \notin known /\ s \notin isVideo /\ capOf[s] = None
  BY <1>3, <1>t DEF Fresh, KnownInv, NativeTypes, Begun
<1>6. TypeInv'
  <2>1. NativeTypes'
    <3>1. capt[c] \in Captures
      BY <1>t DEF NativeTypes
    <3>2. capt' \in [Session -> Captures]
      BY <1>4, <1>t, <3>1 DEF NativeTypes, Captures
    <3>3. QED BY <1>3, <1>t, <3>2 DEF NativeTypes, Phases
  <2>2. QueueTypes' /\ EncoderTypes'
    BY <1>3 DEF QueueTypes, EncoderTypes, TypeInv
  <2>3. PageTypes'
    BY <1>1, <1>t DEF PageTypes
  <2>4. QED BY <2>1, <2>2, <2>3 DEF TypeInv
<1>7. KnownInv'
  BY <1>1, <1>3, <1>5, <1>t, Sessions DEF KnownInv, NativeTypes, Begun
<1>8. StopsInv'
  BY <1>3 DEF StopsInv
<1>9. PageInv'
  <2>1. cast # None => phase[cast] # "none" /\ cast # s /\ cast \in Session
    BY <1>5, <1>t DEF PageInv, Recorded, PageTypes
  <2>2. tape # None => phase[tape] # "none" /\ tape # s /\ tape \in Session
    BY <1>5, <1>t DEF PageInv, Recorded, PageTypes
  <2>3. phase'[s] = "on" /\ stops' = <<>>
    BY <1>3, <1>t DEF NativeTypes
  <2>4. Recorded(s)'
    BY <2>3 DEF Recorded
  <2>5. \A t \in Session : t # s /\ Recorded(t) => Recorded(t)'
    BY <1>3, <1>t DEF Recorded, NativeTypes
  <2>6. QED BY <1>1, <1>3, <1>5, <2>1, <2>2, <2>4, <2>5 DEF PageInv
<1>10. CallbackInv'
  <2>1. capt[c] \in Captures
    BY <1>t DEF NativeTypes
  <2>2. /\ capt'[c].raw = IF video THEN capt[c].raw ELSE capt[c].raw \cup {s}
        /\ capt'[c].data = IF video THEN capt[c].data \cup {s} ELSE capt[c].data
    BY <1>4, <1>t DEF NativeTypes
  <2>3. \A d \in Session : d # c => capt'[d] = capt[d]
    BY <1>4, <1>t DEF NativeTypes
  <2>4. \A t \in Session : t # s => phase'[t] = phase[t] /\ capOf'[t] = capOf[t]
                                    /\ (t \in isVideo' <=> t \in isVideo)
    BY <1>3, <1>t DEF NativeTypes
  <2>5. phase'[s] = "on" /\ capOf'[s] = c /\ (s \in isVideo' <=> video)
    BY <1>3, <1>5, <1>t DEF NativeTypes
  <2>6. \A d \in Session : s \notin capt[d].raw /\ s \notin capt[d].data
    BY <1>5 DEF CallbackInv
  <2>7. QED BY <2>2, <2>3, <2>4, <2>5, <2>6 DEF CallbackInv
<1>11. CountInv'
  <2>1. \A d \in Session : IsFiniteSet(SessionsOf(d))
    BY Sessions, FS_Subset, <1>t DEF SessionsOf, NativeTypes
  <2>2. SessionsOf(c)' = SessionsOf(c) \cup {s} /\ s \notin SessionsOf(c)
    BY <1>3, <1>5, <1>t DEF SessionsOf, NativeTypes
  <2>3. \A d \in Session : d # c => SessionsOf(d)' = SessionsOf(d)
    BY <1>3, <1>5, <1>t DEF SessionsOf, NativeTypes
  <2>4. Cardinality(SessionsOf(c) \cup {s}) = Cardinality(SessionsOf(c)) + 1
    BY <2>1, <2>2, FS_AddElement
  <2>5. capt'[c].count = capt[c].count + 1 /\ \A d \in Session : d # c => capt'[d] = capt[d]
    BY <1>4, <1>t DEF NativeTypes
  <2>6. QED BY <2>2, <2>3, <2>4, <2>5 DEF CountInv
<1>12. ReportInv'
  BY <1>1, <1>3 DEF ReportInv
<1>13. QED BY <1>6, <1>7, <1>8, <1>9, <1>10, <1>11, <1>12

LEMMA StartSnapshotStruct ==
  ASSUME StructInv, StartSnapshotScreencast, ~headless, stops = <<>>
  PROVE  StructInv'
<1> USE DEF StructInv
<1>1. PICK s \in Session :
        /\ Fresh(s) /\ phase' = [phase EXCEPT ![s] = "script"]
        /\ loop' = [loop EXCEPT ![s].tick = "timer"] /\ cast' = s
        /\ UNCHANGED <<isVideo, capOf, known, flying, capt, listener, snap, mainQ,
                       enc, stops, frame, now>>
        /\ UNCHANGED <<headless, tape, disposed, unacked, notified>>
  BY DEF StartSnapshotScreencast
<1>t. NativeTypes /\ PageTypes /\ TypeInv
  BY DEF TypeInv
<1>2. phase[s] = "none" /\ s \notin known /\ s \notin isVideo /\ capOf[s] = None
  BY <1>1, <1>t DEF Fresh, KnownInv, NativeTypes, Begun
<1>3. /\ phase' \in [Session -> Phases] /\ phase'[s] = "script"
      /\ \A t \in Session : t # s => phase'[t] = phase[t]
  BY <1>1, <1>t DEF NativeTypes, Phases
<1>4. TypeInv'
  <2>1. NativeTypes'
    BY <1>1, <1>3, <1>t DEF NativeTypes
  <2>2. QueueTypes' /\ EncoderTypes'
    BY <1>1 DEF QueueTypes, EncoderTypes, TypeInv
  <2>3. PageTypes'
    BY <1>1, <1>t DEF PageTypes, Loops
  <2>4. QED BY <2>1, <2>2, <2>3 DEF TypeInv
<1>5. KnownInv'
  BY <1>1, <1>2, <1>3, <1>t DEF KnownInv, NativeTypes, Begun
<1>6. StopsInv'
  BY <1>1 DEF StopsInv
<1>7. PageInv'
  <2>1. tape # None => tape \in Session /\ tape # s
    BY <1>2, <1>t DEF PageInv, Recorded, PageTypes
  <2>2. QED BY <1>1, <1>3, <2>1 DEF PageInv, Recorded
<1>8. CallbackInv'
  BY <1>1, <1>2, <1>3 DEF CallbackInv
<1>9. CountInv'
  BY <1>1 DEF CountInv, SessionsOf
<1>10. ReportInv'
  BY <1>1 DEF ReportInv
<1>11. QED BY <1>4, <1>5, <1>6, <1>7, <1>8, <1>9, <1>10

\* The page's stop: what it stops was recorded, and is recorded no longer.
LEMMA StopStruct ==
  ASSUME StructInv, stops = <<>>, NEW S \in Seq(Session), stops' = S, Len(S) <= 2,
         \A i \in 1..Len(S) : S[i] \in {cast, tape} /\ Recorded(S[i]),
         \A i \in 1..Len(S) : i > 1 => S[i] # S[1],
         cast' \in {cast, None}, tape' \in {tape, None},
         headless => \A i \in 1..Len(S) : S[i] # cast' /\ S[i] # tape',
         ~headless => S = <<>>,
         loop' \in [Session -> Loops], disposed' \in BOOLEAN,
         UNCHANGED <<phase, isVideo, capOf, known, flying, capt, listener, snap,
                     mainQ, enc, frame, now, headless, unacked, notified>>
  PROVE  StructInv'
<1> USE DEF StructInv
<1>t. NativeTypes /\ PageTypes /\ TypeInv
  BY DEF TypeInv
<1>1. \A i \in 1..Len(S) : S[i] \in Session /\ phase[S[i]] = "on" /\ S[i] \in known
  BY <1>t DEF Recorded, KnownInv, NativeTypes
<1>2. TypeInv'
  <2>1. NativeTypes'
    BY <1>t DEF NativeTypes
  <2>2. QueueTypes' /\ EncoderTypes'
    BY DEF QueueTypes, EncoderTypes, TypeInv
  <2>3. PageTypes'
    BY <1>t DEF PageTypes
  <2>4. QED BY <2>1, <2>2, <2>3 DEF TypeInv
<1>3. KnownInv'
  <2>1. \A s \in known : phase[s] = "on"
    BY DEF KnownInv
  <2>2. known \subseteq Session
    BY <1>t DEF NativeTypes
  <2>3. QED BY <2>1, <2>2 DEF KnownInv
<1>4. StopsInv'
  BY <1>1 DEF StopsInv
<1>5. PageInv'
  BY DEF PageInv, Recorded
<1>6. CallbackInv' /\ CountInv' /\ ReportInv'
  BY DEF CallbackInv, CountInv, SessionsOf, ReportInv
<1>7. QED BY <1>2, <1>3, <1>4, <1>5, <1>6

LEMMA StopLoopType ==
  ASSUME loop \in [Session -> Loops], NEW s \in Session
  PROVE  /\ StopLoop(s) \in [Session -> Loops]
         /\ \A t \in Session : t # s => StopLoop(s)[t] = loop[t]
         /\ StopLoop(s)[s].stopped = TRUE /\ StopLoop(s)[s].inFlight = loop[s].inFlight
<1>1. StopLoop(s) = [loop EXCEPT ![s] = [@ EXCEPT !.stopped = TRUE,
                       !.tick = IF loop[s].tick = "timer" THEN "none" ELSE loop[s].tick]]
  BY DEF StopLoop
<1>2. QED BY <1>1, ZenonT(30) DEF Loops

LEMMA PageStopsStruct ==
  ASSUME StructInv, StopScreencast \/ StopVideo \/ Dispose
  PROVE  StructInv'
<1> USE DEF StructInv
<1>t. NativeTypes /\ PageTypes /\ TypeInv
  BY DEF TypeInv
<1>0. /\ stops = <<>> /\ loop \in [Session -> Loops]
      /\ None \notin Session
      /\ cast # None => cast \in Session
      /\ tape # None => tape \in Session
  BY <1>t, Sessions DEF StopScreencast, StopVideo, Dispose, Idle, PageTypes
<1>1. /\ cast # None /\ headless => Recorded(cast) /\ cast \notin isVideo
      /\ tape # None => Recorded(tape) /\ tape \in isVideo
  BY DEF PageInv
<1>h. ~headless => tape = None
  BY <1>0 DEF PageInv, Recorded, KnownInv
<1>2. CASE StopScreencast
  <2>1. CASE headless
    <3> DEFINE S == <<cast>>
    <3>1. /\ stops' = S /\ cast # None /\ cast' = None /\ tape' = tape
          /\ UNCHANGED <<loop, disposed>>
          /\ UNCHANGED <<phase, isVideo, capOf, known, flying, capt, listener, snap,
                         mainQ, enc, frame, now, headless, unacked, notified>>
      BY <1>2, <2>1 DEF StopScreencast
    <3>2. S \in Seq(Session) /\ Len(S) = 1 /\ S[1] = cast
      BY <1>0, <3>1
    <3>3. \A i \in 1..Len(S) : S[i] \in {cast, tape} /\ Recorded(S[i]) /\ ~(i > 1)
      BY <3>1, <3>2, <1>1, <2>1
    <3>4. \A i \in 1..Len(S) : S[i] # cast' /\ S[i] # tape'
      BY <3>1, <3>2, <1>1, <2>1
    <3>a. \A i \in 1..Len(S) : i > 1 => S[i] # S[1]
      BY <3>3
    <3>b. \A i \in 1..Len(S) : S[i] \in {cast, tape} /\ Recorded(S[i])
      BY <3>3
    <3>c. cast' \in {cast, None} /\ tape' \in {tape, None} /\ Len(S) <= 2 /\ stops' = S
      BY <3>1, <3>2
    <3> HIDE DEF S
    <3>5. disposed' \in BOOLEAN /\ loop' \in [Session -> Loops]
      BY <3>1, <1>0, <1>t DEF PageTypes
    <3>6. QED BY <3>1, <3>2, <3>a, <3>b, <3>c, <3>4, <3>5, <1>0, <2>1, StopStruct
  <2>2. CASE ~headless
    <3>1. /\ stops' = <<>> /\ cast # None /\ cast' = None /\ tape' = tape
          /\ loop' = StopLoop(cast) /\ UNCHANGED disposed
          /\ UNCHANGED <<phase, isVideo, capOf, known, flying, capt, listener, snap,
                         mainQ, enc, frame, now, headless, unacked, notified>>
      BY <1>2, <1>0, <2>2 DEF StopScreencast
    <3>0. <<>> \in Seq(Session)
      OBVIOUS
    <3>a. PICK S \in Seq(Session) : S = <<>>
      BY <3>0
    <3>2. S = <<>> /\ Len(S) = 0 /\ Len(S) <= 2
      BY <3>a
    <3>3. disposed' \in BOOLEAN /\ loop' \in [Session -> Loops]
      BY <3>1, <1>0, <1>t, StopLoopType DEF PageTypes
    <3>4. stops' = S /\ cast' \in {cast, None} /\ tape' \in {tape, None}
      BY <3>1, <3>2
    <3>5. \A i \in 1..Len(S) : FALSE
      BY <3>2
    <3>6. QED BY <3>1, <3>2, <3>3, <3>4, <3>5, <1>0, <2>2, StopStruct
  <2>3. QED BY <2>1, <2>2
<1>3. CASE StopVideo
  <2> DEFINE S == <<tape>>
  <2>1. /\ stops' = S /\ tape # None /\ cast' = cast /\ tape' = None
        /\ UNCHANGED <<loop, disposed>>
        /\ UNCHANGED <<phase, isVideo, capOf, known, flying, capt, listener, snap,
                       mainQ, enc, frame, now, headless, unacked, notified>>
    BY <1>3 DEF StopVideo
  <2>2. headless
    BY <2>1, <1>h
  <2>3. S \in Seq(Session) /\ Len(S) = 1 /\ S[1] = tape
    BY <1>0, <2>1
  <2>4. \A i \in 1..Len(S) : S[i] \in {cast, tape} /\ Recorded(S[i]) /\ ~(i > 1)
    BY <2>1, <2>3, <1>1
  <2>5. \A i \in 1..Len(S) : S[i] # cast' /\ S[i] # tape'
    BY <2>1, <2>2, <2>3, <1>1
  <2>a. \A i \in 1..Len(S) : i > 1 => S[i] # S[1]
    BY <2>4
  <2>b. \A i \in 1..Len(S) : S[i] \in {cast, tape} /\ Recorded(S[i])
    BY <2>4
  <2>c. cast' \in {cast, None} /\ tape' \in {tape, None} /\ Len(S) <= 2 /\ stops' = S
    BY <2>1, <2>3
  <2> HIDE DEF S
  <2>6. disposed' \in BOOLEAN /\ loop' \in [Session -> Loops]
    BY <2>1, <1>0, <1>t DEF PageTypes
  <2>7. QED BY <2>1, <2>2, <2>3, <2>a, <2>b, <2>c, <2>5, <2>6, <1>0, StopStruct
<1>4. CASE Dispose
  <2>1. /\ disposed' = TRUE /\ cast' = None /\ tape' = None
        /\ stops' = (IF tape = None THEN <<>> ELSE <<tape>>) \o
                    (IF cast # None /\ headless THEN <<cast>> ELSE <<>>)
        /\ loop' = IF cast # None /\ ~headless THEN StopLoop(cast) ELSE loop
        /\ UNCHANGED <<phase, isVideo, capOf, known, flying, capt, listener, snap,
                       mainQ, enc, frame, now, headless, unacked, notified>>
    BY <1>4 DEF Dispose
  <2>2. disposed' \in BOOLEAN /\ loop' \in [Session -> Loops]
    BY <2>1, <1>0, StopLoopType
  <2>3. PICK S \in Seq(Session) :
          /\ S = (IF tape = None THEN <<>> ELSE <<tape>>) \o
                 (IF cast # None /\ headless THEN <<cast>> ELSE <<>>)
          /\ Len(S) <= 2
          /\ \A i \in 1..Len(S) : S[i] = IF i = 1 /\ tape # None THEN tape ELSE cast
          /\ (Len(S) = 2 => tape # None)
          /\ (tape = None \/ Len(S) = 2 => (Len(S) > 0 => cast # None /\ headless))
    <3> DEFINE A == IF tape = None THEN <<>> ELSE <<tape>>
               B == IF cast # None /\ headless THEN <<cast>> ELSE <<>>
    <3>1. A \in Seq(Session) /\ B \in Seq(Session)
      BY <1>0
    <3>2. /\ A \o B \in Seq(Session) /\ Len(A \o B) = Len(A) + Len(B)
          /\ \A i \in 1..(Len(A) + Len(B)) :
               (A \o B)[i] = IF i <= Len(A) THEN A[i] ELSE B[i - Len(A)]
      BY <3>1, ConcatProperties
    <3>3. /\ Len(A) = (IF tape = None THEN 0 ELSE 1) /\ (tape # None => A[1] = tape)
          /\ Len(B) = (IF cast # None /\ headless THEN 1 ELSE 0)
          /\ (cast # None /\ headless => B[1] = cast)
      OBVIOUS
    <3> HIDE DEF A, B
    <3>4. \E S \in Seq(Session) : S = A \o B
      BY <3>2
    <3>5. PICK S \in Seq(Session) : S = A \o B
      BY <3>4
    <3>6. Len(S) <= 2 /\ (Len(S) = 2 => tape # None)
          /\ (tape = None \/ Len(S) = 2 => (Len(S) > 0 => cast # None /\ headless))
      BY <3>2, <3>3, <3>5
    <3>7. ASSUME NEW i \in 1..Len(S)
          PROVE  S[i] = IF i = 1 /\ tape # None THEN tape ELSE cast
      BY <3>2, <3>3, <3>5
    <3>8. QED BY <3>5, <3>6, <3>7 DEF A, B
  <2>4. \A i \in 1..Len(S) : /\ S[i] \in {cast, tape} /\ Recorded(S[i])
                             /\ S[i] \in Session
    <3> TAKE i \in 1..Len(S)
    <3>1. CASE i = 1 /\ tape # None
      BY <3>1, <2>3, <1>1, <1>0
    <3>2. CASE ~(i = 1 /\ tape # None)
      <4>1. S[i] = cast /\ Len(S) > 0 /\ (tape = None \/ Len(S) = 2)
        BY <3>2, <2>3
      <4>2. QED BY <4>1, <2>3, <1>1, <1>0
    <3>3. QED BY <3>1, <3>2
  <2>5. \A i \in 1..Len(S) : i > 1 => S[i] # S[1]
    <3>1. ASSUME NEW i \in 1..Len(S), i > 1 PROVE S[i] # S[1]
      <4>1. i = 2 /\ Len(S) = 2 /\ S[2] = cast /\ S[1] = tape /\ tape # None
            /\ cast # None /\ headless
        BY <3>1, <2>3
      <4>2. QED BY <4>1, <1>1
    <3>2. QED BY <3>1
  <2>6. ~headless => S = <<>>
    BY <2>3, <1>h, <1>0
  <2>7. \A i \in 1..Len(S) : S[i] # cast' /\ S[i] # tape'
    BY <2>1, <2>4, <1>0
  <2>8. stops' = S
    BY <2>1, <2>3
  <2>9. QED BY <2>1, <2>2, <2>3, <2>4, <2>5, <2>6, <2>7, <2>8, <1>0, StopStruct
<1>5. QED BY <1>2, <1>3, <1>4

LEMMA AckStruct ==
  ASSUME StructInv, NEW s \in Session, NEW id, Ack(s, id)
  PROVE  StructInv'
<1> USE DEF StructInv
<1>t. NativeTypes /\ PageTypes /\ TypeInv
  BY DEF TypeInv
<1>1. /\ unacked[s] > 0 /\ unacked' = [unacked EXCEPT ![s] = @ - 1]
      /\ \/ UNCHANGED <<flying, loop>>
         \/ cast # None /\ FrameAck(cast) /\ UNCHANGED loop
         \/ cast # None /\ loop' = [loop EXCEPT ![cast].inFlight = FALSE] /\ UNCHANGED flying
      /\ UNCHANGED <<phase, isVideo, capOf, known, capt, listener, snap, mainQ,
                     enc, stops, frame, now>>
      /\ UNCHANGED <<headless, cast, tape, disposed, notified>>
  BY DEF Ack
<1>2. flying' \in [Session -> 0..1]
  BY <1>1, <1>t DEF FrameAck, NativeTypes
<1>3. loop' \in [Session -> Loops]
  BY <1>1, <1>t DEF PageTypes, Loops
<1>4. unacked' \in [Session -> Nat]
  BY <1>1, <1>t DEF PageTypes
<1>5. TypeInv'
  <2>1. NativeTypes'
    BY <1>1, <1>2, <1>t DEF NativeTypes
  <2>2. PageTypes'
    BY <1>1, <1>3, <1>4, <1>t DEF PageTypes
  <2>3. QueueTypes' /\ EncoderTypes'
    BY <1>1 DEF QueueTypes, EncoderTypes, TypeInv
  <2>4. QED BY <2>1, <2>2, <2>3 DEF TypeInv
<1>6. Recordings'
  BY <1>1, <1>t, SameRecordings DEF Recordings, Fades
<1>7. ReportInv'
  BY <1>1 DEF ReportInv
<1>8. QED BY <1>5, <1>6, <1>7 DEF Recordings

LEMMA RunMainStruct ==
  ASSUME StructInv, RunMain
  PROVE  StructInv'
<1> USE DEF StructInv
<1>t. NativeTypes /\ PageTypes /\ TypeInv /\ QueueTypes
  BY DEF TypeInv
<1>0. /\ mainQ # <<>>
      /\ UNCHANGED <<isVideo, capOf, flying, capt, snap, stops, frame, now>>
      /\ UNCHANGED <<headless, cast, tape, disposed, loop>>
  BY DEF RunMain
<1>q. /\ Head(mainQ) \in Runnables /\ Tail(mainQ) \in Seq(Runnables)
      /\ \A i \in 1..Len(Tail(mainQ)) :
              Tail(mainQ)[i].kind # "frame" => Tail(mainQ)[i].session \in isVideo
      /\ Head(mainQ).kind # "frame" => Head(mainQ).session \in isVideo
  BY <1>0, <1>t, QueueTail DEF ReportInv
<1>1. PICK r \in Runnables :
        /\ r = Head(mainQ)
        /\ \/ r.kind = "frame" /\ FrameRunnable(r.session)
           \/ r.kind = "finished" /\ FinishedRunnable(r.session)
           \/ r.kind = "stopped" /\ StoppedRunnable(r.session)
  BY <1>q DEF RunMain
<1>2. r.session \in Session
  BY DEF Runnables
<1>3. PICK M \in Seq(Runnables) :
        /\ Release(phase, known, M, enc, listener)
        /\ \A i \in 1..Len(M) : M[i].kind # "frame" => M[i].session \in isVideo
  <2>1. CASE r.kind # "finished"
    <3>1. Release(phase, known, Tail(mainQ), enc, listener)
      BY <1>1, <2>1 DEF FrameRunnable, StoppedRunnable
    <3>2. QED BY <3>1, <1>q
  <2>2. CASE r.kind = "finished"
    <3> DEFINE u == Runnable("stopped", r.session)
               M == Append(Tail(mainQ), u)
    <3>1. Release(phase, known, M, enc, listener)
      BY <1>1, <2>2 DEF FinishedRunnable
    <3>2. u \in Runnables /\ u.session = r.session /\ r.session \in isVideo
      BY <1>q, <1>1, <1>2, <2>2 DEF Runnable, Runnables
    <3> HIDE DEF u
    <3>3. /\ M \in Seq(Runnables)
          /\ \A i \in 1..Len(M) : M[i].kind # "frame" => M[i].session \in isVideo
      BY <1>q, <3>2, QueuedOne
    <3> HIDE DEF M
    <3>4. QED BY <3>1, <3>3
  <2>3. QED BY <2>1, <2>2
<1>4. /\ phase' \in [Session -> Phases] /\ known' = known /\ mainQ' = M /\ enc' = enc
      /\ \A s \in Session : Fate(phase, phase', s, known, M, enc)
      /\ listener' \in {listener, None}
  BY <1>3, <1>t, Released DEF NativeTypes
<1>5. Fades
  BY <1>4 DEF Fades, Fate, Unheld
<1>6. unacked' \in [Session -> Nat] /\ notified' \subseteq isVideo
  <2>1. CASE r.kind = "frame"
    BY <1>1, <1>2, <1>t, <2>1 DEF FrameRunnable, PageTypes, ReportInv
  <2>2. CASE r.kind = "finished"
    BY <1>1, <1>2, <1>t, <2>2 DEF FinishedRunnable, PageTypes, ReportInv
  <2>3. CASE r.kind = "stopped"
    BY <1>1, <1>2, <1>q, <1>t, <2>3 DEF StoppedRunnable, PageTypes, ReportInv
  <2>4. QED BY <2>1, <2>2, <2>3, <1>1
<1>7. TypeInv'
  <2>1. NativeTypes'
    BY <1>0, <1>4, <1>t DEF NativeTypes
  <2>2. PageTypes'
    BY <1>0, <1>6, <1>t DEF PageTypes, NativeTypes
  <2>3. QueueTypes'
    BY <1>4 DEF QueueTypes
  <2>4. EncoderTypes'
    BY <1>4, <1>0 DEF EncoderTypes, TypeInv
  <2>5. QED BY <2>1, <2>2, <2>3, <2>4 DEF TypeInv
<1>8. Recordings'
  BY <1>0, <1>4, <1>5, <1>t, SameRecordings DEF Recordings
<1>9. ReportInv'
  BY <1>0, <1>3, <1>4, <1>6 DEF ReportInv
<1>10. QED BY <1>7, <1>8, <1>9 DEF Recordings

LEMMA LoopStruct ==
  ASSUME StructInv, NEW s \in Session, LoopTick(s) \/ \E drawn \in BOOLEAN : LoopDrawn(s, drawn)
  PROVE  StructInv'
<1> USE DEF StructInv
<1>t. NativeTypes /\ PageTypes /\ TypeInv
  BY DEF TypeInv
<1>1. UNCHANGED <<sVars, headless, cast, tape, disposed, notified>>
  BY DEF LoopTick, LoopDrawn
<1>2. loop' \in [Session -> Loops] /\ unacked' \in [Session -> Nat]
  BY <1>t DEF LoopTick, LoopDrawn, PageTypes, Loops
<1>3. TypeInv'
  BY <1>1, <1>2, <1>t DEF sVars, TypeInv, NativeTypes, PageTypes, QueueTypes, EncoderTypes
<1>4. Recordings'
  BY <1>1, <1>t, SameRecordings DEF Recordings, Fades, sVars
<1>5. ReportInv'
  BY <1>1 DEF ReportInv, sVars
<1>6. QED BY <1>3, <1>4, <1>5 DEF Recordings

LEMMA StopBeginStruct ==
  ASSUME StructInv, StopBegin, UNCHANGED pVars
  PROVE  StructInv'
<1> USE DEF StructInv
<1>t. NativeTypes /\ PageTypes /\ TypeInv
  BY DEF TypeInv
<1>0. stops # <<>> /\ stops \in Seq(Session) /\ Head(stops) = stops[1] /\ Head(stops) \in Session
      /\ Len(stops) \in Nat \ {0} /\ 1 \in 1..Len(stops)
  BY <1>t DEF StopBegin, NativeTypes
<1>1. PICK s \in Session : s = Head(stops) /\ s = stops[1]
  BY <1>0
<1>2. PICK c \in Session : c = capOf[s]
  <2>1. phase[s] = "on"
    BY <1>1 DEF StopBegin
  <2>2. QED BY <2>1, <1>t DEF KnownInv, NativeTypes, Begun
<1>3. /\ phase[s] = "on" /\ phase' = [phase EXCEPT ![s] = "stopped"]
      /\ capt' = [capt EXCEPT ![c] = [@ EXCEPT !.raw = capt[c].raw \ {s},
                                               !.data = capt[c].data \ {s}]]
      /\ UNCHANGED <<isVideo, capOf, known, flying, listener, snap, mainQ, enc,
                     stops, frame, now>>
      /\ UNCHANGED <<headless, cast, tape, disposed, loop, unacked, notified>>
  BY <1>1, <1>2, <1>t DEF StopBegin, NativeTypes, Captures, pVars
<1>4. /\ phase' \in [Session -> Phases] /\ phase'[s] = "stopped"
      /\ \A t \in Session : t # s => phase'[t] = phase[t]
  BY <1>3, <1>t DEF NativeTypes, Phases
<1>5. /\ capt' \in [Session -> Captures]
      /\ capt'[c].count = capt[c].count
      /\ capt'[c].raw = capt[c].raw \ {s} /\ capt'[c].data = capt[c].data \ {s}
      /\ \A d \in Session : d # c => capt'[d] = capt[d]
  <2> DEFINE k == [capt[c] EXCEPT !.raw = capt[c].raw \ {s}, !.data = capt[c].data \ {s}]
  <2>1. capt[c] \in Captures
    BY <1>t DEF NativeTypes
  <2>2. /\ k \in Captures /\ k.count = capt[c].count
        /\ k.raw = capt[c].raw \ {s} /\ k.data = capt[c].data \ {s}
    BY <2>1 DEF Captures
  <2>3. capt' = [capt EXCEPT ![c] = k]
    BY <1>3
  <2> HIDE DEF k
  <2>4. QED BY <2>2, <2>3, <1>t DEF NativeTypes
<1>6. TypeInv'
  <2>1. NativeTypes'
    BY <1>3, <1>4, <1>5, <1>t DEF NativeTypes
  <2>2. PageTypes'
    BY <1>3, <1>t DEF PageTypes
  <2>3. QueueTypes' /\ EncoderTypes'
    BY <1>3 DEF QueueTypes, EncoderTypes, TypeInv
  <2>4. QED BY <2>1, <2>2, <2>3 DEF TypeInv
<1>7. KnownInv'
  <2>1. known \subseteq Session /\ isVideo \subseteq Session
    BY <1>t DEF NativeTypes
  <2>2. \A t \in known : phase[t] # "on" => FALSE
    BY <1>1, <1>3 DEF KnownInv
  <2>3. headless
    BY <1>3 DEF KnownInv
  <2>4. QED BY <1>0, <1>1, <1>3, <1>4, <2>1, <2>2, <2>3 DEF KnownInv, Begun
<1>8. StopsInv'
  <2>1. \A i \in 1..Len(stops) : stops[i] \in Session
    BY <1>0
  <2>2. QED BY <1>1, <1>3, <1>4, <2>1 DEF StopsInv
<1>9. PageInv'
  <2>1. cast # None /\ headless => cast # s /\ cast \in Session
    BY <1>0, <1>1, <1>t DEF PageInv, Recorded, PageTypes
  <2>2. tape # None => tape # s /\ tape \in Session
    BY <1>0, <1>1, <1>t DEF PageInv, Recorded, PageTypes
  <2>3. headless
    BY <1>3 DEF KnownInv
  <2>4. QED BY <1>3, <1>4, <2>1, <2>2, <2>3 DEF PageInv, Recorded
<1>10. CallbackInv'
  <2>1. \A d \in Session : d # c => s \notin capt[d].raw /\ s \notin capt[d].data
    BY <1>2 DEF CallbackInv
  <2>2. s \notin capt'[c].raw /\ s \notin capt'[c].data
    BY <1>5
  <2>3. \A d, t \in Session : t # s => /\ t \in capt'[d].raw <=> t \in capt[d].raw
                                       /\ t \in capt'[d].data <=> t \in capt[d].data
    BY <1>5
  <2>4. \A d \in Session : s \notin capt'[d].raw /\ s \notin capt'[d].data
    BY <2>1, <2>2, <1>5
  <2>5. QED BY <2>3, <2>4, <1>3, <1>4 DEF CallbackInv
<1>11. CountInv'
  BY <1>3, <1>5 DEF CountInv, SessionsOf
<1>12. ReportInv'
  BY <1>3 DEF ReportInv
<1>13. QED BY <1>6, <1>7, <1>8, <1>9, <1>10, <1>11, <1>12

\* The encoder of a session that is stopped.
Stopped(e) == [Flush(e) EXCEPT !.queue = Append(@, Finish)]

LEMMA StoppedType ==
  ASSUME NEW e \in Encoders, now \in 0..MaxTime, Timed(e, now)
  PROVE  /\ Stopped(e) \in Encoders /\ Timed(Stopped(e), now) /\ Finishing(Stopped(e))
         /\ Stopped(e).queue = Append(Flush(e).queue, Finish)
         /\ Stopped(e).last = None /\ Stopped(e).stamp = Flush(e).stamp
         /\ Stopped(e).pts = e.pts /\ Stopped(e).file = e.file
         /\ Stopped(e).closed = e.closed /\ Stopped(e).seen = e.seen
         /\ Stopped(e).since = e.since
<1> DEFINE g == Flush(e)
<1>1. /\ g \in Encoders /\ Timed(g, now) /\ g.last = None
      /\ g.pts = e.pts /\ g.file = e.file /\ g.closed = e.closed
      /\ g.seen = e.seen /\ g.since = e.since
  BY FlushType
<1>2. Stopped(e) = [g EXCEPT !.queue = Append(g.queue, Finish)]
  BY DEF Stopped
<1> HIDE DEF g
<1>3. g.queue \in Seq(Tasks) /\ Append(g.queue, Finish) \in Seq(Tasks)
  BY <1>1, TaskKinds, AppendProperties DEF Encoders
<1>4. PICK q \in Seq(Tasks) : q = Append(g.queue, Finish)
  BY <1>3
<1> DEFINE h == [g EXCEPT !.queue = q]
<1>5. h \in Encoders
  BY <1>1 DEF Encoders
<1>6. /\ h.last = g.last /\ h.stamp = g.stamp /\ h.queue = q /\ h.pts = g.pts
      /\ h.file = g.file /\ h.closed = g.closed /\ h.seen = g.seen /\ h.since = g.since
  BY <1>1 DEF Encoders
<1> HIDE DEF h
<1>7. Stopped(e) = h
  BY <1>2, <1>4 DEF h
<1>8. Timed(h, now)
  BY <1>6, <1>1 DEF Timed
<1>9. Finishing(h)
  BY <1>3, <1>4, <1>6, FinishAppended, TaskKinds DEF Finishing
<1>10. QED BY <1>1, <1>4, <1>5, <1>6, <1>7, <1>8, <1>9 DEF g

\* What the end of a stop does to the encoders.
StoppedEncoders(s) == IF s \in isVideo THEN [enc EXCEPT ![s] = Stopped(enc[s])] ELSE enc

LEMMA StopEndFacts ==
  ASSUME StructInv, StopEnd
  PROVE  \E s, c \in Session :
    /\ stops # <<>> /\ s = Head(stops) /\ s = stops[1] /\ c = capOf[s]
    /\ phase[s] = "stopped" /\ (capt[c].count = 1 => snap = None)
    /\ capt' = [capt EXCEPT ![c].count = @ - 1]
    /\ Release(phase, known \ {s}, mainQ, StoppedEncoders(s),
               IF capt[c].count = 1 THEN None ELSE listener)
    /\ stops' = Tail(stops)
    /\ UNCHANGED <<isVideo, capOf, flying, snap, frame, now>>
<1>t. NativeTypes
  BY DEF StructInv, TypeInv
<1>0. /\ stops # <<>> /\ stops \in Seq(Session) /\ Head(stops) = stops[1]
      /\ Head(stops) \in Session /\ phase[Head(stops)] = "stopped"
  BY <1>t DEF StopEnd, NativeTypes
<1>1. capOf[Head(stops)] \in Session
  BY <1>0, <1>t DEF KnownInv, NativeTypes, Begun, StructInv
<1>2. \E s, c \in Session : s = Head(stops) /\ c = capOf[s]
  BY <1>0, <1>1
<1>3. PICK s, c \in Session : s = Head(stops) /\ c = capOf[s]
  BY <1>2
<1>4. [Flush(enc[s]) EXCEPT !.queue = Append(@, Finish)] = Stopped(enc[s])
  BY DEF Stopped
<1>5. Release(phase, known \ {s}, mainQ, StoppedEncoders(s),
              IF capt[c].count = 1 THEN None ELSE listener)
  BY <1>3, <1>4 DEF StopEnd, StoppedEncoders, Stopped
<1>6. QED BY <1>0, <1>3, <1>5 DEF StopEnd

LEMMA StopEndStruct ==
  ASSUME StructInv, StopEnd, UNCHANGED pVars
  PROVE  StructInv'
<1> USE DEF StructInv
<1>t. NativeTypes /\ PageTypes /\ TypeInv /\ EncoderTypes
  BY DEF TypeInv
<1>1. PICK s, c \in Session :
    /\ stops # <<>> /\ s = Head(stops) /\ s = stops[1] /\ c = capOf[s]
    /\ phase[s] = "stopped" /\ (capt[c].count = 1 => snap = None)
    /\ capt' = [capt EXCEPT ![c].count = @ - 1]
    /\ Release(phase, known \ {s}, mainQ, StoppedEncoders(s),
               IF capt[c].count = 1 THEN None ELSE listener)
    /\ stops' = Tail(stops)
    /\ UNCHANGED <<isVideo, capOf, flying, snap, frame, now>>
  BY StopEndFacts
<1>p. UNCHANGED <<headless, cast, tape, disposed, loop, unacked, notified>>
  BY DEF pVars
<1>2. PICK E : E = StoppedEncoders(s)
  OBVIOUS
<1>3. /\ E \in [Session -> Encoders] /\ \A t \in Session : Timed(E[t], now)
      /\ \A t \in Session : Finishing(E[t]) => Finishing(enc[t]) \/ t \in isVideo
  <2>1. enc[s] \in Encoders /\ Timed(enc[s], now) /\ now \in 0..MaxTime
    BY <1>t DEF EncoderTypes, NativeTypes
  <2>2. Stopped(enc[s]) \in Encoders /\ Timed(Stopped(enc[s]), now)
    BY <2>1, StoppedType
  <2>3. QED BY <1>2, <2>2, <1>t DEF StoppedEncoders, EncoderTypes
<1>4. /\ phase' \in [Session -> Phases] /\ known' = known \ {s} /\ mainQ' = mainQ /\ enc' = E
      /\ \A t \in Session : Fate(phase, phase', t, known \ {s}, mainQ, E)
      /\ listener' \in {listener, None}
  <2>1. Release(phase, known \ {s}, mainQ, E,
                IF capt[c].count = 1 THEN None ELSE listener)
    BY <1>1, <1>2
  <2>2. QED BY <2>1, <1>t, Released DEF NativeTypes
<1>5. \A t \in Session : \/ phase'[t] = phase[t]
                         \/ phase[t] = "stopped" /\ phase'[t] = "gone" /\ t \notin known \ {s}
  BY <1>4 DEF Fate, Unheld
<1>6. /\ capt' \in [Session -> Captures] /\ capt'[c].count = capt[c].count - 1
      /\ \A d \in Session : /\ capt'[d].raw = capt[d].raw /\ capt'[d].data = capt[d].data
                            /\ d # c => capt'[d].count = capt[d].count
  <2> DEFINE k == [capt[c] EXCEPT !.count = capt[c].count - 1]
  <2>1. capt[c] \in Captures
    BY <1>t DEF NativeTypes
  <2>2. k \in Captures /\ k.count = capt[c].count - 1 /\ k.raw = capt[c].raw /\ k.data = capt[c].data
    BY <2>1 DEF Captures
  <2>3. capt' = [capt EXCEPT ![c] = k]
    BY <1>1
  <2> HIDE DEF k
  <2>4. QED BY <2>2, <2>3, <1>t DEF NativeTypes
<1>7. /\ stops' \in Seq(Session) /\ Len(stops') = Len(stops) - 1 /\ Len(stops) \in Nat \ {0}
      /\ \A i \in 1..Len(stops') : stops'[i] = stops[i + 1] /\ i + 1 \in 1..Len(stops)
      /\ \A i \in 1..Len(stops) : stops[i] \in Session
  <2>1. stops \in Seq(Session)
    BY <1>t DEF NativeTypes
  <2>2. /\ Len(stops) \in Nat \ {0} /\ \A i \in 1..Len(stops) : stops[i] \in Session
    BY <2>1, <1>1
  <2>3. /\ Tail(stops) \in Seq(Session) /\ Len(Tail(stops)) = Len(stops) - 1
        /\ \A i \in 1..Len(Tail(stops)) : Tail(stops)[i] = stops[i + 1]
    BY <2>1, <1>1, HeadTailProperties
  <2>4. \A i \in 1..(Len(stops) - 1) : i + 1 \in 1..Len(stops)
    BY <2>2
  <2>5. QED BY <2>2, <2>3, <2>4, <1>1
<1>8. TypeInv'
  <2>1. NativeTypes'
    BY <1>1, <1>4, <1>6, <1>7, <1>t DEF NativeTypes
  <2>2. PageTypes'
    BY <1>p, <1>t DEF PageTypes
  <2>3. QueueTypes' /\ EncoderTypes'
    BY <1>1, <1>3, <1>4 DEF QueueTypes, EncoderTypes, TypeInv
  <2>4. QED BY <2>1, <2>2, <2>3 DEF TypeInv
<1>9. KnownInv'
  <2>1. known \subseteq Session /\ isVideo \subseteq Session
    BY <1>t DEF NativeTypes
  <2>2. \A t \in known \ {s} : phase[t] = "on"
    BY <1>1 DEF KnownInv
  <2>3. headless
    BY <1>1 DEF KnownInv
  <2>4. \A t \in Session : phase'[t] # phase[t] => phase[t] \in Begun /\ phase'[t] \in Begun
                                                   /\ phase'[t] # "on" /\ phase'[t] # "script"
    BY <1>5 DEF Begun
  <2>5. \A t \in Session : phase'[t] = "on" => t \in known'
    BY <1>5, <1>4, <1>1 DEF KnownInv
  <2>6. \A t \in known' : phase'[t] = "on"
    BY <2>1, <2>2, <1>4, <1>5
  <2>7. QED BY <1>1, <1>p, <2>1, <2>3, <2>4, <2>5, <2>6 DEF KnownInv
<1>10. StopsInv'
  <2>1. Len(stops) \in 1..2 /\ \A i \in 1..Len(stops') : i = 1 /\ stops'[i] = stops[2] /\ 2 \in 1..Len(stops)
    BY <1>7 DEF StopsInv
  <2>2. 2 \in 1..Len(stops) =>
          /\ stops[2] \in known /\ stops[2] # stops[1] /\ phase[stops[2]] = "on"
          /\ stops[2] \in Session
    BY <1>7 DEF StopsInv
  <2>3. QED BY <2>1, <2>2, <1>1, <1>4, <1>7 DEF StopsInv
<1>11. PageInv'
  <2>1. headless
    BY <1>1 DEF KnownInv
  <2>2. \A t \in Session : Recorded(t) => Recorded(t)'
    <3>1. ASSUME NEW t \in Session, Recorded(t) PROVE Recorded(t)'
      <4>1. phase'[t] = "on"
        BY <3>1, <1>5 DEF Recorded
      <4>2. \A i \in 1..Len(stops') : stops'[i] # t
        BY <3>1, <1>7 DEF Recorded
      <4>3. QED BY <4>1, <4>2 DEF Recorded
    <3>2. QED BY <3>1
  <2>3. QED BY <2>1, <2>2, <1>1, <1>p, <1>t DEF PageInv, PageTypes
<1>12. CallbackInv'
  <2>1. \A t \in Session : phase'[t] = "on" <=> phase[t] = "on"
    BY <1>5
  <2>2. QED BY <2>1, <1>1, <1>6 DEF CallbackInv
<1>13. CountInv'
  <2>1. \A d \in Session : IsFiniteSet(SessionsOf(d))
    BY Sessions, FS_Subset, <1>t DEF SessionsOf, NativeTypes
  <2>2. s \in known
    BY <1>7, <1>1 DEF StopsInv
  <2>3. SessionsOf(c)' = SessionsOf(c) \ {s} /\ s \in SessionsOf(c)
    BY <1>1, <1>4, <2>2 DEF SessionsOf
  <2>4. \A d \in Session : d # c => SessionsOf(d)' = SessionsOf(d)
    BY <1>1, <1>4 DEF SessionsOf
  <2>5. Cardinality(SessionsOf(c) \ {s}) = Cardinality(SessionsOf(c)) - 1
    BY <2>1, <2>3, FS_RemoveElement
  <2>6. QED BY <2>3, <2>4, <2>5, <1>6 DEF CountInv
<1>14. ReportInv'
  BY <1>1, <1>p, <1>3, <1>4 DEF ReportInv, Finishing
<1>15. QED BY <1>8, <1>9, <1>10, <1>11, <1>12, <1>13, <1>14

\* What a snapshot dispatches: a frame for each session that wants one.
FramesOf(out) == [i \in 1..Cardinality(out) |-> Runnable("frame", SetToSeq(out)[i])]

LEMMA FramesListed ==
  ASSUME NEW out \in SUBSET Session
  PROVE  /\ FramesOf(out) \in Seq(Runnables) /\ Len(FramesOf(out)) = Cardinality(out)
         /\ Cardinality(out) \in Nat
         /\ \A i \in 1..Cardinality(out) : /\ FramesOf(out)[i].kind = "frame"
                                           /\ FramesOf(out)[i].session \in out
                                           /\ FramesOf(out)[i] = Runnable("frame", SetToSeq(out)[i])
         /\ \A s \in out : \E i \in 1..Cardinality(out) : FramesOf(out)[i] = Runnable("frame", s)
<1>1. IsFiniteSet(out)
  BY Sessions, FS_Subset
<1>2. /\ Cardinality(out) \in Nat
      /\ SetToSeq(out) \in Seq(out) /\ Len(SetToSeq(out)) = Cardinality(out)
      /\ \A s \in out : \E i \in 1..Cardinality(out) : SetToSeq(out)[i] = s
  BY <1>1, Listing
<1>3. PICK f : f = SetToSeq(out)
  OBVIOUS
<1>4. \A i \in 1..Cardinality(out) : f[i] \in out
  BY <1>2, <1>3
<1>5. \A s \in Session : Runnable("frame", s) \in Runnables /\ Runnable("frame", s).kind = "frame"
                         /\ Runnable("frame", s).session = s
  BY DEF Runnable, Runnables
<1>6. \A i \in 1..Cardinality(out) : FramesOf(out)[i] = Runnable("frame", f[i])
  BY <1>3 DEF FramesOf
<1>7. FramesOf(out) \in [1..Cardinality(out) -> Runnables]
  BY <1>3, <1>4, <1>5 DEF FramesOf
<1>8. FramesOf(out) \in Seq(Runnables) /\ Len(FramesOf(out)) = Cardinality(out)
  BY <1>7, <1>2
<1>9. QED BY <1>2, <1>3, <1>4, <1>5, <1>6, <1>8

LEMMA SnapshotStruct ==
  ASSUME StructInv, NEW visible \in BOOLEAN, Snapshot(visible), UNCHANGED pVars
  PROVE  StructInv'
<1> USE DEF StructInv
<1>t. NativeTypes /\ PageTypes /\ TypeInv /\ QueueTypes
  BY DEF TypeInv
<1>1. PICK c \in Session, out \in SUBSET Session :
        /\ c = listener /\ out = Wanting(c, visible) /\ out \subseteq capt[c].raw
        /\ \A s \in out : flying[s] = 0
  <2>1. listener \in Session
    BY <1>t DEF Snapshot, NativeTypes
  <2>2. Wanting(listener, visible) \in SUBSET Session
    BY <2>1, <1>t DEF Wanting, NativeTypes, Captures
  <2>3. /\ Wanting(listener, visible) \subseteq capt[listener].raw
        /\ \A s \in Wanting(listener, visible) : flying[s] < 1
    BY DEF Wanting, kMaxFramesInFlight
  <2>4. \A s \in Session : flying[s] < 1 => flying[s] = 0
    BY <1>t DEF NativeTypes
  <2>5. QED BY <2>1, <2>2, <2>3, <2>4
<1>2. /\ capt[c].data # {} => frame < MaxFrame
      /\ flying' = [s \in Session |-> IF s \in out THEN flying[s] + 1 ELSE flying[s]]
      /\ mainQ' = mainQ \o FramesOf(out)
      /\ snap' = (IF capt[c].data # {} THEN c ELSE None)
      /\ frame' = (IF capt[c].data # {} THEN frame + 1 ELSE frame)
      /\ UNCHANGED <<phase, isVideo, capOf, known, capt, listener, enc, stops, now>>
  BY <1>1 DEF Snapshot, FramesOf
<1>p. UNCHANGED <<headless, cast, tape, disposed, loop, unacked, notified>>
  BY DEF pVars
<1>3. flying' \in [Session -> 0..1]
  BY <1>1, <1>2, <1>t DEF NativeTypes
<1>4. frame' \in 0..MaxFrame
  BY <1>2, <1>t, ServiceAssumption DEF NativeTypes
<1>5. /\ FramesOf(out) \in Seq(Runnables)
      /\ \A i \in 1..Len(FramesOf(out)) : FramesOf(out)[i].kind = "frame"
  BY FramesListed
<1>6. /\ mainQ' \in Seq(Runnables)
      /\ \A i \in 1..Len(mainQ') : mainQ'[i].kind # "frame" => mainQ'[i].session \in isVideo
  BY <1>2, <1>5, <1>t, QueuedLater DEF ReportInv
<1>7. TypeInv'
  <2>1. NativeTypes'
    BY <1>2, <1>3, <1>4, <1>t DEF NativeTypes
  <2>2. PageTypes'
    BY <1>p, <1>t DEF PageTypes
  <2>3. QueueTypes' /\ EncoderTypes'
    BY <1>2, <1>6 DEF QueueTypes, EncoderTypes, TypeInv
  <2>4. QED BY <2>1, <2>2, <2>3 DEF TypeInv
<1>8. Recordings'
  BY <1>2, <1>p, <1>t, SameRecordings DEF Recordings, Fades
<1>9. ReportInv'
  BY <1>2, <1>p, <1>6 DEF ReportInv
<1>10. QED BY <1>7, <1>8, <1>9 DEF Recordings

LEMMA OnFrameFinishing ==
  ASSUME NEW e \in Encoders, now \in 0..MaxTime, Timed(e, now), NEW f \in Nat
  PROVE  Finishing(OnFrame(e, f)) <=> Finishing(e)
BY OnFrameType, FlushFinishing DEF Finishing

LEMMA SnapshotDataStruct ==
  ASSUME StructInv, SnapshotData, UNCHANGED pVars
  PROVE  StructInv'
<1> USE DEF StructInv
<1>t. NativeTypes /\ PageTypes /\ TypeInv /\ EncoderTypes
  BY DEF TypeInv
<1>1. /\ enc' = [s \in Session |-> IF s \in capt[snap].data
                                   THEN OnFrame(enc[s], frame) ELSE enc[s]]
      /\ snap' = None
      /\ UNCHANGED <<phase, isVideo, capOf, known, flying, capt, listener, mainQ,
                     stops, frame, now>>
  BY DEF SnapshotData
<1>p. UNCHANGED <<headless, cast, tape, disposed, loop, unacked, notified>>
  BY DEF pVars
<1>2. frame \in Nat /\ now \in 0..MaxTime
  BY <1>t, ServiceAssumption DEF NativeTypes
<1>3. \A s \in Session : /\ OnFrame(enc[s], frame) \in Encoders
                         /\ Timed(OnFrame(enc[s], frame), now)
                         /\ Finishing(OnFrame(enc[s], frame)) <=> Finishing(enc[s])
  BY <1>2, <1>t, OnFrameType, OnFrameFinishing DEF EncoderTypes
<1>4. EncoderTypes'
  BY <1>1, <1>3, <1>t DEF EncoderTypes
<1>5. \A s \in Session : Finishing(enc'[s]) <=> Finishing(enc[s])
  BY <1>1, <1>3
<1>6. TypeInv'
  <2>1. NativeTypes'
    BY <1>1, <1>t DEF NativeTypes
  <2>2. PageTypes' /\ QueueTypes'
    BY <1>1, <1>p, <1>t DEF PageTypes, QueueTypes, TypeInv
  <2>3. QED BY <2>1, <2>2, <1>4 DEF TypeInv
<1>7. Recordings'
  BY <1>1, <1>p, <1>t, SameRecordings DEF Recordings, Fades
<1>8. ReportInv'
  BY <1>1, <1>p, <1>5 DEF ReportInv, Finishing
<1>9. QED BY <1>6, <1>7, <1>8 DEF Recordings

\* What an encoder thread does with the first task of its queue.
Worked(e) ==
  IF Head(e.queue) = Finish
  THEN [e EXCEPT !.queue = Tail(@), !.closed = TRUE]
  ELSE [e EXCEPT !.queue = Tail(@), !.pts = @ + Encoded(Head(e.queue).ticks),
                 !.file = Append(@, Head(e.queue).frame)]

LEMMA EncodedType ==
  ASSUME NEW d \in Nat
  PROVE  Encoded(d) \in Nat
<1>1. Repeats(d) \in Nat
  BY DEF Repeats
<1>2. Rest(d) \in Nat
  <2>1. d - 2 * Repeats(d) \in Int
    BY <1>1
  <2>2. ((d - 2 * Repeats(d)) * timeScale) \div 2 \in Int
    BY <2>1 DEF timeScale
  <2>3. QED BY <2>2 DEF Rest
<1>3. QED BY <1>1, <1>2 DEF Encoded, timeScale

LEMMA WorkedType ==
  ASSUME NEW e \in Encoders, e.queue # <<>>
  PROVE  /\ Worked(e) \in Encoders /\ Worked(e).queue = Tail(e.queue)
         /\ Worked(e).stamp = e.stamp /\ Worked(e).last = e.last
         /\ Worked(e).seen = e.seen /\ Worked(e).since = e.since
         /\ Head(e.queue) \in Tasks
         /\ \/ /\ Head(e.queue) = Finish /\ Worked(e).closed = TRUE
               /\ Worked(e).pts = e.pts /\ Worked(e).file = e.file
            \/ /\ Head(e.queue) # Finish /\ Worked(e).closed = e.closed
               /\ Worked(e).pts = e.pts + Encoded(Head(e.queue).ticks)
               /\ Worked(e).file = Append(e.file, Head(e.queue).frame)
         /\ Finishing(Worked(e)) => Finishing(e)
<1>1. e.queue \in Seq(Tasks) /\ e.pts \in Nat /\ e.file \in Seq(Nat)
  BY DEF Encoders
<1>2. Head(e.queue) \in Tasks /\ Tail(e.queue) \in Seq(Tasks)
  BY <1>1, HeadTailProperties
<1>3. PICK t \in Tasks, q \in Seq(Tasks) : t = Head(e.queue) /\ q = Tail(e.queue)
  BY <1>2
<1>4. Finish \in ToSet(q) => Finish \in ToSet(e.queue)
  <2>1. /\ Len(q) = Len(e.queue) - 1 /\ \A i \in 1..Len(q) : q[i] = e.queue[i + 1]
    BY <1>1, <1>3, HeadTailProperties
  <2>2. /\ ToSet(q) = {q[i] : i \in 1..Len(q)}
        /\ ToSet(e.queue) = {e.queue[i] : i \in 1..Len(e.queue)}
    BY <1>1 DEF ToSet
  <2>3. \A i \in 1..(Len(e.queue) - 1) : i + 1 \in 1..Len(e.queue)
    BY <1>1
  <2>4. QED BY <2>1, <2>2, <2>3
<1>5. CASE t = Finish
  <2> DEFINE g == [e EXCEPT !.queue = q, !.closed = TRUE]
  <2>1. Worked(e) = g
    BY <1>3, <1>5 DEF Worked
  <2>2. /\ g \in Encoders /\ g.queue = q /\ g.stamp = e.stamp /\ g.last = e.last
        /\ g.seen = e.seen /\ g.since = e.since /\ g.closed = TRUE
        /\ g.pts = e.pts /\ g.file = e.file
    BY DEF Encoders
  <2> HIDE DEF g
  <2>3. QED BY <2>1, <2>2, <1>2, <1>3, <1>4, <1>5 DEF Finishing
<1>6. CASE t # Finish
  <2>1. t.frame \in Nat /\ t.ticks \in Nat
    BY <1>6, TaskKinds
  <2>2. PICK p \in Nat, f \in Seq(Nat) : p = e.pts + Encoded(t.ticks) /\ f = Append(e.file, t.frame)
    <3>1. e.pts + Encoded(t.ticks) \in Nat
      <4>1. Encoded(t.ticks) \in Nat
        BY <2>1, EncodedType
      <4>2. QED BY <4>1, <1>1
    <3>2. Append(e.file, t.frame) \in Seq(Nat)
      BY <2>1, <1>1, AppendProperties
    <3>3. QED BY <3>1, <3>2
  <2> DEFINE g == [e EXCEPT !.queue = q, !.pts = p, !.file = f]
  <2>3. Worked(e) = g
    BY <1>3, <1>6, <2>2 DEF Worked
  <2>4. /\ g \in Encoders /\ g.queue = q /\ g.stamp = e.stamp /\ g.last = e.last
        /\ g.seen = e.seen /\ g.since = e.since /\ g.closed = e.closed
        /\ g.pts = p /\ g.file = f
    BY DEF Encoders
  <2> HIDE DEF g
  <2>5. QED BY <2>2, <2>3, <2>4, <1>2, <1>3, <1>4, <1>6 DEF Finishing
<1>7. QED BY <1>5, <1>6

LEMMA EncoderTaskFacts ==
  ASSUME StructInv, NEW s \in Session, EncoderTask(s)
  PROVE  /\ enc[s] \in Encoders /\ enc[s].queue # <<>>
         /\ enc' = [enc EXCEPT ![s] = Worked(enc[s])]
         /\ mainQ' = (IF Head(enc[s].queue) = Finish
                      THEN Append(mainQ, Runnable("finished", s)) ELSE mainQ)
         /\ UNCHANGED <<phase, isVideo, capOf, known, flying, capt, listener, snap,
                        stops, frame, now>>
<1>0. enc[s] \in Encoders /\ enc[s].queue # <<>>
  BY DEF EncoderTask, StructInv, TypeInv, EncoderTypes
<1> DEFINE e == enc[s]
           t == Head(e.queue)
           rest == [e EXCEPT !.queue = Tail(e.queue)]
<1>1. CASE t = Finish
  <2>1. enc' = [enc EXCEPT ![s] = [rest EXCEPT !.closed = TRUE]]
        /\ mainQ' = Append(mainQ, Runnable("finished", s))
    BY <1>1 DEF EncoderTask
  <2>2. [rest EXCEPT !.closed = TRUE] = Worked(e)
    BY <1>0, <1>1 DEF Worked, Encoders
  <2>3. QED BY <1>0, <1>1, <2>1, <2>2 DEF EncoderTask
<1>2. CASE t # Finish
  <2>1. enc' = [enc EXCEPT ![s] = [rest EXCEPT !.pts = @ + Encoded(t.ticks),
                                               !.file = Append(@, t.frame)]]
        /\ mainQ' = mainQ
    BY <1>2 DEF EncoderTask
  <2>2. [rest EXCEPT !.pts = @ + Encoded(t.ticks), !.file = Append(@, t.frame)] = Worked(e)
    <3>1. rest.pts = e.pts /\ rest.file = e.file
      BY <1>0 DEF Encoders
    <3>2. QED BY <3>1, <1>0, <1>2 DEF Worked
  <2>3. QED BY <1>0, <1>2, <2>1, <2>2 DEF EncoderTask
<1>3. QED BY <1>1, <1>2

LEMMA EncoderTaskStruct ==
  ASSUME StructInv, NEW s \in Session, EncoderTask(s), UNCHANGED pVars
  PROVE  StructInv'
<1> USE DEF StructInv
<1>t. NativeTypes /\ PageTypes /\ TypeInv /\ EncoderTypes /\ QueueTypes
  BY DEF TypeInv
<1>1. /\ enc[s] \in Encoders /\ enc[s].queue # <<>>
      /\ enc' = [enc EXCEPT ![s] = Worked(enc[s])]
      /\ mainQ' = (IF Head(enc[s].queue) = Finish
                   THEN Append(mainQ, Runnable("finished", s)) ELSE mainQ)
      /\ UNCHANGED <<phase, isVideo, capOf, known, flying, capt, listener, snap,
                     stops, frame, now>>
  BY EncoderTaskFacts
<1>p. UNCHANGED <<headless, cast, tape, disposed, loop, unacked, notified>>
  BY DEF pVars
<1>2. /\ Worked(enc[s]) \in Encoders /\ Worked(enc[s]).stamp = enc[s].stamp
      /\ Finishing(Worked(enc[s])) => Finishing(enc[s])
  BY <1>1, WorkedType
<1>3. EncoderTypes'
  BY <1>1, <1>2, <1>t DEF EncoderTypes, Timed
<1>4. \A t \in Session : Finishing(enc'[t]) => Finishing(enc[t])
  BY <1>1, <1>2, <1>t DEF EncoderTypes
<1>5. /\ mainQ' \in Seq(Runnables)
      /\ \A i \in 1..Len(mainQ') : mainQ'[i].kind # "frame" => mainQ'[i].session \in isVideo
  <2>1. CASE Head(enc[s].queue) = Finish
    <3>1. Finishing(enc[s])
      <4>1. enc[s].queue \in Seq(Tasks)
        BY <1>1 DEF Encoders
      <4>2. Head(enc[s].queue) = enc[s].queue[1] /\ 1 \in DOMAIN enc[s].queue
        BY <4>1, <1>1
      <4>3. QED BY <4>2, <2>1 DEF Finishing, ToSet
    <3>2. s \in isVideo
      BY <3>1 DEF ReportInv, Finishing
    <3>a. Runnable("finished", s) \in Runnables /\ Runnable("finished", s).session = s
      BY DEF Runnables, Runnable
    <3>3. PICK r \in Runnables : r = Runnable("finished", s) /\ r.session \in isVideo
      BY <3>a, <3>2
    <3>4. mainQ \in Seq(Runnables)
      BY <1>t DEF QueueTypes
    <3>5. mainQ' = Append(mainQ, r)
      BY <1>1, <2>1, <3>3
    <3>6. QED BY <3>3, <3>4, <3>5, QueuedOne DEF ReportInv
  <2>2. CASE Head(enc[s].queue) # Finish
    BY <1>1, <1>t, <2>2 DEF QueueTypes, ReportInv
  <2>3. QED BY <2>1, <2>2
<1>6. TypeInv'
  <2>1. NativeTypes'
    BY <1>1, <1>t DEF NativeTypes
  <2>2. PageTypes' /\ QueueTypes'
    BY <1>p, <1>t, <1>5 DEF PageTypes, QueueTypes
  <2>3. QED BY <2>1, <2>2, <1>3 DEF TypeInv
<1>7. Recordings'
  BY <1>1, <1>p, <1>t, SameRecordings DEF Recordings, Fades
<1>8. ReportInv'
  BY <1>1, <1>p, <1>4, <1>5 DEF ReportInv, Finishing
<1>9. QED BY <1>6, <1>7, <1>8 DEF Recordings

LEMMA TickStruct ==
  ASSUME StructInv, Tick, UNCHANGED pVars
  PROVE  StructInv'
<1> USE DEF StructInv
<1>t. NativeTypes /\ PageTypes /\ TypeInv /\ EncoderTypes /\ QueueTypes
  BY DEF TypeInv
<1>1. /\ now < MaxTime /\ now' = now + 1
      /\ UNCHANGED <<phase, isVideo, capOf, known, flying, capt, listener, snap,
                     mainQ, enc, stops, frame>>
      /\ UNCHANGED <<headless, cast, tape, disposed, loop, unacked, notified>>
  BY DEF Tick, pVars
<1>2. now' \in 0..MaxTime /\ now \in Nat /\ None \notin Nat
  BY <1>1, <1>t, ServiceAssumption DEF NativeTypes
<1>3. EncoderTypes'
  <2>1. \A s \in Session : enc[s].stamp \in Nat \cup {None} /\ Timed(enc[s], now)
    BY <1>t DEF EncoderTypes, Encoders
  <2>2. \A s \in Session : Timed(enc[s], now')
    BY <2>1, <1>1, <1>2 DEF Timed
  <2>3. QED BY <2>2, <1>1, <1>t DEF EncoderTypes, Timed
<1>4. TypeInv'
  <2>1. NativeTypes'
    BY <1>1, <1>2, <1>t DEF NativeTypes
  <2>2. PageTypes' /\ QueueTypes'
    BY <1>1, <1>t DEF PageTypes, QueueTypes
  <2>3. QED BY <2>1, <2>2, <1>3 DEF TypeInv
<1>5. Recordings'
  BY <1>1, <1>t, SameRecordings DEF Recordings, Fades
<1>6. ReportInv'
  BY <1>1 DEF ReportInv
<1>7. QED BY <1>4, <1>5, <1>6 DEF Recordings

LEMMA StutterStruct == StructInv /\ UNCHANGED vars => StructInv'
BY DEF StructInv, TypeInv, NativeTypes, QueueTypes, EncoderTypes, PageTypes, KnownInv, StopsInv,
   PageInv, Recorded, CallbackInv, CountInv, SessionsOf, ReportInv, vars, sVars, pVars

LEMMA StructStep == StructInv /\ [Next]_vars => StructInv'
<1> SUFFICES ASSUME StructInv, [Next]_vars PROVE StructInv'
  OBVIOUS
<1>1. CASE StartScreencast
  <2>1. stops = <<>>
    BY <1>1 DEF StartScreencast, MayStart, Idle
  <2>2. CASE headless
    <3>1. StartNative(FALSE)
      BY <1>1, <2>2 DEF StartScreencast
    <3>2. QED BY <3>1, <2>1, <2>2, StartNativeStruct
  <2>3. CASE ~headless
    <3>1. StartSnapshotScreencast
      BY <1>1, <2>3 DEF StartScreencast
    <3>2. QED BY <3>1, <2>1, <2>3, StartSnapshotStruct
  <2>4. QED BY <2>2, <2>3
<1>2. CASE StartVideo
  <2>1. stops = <<>> /\ headless /\ StartNative(TRUE)
    BY <1>2 DEF StartVideo, MayStart, Idle
  <2>2. QED BY <2>1, StartNativeStruct
<1>3. CASE StopScreencast \/ StopVideo \/ Dispose
  BY <1>3, PageStopsStruct
<1>4. CASE \E s \in Session : Ack(s, None) \/ Ack(s, s)
  BY <1>4, AckStruct
<1>5. CASE RunMain
  BY <1>5, RunMainStruct
<1>6. CASE Native /\ UNCHANGED pVars
  BY <1>6, StopBeginStruct, StopEndStruct, SnapshotStruct, SnapshotDataStruct,
     EncoderTaskStruct, TickStruct DEF Native
<1>7. CASE \E s \in Session : LoopTick(s) \/ \E drawn \in BOOLEAN : LoopDrawn(s, drawn)
  BY <1>7, LoopStruct
<1>8. CASE UNCHANGED vars
  BY <1>8, StutterStruct
<1>9. QED BY <1>1, <1>2, <1>3, <1>4, <1>5, <1>6, <1>7, <1>8 DEF Next

LEMMA StructAlways == Spec => []StructInv
<1>1. Init => StructInv
  BY InitStruct
<1>2. StructInv /\ [Next]_vars => StructInv'
  BY StructStep
<1>3. QED BY <1>1, <1>2, PTL DEF Spec

LEMMA StructGivesTypes == StructInv => TypeOK
<1> SUFFICES ASSUME StructInv PROVE TypeOK
  OBVIOUS
<1>t. NativeTypes /\ PageTypes /\ QueueTypes
  BY DEF StructInv, TypeInv
<1>1. \A c \in Session : capt[c].count \in 0..MaxSession
  <2> TAKE c \in Session
  <2>1. SessionsOf(c) \in SUBSET Session
    BY <1>t DEF SessionsOf, NativeTypes
  <2>2. Cardinality(SessionsOf(c)) \in Nat /\ Cardinality(SessionsOf(c)) <= MaxSession
    BY <2>1, Sessions, FS_Subset, FS_CardinalityType
  <2>3. QED BY <2>2, ServiceAssumption DEF StructInv, CountInv
<1>2. capt \in [Session -> [count : 0..MaxSession, raw : SUBSET Session, data : SUBSET Session]]
  BY <1>1, <1>t DEF NativeTypes, Captures
<1>3. \A i \in DOMAIN mainQ : /\ mainQ[i].session \in Session
                              /\ mainQ[i].kind \in {"frame", "finished", "stopped"}
  <2>1. \A i \in DOMAIN mainQ : mainQ[i] \in Runnables
    BY <1>t DEF QueueTypes
  <2>2. QED BY <2>1 DEF Runnables
<1>4. QED BY <1>2, <1>3, <1>t
           DEF TypeOK, NativeTypes, PageTypes, Phases, kMaxFramesInFlight, StructInv, ReportInv

\* The types of the recorder and the page: a session has at most one frame in
\* flight (kMaxFramesInFlight), capture_counter_ is never negative and never
\* more than the sessions there are, and only a video is reported finished.
THEOREM TypeTheorem == Spec => []TypeOK
BY StructAlways, StructGivesTypes, PTL

-----------------------------------------------------------------------------
(* A client that does not start while a recording is torn down keeps the   *)
(* window's snapshots.                                                     *)

\* The sessions that are alive share one capturer, and while one of them
\* records, the window's listener is that capturer's.
SourceInv ==
  /\ \A s, t \in Live : capOf[s] = capOf[t]
  /\ \A s \in Session : phase[s] = "on" => listener = capOf[s]

\* What Release does to the listener.
Unhooked(L) ==
  \/ listener' = L
  \/ listener' = None /\ \E s \in Session :
       /\ phase[s] = "stopped" /\ phase'[s] = "gone"
       /\ \A t \in Session : capOf[t] = capOf[s] => phase'[t] = "gone"

FadesFrom(K) == \A s \in Session : \/ phase'[s] = phase[s]
                                   \/ phase[s] = "stopped" /\ phase'[s] = "gone" /\ s \notin K

LEMMA SourceReleased ==
  ASSUME SourceInv, NEW K, FadesFrom(K), NEW L, Unhooked(L), UNCHANGED capOf,
         L = listener \/ \A s \in Session : phase[s] # "on"
  PROVE  SourceInv'
<1>1. \A s \in Session : phase'[s] = "on" => phase[s] = "on"
  BY DEF FadesFrom
<1>2. \A s \in Session : s \in Live' => s \in Live
  BY DEF FadesFrom, Live
<1>3. \A s, t \in Live' : capOf'[s] = capOf'[t]
  BY <1>2 DEF Live, SourceInv
<1>4. ASSUME NEW s \in Session, phase'[s] = "on" PROVE listener' = capOf'[s]
  <2>1. phase[s] = "on" /\ L = listener
    BY <1>1, <1>4
  <2>2. CASE listener' = L
    BY <2>1, <2>2 DEF SourceInv
  <2>3. CASE \E r \in Session :
               /\ phase[r] = "stopped" /\ phase'[r] = "gone"
               /\ \A t \in Session : capOf[t] = capOf[r] => phase'[t] = "gone"
    <3>1. PICK r \in Session :
               /\ phase[r] = "stopped" /\ phase'[r] = "gone"
               /\ \A t \in Session : capOf[t] = capOf[r] => phase'[t] = "gone"
      BY <2>3
    <3>2. capOf[s] = capOf[r]
      BY <2>1, <3>1 DEF SourceInv, Live
    <3>3. QED BY <3>1, <3>2, <1>4
  <2>4. QED BY <2>2, <2>3 DEF Unhooked
<1>5. QED BY <1>3, <1>4 DEF SourceInv

LEMMA InitSource == Init => SourceInv
BY DEF Init, SInit, SourceInv, Live

LEMMA StartNativeSource ==
  ASSUME StructInv, SourceInv, NEW video \in BOOLEAN, StartNative(video), stops = <<>>,
         \A s \in Live : s \in known
  PROVE  SourceInv'
<1> USE DEF StructInv
<1>t. NativeTypes
  BY DEF TypeInv
<1>1. PICK s \in Session : StartVideoRecording(s, video)
  BY DEF StartNative
<1>2. PICK c \in Session : c = IF known = {} THEN s ELSE capOf[CHOOSE t \in known : TRUE]
  BY CaptureOf
<1>3. /\ Fresh(s) /\ phase' = [phase EXCEPT ![s] = "on"]
      /\ capOf' = [capOf EXCEPT ![s] = c]
      /\ listener' = IF capt[c].count = 0 THEN c ELSE listener
  BY <1>1, <1>2 DEF StartVideoRecording
<1>4. /\ phase[s] = "none" /\ phase'[s] = "on" /\ capOf'[s] = c
      /\ \A t \in Session : t # s => phase'[t] = phase[t] /\ capOf'[t] = capOf[t]
  BY <1>3, <1>t DEF Fresh, NativeTypes
<1>5. known \subseteq Session /\ IsFiniteSet(SessionsOf(c))
  BY <1>t, Sessions, FS_Subset DEF NativeTypes, SessionsOf
<1>6. CASE known = {}
  <2>1. SessionsOf(c) = {} /\ \A t \in Session : t \notin Live
    BY <1>6 DEF SessionsOf
  <2>2. capt[c].count = 0
    BY <2>1, FS_EmptySet DEF CountInv
  <2>3. \A t \in Session : t \in Live' => t = s
    BY <2>1, <1>4 DEF Live
  <2>4. \A t \in Session : phase'[t] = "on" => t = s
    BY <2>3 DEF Live
  <2>5. QED BY <2>2, <2>3, <2>4, <1>3, <1>4 DEF SourceInv, Live
<1>7. CASE known # {}
  <2>1. PICK t \in known : c = capOf[t]
    BY <1>2, <1>7
  <2>2. phase[t] = "on" /\ t \in Session
    BY <1>5 DEF KnownInv
  <2>3. t \in SessionsOf(c)
    BY <2>1 DEF SessionsOf
  <2>4. capt[c].count # 0
    <3>1. Cardinality(SessionsOf(c)) # 0
      BY <2>3, <1>5, FS_EmptySet
    <3>2. QED BY <3>1 DEF CountInv
  <2>5. listener' = listener /\ listener = c
    BY <2>4, <2>1, <2>2, <1>3 DEF SourceInv
  <2>6. \A r \in Live : capOf[r] = c
    BY <2>1, <2>2 DEF SourceInv, Live
  <2>7. \A r \in Session : r # s => (r \in Live' <=> r \in Live)
    BY <1>4 DEF Live
  <2>8. \A r \in Session : r \in Live' => capOf'[r] = c
    BY <2>6, <2>7, <1>4
  <2>9. QED BY <2>5, <2>8 DEF SourceInv, Live
<1>8. QED BY <1>6, <1>7

LEMMA StopEndSource ==
  ASSUME StructInv, SourceInv, StopEnd
  PROVE  SourceInv'
<1> USE DEF StructInv
<1>t. NativeTypes
  BY DEF TypeInv
<1>1. PICK s, c \in Session :
    /\ stops # <<>> /\ s = Head(stops) /\ s = stops[1] /\ c = capOf[s]
    /\ phase[s] = "stopped" /\ (capt[c].count = 1 => snap = None)
    /\ capt' = [capt EXCEPT ![c].count = @ - 1]
    /\ Release(phase, known \ {s}, mainQ, StoppedEncoders(s),
               IF capt[c].count = 1 THEN None ELSE listener)
    /\ stops' = Tail(stops)
    /\ UNCHANGED <<isVideo, capOf, flying, snap, frame, now>>
  BY StopEndFacts
<1> DEFINE L == IF capt[c].count = 1 THEN None ELSE listener
<1>2. FadesFrom(known \ {s}) /\ Unhooked(L)
  BY <1>1, <1>t, Released DEF Fate, Unheld, FadesFrom, Unhooked, NativeTypes
<1>3. ASSUME capt[c].count = 1, NEW t \in Session, phase[t] = "on" PROVE FALSE
  <2>1. t \in known /\ capOf[t] = c
    BY <1>1, <1>3 DEF KnownInv, SourceInv, Live
  <2>2. s \in known
    <3>1. stops \in Seq(Session)
      BY <1>t DEF NativeTypes
    <3>2. 1 \in 1..Len(stops)
      BY <3>1, <1>1
    <3>3. QED BY <3>2, <1>1 DEF StopsInv
  <2>3. s \in SessionsOf(c) /\ t \in SessionsOf(c) /\ s # t
    BY <2>1, <2>2, <1>1, <1>3 DEF SessionsOf
  <2>4. IsFiniteSet(SessionsOf(c)) /\ Cardinality(SessionsOf(c)) = 1
    BY <1>3, <1>t, Sessions, FS_Subset DEF NativeTypes, SessionsOf, CountInv
  <2>5. QED BY <2>3, <2>4, FS_Singleton
<1>4. L = listener \/ \A t \in Session : phase[t] # "on"
  BY <1>3
<1> HIDE DEF L
<1>5. QED BY <1>1, <1>2, <1>4, SourceReleased

LEMMA SourceStep ==
  ASSUME ~Hasty
  PROVE  StructInv /\ SourceInv /\ [Next]_vars => SourceInv'
<1> SUFFICES ASSUME StructInv, SourceInv, [Next]_vars PROVE SourceInv'
  OBVIOUS
<1>t. NativeTypes
  BY DEF StructInv, TypeInv
<1> DEFINE Same == UNCHANGED <<phase, capOf, listener>>
<1>s. Same => SourceInv'
  BY DEF SourceInv, Live
<1>f. ASSUME NEW s \in Session, Fresh(s), phase' = [phase EXCEPT ![s] = "script"],
             UNCHANGED <<capOf, listener>>
      PROVE SourceInv'
  <2>1. \A t \in Session : phase'[t] = "on" => phase[t] = "on"
    BY <1>f, <1>t DEF NativeTypes
  <2>2. \A t \in Session : t \in Live' => t \in Live
    BY <1>f, <1>t DEF NativeTypes, Live
  <2>3. QED BY <2>1, <2>2, <1>f DEF SourceInv, Live
<1>1. CASE StartScreencast
  <2>1. stops = <<>> /\ \A s \in Live : s \in known
    BY <1>1 DEF StartScreencast, MayStart, Idle
  <2>2. CASE headless
    <3>1. StartNative(FALSE)
      BY <1>1, <2>2 DEF StartScreencast
    <3>2. QED BY <3>1, <2>1, StartNativeSource
  <2>3. CASE ~headless
    BY <1>1, <2>3, <1>f DEF StartScreencast, StartSnapshotScreencast
  <2>4. QED BY <2>2, <2>3
<1>2. CASE StartVideo
  <2>1. stops = <<>> /\ StartNative(TRUE) /\ \A s \in Live : s \in known
    BY <1>2 DEF StartVideo, MayStart, Idle
  <2>2. QED BY <2>1, StartNativeSource
<1>3. CASE StopScreencast \/ StopVideo \/ Dispose
  BY <1>3, <1>s DEF StopScreencast, StopVideo, Dispose
<1>4. CASE \E s \in Session : Ack(s, None) \/ Ack(s, s)
  BY <1>4, <1>s DEF Ack
<1>5. CASE RunMain
  <2>1. \E M : Release(phase, known, M, enc, listener)
    BY <1>5 DEF RunMain, FrameRunnable, FinishedRunnable, StoppedRunnable
  <2>2. FadesFrom(known) /\ Unhooked(listener)
    BY <2>1, <1>t, Released DEF Fate, Unheld, FadesFrom, Unhooked, NativeTypes
  <2>3. UNCHANGED capOf
    BY <1>5 DEF RunMain
  <2>4. QED BY <2>2, <2>3, SourceReleased
<1>6. CASE Native /\ UNCHANGED pVars
  <2>1. CASE StopBegin
    <3>1. UNCHANGED <<capOf, listener>> /\ Head(stops) \in Session
          /\ phase[Head(stops)] = "on" /\ phase' = [phase EXCEPT ![Head(stops)] = "stopped"]
      BY <2>1, <1>t DEF StopBegin, NativeTypes
    <3>2. \A t \in Session : phase'[t] = "on" => phase[t] = "on"
      BY <3>1, <1>t DEF NativeTypes
    <3>3. \A t \in Session : t \in Live' => t \in Live
      BY <3>1, <1>t DEF NativeTypes, Live
    <3>4. QED BY <3>1, <3>2, <3>3 DEF SourceInv, Live
  <2>2. CASE StopEnd
    BY <2>2, StopEndSource
  <2>3. CASE \/ \E visible \in BOOLEAN : Snapshot(visible)
             \/ SnapshotData \/ Tick
             \/ \E s \in Session : EncoderTask(s)
    BY <2>3, <1>s DEF Snapshot, SnapshotData, Tick, EncoderTask
  <2>4. QED BY <1>6, <2>1, <2>2, <2>3 DEF Native
<1>7. CASE \E s \in Session : LoopTick(s) \/ \E drawn \in BOOLEAN : LoopDrawn(s, drawn)
  BY <1>7, <1>s DEF LoopTick, LoopDrawn, sVars
<1>8. CASE UNCHANGED vars
  BY <1>8, <1>s DEF vars, sVars
<1>9. QED BY <1>1, <1>2, <1>3, <1>4, <1>5, <1>6, <1>7, <1>8 DEF Next

LEMMA SourceGives == StructInv /\ SourceInv => KeepsItsSource
<1> SUFFICES ASSUME StructInv, SourceInv, NEW s \in Session, phase[s] = "on"
             PROVE  listener = capOf[s] /\ s \in capt[listener].raw \cup capt[listener].data
  BY DEF KeepsItsSource
<1>1. listener = capOf[s] /\ capOf[s] \in Session
  BY DEF SourceInv, StructInv, KnownInv, Begun, TypeInv, NativeTypes
<1>2. QED BY <1>1 DEF StructInv, CallbackInv

\* For a client that starts nothing while a recording is being torn down, as
\* many sessions and stops as there may be: a stop, a start or a destructor of
\* another recording never takes the window's listener from one that records
\* (StartCaptureCounted, StopCaptureCounted, ~HeadlessWindowCapturer).
THEOREM SourceTheorem ==
  ASSUME ~Hasty
  PROVE  Spec => []KeepsItsSource
<1>1. Init => StructInv /\ SourceInv
  BY InitStruct, InitSource
<1>2. StructInv /\ SourceInv /\ [Next]_vars => StructInv' /\ SourceInv'
  BY StructStep, SourceStep
<1>3. StructInv /\ SourceInv => KeepsItsSource
  BY SourceGives
<1>4. QED BY <1>1, <1>2, <1>3, PTL DEF Spec

-----------------------------------------------------------------------------
(* A client that runs one screencast at a time is never waited for in      *)
(* vain.                                                                   *)

Queued(s) == \E i \in 1..Len(mainQ) : mainQ[i] = Runnable("frame", s)

\* What a session has before it starts, and what only a snapshot loop has.
ClientInv ==
  \A s \in Session :
    /\ phase[s] = "none" => flying[s] = 0 /\ unacked[s] = 0
    /\ s \in isVideo => unacked[s] = 0
    /\ phase[s] # "script" => loop[s].tick = "none" /\ ~loop[s].inFlight
    /\ loop[s].tick = "drawing" => ~loop[s].inFlight
FrameInv ==
  \A i \in 1..Len(mainQ) : mainQ[i].kind = "frame" =>
    mainQ[i].session \notin isVideo /\ phase[mainQ[i].session] # "none"

\* What records, or loops, is the current screencast, a video, or being stopped.
SoleInv ==
  \A s \in Session :
    /\ phase[s] = "script" /\ ~loop[s].stopped => cast = s
    /\ Recorded(s) /\ s \notin isVideo => cast = s

WaitInv ==
  \A s \in Session :
    /\ phase[s] = "on" /\ flying[s] = 1 /\ s = cast => unacked[s] > 0 \/ Queued(s)
    /\ loop[s].inFlight /\ ~loop[s].stopped => unacked[s] > 0

StallInv == ClientInv /\ FrameInv /\ SoleInv /\ WaitInv

LEMMA FrameRunnables ==
  \A s \in Session : /\ Runnable("frame", s) \in Runnables
                     /\ Runnable("frame", s).kind = "frame"
                     /\ Runnable("frame", s).session = s
BY DEF Runnable, Runnables

LEMMA FrameIs ==
  \A r \in Runnables : /\ r.session \in Session
                       /\ r.kind = "frame" => r = Runnable("frame", r.session)
BY DEF Runnable, Runnables

\* A queue that loses no frame and gets no new one.
QueueKeeps ==
  /\ \A i \in 1..Len(mainQ') : mainQ'[i].kind = "frame" =>
       \E j \in 1..Len(mainQ) : mainQ[j] = mainQ'[i]
  /\ \A s \in Session : Queued(s) => Queued(s)'

LEMMA SameClient ==
  ASSUME StallInv, StructInv, StructInv',
         UNCHANGED <<isVideo, flying, headless, cast, loop, unacked>>,
         \A s \in Session : /\ phase'[s] = "none" <=> phase[s] = "none"
                            /\ phase'[s] = "script" <=> phase[s] = "script"
                            /\ phase'[s] = "on" => phase[s] = "on",
         \A s \in Session : Recorded(s)' => Recorded(s),
         QueueKeeps
  PROVE  StallInv'
<1> USE DEF StallInv
<1>1. ClientInv'
  BY DEF ClientInv
<1>2. FrameInv'
  <2>1. \A j \in 1..Len(mainQ) : mainQ[j].session \in Session
    BY FrameIs DEF StructInv, TypeInv, QueueTypes
  <2>2. ASSUME NEW i \in 1..Len(mainQ'), mainQ'[i].kind = "frame"
        PROVE  mainQ'[i].session \notin isVideo /\ phase'[mainQ'[i].session] # "none"
    <3>1. PICK j \in 1..Len(mainQ) : mainQ[j] = mainQ'[i]
      BY <2>2 DEF QueueKeeps
    <3>2. mainQ[j].kind = "frame" /\ mainQ[j].session \in Session
      BY <2>1, <2>2, <3>1
    <3>3. mainQ[j].session \notin isVideo /\ phase[mainQ[j].session] # "none"
      BY <3>2 DEF FrameInv
    <3>4. QED BY <3>1, <3>2, <3>3
  <2>3. QED BY <2>2 DEF FrameInv
<1>3. SoleInv'
  BY DEF SoleInv
<1>4. WaitInv'
  BY DEF WaitInv, QueueKeeps
<1>5. QED BY <1>1, <1>2, <1>3, <1>4

LEMMA KeptQueue ==
  ASSUME StructInv, UNCHANGED mainQ
  PROVE  QueueKeeps
BY DEF QueueKeeps, Queued

LEMMA AppendedQueue ==
  ASSUME StructInv, NEW r \in Runnables, r.kind # "frame", mainQ' = Append(mainQ, r)
  PROVE  QueueKeeps
<1>1. mainQ \in Seq(Runnables)
  BY DEF StructInv, TypeInv, QueueTypes
<1>2. /\ Len(mainQ') = Len(mainQ) + 1 /\ Len(mainQ) \in Nat
      /\ \A i \in 1..Len(mainQ) : mainQ'[i] = mainQ[i]
      /\ mainQ'[Len(mainQ) + 1] = r
  BY <1>1, AppendProperties
<1>3. \A i \in 1..(Len(mainQ) + 1) : i \in 1..Len(mainQ) \/ i = Len(mainQ) + 1
  BY <1>2
<1>4. \A i \in 1..Len(mainQ) : i \in 1..Len(mainQ')
  BY <1>2
<1>5. QED BY <1>2, <1>3, <1>4 DEF QueueKeeps, Queued

\* Frames that are queued later keep what is queued.
LEMMA LongerQueue ==
  ASSUME StructInv, NEW S \in Seq(Runnables), mainQ' = mainQ \o S
  PROVE  /\ \A s \in Session : Queued(s) => Queued(s)'
         /\ \A s \in Session, i \in 1..Len(S) : S[i] = Runnable("frame", s) => Queued(s)'
         /\ \A i \in 1..Len(mainQ') : \/ \E j \in 1..Len(mainQ) : mainQ'[i] = mainQ[j]
                                      \/ \E j \in 1..Len(S) : mainQ'[i] = S[j]
<1>1. mainQ \in Seq(Runnables)
  BY DEF StructInv, TypeInv, QueueTypes
<1>2. /\ Len(mainQ') = Len(mainQ) + Len(S) /\ Len(mainQ) \in Nat /\ Len(S) \in Nat
      /\ \A i \in 1..(Len(mainQ) + Len(S)) :
           mainQ'[i] = IF i <= Len(mainQ) THEN mainQ[i] ELSE S[i - Len(mainQ)]
  BY <1>1, ConcatProperties
<1>3. \A i \in 1..Len(mainQ) : i \in 1..Len(mainQ') /\ mainQ'[i] = mainQ[i]
  BY <1>2
<1>4. ASSUME NEW i \in 1..Len(S)
      PROVE  Len(mainQ) + i \in 1..Len(mainQ') /\ mainQ'[Len(mainQ) + i] = S[i]
  <2>1. /\ Len(mainQ) + i \in 1..(Len(mainQ) + Len(S)) /\ ~(Len(mainQ) + i <= Len(mainQ))
        /\ (Len(mainQ) + i) - Len(mainQ) = i
    BY <1>2
  <2>2. QED BY <2>1, <1>2
<1>5. ASSUME NEW i \in 1..Len(mainQ')
      PROVE  \/ \E j \in 1..Len(mainQ) : mainQ'[i] = mainQ[j]
             \/ \E j \in 1..Len(S) : mainQ'[i] = S[j]
  <2>1. \/ i \in 1..Len(mainQ) /\ mainQ'[i] = mainQ[i]
        \/ i - Len(mainQ) \in 1..Len(S) /\ mainQ'[i] = S[i - Len(mainQ)]
    BY <1>2
  <2>2. QED BY <2>1
<1>6. ASSUME NEW s \in Session, Queued(s) PROVE Queued(s)'
  BY <1>3, <1>6 DEF Queued
<1>7. ASSUME NEW s \in Session, NEW i \in 1..Len(S), S[i] = Runnable("frame", s) PROVE Queued(s)'
  BY <1>4, <1>7 DEF Queued
<1>8. QED BY <1>5, <1>6, <1>7

LEMMA ShorterQueue ==
  ASSUME StructInv, mainQ # <<>>, mainQ' = Tail(mainQ)
  PROVE  /\ \A s \in Session : Queued(s) => Queued(s)' \/ Head(mainQ) = Runnable("frame", s)
         /\ \A i \in 1..Len(mainQ') : \E j \in 1..Len(mainQ) : mainQ[j] = mainQ'[i]
<1>1. /\ Head(mainQ) = mainQ[1] /\ Len(mainQ') = Len(mainQ) - 1 /\ Len(mainQ) \in Nat \ {0}
      /\ \A i \in 1..Len(mainQ') : mainQ'[i] = mainQ[i + 1]
  BY QueueTail DEF StructInv, TypeInv, ReportInv
<1>2. \A i \in 1..Len(mainQ') : i + 1 \in 1..Len(mainQ)
  BY <1>1
<1>3. ASSUME NEW s \in Session, NEW i \in 1..Len(mainQ), mainQ[i] = Runnable("frame", s)
      PROVE  Queued(s)' \/ Head(mainQ) = Runnable("frame", s)
  <2>1. CASE i = 1
    BY <1>1, <1>3, <2>1
  <2>2. CASE i # 1
    <3>1. i - 1 \in 1..Len(mainQ') /\ (i - 1) + 1 = i
      BY <1>1, <2>2
    <3>2. mainQ'[i - 1] = Runnable("frame", s)
      BY <3>1, <1>1, <1>3
    <3>3. QED BY <3>1, <3>2 DEF Queued
  <2>3. QED BY <2>1, <2>2
<1>4. QED BY <1>1, <1>2, <1>3 DEF Queued

\* One step of the invariant: an action with what the other invariants say
\* before and after it.
Stalls == StallInv /\ StructInv /\ StructInv'

LEMMA InitStall == Init => StallInv
BY DEF Init, SInit, StallInv, ClientInv, FrameInv, SoleInv, WaitInv, Recorded, NoLoop

LEMMA StartNativeStall ==
  ASSUME Stalls, NEW video \in BOOLEAN, StartNative(video), headless, stops = <<>>,
         video \/ cast = None
  PROVE  StallInv'
<1> USE DEF Stalls, StallInv
<1>t. NativeTypes /\ PageTypes /\ QueueTypes
  BY DEF StructInv, TypeInv
<1>1. PICK s \in Session :
        /\ StartVideoRecording(s, video)
        /\ IF video THEN tape' = s /\ UNCHANGED cast ELSE cast' = s /\ UNCHANGED tape
        /\ UNCHANGED <<headless, disposed, loop, unacked, notified>>
  BY DEF StartNative
<1>2. /\ Fresh(s) /\ phase' = [phase EXCEPT ![s] = "on"]
      /\ isVideo' = (IF video THEN isVideo \cup {s} ELSE isVideo)
      /\ UNCHANGED <<flying, mainQ, stops>>
  BY <1>1 DEF StartVideoRecording
<1>3. /\ phase[s] = "none" /\ phase'[s] = "on" /\ s \notin isVideo
      /\ \A t \in Session : t # s => phase'[t] = phase[t] /\ (t \in isVideo' <=> t \in isVideo)
  BY <1>2, <1>t DEF Fresh, NativeTypes, StructInv, KnownInv, Begun
<1>4. flying[s] = 0 /\ unacked[s] = 0 /\ loop[s].tick = "none" /\ ~loop[s].inFlight
  BY <1>3 DEF ClientInv
<1>5. ClientInv'
  BY <1>1, <1>2, <1>3, <1>4 DEF ClientInv
<1>6. FrameInv'
  <2>1. \A i \in 1..Len(mainQ) : mainQ[i].session \in Session
    BY <1>t, FrameIs DEF QueueTypes
  <2>2. QED BY <2>1, <1>2, <1>3 DEF FrameInv
<1>7. SoleInv'
  <2>1. \A t \in Session : t # s => (Recorded(t)' => Recorded(t))
    BY <1>2, <1>3 DEF Recorded
  <2>2. \A t \in Session : t # s => (Recorded(t) /\ t \notin isVideo => cast = t)
    BY DEF SoleInv
  <2>3. s \notin isVideo' => cast' = s
    BY <1>1, <1>2
  <2>4. ~video => \A t \in Session : t # s => ~(Recorded(t) /\ t \notin isVideo)
    BY <2>2, Sessions
  <2>5. \A t \in Session : t # s => (Recorded(t)' /\ t \notin isVideo' => cast' = t)
    BY <2>1, <2>2, <2>4, <1>1, <1>3
  <2>6. \A t \in Session : phase'[t] # "script"
    BY <1>3 DEF StructInv, KnownInv
  <2>7. QED BY <2>3, <2>5, <2>6 DEF SoleInv
<1>8. WaitInv'
  BY <1>1, <1>2, <1>3, <1>4 DEF WaitInv, Queued
<1>9. QED BY <1>5, <1>6, <1>7, <1>8

LEMMA StartSnapshotStall ==
  ASSUME Stalls, StartSnapshotScreencast, ~headless, stops = <<>>, cast = None
  PROVE  StallInv'
<1> USE DEF Stalls, StallInv
<1>t. NativeTypes /\ PageTypes /\ QueueTypes
  BY DEF StructInv, TypeInv
<1>1. PICK s \in Session :
        /\ Fresh(s) /\ phase' = [phase EXCEPT ![s] = "script"]
        /\ loop' = [loop EXCEPT ![s].tick = "timer"] /\ cast' = s
        /\ UNCHANGED <<isVideo, flying, mainQ, stops>>
        /\ UNCHANGED <<headless, unacked>>
  BY DEF StartSnapshotScreencast
<1>3. /\ phase[s] = "none" /\ phase'[s] = "script" /\ s \notin isVideo
      /\ \A t \in Session : t # s => phase'[t] = phase[t]
  BY <1>1, <1>t DEF Fresh, NativeTypes, StructInv, KnownInv, Begun
<1>4. flying[s] = 0 /\ unacked[s] = 0 /\ loop[s].tick = "none" /\ ~loop[s].inFlight
  BY <1>3 DEF ClientInv
<1>5. /\ loop'[s].tick = "timer" /\ ~loop'[s].inFlight
      /\ \A t \in Session : t # s => loop'[t] = loop[t]
  BY <1>1, <1>4, <1>t DEF PageTypes, Loops
<1>6. ClientInv'
  BY <1>1, <1>3, <1>4, <1>5 DEF ClientInv
<1>7. FrameInv'
  <2>1. \A i \in 1..Len(mainQ) : mainQ[i].session \in Session
    BY <1>t, FrameIs DEF QueueTypes
  <2>2. QED BY <2>1, <1>1, <1>3 DEF FrameInv
<1>8. SoleInv'
  <2>1. \A t \in Session : cast # t
    BY Sessions
  <2>2. \A t \in Session : t # s => (Recorded(t)' => Recorded(t))
    BY <1>1, <1>3 DEF Recorded
  <2>3. QED BY <2>1, <2>2, <1>1, <1>3, <1>5 DEF SoleInv, Recorded
<1>9. WaitInv'
  BY <1>1, <1>3, <1>5 DEF WaitInv, Queued
<1>10. QED BY <1>6, <1>7, <1>8, <1>9

LEMMA PageStopsStall ==
  ASSUME Stalls, StopScreencast \/ StopVideo \/ Dispose
  PROVE  StallInv'
<1> USE DEF Stalls, StallInv
<1>t. NativeTypes /\ PageTypes /\ QueueTypes
  BY DEF StructInv, TypeInv
<1>0. stops = <<>> /\ None \notin Session /\ (cast # None => cast \in Session)
  BY <1>t, Sessions DEF StopScreencast, StopVideo, Dispose, Idle, PageTypes
<1>1. UNCHANGED <<phase, isVideo, flying, mainQ, headless, unacked>>
  BY DEF StopScreencast, StopVideo, Dispose
<1>2. \/ loop' = loop
      \/ cast # None /\ ~headless /\ loop' = StopLoop(cast)
  BY DEF StopScreencast, StopVideo, Dispose
<1>3. \A s \in Session :
        /\ loop'[s].inFlight = loop[s].inFlight
        /\ loop'[s].tick \in {loop[s].tick, "none"}
        /\ ~loop'[s].stopped => ~loop[s].stopped
  <2>1. CASE loop' = loop
    BY <2>1
  <2>2. CASE cast # None /\ loop' = StopLoop(cast)
    <3>1. loop' = [loop EXCEPT ![cast] = [@ EXCEPT !.stopped = TRUE,
                       !.tick = IF loop[cast].tick = "timer" THEN "none" ELSE loop[cast].tick]]
      BY <2>2 DEF StopLoop
    <3>2. QED BY <3>1, <2>2, <1>0, <1>t DEF PageTypes, Loops
  <2>3. QED BY <2>1, <2>2, <1>2
<1>4. ClientInv'
  BY <1>1, <1>3 DEF ClientInv
<1>5. FrameInv'
  BY <1>1 DEF FrameInv
<1>6. cast' # cast => cast' = None
  BY DEF StopScreencast, StopVideo, Dispose
<1>7. WaitInv'
  BY <1>1, <1>3, <1>6, Sessions DEF WaitInv, Queued
<1>8. \A s \in Session : phase[s] = "on" /\ s \notin isVideo => cast = s
  BY <1>0 DEF SoleInv, Recorded
<1>9. ASSUME NEW s \in Session, phase[s] = "script", ~loop'[s].stopped PROVE cast' = s
  <2>1. cast = s /\ ~headless
    BY <1>9, <1>3 DEF SoleInv, StructInv, KnownInv
  <2>2. cast' = cast
    <3>1. ASSUME StopScreencast \/ Dispose PROVE FALSE
      <4>1. loop' = StopLoop(cast) /\ cast # None
        BY <3>1, <2>1, <1>0 DEF StopScreencast, Dispose
      <4>2. loop'[s].stopped = TRUE
        BY <4>1, <2>1, <1>t, StopLoopType DEF PageTypes
      <4>3. QED BY <4>2, <1>9
    <3>2. QED BY <3>1 DEF StopVideo
  <2>3. QED BY <2>1, <2>2
<1>10. ASSUME NEW s \in Session, Recorded(s)', s \notin isVideo PROVE cast' = s
  <2>1. phase[s] = "on" /\ cast = s
    BY <1>1, <1>8, <1>10 DEF Recorded
  <2>2. headless
    BY <2>1 DEF StructInv, KnownInv
  <2>3. CASE StopVideo
    BY <2>3, <2>1 DEF StopVideo
  <2>4. CASE StopScreencast
    <3>1. stops' = <<s>>
      BY <2>1, <2>2, <2>4 DEF StopScreencast
    <3>2. Len(stops') = 1 /\ stops'[1] = s
      BY <3>1
    <3>3. QED BY <3>2, <1>10 DEF Recorded
  <2>5. CASE Dispose
    <3>1. stops' = (IF tape = None THEN <<>> ELSE <<tape>>) \o <<s>>
      BY <2>1, <2>2, <2>5, <1>0 DEF Dispose
    <3>2. \E i \in 1..Len(stops') : stops'[i] = s
      <4>1. CASE tape = None
        <5>1. <<s>> \in Seq(Session)
          OBVIOUS
        <5>2. stops' = <<s>>
          BY <3>1, <4>1, <5>1, ConcatEmptySeq
        <5>3. QED BY <5>2
      <4>2. CASE tape # None
        <5>1. tape \in Session
          BY <4>2, <1>t DEF PageTypes
        <5>2. stops' = <<tape>> \o <<s>>
          BY <3>1, <4>2
        <5>a. <<tape>> \in Seq(Session)
          BY <5>1
        <5>b. <<s>> \in Seq(Session)
          OBVIOUS
        <5>3. PICK A, B \in Seq(Session) : A = <<tape>> /\ B = <<s>>
          BY <5>a, <5>b
        <5>4. Len(A) = 1 /\ Len(B) = 1 /\ B[1] = s
          BY <5>3
        <5>5. stops' = A \o B
          BY <5>2, <5>3
        <5>6. Len(stops') = Len(A) + Len(B) /\ stops'[Len(A) + 1] = B[(Len(A) + 1) - Len(A)]
          BY <5>4, <5>5, ConcatProperties
        <5>7. Len(stops') = 2 /\ stops'[2] = s
          BY <5>4, <5>6
        <5>8. QED BY <5>7
      <4>3. QED BY <4>1, <4>2
    <3>3. QED BY <3>2, <1>10 DEF Recorded
  <2>6. QED BY <2>3, <2>4, <2>5
<1>11. SoleInv'
  BY <1>1, <1>9, <1>10 DEF SoleInv
<1>12. QED BY <1>4, <1>5, <1>7, <1>11

LEMMA AckStall ==
  ASSUME Stalls, NEW s \in Session, NEW id \in {None, s}, Ack(s, id)
  PROVE  StallInv'
<1> USE DEF Stalls, StallInv
<1>t. NativeTypes /\ PageTypes /\ QueueTypes
  BY DEF StructInv, TypeInv
<1>1. /\ stops = <<>> /\ unacked[s] > 0 /\ unacked' = [unacked EXCEPT ![s] = @ - 1]
      /\ IF cast = None \/ id \notin {None, cast}
         THEN UNCHANGED <<flying, loop>>
         ELSE IF headless
         THEN FrameAck(cast) /\ UNCHANGED loop
         ELSE loop' = [loop EXCEPT ![cast].inFlight = FALSE] /\ UNCHANGED flying
      /\ UNCHANGED <<phase, isVideo, mainQ, stops>>
      /\ UNCHANGED <<headless, cast>>
  BY DEF Ack, Idle
<1>2. /\ unacked'[s] = unacked[s] - 1
      /\ \A t \in Session : t # s => unacked'[t] = unacked[t]
  BY <1>1, <1>t DEF PageTypes
<1>3. \A t \in Session : /\ flying'[t] = flying[t] \/ flying'[t] = 0
                         /\ t = cast /\ headless /\ id \in {None, cast} => flying'[t] = 0
  <2>1. \A t \in Session : flying[t] \in 0..1
    BY <1>t DEF NativeTypes
  <2>2. QED BY <2>1, <1>1, <1>t, Sessions DEF FrameAck, NativeTypes
<1>4. \A t \in Session :
        /\ loop'[t].tick = loop[t].tick /\ loop'[t].stopped = loop[t].stopped
        /\ loop'[t].inFlight => loop[t].inFlight
        /\ t = cast /\ ~headless /\ id \in {None, cast} => ~loop'[t].inFlight
  <2>1. CASE cast = None \/ id \notin {None, cast} \/ headless
    <3>1. loop' = loop
      BY <2>1, <1>1
    <3>2. QED BY <2>1, <3>1, Sessions
  <2>2. CASE ~(cast = None \/ id \notin {None, cast} \/ headless)
    <3>1. loop' = [loop EXCEPT ![cast].inFlight = FALSE] /\ cast \in Session
      BY <2>2, <1>1, <1>t DEF PageTypes
    <3>2. QED BY <3>1, <1>t DEF PageTypes, Loops
  <2>3. QED BY <2>1, <2>2
<1>5. ClientInv'
  BY <1>1, <1>2, <1>3, <1>4, <1>t DEF ClientInv, PageTypes
<1>6. FrameInv'
  BY <1>1 DEF FrameInv
<1>7. SoleInv'
  BY <1>1, <1>4 DEF SoleInv, Recorded
<1>8. WaitInv'
  <2>1. ASSUME NEW t \in Session, phase[t] = "on", flying'[t] = 1, t = cast
        PROVE  unacked'[t] > 0 \/ Queued(t)'
    <3>1. headless /\ flying[t] = 1 /\ id \notin {None, cast}
      BY <2>1, <1>3 DEF StructInv, KnownInv
    <3>2. t # s
      BY <3>1, <2>1
    <3>3. unacked[t] > 0 \/ Queued(t)
      BY <2>1, <3>1 DEF WaitInv
    <3>4. QED BY <3>2, <3>3, <1>1, <1>2 DEF Queued
  <2>2. ASSUME NEW t \in Session, loop'[t].inFlight, ~loop'[t].stopped
        PROVE  unacked'[t] > 0
    <3>1. loop[t].inFlight /\ ~loop[t].stopped
      BY <2>2, <1>4
    <3>2. phase[t] = "script"
      BY <3>1 DEF ClientInv
    <3>3. cast = t /\ ~headless
      BY <3>1, <3>2 DEF SoleInv, StructInv, KnownInv
    <3>4. id \notin {None, cast} /\ t # s
      BY <3>3, <2>2, <1>4
    <3>5. QED BY <3>1, <3>4, <1>2 DEF WaitInv
  <2>3. QED BY <2>1, <2>2, <1>1 DEF WaitInv
<1>9. QED BY <1>5, <1>6, <1>7, <1>8

LEMMA LoopStall ==
  ASSUME Stalls, NEW s \in Session, LoopTick(s) \/ \E drawn \in BOOLEAN : LoopDrawn(s, drawn)
  PROVE  StallInv'
<1> USE DEF Stalls, StallInv
<1>t. NativeTypes /\ PageTypes /\ QueueTypes
  BY DEF StructInv, TypeInv
<1>1. UNCHANGED <<phase, isVideo, flying, mainQ, stops, headless, cast>>
  BY DEF LoopTick, LoopDrawn, sVars
<1>2. phase[s] = "script"
  BY DEF LoopTick, LoopDrawn, ClientInv
<1>3. s \notin isVideo
  BY <1>2 DEF StructInv, KnownInv, Begun
<1>4. /\ \A t \in Session : t # s => loop'[t] = loop[t] /\ unacked'[t] = unacked[t]
      /\ loop'[s].stopped = loop[s].stopped
      /\ loop'[s].tick = "drawing" => ~loop'[s].inFlight
      /\ unacked'[s] >= unacked[s]
      /\ loop'[s].inFlight => loop[s].inFlight \/ unacked'[s] > 0
  <2>1. CASE LoopTick(s)
    BY <2>1, <1>t DEF LoopTick, PageTypes, Loops
  <2>2. CASE \E drawn \in BOOLEAN : LoopDrawn(s, drawn)
    <3>1. PICK emit \in BOOLEAN :
            /\ loop' = [loop EXCEPT ![s].tick = IF loop[s].stopped THEN "none" ELSE "timer",
                                    ![s].inFlight = @ \/ emit]
            /\ unacked' = IF emit THEN [unacked EXCEPT ![s] = @ + 1] ELSE unacked
      BY <2>2, <1>t DEF LoopDrawn, PageTypes, Loops
    <3>2. loop[s] \in Loops
      BY <1>t DEF PageTypes
    <3> DEFINE k == [loop[s] EXCEPT !.tick = IF loop[s].stopped THEN "none" ELSE "timer",
                                    !.inFlight = @ \/ emit]
    <3>3. /\ k.stopped = loop[s].stopped /\ k.tick # "drawing"
          /\ k.inFlight <=> loop[s].inFlight \/ emit
      BY <3>2 DEF Loops
    <3>4. loop' = [loop EXCEPT ![s] = k]
      BY <3>1
    <3> HIDE DEF k
    <3>5. loop'[s] = k /\ \A t \in Session : t # s => loop'[t] = loop[t]
      BY <3>4, <1>t DEF PageTypes
    <3>6. /\ \A t \in Session : t # s => unacked'[t] = unacked[t]
          /\ unacked'[s] >= unacked[s] /\ (emit => unacked'[s] > 0)
      BY <3>1, <1>t DEF PageTypes
    <3>7. QED BY <3>3, <3>5, <3>6
  <2>3. QED BY <2>1, <2>2
<1>5. ClientInv'
  BY <1>1, <1>2, <1>3, <1>4 DEF ClientInv
<1>6. FrameInv'
  BY <1>1 DEF FrameInv
<1>7. SoleInv'
  BY <1>1, <1>4 DEF SoleInv, Recorded
<1>8. WaitInv'
  <2>1. unacked'[s] \in Nat /\ unacked[s] \in Nat
    BY <1>t DEF PageTypes, StructInv, TypeInv
  <2>2. QED BY <2>1, <1>1, <1>2, <1>4 DEF WaitInv, Queued
<1>9. QED BY <1>5, <1>6, <1>7, <1>8

LEMMA SnapshotStall ==
  ASSUME Stalls, NEW visible \in BOOLEAN, Snapshot(visible), UNCHANGED pVars
  PROVE  StallInv'
<1> USE DEF Stalls, StallInv
<1>t. NativeTypes /\ PageTypes /\ QueueTypes
  BY DEF StructInv, TypeInv
<1>1. PICK out \in SUBSET Session :
        /\ \A s \in out : flying[s] = 0 /\ \E c \in Session : s \in capt[c].raw
        /\ flying' = [s \in Session |-> IF s \in out THEN flying[s] + 1 ELSE flying[s]]
        /\ mainQ' = mainQ \o FramesOf(out)
  <2>1. listener \in Session
    BY <1>t DEF Snapshot, NativeTypes
  <2>2. Wanting(listener, visible) \in SUBSET Session
    BY <2>1, <1>t DEF Wanting, NativeTypes, Captures
  <2>3. \A s \in Wanting(listener, visible) : flying[s] < 1 /\ s \in capt[listener].raw
    BY DEF Wanting, kMaxFramesInFlight
  <2>4. \A s \in Session : flying[s] < 1 => flying[s] = 0
    BY <1>t DEF NativeTypes
  <2>5. /\ flying' = [s \in Session |-> IF s \in Wanting(listener, visible)
                                         THEN flying[s] + 1 ELSE flying[s]]
        /\ mainQ' = mainQ \o FramesOf(Wanting(listener, visible))
    BY DEF Snapshot, FramesOf
  <2>6. QED BY <2>1, <2>2, <2>3, <2>4, <2>5
<1>2. UNCHANGED <<phase, isVideo, stops, headless, cast, loop, unacked>>
  BY DEF Snapshot, pVars
<1>3. \A s \in out : phase[s] = "on" /\ s \notin isVideo
  BY <1>1 DEF StructInv, CallbackInv
<1>4. /\ FramesOf(out) \in Seq(Runnables) /\ Len(FramesOf(out)) = Cardinality(out)
      /\ \A i \in 1..Cardinality(out) : FramesOf(out)[i].session \in out
      /\ \A s \in out : \E i \in 1..Cardinality(out) : FramesOf(out)[i] = Runnable("frame", s)
  BY FramesListed
<1>5. PICK S \in Seq(Runnables) :
        /\ mainQ' = mainQ \o S
        /\ \A i \in 1..Len(S) : S[i].session \in out
        /\ \A s \in out : \E i \in 1..Len(S) : S[i] = Runnable("frame", s)
  BY <1>1, <1>4
<1>6. /\ \A s \in Session : Queued(s) => Queued(s)'
      /\ \A s \in out : Queued(s)'
      /\ \A i \in 1..Len(mainQ') : \/ \E j \in 1..Len(mainQ) : mainQ'[i] = mainQ[j]
                                   \/ \E j \in 1..Len(S) : mainQ'[i] = S[j]
  BY <1>5, LongerQueue
<1>7. ClientInv'
  BY <1>1, <1>2, <1>3 DEF ClientInv
<1>8. FrameInv'
  <2>1. ASSUME NEW i \in 1..Len(mainQ'), mainQ'[i].kind = "frame"
        PROVE  mainQ'[i].session \notin isVideo /\ phase[mainQ'[i].session] # "none"
    <3>1. CASE \E j \in 1..Len(mainQ) : mainQ'[i] = mainQ[j]
      BY <3>1, <2>1 DEF FrameInv
    <3>2. CASE \E j \in 1..Len(S) : mainQ'[i] = S[j]
      BY <3>2, <1>3, <1>5
    <3>3. QED BY <3>1, <3>2, <1>6
  <2>2. QED BY <2>1, <1>2 DEF FrameInv
<1>9. SoleInv'
  BY <1>2 DEF SoleInv, Recorded
<1>10. WaitInv'
  <2>1. ASSUME NEW s \in Session, phase[s] = "on", flying'[s] = 1, s = cast
        PROVE  unacked[s] > 0 \/ Queued(s)'
    <3>1. CASE s \in out
      BY <3>1, <1>6
    <3>2. CASE s \notin out
      BY <3>2, <2>1, <1>1, <1>6 DEF WaitInv
    <3>3. QED BY <3>1, <3>2
  <2>2. QED BY <2>1, <1>2 DEF WaitInv
<1>11. QED BY <1>7, <1>8, <1>9, <1>10

\* The page runs what the main thread dispatched only between two stops, so a
\* frame of the current screencast is delivered.
LEMMA RunMainStall ==
  ASSUME Stalls, RunMain
  PROVE  StallInv'
<1> USE DEF Stalls, StallInv
<1>t. NativeTypes /\ PageTypes /\ QueueTypes
  BY DEF StructInv, TypeInv
<1>0. /\ mainQ # <<>> /\ stops = <<>>
      /\ UNCHANGED <<isVideo, flying, stops, headless, cast, loop>>
  BY DEF RunMain, Idle
<1>q. /\ Head(mainQ) \in Runnables /\ Head(mainQ) = mainQ[1] /\ 1 \in 1..Len(mainQ)
      /\ Tail(mainQ) \in Seq(Runnables)
  BY <1>0, <1>t, QueueTail DEF StructInv, ReportInv
<1>1. PICK r \in Runnables, M \in Seq(Runnables) :
        /\ r = Head(mainQ) /\ r.session \in Session
        /\ Release(phase, known, M, enc, listener)
        /\ \/ /\ r.kind = "frame" /\ M = Tail(mainQ)
              /\ unacked' = IF phase[r.session] = "on" /\ cast # None
                            THEN [unacked EXCEPT ![r.session] = @ + 1] ELSE unacked
           \/ r.kind # "frame" /\ M = Tail(mainQ) /\ unacked' = unacked
           \/ r.kind # "frame" /\ M = Append(Tail(mainQ), Runnable("stopped", r.session))
              /\ unacked' = unacked
  <2>1. PICK r \in Runnables : r = Head(mainQ) /\ r.session \in Session
    BY <1>q, FrameIs
  <2>2. CASE r.kind = "frame" /\ FrameRunnable(r.session)
    BY <2>1, <2>2, <1>q DEF FrameRunnable
  <2>3. CASE r.kind = "finished" /\ FinishedRunnable(r.session)
    <3>1. Runnable("stopped", r.session) \in Runnables
      BY <2>1 DEF Runnable, Runnables
    <3>2. Append(Tail(mainQ), Runnable("stopped", r.session)) \in Seq(Runnables)
      BY <3>1, <1>q, AppendProperties
    <3>3. QED BY <2>1, <2>3, <3>2 DEF FinishedRunnable
  <2>4. CASE r.kind = "stopped" /\ StoppedRunnable(r.session)
    BY <2>1, <2>4, <1>q DEF StoppedRunnable
  <2>5. QED BY <2>1, <2>2, <2>3, <2>4 DEF RunMain
<1>2. /\ mainQ' = M
      /\ \A s \in Session : \/ phase'[s] = phase[s]
                            \/ phase[s] = "stopped" /\ phase'[s] = "gone"
  BY <1>1, <1>t, Released DEF Fate, NativeTypes
<1>3. /\ \A i \in 1..Len(M) : M[i].kind = "frame" => \E j \in 1..Len(mainQ) : mainQ[j] = M[i]
      /\ \A s \in Session : Queued(s) => Queued(s)' \/ r = Runnable("frame", s)
  <2> DEFINE q == Tail(mainQ)
  <2>1. /\ Len(q) = Len(mainQ) - 1 /\ Len(mainQ) \in Nat \ {0}
        /\ \A i \in 1..Len(q) : q[i] = mainQ[i + 1]
    BY <1>0, <1>t, QueueTail DEF StructInv, ReportInv
  <2> HIDE DEF q
  <2>2. \A i \in 1..Len(q) : i + 1 \in 1..Len(mainQ)
    BY <2>1
  <2>3. /\ Len(q) <= Len(M) /\ Len(M) \in Nat
        /\ \A i \in 1..Len(q) : M[i] = q[i]
        /\ \A i \in 1..Len(M) : M[i].kind = "frame" => i \in 1..Len(q)
    <3>1. CASE M = q
      BY <3>1, <1>1
    <3>2. CASE M = Append(q, Runnable("stopped", r.session))
      <4>1. q \in Seq(Runnables) /\ Runnable("stopped", r.session) \in Runnables
            /\ Runnable("stopped", r.session).kind # "frame"
        BY <1>q, <1>1 DEF q, Runnable, Runnables
      <4>2. PICK u \in Runnables : u = Runnable("stopped", r.session) /\ u.kind # "frame"
        BY <4>1
      <4>3. M = Append(q, u)
        BY <3>2, <4>2
      <4>4. /\ Len(M) = Len(q) + 1 /\ Len(q) \in Nat /\ M[Len(q) + 1] = u
            /\ \A i \in 1..Len(q) : M[i] = q[i]
        BY <4>1, <4>3, AppendProperties
      <4>5. \A i \in 1..(Len(q) + 1) : i \in 1..Len(q) \/ i = Len(q) + 1
        BY <4>4
      <4>6. QED BY <4>2, <4>4, <4>5
    <3>3. QED BY <3>1, <3>2, <1>1 DEF q
  <2>4. \A i \in 1..Len(M) : M[i].kind = "frame" => \E j \in 1..Len(mainQ) : mainQ[j] = M[i]
    BY <2>1, <2>2, <2>3
  <2>5. ASSUME NEW s \in Session, NEW i \in 1..Len(mainQ), mainQ[i] = Runnable("frame", s)
        PROVE  Queued(s)' \/ r = Runnable("frame", s)
    <3>1. CASE i = 1
      BY <3>1, <2>5, <1>q, <1>1
    <3>2. CASE i # 1
      <4>1. i - 1 \in 1..Len(q) /\ (i - 1) + 1 = i /\ i - 1 \in 1..Len(M)
        BY <3>2, <2>1, <2>3
      <4>2. M[i - 1] = Runnable("frame", s)
        BY <4>1, <2>1, <2>3, <2>5
      <4>3. QED BY <4>1, <4>2, <1>2 DEF Queued
    <3>3. QED BY <3>1, <3>2
  <2>6. QED BY <2>4, <2>5 DEF Queued
<1>4. \A j \in 1..Len(mainQ) : mainQ[j].session \in Session
  BY <1>t, FrameIs DEF QueueTypes
<1>5. \A s \in Session : /\ phase'[s] = "none" <=> phase[s] = "none"
                         /\ phase'[s] = "script" <=> phase[s] = "script"
                         /\ phase'[s] = "on" <=> phase[s] = "on"
  BY <1>2
<1>6. /\ \A s \in Session : unacked[s] \in Nat /\ unacked'[s] \in Nat
      /\ \A s \in Session : unacked'[s] >= unacked[s]
      /\ \A s \in Session : unacked'[s] # unacked[s] => r = Runnable("frame", s)
      /\ \A s \in Session :
           r = Runnable("frame", s) /\ phase[s] = "on" /\ cast # None => unacked'[s] > 0
  <2>1. \A s \in Session : r = Runnable("frame", s) => r.kind = "frame" /\ s = r.session
    BY FrameRunnables
  <2>2. r.kind = "frame" => r = Runnable("frame", r.session)
    BY FrameIs
  <2>3. \A s \in Session : unacked[s] \in Nat
    BY <1>t DEF PageTypes
  <2>4. unacked \in [Session -> Nat]
    BY <1>t DEF PageTypes
  <2>5. CASE r.kind = "frame" /\ phase[r.session] = "on" /\ cast # None
    <3>1. unacked' = [unacked EXCEPT ![r.session] = @ + 1]
      BY <2>5, <1>1
    <3>2. unacked'[r.session] = unacked[r.session] + 1 /\ unacked'[r.session] > 0
      BY <3>1, <2>3, <2>4, <1>1
    <3>3. \A s \in Session : s # r.session => unacked'[s] = unacked[s]
      BY <3>1, <2>4
    <3>4. QED BY <2>1, <2>2, <2>3, <2>5, <3>2, <3>3
  <2>6. CASE ~(r.kind = "frame" /\ phase[r.session] = "on" /\ cast # None)
    <3>1. unacked' = unacked
      BY <2>6, <1>1
    <3>2. QED BY <3>1, <2>1, <2>3, <2>6
  <2>7. QED BY <2>5, <2>6
<1>f. \A s \in Session : r = Runnable("frame", s) => s \notin isVideo /\ phase[s] # "none"
  BY <1>1, <1>q, FrameRunnables DEF FrameInv
<1>7. ClientInv'
  <2>1. \A s \in Session : unacked'[s] # unacked[s] => s \notin isVideo /\ phase[s] # "none"
    BY <1>6, <1>f
  <2>2. QED BY <1>0, <1>5, <2>1 DEF ClientInv
<1>8. FrameInv'
  <2>1. ASSUME NEW i \in 1..Len(M), M[i].kind = "frame"
        PROVE  M[i].session \notin isVideo /\ phase'[M[i].session] # "none"
    <3>1. PICK j \in 1..Len(mainQ) : mainQ[j] = M[i]
      BY <2>1, <1>3
    <3>2. QED BY <3>1, <2>1, <1>4, <1>5 DEF FrameInv
  <2>2. QED BY <2>1, <1>0, <1>2 DEF FrameInv
<1>9. SoleInv'
  BY <1>0, <1>5 DEF SoleInv, Recorded
<1>10. WaitInv'
  <2>1. ASSUME NEW s \in Session, phase'[s] = "on", flying[s] = 1, s = cast
        PROVE  unacked'[s] > 0 \/ Queued(s)'
    <3>1. phase[s] = "on" /\ cast # None
      BY <2>1, <1>5, Sessions
    <3>2. CASE unacked[s] > 0
      BY <3>2, <1>6
    <3>3. CASE Queued(s)
      BY <3>1, <3>3, <1>3, <1>6
    <3>4. QED BY <3>1, <3>2, <3>3, <2>1 DEF WaitInv
  <2>2. ASSUME NEW s \in Session, loop[s].inFlight, ~loop[s].stopped
        PROVE  unacked'[s] > 0
    BY <2>2, <1>6 DEF WaitInv
  <2>3. QED BY <2>1, <2>2, <1>0 DEF WaitInv
<1>11. QED BY <1>7, <1>8, <1>9, <1>10

LEMMA StopBeginStall ==
  ASSUME Stalls, StopBegin, UNCHANGED pVars
  PROVE  StallInv'
<1>t. NativeTypes
  BY DEF Stalls, StructInv, TypeInv
<1>1. /\ phase[Head(stops)] = "on" /\ phase' = [phase EXCEPT ![Head(stops)] = "stopped"]
      /\ stops # <<>> /\ Head(stops) \in Session
      /\ UNCHANGED <<isVideo, flying, mainQ, stops, headless, cast, loop, unacked>>
  BY <1>t DEF StopBegin, pVars, NativeTypes
<1>2. \A s \in Session : phase'[s] = phase[s] \/ (phase[s] = "on" /\ phase'[s] = "stopped")
  BY <1>1, <1>t DEF NativeTypes
<1>3. \A s \in Session : /\ phase'[s] = "none" <=> phase[s] = "none"
                         /\ phase'[s] = "script" <=> phase[s] = "script"
                         /\ phase'[s] = "on" => phase[s] = "on"
  BY <1>2
<1>4. \A s \in Session : Recorded(s)' => Recorded(s)
  BY <1>1, <1>3 DEF Recorded
<1>5. QueueKeeps
  BY <1>1, KeptQueue DEF Stalls
<1>6. QED BY <1>1, <1>3, <1>4, <1>5, SameClient DEF Stalls

LEMMA StopEndStall ==
  ASSUME Stalls, StopEnd, UNCHANGED pVars
  PROVE  StallInv'
<1>t. NativeTypes /\ StructInv
  BY DEF Stalls, StructInv, TypeInv
<1>1. PICK s, c \in Session :
    /\ stops # <<>> /\ s = Head(stops) /\ s = stops[1] /\ c = capOf[s]
    /\ phase[s] = "stopped" /\ (capt[c].count = 1 => snap = None)
    /\ capt' = [capt EXCEPT ![c].count = @ - 1]
    /\ Release(phase, known \ {s}, mainQ, StoppedEncoders(s),
               IF capt[c].count = 1 THEN None ELSE listener)
    /\ stops' = Tail(stops)
    /\ UNCHANGED <<isVideo, capOf, flying, snap, frame, now>>
  BY <1>t, StopEndFacts
<1>2. /\ mainQ' = mainQ
      /\ \A t \in Session : \/ phase'[t] = phase[t]
                            \/ phase[t] = "stopped" /\ phase'[t] = "gone"
  BY <1>1, <1>t, Released DEF Fate, NativeTypes
<1>3. \A t \in Session : /\ phase'[t] = "none" <=> phase[t] = "none"
                         /\ phase'[t] = "script" <=> phase[t] = "script"
                         /\ phase'[t] = "on" => phase[t] = "on"
  BY <1>2
<1>4. ASSUME NEW t \in Session, Recorded(t)' PROVE Recorded(t)
  <2>1. phase[t] = "on" /\ t # s
    BY <1>1, <1>3, <1>4 DEF Recorded
  <2>2. stops \in Seq(Session)
    BY <1>t DEF NativeTypes
  <2>3. /\ Len(stops') = Len(stops) - 1 /\ Len(stops) \in Nat \ {0}
        /\ \A i \in 1..Len(stops') : stops'[i] = stops[i + 1]
    BY <2>2, <1>1, HeadTailProperties
  <2>4. ASSUME NEW i \in 1..Len(stops), i # 1 PROVE stops[i] # t
    <3>1. i - 1 \in 1..Len(stops') /\ (i - 1) + 1 = i
      BY <2>3, <2>4
    <3>2. stops'[i - 1] = stops[i]
      BY <3>1, <2>3
    <3>3. QED BY <3>1, <3>2, <1>4 DEF Recorded
  <2>5. QED BY <2>1, <2>4, <1>1 DEF Recorded
<1>5. QueueKeeps
  BY <1>2, <1>t, KeptQueue
<1>6. UNCHANGED <<isVideo, flying, headless, cast, loop, unacked>>
  BY <1>1 DEF pVars
<1>7. QED BY <1>3, <1>4, <1>5, <1>6, SameClient DEF Stalls

LEMMA EncoderStall ==
  ASSUME Stalls, UNCHANGED pVars,
         SnapshotData \/ Tick \/ \E s \in Session : EncoderTask(s)
  PROVE  StallInv'
<1>t. StructInv
  BY DEF Stalls
<1>1. UNCHANGED <<phase, isVideo, flying, stops, headless, cast, loop, unacked>>
  BY DEF SnapshotData, Tick, EncoderTask, pVars
<1>2. QueueKeeps
  <2>1. CASE SnapshotData \/ Tick
    BY <2>1, <1>t, KeptQueue DEF SnapshotData, Tick
  <2>2. CASE \E s \in Session : EncoderTask(s)
    <3>1. PICK s \in Session : EncoderTask(s)
      BY <2>2
    <3>2. mainQ' = (IF Head(enc[s].queue) = Finish
                    THEN Append(mainQ, Runnable("finished", s)) ELSE mainQ)
      BY <3>1, <1>t, EncoderTaskFacts
    <3>3. Runnable("finished", s) \in Runnables /\ Runnable("finished", s).kind # "frame"
      BY DEF Runnable, Runnables
    <3>4. PICK r \in Runnables : r = Runnable("finished", s) /\ r.kind # "frame"
      BY <3>3
    <3>5. mainQ' = mainQ \/ mainQ' = Append(mainQ, r)
      BY <3>2, <3>4
    <3>6. QED BY <3>4, <3>5, <1>t, KeptQueue, AppendedQueue
  <2>3. QED BY <2>1, <2>2
<1>3. \A s \in Session : Recorded(s)' => Recorded(s)
  BY <1>1 DEF Recorded
<1>4. QED BY <1>1, <1>2, <1>3, SameClient DEF Stalls

LEMMA StallStep ==
  ASSUME ~Overlap
  PROVE  StructInv /\ StallInv /\ [Next]_vars => StallInv'
<1> SUFFICES ASSUME StructInv, StallInv, [Next]_vars PROVE StallInv'
  OBVIOUS
<1>0. Stalls
  BY StructStep DEF Stalls
<1>1. CASE StartScreencast
  <2>1. stops = <<>> /\ cast = None
    BY <1>1 DEF StartScreencast, MayStart, Idle
  <2>2. CASE headless
    <3>1. StartNative(FALSE)
      BY <1>1, <2>2 DEF StartScreencast
    <3>2. QED BY <3>1, <2>1, <2>2, <1>0, StartNativeStall
  <2>3. CASE ~headless
    <3>1. StartSnapshotScreencast
      BY <1>1, <2>3 DEF StartScreencast
    <3>2. QED BY <3>1, <2>1, <2>3, <1>0, StartSnapshotStall
  <2>4. QED BY <2>2, <2>3
<1>2. CASE StartVideo
  <2>1. stops = <<>> /\ headless /\ StartNative(TRUE)
    BY <1>2 DEF StartVideo, MayStart, Idle
  <2>2. QED BY <2>1, <1>0, StartNativeStall
<1>3. CASE StopScreencast \/ StopVideo \/ Dispose
  BY <1>3, <1>0, PageStopsStall
<1>4. CASE \E s \in Session : Ack(s, None) \/ Ack(s, s)
  BY <1>4, <1>0, AckStall
<1>5. CASE RunMain
  BY <1>5, <1>0, RunMainStall
<1>6. CASE Native /\ UNCHANGED pVars
  BY <1>6, <1>0, StopBeginStall, StopEndStall, SnapshotStall, EncoderStall DEF Native
<1>7. CASE \E s \in Session : LoopTick(s) \/ \E drawn \in BOOLEAN : LoopDrawn(s, drawn)
  BY <1>7, <1>0, LoopStall
<1>8. CASE UNCHANGED vars
  BY <1>8 DEF StallInv, ClientInv, FrameInv, SoleInv, WaitInv, Recorded, Queued, vars, sVars, pVars
<1>9. QED BY <1>1, <1>2, <1>3, <1>4, <1>5, <1>6, <1>7, <1>8 DEF Next

LEMMA StallGives == StructInv /\ StallInv => NoStall
<1> SUFFICES ASSUME StructInv, StallInv PROVE NoStall
  OBVIOUS
<1>1. DOMAIN mainQ = 1..Len(mainQ)
  BY DEF StructInv, TypeInv, QueueTypes
<1>2. QED BY <1>1 DEF NoStall, StallInv, WaitInv, Queued

\* For a client that runs one screencast at a time: whatever it acknowledges,
\* late, without an id or not at all, a screencast that waits for an
\* acknowledgement (mFramesInFlight, snapshotState.inFlight) has a frame that
\* the client holds or will get (screencastFrameAck, ScreencastFrameAck).
THEOREM StallTheorem ==
  ASSUME ~Overlap
  PROVE  Spec => []NoStall
<1>1. Init => StructInv /\ StallInv
  BY InitStruct, InitStall
<1>2. StructInv /\ StallInv /\ [Next]_vars => StructInv' /\ StallInv'
  BY StructStep, StallStep
<1>3. StructInv /\ StallInv => NoStall
  BY StallGives
<1>4. QED BY <1>1, <1>2, <1>3, PTL DEF Spec

-----------------------------------------------------------------------------
(* What a video's encoder has received, has queued and has written.        *)

Ends(e) == e.queue # <<>> /\ e.queue[Len(e.queue)] = Finish
TicksOf(t) == IF t = Finish THEN 0 ELSE t.ticks

\* Nothing comes after the end of a video.
EndsOnce(e) ==
  /\ \A i \in 1..Len(e.queue) : e.queue[i] = Finish => i = Len(e.queue) /\ e.last = None
  /\ e.closed => e.queue = <<>> /\ e.last = None

\* The frames received are those of the file, the queue and m_lastFrame.
Framed(e) ==
  /\ Len(e.seen) = Len(e.file) + Len(e.queue) + (IF e.last # None THEN 1 ELSE 0)
                                              - (IF Ends(e) THEN 1 ELSE 0)
  /\ \A i \in 1..Len(e.file) : e.seen[i] = e.file[i]
  /\ \A i \in 1..Len(e.queue) : e.queue[i] # Finish => e.seen[Len(e.file) + i] = e.queue[i].frame
  /\ e.last # None => e.seen[Len(e.seen)] = e.last

\* D is the time of the recording at which each task of the queue begins: it
\* starts at what the file has and it ends at m_lastFrameTimestamp.
Timeline(e, D) ==
  /\ D \in [0..Len(e.queue) -> Nat]
  /\ D[Len(e.queue)] = e.stamp - e.since
  /\ \A i \in 1..Len(e.queue) : D[i] = D[i - 1] + TicksOf(e.queue[i])
  /\ 500 * D[0] <= e.pts /\ e.pts <= 500 * D[0] + Len(e.file)

Clocked(e) ==
  /\ e.seen = <<>> <=> e.since = None
  /\ e.since = None => e.last = None /\ e.pts = 0
  /\ e.since # None => e.stamp # None /\ e.since <= e.stamp /\ \E D : Timeline(e, D)

Sound(e) == EndsOnce(e) /\ Framed(e) /\ Clocked(e)

\* A recording that has not ended its video.
Recording(e) == ~Ends(e) /\ ~e.closed /\ (e.since = None => e.stamp = None)

LEMMA EncoderFields ==
  ASSUME NEW e \in Encoders
  PROVE  /\ e.queue \in Seq(Tasks) /\ e.file \in Seq(Nat) /\ e.seen \in Seq(Nat)
         /\ e.pts \in Nat /\ e.last \in Nat \cup {None} /\ e.stamp \in Nat \cup {None}
         /\ e.since \in Nat \cup {None} /\ e.closed \in BOOLEAN
         /\ Len(e.queue) \in Nat /\ Len(e.file) \in Nat /\ Len(e.seen) \in Nat
         /\ None \notin Nat
<1>1. /\ e.queue \in Seq(Tasks) /\ e.file \in Seq(Nat) /\ e.seen \in Seq(Nat)
      /\ e.pts \in Nat /\ e.last \in Nat \cup {None} /\ e.stamp \in Nat \cup {None}
      /\ e.since \in Nat \cup {None} /\ e.closed \in BOOLEAN
  BY DEF Encoders
<1>2. QED BY <1>1, ServiceAssumption

\* A task of d half frames lasts as long as it should, to one time unit.
LEMMA EncodedBounds ==
  ASSUME NEW d \in Nat
  PROVE  Encoded(d) \in Nat /\ 500 * d <= Encoded(d) /\ Encoded(d) <= 500 * d + 1
<1>1. CASE d > 3
  <2>0. /\ (d - 2) \div 2 \in Nat
        /\ d - 2 * ((d - 2) \div 2) >= 2 /\ d - 2 * ((d - 2) \div 2) <= 3
    BY <1>1
  <2>1. PICK r \in Nat : r = (d - 2) \div 2 /\ d - 2 * r \in 2..3
    BY <2>0
  <2>2. Repeats(d) = r
    BY <1>1, <2>1 DEF Repeats
  <2>3. Rest(d) = 500 * (d - 2 * r)
    <3>1. ((d - 2 * r) * 1000) \div 2 = 500 * (d - 2 * r)
      BY <2>1
    <3>2. QED BY <3>1, <2>1, <2>2 DEF Rest, timeScale
  <2>4. Encoded(d) = 1000 * r + 500 * (d - 2 * r)
    BY <2>2, <2>3 DEF Encoded, timeScale
  <2>5. QED BY <2>4, <2>1
<1>2. CASE d \in 0..3
  <2>1. Repeats(d) = 0
    BY <1>2 DEF Repeats
  <2>2. (d * 1000) \div 2 = 500 * d
    BY <1>2
  <2>3. Rest(d) = IF 500 * d < 1 THEN 1 ELSE 500 * d
    <3>1. d - 2 * 0 = d
      OBVIOUS
    <3>2. QED BY <2>1, <2>2, <3>1 DEF Rest, timeScale
  <2>4. Encoded(d) = Rest(d)
    <3>1. Rest(d) \in Nat
      BY <2>3
    <3>2. QED BY <2>1, <3>1 DEF Encoded, timeScale
  <2>5. QED BY <2>3, <2>4, <1>2
<1>3. QED BY <1>1, <1>2

\* A task more at the end of the queue: the timeline is longer by its ticks.
LEMMA LongerTimeline ==
  ASSUME NEW q \in Seq(Tasks), NEW t \in Tasks, NEW D \in [0..Len(q) -> Nat],
         \A i \in 1..Len(q) : D[i] = D[i - 1] + TicksOf(q[i])
  PROVE  \E B \in [0..(Len(q) + 1) -> Nat] :
           /\ B[0] = D[0] /\ B[Len(q) + 1] = D[Len(q)] + TicksOf(t)
           /\ \A i \in 1..(Len(q) + 1) : B[i] = B[i - 1] + TicksOf(Append(q, t)[i])
<1>0. Len(q) \in Nat /\ TicksOf(t) \in Nat
  BY TaskKinds DEF TicksOf
<1> DEFINE B == [i \in 0..(Len(q) + 1) |-> IF i <= Len(q) THEN D[i] ELSE D[Len(q)] + TicksOf(t)]
<1>1. D[Len(q)] + TicksOf(t) \in Nat /\ \A i \in 0..(Len(q) + 1) : i <= Len(q) => D[i] \in Nat
  BY <1>0
<1>2. B \in [0..(Len(q) + 1) -> Nat]
  BY <1>0, <1>1
<1>3. /\ \A i \in 0..Len(q) : B[i] = D[i]
      /\ B[Len(q) + 1] = D[Len(q)] + TicksOf(t)
  BY <1>0
<1> HIDE DEF B
<1>4. /\ \A i \in 1..Len(q) : Append(q, t)[i] = q[i]
      /\ Append(q, t)[Len(q) + 1] = t
  BY AppendProperties
<1>5. ASSUME NEW i \in 1..(Len(q) + 1) PROVE B[i] = B[i - 1] + TicksOf(Append(q, t)[i])
  <2>1. CASE i \in 1..Len(q)
    <3>1. i \in 0..Len(q) /\ i - 1 \in 0..Len(q)
      BY <1>0, <2>1
    <3>2. B[i] = D[i] /\ B[i - 1] = D[i - 1] /\ Append(q, t)[i] = q[i]
      BY <3>1, <1>3, <1>4, <2>1
    <3>3. QED BY <3>2, <2>1
  <2>2. CASE i = Len(q) + 1
    <3>1. B[i - 1] = D[Len(q)] /\ Append(q, t)[i] = t
      BY <1>0, <1>3, <1>4, <2>2
    <3>2. B[i] = D[Len(q)] + TicksOf(t)
      BY <1>3, <2>2
    <3>3. QED BY <3>1, <3>2
  <2>3. i \in 1..Len(q) \/ i = Len(q) + 1
    BY <1>0
  <2>4. QED BY <2>1, <2>2, <2>3
<1>6. 0 \in 0..Len(q) /\ B[0] = D[0]
  BY <1>0, <1>3
<1>7. QED BY <1>2, <1>3, <1>5, <1>6

LEMMA Extended ==
  ASSUME NEW e \in Encoders, NEW g \in Encoders, NEW t \in Tasks,
         Sound(e), ~Ends(e), ~e.closed,
         g.queue = Append(e.queue, t), g.file = e.file, g.pts = e.pts, g.closed = e.closed,
         g.seen = e.seen, g.since = e.since, g.last = None,
         t # Finish <=> e.last # None, t # Finish => t.frame = e.last,
         e.since # None => /\ g.stamp \in Nat
                           /\ g.stamp = e.stamp + TicksOf(t)
  PROVE  Sound(g) /\ (Ends(g) <=> t = Finish)
<1>e. /\ e.queue \in Seq(Tasks) /\ e.file \in Seq(Nat) /\ e.seen \in Seq(Nat)
      /\ e.pts \in Nat /\ e.last \in Nat \cup {None} /\ e.stamp \in Nat \cup {None}
      /\ e.since \in Nat \cup {None} /\ e.closed \in BOOLEAN
      /\ Len(e.queue) \in Nat /\ Len(e.file) \in Nat /\ Len(e.seen) \in Nat
      /\ None \notin Nat
  BY EncoderFields
<1>n. PICK n \in Nat : n = Len(e.queue)
  BY <1>e
<1>i. \A i \in 1..(n + 1) : i \in 1..n \/ i = n + 1
  OBVIOUS
<1>a. /\ Append(e.queue, t) # <<>>
      /\ Len(Append(e.queue, t)) = Len(e.queue) + 1
      /\ \A i \in 1..Len(e.queue) : Append(e.queue, t)[i] = e.queue[i]
      /\ Append(e.queue, t)[Len(e.queue) + 1] = t
  <2>1. PICK p \in Seq(Tasks) : p = e.queue
    BY <1>e
  <2>2. /\ Append(p, t) # <<>> /\ Len(Append(p, t)) = Len(p) + 1
        /\ \A i \in 1..Len(p) : Append(p, t)[i] = p[i]
        /\ Append(p, t)[Len(p) + 1] = t
    BY AppendProperties
  <2>3. QED BY <2>1, <2>2
<1>q. /\ Len(g.queue) = n + 1 /\ g.queue # <<>> /\ g.queue[n + 1] = t
      /\ \A i \in 1..n : g.queue[i] = e.queue[i]
  BY <1>a, <1>n
<1>m. \A i \in 1..n : e.queue[i] # Finish
  <2>1. ASSUME NEW i \in 1..n, e.queue[i] = Finish PROVE FALSE
    <3>1. i = n
      BY <2>1, <1>n DEF Sound, EndsOnce
    <3>2. e.queue # <<>>
      BY <2>1, <1>n, <1>e
    <3>3. QED BY <3>1, <3>2, <2>1, <1>n DEF Ends
  <2>2. QED BY <2>1
<1>1. Ends(g) <=> t = Finish
  BY <1>q DEF Ends
<1>2. EndsOnce(g)
  BY <1>q, <1>i, <1>m DEF EndsOnce
<1>3. Framed(g)
  <2>0. PICK a \in Nat, b \in Nat : a = Len(e.seen) /\ b = Len(e.file)
    BY <1>e
  <2>1. /\ t # Finish => a = b + n + 1
        /\ t = Finish => a = b + n
    <3>1. Len(e.seen) = Len(e.file) + Len(e.queue) + (IF e.last # None THEN 1 ELSE 0) - 0
      BY DEF Sound, Framed
    <3>2. a = b + n + (IF e.last # None THEN 1 ELSE 0)
      BY <3>1, <2>0, <1>n
    <3>3. QED BY <3>2
  <2>2. Len(g.seen) = Len(g.file) + Len(g.queue) + (IF g.last # None THEN 1 ELSE 0)
                                              - (IF Ends(g) THEN 1 ELSE 0)
    <3>1. a = b + (n + 1) + 0 - (IF Ends(g) THEN 1 ELSE 0)
      BY <2>1, <1>1
    <3>2. QED BY <3>1, <2>0, <1>q
  <2>3. \A i \in 1..Len(g.file) : g.seen[i] = g.file[i]
    BY DEF Sound, Framed
  <2>4. ASSUME NEW i \in 1..(n + 1), g.queue[i] # Finish
        PROVE  g.seen[Len(g.file) + i] = g.queue[i].frame
    <3>1. CASE i \in 1..n
      BY <3>1, <2>4, <1>q, <1>n DEF Sound, Framed
    <3>2. CASE i = n + 1
      <4>1. t # Finish /\ t.frame = e.last /\ e.last # None
        BY <3>2, <2>4, <1>q
      <4>2. Len(e.seen) = Len(g.file) + i
        <5>1. a = b + i
          BY <4>1, <3>2, <2>1
        <5>2. QED BY <5>1, <2>0
      <4>3. e.seen[Len(e.seen)] = e.last
        BY <4>1 DEF Sound, Framed
      <4>4. QED BY <4>1, <4>2, <4>3, <3>2, <1>q
    <3>3. QED BY <3>1, <3>2, <1>i
  <2>5. QED BY <2>2, <2>3, <2>4, <1>q DEF Framed
<1>4. Clocked(g)
  <2>1. g.seen = <<>> <=> g.since = None
    BY DEF Sound, Clocked
  <2>2. g.since = None => g.last = None /\ g.pts = 0
    BY DEF Sound, Clocked
  <2>3. ASSUME g.since # None PROVE g.stamp # None /\ g.since <= g.stamp /\ \E D : Timeline(g, D)
    <3>1. /\ e.stamp # None /\ e.since <= e.stamp /\ \E D : Timeline(e, D)
      BY <2>3 DEF Sound, Clocked
    <3>2. TicksOf(t) \in Nat /\ e.stamp \in Nat /\ e.since \in Nat
      BY <3>1, <2>3, <1>e, TaskKinds DEF TicksOf
    <3>3. g.stamp \in Nat /\ g.since <= g.stamp
          /\ g.stamp - g.since = (e.stamp - e.since) + TicksOf(t)
      BY <3>1, <3>2, <2>3
    <3>4. PICK D : Timeline(e, D)
      BY <3>1
    <3>5. /\ D \in [0..n -> Nat] /\ D[n] = e.stamp - e.since
          /\ \A i \in 1..n : D[i] = D[i - 1] + TicksOf(e.queue[i])
          /\ 500 * D[0] <= e.pts /\ e.pts <= 500 * D[0] + Len(e.file)
      BY <3>4, <1>n DEF Timeline
    <3>6. PICK B \in [0..(n + 1) -> Nat] :
           /\ B[0] = D[0] /\ B[n + 1] = D[n] + TicksOf(t)
           /\ \A i \in 1..(n + 1) : B[i] = B[i - 1] + TicksOf(g.queue[i])
      <4>1. \E B \in [0..(Len(e.queue) + 1) -> Nat] :
           /\ B[0] = D[0] /\ B[Len(e.queue) + 1] = D[Len(e.queue)] + TicksOf(t)
           /\ \A i \in 1..(Len(e.queue) + 1) : B[i] = B[i - 1] + TicksOf(Append(e.queue, t)[i])
        BY <3>5, <1>n, <1>e, LongerTimeline
      <4>2. QED BY <4>1, <1>n
    <3>7. Timeline(g, B)
      BY <3>3, <3>5, <3>6, <1>q DEF Timeline
    <3>8. QED BY <3>3, <3>7, <1>e
  <2>4. QED BY <2>1, <2>2, <2>3 DEF Clocked
<1>5. QED BY <1>1, <1>2, <1>3, <1>4 DEF Sound

LEMMA FlushSound ==
  ASSUME NEW e \in Encoders, now \in 0..MaxTime, Timed(e, now), Sound(e), Recording(e)
  PROVE  Sound(Flush(e)) /\ ~Ends(Flush(e)) /\ ~Flush(e).closed
<1>e. /\ e.queue \in Seq(Tasks) /\ e.last \in Nat \cup {None} /\ e.stamp \in Nat \cup {None}
      /\ e.since \in Nat \cup {None} /\ None \notin Nat
  BY EncoderFields
<1>n. now \in Nat
  BY ServiceAssumption
<1>1. PICK g \in Encoders : g = Flush(e)
  BY FlushType
<1>2. /\ g.last = None /\ g.pts = e.pts /\ g.file = e.file /\ g.closed = e.closed
      /\ g.seen = e.seen /\ g.since = e.since
  BY <1>1, FlushType
<1>3. ~Ends(e) /\ ~e.closed
  BY DEF Recording
<1>4. CASE /\ e.stamp = None \/ e.last = None
           /\ g.queue = e.queue
           /\ g.stamp = (IF e.stamp = None THEN now ELSE e.stamp)
  <2>1. e.stamp = None => e.since = None
    BY DEF Sound, Clocked
  <2>2. e.last = None
    BY <1>4, <2>1 DEF Sound, Clocked
  <2>3. EndsOnce(g) /\ Framed(g) /\ (Ends(g) <=> Ends(e))
    BY <1>2, <1>4, <2>2 DEF Sound, EndsOnce, Framed, Ends
  <2>4. e.since # None => g.stamp = e.stamp
    BY <1>4, <2>1
  <2>5. \A D : e.since # None /\ Timeline(e, D) => Timeline(g, D)
    BY <1>2, <1>4, <2>4 DEF Timeline
  <2>6. Clocked(g)
    BY <1>2, <2>4, <2>5 DEF Sound, Clocked
  <2>7. QED BY <2>3, <2>6, <1>1, <1>2, <1>3 DEF Sound
<1>5. CASE /\ e.stamp # None /\ e.last # None
           /\ g.queue = Append(e.queue, Encode(e.last, now - e.stamp))
           /\ g.stamp = now
  <2>1. e.last \in Nat /\ now - e.stamp \in Nat /\ e.stamp \in Nat
    BY <1>5, <1>e, <1>n DEF Timed
  <2>2. PICK t \in Tasks : /\ t = Encode(e.last, now - e.stamp) /\ t # Finish
                           /\ t.frame = e.last /\ t.ticks = now - e.stamp
    BY <2>1, TaskKinds
  <2>3. TicksOf(t) = now - e.stamp
    BY <2>2 DEF TicksOf
  <2>4. g.stamp \in Nat /\ g.stamp = e.stamp + TicksOf(t)
    BY <2>1, <2>3, <1>5, <1>n
  <2>5. g.queue = Append(e.queue, t)
    BY <2>2, <1>5
  <2>6. Sound(g) /\ (Ends(g) <=> t = Finish)
    BY <2>2, <2>4, <2>5, <1>2, <1>3, <1>5, Extended
  <2>7. QED BY <2>2, <2>6, <1>1, <1>2, <1>3
<1>6. QED BY <1>1, <1>4, <1>5, FlushQueue

LEMMA StoppedSound ==
  ASSUME NEW e \in Encoders, now \in 0..MaxTime, Timed(e, now), Sound(e), Recording(e)
  PROVE  Sound(Stopped(e))
<1>1. PICK g \in Encoders : g = Flush(e) /\ Sound(g) /\ ~Ends(g) /\ ~g.closed /\ g.last = None
                            /\ g.stamp \in Nat
  BY FlushSound, FlushType
<1>2. PICK h \in Encoders : h = Stopped(e)
  BY StoppedType
<1>3. /\ h.queue = Append(g.queue, Finish) /\ h.last = None /\ h.stamp = g.stamp
      /\ h.pts = g.pts /\ h.file = g.file /\ h.closed = g.closed /\ h.seen = g.seen
      /\ h.since = g.since
  BY <1>1, <1>2, StoppedType, FlushType
<1>4. Finish \in Tasks /\ TicksOf(Finish) = 0
  BY TaskKinds DEF TicksOf
<1>5. h.stamp \in Nat /\ h.stamp = g.stamp + TicksOf(Finish)
  BY <1>1, <1>3, <1>4
<1>6. Sound(h)
  BY <1>1, <1>3, <1>4, <1>5, Extended
<1>7. QED BY <1>2, <1>6

LEMMA OnFrameSound ==
  ASSUME NEW e \in Encoders, now \in 0..MaxTime, Timed(e, now), Sound(e), Recording(e),
         NEW f \in Nat
  PROVE  Sound(OnFrame(e, f)) /\ Recording(OnFrame(e, f))
<1>n. now \in Nat /\ None \notin Nat
  BY ServiceAssumption
<1>1. PICK g \in Encoders : g = Flush(e) /\ Sound(g) /\ ~Ends(g) /\ ~g.closed /\ g.last = None
                            /\ g.stamp \in Nat /\ Timed(g, now)
                            /\ g.seen = e.seen /\ g.since = e.since
                            /\ g.file = e.file /\ g.pts = e.pts /\ g.closed = e.closed
  BY FlushSound, FlushType
<1>2. PICK h \in Encoders : h = OnFrame(e, f)
  BY OnFrameType
<1>3. /\ h.queue = g.queue /\ h.last = f /\ h.stamp = g.stamp
      /\ h.pts = g.pts /\ h.file = g.file /\ h.closed = g.closed
      /\ h.seen = Append(g.seen, f)
      /\ h.since = (IF g.since = None THEN now ELSE g.since)
  <2>1. /\ OnFrame(e, f).last = f /\ OnFrame(e, f).stamp = Flush(e).stamp
        /\ OnFrame(e, f).queue = Flush(e).queue
        /\ OnFrame(e, f).pts = e.pts /\ OnFrame(e, f).file = e.file
        /\ OnFrame(e, f).closed = e.closed /\ OnFrame(e, f).seen = Append(e.seen, f)
        /\ OnFrame(e, f).since = (IF e.since = None THEN now ELSE e.since)
    BY OnFrameType
  <2>2. g.seen = e.seen /\ Append(g.seen, f) = Append(e.seen, f)
    BY <1>1, Zenon
  <2>3. QED BY <2>1, <2>2, <1>1, <1>2, Zenon
<1>4. PICK a, b, n \in Nat, p \in Seq(Nat) :
        /\ a = Len(g.seen) /\ b = Len(g.file) /\ n = Len(g.queue) /\ p = g.seen
  BY EncoderFields
<1>5. /\ Append(p, f) # <<>> /\ Len(Append(p, f)) = Len(p) + 1
      /\ \A i \in 1..Len(p) : Append(p, f)[i] = p[i]
      /\ Append(p, f)[Len(p) + 1] = f
  BY AppendProperties
<1>6. /\ h.seen # <<>> /\ Len(h.seen) = a + 1 /\ h.seen[a + 1] = f
      /\ \A i \in 1..a : h.seen[i] = g.seen[i]
  BY <1>3, <1>4, <1>5
<1>7. a = b + n
  <2>1. Len(g.seen) = Len(g.file) + Len(g.queue) + 0 - 0
    BY <1>1 DEF Sound, Framed
  <2>2. QED BY <2>1, <1>4
<1>8. h.last # None /\ ~Ends(h) /\ ~h.closed
  BY <1>1, <1>3, <1>n DEF Ends
<1>9. EndsOnce(h)
  <2>1. ASSUME NEW i \in 1..n, g.queue[i] = Finish PROVE FALSE
    <3>1. i = n
      BY <2>1, <1>1, <1>4 DEF Sound, EndsOnce
    <3>2. g.queue # <<>>
      <4>1. n # 0
        OBVIOUS
      <4>2. QED BY <4>1, <1>4
    <3>3. QED BY <3>1, <3>2, <2>1, <1>1, <1>4 DEF Ends
  <2>2. QED BY <2>1, <1>3, <1>4, <1>8 DEF EndsOnce
<1>10. Framed(h)
  <2>1. Len(h.seen) = Len(h.file) + Len(h.queue) + (IF h.last # None THEN 1 ELSE 0)
                                              - (IF Ends(h) THEN 1 ELSE 0)
    <3>1. a + 1 = b + n + 1 - 0
      BY <1>7
    <3>2. QED BY <3>1, <1>3, <1>4, <1>6, <1>8
  <2>2. ASSUME NEW i \in 1..b PROVE h.seen[i] = g.file[i]
    <3>1. i \in 1..a
      BY <1>7
    <3>2. QED BY <3>1, <1>1, <1>4, <1>6 DEF Sound, Framed
  <2>3. ASSUME NEW i \in 1..n, g.queue[i] # Finish
        PROVE  h.seen[b + i] = g.queue[i].frame
    <3>1. b + i \in 1..a
      BY <1>7
    <3>2. g.seen[b + i] = g.queue[i].frame
      BY <2>3, <1>1, <1>4 DEF Sound, Framed
    <3>3. QED BY <3>1, <3>2, <1>6
  <2>4. h.seen[Len(h.seen)] = h.last
    BY <1>3, <1>6
  <2>5. QED BY <2>1, <2>2, <2>3, <2>4, <1>3, <1>4 DEF Framed
<1>11. Clocked(h) /\ h.since # None
  <2>1. CASE g.since = None
    <3>1. e.stamp = None /\ e.since = None
      BY <2>1, <1>1 DEF Recording
    <3>2. g.stamp = now
      BY <3>1, <1>1, FlushQueue
    <3>3. a = 0 /\ b = 0 /\ n = 0 /\ g.pts = 0
      <4>1. g.seen = <<>> /\ g.pts = 0
        BY <2>1, <1>1 DEF Sound, Clocked
      <4>2. a = 0
        BY <4>1, <1>4
      <4>3. QED BY <4>1, <4>2, <1>7
    <3>4. h.since = now /\ h.stamp = now /\ Len(h.queue) = 0 /\ Len(h.file) = 0 /\ h.pts = 0
      BY <3>2, <3>3, <1>3, <1>4, <2>1
    <3> DEFINE D == [i \in 0..0 |-> 0]
    <3>5. D \in [0..0 -> Nat] /\ D[0] = 0
      OBVIOUS
    <3> HIDE DEF D
    <3>6. now - now = 0 /\ now <= now
      BY <1>n
    <3>7. Timeline(h, D)
      BY <3>4, <3>5, <3>6 DEF Timeline
    <3>8. QED BY <3>4, <3>6, <3>7, <1>6, <1>n DEF Clocked
  <2>2. CASE g.since # None
    <3>1. h.since = g.since
      BY <2>2, <1>3
    <3>2. \A D : Timeline(g, D) => Timeline(h, D)
      BY <3>1, <1>3 DEF Timeline
    <3>3. /\ g.stamp # None /\ g.since <= g.stamp /\ \E D : Timeline(g, D)
      BY <2>2, <1>1 DEF Sound, Clocked
    <3>4. QED BY <3>1, <3>2, <3>3, <1>3, <1>6, <2>2 DEF Clocked
  <2>3. QED BY <2>1, <2>2
<1>12. QED BY <1>2, <1>8, <1>9, <1>10, <1>11 DEF Sound, Recording

LEMMA WorkedSound ==
  ASSUME NEW e \in Encoders, e.queue # <<>>, Sound(e)
  PROVE  /\ Sound(Worked(e))
         /\ Recording(e) => Recording(Worked(e))
<1>1. PICK g \in Encoders : g = Worked(e)
  BY WorkedType
<1>2. PICK a, b, n \in Nat, q \in Seq(Tasks), p \in Seq(Nat) :
        /\ a = Len(e.seen) /\ b = Len(e.file) /\ n = Len(e.queue) /\ q = e.queue /\ p = e.file
  BY EncoderFields
<1>3. n > 0 /\ q # <<>> /\ Head(q) = q[1] /\ q[1] \in Tasks /\ n = Len(q)
  BY <1>2
<1>4. /\ Tail(q) \in Seq(Tasks) /\ Len(Tail(q)) = n - 1
      /\ \A i \in 1..Len(Tail(q)) : Tail(q)[i] = q[i + 1]
  BY <1>3, HeadTailProperties
<1>5. /\ g.queue = Tail(q) /\ g.stamp = e.stamp /\ g.last = e.last
      /\ g.seen = e.seen /\ g.since = e.since
      /\ \/ /\ q[1] = Finish /\ g.closed = TRUE /\ g.pts = e.pts /\ g.file = e.file
         \/ /\ q[1] # Finish /\ g.closed = e.closed
            /\ g.pts = e.pts + Encoded(q[1].ticks) /\ g.file = Append(p, q[1].frame)
  <2>1. e.queue = q /\ e.file = p /\ Head(e.queue) = q[1]
    BY <1>2, <1>3
  <2>2. /\ Worked(e).queue = Tail(e.queue) /\ Worked(e).stamp = e.stamp
        /\ Worked(e).last = e.last /\ Worked(e).seen = e.seen /\ Worked(e).since = e.since
        /\ \/ /\ Head(e.queue) = Finish /\ Worked(e).closed = TRUE
              /\ Worked(e).pts = e.pts /\ Worked(e).file = e.file
           \/ /\ Head(e.queue) # Finish /\ Worked(e).closed = e.closed
              /\ Worked(e).pts = e.pts + Encoded(Head(e.queue).ticks)
              /\ Worked(e).file = Append(e.file, Head(e.queue).frame)
    BY WorkedType
  <2>3. Tail(e.queue) = Tail(q)
    BY <2>1, Zenon
  <2>4. Encoded(Head(e.queue).ticks) = Encoded(q[1].ticks)
    BY <2>1, Zenon
  <2>5. Append(e.file, Head(e.queue).frame) = Append(p, q[1].frame)
    BY <2>1, Zenon
  <2>6. QED BY <1>1, <2>1, <2>2, <2>3, <2>4, <2>5, Zenon
<1>6. PICK r \in Seq(Tasks) : r = Tail(q) /\ r = g.queue /\ Len(r) = n - 1
                              /\ \A i \in 1..(n - 1) : r[i] = q[i + 1]
  BY <1>4, <1>5
<1>7. \A i \in 1..n : q[i] = Finish => i = n /\ e.last = None
  BY <1>2 DEF Sound, EndsOnce
<1>8. a = b + n + (IF e.last # None THEN 1 ELSE 0) - (IF q[n] = Finish THEN 1 ELSE 0)
  BY <1>2, <1>3 DEF Sound, Framed, Ends
<1>9. ~e.closed
  BY DEF Sound, EndsOnce
<1>10. PICK D : e.since # None => Timeline(e, D)
  BY DEF Sound, Clocked
<1>11. e.since # None =>
         /\ D \in [0..n -> Nat] /\ D[n] = e.stamp - e.since
         /\ \A i \in 1..n : D[i] = D[i - 1] + TicksOf(q[i])
         /\ 500 * D[0] <= e.pts /\ e.pts <= 500 * D[0] + b
  BY <1>10, <1>2 DEF Timeline
<1> DEFINE B == [i \in 0..(n - 1) |-> D[i + 1]]
<1>12. e.since # None =>
         /\ B \in [0..(n - 1) -> Nat] /\ B[n - 1] = e.stamp - e.since
         /\ \A i \in 1..(n - 1) : B[i] = B[i - 1] + TicksOf(r[i])
         /\ B[0] = D[0] + TicksOf(q[1]) /\ D[0] \in Nat /\ TicksOf(q[1]) \in Nat
  <2> SUFFICES ASSUME e.since # None
               PROVE  /\ B \in [0..(n - 1) -> Nat] /\ B[n - 1] = e.stamp - e.since
                      /\ \A i \in 1..(n - 1) : B[i] = B[i - 1] + TicksOf(r[i])
                      /\ B[0] = D[0] + TicksOf(q[1]) /\ D[0] \in Nat /\ TicksOf(q[1]) \in Nat
    OBVIOUS
  <2>0. \A i \in 0..(n - 1) : i + 1 \in 0..n
    OBVIOUS
  <2>1. \A i \in 0..(n - 1) : i + 1 \in 0..n /\ D[i + 1] \in Nat
    <3>1. \A j \in 0..n : D[j] \in Nat
      BY <1>11
    <3>2. QED BY <2>0, <3>1
  <2>2. B \in [0..(n - 1) -> Nat] /\ \A i \in 0..(n - 1) : B[i] = D[i + 1]
    BY <2>1
  <2> HIDE DEF B
  <2>3. n - 1 \in 0..(n - 1) /\ 0 \in 0..(n - 1) /\ (n - 1) + 1 = n /\ 0 + 1 = 1 /\ 0 \in 0..n
        /\ 1 \in 1..n /\ 1 - 1 = 0
    BY <1>3
  <2>4. B[n - 1] = e.stamp - e.since /\ B[0] = D[1] /\ D[0] \in Nat /\ D[1] = D[0] + TicksOf(q[1])
    BY <2>2, <2>3, <1>11
  <2>5. ASSUME NEW i \in 1..(n - 1) PROVE B[i] = B[i - 1] + TicksOf(r[i])
    <3>1. /\ i \in 0..(n - 1) /\ i - 1 \in 0..(n - 1) /\ (i - 1) + 1 = i
          /\ i + 1 \in 1..n /\ (i + 1) - 1 = i
      OBVIOUS
    <3>2. B[i] = D[i + 1] /\ B[i - 1] = D[i] /\ r[i] = q[i + 1]
      BY <3>1, <2>2, <1>6
    <3>3. D[i + 1] = D[i] + TicksOf(q[i + 1])
      BY <3>1, <1>11
    <3>4. QED BY <3>2, <3>3
  <2>6. TicksOf(q[1]) \in Nat
    BY <1>3, TaskKinds DEF TicksOf
  <2>7. QED BY <2>2, <2>4, <2>5, <2>6
<1> HIDE DEF B
<1>13. CASE q[1] = Finish
  <2>1. n = 1 /\ e.last = None /\ q[n] = Finish
    BY <1>13, <1>3, <1>7
  <2>2. g.queue = <<>> /\ Len(r) = 0 /\ r = <<>> /\ g.closed = TRUE
    BY <2>1, <1>5, <1>6, <1>13
  <2>3. g.file = e.file /\ g.pts = e.pts
    BY <1>5, <1>13
  <2>4. EndsOnce(g) /\ ~Ends(g) /\ g.last = None
    <3>1. g.last = None
      BY <2>1, <1>5
    <3>2. Len(g.queue) = 0
      BY <2>2
    <3>3. QED BY <3>1, <3>2, <2>2 DEF EndsOnce, Ends
  <2>5. Framed(g)
    <3>1. a = b
      BY <1>8, <2>1
    <3>2. Len(g.queue) = 0 /\ Len(g.seen) = a /\ Len(g.file) = b
      BY <2>2, <2>3, <1>2, <1>5
    <3>3. Len(g.seen) = Len(g.file) + Len(g.queue) + 0 - 0
      BY <3>1, <3>2
    <3>4. \A i \in 1..Len(g.file) : g.seen[i] = g.file[i]
      BY <2>3, <1>5 DEF Sound, Framed
    <3>5. QED BY <3>2, <3>3, <3>4, <2>4 DEF Framed
  <2>6. Clocked(g)
    <3>1. e.since # None => Timeline(g, B)
      <4> SUFFICES ASSUME e.since # None PROVE Timeline(g, B)
        OBVIOUS
      <4>1. TicksOf(q[1]) = 0 /\ B[0] = D[0] /\ D[0] \in Nat
        BY <1>12, <1>13 DEF TicksOf
      <4>2. 500 * B[0] <= e.pts /\ e.pts <= 500 * B[0] + b
        BY <4>1, <1>11
      <4>3. Len(g.queue) = n - 1 /\ Len(g.file) = b
        BY <1>6, <2>3, <1>2
      <4>4. QED BY <4>2, <4>3, <1>5, <1>6, <1>12, <2>3 DEF Timeline
    <3>2. QED BY <3>1, <2>3, <1>5 DEF Sound, Clocked
  <2>7. ~Recording(e)
    BY <2>1, <1>2, <1>3 DEF Recording, Ends
  <2>8. QED BY <1>1, <2>4, <2>5, <2>6, <2>7 DEF Sound
<1>14. CASE q[1] # Finish
  <2>1. g.closed = e.closed /\ g.pts = e.pts + Encoded(q[1].ticks) /\ g.file = Append(p, q[1].frame)
    BY <1>5, <1>14
  <2>2. q[1].frame \in Nat /\ q[1].ticks \in Nat /\ TicksOf(q[1]) = q[1].ticks
    BY <1>3, <1>14, TaskKinds DEF TicksOf
  <2>3. /\ Len(g.file) = b + 1 /\ g.file[b + 1] = q[1].frame
        /\ \A i \in 1..b : g.file[i] = e.file[i]
    <3>1. /\ Len(Append(p, q[1].frame)) = Len(p) + 1
          /\ \A i \in 1..Len(p) : Append(p, q[1].frame)[i] = p[i]
          /\ Append(p, q[1].frame)[Len(p) + 1] = q[1].frame
      BY <2>2, AppendProperties
    <3>2. QED BY <3>1, <2>1, <1>2
  <2>4. Ends(g) <=> q[n] = Finish
    <3>1. CASE n = 1
      <4>1. r = <<>> /\ q[n] # Finish
        BY <3>1, <1>6, <1>14
      <4>2. QED BY <4>1, <1>6 DEF Ends
    <3>2. CASE n > 1
      <4>1. n - 1 \in 1..(n - 1) /\ (n - 1) + 1 = n /\ n - 1 > 0
        BY <3>2
      <4>2. Len(r) # 0 /\ r \in Seq(Tasks)
        BY <4>1, <1>6, SMTT(30)
      <4>3. r # <<>>
        BY <4>2
      <4>4. r[n - 1] = q[n]
        BY <4>1, <1>6
      <4>5. QED BY <4>3, <4>4, <1>6 DEF Ends
    <3>3. QED BY <3>1, <3>2, <1>3
  <2>5. EndsOnce(g)
    <3>1. ASSUME NEW i \in 1..(n - 1), r[i] = Finish PROVE i = n - 1 /\ e.last = None
      <4>1. i + 1 \in 1..n /\ q[i + 1] = Finish
        BY <3>1, <1>6
      <4>2. i + 1 = n /\ e.last = None
        BY <4>1, <1>7
      <4>3. QED BY <4>2
    <3>2. QED BY <3>1, <2>1, <1>5, <1>6, <1>9 DEF EndsOnce
  <2>6. Framed(g)
    <3>1. a = (b + 1) + (n - 1) + (IF e.last # None THEN 1 ELSE 0) - (IF q[n] = Finish THEN 1 ELSE 0)
      BY <1>8
    <3>2. Len(g.seen) = Len(g.file) + Len(g.queue) + (IF g.last # None THEN 1 ELSE 0)
                                              - (IF Ends(g) THEN 1 ELSE 0)
      BY <3>1, <2>3, <2>4, <1>2, <1>5, <1>6, ZenonT(30)
    <3>3. ASSUME NEW i \in 1..n, q[i] # Finish PROVE e.seen[b + i] = q[i].frame
      BY <3>3, <1>2 DEF Sound, Framed
    <3>4. ASSUME NEW i \in 1..(b + 1) PROVE g.seen[i] = g.file[i]
      <4>1. CASE i \in 1..b
        <5>1. e.seen[i] = e.file[i]
          BY <4>1, <1>2 DEF Sound, Framed
        <5>2. QED BY <5>1, <4>1, <2>3, <1>5
      <4>2. CASE i = b + 1
        <5>1. e.seen[b + 1] = q[1].frame
          BY <3>3, <1>3, <1>14
        <5>2. QED BY <5>1, <4>2, <2>3, <1>5
      <4>3. i \in 1..b \/ i = b + 1
        OBVIOUS
      <4>4. QED BY <4>1, <4>2, <4>3
    <3>5. ASSUME NEW i \in 1..(n - 1), r[i] # Finish
          PROVE  g.seen[(b + 1) + i] = r[i].frame
      <4>1. i + 1 \in 1..n /\ (b + 1) + i = b + (i + 1) /\ r[i] = q[i + 1]
        BY <1>6
      <4>2. QED BY <4>1, <3>3, <3>5, <1>5
    <3>6. g.last # None => g.seen[Len(g.seen)] = g.last
      BY <1>5 DEF Sound, Framed
    <3>7. QED BY <3>2, <3>4, <3>5, <3>6, <2>3, <1>6 DEF Framed
  <2>7. a > 0
    <3>1. CASE q[n] = Finish
      <4>1. n # 1 /\ e.last = None
        BY <3>1, <1>3, <1>7, <1>14
      <4>2. QED BY <4>1, <1>3, <1>8
    <3>2. CASE q[n] # Finish
      BY <3>2, <1>3, <1>8
    <3>3. QED BY <3>1, <3>2
  <2>8. e.since # None
    <3>1. e.seen # <<>>
      BY <2>7, <1>2
    <3>2. QED BY <3>1 DEF Sound, Clocked
  <2>9. Timeline(g, B)
    <3>1. B[0] = D[0] + q[1].ticks /\ D[0] \in Nat
      BY <2>2, <2>8, <1>12
    <3>2. PICK k \in Nat : k = Encoded(q[1].ticks)
                           /\ 500 * q[1].ticks <= k /\ k <= 500 * q[1].ticks + 1
      BY <2>2, EncodedBounds, ZenonT(30)
    <3>3. e.pts \in Nat
      BY EncoderFields
    <3>4. 500 * B[0] <= g.pts /\ g.pts <= 500 * B[0] + (b + 1)
      <4>1. PICK d0, tk, x \in Nat : d0 = D[0] /\ tk = q[1].ticks /\ x = e.pts
        BY <3>1, <3>3, <2>2
      <4>2. 500 * d0 <= x /\ x <= 500 * d0 + b /\ 500 * tk <= k /\ k <= 500 * tk + 1
        BY <4>1, <3>2, <2>8, <1>11
      <4>3. B[0] = d0 + tk /\ g.pts = x + k
        BY <4>1, <3>1, <3>2, <2>1
      <4>4. 500 * (d0 + tk) <= x + k /\ x + k <= 500 * (d0 + tk) + (b + 1)
        BY <4>2
      <4>5. QED BY <4>3, <4>4
    <3>5. QED BY <3>4, <2>3, <2>8, <1>5, <1>6, <1>12 DEF Timeline
  <2>10. Clocked(g)
    BY <2>8, <2>9, <1>5 DEF Sound, Clocked
  <2>11. Recording(e) => Recording(g)
    BY <2>1, <2>4, <1>2, <1>3, <1>5 DEF Recording, Ends
  <2>12. QED BY <1>1, <2>5, <2>6, <2>10, <2>11 DEF Sound
<1>15. QED BY <1>13, <1>14

\* Every video is sound, a session of the map records, one that was never
\* started has received nothing.
VideoOf(s) ==
  /\ Sound(enc[s])
  /\ s \in known => Recording(enc[s])
  /\ phase[s] = "none" => enc[s] = NoEncoder
VideoInv == \A s \in Session : VideoOf(s)

LEMMA NoVideo == Sound(NoEncoder) /\ Recording(NoEncoder)
<1>1. /\ NoEncoder.last = None /\ NoEncoder.stamp = None /\ NoEncoder.queue = <<>>
      /\ NoEncoder.pts = 0 /\ NoEncoder.file = <<>> /\ NoEncoder.closed = FALSE
      /\ NoEncoder.seen = <<>> /\ NoEncoder.since = None
  BY DEF NoEncoder
<1>2. Len(NoEncoder.queue) = 0 /\ Len(NoEncoder.file) = 0 /\ Len(NoEncoder.seen) = 0
  BY <1>1
<1>3. ~Ends(NoEncoder)
  BY <1>1 DEF Ends
<1>4. EndsOnce(NoEncoder)
  BY <1>1, <1>2 DEF EndsOnce
<1>5. Framed(NoEncoder)
  BY <1>1, <1>2, <1>3 DEF Framed
<1>6. Clocked(NoEncoder)
  BY <1>1 DEF Clocked
<1>7. QED BY <1>1, <1>3, <1>4, <1>5, <1>6 DEF Sound, Recording

LEMMA InitVideo == Init => VideoInv
BY NoVideo DEF Init, SInit, VideoInv, VideoOf

LEMMA SameVideo ==
  ASSUME VideoInv, UNCHANGED enc, known' \subseteq known,
         \A s \in Session : phase'[s] = "none" => phase[s] = "none"
  PROVE  VideoInv'
BY DEF VideoInv, VideoOf

LEMMA StartNativeVideo ==
  ASSUME VideoInv, NEW video, StartNative(video)
  PROVE  VideoInv'
<1>1. PICK s \in Session : StartVideoRecording(s, video)
  BY DEF StartNative
<1>2. /\ phase[s] = "none" /\ phase' = [phase EXCEPT ![s] = "on"]
      /\ known' = known \cup {s} /\ enc' = enc
  BY <1>1 DEF StartVideoRecording, Fresh
<1>3. ASSUME NEW t \in Session PROVE VideoOf(t)'
  <2>1. VideoOf(t) /\ VideoOf(s)
    BY DEF VideoInv
  <2>2. CASE t = s
    BY <2>1, <2>2, <1>2, NoVideo DEF VideoOf
  <2>3. CASE t # s
    BY <2>1, <2>3, <1>2 DEF VideoOf
  <2>4. QED BY <2>2, <2>3
<1>4. QED BY <1>3 DEF VideoInv

LEMMA StopEndVideo ==
  ASSUME StructInv, VideoInv, StopEnd
  PROVE  VideoInv'
<1>t. NativeTypes /\ EncoderTypes
  BY DEF StructInv, TypeInv
<1>1. PICK s, c \in Session :
    /\ stops # <<>> /\ s = Head(stops) /\ s = stops[1] /\ c = capOf[s]
    /\ phase[s] = "stopped" /\ (capt[c].count = 1 => snap = None)
    /\ capt' = [capt EXCEPT ![c].count = @ - 1]
    /\ Release(phase, known \ {s}, mainQ, StoppedEncoders(s),
               IF capt[c].count = 1 THEN None ELSE listener)
    /\ stops' = Tail(stops)
    /\ UNCHANGED <<isVideo, capOf, flying, snap, frame, now>>
  BY StopEndFacts
<1>2. /\ known' = known \ {s} /\ enc' = StoppedEncoders(s)
      /\ \A t \in Session : phase'[t] = "none" => phase[t] = "none"
  BY <1>1, <1>t, Released DEF NativeTypes, Fate
<1>3. s \in known
  <2>1. 1 \in 1..Len(stops)
    BY <1>1, <1>t DEF NativeTypes
  <2>2. QED BY <2>1, <1>1 DEF StructInv, StopsInv
<1>4. Sound(Stopped(enc[s]))
  <2>1. Sound(enc[s]) /\ Recording(enc[s])
    BY <1>3 DEF VideoInv, VideoOf
  <2>2. enc[s] \in Encoders /\ Timed(enc[s], now) /\ now \in 0..MaxTime
    BY <1>t DEF EncoderTypes, NativeTypes
  <2>3. QED BY <2>1, <2>2, StoppedSound
<1>5. ASSUME NEW t \in Session PROVE VideoOf(t)'
  <2>1. VideoOf(t)
    BY DEF VideoInv
  <2>2. phase[t] = "none" => t # s
    BY <1>1
  <2>3. enc'[t] = enc[t] \/ (t = s /\ enc'[t] = Stopped(enc[s]))
    BY <1>2, <1>t DEF StoppedEncoders, EncoderTypes
  <2>4. QED BY <2>1, <2>2, <2>3, <1>2, <1>4 DEF VideoOf
<1>6. QED BY <1>5 DEF VideoInv

LEMMA SnapshotDataVideo ==
  ASSUME StructInv, VideoInv, SnapshotData
  PROVE  VideoInv'
<1>t. NativeTypes /\ EncoderTypes
  BY DEF StructInv, TypeInv
<1>1. /\ snap \in Session /\ UNCHANGED <<phase, known>>
      /\ enc' = [s \in Session |-> IF s \in capt[snap].data
                                   THEN OnFrame(enc[s], frame) ELSE enc[s]]
  BY <1>t DEF SnapshotData, NativeTypes
<1>2. ASSUME NEW s \in Session, s \in capt[snap].data
      PROVE  /\ phase[s] = "on"
             /\ Sound(OnFrame(enc[s], frame)) /\ Recording(OnFrame(enc[s], frame))
  <2>1. phase[s] = "on" /\ s \in known
    BY <1>1, <1>2 DEF StructInv, CallbackInv, KnownInv
  <2>2. Sound(enc[s]) /\ Recording(enc[s])
    BY <2>1 DEF VideoInv, VideoOf
  <2>3. /\ enc[s] \in Encoders /\ Timed(enc[s], now) /\ now \in 0..MaxTime
        /\ frame \in Nat
    BY <1>t, ServiceAssumption DEF EncoderTypes, NativeTypes
  <2>4. QED BY <2>1, <2>2, <2>3, OnFrameSound
<1>3. ASSUME NEW s \in Session PROVE VideoOf(s)'
  <2>1. VideoOf(s)
    BY DEF VideoInv
  <2>2. CASE s \in capt[snap].data
    <3>1. enc'[s] = OnFrame(enc[s], frame)
      BY <2>2, <1>1
    <3>2. QED BY <3>1, <2>2, <1>1, <1>2 DEF VideoOf
  <2>3. CASE s \notin capt[snap].data
    BY <2>1, <2>3, <1>1 DEF VideoOf
  <2>4. QED BY <2>2, <2>3
<1>4. QED BY <1>3 DEF VideoInv

LEMMA EncoderTaskVideo ==
  ASSUME StructInv, VideoInv, NEW s \in Session, EncoderTask(s)
  PROVE  VideoInv'
<1>1. /\ enc[s] \in Encoders /\ enc[s].queue # <<>>
      /\ enc' = [enc EXCEPT ![s] = Worked(enc[s])]
      /\ UNCHANGED <<phase, known>>
  BY EncoderTaskFacts
<1>2. VideoOf(s)
  BY DEF VideoInv
<1>3. phase[s] # "none"
  BY <1>1, <1>2 DEF VideoOf, NoEncoder
<1>4. /\ Sound(Worked(enc[s]))
      /\ Recording(enc[s]) => Recording(Worked(enc[s]))
  BY <1>1, <1>2, WorkedSound DEF VideoOf
<1>5. enc'[s] = Worked(enc[s]) /\ \A t \in Session : t # s => enc'[t] = enc[t]
  BY <1>1 DEF StructInv, TypeInv, EncoderTypes
<1>6. ASSUME NEW t \in Session PROVE VideoOf(t)'
  <2>1. VideoOf(t)
    BY DEF VideoInv
  <2>2. CASE t = s
    BY <2>2, <1>1, <1>2, <1>3, <1>4, <1>5 DEF VideoOf
  <2>3. CASE t # s
    BY <2>1, <2>3, <1>1, <1>5 DEF VideoOf
  <2>4. QED BY <2>2, <2>3
<1>7. QED BY <1>6 DEF VideoInv

LEMMA VideoStep == StructInv /\ VideoInv /\ [Next]_vars => VideoInv'
<1> SUFFICES ASSUME StructInv, VideoInv, [Next]_vars PROVE VideoInv'
  OBVIOUS
<1>t. NativeTypes
  BY DEF StructInv, TypeInv
<1>1. CASE StartScreencast \/ StartVideo
  <2>1. CASE StartNative(TRUE) \/ StartNative(FALSE)
    BY <2>1, StartNativeVideo
  <2>2. CASE StartSnapshotScreencast
    <3>1. PICK s \in Session : phase' = [phase EXCEPT ![s] = "script"]
      BY <2>2 DEF StartSnapshotScreencast
    <3>2. \A t \in Session : phase'[t] = "none" => phase[t] = "none"
      BY <3>1, <1>t DEF NativeTypes
    <3>3. enc' = enc /\ known' = known
      BY <2>2 DEF StartSnapshotScreencast
    <3>4. QED BY <3>2, <3>3, SameVideo
  <2>3. QED BY <1>1, <2>1, <2>2 DEF StartScreencast, StartVideo
<1>2. CASE StopScreencast \/ StopVideo \/ Dispose
  <2>1. enc' = enc /\ known' = known /\ phase' = phase
    BY <1>2 DEF StopScreencast, StopVideo, Dispose
  <2>2. QED BY <2>1, SameVideo
<1>3. CASE \E s \in Session : Ack(s, None) \/ Ack(s, s)
  <2>1. enc' = enc /\ known' = known /\ phase' = phase
    BY <1>3 DEF Ack
  <2>2. QED BY <2>1, SameVideo
<1>4. CASE RunMain
  <2>1. \E M, L : Release(phase, known, M, enc, L)
    BY <1>4 DEF RunMain, FrameRunnable, FinishedRunnable, StoppedRunnable
  <2>2. /\ known' = known /\ enc' = enc
        /\ \A t \in Session : phase'[t] = "none" => phase[t] = "none"
    BY <2>1, <1>t, Released DEF NativeTypes, Fate
  <2>3. QED BY <2>2, SameVideo
<1>5. CASE Native
  <2>1. CASE StopBegin
    <3>1. PICK s : phase[s] = "on" /\ phase' = [phase EXCEPT ![s] = "stopped"]
      BY <2>1 DEF StopBegin
    <3>2. \A t \in Session : phase'[t] = "none" => phase[t] = "none"
      BY <3>1, <1>t DEF NativeTypes
    <3>3. enc' = enc /\ known' = known
      BY <2>1 DEF StopBegin
    <3>4. QED BY <3>2, <3>3, SameVideo
  <2>2. CASE Tick \/ \E visible \in BOOLEAN : Snapshot(visible)
    <3>1. enc' = enc /\ known' = known /\ phase' = phase
      BY <2>2 DEF Snapshot, Tick
    <3>2. QED BY <3>1, SameVideo
  <2>3. QED BY <1>5, <2>1, <2>2, StopEndVideo, SnapshotDataVideo, EncoderTaskVideo DEF Native
<1>6. CASE \E s \in Session : LoopTick(s) \/ \E drawn \in BOOLEAN : LoopDrawn(s, drawn)
  <2>1. enc' = enc /\ known' = known /\ phase' = phase
    BY <1>6 DEF LoopTick, LoopDrawn, sVars
  <2>2. QED BY <2>1, SameVideo
<1>7. CASE UNCHANGED vars
  <2>1. enc' = enc /\ known' = known /\ phase' = phase
    BY <1>7 DEF vars, sVars
  <2>2. QED BY <2>1, SameVideo
<1>8. QED BY <1>1, <1>2, <1>3, <1>4, <1>5, <1>6, <1>7 DEF Next

\* A sound video whose file is closed is complete.
LEMMA ClosedVideo ==
  ASSUME NEW e \in Encoders, Sound(e), e.closed
  PROVE  /\ e.queue = <<>> /\ e.last = None /\ e.file = e.seen
         /\ e.seen # <<>> =>
              LET span == ((e.stamp - e.since) * timeScale) \div 2
              IN e.pts \in span..(span + Len(e.file))
<1>1. e.queue = <<>> /\ e.last = None /\ ~Ends(e) /\ Len(e.queue) = 0
  BY DEF Sound, EndsOnce, Ends
<1>2. PICK p, q \in Seq(Nat), b \in Nat, x \in Nat :
        p = e.file /\ q = e.seen /\ b = Len(p) /\ x = e.pts
  BY EncoderFields
<1>3. Len(q) = b /\ \A i \in 1..b : q[i] = p[i]
  <2>1. Len(e.seen) = Len(e.file) + 0 + 0 - 0
    BY <1>1 DEF Sound, Framed
  <2>2. Len(q) = b
    BY <2>1, <1>2
  <2>3. \A i \in 1..b : q[i] = p[i]
    BY <1>2 DEF Sound, Framed
  <2>4. QED BY <2>2, <2>3
<1>4. p = q
  BY <1>2, <1>3, SeqEqual
<1>5. ASSUME e.seen # <<>>
      PROVE  LET span == ((e.stamp - e.since) * timeScale) \div 2
             IN e.pts \in span..(span + Len(e.file))
  <2>1. /\ e.since # None /\ e.stamp # None /\ e.since <= e.stamp
        /\ \E D : Timeline(e, D)
    BY <1>5 DEF Sound, Clocked
  <2>2. PICK D : Timeline(e, D)
    BY <2>1
  <2>3. PICK d \in Nat : d = e.stamp - e.since
    BY <2>1, EncoderFields
  <2>4. D[0] = d /\ 500 * d <= x /\ x <= 500 * d + b
    BY <2>2, <2>3, <1>1, <1>2 DEF Timeline
  <2>5. ((e.stamp - e.since) * timeScale) \div 2 = 500 * d
    <3>1. (d * 1000) \div 2 = 500 * d
      OBVIOUS
    <3>2. QED BY <3>1, <2>3 DEF timeScale
  <2>6. x \in (500 * d)..(500 * d + b)
    BY <2>4
  <2>7. QED BY <2>5, <2>6, <1>2
<1>6. QED BY <1>1, <1>2, <1>4, <1>5

LEMMA VideoGives == StructInv /\ VideoInv => VideoComplete
<1> SUFFICES ASSUME StructInv, VideoInv, NEW s \in Session, enc[s].closed
             PROVE  /\ enc[s].queue = <<>> /\ enc[s].last = None
                    /\ enc[s].file = enc[s].seen
                    /\ enc[s].seen # <<>> =>
                         LET span == ((enc[s].stamp - enc[s].since) * timeScale) \div 2
                         IN enc[s].pts \in span..(span + Len(enc[s].file))
  BY DEF VideoComplete
<1>1. enc[s] \in Encoders /\ Sound(enc[s])
  BY DEF StructInv, TypeInv, EncoderTypes, VideoInv, VideoOf
<1>2. QED BY <1>1, ClosedVideo

\* Every video whose file is closed is whole: whatever the compositor, the
\* encoder threads and the stops of other recordings do in between, the frames
\* that encodeFrame got are in the file in order and once, and the durations
\* that flushLastFrame and encodeFrameAsync write add up to the recording's,
\* give or take one time unit per frame.
THEOREM VideoTheorem == Spec => []VideoComplete
<1>1. Init => StructInv /\ VideoInv
  BY InitStruct, InitVideo
<1>2. StructInv /\ VideoInv /\ [Next]_vars => StructInv' /\ VideoInv'
  BY StructStep, VideoStep
<1>3. StructInv /\ VideoInv => VideoComplete
  BY VideoGives
<1>4. QED BY <1>1, <1>2, <1>3, PTL DEF Spec

-----------------------------------------------------------------------------
(* Sums over a finite set, as MapThenSumSet computes them.                 *)

Picked(t) == CHOOSE x \in t : TRUE

SumOf(u, S) ==
  LET sum[t \in SUBSET S] ==
        IF t = {} THEN 0 ELSE u[Picked(t)] + sum[t \ {Picked(t)}]
  IN sum[S]

Row(u, h, t) == IF t = {} THEN 0 ELSE u[Picked(t)] + h[t \ {Picked(t)}]
IsSum(h, u, D) == h = [t \in D |-> Row(u, h, t)]
Agree(u, v, S) == \A x \in S : u[x] = v[x]
Small(S, n) == {t \in SUBSET S : Cardinality(t) <= n}

LEMMA Picking == \A t : t # {} => Picked(t) \in t
BY DEF Picked

LEMMA SumExists ==
  ASSUME NEW S, IsFiniteSet(S), NEW u, \A x \in S : u[x] \in Nat
  PROVE  \E h \in [SUBSET S -> Nat] : IsSum(h, u, SUBSET S)
<1> DEFINE P == {n \in Nat : \E h \in [Small(S, n) -> Nat] : IsSum(h, u, Small(S, n))}
<1>1. \A t \in SUBSET S : IsFiniteSet(t) /\ Cardinality(t) \in Nat
  BY FS_Subset, FS_CardinalityType
<1>2. 0 \in P
  <2> DEFINE h == [t \in Small(S, 0) |-> 0]
  <2>1. \A t \in Small(S, 0) : t = {}
    BY <1>1, FS_EmptySet DEF Small
  <2>2. h \in [Small(S, 0) -> Nat] /\ IsSum(h, u, Small(S, 0))
    BY <2>1 DEF IsSum, Row
  <2>3. QED BY <2>2
<1>3. ASSUME NEW n \in Nat, n \in P PROVE n + 1 \in P
  <2>1. PICK h \in [Small(S, n) -> Nat] : IsSum(h, u, Small(S, n))
    BY <1>3
  <2> DEFINE k == [t \in Small(S, n + 1) |-> Row(u, h, t)]
  <2>2. ASSUME NEW t \in Small(S, n + 1), t # {} PROVE t \ {Picked(t)} \in Small(S, n)
    <3>1. Picked(t) \in t /\ t \in SUBSET S
      BY <2>2, Picking DEF Small
    <3>2. Cardinality(t \ {Picked(t)}) = Cardinality(t) - 1
      BY <3>1, <1>1, FS_RemoveElement
    <3>3. QED BY <3>1, <3>2, <1>1 DEF Small
  <2>3. \A t \in Small(S, n + 1) : Row(u, h, t) \in Nat
    <3>1. \A t \in Small(S, n + 1) : t # {} => u[Picked(t)] \in Nat
      BY Picking DEF Small
    <3>2. QED BY <2>2, <3>1 DEF Row
  <2>4. k \in [Small(S, n + 1) -> Nat]
    BY <2>3
  <2>5. ASSUME NEW t \in Small(S, n) PROVE k[t] = h[t]
    <3>1. t \in Small(S, n + 1)
      BY <1>1 DEF Small
    <3>2. h[t] = Row(u, h, t)
      BY <2>1 DEF IsSum
    <3>3. QED BY <3>1, <3>2
  <2>6. \A t \in Small(S, n + 1) : k[t] = Row(u, h, t)
    OBVIOUS
  <2>7. k = [t \in Small(S, n + 1) |-> Row(u, h, t)]
    OBVIOUS
  <2> HIDE DEF k
  <2>8. \A t \in Small(S, n + 1) : Row(u, h, t) = Row(u, k, t)
    BY <2>2, <2>5 DEF Row
  <2>9. IsSum(k, u, Small(S, n + 1))
    BY <2>7, <2>8 DEF IsSum
  <2>10. QED BY <2>4, <2>9
<1>4. Nat \subseteq P
  <2> HIDE DEF P
  <2>1. QED BY <1>2, <1>3, SetInduction
<1>5. Small(S, Cardinality(S)) = SUBSET S
  BY FS_Subset DEF Small
<1>6. Cardinality(S) \in Nat
  BY FS_CardinalityType
<1>7. QED BY <1>4, <1>5, <1>6

\* Tables of one function and another that agree on a set have its sum in
\* common, and any member may be added last.
LEMMA SumsAgree ==
  ASSUME NEW S, IsFiniteSet(S), NEW R, NEW u, NEW v, NEW h, NEW k,
         IsSum(h, u, SUBSET S), IsSum(k, v, SUBSET R), S \in SUBSET R,
         Agree(u, v, S)
  PROVE  h[S] = k[S]
<1> DEFINE P == {t \in SUBSET S : h[t] = k[t]}
<1>1. \A t \in SUBSET S : h[t] = Row(u, h, t)
  BY DEF IsSum
<1>2. \A t \in SUBSET S : k[t] = Row(v, k, t)
  BY DEF IsSum
<1>3. {} \in P
  BY <1>1, <1>2 DEF Row
<1>4. ASSUME NEW t \in SUBSET S, t # {}, \A x \in t : t \ {x} \in P PROVE t \in P
  <2>1. Picked(t) \in t
    BY <1>4, Picking
  <2>2. h[t \ {Picked(t)}] = k[t \ {Picked(t)}] /\ u[Picked(t)] = v[Picked(t)]
    BY <2>1, <1>4 DEF Agree
  <2>3. QED BY <2>2, <1>1, <1>2, <1>4 DEF Row
<1>5. SUBSET S \subseteq P
  <2> HIDE DEF P
  <2>1. QED BY <1>3, <1>4, SubsetInduction
<1>6. QED BY <1>5

LEMMA SumSwaps ==
  ASSUME NEW S, IsFiniteSet(S), NEW u, \A x \in S : u[x] \in Nat,
         NEW h \in [SUBSET S -> Nat], IsSum(h, u, SUBSET S)
  PROVE  \A t \in SUBSET S : \A x \in t : h[t] = u[x] + h[t \ {x}]
<1> DEFINE P == {t \in SUBSET S : \A x \in t : h[t] = u[x] + h[t \ {x}]}
<1>1. \A t \in SUBSET S : h[t] = Row(u, h, t)
  BY DEF IsSum
<1>2. {} \in P
  OBVIOUS
<1>3. ASSUME NEW t \in SUBSET S, t # {}, \A x \in t : t \ {x} \in P PROVE t \in P
  <2> SUFFICES ASSUME NEW x \in t PROVE h[t] = u[x] + h[t \ {x}]
    OBVIOUS
  <2>1. PICK p \in t : p = Picked(t) /\ h[t] = u[p] + h[t \ {p}]
    BY <1>1, <1>3, Picking DEF Row
  <2>2. CASE x = p
    BY <2>1, <2>2
  <2>3. CASE x # p
    <3>1. x \in t \ {p} /\ p \in t \ {x} /\ (t \ {p}) \ {x} = (t \ {x}) \ {p}
      BY <2>3
    <3>2. h[t \ {p}] = u[x] + h[(t \ {p}) \ {x}]
      BY <3>1, <1>3
    <3>3. h[t \ {x}] = u[p] + h[(t \ {p}) \ {x}]
      BY <3>1, <1>3
    <3>4. u[x] \in Nat /\ u[p] \in Nat /\ h[(t \ {p}) \ {x}] \in Nat
      OBVIOUS
    <3>5. QED BY <2>1, <3>2, <3>3, <3>4
  <2>4. QED BY <2>2, <2>3
<1>4. SUBSET S \subseteq P
  <2> HIDE DEF P
  <2>1. QED BY <1>2, <1>3, SubsetInduction
<1>5. QED BY <1>4

LEMMA SumTable ==
  ASSUME NEW S, IsFiniteSet(S), NEW u, \A x \in S : u[x] \in Nat
  PROVE  \E h \in [SUBSET S -> Nat] : IsSum(h, u, SUBSET S) /\ SumOf(u, S) = h[S]
<1> DEFINE sum == CHOOSE h : h = [t \in SUBSET S |->
                    IF t = {} THEN 0 ELSE u[Picked(t)] + h[t \ {Picked(t)}]]
<1>1. SumOf(u, S) = sum[S]
  BY DEF SumOf
<1>2. PICK k \in [SUBSET S -> Nat] : IsSum(k, u, SUBSET S)
  BY SumExists
<1>3. sum = [t \in SUBSET S |-> IF t = {} THEN 0 ELSE u[Picked(t)] + sum[t \ {Picked(t)}]]
  BY <1>2 DEF IsSum, Row
<1> HIDE DEF sum
<1>4. IsSum(sum, u, SUBSET S)
  BY <1>3 DEF IsSum, Row
<1>5. ASSUME NEW t \in SUBSET S PROVE sum[t] = k[t]
  <2>1. IsFiniteSet(t)
    BY FS_Subset
  <2>2. IsSum([r \in SUBSET t |-> sum[r]], u, SUBSET t)
    <3> DEFINE g == [r \in SUBSET t |-> sum[r]]
    <3>1. \A r \in SUBSET t : sum[r] = Row(u, sum, r)
      BY <1>4 DEF IsSum
    <3>2. \A r \in SUBSET t : Row(u, sum, r) = Row(u, g, r)
      BY DEF Row
    <3>3. \A r \in SUBSET t : g[r] = Row(u, g, r)
      BY <3>1, <3>2
    <3> QED BY <3>1, <3>2 DEF IsSum
  <2>3. [r \in SUBSET t |-> sum[r]][t] = k[t]
    <3>1. PICK g : g = [r \in SUBSET t |-> sum[r]]
      OBVIOUS
    <3>2. IsSum(g, u, SUBSET t) /\ t \in SUBSET S /\ Agree(u, u, t)
      BY <2>2, <3>1 DEF Agree
    <3>3. g[t] = k[t]
      BY <2>1, <3>2, <1>2, SumsAgree
    <3>4. QED BY <3>1, <3>3
  <2>4. QED BY <2>3
<1>6. sum \in [SUBSET S -> Nat]
  BY <1>3, <1>5
<1>7. QED BY <1>1, <1>4, <1>6

\* What MapThenSumSet is worth.
LEMMA Sums ==
  ASSUME NEW S, IsFiniteSet(S), NEW u, \A x \in S : u[x] \in Nat
  PROVE  /\ SumOf(u, S) \in Nat
         /\ S = {} => SumOf(u, S) = 0
         /\ \A x \in S : SumOf(u, S) = u[x] + SumOf(u, S \ {x})
         /\ \A v : Agree(u, v, S) => SumOf(v, S) = SumOf(u, S)
<1>1. PICK h \in [SUBSET S -> Nat] : IsSum(h, u, SUBSET S) /\ SumOf(u, S) = h[S]
  BY SumTable
<1>2. S = {} => h[S] = 0
  BY <1>1 DEF IsSum, Row
<1>3. ASSUME NEW x \in S PROVE h[S] = u[x] + SumOf(u, S \ {x})
  <2>1. IsFiniteSet(S \ {x}) /\ S \ {x} \in SUBSET S
    BY FS_RemoveElement
  <2>2. PICK k : IsSum(k, u, SUBSET (S \ {x})) /\ SumOf(u, S \ {x}) = k[S \ {x}]
    BY <2>1, SumTable
  <2>3. k[S \ {x}] = h[S \ {x}]
    <3>1. Agree(u, u, S \ {x})
      BY DEF Agree
    <3>2. QED BY <3>1, <2>1, <2>2, <1>1, SumsAgree, SMTT(30)
  <2>4. h[S] = u[x] + h[S \ {x}]
    BY <1>1, SumSwaps
  <2>5. QED BY <2>2, <2>3, <2>4
<1>4. ASSUME NEW v, Agree(u, v, S) PROVE SumOf(v, S) = h[S]
  <2>1. \A x \in S : v[x] \in Nat
    BY <1>4 DEF Agree
  <2>2. PICK k : IsSum(k, v, SUBSET S) /\ SumOf(v, S) = k[S]
    BY <2>1, SumTable
  <2>3. h[S] = k[S]
    <3>1. S \in SUBSET S
      OBVIOUS
    <3>2. QED BY <3>1, <2>2, <1>1, <1>4, SumsAgree
  <2>4. QED BY <2>2, <2>3
<1>5. QED BY <1>1, <1>2, <1>3, <1>4

\* A change of one member changes the sum by as much.
LEMMA SumChanges ==
  ASSUME NEW S \in SUBSET Session, IsFiniteSet(S), NEW u \in [Session -> Nat],
         NEW x \in S, NEW n \in Nat
  PROVE  /\ SumOf(u, S) \in Nat /\ u[x] <= SumOf(u, S)
         /\ SumOf([u EXCEPT ![x] = n], S) = (SumOf(u, S) - u[x]) + n
<1> DEFINE v == [u EXCEPT ![x] = n]
<1>1. /\ \A y \in S : u[y] \in Nat /\ v[y] \in Nat
      /\ v[x] = n /\ Agree(u, v, S \ {x})
  BY DEF Agree
<1> HIDE DEF v
<1>2. IsFiniteSet(S \ {x}) /\ \A y \in S \ {x} : u[y] \in Nat
  BY <1>1, FS_RemoveElement
<1>3. SumOf(u, S \ {x}) \in Nat /\ SumOf(v, S \ {x}) = SumOf(u, S \ {x})
  BY <1>1, <1>2, Sums
<1>4. SumOf(u, S) = u[x] + SumOf(u, S \ {x})
  BY <1>1, Sums
<1>5. SumOf(v, S) = v[x] + SumOf(v, S \ {x})
  BY <1>1, Sums
<1>6. SumOf(u, S) \in Nat /\ u[x] <= SumOf(u, S) /\ SumOf(v, S) = (SumOf(u, S) - u[x]) + n
  BY <1>1, <1>3, <1>4, <1>5
<1>7. QED BY <1>6 DEF v

\* A member that counts for nothing.
LEMMA SumGrows ==
  ASSUME NEW R, NEW S \in SUBSET R, IsFiniteSet(S), NEW u \in [R -> Nat],
         NEW x \in R \ S, u[x] = 0
  PROVE  SumOf(u, S \cup {x}) = SumOf(u, S)
<1>1. IsFiniteSet(S \cup {x}) /\ \A y \in S \cup {x} : u[y] \in Nat
  BY FS_AddElement
<1>2. (S \cup {x}) \ {x} = S /\ x \in S \cup {x}
  OBVIOUS
<1>3. SumOf(u, S \cup {x}) = u[x] + SumOf(u, S)
  BY <1>1, <1>2, Sums
<1>4. SumOf(u, S) \in Nat
  BY <1>1, Sums
<1>5. QED BY <1>3, <1>4

-----------------------------------------------------------------------------
(* Where a runnable is in a queue.                                         *)

Places(q, r) == {i \in 1..Len(q) : q[i] = r}

LEMMA PlacesCount ==
  ASSUME NEW q \in Seq(Runnables), NEW r
  PROVE  /\ IsFiniteSet(Places(q, r)) /\ Cardinality(Places(q, r)) \in Nat
         /\ Places(q, r) = {} => Cardinality(Places(q, r)) = 0
<1>1. Places(q, r) \in SUBSET (1..Len(q)) /\ IsFiniteSet(1..Len(q))
  BY FS_Interval DEF Places
<1>2. IsFiniteSet(Places(q, r))
  BY <1>1, FS_Subset
<1>3. QED BY <1>2, FS_CardinalityType, FS_EmptySet

LEMMA PlacesAppend ==
  ASSUME NEW q \in Seq(Runnables), NEW r, NEW x \in Runnables, x # r
  PROVE  Places(Append(q, x), r) = Places(q, r)
<1>1. PICK p \in Seq(Runnables) : p = Append(q, x)
  BY AppendProperties
<1>2. /\ Len(p) = Len(q) + 1 /\ Len(q) \in Nat
      /\ \A i \in 1..Len(q) : p[i] = q[i]
      /\ p[Len(q) + 1] = x
  BY <1>1, AppendProperties
<1>3. \A i \in 1..Len(p) : i \in 1..Len(q) \/ i = Len(q) + 1
  BY <1>2
<1>4. \A i \in 1..Len(q) : i \in 1..Len(p)
  BY <1>2
<1>5. Places(p, r) = Places(q, r)
  BY <1>2, <1>3, <1>4 DEF Places
<1>6. QED BY <1>1, <1>5

LEMMA PlacesTail ==
  ASSUME NEW q \in Seq(Runnables), NEW r, q # <<>>
  PROVE  /\ Cardinality(Places(Tail(q), r)) <= Cardinality(Places(q, r))
         /\ Head(q) = r => Cardinality(Places(Tail(q), r)) + 1 <= Cardinality(Places(q, r))
<1>1. PICK t \in Seq(Runnables) : t = Tail(q)
  BY HeadTailProperties
<1>2. /\ Len(t) = Len(q) - 1 /\ Len(q) \in Nat \ {0} /\ Head(q) = q[1]
      /\ \A i \in 1..Len(t) : t[i] = q[i + 1]
  BY <1>1, HeadTailProperties
<1> DEFINE P == Places(t, r)
           Q == Places(q, r) \ {1}
           f == [i \in P |-> i + 1]
<1>3. \A i \in 1..Len(t) : i + 1 \in 1..Len(q) /\ i + 1 # 1
  BY <1>2
<1>4. \A i \in P : i \in Nat /\ i + 1 \in Q
  BY <1>2, <1>3 DEF Places
<1>5. f \in Injection(P, Q)
  BY <1>4 DEF Injection, IsInjective
<1>6. IsFiniteSet(Places(q, r)) /\ Cardinality(Places(q, r)) \in Nat
      /\ Cardinality(P) \in Nat
  BY PlacesCount
<1>7. /\ IsFiniteSet(Q)
      /\ Cardinality(Q) = IF 1 \in Places(q, r) THEN Cardinality(Places(q, r)) - 1
                                              ELSE Cardinality(Places(q, r))
  BY <1>6, FS_RemoveElement
<1>8. Cardinality(P) <= Cardinality(Q)
  BY <1>5, <1>7, FS_Injection
<1>9. Head(q) = r => 1 \in Places(q, r)
  BY <1>2 DEF Places
<1>10. /\ Cardinality(P) <= Cardinality(Places(q, r))
       /\ Head(q) = r => Cardinality(P) + 1 <= Cardinality(Places(q, r))
  BY <1>6, <1>7, <1>8, <1>9
<1>11. QED BY <1>1, <1>10

\* A runnable that is not in what is queued later, or once.
LEMMA PlacesConcat ==
  ASSUME NEW q \in Seq(Runnables), NEW r, NEW S \in Seq(Runnables),
         \A i, j \in 1..Len(S) : S[i] = r /\ S[j] = r => i = j
  PROVE  /\ Cardinality(Places(q \o S, r)) <= Cardinality(Places(q, r)) + 1
         /\ (\A i \in 1..Len(S) : S[i] # r) => Places(q \o S, r) = Places(q, r)
<1>1. PICK p \in Seq(Runnables) : p = q \o S
  BY ConcatProperties
<1>2. /\ Len(p) = Len(q) + Len(S) /\ Len(q) \in Nat /\ Len(S) \in Nat
      /\ \A i \in 1..(Len(q) + Len(S)) :
           p[i] = IF i <= Len(q) THEN q[i] ELSE S[i - Len(q)]
  BY <1>1, ConcatProperties
<1>3. \A i \in 1..Len(q) : i \in 1..Len(p) /\ p[i] = q[i]
  BY <1>2
<1>4. \A i \in 1..Len(p) : i \notin 1..Len(q) => i - Len(q) \in 1..Len(S) /\ p[i] = S[i - Len(q)]
  BY <1>2
<1>5. ASSUME \A i \in 1..Len(S) : S[i] # r PROVE Places(p, r) = Places(q, r)
  BY <1>3, <1>4, <1>5 DEF Places
<1>6. CASE \A i \in 1..Len(S) : S[i] # r
  <2>1. Cardinality(Places(q, r)) \in Nat
    BY PlacesCount
  <2>2. QED BY <2>1, <1>1, <1>5, <1>6
<1>7. CASE \E k \in 1..Len(S) : S[k] = r
  <2>1. PICK k \in 1..Len(S) : S[k] = r
    BY <1>7
  <2>2. PICK n \in Nat : n = Len(q) + k
    BY <1>2
  <2>3. Places(p, r) \subseteq Places(q, r) \cup {n}
    <3>1. ASSUME NEW i \in 1..Len(p), p[i] = r, i \notin 1..Len(q) PROVE i = n
      <4>1. i - Len(q) \in 1..Len(S) /\ S[i - Len(q)] = r
        BY <3>1, <1>4
      <4>2. i - Len(q) = k
        BY <4>1, <2>1
      <4>3. QED BY <4>2, <2>2, <1>2
    <3>2. QED BY <3>1, <1>3 DEF Places
  <2>4. IsFiniteSet(Places(q, r)) /\ Cardinality(Places(q, r)) \in Nat
    BY PlacesCount
  <2>5. /\ IsFiniteSet(Places(q, r) \cup {n})
        /\ Cardinality(Places(q, r) \cup {n}) <= Cardinality(Places(q, r)) + 1
    <3>1. /\ IsFiniteSet(Places(q, r) \cup {n})
          /\ \/ Cardinality(Places(q, r) \cup {n}) = Cardinality(Places(q, r))
             \/ Cardinality(Places(q, r) \cup {n}) = Cardinality(Places(q, r)) + 1
      BY <2>4, FS_AddElement
    <3>2. QED BY <2>4, <3>1
  <2>6. Cardinality(Places(p, r)) <= Cardinality(Places(q, r) \cup {n})
    BY <2>3, <2>5, FS_Subset
  <2>7. Cardinality(Places(p, r)) \in Nat /\ Cardinality(Places(q, r) \cup {n}) \in Nat
    BY <2>5, PlacesCount, FS_CardinalityType
  <2>8. Cardinality(Places(p, r)) <= Cardinality(Places(q, r)) + 1
    BY <2>4, <2>5, <2>6, <2>7
  <2>9. QED BY <1>1, <2>1, <2>8
<1>8. QED BY <1>6, <1>7

-----------------------------------------------------------------------------
(* A client that runs one screencast at a time, and does not acknowledge,  *)
(* holds no more frames than it started screencasts: what it holds, what   *)
(* is queued for it and what the current screencast may still send are     *)
(* never more.                                                             *)

Waiting == SumOf(unacked, Casts)
Coming == IF cast = None THEN 0 ELSE Cardinality(Places(mainQ, Runnable("frame", cast)))
Open == IF cast = None THEN 0
        ELSE IF headless THEN 1 - flying[cast]
        ELSE IF loop[cast].inFlight THEN 0 ELSE 1

BudgetInv == Waiting + Coming + Open <= Cardinality(Casts)

\* The terms of the budget are numbers.
Countable == /\ Casts \in SUBSET Session /\ IsFiniteSet(Casts) /\ Cardinality(Casts) \in Nat
             /\ Waiting \in Nat /\ Coming \in Nat /\ Open \in 0..1

LEMMA Counts == TypeInv => Countable
<1> SUFFICES ASSUME TypeInv PROVE Countable
  OBVIOUS
<1>1. Casts \in SUBSET Session
  BY DEF Casts
<1>2. IsFiniteSet(Casts) /\ Cardinality(Casts) \in Nat
  BY <1>1, Sessions, FS_Subset, FS_CardinalityType
<1>3. Waiting \in Nat
  <2>1. \A s \in Casts : unacked[s] \in Nat
    BY <1>1 DEF TypeInv, PageTypes
  <2>2. QED BY <1>2, <2>1, Sums DEF Waiting
<1>4. Coming \in Nat
  BY PlacesCount DEF Coming, TypeInv, QueueTypes
<1>5. Open \in 0..1
  <2>1. cast = None => Open = 0
    BY DEF Open
  <2>2. CASE cast # None
    <3>1. flying[cast] \in 0..1
      BY <2>2 DEF TypeInv, PageTypes, NativeTypes
    <3>2. Open \in {1 - flying[cast], 0, 1}
      BY <2>2 DEF Open
    <3>3. QED BY <3>1, <3>2
  <2>3. QED BY <2>1, <2>2
<1>6. QED BY <1>1, <1>2, <1>3, <1>4, <1>5 DEF Countable

LEMMA CountsNext == TypeInv' => Countable'
BY Counts, PTL

Settled == UNCHANGED cast /\ Casts' = Casts

\* What a step does to the budget, and to the promise.
Quiet == Settled /\ Waiting' = Waiting /\ Coming' + Open' <= Coming + Open
CastBegins == /\ cast = None /\ cast' # None /\ Cardinality(Casts') = Cardinality(Casts) + 1
          /\ Waiting' = Waiting /\ Coming' + Open' <= 1
CastEnds == cast # None /\ cast' = None /\ Casts' = Casts /\ Waiting' = Waiting
Delivers == /\ Settled /\ cast # None /\ Waiting' = Waiting + 1
            /\ (Coming' + Open') + 1 <= Coming + Open
Acked == /\ Settled /\ Waiting > 0 /\ Waiting' = Waiting - 1
         /\ Coming' + Open' <= (Coming + Open) + 1
Budgeted == Quiet \/ CastBegins \/ CastEnds \/ Delivers \/ Acked

LEMMA WaitingIs == /\ MapThenSumSet(LAMBDA s : unacked[s], Casts) = Waiting
                   /\ MapThenSumSet(LAMBDA s : unacked[s], Casts)' = Waiting'
<1>1. MapThenSumSet(LAMBDA s : unacked[s], Casts) = SumOf(unacked, Casts)
  BY DEF MapThenSumSet, MapThenFoldSet, SumOf, Picked
<1>2. MapThenSumSet(LAMBDA s : unacked[s], Casts)' = SumOf(unacked', Casts')
  BY DEF MapThenSumSet, MapThenFoldSet, SumOf, Picked
<1>3. QED BY <1>1, <1>2 DEF Waiting

Shown == <<cast # None, Cardinality(Casts), MapThenSumSet(LAMBDA s : unacked[s], Casts)>>

LEMMA BudgetKept ==
  ASSUME TypeInv, TypeInv', BudgetInv, Budgeted
  PROVE  BudgetInv' /\ [T!Next]_Shown
<1>1. /\ Cardinality(Casts) \in Nat /\ Waiting \in Nat /\ Coming \in Nat /\ Open \in 0..1
      /\ Cardinality(Casts)' \in Nat /\ Waiting' \in Nat /\ Coming' \in Nat /\ Open' \in 0..1
  BY Counts, CountsNext DEF Countable
<1>a. PICK n, w, k, n1, w1, k1 \in Nat :
        /\ n = Cardinality(Casts) /\ w = Waiting /\ k = Coming + Open
        /\ n1 = Cardinality(Casts)' /\ w1 = Waiting' /\ k1 = Coming' + Open'
  <2>1. \A a \in Nat, b \in 0..1 : a + b \in Nat
    OBVIOUS
  <2>2. Coming + Open \in Nat /\ Coming' + Open' \in Nat
    BY <1>1, <2>1, Zenon
  <2>3. QED BY <1>1, <2>2, Zenon
<1>b. w + k <= n
  <2>1. Waiting + (Coming + Open) <= Cardinality(Casts)
    BY <1>1 DEF BudgetInv
  <2>2. QED BY <2>1, <1>a, Zenon
<1>2. BudgetInv'
  <2>1. w1 + k1 <= n1
    <3>1. CASE Quiet
      <4>1. w1 = w /\ k1 <= k /\ n1 = n
        BY <3>1, <1>a, Zenon DEF Quiet, Settled
      <4>2. QED BY <4>1, <1>b
    <3>2. CASE CastBegins
      <4>1. w1 = w /\ k1 <= 1 /\ n1 = n + 1
        BY <3>2, <1>a, Zenon DEF CastBegins
      <4>2. Coming = 0 /\ Open = 0
        BY <3>2 DEF CastBegins, Coming, Open
      <4>3. QED BY <4>1, <1>b
    <3>3. CASE CastEnds
      <4>1. Coming' = 0 /\ Open' = 0
        BY <3>3 DEF CastEnds, Coming, Open
      <4>2. k1 = 0
        BY <4>1, <1>a
      <4>3. w1 = w /\ n1 = n
        BY <3>3, <1>a, Zenon DEF CastEnds
      <4>4. QED BY <4>2, <4>3, <1>b
    <3>4. CASE Delivers
      <4>1. w1 = w + 1 /\ k1 = Coming' + Open' /\ n1 = n
        BY <3>4, <1>a, Zenon DEF Delivers, Settled
      <4>2. k1 + 1 <= k
        BY <3>4, <1>a, Zenon DEF Delivers
      <4>3. QED BY <4>1, <4>2, <1>b
    <3>5. CASE Acked
      <4>1. w > 0 /\ w1 = w - 1 /\ k1 <= k + 1 /\ n1 = n
        BY <3>5, <1>a, Zenon DEF Acked, Settled
      <4>2. QED BY <4>1, <1>b
    <3>6. QED BY <3>1, <3>2, <3>3, <3>4, <3>5 DEF Budgeted
  <2>2. Waiting' + (Coming' + Open') <= Cardinality(Casts)'
    BY <2>1, <1>a, Zenon
  <2>3. QED BY <2>2, <1>1 DEF BudgetInv
<1>3. [T!Next]_Shown
  <2>1. CASE Quiet
    <3>1. UNCHANGED Shown
      BY <2>1, WaitingIs DEF Quiet, Settled, Shown
    <3>2. QED BY <3>1
  <2>2. CASE CastBegins
    <3>1. T!Start
      BY <2>2, WaitingIs DEF CastBegins, T!Start
    <3>2. QED BY <3>1 DEF T!Next
  <2>3. CASE CastEnds
    <3>1. T!Stop
      BY <2>3, WaitingIs DEF CastEnds, T!Stop
    <3>2. QED BY <3>1 DEF T!Next
  <2>4. CASE Delivers
    <3>1. Waiting < Cardinality(Casts)
      <4>1. k1 + 1 <= k
        BY <2>4, <1>a, Zenon DEF Delivers
      <4>2. w < n
        BY <4>1, <1>b
      <4>3. QED BY <4>2, <1>a, Zenon
    <3>2. T!Frame
      BY <2>4, <3>1, WaitingIs, Zenon DEF Delivers, Settled, T!Frame
    <3>3. QED BY <3>2 DEF T!Next
  <2>5. CASE Acked
    <3>1. T!Ack
      BY <2>5, WaitingIs, Zenon DEF Acked, Settled, T!Ack
    <3>2. QED BY <3>1 DEF T!Next
  <2>6. QED BY <2>1, <2>2, <2>3, <2>4, <2>5 DEF Budgeted
<1>4. QED BY <1>2, <1>3

LEMMA InitBudget == Init => BudgetInv /\ T!Init
<1> SUFFICES ASSUME Init PROVE BudgetInv /\ T!Init
  OBVIOUS
<1>1. Casts = {} /\ cast = None
  BY DEF Init, SInit, Casts
<1>2. Cardinality(Casts) = 0
  BY <1>1, FS_EmptySet
<1>3. Waiting = 0
  <2>1. IsFiniteSet(Casts) /\ \A x \in Casts : unacked[x] \in Nat
    BY <1>1, FS_EmptySet
  <2>2. QED BY <1>1, <2>1, Sums DEF Waiting
<1>4. BudgetInv
  BY <1>1, <1>2, <1>3 DEF BudgetInv, Coming, Open
<1>5. T!Init
  BY <1>1, <1>2, <1>3, WaitingIs DEF T!Init
<1>6. QED BY <1>4, <1>5

\* A step that neither delivers a frame nor lets one more come.
LEMMA SameBudget ==
  ASSUME TypeInv, TypeInv', UNCHANGED <<headless, isVideo, cast, flying, loop, unacked>>,
         \A s \in Session : phase'[s] = "none" <=> phase[s] = "none",
         Places(mainQ, Runnable("frame", cast))' = Places(mainQ, Runnable("frame", cast))
  PROVE  Quiet
<1>1. Casts' = Casts
  BY DEF Casts
<1>2. Waiting' = Waiting
  BY <1>1 DEF Waiting
<1>3. Coming' = Coming /\ Open' = Open
  BY DEF Coming, Open
<1>4. Coming + Open \in Nat
  BY Counts DEF Countable
<1>5. QED BY <1>1, <1>2, <1>3, <1>4 DEF Quiet, Settled

\* A screencast that starts has no frame to acknowledge.
LEMMA CastAdded ==
  ASSUME TypeInv, NEW s \in Session, s \notin Casts, unacked[s] = 0,
         UNCHANGED unacked, Casts' = Casts \cup {s}
  PROVE  Cardinality(Casts') = Cardinality(Casts) + 1 /\ Waiting' = Waiting
<1>1. Casts \in SUBSET Session /\ IsFiniteSet(Casts) /\ s \in Session \ Casts
      /\ unacked \in [Session -> Nat]
  BY Counts DEF Countable, TypeInv, PageTypes
<1>2. Cardinality(Casts \cup {s}) = Cardinality(Casts) + 1
  BY <1>1, FS_AddElement
<1>3. SumOf(unacked, Casts \cup {s}) = SumOf(unacked, Casts)
  BY <1>1, SumGrows
<1>4. QED BY <1>2, <1>3 DEF Waiting

LEMMA StartNativeBudget ==
  ASSUME Stalls, NEW video \in BOOLEAN, StartNative(video), headless,
         video \/ cast = None
  PROVE  Budgeted
<1> USE DEF Stalls, StallInv
<1>t. TypeInv /\ NativeTypes /\ PageTypes /\ QueueTypes /\ TypeInv'
  BY DEF StructInv, TypeInv
<1>1. PICK s \in Session :
        /\ StartVideoRecording(s, video)
        /\ IF video THEN tape' = s /\ UNCHANGED cast ELSE cast' = s /\ UNCHANGED tape
        /\ UNCHANGED <<headless, disposed, loop, unacked, notified>>
  BY DEF StartNative
<1>2. /\ Fresh(s) /\ phase' = [phase EXCEPT ![s] = "on"]
      /\ isVideo' = (IF video THEN isVideo \cup {s} ELSE isVideo)
      /\ UNCHANGED <<flying, mainQ, stops>>
  BY <1>1 DEF StartVideoRecording
<1>3. /\ phase[s] = "none" /\ phase'[s] = "on" /\ s \notin isVideo
      /\ \A t \in Session : t # s => phase'[t] = phase[t] /\ (t \in isVideo' <=> t \in isVideo)
  BY <1>2, <1>t DEF Fresh, NativeTypes, StructInv, KnownInv, Begun
<1>4. flying[s] = 0 /\ unacked[s] = 0
  BY <1>3 DEF ClientInv
<1>5. CASE video
  <2>1. Casts' = Casts
    BY <1>2, <1>3, <1>5 DEF Casts
  <2>2. Waiting' = Waiting
    BY <2>1, <1>1 DEF Waiting
  <2>3. Coming' = Coming /\ Open' = Open
    BY <1>1, <1>2, <1>5 DEF Coming, Open
  <2>4. Coming + Open \in Nat
    BY <1>t, Counts DEF Countable
  <2>5. QED BY <2>1, <2>2, <2>3, <2>4, <1>1, <1>5 DEF Budgeted, Quiet, Settled
<1>6. CASE ~video
  <2>1. Casts' = Casts \cup {s} /\ s \notin Casts
    BY <1>2, <1>3, <1>6 DEF Casts
  <2>3. /\ Cardinality(Casts') = Cardinality(Casts) + 1 /\ Waiting' = Waiting
    BY <2>1, <1>1, <1>4, <1>t, CastAdded
  <2>4. Places(mainQ, Runnable("frame", s)) = {}
    BY <1>3, FrameRunnables DEF Places, FrameInv
  <2>5. Coming' = 0 /\ Open' = 1
    <3>1. cast' = s /\ s # None
      BY <1>1, <1>6, Sessions
    <3>2. Coming' = Cardinality(Places(mainQ, Runnable("frame", s)))
      BY <3>1, <1>2 DEF Coming
    <3>3. Open' = 1
      BY <3>1, <1>1, <1>2, <1>4 DEF Open
    <3>4. QED BY <2>4, <3>2, <3>3, FS_EmptySet
  <2>6. cast = None /\ cast' # None
    BY <1>1, <1>6, Sessions
  <2>7. QED BY <2>3, <2>5, <2>6 DEF Budgeted, CastBegins
<1>7. QED BY <1>5, <1>6

LEMMA StartSnapshotBudget ==
  ASSUME Stalls, StartSnapshotScreencast, ~headless, cast = None
  PROVE  Budgeted
<1> USE DEF Stalls, StallInv
<1>t. TypeInv /\ NativeTypes /\ PageTypes /\ QueueTypes
  BY DEF StructInv, TypeInv
<1>1. PICK s \in Session :
        /\ Fresh(s) /\ phase' = [phase EXCEPT ![s] = "script"]
        /\ loop' = [loop EXCEPT ![s].tick = "timer"] /\ cast' = s
        /\ UNCHANGED <<isVideo, flying, mainQ, stops>>
        /\ UNCHANGED <<headless, unacked>>
  BY DEF StartSnapshotScreencast
<1>2. /\ phase[s] = "none" /\ phase'[s] = "script" /\ s \notin isVideo
      /\ \A t \in Session : t # s => phase'[t] = phase[t]
  BY <1>1, <1>t DEF Fresh, NativeTypes, StructInv, KnownInv, Begun
<1>3. unacked[s] = 0 /\ ~loop[s].inFlight
  BY <1>2 DEF ClientInv
<1>4. Casts' = Casts \cup {s} /\ s \notin Casts
  BY <1>1, <1>2 DEF Casts
<1>5. Cardinality(Casts') = Cardinality(Casts) + 1 /\ Waiting' = Waiting
  BY <1>1, <1>3, <1>4, <1>t, CastAdded
<1>6. Places(mainQ, Runnable("frame", s)) = {}
  BY <1>2, FrameRunnables DEF Places, FrameInv
<1>7. cast' = s /\ s # None
  BY <1>1, Sessions
<1>8. Coming' = 0
  <2>1. Coming' = Cardinality(Places(mainQ, Runnable("frame", s)))
    BY <1>7, <1>1 DEF Coming
  <2>2. QED BY <2>1, <1>6, FS_EmptySet
<1>9. Open' = 1
  <2>1. ~loop'[s].inFlight
    BY <1>1, <1>3, <1>t DEF PageTypes, Loops
  <2>2. QED BY <2>1, <1>1, <1>7 DEF Open
<1>10. QED BY <1>5, <1>7, <1>8, <1>9 DEF Budgeted, CastBegins

LEMMA PageStopsBudget ==
  ASSUME Stalls, StopScreencast \/ StopVideo \/ Dispose
  PROVE  Budgeted
<1>t. TypeInv /\ PageTypes
  BY DEF Stalls, StructInv, TypeInv
<1>1. UNCHANGED <<phase, isVideo, flying, mainQ, headless, unacked>>
  BY DEF StopScreencast, StopVideo, Dispose
<1>2. Casts' = Casts
  BY <1>1 DEF Casts
<1>3. Waiting' = Waiting
  BY <1>1, <1>2 DEF Waiting
<1>4. CASE cast # None /\ cast' = None
  BY <1>2, <1>3, <1>4 DEF Budgeted, CastEnds
<1>5. CASE ~(cast # None /\ cast' = None)
  <2>1. UNCHANGED <<cast, loop>>
    BY <1>5 DEF StopScreencast, StopVideo, Dispose
  <2>2. Coming' = Coming /\ Open' = Open
    BY <2>1, <1>1 DEF Coming, Open
  <2>3. Coming + Open \in Nat
    BY <1>t, Counts DEF Countable
  <2>4. QED BY <2>1, <2>2, <2>3, <1>2, <1>3 DEF Budgeted, Quiet, Settled
<1>6. QED BY <1>4, <1>5

\* One more frame, or one less, in the client's hands.
LEMMA CastCounts ==
  ASSUME TypeInv, NEW s \in Casts, NEW n \in Nat,
         unacked' = [unacked EXCEPT ![s] = n], Casts' = Casts
  PROVE  /\ Waiting \in Nat /\ unacked[s] \in Nat /\ unacked[s] <= Waiting
         /\ Waiting' = (Waiting - unacked[s]) + n
<1>1. Casts \in SUBSET Session /\ IsFiniteSet(Casts) /\ unacked \in [Session -> Nat]
  BY Counts DEF Countable, TypeInv, PageTypes
<1>2. /\ SumOf(unacked, Casts) \in Nat /\ unacked[s] <= SumOf(unacked, Casts)
      /\ SumOf([unacked EXCEPT ![s] = n], Casts) = (SumOf(unacked, Casts) - unacked[s]) + n
  <2>1. PICK C \in SUBSET Session, u \in [Session -> Nat] : C = Casts /\ u = unacked
    BY <1>1
  <2>2. IsFiniteSet(C) /\ s \in C
    BY <2>1, <1>1
  <2>3. /\ SumOf(u, C) \in Nat /\ u[s] <= SumOf(u, C)
        /\ SumOf([u EXCEPT ![s] = n], C) = (SumOf(u, C) - u[s]) + n
    BY <2>2, SumChanges
  <2>4. QED BY <2>1, <2>3, Zenon
<1>3. unacked[s] \in Nat
  BY <1>1
<1>4. Waiting' = SumOf([unacked EXCEPT ![s] = n], Casts)
  BY DEF Waiting
<1>5. QED BY <1>2, <1>3, <1>4 DEF Waiting

LEMMA AckBudget ==
  ASSUME Stalls, NEW s \in Session, NEW id \in {None, s}, Ack(s, id)
  PROVE  Budgeted
<1> USE DEF Stalls, StallInv
<1>t. TypeInv /\ NativeTypes /\ PageTypes /\ QueueTypes /\ TypeInv' /\ NativeTypes'
  BY DEF StructInv, TypeInv
<1>1. /\ unacked[s] > 0 /\ unacked' = [unacked EXCEPT ![s] = @ - 1]
      /\ UNCHANGED <<phase, isVideo, mainQ, headless, cast>>
      /\ IF cast = None \/ id \notin {None, cast}
         THEN UNCHANGED <<flying, loop>>
         ELSE IF headless
         THEN FrameAck(cast) /\ UNCHANGED loop
         ELSE loop' = [loop EXCEPT ![cast].inFlight = FALSE] /\ UNCHANGED flying
  BY DEF Ack
<1>2. s \in Casts /\ Casts' = Casts
  <2>1. phase[s] # "none" /\ s \notin isVideo
    BY <1>1 DEF ClientInv
  <2>2. QED BY <2>1, <1>1 DEF Casts
<1>3. Waiting > 0 /\ Waiting' = Waiting - 1
  <2>1. PICK n \in Nat : n = unacked[s] - 1
    BY <1>1, <1>t DEF PageTypes
  <2>2. unacked' = [unacked EXCEPT ![s] = n]
    BY <2>1, <1>1
  <2>3. /\ Waiting \in Nat /\ unacked[s] \in Nat /\ unacked[s] <= Waiting
        /\ Waiting' = (Waiting - unacked[s]) + n
    BY <2>2, <1>2, <1>t, CastCounts
  <2>4. QED BY <2>1, <2>3, <1>1
<1>4. Coming' = Coming
  BY <1>1 DEF Coming
<1>5. Coming \in Nat /\ Open \in 0..1 /\ Open' \in 0..1
  BY <1>t, Counts, CountsNext DEF Countable
<1>6. Coming' + Open' <= (Coming + Open) + 1
  <2>1. \A a \in Nat, b, c \in 0..1 : a + c <= (a + b) + 1
    OBVIOUS
  <2>2. QED BY <2>1, <1>4, <1>5, Zenon
<1>7. QED BY <1>1, <1>2, <1>3, <1>6 DEF Budgeted, Acked, Settled

LEMMA LoopBudget ==
  ASSUME Stalls, NEW s \in Session, LoopTick(s) \/ \E drawn \in BOOLEAN : LoopDrawn(s, drawn)
  PROVE  Budgeted
<1> USE DEF Stalls, StallInv
<1>t. TypeInv /\ NativeTypes /\ PageTypes /\ QueueTypes /\ TypeInv'
  BY DEF StructInv, TypeInv
<1>1. UNCHANGED <<phase, isVideo, flying, mainQ, headless, cast>>
  BY DEF LoopTick, LoopDrawn, sVars
<1>2. /\ phase[s] = "script" /\ ~headless
  BY DEF LoopTick, LoopDrawn, ClientInv, StructInv, KnownInv
<1>3. s \in Casts /\ Casts' = Casts
  <2>1. s \notin isVideo
    BY <1>2 DEF StructInv, KnownInv, Begun
  <2>2. QED BY <2>1, <1>1, <1>2 DEF Casts
<1>4. Coming' = Coming /\ Coming \in Nat /\ Open \in 0..1
  BY <1>1, <1>t, Counts DEF Coming, Countable
<1>5. CASE LoopTick(s)
  <2>1. unacked' = unacked /\ \A t \in Session : loop'[t].inFlight = loop[t].inFlight
    BY <1>5, <1>t DEF LoopTick, PageTypes, Loops
  <2>2. Waiting' = Waiting
    BY <2>1, <1>3 DEF Waiting
  <2>3. Open' = Open
    BY <2>1, <1>1, <1>t DEF Open, PageTypes
  <2>4. QED BY <2>2, <2>3, <1>1, <1>3, <1>4 DEF Budgeted, Quiet, Settled
<1>6. CASE \E drawn \in BOOLEAN : LoopDrawn(s, drawn)
  <2>1. PICK emit \in BOOLEAN :
          /\ loop' = [loop EXCEPT ![s].tick = IF loop[s].stopped THEN "none" ELSE "timer",
                                  ![s].inFlight = @ \/ emit]
          /\ unacked' = IF emit THEN [unacked EXCEPT ![s] = @ + 1] ELSE unacked
          /\ emit => ~loop[s].stopped
          /\ loop[s].tick = "drawing"
    BY <1>6, <1>t DEF LoopDrawn, PageTypes, Loops
  <2>2. loop[s] \in Loops
    BY <1>t DEF PageTypes
  <2> DEFINE k == [loop[s] EXCEPT !.tick = IF loop[s].stopped THEN "none" ELSE "timer",
                                  !.inFlight = @ \/ emit]
  <2>3. k.inFlight <=> loop[s].inFlight \/ emit
    BY <2>2 DEF Loops
  <2>4. loop' = [loop EXCEPT ![s] = k]
    BY <2>1
  <2> HIDE DEF k
  <2>5. loop'[s] = k /\ \A t \in Session : t # s => loop'[t] = loop[t]
    BY <2>4, <1>t DEF PageTypes
  <2>6. ~loop[s].inFlight
    BY <2>1 DEF ClientInv
  <2>7. CASE emit
    <3>1. cast = s /\ cast # None
      BY <2>1, <2>7, <1>2, Sessions DEF SoleInv
    <3>2. Open = 1 /\ Open' = 0
      BY <3>1, <2>3, <2>5, <2>6, <2>7, <1>1, <1>2 DEF Open
    <3>3. Waiting' = Waiting + 1
      <4>1. PICK n \in Nat : n = unacked[s] + 1
        BY <1>t DEF PageTypes
      <4>2. unacked' = [unacked EXCEPT ![s] = n]
        BY <4>1, <2>1, <2>7
      <4>3. /\ Waiting \in Nat /\ unacked[s] \in Nat
            /\ Waiting' = (Waiting - unacked[s]) + n
        BY <4>2, <1>3, <1>t, CastCounts
      <4>4. QED BY <4>1, <4>3
    <3>4. (Coming' + Open') + 1 <= Coming + Open
      BY <3>2, <1>4
    <3>5. QED BY <3>1, <3>3, <3>4, <1>1, <1>3 DEF Budgeted, Delivers, Settled
  <2>8. CASE ~emit
    <3>1. unacked' = unacked /\ \A t \in Session : loop'[t].inFlight <=> loop[t].inFlight
      BY <2>1, <2>3, <2>5, <2>8
    <3>2. Waiting' = Waiting
      BY <3>1, <1>3 DEF Waiting
    <3>3. Open' = Open
      BY <3>1, <1>1, <1>t DEF Open, PageTypes
    <3>4. QED BY <3>2, <3>3, <1>1, <1>3, <1>4 DEF Budgeted, Quiet, Settled
  <2>9. QED BY <2>7, <2>8
<1>7. QED BY <1>5, <1>6

LEMMA FrameSession == \A a, b : Runnable("frame", a) = Runnable("frame", b) => a = b
BY DEF Runnable

LEMMA SnapshotBudget ==
  ASSUME Stalls, NEW visible \in BOOLEAN, Snapshot(visible), UNCHANGED pVars
  PROVE  Budgeted
<1> USE DEF Stalls, StallInv
<1>t. TypeInv /\ NativeTypes /\ PageTypes /\ QueueTypes
  BY DEF StructInv, TypeInv
<1>1. PICK out \in SUBSET Session :
        /\ \A s \in out : flying[s] = 0 /\ \E c \in Session : s \in capt[c].raw
        /\ flying' = [s \in Session |-> IF s \in out THEN flying[s] + 1 ELSE flying[s]]
        /\ mainQ' = mainQ \o FramesOf(out)
  <2>1. listener \in Session
    BY <1>t DEF Snapshot, NativeTypes
  <2>2. Wanting(listener, visible) \in SUBSET Session
    BY <2>1, <1>t DEF Wanting, NativeTypes, Captures
  <2>3. \A s \in Wanting(listener, visible) : flying[s] < 1 /\ s \in capt[listener].raw
    BY DEF Wanting, kMaxFramesInFlight
  <2>4. \A s \in Session : flying[s] < 1 => flying[s] = 0
    BY <1>t DEF NativeTypes
  <2>5. /\ flying' = [s \in Session |-> IF s \in Wanting(listener, visible)
                                         THEN flying[s] + 1 ELSE flying[s]]
        /\ mainQ' = mainQ \o FramesOf(Wanting(listener, visible))
    BY DEF Snapshot, FramesOf
  <2>6. QED BY <2>1, <2>2, <2>3, <2>4, <2>5
<1>2. UNCHANGED <<phase, isVideo, headless, cast, loop, unacked>>
  BY DEF Snapshot, pVars
<1>3. Casts' = Casts
  BY <1>2 DEF Casts
<1>4. Waiting' = Waiting
  BY <1>2, <1>3 DEF Waiting
<1>5. Coming \in Nat /\ Open \in 0..1
  BY <1>t, Counts DEF Countable
<1>6. CASE cast = None
  <2>1. Coming' = 0 /\ Open' = 0 /\ Coming = 0 /\ Open = 0
    BY <1>2, <1>6 DEF Coming, Open
  <2>2. QED BY <2>1, <1>2, <1>3, <1>4 DEF Budgeted, Quiet, Settled
<1>7. CASE cast # None
  <2>1. PICK r \in Runnables : r = Runnable("frame", cast) /\ cast \in Session
    BY <1>7, <1>t, FrameRunnables DEF PageTypes
  <2>2. PICK S \in Seq(Runnables) :
          /\ mainQ' = mainQ \o S /\ Len(S) = Cardinality(out)
          /\ \A i \in 1..Len(S) : S[i].session \in out /\ S[i] = Runnable("frame", SetToSeq(out)[i])
    BY <1>1, FramesListed
  <2>3. \A i, j \in 1..Len(S) : S[i] = r /\ S[j] = r => i = j
    <3>1. IsFiniteSet(out)
      BY Sessions, FS_Subset
    <3>2. PICK f : f = SetToSeq(out)
      OBVIOUS
    <3>3. \A i, j \in 1..Cardinality(out) : f[i] = f[j] => i = j
      BY <3>1, <3>2, Listing
    <3>4. \A i \in 1..Len(S) : S[i] = r => f[i] = cast
      BY <2>1, <2>2, <3>2, FrameSession
    <3>5. QED BY <3>3, <3>4, <2>2
  <2>4. mainQ \in Seq(Runnables)
    BY <1>t DEF QueueTypes
  <2>5. /\ Cardinality(Places(mainQ \o S, r)) <= Cardinality(Places(mainQ, r)) + 1
        /\ (\A i \in 1..Len(S) : S[i] # r) => Places(mainQ \o S, r) = Places(mainQ, r)
    BY <2>3, <2>4, PlacesConcat
  <2>6. Coming' = Cardinality(Places(mainQ \o S, r)) /\ Coming = Cardinality(Places(mainQ, r))
    BY <2>1, <2>2, <1>2, <1>7 DEF Coming
  <2>7. CASE cast \in out
    <3>1. headless
      BY <2>1, <2>7, <1>1 DEF StructInv, CallbackInv, KnownInv
    <3>2. Open = 1 /\ Open' = 0
      BY <3>1, <2>1, <2>7, <1>1, <1>2, <1>7 DEF Open
    <3>3. Coming' <= Coming + 1 /\ Coming' \in Nat
      <4>1. TypeInv'
        BY DEF StructInv
      <4>2. QED BY <4>1, <2>5, <2>6, CountsNext DEF Countable
    <3>4. Coming' + Open' <= Coming + Open
      <4>1. \A a, b \in Nat : a <= b + 1 => a + 0 <= b + 1
        OBVIOUS
      <4>2. QED BY <4>1, <3>2, <3>3, <1>5, Zenon
    <3>5. QED BY <3>4, <1>2, <1>3, <1>4 DEF Budgeted, Quiet, Settled
  <2>8. CASE cast \notin out
    <3>1. \A i \in 1..Len(S) : S[i] # r
      BY <2>1, <2>2, <2>8, FrameRunnables
    <3>2. Coming' = Coming
      BY <3>1, <2>5, <2>6
    <3>3. Open' = Open
      BY <2>1, <2>8, <1>1, <1>2 DEF Open
    <3>4. QED BY <3>2, <3>3, <1>2, <1>3, <1>4, <1>5 DEF Budgeted, Quiet, Settled
  <2>9. QED BY <2>7, <2>8
<1>8. QED BY <1>6, <1>7

LEMMA RunMainBudget ==
  ASSUME Stalls, RunMain
  PROVE  Budgeted
<1> USE DEF Stalls, StallInv
<1>t. TypeInv /\ NativeTypes /\ PageTypes /\ QueueTypes /\ TypeInv'
  BY DEF StructInv, TypeInv
<1>0. /\ mainQ # <<>> /\ stops = <<>>
      /\ UNCHANGED <<isVideo, flying, stops, headless, cast, loop>>
  BY DEF RunMain, Idle
<1>q. /\ Head(mainQ) \in Runnables /\ Head(mainQ) = mainQ[1] /\ 1 \in 1..Len(mainQ)
      /\ Tail(mainQ) \in Seq(Runnables)
  BY <1>0, <1>t, QueueTail DEF StructInv, ReportInv
<1>1. PICK r \in Runnables, M \in Seq(Runnables) :
        /\ r = Head(mainQ) /\ r.session \in Session
        /\ Release(phase, known, M, enc, listener)
        /\ \/ /\ r.kind = "frame" /\ M = Tail(mainQ)
              /\ unacked' = IF phase[r.session] = "on" /\ cast # None
                            THEN [unacked EXCEPT ![r.session] = @ + 1] ELSE unacked
           \/ r.kind # "frame" /\ M = Tail(mainQ) /\ unacked' = unacked
           \/ r.kind # "frame" /\ M = Append(Tail(mainQ), Runnable("stopped", r.session))
              /\ unacked' = unacked
  <2>1. PICK r \in Runnables : r = Head(mainQ) /\ r.session \in Session
    BY <1>q, FrameIs
  <2>2. CASE r.kind = "frame" /\ FrameRunnable(r.session)
    BY <2>1, <2>2, <1>q DEF FrameRunnable
  <2>3. CASE r.kind = "finished" /\ FinishedRunnable(r.session)
    <3>1. Runnable("stopped", r.session) \in Runnables
      BY <2>1 DEF Runnable, Runnables
    <3>2. Append(Tail(mainQ), Runnable("stopped", r.session)) \in Seq(Runnables)
      BY <3>1, <1>q, AppendProperties
    <3>3. QED BY <2>1, <2>3, <3>2 DEF FinishedRunnable
  <2>4. CASE r.kind = "stopped" /\ StoppedRunnable(r.session)
    BY <2>1, <2>4, <1>q DEF StoppedRunnable
  <2>5. QED BY <2>1, <2>2, <2>3, <2>4 DEF RunMain
<1>2. /\ mainQ' = M
      /\ \A s \in Session : \/ phase'[s] = phase[s]
                            \/ phase[s] = "stopped" /\ phase'[s] = "gone"
  BY <1>1, <1>t, Released DEF Fate, NativeTypes
<1>3. Casts' = Casts
  BY <1>0, <1>2 DEF Casts
<1>4. /\ Coming \in Nat /\ Open \in 0..1 /\ Coming' \in Nat
  BY <1>t, Counts, CountsNext DEF Countable
<1>5. Open' = Open
  BY <1>0 DEF Open
<1>6. ASSUME cast # None
      PROVE  /\ Coming' <= Coming
             /\ r = Runnable("frame", cast) => Coming' + 1 <= Coming
  <2>1. PICK f \in Runnables : f = Runnable("frame", cast) /\ f.kind = "frame"
    BY <1>6, <1>t, FrameRunnables DEF PageTypes
  <2>2. mainQ \in Seq(Runnables)
    BY <1>t DEF QueueTypes
  <2>3. PICK q \in Seq(Runnables) : q = Tail(mainQ)
    BY <1>q
  <2>4. /\ Cardinality(Places(q, f)) <= Cardinality(Places(mainQ, f))
        /\ r = f => Cardinality(Places(q, f)) + 1 <= Cardinality(Places(mainQ, f))
    BY <2>2, <2>3, <1>0, <1>1, PlacesTail
  <2>5. Places(M, f) = Places(q, f)
    <3>1. CASE M = Tail(mainQ)
      BY <3>1, <2>3
    <3>2. CASE M = Append(Tail(mainQ), Runnable("stopped", r.session))
      <4>1. Runnable("stopped", r.session) \in Runnables /\ Runnable("stopped", r.session) # f
        BY <1>1, <2>1 DEF Runnable, Runnables
      <4>2. PICK u \in Runnables : u = Runnable("stopped", r.session) /\ u # f
        BY <4>1
      <4>3. M = Append(q, u)
        BY <4>2, <3>2, <2>3
      <4>4. QED BY <4>2, <4>3, PlacesAppend
    <3>3. QED BY <3>1, <3>2, <1>1
  <2>6. Coming = Cardinality(Places(mainQ, f)) /\ Coming' = Cardinality(Places(q, f))
    BY <2>1, <2>5, <1>0, <1>2, <1>6 DEF Coming
  <2>7. QED BY <2>1, <2>4, <2>6
<1>7. CASE r.kind = "frame" /\ phase[r.session] = "on" /\ cast # None
  <2>1. PICK s \in Session : s = r.session /\ r = Runnable("frame", s)
    BY <1>1, <1>7, FrameIs
  <2>2. s \notin isVideo /\ phase[s] = "on"
    BY <2>1, <1>1, <1>7, <1>q DEF FrameInv
  <2>3. s = cast
    BY <2>2, <1>0 DEF SoleInv, Recorded
  <2>4. s \in Casts
    BY <2>2 DEF Casts
  <2>5. Waiting' = Waiting + 1
    <3>1. PICK n \in Nat : n = unacked[s] + 1
      BY <1>t DEF PageTypes
    <3>2. unacked' = [unacked EXCEPT ![s] = n]
      BY <3>1, <2>1, <1>1, <1>7
    <3>3. /\ Waiting \in Nat /\ unacked[s] \in Nat
          /\ Waiting' = (Waiting - unacked[s]) + n
      BY <3>2, <2>4, <1>3, <1>t, CastCounts
    <3>4. QED BY <3>1, <3>3
  <2>6. Coming' + 1 <= Coming
    BY <1>6, <1>7, <2>1, <2>3
  <2>7. (Coming' + Open') + 1 <= Coming + Open
    <3>1. \A a, b \in Nat, c \in 0..1 : a + 1 <= b => (a + c) + 1 <= b + c
      OBVIOUS
    <3>2. QED BY <3>1, <2>6, <1>4, <1>5, Zenon
  <2>8. QED BY <2>5, <2>7, <1>0, <1>3, <1>7 DEF Budgeted, Delivers, Settled
<1>8. CASE ~(r.kind = "frame" /\ phase[r.session] = "on" /\ cast # None)
  <2>1. unacked' = unacked
    BY <1>1, <1>8
  <2>2. Waiting' = Waiting
    BY <2>1, <1>3 DEF Waiting
  <2>3. Coming' <= Coming
    <3>1. CASE cast # None
      BY <3>1, <1>6
    <3>2. CASE cast = None
      BY <3>2, <1>0 DEF Coming
    <3>3. QED BY <3>1, <3>2
  <2>4. Coming' + Open' <= Coming + Open
    <3>1. \A a, b \in Nat, c \in 0..1 : a <= b => a + c <= b + c
      OBVIOUS
    <3>2. QED BY <3>1, <2>3, <1>4, <1>5, Zenon
  <2>5. QED BY <2>2, <2>4, <1>0, <1>3 DEF Budgeted, Quiet, Settled
<1>9. QED BY <1>7, <1>8

\* What remains: stops, durations and encoder threads.
LEMMA OtherBudget ==
  ASSUME Stalls, UNCHANGED pVars,
         StopBegin \/ StopEnd \/ SnapshotData \/ Tick \/ \E s \in Session : EncoderTask(s)
  PROVE  Budgeted
<1>t. TypeInv /\ TypeInv' /\ NativeTypes /\ StructInv /\ QueueTypes
  BY DEF Stalls, StructInv, TypeInv
<1>1. UNCHANGED <<isVideo, flying, headless, cast, loop, unacked>>
  BY DEF StopBegin, StopEnd, SnapshotData, Tick, EncoderTask, pVars
<1>2. \A s \in Session : phase'[s] = "none" <=> phase[s] = "none"
  <2>1. CASE StopBegin
    <3>1. /\ phase[Head(stops)] = "on" /\ phase' = [phase EXCEPT ![Head(stops)] = "stopped"]
      BY <2>1 DEF StopBegin
    <3>2. QED BY <3>1, <1>t DEF NativeTypes
  <2>2. CASE StopEnd
    <3>1. PICK s, c \in Session :
            Release(phase, known \ {s}, mainQ, StoppedEncoders(s),
                    IF capt[c].count = 1 THEN None ELSE listener)
      BY <2>2, <1>t, StopEndFacts
    <3>2. \A t \in Session : \/ phase'[t] = phase[t]
                             \/ phase[t] = "stopped" /\ phase'[t] = "gone"
      BY <3>1, <1>t, Released DEF Fate, NativeTypes
    <3>3. QED BY <3>2
  <2>3. CASE SnapshotData \/ Tick \/ \E s \in Session : EncoderTask(s)
    <3>1. phase' = phase
      BY <2>3 DEF SnapshotData, Tick, EncoderTask
    <3>2. QED BY <3>1
  <2>4. QED BY <2>1, <2>2, <2>3
<1>3. Places(mainQ', Runnable("frame", cast)) = Places(mainQ, Runnable("frame", cast))
  <2>1. CASE StopEnd
    <3>1. PICK s, c \in Session :
            Release(phase, known \ {s}, mainQ, StoppedEncoders(s),
                    IF capt[c].count = 1 THEN None ELSE listener)
      BY <2>1, <1>t, StopEndFacts
    <3>2. mainQ' = mainQ
      BY <3>1 DEF Release
    <3>3. QED BY <3>2
  <2>2. CASE StopBegin \/ SnapshotData \/ Tick
    BY <2>2 DEF StopBegin, SnapshotData, Tick
  <2>3. CASE \E s \in Session : EncoderTask(s)
    <3>1. PICK s \in Session : EncoderTask(s)
      BY <2>3
    <3>2. mainQ' = (IF Head(enc[s].queue) = Finish
                    THEN Append(mainQ, Runnable("finished", s)) ELSE mainQ)
      BY <3>1, <1>t, EncoderTaskFacts
    <3>3. /\ Runnable("finished", s) \in Runnables
          /\ Runnable("finished", s) # Runnable("frame", cast)
      BY DEF Runnable, Runnables
    <3>f. PICK f : f = Runnable("frame", cast)
      OBVIOUS
    <3>4. PICK r \in Runnables : r = Runnable("finished", s) /\ r # f
      BY <3>f, <3>3
    <3>5. mainQ' = mainQ \/ mainQ' = Append(mainQ, r)
      BY <3>2, <3>4
    <3>6. mainQ \in Seq(Runnables)
      BY <1>t DEF QueueTypes
    <3>7. Places(mainQ', f) = Places(mainQ, f)
      BY <3>4, <3>5, <3>6, PlacesAppend
    <3>8. QED BY <3>f, <3>7
  <2>4. QED BY <2>1, <2>2, <2>3
<1>4. Quiet
  BY <1>t, <1>1, <1>2, <1>3, SameBudget
<1>5. QED BY <1>4 DEF Budgeted

LEMMA BudgetStep ==
  ASSUME ~Overlap
  PROVE  StructInv /\ StallInv /\ BudgetInv /\ [Next]_vars => BudgetInv' /\ [T!Next]_Shown
<1> SUFFICES ASSUME StructInv, StallInv, BudgetInv, [Next]_vars
             PROVE  BudgetInv' /\ [T!Next]_Shown
  OBVIOUS
<1>0. Stalls /\ TypeInv /\ TypeInv'
  BY StructStep DEF Stalls, StructInv
<1>1. CASE StartScreencast
  <2>1. cast = None
    BY <1>1 DEF StartScreencast, MayStart, Idle
  <2>2. CASE headless
    <3>1. StartNative(FALSE)
      BY <1>1, <2>2 DEF StartScreencast
    <3>2. QED BY <3>1, <2>1, <2>2, <1>0, StartNativeBudget, BudgetKept
  <2>3. CASE ~headless
    <3>1. StartSnapshotScreencast
      BY <1>1, <2>3 DEF StartScreencast
    <3>2. QED BY <3>1, <2>1, <2>3, <1>0, StartSnapshotBudget, BudgetKept
  <2>4. QED BY <2>2, <2>3
<1>2. CASE StartVideo
  <2>1. headless /\ StartNative(TRUE)
    BY <1>2 DEF StartVideo, MayStart, Idle
  <2>2. QED BY <2>1, <1>0, StartNativeBudget, BudgetKept
<1>3. CASE StopScreencast \/ StopVideo \/ Dispose
  BY <1>3, <1>0, PageStopsBudget, BudgetKept
<1>4. CASE \E s \in Session : Ack(s, None) \/ Ack(s, s)
  BY <1>4, <1>0, AckBudget, BudgetKept
<1>5. CASE RunMain
  BY <1>5, <1>0, RunMainBudget, BudgetKept
<1>6. CASE Native /\ UNCHANGED pVars
  BY <1>6, <1>0, SnapshotBudget, OtherBudget, BudgetKept DEF Native
<1>7. CASE \E s \in Session : LoopTick(s) \/ \E drawn \in BOOLEAN : LoopDrawn(s, drawn)
  BY <1>7, <1>0, LoopBudget, BudgetKept
<1>8. CASE UNCHANGED vars
  <2>1. Quiet
    BY <1>8, <1>0, SameBudget DEF vars, sVars, pVars
  <2>2. QED BY <2>1, <1>0, BudgetKept DEF Budgeted
<1>9. QED BY <1>1, <1>2, <1>3, <1>4, <1>5, <1>6, <1>7, <1>8 DEF Next

\* For a client that runs one screencast at a time, both ways of capturing
\* implement the abstract Throttle, step by step: a frame is delivered only
\* between start and stop (the screencastFrame of PageTarget drops the others), and only while
\* the client holds fewer frames than it started screencasts (mFramesInFlight in
\* OnRawFrame and ScreencastFrameAck, inFlight in the snapshot loop), also when a
\* late acknowledgement is credited to the next screencast.
THEOREM ThrottleTheorem ==
  ASSUME ~Overlap
  PROVE  Spec => Throttled
<1>1. Init => StructInv /\ StallInv /\ BudgetInv /\ T!Init
  BY InitStruct, InitStall, InitBudget
<1>2. StructInv /\ StallInv /\ BudgetInv /\ [Next]_vars
      => StructInv' /\ StallInv' /\ BudgetInv' /\ [T!Next]_Shown
  BY StructStep, StallStep, BudgetStep
<1>3. QED BY <1>1, <1>2, PTL DEF Spec, Throttled, T!Spec, Shown
=============================================================================
