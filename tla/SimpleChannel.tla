---------------------------- MODULE SimpleChannel ----------------------------
(***************************************************************************)
(* The request/response channel of juggler/SimpleChannel.js, as a page     *)
(* target uses it.  The parent process keeps ONE channel end for the whole *)
(* life of a tab; the content side has one end per content process (or per *)
(* browsing context) that ever hosted the tab.  The ends talk over pairs   *)
(* of JSWindowActors, which navigation replaces; what is in flight on a    *)
(* replaced pair is lost, and the channel retransmits.                     *)
(*                                                                         *)
(* The data of a call is abstracted to the call itself: <<e, id>> is the   *)
(* id-th request of end e, and a response carries the call it is really    *)
(* the response of ("of", which the code does not have) next to the        *)
(* request id the code routes it by.                                       *)
(***************************************************************************)
EXTENDS Integers, Sequences, FiniteSets

CONSTANTS
  NInstance,      \* content-side channel ends that may come to exist
  NActor,         \* actor pairs (transports) that may come to exist
  MaxId,          \* bound on the request ids
  MaxRequest,     \* [End -> 0..MaxId]: how many requests each end may send
  UidOf,          \* [End -> Nat]: the uid each end was constructed with
  MayPause,       \* ends that modal dialogs pause
  MayUnregister,  \* ends whose namespace handler comes and goes
  MayDispose,     \* ends that dispose() is called on
  Async,          \* ends whose handlers may outlive the task that ran them
  NoMethod        \* calls that name a method their receiver does not have

Parent   == 0
Instance == 1..NInstance
End      == 0..NInstance
Actor    == 1..NActor
NoActor  == 0
Id       == 1..MaxId
Call     == {c \in End \X Id : c[2] <= MaxRequest[c[1]]}
NoCall   == <<0, 0>>
NoUid    == 0

ASSUME ChannelAssumption ==
  /\ NInstance \in Nat /\ NActor \in Nat /\ MaxId \in Nat
  /\ MaxRequest \in [End -> 0..MaxId]
  /\ UidOf \in [End -> Nat \ {NoUid}]
  /\ MayPause \subseteq Instance
  /\ MayUnregister \subseteq End
  /\ MayDispose \subseteq End
  /\ Async \subseteq End

VARIABLES
  created,      \* number of actor pairs created so far
  hostOf,       \* the content end hosting the child actor of each pair
  inbox,        \* messages in flight on each pair, towards each side
  seen,         \* the newest actor each end was ever bound to
  transport,    \* the actor each end sends through, NoActor after a reset
  gone,         \* content ends whose actor was destroyed: never bound again
  ready,        \* _ready
  connectedTo,  \* _connectedToUID
  sent,         \* _messageId
  pending,      \* keys of _pendingMessages
  answer,       \* the call whose response resolved each request
  registered,   \* is the namespace in _handlers
  paused,       \* _paused
  timer,        \* is a resumeSoon() timer armed
  buffer,       \* _bufferedIncomingMessages
  drain,        \* what is left of the loop in _deliverBufferedIncomingMessages
  cached,       \* _bufferedResponses: the call whose response is kept per id
  running,      \* handlers started and not finished, with the uid they captured
  execs,        \* how often each end started the handler of each call
  disposed      \* _disposed

linkVars    == <<created, hostOf, gone>>
requestVars == <<sent, pending, answer>>
serverVars  == <<cached, running, execs>>
bufferVars  == <<registered, paused, timer, buffer, drain>>
connVars    == <<seen, transport, ready, connectedTo>>
vars == <<linkVars, inbox, connVars, requestVars, bufferVars, serverVars, disposed>>

-----------------------------------------------------------------------------
(* Messages *)

Ready(e)        == [type |-> "READY", uid |-> UidOf[e]]
ReadyAck(e)     == [type |-> "READY_ACK", uid |-> UidOf[e]]
Request(c)      == [type |-> "REQUEST", call |-> c]
Response(c)     == [type |-> "RESPONSE", id |-> c[2], of |-> c]
ResponseAck(id) == [type |-> "RESPONSE_ACK", id |-> id]

Uid     == {UidOf[e] : e \in End}
Handshake == [type : {"READY", "READY_ACK"}, uid : Uid]
Payload   == [type : {"REQUEST"}, call : Call] \cup [type : {"RESPONSE"}, id : Id, of : Call]
Message   == Handshake \cup Payload \cup [type : {"RESPONSE_ACK"}, id : Id]

Side(e)  == IF e = Parent THEN "parent" ELSE "content"
Other(e) == IF e = Parent THEN "content" ELSE "parent"

\* A run of the handler of a call: the uid it captured, and which run it is.
Run == [call : Call, uid : Uid \cup {NoUid}, n : Nat]

\* The content end on the other side of actor a, or the parent.
Peer(e, a) == IF e = Parent THEN hostOf[a] ELSE Parent

\* An end that has left actor a receives nothing from it any more.
Deaf(e, a) == disposed[e] \/ (seen[e] >= a /\ transport[e] # a)

\* The in-flight messages "box" after e sent the messages ms, in order,
\* through actor a.
Post(box, e, a, ms) ==
  IF a = NoActor \/ Deaf(Peer(e, a), a) THEN box
  ELSE [box EXCEPT ![a][Other(e)] = @ \o ms]

\* "box" without what was in flight towards e on the actors before a.
Forget(box, e, a) ==
  [b \in Actor |-> IF b < a /\ (e = Parent \/ hostOf[b] = e)
                   THEN [box[b] EXCEPT ![Side(e)] = <<>>] ELSE box[b]]

\* Faulty variant: the map would be walked from the newest request on.
NewestFirst(S) == {s \in [1..Cardinality(S) -> S] :
                     \A i, j \in DOMAIN s : i < j => s[i] > s[j]}

\* The order of the _pendingMessages map is the order of the ids.
Ascending(S) == {s \in [1..Cardinality(S) -> S] :
                   \A i, j \in DOMAIN s : i < j => s[i] < s[j]}
Requests(e, s) == [k \in DOMAIN s |-> Request(<<e, s[k]>>)]

\* JavaScript runs to completion: nothing of e interleaves with the loop over
\* the buffered messages, nor with a handler that never awaits.
Idle(e) == drain[e] = <<>> /\ (e \in Async \/ running[e] = {})

-----------------------------------------------------------------------------
(* Initial states *)

Init ==
  /\ created = 0
  /\ hostOf = [a \in Actor |-> Parent]
  /\ inbox = [a \in Actor |-> [side \in {"parent", "content"} |-> <<>>]]
  /\ seen = [e \in End |-> NoActor]
  /\ transport = [e \in End |-> NoActor]
  /\ gone = [e \in End |-> FALSE]
  /\ ready = [e \in End |-> FALSE]
  /\ connectedTo = [e \in End |-> NoUid]
  /\ sent = [e \in End |-> 0]
  /\ pending = [e \in End |-> {}]
  /\ answer = [e \in End |-> [id \in Id |-> NoCall]]
  /\ registered = [e \in End |-> e \notin MayUnregister]
  /\ paused = [e \in End |-> FALSE]
  /\ timer = [e \in End |-> FALSE]
  /\ buffer = [e \in End |-> <<>>]
  /\ drain = [e \in End |-> <<>>]
  /\ cached = [e \in End |-> [id \in Id |-> NoCall]]
  /\ running = [e \in End |-> {}]
  /\ execs = [e \in End |-> [c \in Call |-> 0]]
  /\ disposed = [e \in End |-> FALSE]

-----------------------------------------------------------------------------
(* The transports: navigations create and destroy the actor pairs *)

\* A document of content end i becomes the current one of the tab: a rebind of
\* a live end when i existed, the first actor of a new end otherwise.
CreateActor(i) ==
  /\ created < NActor
  /\ ~gone[i] /\ ~disposed[i]
  /\ i = 1 \/ \E a \in 1..created : hostOf[a] = i - 1
  /\ created' = created + 1
  /\ hostOf' = [hostOf EXCEPT ![created + 1] = i]
  /\ UNCHANGED <<gone, inbox, connVars, requestVars, bufferVars, serverVars, disposed>>

\* Faulty variant: a new transport would leave _ready as it was.
BindKeepsReady(e, a) ==
  /\ Idle(e) /\ ~gone[e] /\ ~disposed[e]
  /\ seen[e] < a
  /\ IF e = Parent THEN a = created ELSE a <= created /\ hostOf[a] = e
  /\ seen' = [seen EXCEPT ![e] = a]
  /\ transport' = [transport EXCEPT ![e] = a]
  /\ inbox' = Post(Forget(inbox, e, a), e, a, <<Ready(e)>>)
  /\ UNCHANGED <<linkVars, ready, connectedTo, requestVars, bufferVars, serverVars, disposed>>

\* bindToActor: drop the old transport, take the new one, send READY.
BindToActor(e, a) ==
  /\ Idle(e) /\ ~gone[e] /\ ~disposed[e]
  /\ seen[e] < a
  /\ IF e = Parent THEN a = created ELSE a <= created /\ hostOf[a] = e
  /\ seen' = [seen EXCEPT ![e] = a]
  /\ transport' = [transport EXCEPT ![e] = a]
  /\ ready' = [ready EXCEPT ![e] = FALSE]
  /\ inbox' = Post(Forget(inbox, e, a), e, a, <<Ready(e)>>)
  /\ UNCHANGED <<linkVars, connectedTo, requestVars, bufferVars, serverVars, disposed>>

\* resetTransport: the parent's actor is removed (the tab changes process, or
\* the actor dies), or a content end loses its last actor, for good.
ResetTransport(e) ==
  /\ Idle(e) /\ ~disposed[e]
  /\ transport[e] # NoActor
  /\ transport' = [transport EXCEPT ![e] = NoActor]
  /\ ready' = [ready EXCEPT ![e] = FALSE]
  /\ inbox' = Forget(inbox, e, transport[e] + 1)
  /\ gone' = [gone EXCEPT ![e] = (e # Parent)]
  /\ UNCHANGED <<created, hostOf, seen, connectedTo, requestVars, bufferVars,
                 serverVars, disposed>>

\* A message reaches a parent actor that no page target has bound (yet).
LoseMessage(a) ==
  /\ seen[Parent] < a
  /\ inbox[a]["parent"] # <<>>
  /\ inbox' = [inbox EXCEPT ![a]["parent"] = Tail(@)]
  /\ UNCHANGED <<linkVars, connVars, requestVars, bufferVars, serverVars, disposed>>

-----------------------------------------------------------------------------
(* The calling side *)

\* _send: the message is kept until answered, and sent if the channel is ready.
Send(e) ==
  /\ Idle(e) /\ ~gone[e] /\ ~disposed[e]
  /\ e = Parent \/ seen[e] # NoActor
  /\ sent[e] < MaxRequest[e]
  /\ sent' = [sent EXCEPT ![e] = @ + 1]
  /\ pending' = [pending EXCEPT ![e] = @ \cup {sent[e] + 1}]
  /\ inbox' = IF ready[e]
              THEN Post(inbox, e, transport[e], <<Request(<<e, sent[e] + 1>>)>>)
              ELSE inbox
  /\ UNCHANGED <<linkVars, connVars, answer, bufferVars, serverVars, disposed>>

\* _rejectCallbacksFromConnector, for a connector that owns the requests S.
DisposeConnector(e, S) ==
  /\ Idle(e) /\ S # {} /\ ~gone[e]
  /\ S \subseteq pending[e]
  /\ pending' = [pending EXCEPT ![e] = @ \ S]
  /\ UNCHANGED <<linkVars, inbox, connVars, sent, answer, bufferVars, serverVars, disposed>>

\* dispose: every pending call is rejected, every handler dropped, and nothing
\* is received any more; the transport object stays, and so does _ready.
Dispose(e) ==
  /\ e \in MayDispose
  /\ Idle(e) /\ ~disposed[e]
  /\ disposed' = [disposed EXCEPT ![e] = TRUE]
  /\ pending' = [pending EXCEPT ![e] = {}]
  /\ registered' = [registered EXCEPT ![e] = FALSE]
  /\ inbox' = Forget(inbox, e, NActor + 1)
  /\ UNCHANGED <<linkVars, connVars, sent, answer, paused, timer, buffer, drain, serverVars>>

-----------------------------------------------------------------------------
(* The receiving side *)

\* Faulty variant: what was pending before the transport was ready would wait.
MarkAsReadyOnly(e, box, before) ==
  /\ inbox' = Post(box, e, transport[e], before)
  /\ ready' = [ready EXCEPT ![e] = TRUE]

\* _markAsReady: the first time on a transport, every pending request is sent
\* (again); "before" is what the caller sent just before.
MarkAsReady(e, box, before) ==
  IF ready[e]
  THEN /\ inbox' = Post(box, e, transport[e], before)
       /\ UNCHANGED ready
  ELSE /\ \E s \in Ascending(pending[e]) :
            inbox' = Post(box, e, transport[e], before \o Requests(e, s))
       /\ ready' = [ready EXCEPT ![e] = TRUE]

\* Faulty variant: the responses kept for the last peer would outlive it.
HandshakeKeepsCache(e, m, box) ==
  /\ m.type \in {"READY", "READY_ACK"}
  /\ connectedTo' = [connectedTo EXCEPT ![e] = m.uid]
  /\ MarkAsReady(e, box, IF m.type = "READY" THEN <<ReadyAck(e)>> ELSE <<>>)
  /\ UNCHANGED <<requestVars, buffer, serverVars>>

\* READY and READY_ACK: a new uid on the other end voids the kept responses.
OnHandshake(e, m, box) ==
  /\ m.type \in {"READY", "READY_ACK"}
  /\ cached' = [cached EXCEPT ![e] = IF connectedTo[e] = m.uid THEN @
                                     ELSE [id \in Id |-> NoCall]]
  /\ connectedTo' = [connectedTo EXCEPT ![e] = m.uid]
  /\ MarkAsReady(e, box, IF m.type = "READY" THEN <<ReadyAck(e)>> ELSE <<>>)
  /\ UNCHANGED <<requestVars, buffer, running, execs>>

OnResponseAck(e, m, box) ==
  /\ m.type = "RESPONSE_ACK"
  /\ cached' = [cached EXCEPT ![e][m.id] = NoCall]
  /\ inbox' = box
  /\ UNCHANGED <<connectedTo, ready, requestVars, buffer, running, execs>>

\* A response is acknowledged, then settles the request it names, if that is
\* still pending.  Without a transport the acknowledgement throws first.
OnResponse(e, m, box) ==
  /\ m.type = "RESPONSE"
  /\ inbox' = Post(box, e, transport[e], <<ResponseAck(m.id)>>)
  /\ IF transport[e] # NoActor /\ m.id \in pending[e]
     THEN /\ pending' = [pending EXCEPT ![e] = @ \ {m.id}]
          /\ answer' = [answer EXCEPT ![e][m.id] = m.of]
     ELSE UNCHANGED <<pending, answer>>
  /\ UNCHANGED <<connectedTo, ready, sent, buffer, serverVars>>

\* A request is answered from the kept responses, or waits for its handler, or
\* names no method, or starts the handler.
OnRequest(e, m, box) ==
  LET id == m.call[2] IN
  /\ m.type = "REQUEST"
  /\ \/ /\ cached[e][id] # NoCall
        /\ inbox' = Post(box, e, transport[e], <<Response(cached[e][id])>>)
        /\ UNCHANGED <<buffer, running, execs>>
     \/ /\ cached[e][id] = NoCall /\ ~registered[e]
        /\ buffer' = [buffer EXCEPT ![e] = Append(@, m)]
        /\ inbox' = box
        /\ UNCHANGED <<running, execs>>
     \/ /\ cached[e][id] = NoCall /\ registered[e] /\ m.call \in NoMethod
        /\ inbox' = Post(box, e, transport[e], <<Response(m.call)>>)
        /\ UNCHANGED <<buffer, running, execs>>
     \/ /\ cached[e][id] = NoCall /\ registered[e] /\ m.call \notin NoMethod
        /\ running' = [running EXCEPT ![e] = @ \cup
                         {[call |-> m.call, uid |-> connectedTo[e], n |-> execs[e][m.call]]}]
        /\ execs' = [execs EXCEPT ![e][m.call] = @ + 1]
        /\ inbox' = box
        /\ UNCHANGED buffer
  /\ UNCHANGED <<connectedTo, ready, requestVars, cached>>

\* _onMessage: acknowledgements are never held back, requests and responses
\* are while the channel is paused.
OnMessage(e, m, box) ==
  /\ \/ OnHandshake(e, m, box)
     \/ OnResponseAck(e, m, box)
     \/ /\ m.type \in {"REQUEST", "RESPONSE"} /\ paused[e]
        /\ buffer' = [buffer EXCEPT ![e] = Append(@, m)]
        /\ inbox' = box
        /\ UNCHANGED <<connectedTo, ready, requestVars, serverVars>>
     \/ ~paused[e] /\ (OnResponse(e, m, box) \/ OnRequest(e, m, box))
  /\ UNCHANGED <<linkVars, seen, transport, registered, paused, disposed>>

\* The next message of the bound actor arrives.
Deliver(e) ==
  /\ Idle(e) /\ ~disposed[e]
  /\ transport[e] # NoActor
  /\ LET a == transport[e] IN
     /\ inbox[a][Side(e)] # <<>>
     /\ OnMessage(e, Head(inbox[a][Side(e)]), [inbox EXCEPT ![a][Side(e)] = Tail(@)])
  /\ UNCHANGED <<timer, drain>>

\* One round of the loop of _deliverBufferedIncomingMessages.
DeliverBuffered(e) ==
  /\ drain[e] # <<>>
  /\ OnMessage(e, Head(drain[e]), inbox)
  /\ drain' = [drain EXCEPT ![e] = Tail(@)]
  /\ UNCHANGED timer

\* Faulty variant: the response would be sent, and not kept.
FinishWithoutKeeping(e, r) ==
  /\ r \in running[e] /\ drain[e] = <<>> /\ ~gone[e]
  /\ running' = [running EXCEPT ![e] = @ \ {r}]
  /\ inbox' = IF connectedTo[e] = r.uid
              THEN Post(inbox, e, transport[e], <<Response(r.call)>>) ELSE inbox
  /\ UNCHANGED <<linkVars, connVars, requestVars, bufferVars, cached, execs, disposed>>

\* The handler's promise settles.  The response is kept and sent only if the
\* channel is still connected to the uid it was when the handler started.
FinishHandler(e, r) ==
  /\ r \in running[e] /\ drain[e] = <<>> /\ ~gone[e]
  /\ running' = [running EXCEPT ![e] = @ \ {r}]
  /\ IF connectedTo[e] = r.uid
     THEN /\ cached' = [cached EXCEPT ![e][r.call[2]] = r.call]
          /\ inbox' = Post(inbox, e, transport[e], <<Response(r.call)>>)
     ELSE UNCHANGED <<cached, inbox>>
  /\ UNCHANGED <<linkVars, connVars, requestVars, bufferVars, execs, disposed>>

-----------------------------------------------------------------------------
(* Handlers and modal dialogs *)

\* register: the handler is set, then everything buffered is delivered again.
Register(e) ==
  /\ e \in MayUnregister /\ ~registered[e]
  /\ Idle(e) /\ ~gone[e] /\ ~disposed[e]
  /\ registered' = [registered EXCEPT ![e] = TRUE]
  /\ drain' = [drain EXCEPT ![e] = buffer[e]]
  /\ buffer' = [buffer EXCEPT ![e] = <<>>]
  /\ UNCHANGED <<linkVars, inbox, connVars, requestVars, paused, timer, serverVars, disposed>>

Unregister(e) ==
  /\ e \in MayUnregister /\ registered[e]
  /\ Idle(e) /\ ~gone[e]
  /\ registered' = [registered EXCEPT ![e] = FALSE]
  /\ UNCHANGED <<linkVars, inbox, connVars, requestVars, paused, timer, buffer, drain,
                 serverVars, disposed>>

\* pause: a modal dialog opens in the content process.
Pause(e) ==
  /\ e \in MayPause /\ ~paused[e]
  /\ Idle(e) /\ ~gone[e] /\ seen[e] # NoActor
  /\ paused' = [paused EXCEPT ![e] = TRUE]
  /\ UNCHANGED <<linkVars, inbox, connVars, requestVars, registered, timer, buffer, drain,
                 serverVars, disposed>>

\* resumeSoon: not paused at once, what was buffered is delivered by a timer.
ResumeSoon(e) ==
  /\ paused[e] /\ Idle(e) /\ ~gone[e]
  /\ paused' = [paused EXCEPT ![e] = FALSE]
  /\ timer' = [timer EXCEPT ![e] = TRUE]
  /\ UNCHANGED <<linkVars, inbox, connVars, requestVars, registered, buffer, drain,
                 serverVars, disposed>>

ResumeTimer(e) ==
  /\ timer[e] /\ Idle(e)
  /\ timer' = [timer EXCEPT ![e] = FALSE]
  /\ drain' = [drain EXCEPT ![e] = buffer[e]]
  /\ buffer' = [buffer EXCEPT ![e] = <<>>]
  /\ UNCHANGED <<linkVars, inbox, connVars, requestVars, registered, paused, serverVars, disposed>>

-----------------------------------------------------------------------------

Next ==
  \/ \E i \in Instance : CreateActor(i)
  \/ \E e \in End, a \in Actor : BindToActor(e, a)
  \/ \E e \in End : ResetTransport(e)
  \/ \E a \in Actor : LoseMessage(a)
  \/ \E e \in End : Send(e)
  \/ \E e \in End, S \in SUBSET Id : DisposeConnector(e, S)
  \/ \E e \in End : Dispose(e)
  \/ \E e \in End : Deliver(e)
  \/ \E e \in End : DeliverBuffered(e)
  \/ \E e \in End : \E r \in running[e] : FinishHandler(e, r)
  \/ \E e \in End : Register(e) \/ Unregister(e)
  \/ \E e \in End : Pause(e) \/ ResumeSoon(e) \/ ResumeTimer(e)

Spec == Init /\ [][Next]_vars

-----------------------------------------------------------------------------
(* Properties *)

TypeOK ==
  /\ created \in 0..NActor
  /\ hostOf \in [Actor -> End]
  /\ inbox \in [Actor -> [{"parent", "content"} -> Seq(Message)]]
  /\ seen \in [End -> 0..NActor]
  /\ transport \in [End -> 0..NActor]
  /\ gone \in [End -> BOOLEAN]
  /\ ready \in [End -> BOOLEAN]
  /\ connectedTo \in [End -> Uid \cup {NoUid}]
  /\ sent \in [End -> 0..MaxId]
  /\ pending \in [End -> SUBSET Id]
  /\ \A e \in End : pending[e] \subseteq 1..MaxRequest[e]
  /\ answer \in [End -> [Id -> Call \cup {NoCall}]]
  /\ registered \in [End -> BOOLEAN]
  /\ paused \in [End -> BOOLEAN]
  /\ timer \in [End -> BOOLEAN]
  /\ buffer \in [End -> Seq(Payload)]
  /\ drain \in [End -> Seq(Payload)]
  /\ cached \in [End -> [Id -> Call \cup {NoCall}]]
  /\ running \in [End -> SUBSET Run]
  /\ execs \in [End -> [Call -> Nat]]
  /\ disposed \in [End -> BOOLEAN]

Answered(c) == answer[c[1]][c[2]] # NoCall

\* A request is only ever resolved with the response computed for it, whatever
\* was retransmitted, kept or replaced on the way (_onMessageInternal).
OwnAnswer ==
  \A c \in Call : Answered(c) => answer[c[1]][c[2]] = c

\* No end runs the handler of the same request twice (the double-dispatch
\* issue the comment in _onMessage is about).
AtMostOnce ==
  \A e \in End, c \in Call : execs[e][c] <= 1

\* Once the caller has the answer of the only end that ran the handler, that end
\* does not run it again: a response leaves _bufferedResponses only when no copy
\* of its request can still arrive (RESPONSE_ACK in _onMessage).
NoRerunAfterAnswer ==
  [][\A e \in End, c \in Call :
       /\ Answered(c) /\ execs[e][c] > 0
       /\ \A f \in End \ {e} : execs[f][c] = 0
       => execs'[e][c] = execs[e][c]]_vars

\* The first run of a request comes after the first run of the requests its
\* sender sent before it and still waits for, except for those that sit in the
\* receiver's buffer (the gap between resumeSoon and its timer).
InOrder ==
  [][\A e \in End, c \in Call :
       execs[e][c] = 0 /\ execs'[e][c] = 1 =>
         \A d \in Call : d[1] = c[1] /\ d[2] < c[2] /\ d[2] \in pending[d[1]]
                           => \/ execs[e][d] > 0
                              \/ d \in NoMethod
                              \/ \E k \in DOMAIN buffer[e] : buffer[e][k] = Request(d)]_vars

\* An end that believes its channel ready is bound to an actor, and the peer it
\* learned the uid of is the one behind that actor, not one before it.
ReadyMeansPeer ==
  \A e \in End : ready[e] =>
    /\ transport[e] # NoActor
    /\ connectedTo[e] = UidOf[Peer(e, transport[e])]

\* What a caller sees of the channel, as the calls of Rpc.
callStatus ==
  [c \in Call |-> IF c[2] > sent[c[1]] THEN "idle"
                  ELSE IF c[2] \in pending[c[1]] THEN "waiting"
                  ELSE IF ~Answered(c) THEN "rejected"
                  ELSE IF answer[c[1]][c[2]] = c THEN "answered" ELSE "crossed"]
callsRun == {c \in Call : \E e \in End : execs[e][c] > 0}

Calls == INSTANCE Rpc WITH status <- callStatus, ran <- callsRun

\* The channel keeps the promise of Rpc.
ImplementsRpc == Calls!Spec

-----------------------------------------------------------------------------
(* Liveness *)

\* The event loops keep running, the timer fires, and handlers settle.
Fairness ==
  \A e \in End :
    /\ WF_vars(Deliver(e))
    /\ WF_vars(DeliverBuffered(e))
    /\ WF_vars(\E r \in running[e] : FinishHandler(e, r))
    /\ WF_vars(ResumeTimer(e))

FairSpec == Spec /\ Fairness

\* Both ends are bound to the tab's current actor pair, have their handlers,
\* and no dialog is open.
Linked ==
  /\ created > 0
  /\ \A e \in {Parent, hostOf[created]} :
       transport[e] = created /\ registered[e] /\ ~paused[e] /\ ~disposed[e]

\* If the ends stay linked from some point on, every request of the two is
\* settled, however many transports its copies and responses were lost with:
\* _markAsReady and _bufferedResponses together lose nothing.
CallsSettle ==
  <>[]Linked =>
    \A e \in End : \A id \in Id :
      (id \in pending[e]) ~> (id \notin pending[e] \/ (e # Parent /\ hostOf[created] # e))
=============================================================================
