------------------------ MODULE SimpleChannelProofs ------------------------
(***************************************************************************)
(* Proofs about SimpleChannel, for every number of content ends, actors    *)
(* and requests: its type invariant; that an end is ready with the peer    *)
(* behind its actor; and, where content ends have uids of their own and    *)
(* the parent's handlers settle at once, that a request is only resolved   *)
(* with its own response, that the channel implements Rpc, that the        *)
(* requests of a sender are run in the order in which they were made, and  *)
(* that what is answered is not run again, if no end holds anything back.  *)
(***************************************************************************)
EXTENDS SimpleChannelInvariants, TLAPS, FiniteSetTheorems

-----------------------------------------------------------------------------
(* The operators the actions are built from *)

LEMMA ConstantTypes ==
  /\ Parent \in End
  /\ \A i \in Instance : i \in End /\ i # Parent
  /\ \A e \in End : e = Parent \/ e \in Instance
  /\ \A e \in End : Side(e) \in {"parent", "content"} /\ Other(e) \in {"parent", "content"}
  /\ \A e \in End : MaxRequest[e] \in Nat /\ MaxRequest[e] <= MaxId
  /\ NActor \in Nat /\ NInstance \in Nat /\ MaxId \in Nat
BY ChannelAssumption DEF Parent, End, Instance, Side, Other

LEMMA MessageTypes ==
  /\ \A e \in End : Ready(e) \in Message /\ ReadyAck(e) \in Message
  /\ \A c \in Call : Request(c) \in Message /\ Response(c) \in Message
  /\ \A id \in Id : ResponseAck(id) \in Message
  /\ \A c \in Call : c[1] \in End /\ c[2] \in Id /\ c = <<c[1], c[2]>>
  /\ \A e \in End, id \in Id : id <= MaxRequest[e] => <<e, id>> \in Call
  /\ Payload \subseteq Message
<1>1. \A e \in End : Ready(e) \in Handshake /\ ReadyAck(e) \in Handshake
  BY DEF Ready, ReadyAck, Handshake, Uid
<1>2. \A c \in Call : c[1] \in End /\ c[2] \in Id /\ c = <<c[1], c[2]>>
  BY DEF Call
<1>3. \A c \in Call : Request(c) \in Payload /\ Response(c) \in Payload
  BY <1>2 DEF Request, Response, Payload
<1>4. \A id \in Id : ResponseAck(id) \in [type : {"RESPONSE_ACK"}, id : Id]
  BY DEF ResponseAck
<1>5. \A e \in End, id \in Id : id <= MaxRequest[e] => <<e, id>> \in Call
  BY DEF Call
<1>6. QED BY <1>1, <1>2, <1>3, <1>4, <1>5 DEF Message

LEMMA PostType ==
  ASSUME NEW box \in InboxType, NEW e \in End, NEW a \in 0..NActor,
         NEW ms \in Seq(Message)
  PROVE  Post(box, e, a, ms) \in InboxType
<1>1. CASE a = NoActor \/ Deaf(Peer(e, a), a)
  BY <1>1 DEF Post
<1>2. CASE ~(a = NoActor \/ Deaf(Peer(e, a), a))
  <2>1. a \in Actor /\ Other(e) \in {"parent", "content"}
    BY <1>2, ConstantTypes DEF NoActor, Actor
  <2>2. Post(box, e, a, ms) = [box EXCEPT ![a][Other(e)] = @ \o ms]
    BY <1>2 DEF Post
  <2>3. box[a][Other(e)] \o ms \in Seq(Message)
    BY <2>1 DEF InboxType
  <2>4. QED BY <2>1, <2>2, <2>3 DEF InboxType
<1>3. QED BY <1>1, <1>2

LEMMA ForgetType ==
  ASSUME NEW box \in InboxType, NEW e \in End, NEW a
  PROVE  Forget(box, e, a) \in InboxType
BY ConstantTypes DEF Forget, InboxType

LEMMA TailType ==
  ASSUME NEW box \in InboxType, NEW a \in Actor, NEW side \in {"parent", "content"},
         box[a][side] # <<>>
  PROVE  /\ [box EXCEPT ![a][side] = Tail(@)] \in InboxType
         /\ Head(box[a][side]) \in Message
<1>1. box[a][side] \in Seq(Message)
  BY DEF InboxType
<1>2. Tail(box[a][side]) \in Seq(Message) /\ Head(box[a][side]) \in Message
  BY <1>1
<1>3. QED BY <1>2 DEF InboxType

LEMMA RequestsType ==
  ASSUME NEW e \in End, NEW S, S \subseteq 1..MaxRequest[e], NEW s \in Ascending(S)
  PROVE  Requests(e, s) \in Seq(Message)
<1>1. IsFiniteSet(S)
  <2>1. 1 \in Int /\ MaxRequest[e] \in Int
    BY ConstantTypes
  <2>2. IsFiniteSet(1..MaxRequest[e])
    BY <2>1, FS_Interval
  <2>3. QED BY <2>2, FS_Subset
<1>2. Cardinality(S) \in Nat
  BY <1>1, FS_CardinalityType
<1>3. s \in [1..Cardinality(S) -> S]
  BY DEF Ascending
<1>4. \A k \in 1..Cardinality(S) : s[k] \in Id /\ <<e, s[k]>> \in Call
  BY <1>3, ConstantTypes, MessageTypes DEF Id
<1>5. DOMAIN s = 1..Cardinality(S)
  BY <1>3
<1>6. Requests(e, s) \in [1..Cardinality(S) -> Message]
  BY <1>4, <1>5, MessageTypes DEF Requests
<1>7. QED BY <1>2, <1>6

-----------------------------------------------------------------------------
(* Type correctness *)

LEMMA TypeInit == Init => TypeOK
BY ConstantTypes, ChannelAssumption DEF Init, TypeOK, NoActor, NoUid, Id

LEMMA TypeLink ==
  ASSUME TypeOK
  PROVE  /\ \A i \in Instance : CreateActor(i) => TypeOK'
         /\ \A e \in End, a \in Actor : BindToActor(e, a) => TypeOK'
         /\ \A e \in End : ResetTransport(e) => TypeOK'
         /\ \A a \in Actor : LoseMessage(a) => TypeOK'
<1>1. ASSUME NEW i \in Instance, CreateActor(i) PROVE TypeOK'
  <2>1. created' \in 0..NActor
    BY <1>1, ConstantTypes DEF TypeOK, CreateActor
  <2>2. hostOf' \in [Actor -> End]
    BY <1>1, ConstantTypes DEF TypeOK, CreateActor
  <2>3. QED
    BY <1>1, <2>1, <2>2 DEF TypeOK, CreateActor, connVars, requestVars, bufferVars, serverVars
<1>2. ASSUME NEW e \in End, NEW a \in Actor, BindToActor(e, a) PROVE TypeOK'
  <2>1. inbox' \in InboxType
    <3>1. Forget(inbox, e, a) \in InboxType
      BY ForgetType DEF TypeOK, InboxType
    <3>2. <<Ready(e)>> \in Seq(Message)
      BY MessageTypes
    <3>3. a \in 0..NActor
      BY ConstantTypes DEF Actor
    <3>4. QED BY <1>2, <3>1, <3>2, <3>3, PostType DEF BindToActor
  <2>2. a \in 0..NActor
    BY ConstantTypes DEF Actor
  <2>3. QED
    BY <1>2, <2>1, <2>2 DEF TypeOK, BindToActor, InboxType, linkVars, requestVars, bufferVars, serverVars
<1>3. ASSUME NEW e \in End, ResetTransport(e) PROVE TypeOK'
  <2>1. inbox' \in InboxType
    BY <1>3, ForgetType DEF TypeOK, InboxType, ResetTransport
  <2>2. NoActor \in 0..NActor
    BY ConstantTypes DEF NoActor
  <2>3. QED
    BY <1>3, <2>1, <2>2 DEF TypeOK, ResetTransport, InboxType, requestVars, bufferVars, serverVars
<1>4. ASSUME NEW a \in Actor, LoseMessage(a) PROVE TypeOK'
  <2>1. inbox' \in InboxType
    BY <1>4, TailType DEF TypeOK, InboxType, LoseMessage
  <2>2. QED
    BY <1>4, <2>1 DEF TypeOK, LoseMessage, InboxType, linkVars, connVars, requestVars, bufferVars, serverVars
<1>5. QED BY <1>1, <1>2, <1>3, <1>4

LEMMA TypeCaller ==
  ASSUME TypeOK
  PROVE  /\ \A e \in End : Send(e) => TypeOK'
         /\ \A e \in End, S \in SUBSET Id : DisposeConnector(e, S) => TypeOK'
         /\ \A e \in End : Dispose(e) => TypeOK'
<1>1. ASSUME NEW e \in End, Send(e) PROVE TypeOK'
  <2>1. sent[e] + 1 \in Id /\ sent[e] + 1 <= MaxRequest[e] /\ sent[e] + 1 \in 0..MaxId
    BY <1>1, ConstantTypes, SMTT(30) DEF Send, TypeOK, Id
  <2>2. <<Request(<<e, sent[e] + 1>>)>> \in Seq(Message)
    BY <2>1, MessageTypes
  <2>3. inbox' \in InboxType
    BY <1>1, <2>2, PostType DEF Send, TypeOK, InboxType
  <2>4. pending' \in [End -> SUBSET Id] /\ \A f \in End : pending'[f] \subseteq 1..MaxRequest[f]
    <3>1. pending' = [pending EXCEPT ![e] = @ \cup {sent[e] + 1}]
      BY <1>1 DEF Send
    <3>2. sent[e] + 1 \in 1..MaxRequest[e]
      BY <2>1, ConstantTypes DEF Id
    <3>3. QED BY <2>1, <3>1, <3>2 DEF TypeOK
  <2>5. QED
    BY <1>1, <2>1, <2>3, <2>4 DEF TypeOK, Send, InboxType, linkVars, connVars, bufferVars, serverVars
<1>2. ASSUME NEW e \in End, NEW S \in SUBSET Id, DisposeConnector(e, S) PROVE TypeOK'
  BY <1>2 DEF TypeOK, DisposeConnector, linkVars, connVars, bufferVars, serverVars
<1>3. ASSUME NEW e \in End, Dispose(e) PROVE TypeOK'
  <2>1. inbox' \in InboxType
    BY <1>3, ForgetType DEF TypeOK, InboxType, Dispose
  <2>2. QED BY <1>3, <2>1 DEF TypeOK, Dispose, InboxType, linkVars, connVars, serverVars
<1>4. QED BY <1>1, <1>2, <1>3

\* The variables that _onMessage may change keep their types.
LEMMA TypeOnMessage ==
  ASSUME TypeOK, NEW e \in End, NEW m \in Message, NEW box \in InboxType,
         OnMessage(e, m, box)
  PROVE  /\ inbox' \in InboxType
         /\ ready' \in [End -> BOOLEAN]
         /\ connectedTo' \in [End -> Uid \cup {NoUid}]
         /\ sent' = sent
         /\ pending' \in [End -> SUBSET Id]
         /\ \A f \in End : pending'[f] \subseteq 1..MaxRequest[f]
         /\ answer' \in [End -> [Id -> Call \cup {NoCall}]]
         /\ buffer' \in [End -> Seq(Payload)]
         /\ cached' \in [End -> [Id -> Call \cup {NoCall}]]
         /\ running' \in [End -> SUBSET Run]
         /\ execs' \in [End -> [Call -> Nat]]
<1>0. transport[e] \in 0..NActor
  BY DEF TypeOK
<1>1. CASE OnHandshake(e, m, box)
  <2>1. m.type \in {"READY", "READY_ACK"} /\ m.uid \in Uid
    BY <1>1 DEF OnHandshake, Message, Handshake, Payload
  <2>2. PICK before \in Seq(Message) : MarkAsReady(e, box, before)
    <3>1. (IF m.type = "READY" THEN <<ReadyAck(e)>> ELSE <<>>) \in Seq(Message)
      BY MessageTypes
    <3>2. QED BY <1>1, <3>1 DEF OnHandshake
  <2>3. inbox' \in InboxType /\ ready' \in [End -> BOOLEAN]
    <3>1. CASE ready[e]
      BY <2>2, <3>1, <1>0, PostType DEF MarkAsReady, TypeOK
    <3>2. CASE ~ready[e]
      <4>1. PICK s \in Ascending(pending[e]) :
              inbox' = Post(box, e, transport[e], before \o Requests(e, s))
        BY <2>2, <3>2 DEF MarkAsReady
      <4>2. Requests(e, s) \in Seq(Message)
        BY RequestsType DEF TypeOK
      <4>3. before \o Requests(e, s) \in Seq(Message)
        BY <4>2
      <4>4. ready' = [ready EXCEPT ![e] = TRUE]
        BY <2>2, <3>2 DEF MarkAsReady
      <4>5. QED BY <4>1, <4>3, <4>4, <1>0, PostType DEF TypeOK
    <3>3. QED BY <3>1, <3>2
  <2>4. cached' \in [End -> [Id -> Call \cup {NoCall}]]
    BY <1>1 DEF OnHandshake, TypeOK
  <2>5. QED BY <1>1, <2>1, <2>3, <2>4 DEF OnHandshake, TypeOK, requestVars
<1>2. CASE OnResponseAck(e, m, box)
  BY <1>2 DEF OnResponseAck, TypeOK, requestVars
<1>3. CASE m.type \in {"REQUEST", "RESPONSE"} /\ paused[e]
           /\ buffer' = [buffer EXCEPT ![e] = Append(@, m)] /\ inbox' = box
           /\ UNCHANGED <<connectedTo, ready, requestVars, serverVars>>
  <2>1. m \in Payload
    BY <1>3 DEF Message, Handshake, Payload
  <2>2. Append(buffer[e], m) \in Seq(Payload)
    BY <2>1 DEF TypeOK
  <2>3. QED BY <1>3, <2>2 DEF TypeOK, requestVars, serverVars
<1>4. CASE OnResponse(e, m, box)
  <2>1. m.id \in Id /\ m.of \in Call
    BY <1>4 DEF OnResponse, Message, Handshake, Payload
  <2>2. inbox' \in InboxType
    <3>1. <<ResponseAck(m.id)>> \in Seq(Message)
      BY <2>1, MessageTypes
    <3>2. QED BY <1>4, <3>1, <1>0, PostType DEF OnResponse
  <2>3. /\ pending' \in [End -> SUBSET Id]
        /\ \A f \in End : pending'[f] \subseteq 1..MaxRequest[f]
    <3>1. pending' = pending \/ pending' = [pending EXCEPT ![e] = pending[e] \ {m.id}]
      BY <1>4 DEF OnResponse
    <3>2. pending \in [End -> SUBSET Id] /\ \A f \in End : pending[f] \subseteq 1..MaxRequest[f]
      BY DEF TypeOK
    <3>3. \A f \in End : pending'[f] \subseteq pending[f]
      BY <3>1, <3>2
    <3>4. pending' \in [End -> SUBSET Id]
      BY <3>1, <3>2
    <3>5. QED BY <3>2, <3>3, <3>4
  <2>4. answer' \in [End -> [Id -> Call \cup {NoCall}]]
    <3>1. answer' = answer \/ answer' = [answer EXCEPT ![e][m.id] = m.of]
      BY <1>4 DEF OnResponse
    <3>2. answer \in [End -> [Id -> Call \cup {NoCall}]] /\ m.of \in Call \cup {NoCall}
      BY <2>1 DEF TypeOK
    <3>3. [answer EXCEPT ![e][m.id] = m.of] \in [End -> [Id -> Call \cup {NoCall}]]
      BY <2>1, <3>2
    <3>4. QED BY <3>1, <3>2, <3>3
  <2>5. QED BY <1>4, <2>2, <2>3, <2>4 DEF OnResponse, TypeOK, serverVars
<1>5. CASE OnRequest(e, m, box)
  <2>1. m.call \in Call /\ m \in Payload
    BY <1>5 DEF OnRequest, Message, Handshake, Payload
  <2>2. m.call[2] \in Id
    BY <2>1, MessageTypes
  <2>3. inbox' \in InboxType
    <3>1. cached[e][m.call[2]] # NoCall => <<Response(cached[e][m.call[2]])>> \in Seq(Message)
      BY <2>2, MessageTypes DEF TypeOK
    <3>2. <<Response(m.call)>> \in Seq(Message)
      BY <2>1, MessageTypes
    <3>3. QED BY <1>5, <1>0, <3>1, <3>2, PostType DEF OnRequest
  <2>4. buffer' \in [End -> Seq(Payload)]
    <3>1. Append(buffer[e], m) \in Seq(Payload)
      BY <2>1 DEF TypeOK
    <3>2. QED BY <1>5, <3>1 DEF OnRequest, TypeOK
  <2>5. running' \in [End -> SUBSET Run] /\ execs' \in [End -> [Call -> Nat]]
    <3>1. [call |-> m.call, uid |-> connectedTo[e], n |-> execs[e][m.call]] \in Run
      BY <2>1 DEF TypeOK, Run
    <3>2. execs[e][m.call] + 1 \in Nat
      BY <2>1 DEF TypeOK
    <3>3. running' = running \/ running' = [running EXCEPT ![e] = @ \cup
            {[call |-> m.call, uid |-> connectedTo[e], n |-> execs[e][m.call]]}]
      BY <1>5 DEF OnRequest
    <3>4. execs' = execs \/ execs' = [execs EXCEPT ![e][m.call] = @ + 1]
      BY <1>5 DEF OnRequest
    <3>5. running \in [End -> SUBSET Run] /\ execs \in [End -> [Call -> Nat]]
      BY DEF TypeOK
    <3>6. running' \in [End -> SUBSET Run]
      BY <3>1, <3>3, <3>5
    <3>7. execs' \in [End -> [Call -> Nat]]
      <4>1. [execs EXCEPT ![e][m.call] = execs[e][m.call] + 1] \in [End -> [Call -> Nat]]
        BY <2>1, <3>2, <3>5
      <4>2. QED BY <3>4, <3>5, <4>1
    <3>8. QED BY <3>6, <3>7
  <2>6. QED BY <1>5, <2>3, <2>4, <2>5 DEF OnRequest, TypeOK, requestVars
<1>6. QED BY <1>1, <1>2, <1>3, <1>4, <1>5 DEF OnMessage

LEMMA TypeServer ==
  ASSUME TypeOK
  PROVE  /\ \A e \in End : Deliver(e) => TypeOK'
         /\ \A e \in End : DeliverBuffered(e) => TypeOK'
         /\ \A e \in End : \A r \in running[e] : FinishHandler(e, r) => TypeOK'
<1>1. ASSUME NEW e \in End, Deliver(e) PROVE TypeOK'
  <2> DEFINE a == transport[e]
             box == [inbox EXCEPT ![a][Side(e)] = Tail(@)]
             m == Head(inbox[a][Side(e)])
  <2>1. a \in Actor /\ Side(e) \in {"parent", "content"}
    BY <1>1, ConstantTypes DEF Deliver, TypeOK, Actor, NoActor
  <2>2. inbox \in InboxType /\ inbox[a][Side(e)] # <<>>
    BY <1>1 DEF Deliver, TypeOK, InboxType
  <2>3. box \in InboxType /\ m \in Message
    BY <2>1, <2>2, TailType
  <2>4. OnMessage(e, m, box)
    BY <1>1 DEF Deliver
  <2> HIDE DEF a, box, m
  <2>5. UNCHANGED <<linkVars, seen, transport, registered, paused, disposed, timer, drain>>
    BY <1>1, <2>4 DEF Deliver, OnMessage
  <2>6. QED BY <2>3, <2>4, <2>5, TypeOnMessage DEF TypeOK, InboxType, linkVars
<1>2. ASSUME NEW e \in End, DeliverBuffered(e) PROVE TypeOK'
  <2>1. drain[e] \in Seq(Payload) /\ drain[e] # <<>>
    BY <1>2 DEF DeliverBuffered, TypeOK
  <2>2. Head(drain[e]) \in Message /\ Tail(drain[e]) \in Seq(Payload)
    BY <2>1, MessageTypes
  <2>3. inbox \in InboxType
    BY DEF TypeOK, InboxType
  <2>4. OnMessage(e, Head(drain[e]), inbox)
    BY <1>2 DEF DeliverBuffered
  <2>5. UNCHANGED <<linkVars, seen, transport, registered, paused, disposed, timer>>
    BY <1>2, <2>4 DEF DeliverBuffered, OnMessage
  <2>6. drain' \in [End -> Seq(Payload)]
    BY <1>2, <2>2 DEF DeliverBuffered, TypeOK
  <2>7. QED BY <2>2, <2>3, <2>4, <2>5, <2>6, TypeOnMessage DEF TypeOK, InboxType, linkVars
<1>3. ASSUME NEW e \in End, NEW r \in running[e], FinishHandler(e, r) PROVE TypeOK'
  <2>1. r.call \in Call /\ r.call[2] \in Id
    BY MessageTypes DEF TypeOK, Run
  <2>2. <<Response(r.call)>> \in Seq(Message)
    BY <2>1, MessageTypes
  <2>3. inbox \in InboxType /\ transport[e] \in 0..NActor
    BY DEF TypeOK, InboxType
  <2>4. inbox' \in InboxType
    BY <1>3, <2>2, <2>3, PostType DEF FinishHandler
  <2>5. cached' \in [End -> [Id -> Call \cup {NoCall}]]
    <3>1. cached' = cached \/ cached' = [cached EXCEPT ![e][r.call[2]] = r.call]
      BY <1>3 DEF FinishHandler
    <3>2. cached \in [End -> [Id -> Call \cup {NoCall}]] /\ r.call \in Call \cup {NoCall}
      BY <2>1 DEF TypeOK
    <3>3. [cached EXCEPT ![e][r.call[2]] = r.call] \in [End -> [Id -> Call \cup {NoCall}]]
      BY <2>1, <3>2
    <3>4. QED BY <3>1, <3>2, <3>3
  <2>6. running' \in [End -> SUBSET Run]
    BY <1>3 DEF FinishHandler, TypeOK
  <2>7. QED
    BY <1>3, <2>4, <2>5, <2>6
    DEF TypeOK, FinishHandler, InboxType, linkVars, connVars, requestVars, bufferVars
<1>4. QED BY <1>1, <1>2, <1>3

LEMMA TypeHandlers ==
  ASSUME TypeOK, NEW e \in End
  PROVE  /\ Register(e) \/ Unregister(e) => TypeOK'
         /\ Pause(e) \/ ResumeSoon(e) \/ ResumeTimer(e) => TypeOK'
<1>1. ASSUME Register(e) PROVE TypeOK'
  <2>1. buffer' \in [End -> Seq(Payload)] /\ drain' \in [End -> Seq(Payload)]
    BY <1>1 DEF TypeOK, Register
  <2>2. registered' \in [End -> BOOLEAN]
    BY <1>1 DEF TypeOK, Register
  <2>3. QED BY <1>1, <2>1, <2>2 DEF TypeOK, Register, linkVars, connVars, requestVars, serverVars
<1>2. ASSUME Unregister(e) PROVE TypeOK'
  BY <1>2 DEF TypeOK, Unregister, linkVars, connVars, requestVars, serverVars
<1>3. ASSUME Pause(e) PROVE TypeOK'
  BY <1>3 DEF TypeOK, Pause, linkVars, connVars, requestVars, serverVars
<1>4. ASSUME ResumeSoon(e) PROVE TypeOK'
  BY <1>4 DEF TypeOK, ResumeSoon, linkVars, connVars, requestVars, serverVars
<1>5. ASSUME ResumeTimer(e) PROVE TypeOK'
  <2>1. buffer' \in [End -> Seq(Payload)] /\ drain' \in [End -> Seq(Payload)]
    BY <1>5 DEF TypeOK, ResumeTimer
  <2>2. timer' \in [End -> BOOLEAN]
    BY <1>5 DEF TypeOK, ResumeTimer
  <2>3. QED BY <1>5, <2>1, <2>2 DEF TypeOK, ResumeTimer, linkVars, connVars, requestVars, serverVars
<1>6. QED BY <1>1, <1>2, <1>3, <1>4, <1>5

\* Every variable of the channel keeps its type in every reachable state.
THEOREM ChannelTypes == Spec => []TypeOK
<1>1. Init => TypeOK
  BY TypeInit
<1>2. TypeOK /\ [Next]_vars => TypeOK'
  <2>1. ASSUME TypeOK, Next PROVE TypeOK'
    BY <2>1, TypeLink, TypeCaller, TypeServer, TypeHandlers DEF Next
  <2>2. ASSUME TypeOK, UNCHANGED vars PROVE TypeOK'
    BY <2>2 DEF TypeOK, vars, linkVars, connVars, requestVars, bufferVars, serverVars
  <2>3. QED BY <2>1, <2>2
<1>3. QED
  BY <1>1, <1>2, PTL DEF Spec
-----------------------------------------------------------------------------
(* An end that believes its channel ready knows its peer *)

LEMMA TypeParts ==
  ASSUME TypeOK
  PROVE  /\ inbox \in InboxType
         /\ created \in 0..NActor
         /\ hostOf \in [Actor -> End]
         /\ transport \in [End -> 0..NActor]
         /\ seen \in [End -> 0..NActor]
         /\ ready \in [End -> BOOLEAN]
         /\ connectedTo \in [End -> Uid \cup {NoUid}]
BY DEF TypeOK, InboxType

LEMMA WirePost ==
  ASSUME NEW box \in InboxType, NEW e \in End, NEW a \in 0..NActor,
         NEW ms \in Seq(Message), created \in 0..NActor,
         WireInv(box), Greets(ms, UidOf[e]),
         a # NoActor => a <= created /\ (e # Parent => hostOf[a] = e)
  PROVE  WireInv(Post(box, e, a, ms))
<1>1. CASE a = NoActor \/ Deaf(Peer(e, a), a)
  BY <1>1 DEF Post
<1>2. CASE ~(a = NoActor \/ Deaf(Peer(e, a), a))
  <2>1. a \in Actor /\ ~(a > created)
    BY <1>2, ConstantTypes DEF NoActor, Actor
  <2>2. PICK side \in {"parent", "content"} :
          /\ side = Other(e)
          /\ side = "parent" => e # Parent
          /\ side = "content" => e = Parent
    BY DEF Other
  <2>3. Post(box, e, a, ms) = [box EXCEPT ![a][side] = box[a][side] \o ms]
    BY <1>2, <2>2 DEF Post
  <2>4. box[a][side] \in Seq(Message)
    BY <2>1 DEF InboxType
  <2>5. Greets(box[a][side], UidOf[e])
    BY <1>2, <2>1, <2>2 DEF WireInv
  <2>6. Greets(box[a][side] \o ms, UidOf[e])
    BY <2>4, <2>5, SMTT(30) DEF Greets
  <2>7. \A b \in Actor, t \in {"parent", "content"} :
          Post(box, e, a, ms)[b][t] =
            IF b = a /\ t = side THEN box[a][side] \o ms ELSE box[b][t]
    BY <2>1, <2>3 DEF InboxType
  <2>8. QED BY <1>2, <2>1, <2>2, <2>6, <2>7 DEF WireInv
<1>3. QED BY <1>1, <1>2

LEMMA WireForget ==
  ASSUME NEW box \in InboxType, NEW e \in End, NEW a, WireInv(box)
  PROVE  WireInv(Forget(box, e, a))
<1>1. \A b \in Actor, t \in {"parent", "content"} :
        Forget(box, e, a)[b][t] = box[b][t] \/ Forget(box, e, a)[b][t] = <<>>
  BY ConstantTypes DEF Forget, InboxType
<1>2. \A u : Greets(<<>>, u)
  BY DEF Greets
<1>3. QED BY <1>1, <1>2 DEF WireInv

LEMMA WireTail ==
  ASSUME NEW box \in InboxType, NEW a \in Actor, NEW side \in {"parent", "content"},
         box[a][side] # <<>>, WireInv(box)
  PROVE  /\ WireInv([box EXCEPT ![a][side] = Tail(@)])
         /\ Greets(<<Head(box[a][side])>>, UidOf[IF side = "parent" THEN hostOf[a] ELSE Parent])
<1>1. box[a][side] \in Seq(Message)
  BY DEF InboxType
<1>2. \A u : Greets(box[a][side], u) => Greets(Tail(box[a][side]), u)
  BY <1>1 DEF Greets
<1>3. \A u : Greets(box[a][side], u) => Greets(<<Head(box[a][side])>>, u)
  BY <1>1 DEF Greets
<1>4. \A b \in Actor, t \in {"parent", "content"} :
        [box EXCEPT ![a][side] = Tail(@)][b][t] =
          IF b = a /\ t = side THEN Tail(box[a][side]) ELSE box[b][t]
  BY DEF InboxType
<1>5. WireInv([box EXCEPT ![a][side] = Tail(@)])
  BY <1>2, <1>4 DEF WireInv
<1>6. QED BY <1>3, <1>5 DEF WireInv

LEMMA PeerInit == Init => PeerInv
<1>1. SUFFICES ASSUME Init PROVE PeerInv
  OBVIOUS
<1>2. TypeOK
  BY <1>1, TypeInit
<1>3. BoundInv /\ ReadyMeansPeer
  BY <1>1 DEF Init, BoundInv, ReadyMeansPeer
<1>4. WireInv(inbox)
  BY <1>1 DEF Init, WireInv, Greets
<1>5. QED BY <1>2, <1>3, <1>4 DEF PeerInv

LEMMA PeerLink ==
  ASSUME PeerInv
  PROVE  /\ \A i \in Instance : CreateActor(i) => PeerInv'
         /\ \A e \in End, a \in Actor : BindToActor(e, a) => PeerInv'
         /\ \A e \in End : ResetTransport(e) => PeerInv'
         /\ \A a \in Actor : LoseMessage(a) => PeerInv'
<1>0. TypeOK /\ BoundInv /\ WireInv(inbox) /\ ReadyMeansPeer
  BY DEF PeerInv
<1>1. ASSUME NEW i \in Instance, CreateActor(i) PROVE PeerInv'
  <2>1. TypeOK'
    BY <1>0, <1>1, TypeLink
  <2>2. /\ created' = created + 1 /\ hostOf' = [hostOf EXCEPT ![created + 1] = i]
        /\ UNCHANGED <<inbox, transport, ready, connectedTo>>
        /\ created + 1 \in Actor
    BY <1>0, <1>1, TypeParts, ConstantTypes DEF CreateActor, connVars, Actor
  <2>3. \A a \in Actor : a <= created => hostOf'[a] = hostOf[a]
    BY <1>0, <2>2, TypeParts, ConstantTypes DEF Actor
  <2>4. \A e \in End : transport[e] # NoActor => transport[e] \in Actor /\ transport[e] <= created
    BY <1>0, TypeParts, ConstantTypes DEF BoundInv, Actor, NoActor
  <2>5. BoundInv'
    BY <1>0, <2>2, <2>3, <2>4, TypeParts DEF BoundInv
  <2>6. ReadyMeansPeer'
    BY <1>0, <2>2, <2>3, <2>4 DEF ReadyMeansPeer, Peer
  <2>7. WireInv(inbox)'
    <3>1. ASSUME NEW a \in Actor, a <= created PROVE hostOf'[a] = hostOf[a] /\ ~(a > created + 1)
      BY <1>0, <3>1, <2>3, TypeParts DEF Actor
    <3>2. ASSUME NEW a \in Actor, a > created
          PROVE  inbox[a]["parent"] = <<>> /\ inbox[a]["content"] = <<>>
      BY <1>0, <3>2 DEF WireInv
    <3>3. \A u : Greets(<<>>, u)
      BY DEF Greets
    <3>4. \A a \in Actor : a <= created \/ a > created
      BY <1>0, TypeParts DEF Actor
    <3>5. QED BY <1>0, <2>2, <3>1, <3>2, <3>3, <3>4 DEF WireInv
  <2>8. QED BY <2>1, <2>5, <2>6, <2>7 DEF PeerInv
<1>2. ASSUME NEW e \in End, NEW a \in Actor, BindToActor(e, a) PROVE PeerInv'
  <2>1. TypeOK'
    BY <1>0, <1>2, TypeLink
  <2>2. /\ UNCHANGED <<created, hostOf, connectedTo>>
        /\ transport' = [transport EXCEPT ![e] = a]
        /\ ready' = [ready EXCEPT ![e] = FALSE]
        /\ inbox' = Post(Forget(inbox, e, a), e, a, <<Ready(e)>>)
    BY <1>2 DEF BindToActor, linkVars
  <2>3. a <= created /\ (e # Parent => hostOf[a] = e)
    BY <1>0, <1>2, TypeParts DEF BindToActor
  <2>4. BoundInv'
    BY <1>0, <2>2, <2>3, TypeParts DEF BoundInv
  <2>5. ReadyMeansPeer'
    BY <1>0, <2>2, TypeParts DEF ReadyMeansPeer, Peer
  <2>6. WireInv(inbox')
    <3>1. <<Ready(e)>> \in Seq(Message)
      BY MessageTypes
    <3>2. Greets(<<Ready(e)>>, UidOf[e])
      BY DEF Greets, Ready
    <3>3. Forget(inbox, e, a) \in InboxType /\ WireInv(Forget(inbox, e, a))
      BY <1>0, ForgetType, WireForget, TypeParts
    <3>4. a \in 0..NActor
      BY ConstantTypes DEF Actor
    <3>5. QED BY <1>0, <2>2, <2>3, <3>1, <3>2, <3>3, <3>4, WirePost, TypeParts
  <2>7. QED BY <2>1, <2>2, <2>4, <2>5, <2>6 DEF PeerInv, WireInv
<1>3. ASSUME NEW e \in End, ResetTransport(e) PROVE PeerInv'
  <2>1. TypeOK'
    BY <1>0, <1>3, TypeLink
  <2>2. /\ UNCHANGED <<created, hostOf, connectedTo>>
        /\ transport' = [transport EXCEPT ![e] = NoActor]
        /\ ready' = [ready EXCEPT ![e] = FALSE]
        /\ inbox' = Forget(inbox, e, transport[e] + 1)
    BY <1>3 DEF ResetTransport
  <2>3. BoundInv' /\ ReadyMeansPeer'
    BY <1>0, <2>2, TypeParts DEF BoundInv, ReadyMeansPeer, Peer
  <2>4. WireInv(inbox')
    BY <1>0, <2>2, WireForget, TypeParts
  <2>5. QED BY <2>1, <2>2, <2>3, <2>4 DEF PeerInv, WireInv
<1>4. ASSUME NEW a \in Actor, LoseMessage(a) PROVE PeerInv'
  <2>1. TypeOK'
    BY <1>0, <1>4, TypeLink
  <2>2. UNCHANGED <<created, hostOf, transport, ready, connectedTo>>
    BY <1>4 DEF LoseMessage, linkVars, connVars
  <2>3. WireInv(inbox')
    BY <1>0, <1>4, WireTail, TypeParts DEF LoseMessage
  <2>4. QED BY <1>0, <2>1, <2>2, <2>3 DEF PeerInv, WireInv, BoundInv, ReadyMeansPeer, Peer
<1>5. QED BY <1>1, <1>2, <1>3, <1>4

LEMMA RequestsGreet ==
  ASSUME NEW e, NEW s, NEW u
  PROVE  Greets(Requests(e, s), u)
<1>1. \A k \in DOMAIN s : Requests(e, s)[k].type = "REQUEST"
  BY DEF Requests, Request
<1>2. DOMAIN Requests(e, s) = DOMAIN s
  BY DEF Requests
<1>3. QED BY <1>1, <1>2 DEF Greets

\* What an arriving message leaves of the invariant: m came through the pair
\* that e is bound to, or greets nobody.
LEMMA PeerOnMessage ==
  ASSUME PeerInv, NEW e \in End, NEW m \in Message, NEW box \in InboxType,
         WireInv(box), OnMessage(e, m, box),
         m.type \in {"READY", "READY_ACK"} =>
           /\ transport[e] # NoActor
           /\ m.uid = UidOf[Peer(e, transport[e])]
  PROVE  BoundInv' /\ WireInv(inbox)' /\ ReadyMeansPeer'
<1>0. /\ TypeOK /\ BoundInv /\ ReadyMeansPeer
      /\ UNCHANGED <<created, hostOf, transport>>
      /\ transport[e] \in 0..NActor
  BY TypeParts DEF PeerInv, OnMessage, linkVars
<1>1. BoundInv'
  BY <1>0 DEF BoundInv
<1>2. \A ms \in Seq(Message) : Greets(ms, UidOf[e]) => WireInv(Post(box, e, transport[e], ms))
  BY <1>0, WirePost, TypeParts DEF BoundInv
<1>3. \A msg \in Message : msg.type \notin {"READY", "READY_ACK"} => Greets(<<msg>>, UidOf[e])
  BY DEF Greets
<1>4. CASE OnHandshake(e, m, box)
  <2>1. PICK before \in Seq(Message) :
          MarkAsReady(e, box, before) /\ Greets(before, UidOf[e])
    <3> DEFINE ms == IF m.type = "READY" THEN <<ReadyAck(e)>> ELSE <<>>
    <3>1. ms \in Seq(Message)
      BY MessageTypes
    <3>2. Greets(ms, UidOf[e])
      BY DEF Greets, ReadyAck
    <3>3. QED BY <1>4, <3>1, <3>2 DEF OnHandshake
  <2>2. WireInv(inbox')
    <3>1. CASE ready[e]
      BY <1>2, <2>1, <3>1 DEF MarkAsReady
    <3>2. CASE ~ready[e]
      <4>1. PICK s \in Ascending(pending[e]) :
              inbox' = Post(box, e, transport[e], before \o Requests(e, s))
        BY <2>1, <3>2 DEF MarkAsReady
      <4>2. Requests(e, s) \in Seq(Message) /\ Greets(Requests(e, s), UidOf[e])
        BY <1>0, RequestsType, RequestsGreet DEF TypeOK
      <4>3. before \o Requests(e, s) \in Seq(Message)
        BY <4>2
      <4>4. Greets(before \o Requests(e, s), UidOf[e])
        BY <2>1, <4>2 DEF Greets
      <4>5. QED BY <1>2, <4>1, <4>3, <4>4
    <3>3. QED BY <3>1, <3>2
  <2>3. ready' \in [End -> BOOLEAN] /\ \A f \in End : f # e => ready'[f] = ready[f]
    BY <1>0, <2>1, TypeParts DEF MarkAsReady
  <2>4. /\ connectedTo' = [connectedTo EXCEPT ![e] = m.uid]
        /\ m.type \in {"READY", "READY_ACK"}
    BY <1>4 DEF OnHandshake
  <2>5. ReadyMeansPeer'
    BY <1>0, <2>3, <2>4, TypeParts DEF ReadyMeansPeer, Peer
  <2>6. QED BY <1>0, <1>1, <2>2, <2>5 DEF WireInv
<1>5. CASE ~OnHandshake(e, m, box)
  <2>1. UNCHANGED <<ready, connectedTo>>
    BY <1>5 DEF OnMessage, OnResponseAck, OnResponse, OnRequest
  <2>2. ReadyMeansPeer'
    BY <1>0, <2>1 DEF ReadyMeansPeer, Peer
  <2>3. WireInv(inbox')
    <3>1. CASE inbox' = box
      BY <3>1
    <3>2. CASE OnResponse(e, m, box)
      <4>1. m.id \in Id
        BY <3>2 DEF OnResponse, Message, Handshake, Payload
      <4>2. <<ResponseAck(m.id)>> \in Seq(Message) /\ ResponseAck(m.id).type = "RESPONSE_ACK"
        BY <4>1, MessageTypes DEF ResponseAck
      <4>3. Greets(<<ResponseAck(m.id)>>, UidOf[e])
        BY <4>2 DEF Greets
      <4>4. QED BY <1>2, <3>2, <4>2, <4>3 DEF OnResponse
    <3>3. CASE OnRequest(e, m, box)
      <4>1. m.call \in Call
        BY <3>3 DEF OnRequest, Message, Handshake, Payload
      <4>2. m.call[2] \in Id
        BY <4>1, MessageTypes
      <4>3. \A c \in Call : /\ <<Response(c)>> \in Seq(Message)
                            /\ Greets(<<Response(c)>>, UidOf[e])
        <5>1. \A c \in Call : Response(c) \in Message /\ Response(c).type = "RESPONSE"
          BY MessageTypes DEF Response
        <5>2. QED BY <1>3, <5>1
      <4>4. cached[e][m.call[2]] \in Call \cup {NoCall}
        BY <1>0, <4>2 DEF TypeOK
      <4>5. QED BY <1>2, <3>1, <3>3, <4>1, <4>3, <4>4 DEF OnRequest
    <3>4. QED BY <1>5, <3>1, <3>2, <3>3 DEF OnMessage, OnResponseAck
  <2>4. QED BY <1>0, <1>1, <2>2, <2>3 DEF WireInv
<1>6. QED BY <1>4, <1>5
LEMMA PeerServer ==
  ASSUME PeerInv
  PROVE  /\ \A e \in End : Deliver(e) => PeerInv'
         /\ \A e \in End : DeliverBuffered(e) => PeerInv'
         /\ \A e \in End : \A r \in running[e] : FinishHandler(e, r) => PeerInv'
<1>0. TypeOK /\ BoundInv /\ WireInv(inbox) /\ ReadyMeansPeer
  BY DEF PeerInv
<1>1. ASSUME NEW e \in End, Deliver(e) PROVE PeerInv'
  <2> DEFINE a == transport[e]
             box == [inbox EXCEPT ![a][Side(e)] = Tail(@)]
             m == Head(inbox[a][Side(e)])
  <2>1. a \in Actor /\ a # NoActor /\ Side(e) \in {"parent", "content"}
    BY <1>0, <1>1, TypeParts, ConstantTypes DEF Deliver, Actor, NoActor
  <2>2. inbox \in InboxType /\ inbox[a][Side(e)] # <<>>
    BY <1>0, <1>1, TypeParts DEF Deliver
  <2>3. box \in InboxType /\ m \in Message
    BY <2>1, <2>2, TailType
  <2>4. /\ WireInv(box)
        /\ Greets(<<m>>, UidOf[IF Side(e) = "parent" THEN hostOf[a] ELSE Parent])
    BY <1>0, <2>1, <2>2, WireTail
  <2>5. (IF Side(e) = "parent" THEN hostOf[a] ELSE Parent) = Peer(e, a)
    BY DEF Side, Peer
  <2>6. m.type \in {"READY", "READY_ACK"} => m.uid = UidOf[Peer(e, a)]
    BY <2>4, <2>5 DEF Greets
  <2>7. OnMessage(e, m, box)
    BY <1>1 DEF Deliver
  <2>8. TypeOK'
    BY <1>0, <1>1, TypeServer
  <2> HIDE DEF box, m
  <2>9. BoundInv' /\ WireInv(inbox)' /\ ReadyMeansPeer'
    BY <2>1, <2>3, <2>4, <2>6, <2>7, PeerOnMessage
  <2>10. QED BY <2>8, <2>9 DEF PeerInv
<1>2. ASSUME NEW e \in End, DeliverBuffered(e) PROVE PeerInv'
  <2>1. drain[e] \in Seq(Payload) /\ drain[e] # <<>>
    BY <1>0, <1>2 DEF DeliverBuffered, TypeOK
  <2>2. Head(drain[e]) \in Payload
    BY <2>1
  <2>3. Head(drain[e]) \in Message /\ Head(drain[e]).type \notin {"READY", "READY_ACK"}
    BY <2>2, MessageTypes DEF Payload
  <2>4. OnMessage(e, Head(drain[e]), inbox)
    BY <1>2 DEF DeliverBuffered
  <2>5. TypeOK'
    BY <1>0, <1>2, TypeServer
  <2>6. BoundInv' /\ WireInv(inbox)' /\ ReadyMeansPeer'
    BY <1>0, <2>3, <2>4, TypeParts, PeerOnMessage
  <2>7. QED BY <2>5, <2>6 DEF PeerInv
<1>3. ASSUME NEW e \in End, NEW r \in running[e], FinishHandler(e, r) PROVE PeerInv'
  <2>1. TypeOK'
    BY <1>0, <1>3, TypeServer
  <2>2. UNCHANGED <<created, hostOf, transport, ready, connectedTo>>
    BY <1>3 DEF FinishHandler, linkVars, connVars
  <2>3. WireInv(inbox')
    <3>1. r.call \in Call
      BY <1>0 DEF TypeOK, Run
    <3>2. Response(r.call) \in Message /\ Response(r.call).type = "RESPONSE"
      BY <3>1, MessageTypes DEF Response
    <3>3. <<Response(r.call)>> \in Seq(Message) /\ Greets(<<Response(r.call)>>, UidOf[e])
      BY <3>2 DEF Greets
    <3>4. CASE inbox' = inbox
      BY <1>0, <3>4
    <3>5. CASE inbox' = Post(inbox, e, transport[e], <<Response(r.call)>>)
      <4>1. transport[e] \in 0..NActor /\ created \in 0..NActor /\ inbox \in InboxType
        BY <1>0, TypeParts
      <4>2. QED BY <1>0, <3>3, <3>5, <4>1, WirePost DEF BoundInv
    <3>6. QED BY <1>3, <3>4, <3>5 DEF FinishHandler
  <2>4. QED BY <1>0, <2>1, <2>2, <2>3 DEF PeerInv, WireInv, BoundInv, ReadyMeansPeer, Peer
<1>4. QED BY <1>1, <1>2, <1>3

LEMMA PeerCaller ==
  ASSUME PeerInv
  PROVE  /\ \A e \in End : Send(e) => PeerInv'
         /\ \A e \in End, S \in SUBSET Id : DisposeConnector(e, S) => PeerInv'
         /\ \A e \in End : Dispose(e) => PeerInv'
<1>0. TypeOK /\ BoundInv /\ WireInv(inbox) /\ ReadyMeansPeer
  BY DEF PeerInv
<1>1. ASSUME NEW e \in End, Send(e) PROVE PeerInv'
  <2>1. TypeOK'
    BY <1>0, <1>1, TypeCaller
  <2>2. UNCHANGED <<created, hostOf, transport, ready, connectedTo>>
    BY <1>1 DEF Send, linkVars, connVars
  <2>3. WireInv(inbox')
    <3> DEFINE req == Request(<<e, sent[e] + 1>>)
    <3>1. sent[e] + 1 \in Id /\ sent[e] + 1 <= MaxRequest[e]
      BY <1>0, <1>1, ConstantTypes, SMTT(30) DEF Send, TypeOK, Id
    <3>2. <<req>> \in Seq(Message) /\ Greets(<<req>>, UidOf[e])
      BY <3>1, MessageTypes DEF Greets, Request
    <3>3. transport[e] \in 0..NActor /\ created \in 0..NActor /\ inbox \in InboxType
      BY <1>0, TypeParts
    <3>4. WireInv(Post(inbox, e, transport[e], <<req>>))
      BY <1>0, <3>2, <3>3, WirePost DEF BoundInv
    <3>5. QED BY <1>0, <1>1, <3>4 DEF Send
  <2>4. QED BY <1>0, <2>1, <2>2, <2>3 DEF PeerInv, WireInv, BoundInv, ReadyMeansPeer, Peer
<1>2. ASSUME NEW e \in End, NEW S \in SUBSET Id, DisposeConnector(e, S) PROVE PeerInv'
  <2>1. TypeOK'
    BY <1>0, <1>2, TypeCaller
  <2>2. UNCHANGED <<created, hostOf, inbox, transport, ready, connectedTo>>
    BY <1>2 DEF DisposeConnector, linkVars, connVars
  <2>3. QED BY <1>0, <2>1, <2>2 DEF PeerInv, WireInv, BoundInv, ReadyMeansPeer, Peer
<1>3. ASSUME NEW e \in End, Dispose(e) PROVE PeerInv'
  <2>1. TypeOK'
    BY <1>0, <1>3, TypeCaller
  <2>2. /\ UNCHANGED <<created, hostOf, transport, ready, connectedTo>>
        /\ inbox' = Forget(inbox, e, NActor + 1)
    BY <1>3 DEF Dispose, linkVars, connVars
  <2>3. WireInv(inbox')
    BY <1>0, <2>2, WireForget, TypeParts
  <2>4. QED BY <1>0, <2>1, <2>2, <2>3 DEF PeerInv, WireInv, BoundInv, ReadyMeansPeer, Peer
<1>4. QED BY <1>1, <1>2, <1>3

LEMMA PeerHandlers ==
  ASSUME PeerInv, NEW e \in End
  PROVE  /\ Register(e) \/ Unregister(e) => PeerInv'
         /\ Pause(e) \/ ResumeSoon(e) \/ ResumeTimer(e) => PeerInv'
<1>1. SUFFICES ASSUME \/ Register(e) \/ Unregister(e)
                      \/ Pause(e) \/ ResumeSoon(e) \/ ResumeTimer(e)
               PROVE  PeerInv'
  OBVIOUS
<1>2. TypeOK'
  BY <1>1, TypeHandlers DEF PeerInv
<1>3. UNCHANGED <<created, hostOf, inbox, transport, ready, connectedTo>>
  BY <1>1 DEF Register, Unregister, Pause, ResumeSoon, ResumeTimer, linkVars, connVars
<1>4. QED BY <1>2, <1>3 DEF PeerInv, WireInv, BoundInv, ReadyMeansPeer, Peer

LEMMA PeerNext == PeerInv /\ [Next]_vars => PeerInv'
<1>1. ASSUME PeerInv, Next PROVE PeerInv'
  BY <1>1, PeerLink, PeerCaller, PeerServer, PeerHandlers DEF Next
<1>2. ASSUME PeerInv, UNCHANGED vars PROVE PeerInv'
  <2>1. TypeOK'
    BY <1>2 DEF PeerInv, TypeOK, vars, linkVars, connVars, requestVars, bufferVars, serverVars
  <2>2. UNCHANGED <<created, hostOf, inbox, transport, ready, connectedTo>>
    BY <1>2 DEF vars, linkVars, connVars
  <2>3. QED BY <1>2, <2>1, <2>2 DEF PeerInv, WireInv, BoundInv, ReadyMeansPeer, Peer
<1>3. QED BY <1>1, <1>2

\* An end never takes its channel for ready with a peer other than the one
\* behind the actor it is bound to, however ends, actors and greetings come and
\* go (_onMessage, _markAsReady, bindToActor).
THEOREM ReadyIsWithThePeer == Spec => []ReadyMeansPeer
<1>1. Init => PeerInv
  BY PeerInit
<1>2. PeerInv /\ [Next]_vars => PeerInv'
  BY PeerNext
<1>3. PeerInv => ReadyMeansPeer
  BY DEF PeerInv
<1>4. QED BY <1>1, <1>2, <1>3, PTL DEF Spec

-----------------------------------------------------------------------------
(* A request is only resolved with its own response: what messages carry *)

LEMMA CarriedConcat ==
  ASSUME NEW q \in Seq(Message), NEW ms \in Seq(Message), NEW from, NEW to,
         Carried(q, from, to), Carried(ms, from, to)
  PROVE  Carried(q \o ms, from, to)
BY DEF Carried

LEMMA OwnPost ==
  ASSUME NEW box \in InboxType, NEW e \in End, NEW a \in 0..NActor,
         NEW ms \in Seq(Message), WireOwn(box), Carried(ms, e, Peer(e, a)),
         a # NoActor /\ e # Parent => hostOf[a] = e
  PROVE  WireOwn(Post(box, e, a, ms))
<1>1. CASE a = NoActor \/ Deaf(Peer(e, a), a)
  BY <1>1 DEF Post
<1>2. CASE ~(a = NoActor \/ Deaf(Peer(e, a), a))
  <2>1. a \in Actor
    BY <1>2, ConstantTypes DEF NoActor, Actor
  <2>2. PICK side \in {"parent", "content"} :
          /\ side = Other(e)
          /\ side = "parent" => e # Parent
          /\ side = "content" => e = Parent
    BY DEF Other
  <2>3. Post(box, e, a, ms) = [box EXCEPT ![a][side] = box[a][side] \o ms]
    BY <1>2, <2>2 DEF Post
  <2>4. box[a][side] \in Seq(Message)
    BY <2>1 DEF InboxType
  <2>5. Carried(box[a][side], e, Peer(e, a))
    BY <1>2, <2>1, <2>2 DEF WireOwn, Peer
  <2>6. Carried(box[a][side] \o ms, e, Peer(e, a))
    BY <2>4, <2>5, CarriedConcat
  <2>7. \A b \in Actor, t \in {"parent", "content"} :
          Post(box, e, a, ms)[b][t] =
            IF b = a /\ t = side THEN box[a][side] \o ms ELSE box[b][t]
    BY <2>1, <2>3 DEF InboxType
  <2>8. QED BY <1>2, <2>1, <2>2, <2>5, <2>6, <2>7 DEF WireOwn, Peer
<1>3. QED BY <1>1, <1>2

LEMMA OwnForget ==
  ASSUME NEW box \in InboxType, NEW e \in End, NEW a, WireOwn(box)
  PROVE  WireOwn(Forget(box, e, a))
<1>1. \A b \in Actor, t \in {"parent", "content"} :
        Forget(box, e, a)[b][t] = box[b][t] \/ Forget(box, e, a)[b][t] = <<>>
  BY ConstantTypes DEF Forget, InboxType
<1>2. \A x, y : Carried(<<>>, x, y)
  BY DEF Carried
<1>3. QED BY <1>1, <1>2 DEF WireOwn

LEMMA OwnTail ==
  ASSUME NEW box \in InboxType, NEW a \in Actor, NEW e \in End,
         e # Parent => hostOf[a] = e,
         box[a][Side(e)] # <<>>, WireOwn(box)
  PROVE  /\ WireOwn([box EXCEPT ![a][Side(e)] = Tail(@)])
         /\ Fits(Head(box[a][Side(e)]), Peer(e, a), e)
<1>0. PICK side \in {"parent", "content"} :
        /\ side = Side(e)
        /\ side = "parent" => e = Parent
        /\ side = "content" => e # Parent
  BY DEF Side
<1>1. box[a][side] \in Seq(Message) /\ box[a][side] # <<>>
  BY <1>0 DEF InboxType
<1>2. \A x, y : Carried(box[a][side], x, y) => Carried(Tail(box[a][side]), x, y)
  BY <1>1 DEF Carried
<1>3. \A x, y : Carried(box[a][side], x, y) => Fits(Head(box[a][side]), x, y)
  BY <1>1 DEF Carried
<1>4. \A b \in Actor, t \in {"parent", "content"} :
        [box EXCEPT ![a][side] = Tail(@)][b][t] =
          IF b = a /\ t = side THEN Tail(box[a][side]) ELSE box[b][t]
  BY DEF InboxType
<1>5. WireOwn([box EXCEPT ![a][side] = Tail(@)])
  BY <1>2, <1>4 DEF WireOwn
<1>6. Carried(box[a][side], Peer(e, a), e)
  BY <1>0 DEF WireOwn, Peer
<1>7. QED BY <1>0, <1>3, <1>5, <1>6

-----------------------------------------------------------------------------
(* ... and in which order they are on a pair *)

LEMMA TailOrder ==
  ASSUME NEW q \in Seq(Message), q # <<>>
  PROVE  /\ NoRequest(q) => NoRequest(Tail(q))
         /\ NoAck(q) => NoAck(Tail(q))
         /\ NoAck(q) => Head(q).type # "READY_ACK"
         /\ Head(q).type \notin Greeting /\ HasGreeting(q) => HasGreeting(Tail(q))
         /\ Head(q).type \notin Greeting /\ Prefaced(q) => Prefaced(Tail(q))
<1>1. /\ Len(q) \in Nat /\ Len(q) # 0 /\ Len(Tail(q)) = Len(q) - 1
      /\ \A k \in 1..Len(q) - 1 : Tail(q)[k] = q[k + 1]
      /\ Head(q) = q[1]
  OBVIOUS
<1>2. \A n \in Nat : n # 0 => /\ \A k \in 1..n - 1 : k + 1 \in 1..n
                              /\ \A k \in 1..n : k # 1 => k - 1 \in 1..n - 1 /\ k - 1 + 1 = k
                              /\ 1 \in 1..n
                              /\ \A j, k \in 1..n : j < k /\ j # 1 => j - 1 < k - 1
                              /\ \A j \in 1..n, k \in 1..n - 1 : j < k + 1 /\ j # 1 => j - 1 < k
  OBVIOUS
<1>3. \A k \in 1..Len(q) : k # 1 => k - 1 \in 1..Len(Tail(q)) /\ Tail(q)[k - 1] = q[k]
  BY <1>1, <1>2
<1>4. \A k \in 1..Len(Tail(q)) : k + 1 \in 1..Len(q) /\ Tail(q)[k] = q[k + 1]
  BY <1>1, <1>2
<1>5. NoRequest(q) => NoRequest(Tail(q))
  BY <1>4 DEF NoRequest
<1>6. NoAck(q) => NoAck(Tail(q)) /\ Head(q).type # "READY_ACK"
  BY <1>1, <1>2, <1>4 DEF NoAck
<1>7. Head(q).type \notin Greeting /\ HasGreeting(q) => HasGreeting(Tail(q))
  BY <1>1, <1>3 DEF HasGreeting
<1>8. ASSUME Head(q).type \notin Greeting, Prefaced(q) PROVE Prefaced(Tail(q))
  <2> SUFFICES ASSUME NEW k \in 1..Len(Tail(q)), Tail(q)[k].type = "REQUEST"
               PROVE  \E j \in 1..Len(Tail(q)) : j < k /\ Tail(q)[j].type \in Greeting
    BY DEF Prefaced
  <2>1. k + 1 \in 1..Len(q) /\ q[k + 1].type = "REQUEST"
    BY <1>4
  <2>2. PICK j \in 1..Len(q) : j < k + 1 /\ q[j].type \in Greeting
    BY <1>8, <2>1 DEF Prefaced
  <2>3. j # 1
    BY <1>1, <1>8, <2>2
  <2>4. j - 1 \in 1..Len(Tail(q)) /\ Tail(q)[j - 1] = q[j]
    BY <1>3, <2>3
  <2>5. j - 1 < k
    BY <1>1, <2>2, <2>3
  <2>6. QED BY <2>2, <2>4, <2>5
<1>9. QED BY <1>5, <1>6, <1>7, <1>8

LEMMA ConcatOrder ==
  ASSUME NEW q \in Seq(Message), NEW ms \in Seq(Message)
  PROVE  /\ NoRequest(q) /\ NoRequest(ms) => NoRequest(q \o ms)
         /\ NoAck(q) /\ NoAck(ms) => NoAck(q \o ms)
         /\ HasGreeting(q) \/ HasGreeting(ms) => HasGreeting(q \o ms)
         /\ Prefaced(q) /\ (NoRequest(ms) \/ HasGreeting(q) \/ Prefaced(ms))
              => Prefaced(q \o ms)
<1> DEFINE n == Len(q)
           m == Len(ms)
<1>1. n \in Nat /\ m \in Nat /\ Len(q \o ms) = n + m
  OBVIOUS
<1>2. /\ \A k \in 1..n : k \in 1..Len(q \o ms) /\ (q \o ms)[k] = q[k]
      /\ \A k \in 1..m : n + k \in 1..Len(q \o ms) /\ (q \o ms)[n + k] = ms[k]
      /\ \A k \in 1..Len(q \o ms) : k \in 1..n \/ (k - n \in 1..m /\ k = n + (k - n))
  OBVIOUS
<1>3. \A k \in 1..Len(q \o ms) : k \in 1..n \/ \E l \in 1..m : k = n + l
  BY <1>2
<1>4. \A j \in 1..n, l \in 1..m : j < n + l
  BY <1>1
<1>5. \A j, l \in 1..m : j < l => n + j < n + l
  BY <1>1
<1> HIDE DEF n, m
<1>6. NoRequest(q) /\ NoRequest(ms) => NoRequest(q \o ms)
  BY <1>2, <1>3 DEF NoRequest, n, m
<1>7. NoAck(q) /\ NoAck(ms) => NoAck(q \o ms)
  BY <1>2, <1>3 DEF NoAck, n, m
<1>8. HasGreeting(q) \/ HasGreeting(ms) => HasGreeting(q \o ms)
  BY <1>2, <1>3 DEF HasGreeting, n, m
<1>9. ASSUME Prefaced(q), NoRequest(ms) \/ HasGreeting(q) \/ Prefaced(ms)
      PROVE  Prefaced(q \o ms)
  <2> SUFFICES ASSUME NEW k \in 1..Len(q \o ms), (q \o ms)[k].type = "REQUEST"
               PROVE  \E j \in 1..Len(q \o ms) : j < k /\ (q \o ms)[j].type \in Greeting
    BY DEF Prefaced
  <2>1. CASE k \in 1..n
    <3>1. PICK j \in 1..n : j < k /\ q[j].type \in Greeting
      BY <1>2, <1>9, <2>1 DEF Prefaced, n
    <3>2. QED BY <1>2, <3>1
  <2>2. CASE \E l \in 1..m : k = n + l
    <3>1. PICK l \in 1..m : k = n + l
      BY <2>2
    <3>2. ms[l].type = "REQUEST"
      BY <1>2, <3>1
    <3>3. CASE HasGreeting(q)
      <4>1. PICK j \in 1..n : q[j].type \in Greeting
        BY <3>3 DEF HasGreeting, n
      <4>2. QED BY <1>2, <1>4, <3>1, <4>1
    <3>4. CASE Prefaced(ms)
      <4>1. PICK j \in 1..m : j < l /\ ms[j].type \in Greeting
        BY <3>2, <3>4 DEF Prefaced, m
      <4>2. n + j < k /\ n + j \in 1..Len(q \o ms) /\ (q \o ms)[n + j] = ms[j]
        BY <1>2, <1>5, <3>1, <4>1
      <4>3. QED BY <4>1, <4>2
    <3>5. CASE NoRequest(ms)
      BY <3>2, <3>5 DEF NoRequest, m
    <3>6. QED BY <1>9, <3>3, <3>4, <3>5
  <2>3. QED BY <1>3, <2>1, <2>2
<1>10. QED BY <1>6, <1>7, <1>8, <1>9

LEMMA PostFacts ==
  ASSUME NEW box \in InboxType, NEW e \in End, NEW a \in 0..NActor, NEW ms \in Seq(Message)
  PROVE  \/ Post(box, e, a, ms) = box
         \/ /\ a \in Actor /\ ~Deaf(Peer(e, a), a)
            /\ Post(box, e, a, ms)[a][Other(e)] = box[a][Other(e)] \o ms
            /\ \A b \in Actor, t \in {"parent", "content"} :
                 b # a \/ t # Other(e) => Post(box, e, a, ms)[b][t] = box[b][t]
<1>1. CASE a = NoActor \/ Deaf(Peer(e, a), a)
  BY <1>1 DEF Post
<1>2. CASE ~(a = NoActor \/ Deaf(Peer(e, a), a))
  <2>1. a \in Actor /\ Other(e) \in {"parent", "content"}
    BY <1>2, ConstantTypes DEF NoActor, Actor
  <2>2. Post(box, e, a, ms) = [box EXCEPT ![a][Other(e)] = box[a][Other(e)] \o ms]
    BY <1>2 DEF Post
  <2>3. QED BY <1>2, <2>1, <2>2 DEF InboxType
<1>3. QED BY <1>1, <1>2

\* What the parent sends: an acknowledgement only to an end it knows.
LEMMA OrderParentPost ==
  ASSUME NEW box \in InboxType, NEW ms \in Seq(Message), NEW isReady, NEW u,
         seen \in [End -> 0..NActor], NEW a \in 0..NActor,
         a = transport[Parent], a \in {NoActor, seen[Parent]},
         Order(box, isReady, u), NoAck(ms) \/ u = UidOf[hostOf[a]]
  PROVE  Order(Post(box, Parent, a, ms), isReady, u)
<1> DEFINE new == Post(box, Parent, a, ms)
<1>1. \/ new = box
      \/ /\ a \in Actor /\ ~Deaf(Peer(Parent, a), a)
         /\ new[a]["content"] = box[a]["content"] \o ms
         /\ \A b \in Actor, t \in {"parent", "content"} :
              b # a \/ t # "content" => new[b][t] = box[b][t]
  <2>1. Parent \in End /\ Other(Parent) = "content"
    BY ConstantTypes DEF Other
  <2>2. \/ new = box
        \/ /\ a \in Actor /\ ~Deaf(Peer(Parent, a), a)
           /\ new[a][Other(Parent)] = box[a][Other(Parent)] \o ms
           /\ \A b \in Actor, t \in {"parent", "content"} :
                b # a \/ t # Other(Parent) => new[b][t] = box[b][t]
    BY <2>1, PostFacts
  <2> HIDE DEF new
  <2>3. QED BY <2>1, <2>2
<1> HIDE DEF new
<1>2. CASE new = box
  BY <1>2 DEF new
<1>3. CASE disposed[Parent]
  BY <1>3 DEF Order
<1>4. CASE new # box /\ ~disposed[Parent]
  <2>1. Fresh(box, isReady) /\ Trusted(box, isReady, u)
    BY <1>4 DEF Order
  <2>2. a \in Actor /\ a = seen[Parent] /\ a # NoActor
    BY <1>1, <1>4 DEF Actor, NoActor
  <2>3. \A b \in Actor : seen[Parent] < b => b # a
    BY <2>2 DEF Actor
  <2>4. Fresh(new, isReady)
    BY <1>1, <1>4, <2>1, <2>3 DEF Fresh
  <2>5. box[a]["content"] \in Seq(Message)
    BY <2>2 DEF InboxType
  <2>6. Trusted(new, isReady, u)
    <3> SUFFICES ASSUME u # UidOf[hostOf[a]]
                 PROVE  /\ Prefaced(new[a]["parent"])
                        /\ \/ HasGreeting(new[a]["parent"])
                           \/ \A i \in Instance : transport[i] = a => ~isReady[i]
                        /\ NoAck(new[a]["content"])
      BY DEF Trusted
    <3>1. /\ Prefaced(box[a]["parent"])
          /\ \/ HasGreeting(box[a]["parent"])
             \/ \A i \in Instance : transport[i] = a => ~isReady[i]
          /\ NoAck(box[a]["content"])
      BY <2>1, <2>2 DEF Trusted
    <3>2. NoAck(box[a]["content"] \o ms)
      BY <2>5, <3>1, ConcatOrder
    <3>3. QED BY <1>1, <1>4, <2>2, <3>1, <3>2
  <2>7. QED BY <2>4, <2>6 DEF Order, new
<1>5. QED BY <1>2, <1>3, <1>4 DEF new

\* What a content end sends: requests only when it is ready.
LEMMA OrderContentPost ==
  ASSUME NEW box \in InboxType, NEW ms \in Seq(Message), NEW isReady, NEW u,
         seen \in [End -> 0..NActor], NEW i \in Instance, NEW a \in 0..NActor,
         a = transport[i],
         Order(box, isReady, u), NoRequest(ms) \/ isReady[i]
  PROVE  Order(Post(box, i, a, ms), isReady, u)
<1> DEFINE new == Post(box, i, a, ms)
<1>1. \/ new = box
      \/ /\ a \in Actor /\ ~Deaf(Parent, a)
         /\ new[a]["parent"] = box[a]["parent"] \o ms
         /\ \A b \in Actor, t \in {"parent", "content"} :
              b # a \/ t # "parent" => new[b][t] = box[b][t]
  <2>1. i \in End /\ i # Parent /\ Other(i) = "parent" /\ Peer(i, a) = Parent
    BY ConstantTypes DEF Other, Peer
  <2>2. \/ new = box
        \/ /\ a \in Actor /\ ~Deaf(Peer(i, a), a)
           /\ new[a][Other(i)] = box[a][Other(i)] \o ms
           /\ \A b \in Actor, t \in {"parent", "content"} :
                b # a \/ t # Other(i) => new[b][t] = box[b][t]
    <3>1. i \in End
      BY <2>1
    <3>2. QED BY <3>1, PostFacts, ZenonT(90)
  <2> HIDE DEF new
  <2>3. QED BY <2>1, <2>2
<1> HIDE DEF new
<1>2. CASE new = box
  BY <1>2 DEF new
<1>3. CASE disposed[Parent]
  BY <1>3 DEF Order
<1>4. CASE new # box /\ ~disposed[Parent]
  <2>1. Fresh(box, isReady) /\ Trusted(box, isReady, u)
    BY <1>4 DEF Order
  <2>2. box[a]["parent"] \in Seq(Message)
    BY <1>1, <1>4 DEF InboxType
  <2>3. Fresh(new, isReady)
    <3> SUFFICES ASSUME NEW b \in Actor, seen[Parent] < b
                 PROVE  /\ new[b]["content"] = <<>>
                        /\ NoRequest(new[b]["parent"])
                        /\ \A j \in Instance : transport[j] = b => ~isReady[j]
      BY DEF Fresh
    <3>1. /\ box[b]["content"] = <<>>
          /\ NoRequest(box[b]["parent"])
          /\ \A j \in Instance : transport[j] = b => ~isReady[j]
      BY <2>1 DEF Fresh
    <3>2. CASE b # a
      BY <1>1, <1>4, <3>1, <3>2
    <3>3. CASE b = a
      <4>1. NoRequest(ms)
        BY <3>1, <3>3
      <4>2. NoRequest(box[a]["parent"] \o ms)
        BY <2>2, <3>1, <3>3, <4>1, ConcatOrder
      <4>3. QED BY <1>1, <1>4, <3>1, <3>3, <4>2
    <3>4. QED BY <3>2, <3>3
  <2>4. Trusted(new, isReady, u)
    <3> DEFINE b == transport[Parent]
    <3> SUFFICES ASSUME b # NoActor, u # UidOf[hostOf[b]]
                 PROVE  /\ Prefaced(new[b]["parent"])
                        /\ \/ HasGreeting(new[b]["parent"])
                           \/ \A j \in Instance : transport[j] = b => ~isReady[j]
                        /\ NoAck(new[b]["content"])
      BY DEF Trusted
    <3>1. /\ Prefaced(box[b]["parent"])
          /\ \/ HasGreeting(box[b]["parent"])
             \/ \A j \in Instance : transport[j] = b => ~isReady[j]
          /\ NoAck(box[b]["content"])
      BY <2>1 DEF Trusted
    <3>2. CASE b # a
      <4>1. new[b] = box[b]
        BY <3>2 DEF new, Post
      <4>2. QED BY <3>1, <4>1
    <3>3. CASE b = a
      <4>1. HasGreeting(box[a]["parent"]) \/ NoRequest(ms)
        BY <3>1, <3>3
      <4>2. Prefaced(box[a]["parent"] \o ms)
        BY <2>2, <3>1, <3>3, <4>1, ConcatOrder
      <4>3. HasGreeting(box[a]["parent"]) => HasGreeting(box[a]["parent"] \o ms)
        BY <2>2, ConcatOrder
      <4>4. new[a]["content"] = box[a]["content"]
        BY <1>1, <1>4
      <4>5. QED BY <1>1, <1>4, <3>1, <3>3, <4>2, <4>3, <4>4
    <3>4. QED BY <3>2, <3>3
  <2>5. QED BY <2>3, <2>4 DEF Order, new
<1>5. QED BY <1>2, <1>3, <1>4 DEF new

\* A content end becomes ready: the parent has bound its actor, and either
\* knows the end or gets a greeting from it before anything else.
LEMMA OrderContentReady ==
  ASSUME NEW box \in InboxType, NEW ms \in Seq(Message),
         NEW isReady \in [End -> BOOLEAN], NEW u,
         seen \in [End -> 0..NActor], NEW i \in Instance, NEW a \in Actor,
         a = transport[i], Order(box, isReady, u),
         disposed[Parent] \/ ~(seen[Parent] < a),
         \/ a = transport[Parent] => u = UidOf[hostOf[a]]
         \/ Prefaced(ms) /\ HasGreeting(ms)
  PROVE  Order(Post(box, i, a, ms), [isReady EXCEPT ![i] = TRUE], u)
<1> DEFINE new == Post(box, i, a, ms)
<1> DEFINE now == [isReady EXCEPT ![i] = TRUE]
<1>0. a \in 0..NActor /\ a # NoActor /\ i \in End
  BY ConstantTypes DEF Actor, NoActor
<1>1. \/ new = box /\ Deaf(Parent, a)
      \/ /\ ~Deaf(Parent, a)
         /\ new[a]["parent"] = box[a]["parent"] \o ms
         /\ \A b \in Actor, t \in {"parent", "content"} :
              b # a \/ t # "parent" => new[b][t] = box[b][t]
  <2>1. i # Parent /\ Other(i) = "parent" /\ Peer(i, a) = Parent
    BY ConstantTypes DEF Other, Peer
  <2>2. CASE Deaf(Parent, a)
    BY <2>1, <2>2 DEF Post
  <2>3. CASE ~Deaf(Parent, a)
    <3>1. new = [box EXCEPT ![a]["parent"] = box[a]["parent"] \o ms]
      BY <1>0, <2>1, <2>3 DEF Post
    <3>2. QED BY <2>3, <3>1 DEF InboxType
  <2>4. QED BY <2>2, <2>3
<1>2. \A j \in Instance : transport[j] # a => now[j] = isReady[j]
  BY ConstantTypes
<1> HIDE DEF new, now
<1>3. CASE disposed[Parent]
  BY <1>3 DEF Order
<1>4. CASE ~disposed[Parent]
  <2>1. Fresh(box, isReady) /\ Trusted(box, isReady, u)
    BY <1>4 DEF Order
  <2>2. box[a]["parent"] \in Seq(Message)
    BY DEF InboxType
  <2>3. Fresh(new, now)
    <3>1. \A b \in Actor : seen[Parent] < b => b # a
      BY <1>4
    <3>2. \A b \in Actor : b # a => /\ new[b]["parent"] = box[b]["parent"]
                                    /\ new[b]["content"] = box[b]["content"]
      BY <1>1
    <3>3. QED BY <1>2, <2>1, <3>1, <3>2 DEF Fresh
  <2>4. Trusted(new, now, u)
    <3> DEFINE b == transport[Parent]
    <3> SUFFICES ASSUME b # NoActor, u # UidOf[hostOf[b]]
                 PROVE  /\ Prefaced(new[b]["parent"])
                        /\ \/ HasGreeting(new[b]["parent"])
                           \/ \A j \in Instance : transport[j] = b => ~now[j]
                        /\ NoAck(new[b]["content"])
      BY DEF Trusted
    <3>1. /\ Prefaced(box[b]["parent"])
          /\ \/ HasGreeting(box[b]["parent"])
             \/ \A j \in Instance : transport[j] = b => ~isReady[j]
          /\ NoAck(box[b]["content"])
      BY <2>1 DEF Trusted
    <3>2. CASE b # a
      <4>1. new[b] = box[b]
        BY <3>2 DEF new, Post
      <4>2. QED BY <1>2, <3>1, <3>2, <4>1
    <3>3. CASE b = a
      <4>1. Prefaced(ms) /\ HasGreeting(ms)
        BY <3>3
      <4>2. ~Deaf(Parent, a)
        BY <1>4, <3>3 DEF Deaf
      <4>3. Prefaced(box[a]["parent"] \o ms) /\ HasGreeting(box[a]["parent"] \o ms)
        BY <2>2, <3>1, <3>3, <4>1, ConcatOrder
      <4>4. new[a]["content"] = box[a]["content"] /\ new[a]["parent"] = box[a]["parent"] \o ms
        BY <1>1, <4>2
      <4>5. QED BY <3>1, <3>3, <4>3, <4>4
    <3>4. QED BY <3>2, <3>3
  <2>5. QED BY <2>3, <2>4 DEF Order, new, now
<1>5. QED BY <1>3, <1>4

\* A message is taken: from the content end's side, or a message of the
\* parent's side that is no greeting.
LEMMA OrderTail ==
  ASSUME NEW box \in InboxType, NEW isReady, NEW u, NEW a \in Actor,
         NEW side \in {"parent", "content"}, box[a][side] # <<>>,
         transport \in [End -> 0..NActor], Order(box, isReady, u),
         side = "parent" => Head(box[a][side]).type \notin Greeting \/ a # transport[Parent]
  PROVE  Order([box EXCEPT ![a][side] = Tail(@)], isReady, u)
<1> DEFINE new == [box EXCEPT ![a][side] = Tail(@)]
<1>1. \A b \in Actor, t \in {"parent", "content"} :
        new[b][t] = IF b = a /\ t = side THEN Tail(box[a][side]) ELSE box[b][t]
  BY DEF InboxType
<1>2. box[a][side] \in Seq(Message)
  BY DEF InboxType
<1>3. \A b \in Actor : b # a => new[b] = box[b]
  BY DEF InboxType
<1> HIDE DEF new
<1>4. CASE ~disposed[Parent]
  <2>1. Fresh(box, isReady) /\ Trusted(box, isReady, u)
    BY <1>4 DEF Order
  <2>2. \A b \in Actor : /\ box[b]["content"] = <<>> => new[b]["content"] = <<>>
                         /\ NoRequest(box[b]["parent"]) => NoRequest(new[b]["parent"])
    BY <1>1, <1>2, TailOrder
  <2>3. Fresh(new, isReady)
    BY <2>1, <2>2 DEF Fresh
  <2>4. Trusted(new, isReady, u)
    <3>1. CASE transport[Parent] # a
      <4>1. transport[Parent] # NoActor =>
              new[transport[Parent]] = box[transport[Parent]]
        BY <1>3, <3>1, ConstantTypes DEF Actor, NoActor
      <4>2. QED BY <2>1, <4>1 DEF Trusted
    <3>2. CASE transport[Parent] = a
      <4>1. /\ Prefaced(box[a]["parent"]) => Prefaced(new[a]["parent"])
            /\ HasGreeting(box[a]["parent"]) => HasGreeting(new[a]["parent"])
            /\ NoAck(box[a]["content"]) => NoAck(new[a]["content"])
        <5>1. CASE side = "parent"
          BY <1>1, <1>2, <3>2, <5>1, TailOrder
        <5>2. CASE side = "content"
          BY <1>1, <1>2, <5>2, TailOrder
        <5>3. QED BY <5>1, <5>2
      <4>2. QED BY <2>1, <3>2, <4>1 DEF Trusted
    <3>3. QED BY <3>1, <3>2
  <2>5. QED BY <2>3, <2>4 DEF Order, new
<1>5. QED BY <1>4 DEF Order, new

-----------------------------------------------------------------------------
(* ... and what the ends keep *)

\* What arrives changes nothing at any other end.
LEMMA OthersKeep ==
  ASSUME TypeOK, NEW e \in End, NEW m, NEW box, OnMessage(e, m, box)
  PROVE  /\ UNCHANGED <<created, hostOf, gone, seen, transport, registered, paused, disposed, sent>>
         /\ \A f \in End : f # e => /\ connectedTo'[f] = connectedTo[f]
                                    /\ ready'[f] = ready[f]
                                    /\ cached'[f] = cached[f]
                                    /\ running'[f] = running[f]
                                    /\ buffer'[f] = buffer[f]
                                    /\ pending'[f] = pending[f]
                                    /\ answer'[f] = answer[f]
                                    /\ execs'[f] = execs[f]
<1>1. UNCHANGED <<created, hostOf, gone, seen, transport, registered, paused, disposed>>
  BY DEF OnMessage, linkVars
<1>2. CASE OnHandshake(e, m, box)
  BY <1>1, <1>2 DEF OnHandshake, MarkAsReady, requestVars, TypeOK
<1>3. CASE OnResponseAck(e, m, box)
  BY <1>1, <1>3 DEF OnResponseAck, requestVars, TypeOK
<1>4. CASE buffer' = [buffer EXCEPT ![e] = Append(@, m)] /\ inbox' = box
           /\ UNCHANGED <<connectedTo, ready, requestVars, serverVars>>
  BY <1>1, <1>4 DEF requestVars, serverVars, TypeOK
<1>5. CASE OnResponse(e, m, box)
  BY <1>1, <1>5 DEF OnResponse, serverVars, TypeOK
<1>6. CASE OnRequest(e, m, box)
  BY <1>1, <1>6 DEF OnRequest, requestVars, TypeOK
<1>7. QED BY <1>2, <1>3, <1>4, <1>5, <1>6 DEF OnMessage

LEMMA FitSent ==
  ASSUME NEW e \in End, NEW to
  PROVE  /\ \A s : Carried(Requests(e, s), e, to)
         /\ Carried(<<ReadyAck(e)>>, e, to) /\ Carried(<<Ready(e)>>, e, to) /\ Carried(<<>>, e, to)
         /\ \A id : Carried(<<ResponseAck(id)>>, e, to)
         /\ \A id : Carried(<<Response(<<to, id>>)>>, e, to)
         /\ \A id : Carried(<<Request(<<e, id>>)>>, e, to)
<1>1. ASSUME NEW s PROVE Carried(Requests(e, s), e, to)
  <2>1. DOMAIN Requests(e, s) = DOMAIN s
    BY DEF Requests
  <2>2. \A k \in DOMAIN s : Requests(e, s)[k] = Request(<<e, s[k]>>)
    BY DEF Requests
  <2>3. \A k \in DOMAIN s : Fits(Requests(e, s)[k], e, to)
    <3>1. \A x : Fits(Request(<<e, x>>), e, to)
      BY DEF Fits, Request
    <3>2. QED BY <2>2, <3>1, Zenon
  <2>4. QED BY <2>1, <2>3 DEF Carried
<1>2. \A msg : Fits(msg, e, to) => Carried(<<msg>>, e, to)
  BY DEF Carried
<1>3. /\ Fits(ReadyAck(e), e, to) /\ Fits(Ready(e), e, to)
      /\ \A id : Fits(ResponseAck(id), e, to)
      /\ \A id : Fits(Response(<<to, id>>), e, to)
      /\ \A id : Fits(Request(<<e, id>>), e, to)
  BY DEF Fits, ReadyAck, Ready, ResponseAck, Response, Request
<1>4. Carried(<<>>, e, to)
  BY DEF Carried
<1>5. QED BY <1>1, <1>2, <1>3, <1>4

\* What an end answers to a message of its peer belongs to that peer.
LEMMA WireOwnOnMessage ==
  ASSUME TypeOK, NEW e \in End, NEW m \in Message, NEW box \in InboxType,
         WireOwn(box), OnMessage(e, m, box),
         transport[e] # NoActor /\ e # Parent => hostOf[transport[e]] = e,
         transport[e] # NoActor /\ m.type = "REQUEST" =>
           /\ m.call[1] = Peer(e, transport[e])
           /\ \A id \in Id : cached[e][id] \in {NoCall, <<Peer(e, transport[e]), id>>}
  PROVE  WireOwn(inbox)'
<1> DEFINE a == transport[e]
<1>0. a \in 0..NActor /\ hostOf' = hostOf
  BY OthersKeep DEF TypeOK
<1>1. \A ms \in Seq(Message) : Carried(ms, e, Peer(e, a)) => WireOwn(Post(box, e, a, ms))
  BY <1>0, OwnPost
<1> SUFFICES WireOwn(inbox')
  BY <1>0 DEF WireOwn
<1>2. CASE OnHandshake(e, m, box)
  <2>1. PICK before \in Seq(Message) :
          MarkAsReady(e, box, before) /\ Carried(before, e, Peer(e, a))
    <3> DEFINE ms == IF m.type = "READY" THEN <<ReadyAck(e)>> ELSE <<>>
    <3>1. ms \in Seq(Message)
      BY MessageTypes
    <3>2. Carried(ms, e, Peer(e, a))
      BY FitSent
    <3>3. QED BY <1>2, <3>1, <3>2 DEF OnHandshake
  <2>2. CASE ready[e]
    BY <1>1, <2>1, <2>2 DEF MarkAsReady
  <2>3. CASE ~ready[e]
    <3>1. PICK s \in Ascending(pending[e]) :
            inbox' = Post(box, e, a, before \o Requests(e, s))
      BY <2>1, <2>3 DEF MarkAsReady
    <3>2. Requests(e, s) \in Seq(Message) /\ Carried(Requests(e, s), e, Peer(e, a))
      BY RequestsType, FitSent DEF TypeOK
    <3>3. before \o Requests(e, s) \in Seq(Message)
      BY <3>2
    <3>4. Carried(before \o Requests(e, s), e, Peer(e, a))
      BY <2>1, <3>2, CarriedConcat
    <3>5. QED BY <1>1, <3>1, <3>3, <3>4
  <2>4. QED BY <2>2, <2>3
<1>3. CASE inbox' = box
  BY <1>3
<1>4. CASE OnResponse(e, m, box)
  <2>1. m.id \in Id
    BY <1>4 DEF OnResponse, Message, Handshake, Payload
  <2>2. <<ResponseAck(m.id)>> \in Seq(Message)
    BY <2>1, MessageTypes
  <2>3. Carried(<<ResponseAck(m.id)>>, e, Peer(e, a))
    BY FitSent
  <2>4. QED BY <1>1, <1>4, <2>2, <2>3 DEF OnResponse
<1>5. CASE OnRequest(e, m, box)
  <2>1. m.call \in Call /\ m.type = "REQUEST"
    BY <1>5 DEF OnRequest, Message, Handshake, Payload
  <2>2. m.call[2] \in Id /\ m.call = <<m.call[1], m.call[2]>>
    BY <2>1, MessageTypes
  <2>3. CASE a = NoActor
    <3>1. \A ms : Post(box, e, a, ms) = box
      BY <2>3 DEF Post
    <3>2. QED BY <1>3, <1>5, <3>1 DEF OnRequest
  <2>4. CASE a # NoActor
    <3>1. m.call = <<Peer(e, a), m.call[2]>>
      BY <2>1, <2>2, <2>4
    <3>2. cached[e][m.call[2]] \in {NoCall, <<Peer(e, a), m.call[2]>>}
      BY <2>1, <2>2, <2>4
    <3>3. <<Response(m.call)>> \in Seq(Message)
      BY <2>1, MessageTypes
    <3>4. Carried(<<Response(m.call)>>, e, Peer(e, a))
      <4>1. Carried(<<Response(<<Peer(e, a), m.call[2]>>)>>, e, Peer(e, a))
        BY FitSent
      <4>2. QED BY <3>1, <4>1
    <3>5. cached[e][m.call[2]] # NoCall => cached[e][m.call[2]] = m.call
      BY <3>1, <3>2
    <3>6. QED BY <1>1, <1>3, <1>5, <3>3, <3>4, <3>5 DEF OnRequest
  <2>5. QED BY <2>3, <2>4
<1>6. QED BY <1>2, <1>3, <1>4, <1>5 DEF OnMessage, OnResponseAck

\* What a message leaves of the order of an end's peer.
LEMMA OrderOnContentMessage ==
  ASSUME TypeOK, NEW i \in Instance, NEW m \in Message, NEW box \in InboxType,
         Order(box, ready, connectedTo[Parent]), OnMessage(i, m, box),
         m.type \in Greeting =>
           /\ transport[i] # NoActor
           /\ disposed[Parent] \/ ~(seen[Parent] < transport[i])
           /\ disposed[Parent] \/ m.type = "READY" \/ transport[i] # transport[Parent]
              \/ connectedTo[Parent] = UidOf[hostOf[transport[i]]]
  PROVE  Order(inbox, ready, connectedTo[Parent])'
<1> DEFINE a == transport[i]
           u == connectedTo[Parent]
<1>0. /\ i \in End /\ i # Parent /\ Parent \in End
      /\ a \in 0..NActor /\ seen \in [End -> 0..NActor] /\ ready \in [End -> BOOLEAN]
  BY ConstantTypes DEF TypeOK
<1>1. UNCHANGED <<hostOf, seen, transport, disposed>> /\ connectedTo'[Parent] = u
  BY <1>0, OthersKeep
<1> SUFFICES Order(inbox', ready', u)
  BY <1>1 DEF Order, Fresh, Trusted
<1>2. CASE disposed[Parent]
  BY <1>2 DEF Order
<1>3. CASE ~disposed[Parent] /\ OnHandshake(i, m, box)
  <2>1. /\ m.type \in Greeting /\ a \in Actor
        /\ ~(seen[Parent] < a)
        /\ m.type = "READY" \/ a # transport[Parent] \/ u = UidOf[hostOf[a]]
    BY <1>0, <1>3, ConstantTypes DEF OnHandshake, Greeting, Actor, NoActor
  <2>2. PICK before \in Seq(Message) :
          /\ before = IF m.type = "READY" THEN <<ReadyAck(i)>> ELSE <<>>
          /\ MarkAsReady(i, box, before)
    <3>1. (IF m.type = "READY" THEN <<ReadyAck(i)>> ELSE <<>>) \in Seq(Message)
      BY <1>0, MessageTypes
    <3>2. QED BY <1>3, <3>1 DEF OnHandshake
  <2>3. NoRequest(before)
    BY <2>2 DEF NoRequest, ReadyAck
  <2>4. CASE ready[i]
    BY <1>0, <2>2, <2>3, <2>4, OrderContentPost DEF MarkAsReady
  <2>5. CASE ~ready[i]
    <3>1. PICK s \in Ascending(pending[i]) :
            inbox' = Post(box, i, a, before \o Requests(i, s))
      BY <2>2, <2>5 DEF MarkAsReady
    <3>2. ready' = [ready EXCEPT ![i] = TRUE]
      BY <2>2, <2>5 DEF MarkAsReady
    <3>3. Requests(i, s) \in Seq(Message)
      BY <1>0, RequestsType DEF TypeOK
    <3> DEFINE ms == before \o Requests(i, s)
    <3>4. ms \in Seq(Message)
      BY <3>3
    <3>5. m.type = "READY" => Prefaced(ms) /\ HasGreeting(ms)
      <4> SUFFICES ASSUME before = <<ReadyAck(i)>> PROVE Prefaced(ms) /\ HasGreeting(ms)
        BY <2>2
      <4>1. Prefaced(before) /\ HasGreeting(before)
        BY DEF Prefaced, HasGreeting, ReadyAck, Greeting
      <4>2. QED BY <3>3, <4>1, ConcatOrder
    <3>6. (a = transport[Parent] => u = UidOf[hostOf[a]]) \/ (Prefaced(ms) /\ HasGreeting(ms))
      BY <2>1, <3>5
    <3> HIDE DEF ms
    <3>7. Order(Post(box, i, a, ms), [ready EXCEPT ![i] = TRUE], u)
      BY <1>0, <2>1, <3>4, <3>6, OrderContentReady
    <3>8. QED BY <3>1, <3>2, <3>7 DEF ms
  <2>6. QED BY <2>4, <2>5
<1>4. CASE ~OnHandshake(i, m, box)
  <2>1. ready' = ready
    BY <1>4 DEF OnMessage, OnResponseAck, OnResponse, OnRequest
  <2>2. \A ms \in Seq(Message) : NoRequest(ms) => Order(Post(box, i, a, ms), ready, u)
    BY <1>0, OrderContentPost
  <2>3. \A msg : msg.type # "REQUEST" => NoRequest(<<msg>>)
    BY DEF NoRequest
  <2>4. CASE inbox' = box
    BY <2>1, <2>4
  <2>5. CASE OnResponse(i, m, box)
    <3>1. m.id \in Id
      BY <2>5 DEF OnResponse, Message, Handshake, Payload
    <3>2. <<ResponseAck(m.id)>> \in Seq(Message) /\ NoRequest(<<ResponseAck(m.id)>>)
      BY <2>3, <3>1, MessageTypes DEF ResponseAck
    <3>3. QED BY <2>1, <2>2, <2>5, <3>2 DEF OnResponse
  <2>6. CASE OnRequest(i, m, box)
    <3>1. m.call \in Call
      BY <2>6 DEF OnRequest, Message, Handshake, Payload
    <3>2. m.call[2] \in Id
      BY <3>1, MessageTypes
    <3>3. cached[i][m.call[2]] \in Call \cup {NoCall}
      BY <1>0, <3>2, SMTT(30) DEF TypeOK
    <3>4. \A c \in Call : <<Response(c)>> \in Seq(Message) /\ NoRequest(<<Response(c)>>)
      <4>1. \A c : NoRequest(<<Response(c)>>)
        BY <2>3 DEF Response
      <4>2. QED BY <4>1, MessageTypes
    <3>5. QED BY <2>1, <2>2, <2>4, <2>6, <3>1, <3>3, <3>4 DEF OnRequest
  <2>7. QED BY <1>4, <2>4, <2>5, <2>6 DEF OnMessage, OnResponseAck
<1>5. QED BY <1>2, <1>3, <1>4

LEMMA OrderOnParentMessage ==
  ASSUME TypeOK, NEW m \in Message, NEW box \in InboxType, OnMessage(Parent, m, box),
         transport[Parent] # NoActor, transport[Parent] = seen[Parent],
         m.type \notin Greeting => Order(box, ready, connectedTo[Parent]),
         m.type \in Greeting =>
           /\ m.uid = UidOf[hostOf[transport[Parent]]]
           /\ disposed[Parent] \/ Fresh(box, ready)
  PROVE  Order(inbox, ready, connectedTo[Parent])'
<1> DEFINE a == transport[Parent]
           u == connectedTo'[Parent]
<1>0. /\ Parent \in End /\ a \in 0..NActor /\ seen \in [End -> 0..NActor]
      /\ UNCHANGED <<hostOf, seen, transport, disposed>>
  BY ConstantTypes, OthersKeep DEF TypeOK
<1> SUFFICES Order(inbox', ready', u)
  BY <1>0 DEF Order, Fresh, Trusted
<1>1. ASSUME NEW b, NEW v, Order(b, ready, v) PROVE Order(b, ready', v)
  <2>1. \A i \in Instance : i \in End /\ i # Parent
    BY ConstantTypes
  <2>2. \A i \in Instance : ready'[i] = ready[i]
    BY <1>0, <2>1, OthersKeep
  <2>3. QED BY <1>1, <2>2 DEF Order, Fresh, Trusted
<1>2. CASE OnHandshake(Parent, m, box)
  <2>1. m.type \in Greeting /\ u = UidOf[hostOf[a]]
    BY <1>0, <1>2 DEF OnHandshake, Greeting, TypeOK
  <2>2. Order(box, ready, u)
    BY <2>1 DEF Order, Trusted
  <2>3. Order(box, ready', u)
    BY <1>1, <2>2
  <2>4. \A ms \in Seq(Message) : Order(Post(box, Parent, a, ms), ready', u)
    BY <1>0, <2>1, <2>3, OrderParentPost
  <2>5. PICK before \in Seq(Message) : MarkAsReady(Parent, box, before)
    <3>1. (IF m.type = "READY" THEN <<ReadyAck(Parent)>> ELSE <<>>) \in Seq(Message)
      BY <1>0, MessageTypes
    <3>2. QED BY <1>2, <3>1 DEF OnHandshake
  <2>6. CASE ready[Parent]
    BY <2>4, <2>5, <2>6 DEF MarkAsReady
  <2>7. CASE ~ready[Parent]
    <3>1. PICK s \in Ascending(pending[Parent]) :
            inbox' = Post(box, Parent, a, before \o Requests(Parent, s))
      BY <2>5, <2>7 DEF MarkAsReady
    <3>2. before \o Requests(Parent, s) \in Seq(Message)
      <4>1. Requests(Parent, s) \in Seq(Message)
        BY <1>0, RequestsType DEF TypeOK
      <4>2. QED BY <4>1
    <3>3. QED BY <2>4, <3>1, <3>2
  <2>8. QED BY <2>6, <2>7
<1>3. CASE ~OnHandshake(Parent, m, box)
  <2>1. ready' = ready /\ connectedTo' = connectedTo
    BY <1>3 DEF OnMessage, OnResponseAck, OnResponse, OnRequest
  <2>2. m.type \notin Greeting
    BY <1>3 DEF OnMessage, OnResponseAck, OnResponse, OnRequest, Greeting
  <2>3. Order(box, ready, u)
    BY <2>1, <2>2
  <2>4. \A ms \in Seq(Message) : NoAck(ms) => Order(Post(box, Parent, a, ms), ready, u)
    BY <1>0, <2>3, OrderParentPost
  <2>5. \A msg : msg.type # "READY_ACK" => NoAck(<<msg>>)
    BY DEF NoAck
  <2>6. CASE inbox' = box
    BY <2>1, <2>3, <2>6
  <2>7. CASE OnResponse(Parent, m, box)
    <3>1. m.id \in Id
      BY <2>7 DEF OnResponse, Message, Handshake, Payload
    <3>2. <<ResponseAck(m.id)>> \in Seq(Message) /\ NoAck(<<ResponseAck(m.id)>>)
      BY <2>5, <3>1, MessageTypes DEF ResponseAck
    <3>3. QED BY <2>1, <2>4, <2>7, <3>2 DEF OnResponse
  <2>8. CASE OnRequest(Parent, m, box)
    <3>1. m.call \in Call
      BY <2>8 DEF OnRequest, Message, Handshake, Payload
    <3>2. m.call[2] \in Id
      BY <3>1, MessageTypes
    <3>3. cached[Parent][m.call[2]] \in Call \cup {NoCall}
      BY <1>0, <3>2 DEF TypeOK
    <3>4. \A c \in Call : <<Response(c)>> \in Seq(Message) /\ NoAck(<<Response(c)>>)
      <4>1. \A c : NoAck(<<Response(c)>>)
        BY <2>5 DEF Response
      <4>2. QED BY <4>1, MessageTypes
    <3>5. QED BY <2>1, <2>4, <2>6, <2>8, <3>1, <3>3, <3>4 DEF OnRequest
  <2>9. QED BY <1>3, <2>6, <2>7, <2>8 DEF OnMessage, OnResponseAck
<1>4. QED BY <1>2, <1>3

LEMMA AnswerOnMessage ==
  ASSUME TypeOK, AnswerOwn, NEW e \in End, NEW m \in Message, NEW box, NEW from,
         Fits(m, from, e), OnMessage(e, m, box)
  PROVE  AnswerOwn'
<1>1. CASE OnResponse(e, m, box)
  <2>1. m.id \in Id /\ m.of = <<e, m.id>>
    BY <1>1 DEF OnResponse, Message, Handshake, Payload, Fits
  <2>2. \/ answer' = answer
        \/ answer' = [answer EXCEPT ![e][m.id] = <<e, m.id>>]
    BY <1>1, <2>1 DEF OnResponse
  <2>3. \A f \in End, id \in Id :
          answer'[f][id] = answer[f][id] \/ answer'[f][id] = <<f, id>>
    <3>1. answer \in [End -> [Id -> Call \cup {NoCall}]]
      BY DEF TypeOK
    <3>2. PICK j \in Id : j = m.id
      BY <2>1
    <3>3. CASE answer' = [answer EXCEPT ![e][j] = <<e, j>>]
      BY <3>1, <3>3
    <3>4. QED BY <2>2, <3>2, <3>3
  <2>4. QED BY <2>3 DEF AnswerOwn
<1>2. CASE ~OnResponse(e, m, box)
  <2>1. answer' = answer
    BY <1>2 DEF OnMessage, OnHandshake, OnResponseAck, OnRequest, requestVars
  <2>2. QED BY <2>1 DEF AnswerOwn
<1>3. QED BY <1>1, <1>2

LEMMA KeptOnContentMessage ==
  ASSUME TypeOK, ContentOwn, NEW i \in Instance, NEW m \in Message, NEW box,
         Fits(m, Parent, i), OnMessage(i, m, box)
  PROVE  /\ \A id \in Id : cached'[i][id] \in {NoCall, <<Parent, id>>}
         /\ \A r \in running'[i] : r.call[1] = Parent
         /\ Carried(buffer'[i], Parent, i)
<1>0. /\ i \in End
      /\ \A id \in Id : cached[i][id] \in {NoCall, <<Parent, id>>}
      /\ \A r \in running[i] : r.call[1] = Parent
      /\ Carried(buffer[i], Parent, i)
      /\ buffer[i] \in Seq(Payload)
  BY ConstantTypes DEF ContentOwn, TypeOK
<1>1. Carried(Append(buffer[i], m), Parent, i)
  BY <1>0 DEF Carried
<1>2. CASE OnHandshake(i, m, box)
  BY <1>0, <1>2 DEF OnHandshake, TypeOK
<1>3. CASE OnResponseAck(i, m, box)
  <2>1. m.id \in Id
    BY <1>3 DEF OnResponseAck, Message, Handshake, Payload
  <2>2. QED BY <1>0, <1>3, <2>1 DEF OnResponseAck, TypeOK
<1>4. CASE buffer' = [buffer EXCEPT ![i] = Append(@, m)] /\ UNCHANGED serverVars
  BY <1>0, <1>1, <1>4 DEF TypeOK, serverVars
<1>5. CASE OnResponse(i, m, box)
  BY <1>0, <1>5 DEF OnResponse, serverVars
<1>6. CASE OnRequest(i, m, box)
  <2>1. m.call[1] = Parent
    BY <1>6 DEF OnRequest, Fits
  <2>2. cached' = cached
    BY <1>6 DEF OnRequest
  <2>3. buffer' = buffer \/ buffer' = [buffer EXCEPT ![i] = Append(@, m)]
    BY <1>6 DEF OnRequest
  <2>4. running' = running \/ running' = [running EXCEPT ![i] = @ \cup
          {[call |-> m.call, uid |-> connectedTo[i], n |-> execs[i][m.call]]}]
    BY <1>6 DEF OnRequest
  <2>5. Carried(buffer'[i], Parent, i)
    BY <1>0, <1>1, <2>3 DEF TypeOK
  <2>6. \A r \in running'[i] : r \in running[i] \/ r.call = m.call
    BY <1>0, <2>4 DEF TypeOK
  <2>7. QED BY <1>0, <2>1, <2>2, <2>5, <2>6
<1>7. QED BY <1>2, <1>3, <1>4, <1>5, <1>6 DEF OnMessage

LEMMA KeptOnParentMessage ==
  ASSUME TypeOK, ParentOwn, NEW m \in Message, NEW box, OnMessage(Parent, m, box),
         transport[Parent] # NoActor, ~disposed[Parent], running[Parent] = {},
         UNCHANGED <<timer, drain>>,
         m.type = "REQUEST" =>
           /\ m.call[1] = hostOf[transport[Parent]]
           /\ connectedTo[Parent] = UidOf[hostOf[transport[Parent]]]
  PROVE  ParentOwn'
<1>0. /\ Parent \in End /\ ~paused[Parent] /\ registered[Parent]
      /\ UNCHANGED <<hostOf, transport, registered, paused, disposed>>
  BY ConstantTypes, OthersKeep DEF ParentOwn
<1> DEFINE CachedOwn == \A id \in Id : cached[Parent][id] # NoCall =>
                           /\ cached[Parent][id][2] = id
                           /\ UidOf[cached[Parent][id][1]] = connectedTo[Parent]
           RunningOwn == \A r \in running[Parent] :
                           /\ transport[Parent] # NoActor
                           /\ r.call[1] = hostOf[transport[Parent]]
                           /\ connectedTo[Parent] = UidOf[r.call[1]]
<1>1. CachedOwn
  BY DEF ParentOwn
<1>2. buffer' = buffer
  BY <1>0 DEF OnMessage, OnHandshake, OnResponseAck, OnResponse, OnRequest
<1>3. CachedOwn'
  <2>1. CASE OnHandshake(Parent, m, box)
    <3>1. connectedTo[Parent] = m.uid \/ \A id \in Id : cached'[Parent][id] = NoCall
      BY <1>0, <2>1 DEF OnHandshake, TypeOK
    <3>2. connectedTo[Parent] = m.uid =>
            cached'[Parent] = cached[Parent] /\ connectedTo'[Parent] = connectedTo[Parent]
      BY <1>0, <2>1 DEF OnHandshake, TypeOK
    <3>3. QED BY <1>1, <3>1, <3>2
  <2>2. CASE ~OnHandshake(Parent, m, box)
    <3>1. connectedTo' = connectedTo
      BY <2>2 DEF OnMessage, OnResponseAck, OnResponse, OnRequest
    <3>2. CASE cached' = cached
      BY <1>1, <3>1, <3>2
    <3>3. CASE OnResponseAck(Parent, m, box)
      <4>1. m.id \in Id
        BY <3>3 DEF OnResponseAck, Message, Handshake, Payload
      <4>2. \A id \in Id : cached'[Parent][id] \in {NoCall, cached[Parent][id]}
        BY <1>0, <3>3, <4>1 DEF OnResponseAck, TypeOK
      <4>3. QED BY <1>1, <3>1, <4>2
    <3>4. QED BY <2>2, <3>2, <3>3 DEF OnMessage, OnResponse, OnRequest, serverVars
  <2>3. QED BY <2>1, <2>2
<1>4. RunningOwn'
  <2>1. CASE running' = running
    BY <2>1
  <2>2. CASE OnRequest(Parent, m, box)
    <3>1. \A r \in running'[Parent] : r.call = m.call
      BY <1>0, <2>2 DEF OnRequest, TypeOK
    <3>2. connectedTo' = connectedTo /\ m.type = "REQUEST"
      BY <2>2 DEF OnRequest
    <3>3. QED BY <1>0, <3>1, <3>2
  <2>3. QED BY <2>1, <2>2 DEF OnMessage, OnHandshake, OnResponseAck, OnResponse, serverVars
<1> HIDE DEF CachedOwn, RunningOwn
<1>5. QED BY <1>0, <1>2, <1>3, <1>4 DEF ParentOwn, CachedOwn, RunningOwn

LEMMA EndKinds ==
  /\ Parent \in End
  /\ \A e \in End : e = Parent \/ e \in Instance
  /\ \A i \in Instance : i \in End /\ i # Parent /\ Side(i) = "content" /\ Other(i) = "parent"
  /\ Side(Parent) = "parent" /\ Other(Parent) = "content"
BY ConstantTypes DEF Side, Other

LEMMA OwnInit == PromptParent /\ Init => OwnInv
<1> SUFFICES ASSUME PromptParent, Init PROVE OwnInv
  OBVIOUS
<1>1. PeerInv
  BY PeerInit
<1>2. \A x, y : Carried(<<>>, x, y)
  BY DEF Carried
<1>3. NoRequest(<<>>)
  BY DEF NoRequest
<1>4. SeenInv /\ WireOwn(inbox)
  BY <1>2 DEF Init, SeenInv, WireOwn
<1>5. Order(inbox, ready, connectedTo[Parent])
  BY <1>3, EndKinds DEF Init, Order, Fresh, Trusted
<1>6. ContentOwn
  BY <1>2, EndKinds DEF Init, ContentOwn
<1>7. ParentOwn
  <2>1. Parent \notin MayUnregister => registered[Parent]
    BY EndKinds DEF Init
  <2>2. Parent \notin MayUnregister
    BY DEF PromptParent
  <2>3. QED BY <2>1, <2>2, EndKinds DEF Init, ParentOwn
<1>8. AnswerOwn
  BY DEF Init, AnswerOwn
<1>9. QED BY <1>1, <1>4, <1>5, <1>6, <1>7, <1>8 DEF OwnInv, PairOwn, KeptOwn

\* Nothing of a prompt parent is under way when it binds, resets or receives.
LEMMA IdleParent ==
  ASSUME PromptParent, Idle(Parent)
  PROVE  running[Parent] = {}
BY DEF PromptParent, Idle

LEMMA ForgetFacts ==
  ASSUME NEW box \in InboxType, NEW e \in End, NEW a
  PROVE  \A b \in Actor : \A t \in {"parent", "content"} :
           /\ Forget(box, e, a)[b][t] = box[b][t] \/ Forget(box, e, a)[b][t] = <<>>
           /\ t # Side(e) \/ ~(b < a) => Forget(box, e, a)[b][t] = box[b][t]
BY ConstantTypes DEF Forget, InboxType

LEMMA EmptyOrder == NoRequest(<<>>) /\ NoAck(<<>>)
BY DEF NoRequest, NoAck

LEMMA NoRequestPrefaced == \A q : NoRequest(q) => Prefaced(q)
BY DEF NoRequest, Prefaced

LEMMA OwnCreate ==
  ASSUME OwnInv, NEW i \in Instance, CreateActor(i)
  PROVE  PairOwn' /\ KeptOwn'
<1>0. /\ TypeOK /\ BoundInv /\ WireInv(inbox) /\ SeenInv /\ WireOwn(inbox)
      /\ Order(inbox, ready, connectedTo[Parent]) /\ KeptOwn
  BY DEF OwnInv, PairOwn, PeerInv
<1>1. /\ created' = created + 1 /\ hostOf' = [hostOf EXCEPT ![created + 1] = i]
      /\ UNCHANGED <<gone, inbox, seen, transport, ready, connectedTo, answer, registered, paused,
                     timer, buffer, drain, cached, running, disposed>>
      /\ created \in 0..NActor /\ created < NActor /\ hostOf \in [Actor -> End]
  BY <1>0, TypeParts DEF CreateActor, connVars, requestVars, bufferVars, serverVars
<1>2. \A a \in Actor : ~(a > created) => hostOf'[a] = hostOf[a]
  BY <1>1, ConstantTypes DEF Actor
<1>3. WireOwn(inbox)'
  <2>1. \A a \in Actor : a > created => inbox[a]["parent"] = <<>> /\ inbox[a]["content"] = <<>>
    BY <1>0 DEF WireInv
  <2>2. \A x, y : Carried(<<>>, x, y)
    BY DEF Carried
  <2>3. QED BY <1>0, <1>1, <1>2, <2>1, <2>2 DEF WireOwn
<1>4. transport[Parent] # NoActor => hostOf'[transport[Parent]] = hostOf[transport[Parent]]
  <2> SUFFICES ASSUME transport[Parent] # NoActor
               PROVE  hostOf'[transport[Parent]] = hostOf[transport[Parent]]
    OBVIOUS
  <2>1. transport[Parent] \in Actor /\ transport[Parent] <= created
    BY <1>0, TypeParts, EndKinds, ConstantTypes DEF BoundInv, Actor, NoActor
  <2>2. ~(transport[Parent] > created)
    BY <1>1, <2>1 DEF Actor
  <2>3. QED BY <1>2, <2>1, <2>2
<1>5. Order(inbox, ready, connectedTo[Parent])'
  BY <1>0, <1>1, <1>4 DEF Order, Fresh, Trusted
<1>6. SeenInv'
  BY <1>0, <1>1 DEF SeenInv
<1>7. KeptOwn'
  <2>1. ParentOwn'
    BY <1>0, <1>1, <1>4 DEF KeptOwn, ParentOwn
  <2>2. ContentOwn' /\ AnswerOwn'
    BY <1>0, <1>1 DEF KeptOwn, ContentOwn, AnswerOwn
  <2>3. QED BY <2>1, <2>2 DEF KeptOwn
<1>8. QED BY <1>3, <1>5, <1>6, <1>7 DEF PairOwn

LEMMA OwnBind ==
  ASSUME PromptParent, OwnInv, NEW e \in End, NEW a \in Actor, BindToActor(e, a)
  PROVE  PairOwn' /\ KeptOwn'
<1>0. /\ TypeOK /\ BoundInv /\ WireInv(inbox) /\ SeenInv /\ WireOwn(inbox)
      /\ Order(inbox, ready, connectedTo[Parent]) /\ KeptOwn
      /\ inbox \in InboxType /\ a \in 0..NActor
  BY ConstantTypes, TypeParts DEF OwnInv, PairOwn, PeerInv, Actor
<1>1. /\ UNCHANGED <<created, hostOf, connectedTo, answer, registered, paused,
                     timer, buffer, drain, cached, running, disposed>>
      /\ seen' = [seen EXCEPT ![e] = a]
      /\ transport' = [transport EXCEPT ![e] = a]
      /\ ready' = [ready EXCEPT ![e] = FALSE]
      /\ inbox' = Post(Forget(inbox, e, a), e, a, <<Ready(e)>>)
      /\ Idle(e) /\ ~disposed[e] /\ seen[e] < a /\ (e # Parent => hostOf[a] = e)
  BY DEF BindToActor, linkVars, requestVars, bufferVars, serverVars
<1>2. /\ seen \in [End -> 0..NActor] /\ transport \in [End -> 0..NActor]
      /\ ready \in [End -> BOOLEAN]
  BY <1>0, TypeParts
<1>3. SeenInv'
  BY <1>0, <1>1, <1>2 DEF SeenInv
<1>4. Forget(inbox, e, a) \in InboxType /\ WireOwn(Forget(inbox, e, a))
  BY <1>0, ForgetType, OwnForget
<1>5. <<Ready(e)>> \in Seq(Message) /\ Carried(<<Ready(e)>>, e, Peer(e, a))
  <2>1. Ready(e) \in Message
    BY MessageTypes
  <2>2. Carried(<<Ready(e)>>, e, Peer(e, a))
    BY FitSent
  <2>3. QED BY <2>1, <2>2
<1>6. WireOwn(inbox)'
  <2>1. WireOwn(inbox')
    BY <1>0, <1>1, <1>4, <1>5, OwnPost
  <2>2. QED BY <1>1, <2>1 DEF WireOwn
<1> DEFINE was == Forget(inbox, e, a)
<1>7. \/ inbox' = was
      \/ /\ inbox'[a][Other(e)] = was[a][Other(e)] \o <<Ready(e)>>
         /\ \A b \in Actor, t \in {"parent", "content"} :
              b # a \/ t # Other(e) => inbox'[b][t] = was[b][t]
  <2>1. was \in InboxType /\ inbox' = Post(was, e, a, <<Ready(e)>>)
    BY <1>1, <1>4
  <2> HIDE DEF was
  <2>2. \/ Post(was, e, a, <<Ready(e)>>) = was
        \/ /\ Post(was, e, a, <<Ready(e)>>)[a][Other(e)] = was[a][Other(e)] \o <<Ready(e)>>
           /\ \A b \in Actor, t \in {"parent", "content"} :
                b # a \/ t # Other(e) => Post(was, e, a, <<Ready(e)>>)[b][t] = was[b][t]
    BY <1>0, <1>5, <2>1, PostFacts
  <2>3. QED BY <2>1, <2>2
<1>8. \A b \in Actor : \A t \in {"parent", "content"} :
           /\ was[b][t] = inbox[b][t] \/ was[b][t] = <<>>
           /\ t # Side(e) \/ ~(b < a) => was[b][t] = inbox[b][t]
  BY <1>0, ForgetFacts
<1> HIDE DEF was
<1>9. NoRequest(<<Ready(e)>>) /\ NoAck(<<Ready(e)>>)
  BY DEF NoRequest, NoAck, Ready
<1>10. ~(a < a)
  BY DEF Actor
<1>11. Order(inbox, ready, connectedTo[Parent])'
  <2> SUFFICES ASSUME ~disposed[Parent]
               PROVE  Fresh(inbox, ready)' /\ Trusted(inbox, ready, connectedTo[Parent])'
    BY <1>1 DEF Order
  <2>1. Fresh(inbox, ready) /\ Trusted(inbox, ready, connectedTo[Parent])
    BY <1>0 DEF Order
  <2>2. CASE e = Parent
    <3>1. /\ seen'[Parent] = a /\ transport'[Parent] = a
          /\ \A i \in Instance : ready'[i] = ready[i] /\ transport'[i] = transport[i]
      BY <1>1, <1>2, <2>2, EndKinds
    <3>2. ASSUME NEW b \in Actor, a < b
          PROVE  /\ seen[Parent] < b
                 /\ inbox'[b]["content"] = inbox[b]["content"]
                 /\ inbox'[b]["parent"] = inbox[b]["parent"]
      <4>1. seen[Parent] < b /\ ~(b < a) /\ b # a
        BY <1>1, <1>2, <2>2, <3>2, EndKinds DEF Actor
      <4>2. QED BY <1>7, <1>8, <4>1
    <3>3. Fresh(inbox, ready)'
      BY <2>1, <3>1, <3>2 DEF Fresh
    <3>4. /\ inbox[a]["content"] = <<>> /\ NoRequest(inbox[a]["parent"])
          /\ \A i \in Instance : transport[i] = a => ~ready[i]
      BY <1>1, <2>1, <2>2 DEF Fresh
    <3>5. inbox'[a]["parent"] = inbox[a]["parent"]
      BY <1>7, <1>8, <1>10, <2>2, EndKinds
    <3>6. NoAck(inbox'[a]["content"])
      <4>1. was[a]["content"] = <<>>
        BY <1>8, <3>4
      <4>2. inbox'[a]["content"] = <<>> \/ inbox'[a]["content"] = <<>> \o <<Ready(e)>>
        BY <1>7, <2>2, <4>1, EndKinds
      <4>3. <<>> \o <<Ready(e)>> = <<Ready(e)>>
        BY <1>5
      <4>4. QED BY <1>9, <4>2, <4>3, EmptyOrder
    <3>7. Trusted(inbox, ready, connectedTo[Parent])'
      BY <3>1, <3>4, <3>5, <3>6, NoRequestPrefaced DEF Trusted
    <3>8. QED BY <3>3, <3>7
  <2>3. CASE e # Parent
    <3>1. /\ seen'[Parent] = seen[Parent] /\ transport'[Parent] = transport[Parent]
          /\ \A i \in Instance : ready'[i] => i # e /\ ready[i] /\ transport'[i] = transport[i]
      BY <1>1, <1>2, <2>3, EndKinds
    <3>2. Side(e) = "content" /\ Other(e) = "parent"
      BY <2>3, EndKinds
    <3>3. \A b \in Actor : inbox'[b]["content"] = inbox[b]["content"] \/ inbox'[b]["content"] = <<>>
      BY <1>7, <1>8, <3>2
    <3>4. \A b \in Actor : \/ inbox'[b]["parent"] = inbox[b]["parent"]
                           \/ inbox'[b]["parent"] = inbox[b]["parent"] \o <<Ready(e)>>
      BY <1>7, <1>8, <3>2
    <3>5. \A b \in Actor : inbox[b]["parent"] \in Seq(Message)
      BY <1>0 DEF InboxType
    <3>6. \A b \in Actor :
            /\ NoRequest(inbox[b]["parent"]) => NoRequest(inbox'[b]["parent"])
            /\ Prefaced(inbox[b]["parent"]) => Prefaced(inbox'[b]["parent"])
            /\ HasGreeting(inbox[b]["parent"]) => HasGreeting(inbox'[b]["parent"])
            /\ NoAck(inbox[b]["content"]) => NoAck(inbox'[b]["content"])
      BY <1>5, <1>9, <3>3, <3>4, <3>5, ConcatOrder, EmptyOrder
    <3>7. Fresh(inbox, ready)'
      BY <2>1, <3>1, <3>3, <3>6 DEF Fresh
    <3>8. transport[Parent] # NoActor => transport[Parent] \in Actor
      BY <1>2, EndKinds, ConstantTypes DEF NoActor, Actor
    <3>9. Trusted(inbox, ready, connectedTo[Parent])'
      BY <1>1, <2>1, <3>1, <3>6, <3>8 DEF Trusted
    <3>10. QED BY <3>7, <3>9
  <2>4. QED BY <2>2, <2>3
<1>12. KeptOwn'
  <2>1. ParentOwn'
    <3>1. CASE e = Parent
      <4>1. running[Parent] = {}
        BY <1>1, <3>1, IdleParent
      <4>2. QED BY <1>0, <1>1, <4>1 DEF KeptOwn, ParentOwn
    <3>2. CASE e # Parent
      <4>1. transport'[Parent] = transport[Parent]
        BY <1>1, <1>2, <3>2, EndKinds
      <4>2. QED BY <1>0, <1>1, <4>1 DEF KeptOwn, ParentOwn
    <3>3. QED BY <3>1, <3>2
  <2>2. ContentOwn' /\ AnswerOwn'
    BY <1>0, <1>1 DEF KeptOwn, ContentOwn, AnswerOwn
  <2>3. QED BY <2>1, <2>2 DEF KeptOwn
<1>13. QED BY <1>3, <1>6, <1>11, <1>12 DEF PairOwn

\* Nothing but messages on their way to a content end is forgotten.
LEMMA OrderShrinks ==
  ASSUME OwnInv, UNCHANGED <<hostOf, seen>>,
         connectedTo'[Parent] = connectedTo[Parent],
         transport'[Parent] = transport[Parent],
         disposed[Parent] => disposed'[Parent],
         \A i \in Instance : ready'[i] => ready[i] /\ transport'[i] = transport[i],
         \A b \in Actor : \/ inbox'[b]["content"] = inbox[b]["content"]
                          \/ inbox'[b]["content"] = <<>>,
         \A b \in Actor : inbox'[b]["parent"] = inbox[b]["parent"]
  PROVE  Order(inbox, ready, connectedTo[Parent])'
<1>0. TypeOK /\ Order(inbox, ready, connectedTo[Parent])
  BY DEF OwnInv, PairOwn, PeerInv
<1> SUFFICES ASSUME ~disposed'[Parent]
             PROVE  Fresh(inbox, ready)' /\ Trusted(inbox, ready, connectedTo[Parent])'
  BY DEF Order
<1>1. Fresh(inbox, ready) /\ Trusted(inbox, ready, connectedTo[Parent])
  BY <1>0 DEF Order
<1>2. Fresh(inbox, ready)'
  BY <1>1 DEF Fresh
<1>3. transport[Parent] # NoActor => transport[Parent] \in Actor
  BY <1>0, TypeParts, EndKinds, ConstantTypes DEF NoActor, Actor
<1>4. Trusted(inbox, ready, connectedTo[Parent])'
  BY <1>1, <1>3, EmptyOrder DEF Trusted
<1>5. QED BY <1>2, <1>4

LEMMA OwnReset ==
  ASSUME PromptParent, OwnInv, NEW e \in End, ResetTransport(e)
  PROVE  PairOwn' /\ KeptOwn'
<1>0. /\ TypeOK /\ SeenInv /\ WireOwn(inbox)
      /\ Order(inbox, ready, connectedTo[Parent]) /\ KeptOwn
      /\ inbox \in InboxType
  BY TypeParts DEF OwnInv, PairOwn, PeerInv
<1>1. /\ UNCHANGED <<created, hostOf, seen, connectedTo, answer, registered, paused,
                     timer, buffer, drain, cached, running, disposed>>
      /\ transport' = [transport EXCEPT ![e] = NoActor]
      /\ ready' = [ready EXCEPT ![e] = FALSE]
      /\ inbox' = Forget(inbox, e, transport[e] + 1)
      /\ Idle(e)
  BY DEF ResetTransport, requestVars, bufferVars, serverVars
<1>2. /\ transport \in [End -> 0..NActor] /\ ready \in [End -> BOOLEAN]
  BY <1>0, TypeParts
<1>3. SeenInv'
  BY <1>0, <1>1, <1>2 DEF SeenInv
<1>4. WireOwn(inbox)'
  <2>1. WireOwn(inbox')
    BY <1>0, <1>1, OwnForget
  <2>2. QED BY <1>1, <2>1 DEF WireOwn
<1>5. \A b \in Actor : \A t \in {"parent", "content"} :
           /\ inbox'[b][t] = inbox[b][t] \/ inbox'[b][t] = <<>>
           /\ t # Side(e) => inbox'[b][t] = inbox[b][t]
  BY <1>0, <1>1, ForgetFacts
<1>6. CASE e = Parent
  <2>1. \A i \in Instance : ready'[i] = ready[i] /\ transport'[i] = transport[i]
    BY <1>1, <1>2, <1>6, EndKinds
  <2>2. transport'[Parent] = NoActor
    BY <1>1, <1>2, <1>6
  <2>3. Fresh(inbox, ready) => Fresh(inbox, ready)'
    BY <1>1, <1>5, <1>6, <2>1, EmptyOrder, EndKinds DEF Fresh
  <2>4. Order(inbox, ready, connectedTo[Parent])'
    BY <1>0, <1>1, <2>2, <2>3 DEF Order, Trusted
  <2>5. running[Parent] = {}
    BY <1>1, <1>6, IdleParent
  <2>6. KeptOwn'
    BY <1>0, <1>1, <2>5 DEF KeptOwn, ParentOwn, ContentOwn, AnswerOwn
  <2>7. QED BY <1>3, <1>4, <2>4, <2>6 DEF PairOwn
<1>7. CASE e # Parent
  <2>1. /\ transport'[Parent] = transport[Parent]
        /\ \A i \in Instance : ready'[i] => ready[i] /\ transport'[i] = transport[i]
        /\ Side(e) = "content"
    BY <1>1, <1>2, <1>7, EndKinds
  <2>2. /\ \A b \in Actor : \/ inbox'[b]["content"] = inbox[b]["content"]
                            \/ inbox'[b]["content"] = <<>>
        /\ \A b \in Actor : inbox'[b]["parent"] = inbox[b]["parent"]
    BY <1>5, <2>1
  <2>3. Order(inbox, ready, connectedTo[Parent])'
    BY <1>1, <2>1, <2>2, OrderShrinks
  <2>4. KeptOwn'
    BY <1>0, <1>1, <2>1 DEF KeptOwn, ParentOwn, ContentOwn, AnswerOwn
  <2>5. QED BY <1>3, <1>4, <2>3, <2>4 DEF PairOwn
<1>8. QED BY <1>6, <1>7

LEMMA OwnLose ==
  ASSUME OwnInv, NEW a \in Actor, LoseMessage(a)
  PROVE  PairOwn' /\ KeptOwn'
<1>0. /\ TypeOK /\ SeenInv /\ WireOwn(inbox)
      /\ Order(inbox, ready, connectedTo[Parent]) /\ KeptOwn
      /\ inbox \in InboxType
      /\ transport \in [End -> 0..NActor] /\ seen \in [End -> 0..NActor]
  BY TypeParts DEF OwnInv, PairOwn, PeerInv
<1>1. /\ UNCHANGED <<hostOf, seen, transport, ready, connectedTo, answer, registered, paused,
                     timer, buffer, drain, cached, running, disposed>>
      /\ seen[Parent] < a /\ inbox[a]["parent"] # <<>>
      /\ inbox' = [inbox EXCEPT ![a]["parent"] = Tail(@)]
  BY DEF LoseMessage, linkVars, connVars, requestVars, bufferVars, serverVars
<1>2. a # transport[Parent]
  <2>1. transport[Parent] \in {NoActor, seen[Parent]}
    BY <1>0, EndKinds DEF SeenInv
  <2>2. a # NoActor /\ a # seen[Parent]
    BY <1>0, <1>1, EndKinds DEF Actor, NoActor
  <2>3. QED BY <2>1, <2>2
<1>3. Order(inbox', ready, connectedTo[Parent])
  BY <1>0, <1>1, <1>2, OrderTail
<1>4. Order(inbox, ready, connectedTo[Parent])'
  BY <1>1, <1>3 DEF Order, Fresh, Trusted
<1>5. WireOwn(inbox')
  <2>1. inbox[a][Side(Parent)] # <<>> /\ Side(Parent) = "parent" /\ Parent \in End
    BY <1>1, EndKinds
  <2>2. WireOwn([inbox EXCEPT ![a][Side(Parent)] = Tail(@)])
    BY <1>0, <2>1, OwnTail
  <2>3. QED BY <1>1, <2>1, <2>2
<1>6. WireOwn(inbox)' /\ SeenInv'
  BY <1>0, <1>1, <1>5 DEF WireOwn, SeenInv
<1>7. KeptOwn'
  BY <1>0, <1>1 DEF KeptOwn, ParentOwn, ContentOwn, AnswerOwn
<1>8. QED BY <1>4, <1>6, <1>7 DEF PairOwn

LEMMA OwnSend ==
  ASSUME OwnInv, NEW e \in End, Send(e)
  PROVE  PairOwn' /\ KeptOwn'
<1>0. /\ TypeOK /\ BoundInv /\ SeenInv /\ WireOwn(inbox)
      /\ Order(inbox, ready, connectedTo[Parent]) /\ KeptOwn
      /\ inbox \in InboxType
      /\ transport \in [End -> 0..NActor] /\ seen \in [End -> 0..NActor]
  BY TypeParts DEF OwnInv, PairOwn, PeerInv
<1> DEFINE req == Request(<<e, sent[e] + 1>>)
           a == transport[e]
<1>1. /\ UNCHANGED <<hostOf, seen, transport, ready, connectedTo, answer, registered, paused,
                     timer, buffer, drain, cached, running, disposed>>
      /\ inbox' = IF ready[e] THEN Post(inbox, e, a, <<req>>) ELSE inbox
  BY DEF Send, linkVars, connVars, bufferVars, serverVars
<1>2. a \in 0..NActor /\ a \in {NoActor, seen[e]} /\ (a # NoActor /\ e # Parent => hostOf[a] = e)
  BY <1>0 DEF SeenInv, BoundInv
<1>3. req \in Message
  <2>1. /\ sent[e] \in 0..MaxId /\ sent[e] < MaxRequest[e]
        /\ MaxRequest[e] \in Nat /\ MaxRequest[e] <= MaxId /\ MaxId \in Nat
    BY <1>0, ConstantTypes DEF Send, TypeOK
  <2>2. sent[e] + 1 \in Id /\ sent[e] + 1 <= MaxRequest[e]
    BY <2>1 DEF Id
  <2>3. QED BY <2>2, MessageTypes
<1>4. <<req>> \in Seq(Message) /\ Carried(<<req>>, e, Peer(e, a)) /\ NoAck(<<req>>)
  <2>1. Carried(<<req>>, e, Peer(e, a))
    BY FitSent
  <2>2. NoAck(<<req>>)
    BY DEF NoAck, Request
  <2>3. QED BY <1>3, <2>1, <2>2
<1> HIDE DEF req
<1>5. WireOwn(inbox')
  <2>1. WireOwn(Post(inbox, e, a, <<req>>))
    BY <1>0, <1>2, <1>4, OwnPost
  <2>2. QED BY <1>0, <1>1, <2>1
<1>6. Order(inbox', ready, connectedTo[Parent])
  <2>1. CASE ~ready[e]
    BY <1>0, <1>1, <2>1
  <2>2. CASE ready[e] /\ e = Parent
    <3>1. Order(Post(inbox, Parent, a, <<req>>), ready, connectedTo[Parent])
      BY <1>0, <1>2, <1>4, <2>2, OrderParentPost
    <3>2. QED BY <1>1, <2>2, <3>1
  <2>3. CASE ready[e] /\ e # Parent
    <3>1. e \in Instance
      BY <2>3, EndKinds
    <3>2. Order(Post(inbox, e, a, <<req>>), ready, connectedTo[Parent])
      BY <1>0, <1>2, <1>4, <2>3, <3>1, OrderContentPost
    <3>3. QED BY <1>1, <2>3, <3>2
  <2>4. QED BY <2>1, <2>2, <2>3
<1>7. Order(inbox, ready, connectedTo[Parent])' /\ WireOwn(inbox)' /\ SeenInv'
  BY <1>0, <1>1, <1>5, <1>6 DEF Order, Fresh, Trusted, WireOwn, SeenInv
<1>8. KeptOwn'
  BY <1>0, <1>1 DEF KeptOwn, ParentOwn, ContentOwn, AnswerOwn
<1>9. QED BY <1>7, <1>8 DEF PairOwn

LEMMA OwnDispose ==
  ASSUME PromptParent, OwnInv, NEW e \in End, Dispose(e)
  PROVE  PairOwn' /\ KeptOwn'
<1>0. /\ TypeOK /\ SeenInv /\ WireOwn(inbox)
      /\ Order(inbox, ready, connectedTo[Parent]) /\ KeptOwn
      /\ inbox \in InboxType
  BY TypeParts DEF OwnInv, PairOwn, PeerInv
<1>1. /\ UNCHANGED <<hostOf, seen, transport, ready, connectedTo, answer, paused,
                     timer, buffer, drain, cached, running>>
      /\ disposed' = [disposed EXCEPT ![e] = TRUE]
      /\ registered' = [registered EXCEPT ![e] = FALSE]
      /\ inbox' = Forget(inbox, e, NActor + 1)
      /\ Idle(e)
      /\ disposed \in [End -> BOOLEAN] /\ registered \in [End -> BOOLEAN]
  BY <1>0 DEF Dispose, linkVars, connVars, serverVars, TypeOK
<1>2. WireOwn(inbox)' /\ SeenInv'
  <2>1. WireOwn(inbox')
    BY <1>0, <1>1, OwnForget
  <2>2. QED BY <1>0, <1>1, <2>1 DEF WireOwn, SeenInv
<1>3. Order(inbox, ready, connectedTo[Parent])'
  <2>1. CASE e = Parent
    BY <1>1, <2>1 DEF Order
  <2>2. CASE e # Parent
    <3>1. \A b \in Actor : \A t \in {"parent", "content"} :
             /\ inbox'[b][t] = inbox[b][t] \/ inbox'[b][t] = <<>>
             /\ t # Side(e) => inbox'[b][t] = inbox[b][t]
      BY <1>0, <1>1, ForgetFacts
    <3>2. /\ \A b \in Actor : \/ inbox'[b]["content"] = inbox[b]["content"]
                              \/ inbox'[b]["content"] = <<>>
          /\ \A b \in Actor : inbox'[b]["parent"] = inbox[b]["parent"]
      BY <2>2, <3>1, EndKinds
    <3>3. disposed[Parent] => disposed'[Parent]
      BY <1>1, EndKinds
    <3>4. QED BY <1>1, <3>2, <3>3, OrderShrinks
  <2>3. QED BY <2>1, <2>2
<1>4. KeptOwn'
  <2>1. (disposed[Parent] \/ registered[Parent]) => (disposed'[Parent] \/ registered'[Parent])
    BY <1>1, EndKinds
  <2>2. QED BY <1>0, <1>1, <2>1 DEF KeptOwn, ParentOwn, ContentOwn, AnswerOwn
<1>5. QED BY <1>2, <1>3, <1>4 DEF PairOwn

LEMMA OwnHandlers ==
  ASSUME PromptParent, OwnInv, NEW e \in End,
         \/ Register(e) \/ Unregister(e)
         \/ Pause(e) \/ ResumeSoon(e) \/ ResumeTimer(e)
         \/ \E S \in SUBSET Id : DisposeConnector(e, S)
         \/ UNCHANGED vars
  PROVE  PairOwn' /\ KeptOwn'
<1>0. TypeOK /\ PairOwn /\ KeptOwn
  BY DEF OwnInv, PeerInv
<1>1. UNCHANGED <<hostOf, inbox, seen, transport, ready, connectedTo, answer, cached,
                  running, disposed>>
  BY DEF Register, Unregister, Pause, ResumeSoon, ResumeTimer, DisposeConnector, vars,
         linkVars, connVars, requestVars, serverVars
<1>2. PairOwn' /\ AnswerOwn'
  BY <1>0, <1>1 DEF PairOwn, SeenInv, WireOwn, Order, Fresh, Trusted, KeptOwn, AnswerOwn
<1>3. CASE UNCHANGED <<registered, paused, timer, buffer, drain>>
  BY <1>0, <1>1, <1>2, <1>3 DEF KeptOwn, ContentOwn, ParentOwn
<1>4. CASE ~UNCHANGED <<registered, paused, timer, buffer, drain>>
  <2>1. e \in Instance
    <3>1. e # Parent
      <4>1. Parent \notin MayUnregister /\ Parent \notin MayPause /\ ~paused[Parent] /\ ~timer[Parent]
        BY <1>0, ChannelAssumption, ConstantTypes DEF PromptParent, KeptOwn, ParentOwn
      <4>2. QED
        BY <1>4, <4>1 DEF Register, Unregister, Pause, ResumeSoon, ResumeTimer, DisposeConnector,
                          bufferVars, vars
    <3>2. QED BY <3>1, EndKinds
  <2>2. /\ e \in End /\ e # Parent /\ Parent \in End
        /\ registered \in [End -> BOOLEAN] /\ paused \in [End -> BOOLEAN] /\ timer \in [End -> BOOLEAN]
        /\ buffer \in [End -> Seq(Payload)] /\ drain \in [End -> Seq(Payload)]
    BY <1>0, <2>1, EndKinds DEF TypeOK
  <2>3. /\ registered'[Parent] = registered[Parent] /\ paused'[Parent] = paused[Parent]
        /\ timer'[Parent] = timer[Parent] /\ buffer'[Parent] = buffer[Parent]
        /\ drain'[Parent] = drain[Parent]
    BY <1>4, <2>2 DEF Register, Unregister, Pause, ResumeSoon, ResumeTimer, DisposeConnector,
                      bufferVars, vars
  <2>4. \A f \in End : /\ buffer'[f] \in {buffer[f], <<>>}
                       /\ drain'[f] \in {drain[f], buffer[f]}
    BY <1>4, <2>2 DEF Register, Unregister, Pause, ResumeSoon, ResumeTimer, DisposeConnector,
                      bufferVars, vars
  <2>5. Carried(<<>>, Parent, e) /\ \A i : Carried(<<>>, Parent, i)
    BY DEF Carried
  <2>6. ContentOwn'
    BY <1>0, <1>1, <2>4, <2>5, EndKinds DEF KeptOwn, ContentOwn
  <2>7. ParentOwn'
    BY <1>0, <1>1, <2>3 DEF KeptOwn, ParentOwn
  <2>8. QED BY <1>2, <2>6, <2>7 DEF KeptOwn
<1>5. QED BY <1>3, <1>4

\* A content end takes a message that fits: from its pair, or from its buffer.
LEMMA OwnContentMessage ==
  ASSUME OwnInv, NEW i \in Instance, NEW m \in Message, NEW box \in InboxType,
         WireOwn(box), Order(box, ready, connectedTo[Parent]), Fits(m, Parent, i),
         OnMessage(i, m, box), timer' = timer,
         drain'[Parent] = drain[Parent], \A j \in Instance : j # i => drain'[j] = drain[j],
         Carried(drain'[i], Parent, i),
         m.type \in Greeting =>
           /\ transport[i] # NoActor
           /\ disposed[Parent] \/ ~(seen[Parent] < transport[i])
           /\ disposed[Parent] \/ m.type = "READY" \/ transport[i] # transport[Parent]
              \/ connectedTo[Parent] = UidOf[hostOf[transport[i]]]
  PROVE  PairOwn' /\ KeptOwn'
<1>0. /\ TypeOK /\ BoundInv /\ SeenInv /\ ContentOwn /\ ParentOwn /\ AnswerOwn
      /\ i \in End /\ i # Parent /\ Parent \in End
  BY EndKinds DEF OwnInv, PeerInv, PairOwn, KeptOwn
<1>1. /\ UNCHANGED <<hostOf, seen, transport, registered, paused, disposed>>
      /\ \A f \in End : f # i => /\ connectedTo'[f] = connectedTo[f]
                                 /\ cached'[f] = cached[f] /\ running'[f] = running[f]
                                 /\ buffer'[f] = buffer[f]
  BY <1>0, OthersKeep
<1>2. WireOwn(inbox)'
  <2>1. transport[i] # NoActor => hostOf[transport[i]] = i
    BY <1>0 DEF BoundInv
  <2>2. \A a : Peer(i, a) = Parent
    BY <1>0 DEF Peer
  <2>3. m.type = "REQUEST" => m.call[1] = Parent
    BY DEF Fits
  <2>4. \A id \in Id : cached[i][id] \in {NoCall, <<Parent, id>>}
    BY <1>0 DEF ContentOwn
  <2>5. transport[i] # NoActor /\ m.type = "REQUEST" =>
           /\ m.call[1] = Peer(i, transport[i])
           /\ \A id \in Id : cached[i][id] \in {NoCall, <<Peer(i, transport[i]), id>>}
    BY <2>2, <2>3, <2>4
  <2>6. QED BY <1>0, <2>1, <2>5, WireOwnOnMessage
<1>3. Order(inbox, ready, connectedTo[Parent])'
  BY <1>0, OrderOnContentMessage
<1>4. SeenInv'
  BY <1>0, <1>1 DEF SeenInv
<1>5. AnswerOwn'
  BY <1>0, AnswerOnMessage
<1>6. /\ \A id \in Id : cached'[i][id] \in {NoCall, <<Parent, id>>}
      /\ \A r \in running'[i] : r.call[1] = Parent
      /\ Carried(buffer'[i], Parent, i)
  BY <1>0, KeptOnContentMessage
<1>7. ContentOwn'
  BY <1>0, <1>1, <1>6, EndKinds DEF ContentOwn
<1>8. ParentOwn'
  BY <1>0, <1>1 DEF ParentOwn
<1>9. QED BY <1>2, <1>3, <1>4, <1>5, <1>7, <1>8 DEF PairOwn, KeptOwn

LEMMA OwnDeliverContent ==
  ASSUME OwnInv, NEW i \in Instance, Deliver(i)
  PROVE  PairOwn' /\ KeptOwn'
<1>0. /\ TypeOK /\ BoundInv /\ WireOwn(inbox) /\ Order(inbox, ready, connectedTo[Parent])
      /\ ContentOwn /\ i \in End /\ i # Parent /\ Side(i) = "content"
      /\ inbox \in InboxType /\ transport \in [End -> 0..NActor]
  BY EndKinds, TypeParts DEF OwnInv, PeerInv, PairOwn, KeptOwn
<1> DEFINE a == transport[i]
           box == [inbox EXCEPT ![a][Side(i)] = Tail(@)]
           m == Head(inbox[a][Side(i)])
<1>1. /\ a # NoActor /\ a \in Actor /\ hostOf[a] = i
      /\ inbox[a][Side(i)] # <<>> /\ OnMessage(i, m, box)
      /\ UNCHANGED <<timer, drain>>
  BY <1>0, ConstantTypes DEF Deliver, BoundInv, Actor, NoActor
<1>2. m \in Message /\ box \in InboxType
  BY <1>0, <1>1, TailType
<1>3. WireOwn(box) /\ Fits(m, Peer(i, a), i)
  BY <1>0, <1>1, OwnTail
<1>4. Fits(m, Parent, i)
  BY <1>0, <1>3 DEF Peer
<1>5. Order(box, ready, connectedTo[Parent])
  BY <1>0, <1>1, OrderTail
<1>6. ~disposed[Parent] =>
        /\ ~(seen[Parent] < a)
        /\ m.type = "READY_ACK" /\ a = transport[Parent] => connectedTo[Parent] = UidOf[hostOf[a]]
  <2> SUFFICES ASSUME ~disposed[Parent]
               PROVE  /\ ~(seen[Parent] < a)
                      /\ m.type = "READY_ACK" /\ a = transport[Parent]
                           => connectedTo[Parent] = UidOf[hostOf[a]]
    OBVIOUS
  <2>1. Fresh(inbox, ready) /\ Trusted(inbox, ready, connectedTo[Parent])
    BY <1>0 DEF Order
  <2>2. ~(seen[Parent] < a)
    BY <1>0, <1>1, <2>1 DEF Fresh
  <2>3. ASSUME m.type = "READY_ACK", a = transport[Parent], connectedTo[Parent] # UidOf[hostOf[a]]
        PROVE  FALSE
    <3>1. NoAck(inbox[a]["content"])
      BY <1>1, <2>1, <2>3 DEF Trusted
    <3>2. inbox[a]["content"] \in Seq(Message) /\ inbox[a]["content"] # <<>>
      BY <1>0, <1>1 DEF InboxType
    <3>3. QED BY <1>0, <2>3, <3>1, <3>2, TailOrder
  <2>4. QED BY <2>2, <2>3
<1>7. Carried(drain'[i], Parent, i)
  BY <1>0, <1>1 DEF ContentOwn
<1>8. m.type \in Greeting => m.type = "READY" \/ m.type = "READY_ACK"
  BY DEF Greeting
<1> HIDE DEF box, m
<1>9. QED BY <1>0, <1>1, <1>2, <1>3, <1>4, <1>5, <1>6, <1>7, <1>8, OwnContentMessage

LEMMA OwnDeliverBuffered ==
  ASSUME OwnInv, NEW e \in End, DeliverBuffered(e)
  PROVE  PairOwn' /\ KeptOwn'
<1>0. /\ TypeOK /\ WireOwn(inbox) /\ Order(inbox, ready, connectedTo[Parent])
      /\ ContentOwn /\ ParentOwn /\ inbox \in InboxType
  BY TypeParts DEF OwnInv, PeerInv, PairOwn, KeptOwn
<1>1. /\ drain[e] # <<>> /\ OnMessage(e, Head(drain[e]), inbox)
      /\ drain' = [drain EXCEPT ![e] = Tail(@)] /\ timer' = timer
      /\ drain \in [End -> Seq(Payload)]
  BY <1>0 DEF DeliverBuffered, TypeOK
<1>2. e \in Instance /\ e # Parent
  BY <1>0, <1>1, EndKinds DEF ParentOwn
<1>3. drain[e] \in Seq(Payload)
  BY <1>1
<1>4. Head(drain[e]) \in Payload
  BY <1>1, <1>3
<1>5. Head(drain[e]) \in Message /\ Head(drain[e]).type \notin Greeting
  BY <1>4, MessageTypes DEF Payload, Greeting
<1>6. Carried(drain[e], Parent, e)
  BY <1>0, <1>2 DEF ContentOwn
<1>7. Fits(Head(drain[e]), Parent, e) /\ Carried(Tail(drain[e]), Parent, e)
  BY <1>1, <1>3, <1>6 DEF Carried
<1>8. /\ drain'[Parent] = drain[Parent] /\ \A j \in Instance : j # e => drain'[j] = drain[j]
      /\ drain'[e] = Tail(drain[e])
  BY <1>1, <1>2, EndKinds
<1>9. QED BY <1>0, <1>1, <1>2, <1>5, <1>7, <1>8, OwnContentMessage

\* When a request reaches the parent, what the parent keeps is for the end that
\* sends it.
LEMMA ParentKeepsOwn ==
  ASSUME DistinctUids, OwnInv, Deliver(Parent), NEW m,
         m = Head(inbox[transport[Parent]]["parent"]), m.type = "REQUEST"
  PROVE  /\ connectedTo[Parent] = UidOf[hostOf[transport[Parent]]]
         /\ m.call[1] = hostOf[transport[Parent]]
         /\ \A id \in Id : cached[Parent][id] \in {NoCall, <<hostOf[transport[Parent]], id>>}
<1>0. /\ TypeOK /\ BoundInv /\ SeenInv /\ WireOwn(inbox)
      /\ Order(inbox, ready, connectedTo[Parent])
      /\ ParentOwn /\ Parent \in End /\ Side(Parent) = "parent"
      /\ inbox \in InboxType /\ transport \in [End -> 0..NActor] /\ hostOf \in [Actor -> End]
  BY EndKinds, TypeParts DEF OwnInv, PeerInv, PairOwn, KeptOwn
<1> DEFINE a == transport[Parent]
<1>1. /\ a # NoActor /\ a \in Actor /\ inbox[a]["parent"] # <<>> /\ ~disposed[Parent]
  BY <1>0, ConstantTypes DEF Deliver, Actor, NoActor
<1>2. inbox[a]["parent"] \in Seq(Message)
  BY <1>0, <1>1 DEF InboxType
<1>3. 1 \in 1..Len(inbox[a]["parent"]) /\ inbox[a]["parent"][1] = m
  BY <1>1, <1>2
<1>4. Fits(m, hostOf[a], Parent)
  BY <1>0, <1>1, <1>3 DEF WireOwn, Carried
<1>5. Trusted(inbox, ready, connectedTo[Parent])
  BY <1>0, <1>1 DEF Order
<1>6. connectedTo[Parent] = UidOf[hostOf[a]]
  <2> SUFFICES ASSUME connectedTo[Parent] # UidOf[hostOf[a]] PROVE FALSE
    OBVIOUS
  <2>1. Prefaced(inbox[a]["parent"])
    BY <1>1, <1>5 DEF Trusted
  <2>2. PICK j \in 1..Len(inbox[a]["parent"]) : j < 1
    BY <1>3, <2>1 DEF Prefaced
  <2>3. QED BY <1>2, <2>2
<1>7. ASSUME NEW id \in Id, cached[Parent][id] # NoCall
      PROVE  cached[Parent][id] = <<hostOf[a], id>>
  <2>1. /\ cached[Parent][id][2] = id
        /\ UidOf[cached[Parent][id][1]] = UidOf[hostOf[a]]
    BY <1>0, <1>6, <1>7 DEF ParentOwn
  <2>2. cached[Parent][id] \in Call
    BY <1>0, <1>7 DEF TypeOK
  <2>3. /\ cached[Parent][id][1] \in End /\ hostOf[a] \in End
        /\ cached[Parent][id] = <<cached[Parent][id][1], cached[Parent][id][2]>>
    BY <1>0, <1>1, <2>2, MessageTypes
  <2>4. cached[Parent][id][1] = hostOf[a]
    BY <2>1, <2>3 DEF DistinctUids
  <2>5. QED BY <2>1, <2>3, <2>4
<1>8. QED BY <1>4, <1>6, <1>7 DEF Fits

LEMMA OwnDeliverParent ==
  ASSUME DistinctUids, PromptParent, OwnInv, Deliver(Parent)
  PROVE  PairOwn' /\ KeptOwn'
<1>0. /\ TypeOK /\ BoundInv /\ WireInv(inbox) /\ SeenInv /\ WireOwn(inbox)
      /\ Order(inbox, ready, connectedTo[Parent])
      /\ ContentOwn /\ ParentOwn /\ AnswerOwn /\ Parent \in End /\ Side(Parent) = "parent"
      /\ inbox \in InboxType /\ transport \in [End -> 0..NActor] /\ hostOf \in [Actor -> End]
  BY EndKinds, TypeParts DEF OwnInv, PeerInv, PairOwn, KeptOwn
<1> DEFINE a == transport[Parent]
           box == [inbox EXCEPT ![a][Side(Parent)] = Tail(@)]
           m == Head(inbox[a][Side(Parent)])
<1>1. /\ a # NoActor /\ a \in Actor
      /\ inbox[a][Side(Parent)] # <<>> /\ OnMessage(Parent, m, box)
      /\ UNCHANGED <<timer, drain>> /\ ~disposed[Parent] /\ Idle(Parent)
      /\ a = seen[Parent]
  BY <1>0, ConstantTypes DEF Deliver, SeenInv, Actor, NoActor
<1>2. m \in Message /\ box \in InboxType
  BY <1>0, <1>1, TailType
<1>3. WireOwn(box) /\ Fits(m, hostOf[a], Parent)
  <2>1. WireOwn(box) /\ Fits(m, Peer(Parent, a), Parent)
    BY <1>0, <1>1, OwnTail
  <2>2. QED BY <2>1 DEF Peer
<1>4. Fresh(inbox, ready) /\ Trusted(inbox, ready, connectedTo[Parent])
  BY <1>0, <1>1 DEF Order
<1>5. m.type \notin Greeting => Order(box, ready, connectedTo[Parent])
  BY <1>0, <1>1, OrderTail
<1>6. m.type \in Greeting => m.uid = UidOf[hostOf[a]]
  <2>1. Greets(inbox[a]["parent"], UidOf[hostOf[a]])
    BY <1>0, <1>1 DEF WireInv
  <2>2. inbox[a]["parent"] \in Seq(Message) /\ inbox[a]["parent"] # <<>>
    BY <1>0, <1>1 DEF InboxType
  <2>3. 1 \in 1..Len(inbox[a]["parent"]) /\ m = inbox[a]["parent"][1]
    BY <1>0, <2>2
  <2>4. QED BY <2>1, <2>3 DEF Greets, Greeting
<1>7. Fresh(box, ready)
  <2>1. \A b \in Actor : b # a => box[b] = inbox[b]
    BY <1>0 DEF InboxType
  <2>2. \A b \in Actor : seen[Parent] < b => b # a
    BY <1>1 DEF Actor
  <2> HIDE DEF box
  <2>3. QED BY <1>4, <2>1, <2>2 DEF Fresh
<1>8. m.type = "REQUEST" =>
        /\ connectedTo[Parent] = UidOf[hostOf[a]]
        /\ m.call[1] = hostOf[a]
        /\ \A id \in Id : cached[Parent][id] \in {NoCall, <<hostOf[a], id>>}
  BY <1>0, ParentKeepsOwn
<1>10. running[Parent] = {}
  BY <1>1, IdleParent
<1>11. Peer(Parent, a) = hostOf[a]
  BY DEF Peer
<1> HIDE DEF box, m
<1>12. WireOwn(inbox)'
  <2>1. a # NoActor /\ m.type = "REQUEST" =>
           /\ m.call[1] = Peer(Parent, a)
           /\ \A id \in Id : cached[Parent][id] \in {NoCall, <<Peer(Parent, a), id>>}
    BY <1>8, <1>11
  <2>2. QED BY <1>0, <1>1, <1>2, <1>3, <2>1, WireOwnOnMessage
<1>13. Order(inbox, ready, connectedTo[Parent])'
  BY <1>0, <1>1, <1>2, <1>5, <1>6, <1>7, OrderOnParentMessage
<1>14. AnswerOwn'
  BY <1>0, <1>1, <1>2, <1>3, AnswerOnMessage
<1>15. m.type = "REQUEST" => m.call[1] = hostOf[a]
  BY <1>3 DEF Fits
<1>16. ParentOwn'
  BY <1>0, <1>1, <1>2, <1>8, <1>15, <1>10, KeptOnParentMessage
<1>17. ContentOwn' /\ SeenInv'
  <2>1. /\ UNCHANGED <<seen, transport>>
        /\ \A f \in End : f # Parent => /\ cached'[f] = cached[f] /\ running'[f] = running[f]
                                        /\ buffer'[f] = buffer[f]
    BY <1>0, <1>1, OthersKeep
  <2>2. QED BY <1>0, <1>1, <2>1, EndKinds DEF ContentOwn, SeenInv
<1>18. QED BY <1>12, <1>13, <1>14, <1>16, <1>17 DEF PairOwn, KeptOwn

LEMMA OwnFinish ==
  ASSUME OwnInv, NEW e \in End, NEW r \in running[e], FinishHandler(e, r)
  PROVE  PairOwn' /\ KeptOwn'
<1>0. /\ TypeOK /\ BoundInv /\ SeenInv /\ WireOwn(inbox)
      /\ Order(inbox, ready, connectedTo[Parent]) /\ ContentOwn /\ ParentOwn /\ AnswerOwn
      /\ inbox \in InboxType
      /\ transport \in [End -> 0..NActor] /\ seen \in [End -> 0..NActor]
      /\ cached \in [End -> [Id -> Call \cup {NoCall}]]
  BY TypeParts DEF OwnInv, PairOwn, PeerInv, KeptOwn, TypeOK
<1> DEFINE a == transport[e]
           id == r.call[2]
<1>1. /\ UNCHANGED <<hostOf, seen, transport, ready, connectedTo, answer, registered, paused,
                     timer, buffer, drain, disposed>>
      /\ running' = [running EXCEPT ![e] = @ \ {r}]
      /\ \/ /\ cached' = [cached EXCEPT ![e][id] = r.call]
            /\ inbox' = Post(inbox, e, a, <<Response(r.call)>>)
         \/ UNCHANGED <<cached, inbox>>
  BY DEF FinishHandler, linkVars, connVars, requestVars, bufferVars
<1>2. a \in 0..NActor /\ a \in {NoActor, seen[e]} /\ (a # NoActor /\ e # Parent => hostOf[a] = e)
  BY <1>0 DEF SeenInv, BoundInv
<1>3. r.call \in Call /\ id \in Id /\ r.call = <<r.call[1], id>>
  <2>1. r.call \in Call
    BY <1>0 DEF TypeOK, Run
  <2>2. QED BY <2>1, MessageTypes
<1>4. a # NoActor => r.call[1] = Peer(e, a)
  <2>1. CASE e = Parent
    BY <1>0, <2>1 DEF ParentOwn, Peer
  <2>2. CASE e # Parent
    BY <1>0, <2>2, EndKinds DEF ContentOwn, Peer
  <2>3. QED BY <2>1, <2>2
<1>5. <<Response(r.call)>> \in Seq(Message)
  BY <1>3, MessageTypes
<1>6. NoAck(<<Response(r.call)>>) /\ NoRequest(<<Response(r.call)>>)
  BY DEF NoAck, NoRequest, Response
<1>7. WireOwn(inbox')
  <2>1. CASE a = NoActor
    BY <1>0, <1>1, <2>1 DEF Post
  <2>2. CASE a # NoActor
    <3>1. Carried(<<Response(<<Peer(e, a), id>>)>>, e, Peer(e, a))
      BY FitSent
    <3>2. <<Peer(e, a), id>> = r.call
      BY <1>3, <1>4, <2>2
    <3>3. Carried(<<Response(r.call)>>, e, Peer(e, a))
      BY <3>1, <3>2
    <3>4. WireOwn(Post(inbox, e, a, <<Response(r.call)>>))
      BY <1>0, <1>2, <1>5, <3>3, OwnPost
    <3>5. QED BY <1>0, <1>1, <3>4
  <2>3. QED BY <2>1, <2>2
<1>8. Order(inbox', ready, connectedTo[Parent])
  <2>1. CASE inbox' = inbox
    BY <1>0, <2>1
  <2>2. CASE inbox' = Post(inbox, e, a, <<Response(r.call)>>) /\ e = Parent
    BY <1>0, <1>2, <1>5, <1>6, <2>2, OrderParentPost
  <2>3. CASE inbox' = Post(inbox, e, a, <<Response(r.call)>>) /\ e # Parent
    <3>1. e \in Instance
      BY <2>3, EndKinds
    <3>2. QED BY <1>0, <1>2, <1>5, <1>6, <2>3, <3>1, OrderContentPost
  <2>4. QED BY <1>1, <2>1, <2>2, <2>3
<1>9. Order(inbox, ready, connectedTo[Parent])' /\ WireOwn(inbox)' /\ SeenInv'
  BY <1>0, <1>1, <1>7, <1>8 DEF Order, Fresh, Trusted, WireOwn, SeenInv
<1>10. \A f \in End : running'[f] \subseteq running[f]
  BY <1>0, <1>1 DEF TypeOK
<1>11. \A f \in End, k \in Id :
         cached'[f][k] = cached[f][k] \/ (f = e /\ k = id /\ cached'[f][k] = r.call)
  BY <1>0, <1>1, <1>3
<1>12. ContentOwn'
  <2>1. ASSUME NEW i \in Instance, NEW k \in Id PROVE cached'[i][k] \in {NoCall, <<Parent, k>>}
    <3>1. i \in End /\ i # Parent /\ cached[i][k] \in {NoCall, <<Parent, k>>}
      BY <1>0, EndKinds DEF ContentOwn
    <3>2. e = i => r.call[1] = Parent
      BY <1>0, <3>1 DEF ContentOwn
    <3>3. QED BY <1>3, <1>11, <3>1, <3>2
  <2>2. QED BY <1>0, <1>1, <1>10, <2>1, EndKinds DEF ContentOwn
<1>13. ParentOwn'
  <2>1. ASSUME NEW k \in Id, cached'[Parent][k] # NoCall
        PROVE  /\ cached'[Parent][k][2] = k
               /\ UidOf[cached'[Parent][k][1]] = connectedTo[Parent]
    <3>1. CASE cached'[Parent][k] = cached[Parent][k]
      BY <1>0, <2>1, <3>1 DEF ParentOwn
    <3>2. CASE e = Parent /\ k = id /\ cached'[Parent][k] = r.call
      BY <1>0, <1>3, <3>2 DEF ParentOwn
    <3>3. QED BY <1>11, <3>1, <3>2, EndKinds
  <2>2. QED BY <1>0, <1>1, <1>10, <2>1, EndKinds DEF ParentOwn
<1>14. AnswerOwn'
  BY <1>0, <1>1 DEF AnswerOwn
<1>15. QED BY <1>9, <1>12, <1>13, <1>14 DEF PairOwn, KeptOwn

LEMMA OwnNext ==
  ASSUME DistinctUids, PromptParent, OwnInv, [Next]_vars
  PROVE  PairOwn' /\ KeptOwn'
<1>1. ASSUME NEW e \in End, Deliver(e) PROVE PairOwn' /\ KeptOwn'
  <2>1. CASE e = Parent
    BY <1>1, <2>1, OwnDeliverParent
  <2>2. CASE e \in Instance
    BY <1>1, <2>2, OwnDeliverContent
  <2>3. QED BY <2>1, <2>2, EndKinds
<1>2. CASE UNCHANGED vars
  BY <1>2, EndKinds, OwnHandlers
<1>3. CASE Next
  BY <1>1, <1>3, OwnCreate, OwnBind, OwnReset, OwnLose, OwnSend, OwnDispose, OwnHandlers,
     OwnDeliverBuffered, OwnFinish DEF Next
<1>4. QED BY <1>2, <1>3

\* Where every content end has a uid of its own and the parent's handlers are
\* there for good and settle in the task that started them, no retransmission,
\* kept response or replaced actor ever resolves a request with the response of
\* another one (_onMessageInternal).
THEOREM OwnAnswerTheorem ==
  ASSUME DistinctUids, PromptParent
  PROVE  Spec => []OwnAnswer
<1>1. Init => OwnInv
  BY OwnInit
<1>2. OwnInv /\ [Next]_vars => OwnInv'
  BY OwnNext, PeerNext DEF OwnInv
<1>3. OwnInv => OwnAnswer
  <2>1. \A c \in Call : c[1] \in End /\ c[2] \in Id /\ c = <<c[1], c[2]>>
    BY MessageTypes
  <2>2. QED BY <2>1 DEF OwnInv, KeptOwn, AnswerOwn, OwnAnswer, Answered
<1>4. QED BY <1>1, <1>2, <1>3, PTL DEF Spec

-----------------------------------------------------------------------------
(* The channel implements Rpc *)

LEMMA SoundGrows ==
  ASSUME NEW I, NEW J, NEW D, NEW F, I \subseteq J, D \subseteq F
  PROVE  /\ \A q : AllSound(q, I, D) => AllSound(q, J, F)
         /\ \A box : WireSound(box, I, D) => WireSound(box, J, F)
<1>1. \A q : AllSound(q, I, D) => AllSound(q, J, F)
  BY DEF AllSound, Sound
<1>2. QED BY <1>1 DEF WireSound

LEMMA SoundConcat ==
  ASSUME NEW q \in Seq(Message), NEW ms \in Seq(Message), NEW I, NEW D,
         AllSound(q, I, D), AllSound(ms, I, D)
  PROVE  AllSound(q \o ms, I, D)
BY DEF AllSound

LEMMA SoundPost ==
  ASSUME NEW box \in InboxType, NEW e \in End, NEW a \in 0..NActor,
         NEW ms \in Seq(Message), NEW I, NEW D,
         WireSound(box, I, D), AllSound(ms, I, D)
  PROVE  WireSound(Post(box, e, a, ms), I, D)
<1> DEFINE new == Post(box, e, a, ms)
<1>1. PICK t \in {"parent", "content"} : t = Other(e)
  BY EndKinds
<1>2. \/ new = box
      \/ /\ a \in Actor
         /\ new[a][t] = box[a][t] \o ms
         /\ \A b \in Actor, s \in {"parent", "content"} :
              b # a \/ s # t => new[b][s] = box[b][s]
  <2>1. \/ new = box
        \/ /\ a \in Actor
           /\ new[a][Other(e)] = box[a][Other(e)] \o ms
           /\ \A b \in Actor, s \in {"parent", "content"} :
                b # a \/ s # Other(e) => new[b][s] = box[b][s]
    BY PostFacts
  <2> HIDE DEF new
  <2>2. QED BY <1>1, <2>1
<1> HIDE DEF new
<1>3. CASE new = box
  BY <1>3 DEF new
<1>4. CASE new # box
  <2>1. box[a][t] \in Seq(Message) /\ AllSound(box[a][t], I, D)
    BY <1>2, <1>4 DEF InboxType, WireSound
  <2>2. AllSound(box[a][t] \o ms, I, D)
    BY <2>1, SoundConcat
  <2>3. \A b \in Actor, s \in {"parent", "content"} : AllSound(new[b][s], I, D)
    BY <1>2, <1>4, <2>2 DEF WireSound
  <2>4. QED BY <2>3 DEF WireSound, new
<1>5. QED BY <1>3, <1>4

LEMMA SoundForget ==
  ASSUME NEW box \in InboxType, NEW e \in End, NEW a, NEW I, NEW D, WireSound(box, I, D)
  PROVE  WireSound(Forget(box, e, a), I, D)
<1>1. AllSound(<<>>, I, D)
  BY DEF AllSound
<1>2. \A b \in Actor : \A t \in {"parent", "content"} :
        Forget(box, e, a)[b][t] = box[b][t] \/ Forget(box, e, a)[b][t] = <<>>
  BY ForgetFacts
<1>3. QED BY <1>1, <1>2 DEF WireSound

LEMMA SoundTail ==
  ASSUME NEW box \in InboxType, NEW a \in Actor, NEW side \in {"parent", "content"},
         NEW I, NEW D, box[a][side] # <<>>, WireSound(box, I, D)
  PROVE  /\ WireSound([box EXCEPT ![a][side] = Tail(@)], I, D)
         /\ Sound(Head(box[a][side]), I, D)
<1>1. box[a][side] \in Seq(Message) /\ AllSound(box[a][side], I, D)
  BY DEF InboxType, WireSound
<1>2. AllSound(Tail(box[a][side]), I, D) /\ Sound(Head(box[a][side]), I, D)
  BY <1>1 DEF AllSound
<1>3. \A b \in Actor, t \in {"parent", "content"} :
        [box EXCEPT ![a][side] = Tail(@)][b][t] =
          IF b = a /\ t = side THEN Tail(box[a][side]) ELSE box[b][t]
  BY DEF InboxType
<1>4. \A b \in Actor, t \in {"parent", "content"} :
        AllSound([box EXCEPT ![a][side] = Tail(@)][b][t], I, D)
  BY <1>2, <1>3 DEF WireSound
<1>5. QED BY <1>2, <1>4 DEF WireSound

LEMMA SoundSent ==
  ASSUME NEW I, NEW D, NEW e \in End
  PROVE  /\ \A s : (\A k \in DOMAIN s : <<e, s[k]>> \in I) => AllSound(Requests(e, s), I, D)
         /\ AllSound(<<ReadyAck(e)>>, I, D) /\ AllSound(<<Ready(e)>>, I, D) /\ AllSound(<<>>, I, D)
         /\ \A id : AllSound(<<ResponseAck(id)>>, I, D)
         /\ \A c : c \in D => AllSound(<<Response(c)>>, I, D)
         /\ \A c : c \in I => AllSound(<<Request(c)>>, I, D)
<1>1. ASSUME NEW s, \A k \in DOMAIN s : <<e, s[k]>> \in I PROVE AllSound(Requests(e, s), I, D)
  <2>1. DOMAIN Requests(e, s) = DOMAIN s
    BY DEF Requests
  <2>2. \A k \in DOMAIN s : Requests(e, s)[k] = Request(<<e, s[k]>>)
    BY DEF Requests
  <2>3. \A c \in I : Sound(Request(c), I, D)
    BY DEF Sound, Request
  <2>4. \A k \in DOMAIN s : Sound(Requests(e, s)[k], I, D)
    BY <1>1, <2>2, <2>3, Zenon
  <2>5. QED BY <2>1, <2>4 DEF AllSound
<1>2. \A msg : Sound(msg, I, D) => AllSound(<<msg>>, I, D)
  BY DEF AllSound
<1>3. /\ Sound(ReadyAck(e), I, D) /\ Sound(Ready(e), I, D)
      /\ \A id : Sound(ResponseAck(id), I, D)
      /\ \A c \in D : Sound(Response(c), I, D)
      /\ \A c \in I : Sound(Request(c), I, D)
  BY DEF Sound, ReadyAck, Ready, ResponseAck, Response, Request
<1>4. AllSound(<<>>, I, D)
  BY DEF AllSound
<1>5. QED BY <1>1, <1>2, <1>3, <1>4

LEMMA SentForward ==
  ASSUME sent \in [End -> 0..MaxId], sent' \in [End -> 0..MaxId],
         \A e \in End : sent[e] <= sent'[e],
         \A e \in End, c \in Call : execs[e][c] > 0 => execs'[e][c] > 0
  PROVE  Forward
<1>1. ASSUME NEW c \in Call, c[2] <= sent[c[1]] PROVE c[2] <= sent'[c[1]]
  <2>1. c[1] \in End /\ c[2] \in Nat
    BY MessageTypes DEF Id
  <2>2. sent[c[1]] \in Nat /\ sent'[c[1]] \in Nat /\ sent[c[1]] <= sent'[c[1]]
    BY <2>1, ConstantTypes
  <2>3. QED BY <1>1, <2>1, <2>2
<1>2. issued \subseteq issued'
  BY <1>1 DEF issued
<1>3. done \subseteq done'
  BY <1>2 DEF done, callsRun
<1>4. QED BY <1>2, <1>3 DEF Forward

\* What an end sends and keeps of a sound message.
LEMMA SoundOnMessage ==
  ASSUME TypeOK, SoundInv, NEW e \in End, NEW m \in Message, NEW box \in InboxType,
         WireSound(box, issued, done), Sound(m, issued, done), OnMessage(e, m, box)
  PROVE  /\ WireSound(inbox', issued, done)
         /\ AllSound(buffer'[e], issued, done)
         /\ \A id \in Id : cached'[e][id] # NoCall => cached'[e][id] \in done
         /\ \A r \in running'[e] : r \in running[e] \/ (execs'[e][r.call] > 0 /\ r.call \in issued)
<1> DEFINE I == issued
           D == done
<1>0. /\ transport[e] \in 0..NActor
      /\ \A id \in Id : cached[e][id] # NoCall => cached[e][id] \in D
      /\ AllSound(buffer[e], I, D)
      /\ buffer[e] \in Seq(Payload)
  BY DEF TypeOK, SoundInv, KeptSound
<1>1. \A ms \in Seq(Message) : AllSound(ms, I, D) => WireSound(Post(box, e, transport[e], ms), I, D)
  BY <1>0, SoundPost
<1>2. AllSound(Append(buffer[e], m), I, D)
  BY <1>0 DEF AllSound
<1>3. CASE OnHandshake(e, m, box)
  <2>1. PICK before \in Seq(Message) :
          MarkAsReady(e, box, before) /\ AllSound(before, I, D)
    <3> DEFINE ms == IF m.type = "READY" THEN <<ReadyAck(e)>> ELSE <<>>
    <3>1. ms \in Seq(Message)
      BY MessageTypes
    <3>2. AllSound(ms, I, D)
      BY SoundSent
    <3>3. QED BY <1>3, <3>1, <3>2 DEF OnHandshake
  <2>2. WireSound(inbox', I, D)
    <3>1. CASE ready[e]
      BY <1>1, <2>1, <3>1 DEF MarkAsReady
    <3>2. CASE ~ready[e]
      <4>1. PICK s \in Ascending(pending[e]) :
              inbox' = Post(box, e, transport[e], before \o Requests(e, s))
        BY <2>1, <3>2 DEF MarkAsReady
      <4>2. Requests(e, s) \in Seq(Message)
        BY RequestsType DEF TypeOK
      <4>3. \A k \in DOMAIN s : <<e, s[k]>> \in I
        <5>1. \A k \in DOMAIN s : s[k] \in pending[e]
          BY DEF Ascending
        <5>2. ASSUME NEW id \in pending[e] PROVE <<e, id>> \in I
          <6>1. id \in Id /\ id <= MaxRequest[e]
            BY ConstantTypes DEF TypeOK
          <6>2. id <= sent[e]
            BY <6>1 DEF SoundInv, AskedInv
          <6>3. <<e, id>> \in Call
            BY <6>1, MessageTypes
          <6>4. QED BY <6>2, <6>3 DEF issued
        <5>3. QED BY <5>1, <5>2
      <4>4. AllSound(Requests(e, s), I, D)
        BY <4>3, SoundSent
      <4>5. before \o Requests(e, s) \in Seq(Message)
        BY <4>2
      <4>6. AllSound(before \o Requests(e, s), I, D)
        BY <2>1, <4>2, <4>4, SoundConcat
      <4>7. QED BY <1>1, <4>1, <4>5, <4>6
    <3>3. QED BY <3>1, <3>2
  <2>3. /\ buffer' = buffer /\ running' = running
        /\ \A id \in Id : cached'[e][id] \in {cached[e][id], NoCall}
    BY <1>3 DEF OnHandshake, TypeOK
  <2>4. QED BY <1>0, <2>2, <2>3
<1>4. CASE OnResponseAck(e, m, box)
  <2>1. m.id \in Id
    BY <1>4 DEF OnResponseAck, Message, Handshake, Payload
  <2>2. /\ buffer' = buffer /\ running' = running /\ inbox' = box
        /\ \A id \in Id : cached'[e][id] \in {cached[e][id], NoCall}
    BY <1>4, <2>1 DEF OnResponseAck, TypeOK
  <2>3. QED BY <1>0, <2>2
<1>5. CASE buffer' = [buffer EXCEPT ![e] = Append(@, m)] /\ inbox' = box /\ UNCHANGED serverVars
  BY <1>0, <1>2, <1>5 DEF serverVars, TypeOK
<1>6. CASE OnResponse(e, m, box)
  <2>1. m.id \in Id
    BY <1>6 DEF OnResponse, Message, Handshake, Payload
  <2>2. <<ResponseAck(m.id)>> \in Seq(Message)
    BY <2>1, MessageTypes
  <2>3. AllSound(<<ResponseAck(m.id)>>, I, D)
    BY SoundSent
  <2>4. UNCHANGED <<buffer, cached, running>>
    BY <1>6 DEF OnResponse, serverVars
  <2>5. QED BY <1>0, <1>1, <1>6, <2>2, <2>3, <2>4 DEF OnResponse
<1>7. CASE OnRequest(e, m, box)
  <2>1. m.call \in Call /\ m.call \in issued
    BY <1>7 DEF OnRequest, Message, Handshake, Payload, Sound
  <2>2. m.call[2] \in Id
    BY <2>1, MessageTypes
  <2>3. cached' = cached
    BY <1>7 DEF OnRequest
  <2>4. WireSound(inbox', I, D)
    <3>1. \A c \in Call : c \in D => WireSound(Post(box, e, transport[e], <<Response(c)>>), I, D)
      <4>1. \A c \in Call : <<Response(c)>> \in Seq(Message)
        BY MessageTypes
      <4>2. \A c : c \in D => AllSound(<<Response(c)>>, I, D)
        BY SoundSent
      <4>3. QED BY <1>1, <4>1, <4>2
    <3>2. cached[e][m.call[2]] # NoCall => cached[e][m.call[2]] \in Call /\ cached[e][m.call[2]] \in D
      BY <1>0, <2>2 DEF TypeOK
    <3>3. m.call \in NoMethod => m.call \in D
      BY <2>1 DEF done
    <3>4. QED BY <1>7, <2>1, <3>1, <3>2, <3>3 DEF OnRequest
  <2>5. AllSound(buffer'[e], I, D)
    <3>1. buffer' = buffer \/ buffer' = [buffer EXCEPT ![e] = Append(@, m)]
      BY <1>7 DEF OnRequest
    <3>2. QED BY <1>0, <1>2, <3>1 DEF TypeOK
  <2>6. ASSUME NEW r \in running'[e], r \notin running[e]
        PROVE  execs'[e][r.call] > 0 /\ r.call \in issued
    <3>1. /\ running' = [running EXCEPT ![e] = @ \cup
               {[call |-> m.call, uid |-> connectedTo[e], n |-> execs[e][m.call]]}]
          /\ execs' = [execs EXCEPT ![e][m.call] = @ + 1]
      BY <1>7, <2>6 DEF OnRequest
    <3>2. r.call = m.call
      BY <2>6, <3>1 DEF TypeOK
    <3>3. execs[e][m.call] \in Nat /\ execs'[e][m.call] = execs[e][m.call] + 1
      BY <2>1, <3>1 DEF TypeOK
    <3>4. QED BY <2>1, <3>2, <3>3
  <2>7. QED BY <1>0, <2>3, <2>4, <2>5, <2>6
<1>8. QED BY <1>3, <1>4, <1>5, <1>6, <1>7 DEF OnMessage

LEMMA CallsAreCalls ==
  \A c \in Call : /\ c # NoCall /\ c[1] \in End /\ c[2] \in Id /\ c = <<c[1], c[2]>>
                  /\ c[2] \in Nat /\ c[2] # 0
<1>1. \A c \in Call : c[1] \in End /\ c[2] \in Id /\ c = <<c[1], c[2]>>
  BY MessageTypes
<1>2. \A id \in Id : id \in Nat /\ id # 0
  BY DEF Id
<1>3. \A c \in Call : c # NoCall
  BY <1>1, <1>2 DEF NoCall
<1>4. QED BY <1>1, <1>2, <1>3

LEMMA StatusAt ==
  /\ DOMAIN callStatus = Call
  /\ callStatus = [c \in Call |-> callStatus[c]]
  /\ \A c \in Call :
       /\ c[2] > sent[c[1]] => callStatus[c] = "idle"
       /\ ~(c[2] > sent[c[1]]) /\ c[2] \in pending[c[1]] => callStatus[c] = "waiting"
       /\ ~(c[2] > sent[c[1]]) /\ c[2] \notin pending[c[1]] /\ answer[c[1]][c[2]] = NoCall
            => callStatus[c] = "rejected"
       /\ ~(c[2] > sent[c[1]]) /\ c[2] \notin pending[c[1]] /\ answer[c[1]][c[2]] = c
            => callStatus[c] = "answered"
BY CallsAreCalls DEF callStatus, Answered

LEMMA StatusKept ==
  ASSUME NEW c \in Call, sent'[c[1]] = sent[c[1]],
         c[2] \in pending'[c[1]] <=> c[2] \in pending[c[1]],
         answer'[c[1]][c[2]] = answer[c[1]][c[2]]
  PROVE  callStatus'[c] = callStatus[c]
BY DEF callStatus, Answered

LEMMA QuietCalls ==
  ASSUME UNCHANGED <<sent, pending, answer, execs>>
  PROVE  RpcStep /\ (AskedInv => AskedInv') /\ issued' = issued /\ done' = done
<1>1. callStatus' = callStatus /\ callsRun' = callsRun
  BY DEF callStatus, callsRun, Answered
<1>2. issued' = issued /\ done' = done
  BY <1>1 DEF issued, done
<1>3. AskedInv => AskedInv'
  BY <1>2 DEF AskedInv
<1>4. QED BY <1>1, <1>2, <1>3 DEF RpcStep

LEMMA SoundInit == Init => SoundInv /\ Calls!Init
<1> SUFFICES ASSUME Init PROVE SoundInv /\ Calls!Init
  OBVIOUS
<1>1. \A I, D : AllSound(<<>>, I, D)
  BY DEF AllSound
<1>2. WireSound(inbox, issued, done)
  BY <1>1 DEF Init, WireSound
<1>3. KeptSound
  BY <1>1 DEF Init, KeptSound
<1>4. AskedInv
  BY DEF Init, AskedInv
<1>5. callStatus = [c \in Call |-> "idle"]
  <2>1. \A c \in Call : c[2] > sent[c[1]]
    BY CallsAreCalls DEF Init
  <2>2. \A c \in Call : callStatus[c] = "idle"
    BY <2>1, StatusAt
  <2>3. QED BY <2>2, StatusAt
<1>6. callsRun = {}
  BY DEF Init, callsRun
<1>7. QED BY <1>2, <1>3, <1>4, <1>5, <1>6 DEF SoundInv, Calls!Init

\* Steps that make, answer or run no call.
LEMMA SoundQuiet ==
  ASSUME OwnInv, SoundInv, NEW e \in End,
         \/ \E i \in Instance : CreateActor(i)
         \/ \E a \in Actor : BindToActor(e, a) \/ LoseMessage(a)
         \/ ResetTransport(e)
         \/ Register(e) \/ Unregister(e)
         \/ Pause(e) \/ ResumeSoon(e) \/ ResumeTimer(e)
         \/ \E r \in running[e] : FinishHandler(e, r)
         \/ UNCHANGED vars
  PROVE  SoundInv' /\ RpcStep
<1>0. /\ TypeOK /\ inbox \in InboxType
      /\ WireSound(inbox, issued, done) /\ KeptSound /\ AskedInv
  BY TypeParts DEF OwnInv, PeerInv, SoundInv
<1>1. UNCHANGED <<sent, pending, answer, execs>>
  BY DEF CreateActor, BindToActor, LoseMessage, ResetTransport, Register, Unregister, Pause,
         ResumeSoon, ResumeTimer, FinishHandler, vars, requestVars, serverVars
<1>2. RpcStep /\ AskedInv' /\ issued' = issued /\ done' = done
  BY <1>0, <1>1, QuietCalls
<1> DEFINE I == issued
           D == done
<1>3. WireSound(inbox', I, D)
  <2>1. CASE inbox' = inbox
    BY <1>0, <2>1
  <2>2. ASSUME NEW a \in Actor, BindToActor(e, a) PROVE WireSound(inbox', I, D)
    <3>1. Forget(inbox, e, a) \in InboxType /\ WireSound(Forget(inbox, e, a), I, D)
      BY <1>0, ForgetType, SoundForget
    <3>2. Ready(e) \in Message
      BY MessageTypes
    <3>3. AllSound(<<Ready(e)>>, I, D)
      BY SoundSent
    <3>4. a \in 0..NActor /\ <<Ready(e)>> \in Seq(Message)
      BY <3>2, ConstantTypes DEF Actor
    <3>5. QED BY <2>2, <3>1, <3>3, <3>4, SoundPost DEF BindToActor
  <2>3. ASSUME NEW a \in Actor, LoseMessage(a) PROVE WireSound(inbox', I, D)
    BY <1>0, <2>3, SoundTail DEF LoseMessage
  <2>4. CASE ResetTransport(e)
    BY <1>0, <2>4, SoundForget DEF ResetTransport
  <2>5. ASSUME NEW r \in running[e], FinishHandler(e, r) PROVE WireSound(inbox', I, D)
    <3>1. r.call \in Call /\ r.call \in D
      BY <1>0 DEF TypeOK, Run, KeptSound
    <3>2. Response(r.call) \in Message
      BY <3>1, MessageTypes
    <3>3. AllSound(<<Response(r.call)>>, I, D)
      BY <3>1, SoundSent
    <3>4. transport[e] \in 0..NActor /\ <<Response(r.call)>> \in Seq(Message)
      BY <1>0, <3>2 DEF TypeOK
    <3>5. WireSound(Post(inbox, e, transport[e], <<Response(r.call)>>), I, D)
      BY <1>0, <3>3, <3>4, SoundPost
    <3>6. QED BY <1>0, <2>5, <3>5 DEF FinishHandler
  <2>6. QED
    BY <2>1, <2>2, <2>3, <2>4, <2>5
       DEF CreateActor, Register, Unregister, Pause, ResumeSoon, ResumeTimer, vars
<1>4. \A f \in End : /\ buffer'[f] \in {buffer[f], <<>>}
                     /\ drain'[f] \in {drain[f], buffer[f]}
  <2>1. buffer \in [End -> Seq(Payload)] /\ drain \in [End -> Seq(Payload)]
    BY <1>0 DEF TypeOK
  <2>2. CASE UNCHANGED <<buffer, drain>>
    BY <2>2
  <2>3. CASE Register(e) \/ ResumeTimer(e)
    BY <2>1, <2>3 DEF Register, ResumeTimer
  <2>4. QED
    BY <2>2, <2>3 DEF CreateActor, BindToActor, LoseMessage, ResetTransport, Unregister, Pause,
       ResumeSoon, FinishHandler, vars, bufferVars
<1>5. ASSUME NEW f \in End
      PROVE  /\ running'[f] \subseteq running[f]
             /\ \A k \in Id : cached'[f][k] = cached[f][k] \/ cached'[f][k] \in D
  <2>1. CASE UNCHANGED <<cached, running>>
    BY <2>1
  <2>2. ASSUME NEW r \in running[e], FinishHandler(e, r)
        PROVE  /\ running'[f] \subseteq running[f]
               /\ \A k \in Id : cached'[f][k] = cached[f][k] \/ cached'[f][k] \in D
    <3>1. r.call \in Call /\ r.call \in D /\ r.call[2] \in Id
      BY <1>0, MessageTypes DEF TypeOK, Run, KeptSound
    <3>2. /\ running' = [running EXCEPT ![e] = @ \ {r}]
          /\ cached' = cached \/ cached' = [cached EXCEPT ![e][r.call[2]] = r.call]
          /\ cached \in [End -> [Id -> Call \cup {NoCall}]] /\ running \in [End -> SUBSET Run]
      BY <1>0, <2>2 DEF FinishHandler, TypeOK
    <3>3. PICK c \in Call : c = r.call /\ c \in D /\ c[2] \in Id
      BY <3>1
    <3>4. CASE cached' = [cached EXCEPT ![e][c[2]] = c]
      BY <3>2, <3>3, <3>4
    <3>5. QED BY <3>2, <3>3, <3>4
  <2>3. QED
    BY <2>1, <2>2 DEF CreateActor, BindToActor, LoseMessage, ResetTransport, Register,
       Unregister, Pause, ResumeSoon, ResumeTimer, vars, serverVars
<1>6. KeptSound'
  <2>1. AllSound(<<>>, I, D)
    BY DEF AllSound
  <2>2. \A f \in End : AllSound(buffer'[f], I, D) /\ AllSound(drain'[f], I, D)
    BY <1>0, <1>4, <2>1 DEF KeptSound
  <2>3. \A f \in End : /\ \A id \in Id : cached'[f][id] # NoCall => cached'[f][id] \in D
                       /\ \A r \in running'[f] : r.call \in D
    BY <1>0, <1>5 DEF KeptSound
  <2>4. QED BY <1>2, <2>2, <2>3 DEF KeptSound
<1>7. QED BY <1>2, <1>3, <1>6 DEF SoundInv

LEMMA SoundSend ==
  ASSUME OwnInv, SoundInv, NEW e \in End, Send(e)
  PROVE  SoundInv' /\ RpcStep
<1>0. /\ TypeOK /\ inbox \in InboxType
      /\ WireSound(inbox, issued, done) /\ KeptSound /\ AskedInv
      /\ sent \in [End -> 0..MaxId] /\ pending \in [End -> SUBSET Id] /\ transport[e] \in 0..NActor
      /\ \A f \in End : pending[f] \subseteq 1..MaxRequest[f]
  BY TypeParts DEF OwnInv, PeerInv, SoundInv, TypeOK
<1> DEFINE id == sent[e] + 1
           c == <<e, id>>
<1>1. /\ sent' = [sent EXCEPT ![e] = id] /\ pending' = [pending EXCEPT ![e] = @ \cup {id}]
      /\ inbox' \in {Post(inbox, e, transport[e], <<Request(c)>>), inbox}
      /\ UNCHANGED <<answer, execs, cached, running, buffer, drain>>
  BY DEF Send, bufferVars, serverVars
<1>2. id \in Id /\ id <= MaxRequest[e] /\ id \in 0..MaxId /\ sent[e] \in Nat /\ sent[e] < id
  BY <1>0, ConstantTypes DEF Send, Id
<1>3. c \in Call
  BY <1>2, MessageTypes
<1>4. \A f \in End : sent[f] <= sent'[f] /\ (f # e => sent'[f] = sent[f]) /\ sent'[e] = id
  BY <1>0, <1>1, <1>2, ConstantTypes
<1>5. sent' \in [End -> 0..MaxId]
  BY <1>0, <1>1, <1>2
<1> HIDE DEF id
<1>6. Forward
  BY <1>0, <1>1, <1>4, <1>5, SentForward
<1>7. c \in issued'
  BY <1>2, <1>3, <1>4 DEF issued, Id
<1>8. WireSound(inbox, issued, done)'
  <2>1. WireSound(inbox, issued', done')
    BY <1>0, <1>6, SoundGrows DEF Forward
  <2>2. <<Request(c)>> \in Seq(Message)
    BY <1>3, MessageTypes
  <2>3. AllSound(<<Request(c)>>, issued', done')
    BY <1>7, SoundSent
  <2>4. WireSound(Post(inbox, e, transport[e], <<Request(c)>>), issued', done')
    BY <1>0, <2>1, <2>2, <2>3, SoundPost
  <2>5. QED BY <1>1, <2>1, <2>4
<1>9. KeptSound'
  <2>1. \A q : AllSound(q, issued, done) => AllSound(q, issued', done')
    BY <1>6, SoundGrows DEF Forward
  <2>2. QED BY <1>0, <1>1, <1>6, <2>1 DEF KeptSound, Forward
<1>10. answer[e][id] = NoCall /\ id \notin pending[e]
  <2>1. ~(id <= sent[e])
    BY <1>2
  <2>2. QED BY <1>0, <1>2, <2>1 DEF AskedInv
<1>11. AskedInv'
  <2> SUFFICES ASSUME NEW f \in End, NEW k \in Id
               PROVE  /\ k \in pending'[f] => k <= sent'[f] /\ answer[f][k] = NoCall
                      /\ answer[f][k] # NoCall => k <= sent'[f] /\ <<f, k>> \in done'
    BY <1>1 DEF AskedInv
  <2>1. /\ k \in pending[f] => k <= sent[f] /\ answer[f][k] = NoCall
        /\ answer[f][k] # NoCall => k <= sent[f] /\ <<f, k>> \in done
    BY <1>0 DEF AskedInv
  <2>2. k <= sent[f] => k <= sent'[f]
    <3>1. sent[f] \in Nat /\ sent'[f] \in Nat /\ sent[f] <= sent'[f] /\ k \in Nat
      BY <1>0, <1>4, <1>5, ConstantTypes DEF Id
    <3>2. QED BY <3>1
  <2>3. k \in pending'[f] => k \in pending[f] \/ (f = e /\ k = id)
    BY <1>0, <1>1
  <2>4. id <= sent'[e]
    BY <1>2, <1>4
  <2>5. QED BY <1>6, <1>10, <2>1, <2>2, <2>3, <2>4 DEF Forward
<1>12. Calls!Issue(c)
  <2>1. c[1] = e /\ c[2] = id
    OBVIOUS
  <2>2. callStatus[c] = "idle"
    BY <1>2, <1>3, <2>1, StatusAt
  <2>3. callStatus'[c] = "waiting"
    <3>1. ~(id > sent'[e]) /\ id \in pending'[e]
      BY <1>0, <1>1, <1>2, <1>4
    <3>2. QED BY <1>3, <2>1, <3>1, StatusAt DEF callStatus
  <2>4. ASSUME NEW x \in Call, x # c PROVE callStatus'[x] = callStatus[x]
    <3>1. x[1] \in End /\ x[2] \in Id /\ x = <<x[1], x[2]>>
      BY CallsAreCalls
    <3>2. CASE x[1] # e
      BY <1>0, <1>1, <1>4, <3>1, <3>2, StatusKept
    <3>3. CASE x[1] = e
      <4>1. x[2] # id
        BY <2>4, <3>1, <3>3
      <4>2. (x[2] > sent'[e]) = (x[2] > sent[e])
        <5>1. x[2] \in Nat /\ sent'[e] = sent[e] + 1
          BY <1>4, <3>1 DEF Id, id
        <5>2. x[2] # sent[e] + 1
          BY <4>1 DEF id
        <5>3. QED BY <1>2, <5>1, <5>2
      <4>3. (x[2] \in pending'[e]) = (x[2] \in pending[e])
        BY <1>0, <1>1, <4>1
      <4>4. QED BY <1>1, <3>3, <4>2, <4>3 DEF callStatus, Answered
    <3>4. QED BY <3>2, <3>3
  <2>5. callStatus' = [callStatus EXCEPT ![c] = "waiting"]
    <3>1. DOMAIN callStatus = Call /\ DOMAIN callStatus' = Call
      BY DEF callStatus
    <3>2. callStatus' = [x \in Call |-> callStatus'[x]]
      BY DEF callStatus
    <3>3. callStatus = [x \in Call |-> callStatus[x]]
      BY DEF callStatus
    <3>4. QED BY <1>3, <2>3, <2>4, <3>1, <3>2, <3>3
  <2>6. callsRun' = callsRun
    BY <1>1 DEF callsRun
  <2>7. QED BY <2>2, <2>5, <2>6 DEF Calls!Issue
<1>13. RpcStep
  BY <1>3, <1>12 DEF RpcStep, Calls!Next
<1>14. QED BY <1>8, <1>9, <1>11, <1>13 DEF SoundInv

\* Calls that are given up together: a connector's, or all of a disposed end's.
LEMMA SoundReject ==
  ASSUME OwnInv, SoundInv, NEW e \in End, NEW S, S \subseteq pending[e],
         pending' = [pending EXCEPT ![e] = @ \ S],
         inbox' = inbox \/ inbox' = Forget(inbox, e, NActor + 1),
         UNCHANGED <<sent, answer, execs, cached, running, buffer, drain>>
  PROVE  SoundInv' /\ RpcStep
<1>0. /\ TypeOK /\ inbox \in InboxType
      /\ WireSound(inbox, issued, done) /\ KeptSound /\ AskedInv /\ AnswerOwn
      /\ sent \in [End -> 0..MaxId] /\ pending \in [End -> SUBSET Id]
      /\ \A f \in End : pending[f] \subseteq 1..MaxRequest[f]
  BY TypeParts DEF OwnInv, PeerInv, SoundInv, TypeOK, KeptOwn
<1>1. callsRun' = callsRun
  BY DEF callsRun
<1>2. issued' = issued /\ done' = done
  BY <1>1 DEF issued, done
<1>3. WireSound(inbox, issued, done)'
  BY <1>0, <1>2, SoundForget
<1>4. KeptSound'
  BY <1>0, <1>2 DEF KeptSound
<1>5. /\ \A f \in End : pending'[f] \subseteq pending[f]
      /\ pending'[e] = pending[e] \ S
      /\ \A f \in End : f # e => pending'[f] = pending[f]
  BY <1>0
<1>6. AskedInv'
  BY <1>0, <1>2, <1>5 DEF AskedInv
<1> DEFINE C == {c \in Call : c[1] = e /\ c[2] \in S}
<1>7. CASE C = {}
  <2>1. \A c \in Call : c[2] \in pending'[c[1]] <=> c[2] \in pending[c[1]]
    BY <1>5, <1>7, CallsAreCalls
  <2>2. \A c \in Call : callStatus'[c] = callStatus[c]
    BY <2>1, StatusKept
  <2>3. callStatus' = callStatus
    BY <2>1 DEF callStatus, Answered
  <2>4. QED BY <1>1, <1>3, <1>4, <1>6, <2>3 DEF SoundInv, RpcStep
<1>8. CASE C # {}
  <2>1. ASSUME NEW c \in C
        PROVE  callStatus[c] = "waiting" /\ callStatus'[c] = "rejected"
    <3>1. c \in Call /\ c[1] = e /\ c[2] \in pending[e] /\ c[2] \in Id /\ c[2] \notin pending'[e]
      BY <1>5, CallsAreCalls
    <3>2. c[2] <= sent[e] /\ answer[e][c[2]] = NoCall
      BY <1>0, <3>1 DEF AskedInv
    <3>3. ~(c[2] > sent[e])
      BY <1>0, <3>1, <3>2, ConstantTypes DEF Id
    <3>4. callStatus[c] = "waiting"
      BY <3>1, <3>3, StatusAt
    <3>5. callStatus'[c] = "rejected"
      BY <3>1, <3>2, <3>3 DEF callStatus, Answered
    <3>6. QED BY <3>4, <3>5
  <2>2. ASSUME NEW c \in Call, c \notin C PROVE callStatus'[c] = callStatus[c]
    <3>1. c[2] \in pending'[c[1]] <=> c[2] \in pending[c[1]]
      BY <1>5, <2>2, CallsAreCalls
    <3>2. QED BY <3>1, StatusKept
  <2>3. callStatus' = [c \in Call |-> IF c \in C THEN "rejected" ELSE callStatus[c]]
    <3>1. \A c \in Call : callStatus'[c] = IF c \in C THEN "rejected" ELSE callStatus[c]
      BY <2>1, <2>2
    <3>2. callStatus' = [c \in Call |-> callStatus'[c]]
      BY DEF callStatus
    <3> HIDE DEF C
    <3>3. QED BY <3>1, <3>2
  <2>4. C \in SUBSET Call
    OBVIOUS
  <2> HIDE DEF C
  <2>5. Calls!Reject(C)
    BY <1>1, <1>8, <2>1, <2>3 DEF Calls!Reject
  <2>6. RpcStep
    BY <2>4, <2>5 DEF RpcStep, Calls!Next
  <2>7. QED BY <1>3, <1>4, <1>6, <2>6 DEF SoundInv
<1>9. QED BY <1>7, <1>8

\* An answer settles the call it belongs to.
LEMMA SoundAnswer ==
  ASSUME OwnInv, SoundInv, NEW e \in End, NEW id \in pending[e], NEW of,
         of \in Call, of \in done, answer'[e][id] \in {NoCall, <<e, id>>},
         pending' = [pending EXCEPT ![e] = @ \ {id}],
         answer' = [answer EXCEPT ![e][id] = of],
         UNCHANGED <<sent, execs>>
  PROVE  AskedInv' /\ RpcStep
<1>0. /\ TypeOK /\ AskedInv
      /\ sent \in [End -> 0..MaxId] /\ pending \in [End -> SUBSET Id]
      /\ answer \in [End -> [Id -> Call \cup {NoCall}]]
      /\ \A f \in End : pending[f] \subseteq 1..MaxRequest[f]
  BY DEF OwnInv, PeerInv, SoundInv, TypeOK
<1>1. callsRun' = callsRun
  BY DEF callsRun
<1>2. issued' = issued /\ done' = done
  BY <1>1 DEF issued, done
<1>3. id \in Id /\ id <= sent[e] /\ ~(id > sent[e])
  <2>1. id \in Id /\ id <= sent[e]
    BY <1>0 DEF AskedInv
  <2>2. id \in Nat /\ sent[e] \in Nat
    BY <1>0, <2>1, ConstantTypes DEF Id
  <2>3. QED BY <2>1, <2>2
<1>4. answer'[e][id] = of /\ of # NoCall
  BY <1>0, <1>3, CallsAreCalls
<1> DEFINE c == <<e, id>>
<1>5. c = of /\ c \in Call /\ c \in done /\ c[1] = e /\ c[2] = id
  BY <1>4
<1>6. \A f \in End, k \in Id :
        f # e \/ k # id => /\ answer'[f][k] = answer[f][k]
                           /\ k \in pending'[f] <=> k \in pending[f]
  BY <1>0, <1>3
<1>7. id \notin pending'[e]
  BY <1>0
<1>8. AskedInv'
  <2> SUFFICES ASSUME NEW f \in End, NEW k \in Id
               PROVE  /\ k \in pending'[f] => k <= sent[f] /\ answer'[f][k] = NoCall
                      /\ answer'[f][k] # NoCall => k <= sent[f] /\ <<f, k>> \in done
    BY <1>2 DEF AskedInv
  <2>1. CASE f = e /\ k = id
    BY <1>3, <1>5, <1>7, <2>1
  <2>2. CASE f # e \/ k # id
    BY <1>0, <1>6, <2>2 DEF AskedInv
  <2>3. QED BY <2>1, <2>2
<1>9. callStatus[c] = "waiting" /\ callStatus'[c] = "answered"
  <2>1. callStatus[c] = "waiting"
    BY <1>3, <1>5, StatusAt
  <2>2. callStatus'[c] = "answered"
    BY <1>3, <1>4, <1>5, <1>7 DEF callStatus, Answered
  <2>3. QED BY <2>1, <2>2
<1>10. ASSUME NEW x \in Call, x # c PROVE callStatus'[x] = callStatus[x]
  <2>1. x[1] \in End /\ x[2] \in Id /\ (x[1] # e \/ x[2] # id)
    BY <1>10, CallsAreCalls
  <2>2. QED BY <1>6, <2>1, StatusKept
<1>11. callStatus' = [callStatus EXCEPT ![c] = "answered"]
  <2>1. callStatus' = [x \in Call |-> callStatus'[x]]
    BY DEF callStatus
  <2>2. callStatus = [x \in Call |-> callStatus[x]]
    BY DEF callStatus
  <2> HIDE DEF c
  <2>3. QED BY <1>5, <1>9, <1>10, <2>1, <2>2
<1> HIDE DEF c
<1>12. Calls!Answer(c)
  BY <1>1, <1>5, <1>9, <1>11 DEF Calls!Answer, done
<1>13. RpcStep
  BY <1>5, <1>12 DEF RpcStep, Calls!Next
<1>14. QED BY <1>8, <1>13

\* A handler is only started for a call that was made and has no answer.
LEMMA SoundRun ==
  ASSUME OwnInv, SoundInv, NEW e \in End, NEW c \in Call, c \in issued, c \notin NoMethod,
         execs' = [execs EXCEPT ![e][c] = @ + 1],
         UNCHANGED <<sent, pending, answer>>
  PROVE  AskedInv' /\ RpcStep
<1>0. /\ TypeOK /\ AskedInv /\ AnswerOwn /\ execs \in [End -> [Call -> Nat]]
      /\ sent \in [End -> 0..MaxId]
  BY DEF OwnInv, PeerInv, SoundInv, TypeOK, KeptOwn
<1>1. callStatus' = callStatus
  BY DEF callStatus, Answered
<1>2. callsRun' = callsRun \cup {c}
  <2>1. \A f \in End, d \in Call :
          execs'[f][d] = IF f = e /\ d = c THEN execs[f][d] + 1 ELSE execs[f][d]
    BY <1>0
  <2>2. execs[e][c] \in Nat
    BY <1>0
  <2>3. execs'[e][c] > 0
    BY <2>1, <2>2
  <2>4. \A f \in End, d \in Call : d # c => execs'[f][d] = execs[f][d]
    BY <2>1
  <2>5. c \in callsRun'
    BY <2>3 DEF callsRun
  <2>6. \A d \in Call : d # c => (d \in callsRun' <=> d \in callsRun)
    BY <2>4 DEF callsRun
  <2>7. callsRun \subseteq Call /\ callsRun' \subseteq Call
    BY DEF callsRun
  <2>8. QED BY <2>5, <2>6, <2>7
<1>3. issued' = issued /\ done \subseteq done'
  BY <1>2 DEF issued, done
<1>4. AskedInv'
  BY <1>0, <1>3 DEF AskedInv
<1>5. CASE c \in callsRun
  <2>1. callsRun' = callsRun
    BY <1>2, <1>5
  <2>2. QED BY <1>1, <1>4, <2>1 DEF RpcStep
<1>6. CASE c \notin callsRun
  <2>1. c[1] \in End /\ c[2] \in Id /\ c = <<c[1], c[2]>>
    BY CallsAreCalls
  <2>2. ~(c[2] > sent[c[1]])
    <3>1. c[2] <= sent[c[1]]
      BY DEF issued
    <3>2. sent[c[1]] \in Nat /\ c[2] \in Nat
      BY <1>0, <2>1, ConstantTypes DEF Id
    <3>3. QED BY <3>1, <3>2
  <2>3. c \notin done
    BY <1>6 DEF done
  <2>4. answer[c[1]][c[2]] = NoCall
    BY <1>0, <2>1, <2>3 DEF AskedInv
  <2>5. callStatus[c] \in {"waiting", "rejected"}
    BY <2>2, <2>4, StatusAt
  <2>6. Calls!Run(c)
    BY <1>1, <1>2, <2>5 DEF Calls!Run
  <2>7. QED BY <1>4, <2>6 DEF RpcStep, Calls!Next
<1>7. QED BY <1>5, <1>6

\* A sound message is handled.
LEMMA SoundMessage ==
  ASSUME OwnInv, SoundInv, AnswerOwn', NEW e \in End, NEW m \in Message,
         NEW box \in InboxType, WireSound(box, issued, done), Sound(m, issued, done),
         OnMessage(e, m, box), \A f \in End : AllSound(drain'[f], issued, done)
  PROVE  SoundInv' /\ RpcStep
<1>0. /\ TypeOK /\ KeptSound /\ AskedInv /\ sent \in [End -> 0..MaxId]
      /\ execs \in [End -> [Call -> Nat]] /\ sent' = sent
      /\ pending \in [End -> SUBSET Id]
  BY OthersKeep DEF OwnInv, PeerInv, SoundInv, TypeOK
<1>1. \/ UNCHANGED <<sent, pending, answer, execs>>
      \/ /\ m.type = "RESPONSE" /\ m.id \in pending[e]
         /\ pending' = [pending EXCEPT ![e] = @ \ {m.id}]
         /\ answer' = [answer EXCEPT ![e][m.id] = m.of]
         /\ UNCHANGED <<sent, execs>>
      \/ /\ m.type = "REQUEST" /\ m.call \notin NoMethod
         /\ execs' = [execs EXCEPT ![e][m.call] = @ + 1]
         /\ UNCHANGED <<sent, pending, answer>>
  BY <1>0 DEF OnMessage, OnHandshake, OnResponseAck, OnResponse, OnRequest, requestVars, serverVars
<1>2. AskedInv' /\ RpcStep
  <2>1. CASE UNCHANGED <<sent, pending, answer, execs>>
    BY <1>0, <2>1, QuietCalls
  <2>2. CASE /\ m.type = "RESPONSE" /\ m.id \in pending[e]
             /\ pending' = [pending EXCEPT ![e] = @ \ {m.id}]
             /\ answer' = [answer EXCEPT ![e][m.id] = m.of]
             /\ UNCHANGED <<sent, execs>>
    <3>1. m.of \in Call /\ m.of \in done
      BY <2>2 DEF Message, Handshake, Payload, Sound
    <3>2. m.id \in Id
      BY <1>0, <2>2
    <3>3. answer'[e][m.id] \in {NoCall, <<e, m.id>>}
      BY <3>2 DEF AnswerOwn
    <3>4. QED BY <2>2, <3>1, <3>3, SoundAnswer
  <2>3. CASE /\ m.type = "REQUEST" /\ m.call \notin NoMethod
             /\ execs' = [execs EXCEPT ![e][m.call] = @ + 1]
             /\ UNCHANGED <<sent, pending, answer>>
    <3>1. m.call \in Call /\ m.call \in issued
      BY <2>3 DEF Message, Handshake, Payload, Sound
    <3>2. QED BY <2>3, <3>1, SoundRun
  <2>4. QED BY <1>1, <2>1, <2>2, <2>3
<1>3. \A f \in End, c \in Call : execs[f][c] > 0 => execs'[f][c] > 0
  <2>1. CASE execs' = execs
    BY <2>1
  <2>2. CASE execs' = [execs EXCEPT ![e][m.call] = @ + 1] /\ m.type = "REQUEST"
    <3>1. PICK c \in Call : c = m.call
      BY <2>2 DEF Message, Handshake, Payload
    <3>2. \A f \in End, d \in Call :
            execs'[f][d] = IF f = e /\ d = c THEN execs[f][d] + 1 ELSE execs[f][d]
      BY <1>0, <2>2, <3>1
    <3>3. \A f \in End, d \in Call : execs[f][d] \in Nat
      BY <1>0
    <3>4. QED BY <3>2, <3>3
  <2>3. QED BY <1>1, <2>1, <2>2
<1>4. Forward
  <2>1. \A f \in End : sent[f] <= sent'[f]
    BY <1>0, ConstantTypes
  <2>2. QED BY <1>0, <1>3, <2>1, SentForward
<1>5. /\ \A q : AllSound(q, issued, done) => AllSound(q, issued', done')
      /\ \A b : WireSound(b, issued, done) => WireSound(b, issued', done')
  BY <1>4, SoundGrows DEF Forward
<1>6. /\ WireSound(inbox', issued, done)
      /\ AllSound(buffer'[e], issued, done)
      /\ \A id \in Id : cached'[e][id] # NoCall => cached'[e][id] \in done
      /\ \A r \in running'[e] : r \in running[e] \/ (execs'[e][r.call] > 0 /\ r.call \in issued)
  BY <1>0, SoundOnMessage
<1>7. \A f \in End : f # e => /\ cached'[f] = cached[f] /\ running'[f] = running[f]
                              /\ buffer'[f] = buffer[f]
  BY <1>0, OthersKeep
<1>8. KeptSound'
  <2>1. \A f \in End : AllSound(buffer'[f], issued', done') /\ AllSound(drain'[f], issued', done')
    BY <1>0, <1>5, <1>6, <1>7 DEF KeptSound
  <2>2. \A f \in End, id \in Id : cached'[f][id] # NoCall => cached'[f][id] \in done'
    BY <1>0, <1>4, <1>6, <1>7 DEF KeptSound, Forward
  <2>3. \A f \in End : \A r \in running'[f] : r.call \in done'
    <3>1. \A c \in issued : execs'[e][c] > 0 => c \in done'
      BY <1>4 DEF done, callsRun, issued, Forward
    <3>2. QED BY <1>0, <1>4, <1>6, <1>7, <3>1 DEF KeptSound, Forward
  <2>4. QED BY <2>1, <2>2, <2>3 DEF KeptSound
<1>9. WireSound(inbox, issued, done)'
  BY <1>5, <1>6
<1>10. QED BY <1>2, <1>8, <1>9 DEF SoundInv

LEMMA SoundDeliver ==
  ASSUME OwnInv, SoundInv, AnswerOwn', NEW e \in End,
         Deliver(e) \/ DeliverBuffered(e)
  PROVE  SoundInv' /\ RpcStep
<1>0. /\ TypeOK /\ inbox \in InboxType /\ transport \in [End -> 0..NActor]
      /\ drain \in [End -> Seq(Payload)] /\ KeptSound
      /\ WireSound(inbox, issued, done)
  BY TypeParts DEF OwnInv, PeerInv, SoundInv, TypeOK
<1>1. CASE Deliver(e)
  <2> DEFINE a == transport[e]
             box == [inbox EXCEPT ![a][Side(e)] = Tail(@)]
             m == Head(inbox[a][Side(e)])
  <2>1. /\ a \in Actor /\ inbox[a][Side(e)] # <<>> /\ OnMessage(e, m, box) /\ drain' = drain
        /\ Side(e) \in {"parent", "content"}
    BY <1>0, <1>1, ConstantTypes DEF Deliver, Actor, NoActor, Side
  <2>2. m \in Message /\ box \in InboxType
    BY <1>0, <2>1, TailType
  <2>3. WireSound(box, issued, done) /\ Sound(m, issued, done)
    BY <1>0, <2>1, SoundTail
  <2>4. \A f \in End : AllSound(drain'[f], issued, done)
    BY <1>0, <2>1 DEF KeptSound
  <2> HIDE DEF box, m
  <2>5. QED BY <2>1, <2>2, <2>3, <2>4, SoundMessage
<1>2. CASE DeliverBuffered(e)
  <2>1. /\ drain[e] # <<>> /\ OnMessage(e, Head(drain[e]), inbox)
        /\ drain' = [drain EXCEPT ![e] = Tail(@)] /\ drain[e] \in Seq(Payload)
    BY <1>0, <1>2 DEF DeliverBuffered
  <2>2. Head(drain[e]) \in Message
    <3>1. Head(drain[e]) \in Payload
      BY <2>1
    <3>2. QED BY <3>1 DEF Message
  <2>3. AllSound(drain[e], issued, done)
    BY <1>0 DEF KeptSound
  <2>4. Sound(Head(drain[e]), issued, done) /\ AllSound(Tail(drain[e]), issued, done)
    BY <2>1, <2>3 DEF AllSound
  <2>5. \A f \in End : AllSound(drain'[f], issued, done)
    BY <1>0, <2>1, <2>4 DEF KeptSound
  <2>6. QED BY <1>0, <2>1, <2>2, <2>4, <2>5, SoundMessage
<1>3. QED BY <1>1, <1>2

LEMMA SoundNext ==
  ASSUME OwnInv, OwnInv', SoundInv, [Next]_vars
  PROVE  SoundInv' /\ RpcStep
<1>1. AnswerOwn'
  BY DEF OwnInv, KeptOwn
<1>2. ASSUME NEW e \in End, NEW S \in SUBSET Id, DisposeConnector(e, S)
      PROVE  SoundInv' /\ RpcStep
  <2>1. /\ S \subseteq pending[e] /\ pending' = [pending EXCEPT ![e] = @ \ S] /\ inbox' = inbox
        /\ UNCHANGED <<sent, answer, execs, cached, running, buffer, drain>>
    BY <1>2 DEF DisposeConnector, bufferVars, serverVars
  <2>2. QED BY <2>1, SoundReject
<1>3. ASSUME NEW e \in End, Dispose(e) PROVE SoundInv' /\ RpcStep
  <2>1. pending \in [End -> SUBSET Id]
    BY DEF OwnInv, PeerInv, TypeOK
  <2>2. /\ pending' = [pending EXCEPT ![e] = @ \ pending[e]]
        /\ inbox' = Forget(inbox, e, NActor + 1)
        /\ UNCHANGED <<sent, answer, execs, cached, running, buffer, drain>>
    BY <1>3, <2>1 DEF Dispose, serverVars
  <2>3. QED BY <2>2, SoundReject
<1>4. CASE UNCHANGED vars
  BY <1>4, EndKinds, SoundQuiet
<1>5. CASE Next
  <2>1. Parent \in End
    BY EndKinds
  <2>2. ASSUME NEW i \in Instance, CreateActor(i) PROVE SoundInv' /\ RpcStep
    BY <2>1, <2>2, SoundQuiet
  <2>3. ASSUME NEW a \in Actor, LoseMessage(a) PROVE SoundInv' /\ RpcStep
    BY <2>1, <2>3, SoundQuiet
  <2>4. QED BY <1>1, <1>2, <1>3, <1>5, <2>2, <2>3, SoundQuiet, SoundSend, SoundDeliver DEF Next
<1>6. QED BY <1>4, <1>5

\* Where every content end has a uid of its own and the parent's handlers are
\* there for good and settle in the task that started them, the channel keeps
\* the promise of Rpc: whatever was retransmitted, kept, paused or disposed on
\* the way, a call is answered at most once, with the outcome of its own handler,
\* or rejected, and no handler starts for the first time after its answer.
THEOREM ImplementsRpcTheorem ==
  ASSUME DistinctUids, PromptParent
  PROVE  Spec => ImplementsRpc
<1>1. Init => OwnInv /\ SoundInv /\ Calls!Init
  BY OwnInit, SoundInit
<1>2. OwnInv /\ [Next]_vars => OwnInv'
  BY OwnNext, PeerNext DEF OwnInv
<1>3. OwnInv /\ SoundInv /\ [Next]_vars => SoundInv' /\ [Calls!Next]_<<callStatus, callsRun>>
  BY <1>2, SoundNext DEF RpcStep
<1>4. QED BY <1>1, <1>2, <1>3, PTL DEF Spec, ImplementsRpc, Calls!Spec

-----------------------------------------------------------------------------
(* Requests are run in the order in which they were made: queues *)

LEMMA RequestIsItsCall ==
  /\ \A m \in Message : m.type = "REQUEST" => m.call \in Call /\ m = Request(m.call)
  /\ \A c \in Call : Request(c).type = "REQUEST" /\ Request(c).call = c
  /\ \A c, d \in Call : Request(c) = Request(d) => c = d
<1>1. \A m \in Message : m.type = "REQUEST" => m \in [type : {"REQUEST"}, call : Call]
  BY DEF Message, Handshake, Payload
<1>2. \A m \in [type : {"REQUEST"}, call : Call] : m.call \in Call /\ m = Request(m.call)
  BY DEF Request
<1>3. \A c \in Call : Request(c).type = "REQUEST" /\ Request(c).call = c
  BY DEF Request
<1>4. QED BY <1>1, <1>2, <1>3

LEMMA ConcatPlaces ==
  ASSUME NEW q \in Seq(Message), NEW ms \in Seq(Message)
  PROVE  /\ \A p \in 1..Len(q) : p \in 1..Len(q \o ms) /\ (q \o ms)[p] = q[p]
         /\ \A l \in 1..Len(ms) : Len(q) + l \in 1..Len(q \o ms) /\ (q \o ms)[Len(q) + l] = ms[l]
         /\ \A p \in 1..Len(q \o ms) : p \in 1..Len(q) \/ \E l \in 1..Len(ms) : p = Len(q) + l
         /\ \A j \in 1..Len(q), l \in 1..Len(ms) : j < Len(q) + l
         /\ \A j, l \in 1..Len(ms) : j < l => Len(q) + j < Len(q) + l
<1> DEFINE n == Len(q)
           k == Len(ms)
           z == q \o ms
<1>1. n \in Nat /\ k \in Nat /\ Len(z) = n + k
  OBVIOUS
<1>2. /\ \A p \in 1..n : p \in 1..Len(z) /\ z[p] = q[p]
      /\ \A l \in 1..k : n + l \in 1..Len(z) /\ z[n + l] = ms[l]
  OBVIOUS
<1>3. \A p \in 1..n + k : p \in 1..n \/ (p - n \in 1..k /\ p = n + (p - n))
  BY <1>1
<1>4. \A j \in 1..n, l \in 1..k : j < n + l
  BY <1>1
<1>5. \A j, l \in 1..k : j < l => n + j < n + l
  BY <1>1
<1> HIDE DEF n, k, z
<1>6. \A p \in 1..Len(z) : p \in 1..n \/ \E l \in 1..k : p = n + l
  BY <1>1, <1>3
<1>7. QED BY <1>2, <1>4, <1>5, <1>6 DEF n, k, z

LEMMA HeldConcat ==
  ASSUME NEW q \in Seq(Message), NEW ms \in Seq(Message)
  PROVE  Held(q \o ms) = Held(q) \cup Held(ms)
<1> DEFINE n == Len(q)
           k == Len(ms)
           z == q \o ms
<1>1. /\ \A p \in 1..n : p \in 1..Len(z) /\ z[p] = q[p]
      /\ \A l \in 1..k : n + l \in 1..Len(z) /\ z[n + l] = ms[l]
      /\ \A p \in 1..Len(z) : p \in 1..n \/ \E l \in 1..k : p = n + l
  BY ConcatPlaces
<1> HIDE DEF n, k, z
<1>2. \A c \in Call : (\E p \in 1..Len(z) : z[p] = Request(c))
                       <=> \/ \E p \in 1..n : q[p] = Request(c)
                           \/ \E l \in 1..k : ms[l] = Request(c)
  BY <1>1
<1>3. QED BY <1>2 DEF Held, n, k, z

LEMMA HeldTail ==
  ASSUME NEW q \in Seq(Message), q # <<>>
  PROVE  /\ Held(Tail(q)) \subseteq Held(q)
         /\ \A c \in Held(q) : c \in Held(Tail(q)) \/ Head(q) = Request(c)
         /\ \A c \in Call : Head(q) = Request(c) => c \in Held(q)
<1>1. /\ Len(q) \in Nat /\ Len(q) # 0 /\ Len(Tail(q)) = Len(q) - 1
      /\ \A k \in 1..Len(q) - 1 : Tail(q)[k] = q[k + 1]
      /\ Head(q) = q[1]
  OBVIOUS
<1>2. /\ 1 \in 1..Len(q)
      /\ \A k \in 1..Len(Tail(q)) : k + 1 \in 1..Len(q) /\ Tail(q)[k] = q[k + 1]
      /\ \A k \in 1..Len(q) : k = 1 \/ (k - 1 \in 1..Len(Tail(q)) /\ Tail(q)[k - 1] = q[k])
  <2>1. \A n \in Nat : n # 0 => /\ 1 \in 1..n
                                /\ \A k \in 1..n - 1 : k + 1 \in 1..n
                                /\ \A k \in 1..n : k = 1 \/ (k - 1 \in 1..n - 1 /\ k - 1 + 1 = k)
    OBVIOUS
  <2>2. QED BY <1>1, <2>1
<1>3. QED BY <1>1, <1>2 DEF Held

LEMMA HeldNone ==
  /\ Held(<<>>) = {}
  /\ \A q : NoRequest(q) => Held(q) = {}
  /\ \A c \in Call : Held(<<Request(c)>>) = {c}
<1>1. \A q : NoRequest(q) => Held(q) = {}
  BY RequestIsItsCall DEF Held, NoRequest
<1>2. NoRequest(<<>>)
  BY DEF NoRequest
<1>3. \A c \in Call : Held(<<Request(c)>>) = {c}
  <2>1. \A m : Len(<<m>>) = 1 /\ <<m>>[1] = m /\ 1..Len(<<m>>) = {1}
    OBVIOUS
  <2>2. QED BY <2>1, RequestIsItsCall DEF Held
<1>4. QED BY <1>1, <1>2, <1>3

LEMMA AheadGrows ==
  ASSUME NEW q, NEW s, NEW S, NEW T, NEW G, NEW H, T \subseteq S, G \subseteq H,
         Ahead(q, s, S, G)
  PROVE  Ahead(q, s, T, H)
BY DEF Ahead

LEMMA AheadNone ==
  \A q, s, S, G : NoRequest(q) => Ahead(q, s, S, G)
BY DEF NoRequest, Ahead

LEMMA AheadConcat ==
  ASSUME NEW q \in Seq(Message), NEW ms \in Seq(Message), NEW s, NEW S, NEW G,
         Ahead(q, s, S, G), Ahead(ms, s, S, G \cup Held(q))
  PROVE  Ahead(q \o ms, s, S, G)
<1> DEFINE n == Len(q)
           k == Len(ms)
           z == q \o ms
<1>2. /\ \A p \in 1..n : p \in 1..Len(z) /\ z[p] = q[p]
      /\ \A l \in 1..k : n + l \in 1..Len(z) /\ z[n + l] = ms[l]
      /\ \A p \in 1..Len(z) : p \in 1..n \/ \E l \in 1..k : p = n + l
      /\ \A j \in 1..n, l \in 1..k : j < n + l
      /\ \A j, l \in 1..k : j < l => n + j < n + l
  BY ConcatPlaces
<1> HIDE DEF n, k, z
<1> SUFFICES ASSUME NEW p \in 1..Len(z), z[p].type = "REQUEST",
                    NEW j \in S, j < z[p].call[2], <<s, j>> \notin G
             PROVE  \E x \in 1..Len(z) : x < p /\ z[x] = Request(<<s, j>>)
  BY DEF Ahead, z
<1>5. CASE p \in 1..n
  <2>1. PICK x \in 1..n : x < p /\ q[x] = Request(<<s, j>>)
    BY <1>2, <1>5 DEF Ahead, n
  <2>2. QED BY <1>2, <2>1
<1>6. CASE \E l \in 1..k : p = n + l
  <2>1. PICK l \in 1..k : p = n + l
    BY <1>6
  <2>2. ms[l].type = "REQUEST" /\ j < ms[l].call[2]
    BY <1>2, <2>1
  <2>3. CASE <<s, j>> \in Held(q)
    <3>1. PICK x \in 1..n : q[x] = Request(<<s, j>>)
      BY <2>3 DEF Held, n
    <3>2. QED BY <1>2, <2>1, <3>1
  <2>4. CASE <<s, j>> \notin Held(q)
    <3>1. PICK x \in 1..k : x < l /\ ms[x] = Request(<<s, j>>)
      BY <2>2, <2>4 DEF Ahead, k
    <3>2. n + x \in 1..Len(z) /\ n + x < p /\ z[n + x] = ms[x]
      BY <1>2, <2>1, <3>1
    <3>3. QED BY <3>1, <3>2
  <2>5. QED BY <2>3, <2>4
<1>7. QED BY <1>2, <1>5, <1>6

LEMMA AheadTail ==
  ASSUME NEW q \in Seq(Message), q # <<>>, NEW s, NEW S, NEW G, NEW H,
         Ahead(q, s, S, G), G \subseteq H,
         \A c \in Call : Head(q) = Request(c) => c \in H,
         \A j \in S : <<s, j>> \in Call
  PROVE  /\ Ahead(Tail(q), s, S, H)
         /\ Head(q).type = "REQUEST" => \A j \in S : j < Head(q).call[2] => <<s, j>> \in G
<1> DEFINE t == Tail(q)
<1>1. /\ Len(q) \in Nat /\ Len(q) # 0 /\ Len(t) = Len(q) - 1
      /\ \A k \in 1..Len(q) - 1 : t[k] = q[k + 1]
      /\ Head(q) = q[1]
  OBVIOUS
<1>2. \A n \in Nat : n # 0 => /\ 1 \in 1..n
                              /\ \A k \in 1..n - 1 : k + 1 \in 1..n
                              /\ \A k \in 1..n : k = 1 \/ (k - 1 \in 1..n - 1 /\ k - 1 + 1 = k)
                              /\ \A j \in 1..n, k \in 1..n - 1 : j < k + 1 /\ j # 1 => j - 1 < k
                              /\ \A j \in 1..n : ~(j < 1)
  OBVIOUS
<1>3. /\ 1 \in 1..Len(q)
      /\ \A k \in 1..Len(t) : k + 1 \in 1..Len(q) /\ t[k] = q[k + 1]
      /\ \A k \in 1..Len(q) : k = 1 \/ (k - 1 \in 1..Len(t) /\ t[k - 1] = q[k])
      /\ \A j \in 1..Len(q), k \in 1..Len(t) : j < k + 1 /\ j # 1 => j - 1 < k
      /\ \A j \in 1..Len(q) : ~(j < 1)
  BY <1>1, <1>2
<1> HIDE DEF t
<1>4. Head(q).type = "REQUEST" => \A j \in S : j < Head(q).call[2] => <<s, j>> \in G
  BY <1>1, <1>3 DEF Ahead
<1>5. ASSUME NEW p \in 1..Len(t), t[p].type = "REQUEST",
             NEW j \in S, j < t[p].call[2], <<s, j>> \notin H
      PROVE  \E x \in 1..Len(t) : x < p /\ t[x] = Request(<<s, j>>)
  <2>1. p + 1 \in 1..Len(q) /\ t[p] = q[p + 1]
    BY <1>3
  <2>2. PICK x \in 1..Len(q) : x < p + 1 /\ q[x] = Request(<<s, j>>)
    BY <1>5, <2>1 DEF Ahead
  <2>3. x # 1
    BY <1>1, <1>5, <2>2
  <2>4. x - 1 \in 1..Len(t) /\ t[x - 1] = q[x] /\ x - 1 < p
    BY <1>3, <2>2, <2>3
  <2>5. QED BY <2>2, <2>4
<1>6. Ahead(t, s, S, H)
  BY <1>5 DEF Ahead
<1>7. QED BY <1>4, <1>6 DEF t

LEMMA AscendingOnto ==
  ASSUME NEW e \in End, NEW S, S \subseteq 1..MaxRequest[e], NEW s \in Ascending(S)
  PROVE  \E n \in Nat : AllOf(S, s, n)
<1>1. IsFiniteSet(S)
  <2>1. 1 \in Int /\ MaxRequest[e] \in Int
    BY ConstantTypes
  <2>2. IsFiniteSet(1..MaxRequest[e])
    BY <2>1, FS_Interval
  <2>3. QED BY <2>2, FS_Subset
<1>2. PICK n \in Nat : n = Cardinality(S)
  BY <1>1, FS_CardinalityType
<1>3. /\ s \in [1..n -> S] /\ DOMAIN s = 1..n
      /\ \A k, l \in 1..n : k < l => s[k] < s[l]
  BY <1>2 DEF Ascending
<1>4. s \in Injection(1..n, S)
  <2>1. S \subseteq Int
    BY ConstantTypes
  <2>2. ASSUME NEW k \in 1..n, NEW l \in 1..n, k # l PROVE s[k] # s[l]
    <3>1. s[k] \in Int /\ s[l] \in Int
      BY <1>3, <2>1
    <3>2. k < l \/ l < k
      BY <2>2
    <3>3. s[k] < s[l] \/ s[l] < s[k]
      BY <1>3, <3>2
    <3>4. QED BY <3>1, <3>3
  <2>3. QED BY <1>3, <2>2 DEF Injection, IsInjective
<1>5. IsFiniteSet(1..n) /\ Cardinality(1..n) = n
  <2>1. 1 \in Int /\ n \in Int
    OBVIOUS
  <2>2. QED BY <2>1, FS_Interval
<1>6. s \in Surjection(1..n, S)
  BY <1>1, <1>2, <1>4, <1>5, FS_Injection
<1>7. QED BY <1>3, <1>6 DEF Surjection, AllOf

LEMMA AheadAgain ==
  ASSUME NEW e \in End, NEW S, S \subseteq 1..MaxRequest[e], NEW s \in Ascending(S),
         S \subseteq Id
  PROVE  /\ Ahead(Requests(e, s), e, S, {})
         /\ \A j \in S : <<e, j>> \in Held(Requests(e, s))
         /\ Held(Requests(e, s)) \subseteq {<<e, j>> : j \in S}
<1> DEFINE q == Requests(e, s)
<1>0. PICK n \in Nat : AllOf(S, s, n)
  BY AscendingOnto
<1>1. /\ DOMAIN s = 1..n
      /\ \A k \in DOMAIN s : s[k] \in S
      /\ \A k, l \in DOMAIN s : k < l => s[k] < s[l]
      /\ \A j \in S : \E k \in DOMAIN s : s[k] = j
  BY <1>0 DEF AllOf
<1>2. \A j \in S : <<e, j>> \in Call /\ j \in Int
  BY ConstantTypes, MessageTypes
<1>3. /\ q \in Seq(Message) /\ 1..Len(q) = DOMAIN s
      /\ \A k \in DOMAIN s : q[k] = Request(<<e, s[k]>>)
  <2>1. q \in Seq(Message)
    BY RequestsType
  <2>2. DOMAIN q = DOMAIN s /\ \A k \in DOMAIN s : q[k] = Request(<<e, s[k]>>)
    BY DEF Requests
  <2>3. DOMAIN q = 1..Len(q)
    BY <2>1
  <2>4. QED BY <2>1, <2>2, <2>3
<1> HIDE DEF q
<1>4. \A k \in DOMAIN s : q[k].call = <<e, s[k]>> /\ q[k].call[2] = s[k]
  <2>1. \A j \in S : Request(<<e, j>>).call = <<e, j>>
    BY <1>2, RequestIsItsCall
  <2>2. \A j : <<e, j>>[2] = j
    OBVIOUS
  <2>3. ASSUME NEW k \in DOMAIN s PROVE q[k].call = <<e, s[k]>>
    BY <1>1, <1>3, <2>1
  <2>4. QED BY <2>2, <2>3
<1>5. ASSUME NEW p \in DOMAIN s, NEW j \in S, j < s[p]
      PROVE  \E x \in DOMAIN s : x < p /\ s[x] = j
  <2>1. PICK x \in DOMAIN s : s[x] = j
    BY <1>1
  <2>2. x \in Int /\ p \in Int /\ s[x] \in Int /\ s[p] \in Int
    <3>1. s[x] \in S /\ s[p] \in S /\ x \in 1..n /\ p \in 1..n
      BY <1>1
    <3>2. s[x] \in Int /\ s[p] \in Int
      BY <1>2, <3>1
    <3>3. x \in Int /\ p \in Int
      BY <3>1
    <3>4. QED BY <3>2, <3>3
  <2>3. ~(p < x) /\ x # p
    <3>1. CASE p < x
      <4>1. s[p] < s[x]
        BY <1>1, <3>1
      <4>2. QED BY <1>5, <2>1, <2>2, <4>1
    <3>2. CASE x = p
      BY <1>5, <2>1, <2>2, <3>2
    <3>3. QED BY <3>1, <3>2
  <2>4. QED BY <2>1, <2>2, <2>3
<1>6. Ahead(q, e, S, {})
  <2> SUFFICES ASSUME NEW p \in DOMAIN s, NEW j \in S, j < q[p].call[2]
               PROVE  \E x \in DOMAIN s : x < p /\ q[x] = Request(<<e, j>>)
    BY <1>3 DEF Ahead
  <2>1. j < s[p]
    BY <1>4
  <2>2. PICK x \in DOMAIN s : x < p /\ s[x] = j
    BY <1>5, <2>1
  <2>3. QED BY <1>3, <2>2
<1>7. \A j \in S : <<e, j>> \in Held(q)
  BY <1>1, <1>2, <1>3 DEF Held
<1>8. Held(q) \subseteq {<<e, j>> : j \in S}
  <2> SUFFICES ASSUME NEW c \in Held(q) PROVE c \in {<<e, j>> : j \in S}
    OBVIOUS
  <2>1. PICK p \in DOMAIN s : c \in Call /\ q[p] = Request(c)
    BY <1>3 DEF Held
  <2>2. s[p] \in S /\ <<e, s[p]>> \in Call /\ Request(c) = Request(<<e, s[p]>>)
    BY <1>1, <1>2, <1>3, <2>1
  <2>3. QED BY <2>1, <2>2, RequestIsItsCall
<1>9. QED BY <1>6, <1>7, <1>8 DEF q

-----------------------------------------------------------------------------
(* ... what an end that left a pair is sent *)

LEMMA SilentPost ==
  ASSUME NEW box \in InboxType, NEW e \in End, NEW a \in 0..NActor, NEW ms \in Seq(Message),
         seen[Parent] \in Nat, a \in {NoActor, seen[e]}, Silent(box),
         a # NoActor /\ e # Parent => hostOf[a] = e
  PROVE  Silent(Post(box, e, a, ms))
<1> DEFINE new == Post(box, e, a, ms)
<1>1. \/ new = box
      \/ /\ a \in Actor /\ ~Deaf(Peer(e, a), a)
         /\ \A b \in Actor, t \in {"parent", "content"} :
              b # a \/ t # Other(e) => new[b][t] = box[b][t]
  BY PostFacts, ZenonT(30)
<1> HIDE DEF new
<1>2. CASE new = box
  BY <1>2 DEF new
<1>3. CASE new # box /\ e = Parent
  <2>1. /\ a \in Actor /\ ~Deaf(hostOf[a], a) /\ ~(seen[Parent] < a)
        /\ \A b \in Actor : new[b]["parent"] = box[b]["parent"]
        /\ \A b \in Actor : b # a => new[b]["content"] = box[b]["content"]
    BY <1>1, <1>3, EndKinds DEF Peer, NoActor, Actor
  <2>2. QED BY <2>1 DEF Silent, new
<1>4. CASE new # box /\ e # Parent
  <2>1. /\ a \in Actor /\ ~Deaf(Parent, a)
        /\ \A b \in Actor : new[b]["content"] = box[b]["content"]
        /\ \A b \in Actor : b # a => new[b]["parent"] = box[b]["parent"]
    BY <1>1, <1>4, EndKinds DEF Peer
  <2>2. QED BY <2>1 DEF Silent, new
<1>5. QED BY <1>2, <1>3, <1>4

LEMMA SilentShrinks ==
  ASSUME NEW box, NEW new, Silent(box),
         \A a \in Actor, t \in {"parent", "content"} : box[a][t] = <<>> => new[a][t] = <<>>
  PROVE  Silent(new)
BY DEF Silent

LEMMA SilentTail ==
  ASSUME NEW box \in InboxType, NEW a \in Actor, NEW side \in {"parent", "content"},
         box[a][side] # <<>>, Silent(box)
  PROVE  Silent([box EXCEPT ![a][side] = Tail(@)])
<1>1. \A b \in Actor, t \in {"parent", "content"} :
        [box EXCEPT ![a][side] = Tail(@)][b][t] =
          IF b = a /\ t = side THEN Tail(box[a][side]) ELSE box[b][t]
  BY DEF InboxType
<1> DEFINE new == [box EXCEPT ![a][side] = Tail(@)]
<1>2. \A b \in Actor, t \in {"parent", "content"} : box[b][t] = <<>> => new[b][t] = <<>>
  BY <1>1
<1> HIDE DEF new
<1>3. Silent(new)
  BY <1>2, SilentShrinks
<1>4. QED BY <1>3 DEF new

\* What an end sends on a message: requests only when it becomes ready, and
\* then all that are pending.
LEMMA MessageSends ==
  ASSUME TypeOK, NEW e \in End, NEW m \in Message, NEW box, OnMessage(e, m, box)
  PROVE  \E ms \in Seq(Message) :
           /\ inbox' = Post(box, e, transport[e], ms) \/ (inbox' = box /\ ms = <<>>)
           /\ \/ NoRequest(ms) /\ ready' = ready
              \/ /\ ~ready[e] /\ ready' = [ready EXCEPT ![e] = TRUE]
                 /\ \E before \in Seq(Message), s \in Ascending(pending[e]) :
                      NoRequest(before) /\ ms = before \o Requests(e, s)
<1>1. NoRequest(<<>>) /\ <<>> \in Seq(Message)
  BY DEF NoRequest
<1>2. \A msg : msg.type # "REQUEST" => NoRequest(<<msg>>)
  BY DEF NoRequest
<1>3. CASE OnHandshake(e, m, box)
  <2>1. PICK before \in Seq(Message) : MarkAsReady(e, box, before) /\ NoRequest(before)
    <3>1. <<ReadyAck(e)>> \in Seq(Message) /\ NoRequest(<<ReadyAck(e)>>)
      BY <1>2, MessageTypes DEF ReadyAck
    <3>2. QED BY <1>1, <1>3, <3>1 DEF OnHandshake
  <2>2. CASE ready[e]
    BY <2>1, <2>2 DEF MarkAsReady
  <2>3. CASE ~ready[e]
    <3>1. PICK s \in Ascending(pending[e]) :
            inbox' = Post(box, e, transport[e], before \o Requests(e, s))
      BY <2>1, <2>3 DEF MarkAsReady
    <3>2. ready' = [ready EXCEPT ![e] = TRUE]
      BY <2>1, <2>3 DEF MarkAsReady
    <3>3. Requests(e, s) \in Seq(Message)
      BY RequestsType DEF TypeOK
    <3>4. before \o Requests(e, s) \in Seq(Message)
      BY <3>3
    <3>5. QED BY <2>1, <2>3, <3>1, <3>2, <3>4
  <2>4. QED BY <2>2, <2>3
<1>4. CASE OnResponseAck(e, m, box)
  BY <1>1, <1>4 DEF OnResponseAck
<1>5. CASE inbox' = box /\ UNCHANGED ready
  BY <1>1, <1>5
<1>6. CASE OnResponse(e, m, box)
  <2>1. m.id \in Id
    BY <1>6 DEF OnResponse, Message, Handshake, Payload
  <2>2. <<ResponseAck(m.id)>> \in Seq(Message) /\ NoRequest(<<ResponseAck(m.id)>>)
    BY <1>2, <2>1, MessageTypes DEF ResponseAck
  <2>3. QED BY <1>6, <2>2 DEF OnResponse
<1>7. CASE OnRequest(e, m, box)
  <2>1. m.call \in Call
    BY <1>7 DEF OnRequest, Message, Handshake, Payload
  <2>2. m.call[2] \in Id
    BY <2>1, MessageTypes
  <2>3. \A c \in Call : <<Response(c)>> \in Seq(Message) /\ NoRequest(<<Response(c)>>)
    <3>1. \A c \in Call : Response(c).type # "REQUEST"
      BY DEF Response
    <3>2. \A c \in Call : NoRequest(<<Response(c)>>)
      BY <1>2, <3>1
    <3>3. \A c \in Call : <<Response(c)>> \in Seq(Message)
      BY MessageTypes
    <3>4. QED BY <3>2, <3>3
  <2>4. cached[e][m.call[2]] # NoCall => cached[e][m.call[2]] \in Call
    BY <2>2 DEF TypeOK
  <2>5. /\ UNCHANGED ready
        /\ \/ inbox' = box
           \/ \E c \in Call : inbox' = Post(box, e, transport[e], <<Response(c)>>)
    BY <1>7, <2>1, <2>4 DEF OnRequest
  <2>6. QED BY <1>1, <2>3, <2>5
<1>8. QED BY <1>3, <1>4, <1>5, <1>6, <1>7 DEF OnMessage

LEMMA SilentDeliver ==
  ASSUME TypeOK, SeenInv, BoundInv, Silent(inbox), NEW e \in End, Deliver(e) \/ DeliverBuffered(e)
  PROVE  Silent(inbox')
<1>0. /\ inbox \in InboxType /\ transport[e] \in 0..NActor /\ transport \in [End -> 0..NActor]
      /\ transport[e] \in {NoActor, seen[e]} /\ seen[Parent] \in Nat
      /\ transport[e] # NoActor /\ e # Parent => hostOf[transport[e]] = e
      /\ drain \in [End -> Seq(Payload)]
  <2>1. seen \in [End -> 0..NActor] /\ Parent \in End
    BY TypeParts, EndKinds
  <2>2. seen[Parent] \in Nat
    BY <2>1, ConstantTypes
  <2>3. QED BY <2>2, TypeParts DEF SeenInv, BoundInv, TypeOK
<1>1. ASSUME NEW m \in Message, NEW box \in InboxType, Silent(box), OnMessage(e, m, box)
      PROVE  Silent(inbox')
  <2>1. PICK ms \in Seq(Message) :
           inbox' = Post(box, e, transport[e], ms) \/ (inbox' = box /\ ms = <<>>)
    BY <1>1, MessageSends
  <2>2. Silent(Post(box, e, transport[e], ms))
    BY <1>0, <1>1, SilentPost
  <2>3. QED BY <1>1, <2>1, <2>2
<1>2. CASE Deliver(e)
  <2> DEFINE a == transport[e]
             box == [inbox EXCEPT ![a][Side(e)] = Tail(@)]
             m == Head(inbox[a][Side(e)])
  <2>1. /\ a \in Actor /\ inbox[a][Side(e)] # <<>> /\ OnMessage(e, m, box)
        /\ Side(e) \in {"parent", "content"}
    BY <1>0, <1>2, ConstantTypes DEF Deliver, Actor, NoActor, Side
  <2>2. m \in Message /\ box \in InboxType
    BY <1>0, <2>1, TailType
  <2>3. Silent(box)
    BY <1>0, <2>1, SilentTail
  <2> HIDE DEF box, m
  <2>4. QED BY <1>1, <2>1, <2>2, <2>3
<1>3. CASE DeliverBuffered(e)
  <2>1. drain[e] # <<>> /\ drain[e] \in Seq(Payload) /\ OnMessage(e, Head(drain[e]), inbox)
    BY <1>0, <1>3 DEF DeliverBuffered
  <2>2. Head(drain[e]) \in Payload
    BY <2>1
  <2>3. Head(drain[e]) \in Message
    BY <2>2 DEF Message
  <2>4. QED BY <1>0, <1>1, <2>1, <2>3
<1>4. QED BY <1>2, <1>3

LEMMA SilentBind ==
  ASSUME TypeOK, SeenInv, LinkInv, NEW e \in End, NEW a \in Actor, BindToActor(e, a)
  PROVE  LinkInv'
<1>0. /\ inbox \in InboxType /\ seen \in [End -> 0..NActor] /\ transport \in [End -> 0..NActor]
      /\ created \in 0..NActor /\ Parent \in End /\ NActor \in Nat
  BY TypeParts, EndKinds, ConstantTypes
<1>1. /\ UNCHANGED <<created, hostOf, disposed>>
      /\ seen' = [seen EXCEPT ![e] = a] /\ transport' = [transport EXCEPT ![e] = a]
      /\ seen[e] < a /\ a <= created /\ (e # Parent => hostOf[a] = e)
      /\ inbox' = Post(Forget(inbox, e, a), e, a, <<Ready(e)>>)
  BY <1>0 DEF BindToActor, linkVars, Actor
<1>2. /\ \A f \in End : f # e => seen'[f] = seen[f] /\ transport'[f] = transport[f]
      /\ seen'[e] = a /\ transport'[e] = a
  BY <1>0, <1>1 DEF Actor
<1> DEFINE box == Forget(inbox, e, a)
<1>3. box \in InboxType /\ <<Ready(e)>> \in Seq(Message) /\ a \in 0..NActor
  BY <1>0, ForgetType, MessageTypes DEF Actor
<1>4. \/ inbox' = box
      \/ /\ ~Deaf(Peer(e, a), a)
         /\ \A b \in Actor, t \in {"parent", "content"} :
              b # a \/ t # Other(e) => inbox'[b][t] = box[b][t]
  <2>1. \/ Post(box, e, a, <<Ready(e)>>) = box
        \/ /\ a \in Actor /\ ~Deaf(Peer(e, a), a)
           /\ \A b \in Actor, t \in {"parent", "content"} :
              b # a \/ t # Other(e) => Post(box, e, a, <<Ready(e)>>)[b][t] = box[b][t]
    <3> HIDE DEF box
    <3>1. QED BY <1>3, PostFacts, ZenonT(30)
  <2>2. QED BY <1>1, <2>1
<1>5. \A b \in Actor : \A t \in {"parent", "content"} :
           /\ box[b][t] = inbox[b][t] \/ box[b][t] = <<>>
           /\ b < a /\ t = Side(e) /\ (e = Parent \/ hostOf[b] = e) => box[b][t] = <<>>
  <2>1. \A b \in Actor : \A t \in {"parent", "content"} :
           box[b][t] = inbox[b][t] \/ box[b][t] = <<>>
    BY <1>0, ForgetFacts
  <2>2. ASSUME NEW b \in Actor, b < a, e = Parent \/ hostOf[b] = e PROVE box[b][Side(e)] = <<>>
    BY <1>0, <2>2, ConstantTypes DEF Forget, InboxType
  <2>3. QED BY <2>1, <2>2
<1> HIDE DEF box
<1>6. Hosted /\ Silent(inbox) /\ hostOf[a] \in Instance
  BY <1>1 DEF LinkInv, Hosted
<1>7. \A b \in Actor : b \in Nat
  BY DEF Actor
<1>8. CASE e = Parent
  <2>1. Side(e) = "parent" /\ Other(e) = "content" /\ Peer(e, a) = hostOf[a] /\ hostOf[a] # Parent
    BY <1>6, <1>8, EndKinds DEF Peer
  <2>2. \A i \in Instance, b \in Actor : Deaf(i, b)' = Deaf(i, b)
    BY <1>1, <1>2, <1>8, EndKinds DEF Deaf
  <2>3. ASSUME NEW b \in Actor PROVE Deaf(Parent, b)' => inbox'[b]["parent"] = <<>>
    <3>1. inbox'[b]["parent"] = box[b]["parent"]
      BY <1>4, <2>1
    <3>2. Deaf(Parent, b)' => Deaf(Parent, b) \/ b < a
      <4>1. Deaf(Parent, b)' => disposed[Parent] \/ (a >= b /\ a # b)
        BY <1>1, <1>2, <1>8 DEF Deaf
      <4>2. QED BY <1>7, <4>1 DEF Deaf
    <3>3. QED BY <1>5, <1>6, <1>8, <2>1, <3>1, <3>2 DEF Silent
  <2>4. ASSUME NEW b \in Actor, NEW i \in Instance, hostOf[b] = i, Deaf(i, b)
        PROVE  inbox'[b]["content"] = <<>>
    <3>1. inbox[b]["content"] = <<>>
      BY <1>6, <2>4 DEF Silent
    <3>2. box[b]["content"] = <<>>
      BY <1>5, <3>1
    <3>3. inbox'[b]["content"] = box[b]["content"]
      BY <1>4, <2>1, <2>4
    <3>4. QED BY <3>2, <3>3
  <2>5. ASSUME NEW b \in Actor, a < b PROVE inbox'[b]["content"] = <<>>
    <3>1. seen[Parent] < b /\ b # a
      BY <1>0, <1>1, <1>7, <1>8, <2>5
    <3>2. inbox[b]["content"] = <<>>
      BY <1>6, <3>1 DEF Silent
    <3>3. inbox'[b]["content"] = box[b]["content"]
      BY <1>4, <3>1
    <3>4. QED BY <1>5, <3>2, <3>3
  <2>6. Silent(inbox)'
    BY <1>1, <1>2, <1>8, <2>2, <2>3, <2>4, <2>5 DEF Silent
  <2>7. QED BY <1>1, <1>6, <2>6 DEF LinkInv, Hosted
<1>9. CASE e # Parent
  <2>1. Side(e) = "content" /\ Other(e) = "parent" /\ Peer(e, a) = Parent
    BY <1>9, EndKinds DEF Peer
  <2>2. /\ \A b \in Actor : Deaf(Parent, b)' = Deaf(Parent, b)
        /\ \A i \in Instance, b \in Actor : i # e => Deaf(i, b)' = Deaf(i, b)
        /\ seen'[Parent] = seen[Parent]
    BY <1>0, <1>1, <1>2, <1>9, EndKinds DEF Deaf
  <2>3. ASSUME NEW b \in Actor, Deaf(Parent, b) PROVE inbox'[b]["parent"] = <<>>
    <3>1. inbox[b]["parent"] = <<>>
      BY <1>6, <2>3 DEF Silent
    <3>2. inbox'[b]["parent"] = box[b]["parent"]
      BY <1>4, <2>1, <2>3
    <3>3. QED BY <1>5, <3>1, <3>2
  <2>4. \A b \in Actor : inbox'[b]["content"] = box[b]["content"]
    BY <1>4, <2>1
  <2>5. ASSUME NEW b \in Actor, NEW i \in Instance, hostOf[b] = i, Deaf(i, b)'
        PROVE  inbox'[b]["content"] = <<>>
    <3>1. Deaf(i, b) \/ (i = e /\ b < a)
      <4>1. CASE i # e
        BY <2>2, <2>5, <4>1
      <4>2. CASE i = e
        <5>1. disposed[e] \/ (a >= b /\ a # b)
          BY <1>1, <1>2, <2>5, <4>2 DEF Deaf
        <5>2. QED BY <1>7, <4>2, <5>1 DEF Deaf
      <4>3. QED BY <4>1, <4>2
    <3>2. CASE Deaf(i, b)
      BY <1>5, <1>6, <2>4, <2>5, <3>2 DEF Silent
    <3>3. CASE i = e /\ b < a
      BY <1>5, <2>1, <2>4, <2>5, <3>3
    <3>4. QED BY <3>1, <3>2, <3>3
  <2>6. \A b \in Actor : seen[Parent] < b => inbox'[b]["content"] = <<>>
    BY <1>5, <1>6, <2>4 DEF Silent
  <2>7. Silent(inbox)'
    BY <1>1, <2>2, <2>3, <2>5, <2>6 DEF Silent
  <2>8. QED BY <1>1, <1>6, <2>7 DEF LinkInv, Hosted
<1>10. QED BY <1>8, <1>9

LEMMA SilentReset ==
  ASSUME TypeOK, SeenInv, LinkInv, NEW e \in End, ResetTransport(e) \/ Dispose(e)
  PROVE  LinkInv'
<1>0. /\ inbox \in InboxType /\ seen \in [End -> 0..NActor] /\ transport \in [End -> 0..NActor]
      /\ Parent \in End /\ NActor \in Nat /\ disposed \in [End -> BOOLEAN]
      /\ Hosted /\ Silent(inbox) /\ transport[e] \in {NoActor, seen[e]}
  BY TypeParts, EndKinds, ConstantTypes DEF LinkInv, SeenInv, TypeOK
<1> DEFINE n == IF Dispose(e) THEN NActor + 1 ELSE transport[e] + 1
<1>1. /\ UNCHANGED <<created, hostOf, seen>>
      /\ inbox' = Forget(inbox, e, n)
      /\ \A f \in End : f # e => transport'[f] = transport[f] /\ disposed'[f] = disposed[f]
  <2>1. CASE Dispose(e)
    BY <1>0, <2>1 DEF Dispose, linkVars, connVars
  <2>2. CASE ~Dispose(e)
    BY <1>0, <2>2 DEF ResetTransport
  <2>3. QED BY <2>1, <2>2
<1>2. \A b \in Actor : Deaf(e, b)' => Deaf(e, b) \/ b < n
  <2>1. \A b \in Actor : b \in 1..NActor
    BY DEF Actor
  <2>2. CASE Dispose(e)
    BY <1>0, <2>1, <2>2
  <2>3. CASE ~Dispose(e)
    <3>1. /\ transport'[e] = NoActor /\ disposed' = disposed /\ transport[e] = seen[e]
          /\ seen' = seen /\ transport[e] \in 0..NActor /\ n = transport[e] + 1
      BY <1>0, <2>3 DEF ResetTransport
    <3>2. \A b \in Actor : Deaf(e, b)' => disposed[e] \/ transport[e] >= b
      BY <3>1 DEF Deaf
    <3>3. \A b \in Actor : transport[e] >= b => b < n
      BY <1>0, <2>1, <3>1
    <3>4. QED BY <3>2, <3>3 DEF Deaf
  <2>4. QED BY <2>2, <2>3
<1> HIDE DEF n
<1>3. \A b \in Actor : \A t \in {"parent", "content"} :
           /\ inbox'[b][t] = inbox[b][t] \/ inbox'[b][t] = <<>>
           /\ b < n /\ t = Side(e) /\ (e = Parent \/ hostOf[b] = e) => inbox'[b][t] = <<>>
  <2>1. \A b \in Actor : \A t \in {"parent", "content"} :
           inbox'[b][t] = inbox[b][t] \/ inbox'[b][t] = <<>>
    BY <1>0, <1>1, ForgetFacts
  <2>2. ASSUME NEW b \in Actor, b < n, e = Parent \/ hostOf[b] = e PROVE inbox'[b][Side(e)] = <<>>
    BY <1>0, <1>1, <2>2, ConstantTypes DEF Forget, InboxType
  <2>3. QED BY <2>1, <2>2
<1>4. \A f \in End, b \in Actor : f # e => Deaf(f, b)' = Deaf(f, b)
  BY <1>1 DEF Deaf
<1>5. ASSUME NEW b \in Actor, Deaf(Parent, b)' PROVE inbox'[b]["parent"] = <<>>
  <2>1. CASE e # Parent
    BY <1>0, <1>3, <1>4, <1>5, <2>1 DEF Silent
  <2>2. CASE e = Parent
    BY <1>0, <1>2, <1>3, <1>5, <2>2, EndKinds DEF Silent
  <2>3. QED BY <2>1, <2>2
<1>6. ASSUME NEW b \in Actor, NEW i \in Instance, hostOf[b] = i, Deaf(i, b)'
      PROVE  inbox'[b]["content"] = <<>>
  <2>1. CASE e # i
    BY <1>0, <1>3, <1>4, <1>6, <2>1, EndKinds DEF Silent
  <2>2. CASE e = i
    BY <1>0, <1>2, <1>3, <1>6, <2>2, EndKinds DEF Silent
  <2>3. QED BY <2>1, <2>2
<1>7. \A b \in Actor : seen[Parent] < b => inbox'[b]["content"] = <<>>
  BY <1>0, <1>3 DEF Silent
<1>8. QED BY <1>0, <1>1, <1>5, <1>6, <1>7 DEF LinkInv, Hosted, Silent

LEMMA LinkNext ==
  ASSUME PeerInv, SeenInv, LinkInv, [Next]_vars
  PROVE  LinkInv'
<1>0. /\ TypeOK /\ BoundInv /\ WireInv(inbox) /\ Hosted /\ Silent(inbox)
      /\ inbox \in InboxType /\ created \in 0..NActor /\ NActor \in Nat
      /\ hostOf \in [Actor -> End] /\ seen \in [End -> 0..NActor] /\ seen[Parent] \in Nat
      /\ transport \in [End -> 0..NActor]
  <2>1. TypeOK /\ seen \in [End -> 0..NActor] /\ NActor \in Nat
    BY TypeParts, ConstantTypes DEF PeerInv
  <2>2. seen[Parent] \in Nat
    BY <2>1, EndKinds
  <2>3. QED BY <2>1, <2>2, TypeParts DEF PeerInv, LinkInv
<1>1. CASE UNCHANGED <<created, hostOf, inbox, seen, transport, disposed>>
  BY <1>0, <1>1 DEF LinkInv, Hosted, Silent, Deaf
<1>2. ASSUME NEW i \in Instance, CreateActor(i) PROVE LinkInv'
  <2>1. /\ UNCHANGED <<inbox, seen, transport, disposed>> /\ created < NActor
        /\ created' = created + 1 /\ hostOf' = [hostOf EXCEPT ![created + 1] = i]
    BY <1>2 DEF CreateActor, connVars
  <2>2. \A b \in Actor : /\ b = created + 1 \/ hostOf'[b] = hostOf[b]
                         /\ b = created + 1 => b > created /\ hostOf'[b] = i
                         /\ b <= created + 1 => b = created + 1 \/ b <= created
    BY <1>0, <2>1 DEF Actor
  <2>3. Hosted'
    BY <1>0, <2>1, <2>2 DEF Hosted
  <2>4. \A b \in Actor : b = created + 1 => inbox[b]["parent"] = <<>> /\ inbox[b]["content"] = <<>>
    BY <1>0, <2>2 DEF WireInv
  <2>5. Silent(inbox)'
    BY <1>0, <2>1, <2>2, <2>4 DEF Silent, Deaf
  <2>6. QED BY <2>3, <2>5 DEF LinkInv
<1>3. ASSUME NEW a \in Actor, LoseMessage(a) PROVE LinkInv'
  <2>1. /\ UNCHANGED <<created, hostOf, seen, transport, disposed>> /\ inbox[a]["parent"] # <<>>
        /\ inbox' = [inbox EXCEPT ![a]["parent"] = Tail(@)]
    BY <1>3 DEF LoseMessage, linkVars, connVars
  <2>2. Silent(inbox')
    BY <1>0, <2>1, SilentTail
  <2>3. QED BY <1>0, <2>1, <2>2 DEF LinkInv, Hosted, Silent, Deaf
<1>4. ASSUME NEW e \in End, UNCHANGED <<created, hostOf, seen, transport, disposed>>, Silent(inbox')
      PROVE  LinkInv'
  BY <1>0, <1>4 DEF LinkInv, Hosted, Silent, Deaf
<1>5. ASSUME NEW e \in End, NEW ms \in Seq(Message)
      PROVE  Silent(Post(inbox, e, transport[e], ms))
  <2>1. /\ transport[e] \in 0..NActor /\ transport[e] \in {NoActor, seen[e]}
        /\ transport[e] # NoActor /\ e # Parent => hostOf[transport[e]] = e
    BY <1>0 DEF SeenInv, BoundInv
  <2>2. QED BY <1>0, <2>1, SilentPost
<1>6. ASSUME NEW e \in End, Send(e) PROVE LinkInv'
  <2>1. sent[e] + 1 \in Id /\ sent[e] + 1 <= MaxRequest[e]
    BY <1>0, <1>6, ConstantTypes, SMTT(30) DEF Send, TypeOK, Id
  <2>2. <<Request(<<e, sent[e] + 1>>)>> \in Seq(Message)
    BY <2>1, MessageTypes
  <2>3. Silent(inbox')
    BY <1>0, <1>5, <1>6, <2>2 DEF Send
  <2>4. QED BY <1>4, <1>6, <2>3 DEF Send, linkVars, connVars
<1>7. ASSUME NEW e \in End, NEW r \in running[e], FinishHandler(e, r) PROVE LinkInv'
  <2>1. <<Response(r.call)>> \in Seq(Message)
    BY <1>0, MessageTypes DEF TypeOK, Run
  <2>2. Silent(inbox')
    BY <1>0, <1>5, <1>7, <2>1 DEF FinishHandler
  <2>3. QED BY <1>4, <1>7, <2>2 DEF FinishHandler, linkVars, connVars
<1>8. ASSUME NEW e \in End, Deliver(e) \/ DeliverBuffered(e) PROVE LinkInv'
  <2>1. Silent(inbox')
    BY <1>0, <1>8, SilentDeliver
  <2>2. UNCHANGED <<created, hostOf, seen, transport, disposed>>
    BY <1>8 DEF Deliver, DeliverBuffered, OnMessage, linkVars
  <2>3. QED BY <1>4, <1>8, <2>1, <2>2
<1>9. ASSUME NEW e \in End,
             \/ Register(e) \/ Unregister(e)
             \/ Pause(e) \/ ResumeSoon(e) \/ ResumeTimer(e)
             \/ \E S \in SUBSET Id : DisposeConnector(e, S)
      PROVE  UNCHANGED <<created, hostOf, inbox, seen, transport, disposed>>
  BY <1>9 DEF Register, Unregister, Pause, ResumeSoon, ResumeTimer, DisposeConnector, linkVars, connVars
<1>10. CASE UNCHANGED vars
  BY <1>1, <1>10 DEF vars, linkVars, connVars
<1>11. CASE Next
  BY <1>0, <1>1, <1>2, <1>3, <1>6, <1>7, <1>8, <1>9, <1>11, SilentBind, SilentReset DEF Next
<1>12. QED BY <1>10, <1>11

LEMMA RanOnMessage ==
  ASSUME TypeOK, RanInv, NEW e \in End, NEW m \in Message, NEW box, OnMessage(e, m, box)
  PROVE  /\ RanInv'
         /\ \A f \in End, c \in Call :
              /\ execs[f][c] > 0 => execs'[f][c] > 0
              /\ execs'[f][c] # execs[f][c] =>
                   /\ f = e /\ m = Request(c) /\ cached[e][c[2]] = NoCall /\ execs'[f][c] > 0
                   /\ ~paused[e] /\ registered[e]
<1>0. /\ execs \in [End -> [Call -> Nat]] /\ cached \in [End -> [Id -> Call \cup {NoCall}]]
      /\ running \in [End -> SUBSET Run]
  BY DEF TypeOK
<1>1. \/ /\ execs' = execs
         /\ \A f \in End : /\ running'[f] = running[f]
                           /\ \A id \in Id : cached'[f][id] \in {cached[f][id], NoCall}
      \/ /\ m.type = "REQUEST" /\ m.call \notin NoMethod /\ cached[e][m.call[2]] = NoCall
         /\ ~paused[e] /\ registered[e]
         /\ execs' = [execs EXCEPT ![e][m.call] = @ + 1]
         /\ running' = [running EXCEPT ![e] = @ \cup
              {[call |-> m.call, uid |-> connectedTo[e], n |-> execs[e][m.call]]}]
         /\ cached' = cached
  <2>1. CASE OnHandshake(e, m, box)
    BY <1>0, <2>1 DEF OnHandshake
  <2>2. CASE OnResponseAck(e, m, box)
    <3>1. m.id \in Id
      BY <2>2 DEF OnResponseAck, Message, Handshake, Payload
    <3>2. QED BY <1>0, <2>2, <3>1 DEF OnResponseAck
  <2>3. CASE UNCHANGED serverVars
    BY <2>3 DEF serverVars
  <2>4. CASE ~paused[e] /\ OnRequest(e, m, box)
    BY <2>4 DEF OnRequest
  <2>5. QED BY <2>1, <2>2, <2>3, <2>4 DEF OnMessage, OnResponse
<1>2. CASE /\ execs' = execs
           /\ \A f \in End : /\ running'[f] = running[f]
                             /\ \A id \in Id : cached'[f][id] \in {cached[f][id], NoCall}
  BY <1>2 DEF RanInv
<1>3. CASE /\ m.type = "REQUEST" /\ m.call \notin NoMethod /\ cached[e][m.call[2]] = NoCall
           /\ ~paused[e] /\ registered[e]
           /\ execs' = [execs EXCEPT ![e][m.call] = @ + 1]
           /\ running' = [running EXCEPT ![e] = @ \cup
                {[call |-> m.call, uid |-> connectedTo[e], n |-> execs[e][m.call]]}]
           /\ cached' = cached
  <2>1. PICK c \in Call : c = m.call /\ m = Request(c)
    BY <1>3, RequestIsItsCall
  <2>2. \A f \in End, d \in Call :
          /\ execs'[f][d] = IF f = e /\ d = c THEN execs[f][d] + 1 ELSE execs[f][d]
          /\ execs[f][d] \in Nat
    BY <1>0, <1>3, <2>1
  <2>3. \A f \in End, d \in Call :
          /\ execs[f][d] > 0 => execs'[f][d] > 0
          /\ execs'[f][d] # execs[f][d] => f = e /\ d = c /\ execs'[f][d] > 0
    BY <2>2
  <2>4. execs'[e][c] > 0
    BY <2>2
  <2>5. \A f \in End : \A r \in running'[f] : r \in running[f] \/ (f = e /\ r.call = c)
    BY <1>0, <1>3, <2>1
  <2>6. \A f \in End : \A r \in running[f] : r.call \in Call
    BY <1>0 DEF Run
  <2>7. ASSUME NEW f \in End, NEW r \in running'[f] PROVE execs'[f][r.call] > 0
    BY <2>3, <2>4, <2>5, <2>6 DEF RanInv
  <2>8. ASSUME NEW f \in End, NEW id \in Id, cached'[f][id] # NoCall
        PROVE  execs'[f][cached'[f][id]] > 0
    <3>1. cached'[f][id] = cached[f][id] /\ cached[f][id] \in Call
      BY <1>0, <1>3, <2>8
    <3>2. execs[f][cached[f][id]] > 0
      BY <2>8, <3>1 DEF RanInv
    <3>3. QED BY <2>3, <3>1, <3>2
  <2>9. \A f \in End, d \in Call : d \in NoMethod => execs'[f][d] = 0
    BY <1>3, <2>1, <2>2 DEF RanInv
  <2>10. RanInv'
    BY <2>7, <2>8, <2>9 DEF RanInv
  <2>11. QED BY <1>3, <2>1, <2>3, <2>10
<1>4. QED BY <1>1, <1>2, <1>3

LEMMA RanNext ==
  ASSUME TypeOK, RanInv, [Next]_vars
  PROVE  /\ RanInv'
         /\ \A f \in End, c \in Call : execs[f][c] > 0 => execs'[f][c] > 0
<1>1. CASE UNCHANGED serverVars
  BY <1>1 DEF serverVars, RanInv
<1>2. ASSUME NEW e \in End, NEW r \in running[e], FinishHandler(e, r)
      PROVE  RanInv' /\ execs' = execs
  <2>1. /\ execs' = execs /\ running' = [running EXCEPT ![e] = @ \ {r}]
        /\ cached' = cached \/ cached' = [cached EXCEPT ![e][r.call[2]] = r.call]
        /\ cached \in [End -> [Id -> Call \cup {NoCall}]] /\ running \in [End -> SUBSET Run]
    BY <1>2 DEF FinishHandler, TypeOK
  <2>2. PICK c \in Call : c = r.call /\ c[2] \in Id /\ execs[e][c] > 0
    BY <2>1, MessageTypes DEF Run, RanInv
  <2>3. \A f \in End : running'[f] \subseteq running[f]
    BY <2>1
  <2>4. \A f \in End, id \in Id : cached'[f][id] = cached[f][id] \/ (f = e /\ cached'[f][id] = c)
    BY <2>1, <2>2
  <2>5. QED BY <2>1, <2>2, <2>3, <2>4 DEF RanInv
<1>3. ASSUME NEW e \in End, Deliver(e) \/ DeliverBuffered(e)
      PROVE  RanInv' /\ \A f \in End, c \in Call : execs[f][c] > 0 => execs'[f][c] > 0
  <2>1. PICK m \in Message : \E box : OnMessage(e, m, box)
    <3>1. CASE Deliver(e)
      <4> DEFINE a == transport[e]
                 box == [inbox EXCEPT ![a][Side(e)] = Tail(@)]
                 m == Head(inbox[a][Side(e)])
      <4>1. /\ a \in Actor /\ inbox[a][Side(e)] # <<>> /\ OnMessage(e, m, box)
            /\ Side(e) \in {"parent", "content"} /\ inbox \in InboxType
        BY <3>1, TypeParts, ConstantTypes DEF Deliver, Actor, NoActor, Side
      <4>2. m \in Message
        BY <4>1, TailType
      <4> HIDE DEF box, m
      <4>3. QED BY <4>1, <4>2
    <3>2. CASE DeliverBuffered(e)
      <4>1. drain[e] \in Seq(Payload) /\ drain[e] # <<>>
        BY <3>2 DEF DeliverBuffered, TypeOK
      <4>2. Head(drain[e]) \in Payload
        BY <4>1
      <4>3. QED BY <3>2, <4>2 DEF DeliverBuffered, Message
    <3>3. QED BY <1>3, <3>1, <3>2
  <2>2. QED BY <2>1, RanOnMessage
<1>4. CASE UNCHANGED vars
  BY <1>1, <1>4 DEF vars
<1>5. CASE Next
  <2>1. ASSUME ~UNCHANGED serverVars
        PROVE  \E e \in End : \/ Deliver(e) \/ DeliverBuffered(e)
                              \/ \E r \in running[e] : FinishHandler(e, r)
    BY <1>5, <2>1 DEF Next, CreateActor, BindToActor, ResetTransport, LoseMessage, Send, Dispose,
       DisposeConnector, Register, Unregister, Pause, ResumeSoon, ResumeTimer, serverVars
  <2>2. QED BY <1>1, <1>2, <1>3, <2>1
<1>6. QED BY <1>4, <1>5

-----------------------------------------------------------------------------
(* ... and on every queue at once *)

LEMMA PairFacts ==
  ASSUME NEW s \in End, NEW a \in Actor, OnPair(s, a)
  PROVE  /\ Peer(s, a) \in End /\ OnPair(Peer(s, a), a)
         /\ Peer(Peer(s, a), a) = s /\ Side(Peer(s, a)) = Other(s)
         /\ \A f \in End : OnPair(f, a) /\ Other(f) = Other(s) => f = s
         /\ s # Parent => hostOf[a] = s
<1>1. CASE s = Parent
  BY <1>1, EndKinds DEF OnPair, Peer
<1>2. CASE s # Parent
  BY <1>2, EndKinds DEF OnPair, Peer
<1>3. QED BY <1>1, <1>2

LEMMA BoundPair ==
  ASSUME PeerInv, Hosted, NEW s \in End, transport[s] # NoActor
  PROVE  transport[s] \in Actor /\ OnPair(s, transport[s]) /\ transport[s] <= created
<1>1. /\ transport[s] \in 0..NActor /\ transport[s] <= created
      /\ s # Parent => hostOf[transport[s]] = s
  BY TypeParts DEF PeerInv, BoundInv
<1>2. transport[s] \in Actor
  BY <1>1 DEF Actor, NoActor
<1>3. QED BY <1>1, <1>2 DEF Hosted, OnPair

LEMMA QueueGrows ==
  ASSUME NEW box, NEW S, NEW R, NEW T, NEW Q, QueueOrder(box, S, R),
         \A f \in End : T[f] \subseteq S[f] /\ R[f] \subseteq Q[f]
  PROVE  QueueOrder(box, T, Q)
<1> SUFFICES ASSUME NEW s \in End, NEW a \in Actor, OnPair(s, a)
             PROVE  Ahead(box[a][Other(s)], s, T[s], Q[Peer(s, a)])
  BY DEF QueueOrder
<1>1. Peer(s, a) \in End
  BY PairFacts
<1>2. Ahead(box[a][Other(s)], s, S[s], R[Peer(s, a)])
  BY DEF QueueOrder
<1>3. QED BY <1>1, <1>2, AheadGrows

LEMMA QueueForget ==
  ASSUME NEW box, NEW new, NEW S, NEW R, QueueOrder(box, S, R),
         \A a \in Actor, t \in {"parent", "content"} :
           new[a][t] = box[a][t] \/ NoRequest(new[a][t])
  PROVE  QueueOrder(new, S, R)
<1> SUFFICES ASSUME NEW s \in End, NEW a \in Actor, OnPair(s, a)
             PROVE  Ahead(new[a][Other(s)], s, S[s], R[Peer(s, a)])
  BY DEF QueueOrder
<1>1. Other(s) \in {"parent", "content"}
  BY ConstantTypes
<1>2. CASE NoRequest(new[a][Other(s)])
  BY <1>2, AheadNone
<1>3. CASE new[a][Other(s)] = box[a][Other(s)]
  BY <1>3 DEF QueueOrder
<1>4. QED BY <1>1, <1>2, <1>3

LEMMA QueuePost ==
  ASSUME NEW box \in InboxType, NEW e \in End, NEW a \in 0..NActor, NEW ms \in Seq(Message),
         NEW S, NEW R, QueueOrder(box, S, R), a # NoActor => OnPair(e, a),
         a # NoActor /\ ~Deaf(Peer(e, a), a) =>
           Ahead(ms, e, S[e], R[Peer(e, a)] \cup Held(box[a][Other(e)]))
  PROVE  QueueOrder(Post(box, e, a, ms), S, R)
<1> DEFINE new == Post(box, e, a, ms)
<1>1. \/ new = box
      \/ /\ a \in Actor /\ ~Deaf(Peer(e, a), a)
         /\ new[a][Other(e)] = box[a][Other(e)] \o ms
         /\ \A b \in Actor, t \in {"parent", "content"} :
              b # a \/ t # Other(e) => new[b][t] = box[b][t]
  BY PostFacts, ZenonT(30)
<1> HIDE DEF new
<1>2. CASE new = box
  BY <1>2 DEF new
<1>3. CASE new # box
  <2>1. /\ a \in Actor /\ a # NoActor /\ ~Deaf(Peer(e, a), a)
        /\ new[a][Other(e)] = box[a][Other(e)] \o ms
        /\ \A b \in Actor, t \in {"parent", "content"} :
              b # a \/ t # Other(e) => new[b][t] = box[b][t]
    BY <1>1, <1>3 DEF Actor, NoActor
  <2>2. Other(e) \in {"parent", "content"} /\ box[a][Other(e)] \in Seq(Message) /\ OnPair(e, a)
    BY <2>1, ConstantTypes DEF InboxType
  <2>3. Ahead(box[a][Other(e)], e, S[e], R[Peer(e, a)])
    BY <2>1, <2>2 DEF QueueOrder
  <2>4. Ahead(new[a][Other(e)], e, S[e], R[Peer(e, a)])
    BY <2>1, <2>2, <2>3, AheadConcat
  <2>5. ASSUME NEW s \in End, NEW b \in Actor, OnPair(s, b)
        PROVE  Ahead(new[b][Other(s)], s, S[s], R[Peer(s, b)])
    <3>1. CASE b = a /\ Other(s) = Other(e)
      <4>1. s = e
        BY <2>2, <2>5, <3>1, PairFacts
      <4>2. QED BY <2>4, <3>1, <4>1
    <3>2. CASE ~(b = a /\ Other(s) = Other(e))
      <4>1. new[b][Other(s)] = box[b][Other(s)]
        BY <2>1, <3>2, ConstantTypes
      <4>2. QED BY <2>5, <4>1 DEF QueueOrder
    <3>3. QED BY <3>1, <3>2
  <2>6. QED BY <2>5 DEF QueueOrder, new
<1>4. QED BY <1>2, <1>3

LEMMA QueueTail ==
  ASSUME NEW box \in InboxType, NEW e \in End, NEW a \in Actor, OnPair(e, a),
         box[a][Side(e)] # <<>>, NEW S, NEW R, NEW Q, QueueOrder(box, S, R),
         \A f \in End : R[f] \subseteq Q[f],
         \A c \in Call : Head(box[a][Side(e)]) = Request(c) => c \in Q[e],
         \A f \in End : \A j \in S[f] : <<f, j>> \in Call
  PROVE  QueueOrder([box EXCEPT ![a][Side(e)] = Tail(@)], S, Q)
<1> DEFINE new == [box EXCEPT ![a][Side(e)] = Tail(@)]
<1>0. PICK side \in {"parent", "content"} : side = Side(e)
  BY ConstantTypes
<1>1. \A b \in Actor, t \in {"parent", "content"} :
        new[b][t] = IF b = a /\ t = side THEN Tail(box[a][side]) ELSE box[b][t]
  <2>1. \A b \in Actor, t \in {"parent", "content"} :
          [box EXCEPT ![a][side] = Tail(@)][b][t] =
            IF b = a /\ t = side THEN Tail(box[a][side]) ELSE box[b][t]
    BY DEF InboxType
  <2>2. QED BY <1>0, <2>1
<1>2. box[a][side] \in Seq(Message) /\ box[a][side] # <<>>
  BY <1>0 DEF InboxType
<1>3. QueueOrder(box, S, Q)
  BY QueueGrows
<1> HIDE DEF new
<1>4. ASSUME NEW s \in End, NEW b \in Actor, OnPair(s, b)
      PROVE  Ahead(new[b][Other(s)], s, S[s], Q[Peer(s, b)])
  <2>1. Other(s) \in {"parent", "content"} /\ Ahead(box[b][Other(s)], s, S[s], Q[Peer(s, b)])
    BY <1>3, <1>4, ConstantTypes DEF QueueOrder
  <2>2. CASE b = a /\ Other(s) = side
    <3>1. Peer(s, b) = e
      <4>1. Peer(e, a) \in End /\ OnPair(Peer(e, a), a) /\ Peer(Peer(e, a), a) = e
        BY PairFacts
      <4>2. Side(Peer(Peer(e, a), a)) = Other(Peer(e, a))
        BY <4>1, PairFacts
      <4>3. Other(s) = Other(Peer(e, a))
        BY <1>0, <2>2, <4>1, <4>2
      <4>4. s = Peer(e, a)
        BY <1>4, <2>2, <4>1, <4>3, PairFacts
      <4>5. QED BY <2>2, <4>1, <4>4
    <3>2. Ahead(box[a][side], s, S[s], Q[e])
      BY <2>1, <2>2, <3>1
    <3>3. Ahead(Tail(box[a][side]), s, S[s], Q[e])
      <4>1. \A c \in Call : Head(box[a][side]) = Request(c) => c \in Q[e]
        BY <1>0
      <4>2. \A j \in S[s] : <<s, j>> \in Call
        OBVIOUS
      <4>3. QED BY <1>2, <3>2, <4>1, <4>2, AheadTail
    <3>4. QED BY <1>1, <2>1, <2>2, <3>1, <3>3
  <2>3. CASE ~(b = a /\ Other(s) = side)
    BY <1>1, <2>1, <2>3
  <2>4. QED BY <2>2, <2>3
<1>5. QED BY <1>4 DEF QueueOrder, new

LEMMA QueueHead ==
  ASSUME NEW box \in InboxType, NEW e \in End, NEW a \in Actor, OnPair(e, a),
         box[a][Side(e)] # <<>>, NEW S, NEW R, QueueOrder(box, S, R),
         Head(box[a][Side(e)]).type = "REQUEST"
  PROVE  \A j \in S[Peer(e, a)] :
            j < Head(box[a][Side(e)]).call[2] => <<Peer(e, a), j>> \in R[e]
<1> DEFINE s == Peer(e, a)
           q == box[a][Side(e)]
<1>1. s \in End /\ OnPair(s, a) /\ Peer(s, a) = e /\ Side(Peer(s, a)) = Other(s)
  BY PairFacts
<1>2. q = box[a][Other(s)] /\ q \in Seq(Message) /\ q # <<>>
  BY <1>1, ConstantTypes DEF InboxType
<1>3. Ahead(q, s, S[s], R[e])
  BY <1>1, <1>2 DEF QueueOrder
<1> HIDE DEF s, q
<1>4. 1 \in 1..Len(q) /\ Head(q) = q[1] /\ \A x \in 1..Len(q) : ~(x < 1)
  BY <1>2
<1>5. \A j \in S[s] : j < Head(q).call[2] => <<s, j>> \in R[e]
  BY <1>3, <1>4 DEF Ahead, q
<1>6. QED BY <1>5 DEF s, q

\* An end answers a request from the responses it keeps with its own.
LEMMA KeptIsAsked ==
  ASSUME DistinctUids, OwnInv, NEW e \in End, Deliver(e), NEW m \in Message,
         m = Head(inbox[transport[e]][Side(e)]), m.type = "REQUEST"
  PROVE  /\ m.call \in Call /\ m = Request(m.call) /\ m.call[2] \in Id
         /\ m.call = <<Peer(e, transport[e]), m.call[2]>>
         /\ cached[e][m.call[2]] \in {NoCall, m.call}
<1>0. /\ TypeOK /\ BoundInv /\ WireOwn(inbox) /\ ContentOwn /\ inbox \in InboxType
      /\ transport[e] \in 0..NActor
  BY TypeParts DEF OwnInv, PeerInv, PairOwn, KeptOwn
<1> DEFINE a == transport[e]
<1>1. a \in Actor /\ inbox[a][Side(e)] # <<>> /\ (e # Parent => hostOf[a] = e)
  BY <1>0 DEF Deliver, Actor, NoActor, BoundInv
<1>2. /\ m.call \in Call /\ m = Request(m.call) /\ m.call[2] \in Id
      /\ m.call = <<m.call[1], m.call[2]>>
  BY RequestIsItsCall, MessageTypes
<1>3. Fits(m, Peer(e, a), e)
  BY <1>0, <1>1, OwnTail
<1>4. m.call[1] = Peer(e, a)
  BY <1>3 DEF Fits
<1>5. cached[e][m.call[2]] \in {NoCall, <<Peer(e, a), m.call[2]>>}
  <2>1. CASE e = Parent
    <3>1. \A id \in Id : cached[Parent][id] \in {NoCall, <<hostOf[transport[Parent]], id>>}
      BY <2>1, EndKinds, ParentKeepsOwn
    <3>2. QED BY <1>2, <2>1, <3>1 DEF Peer
  <2>2. CASE e # Parent
    BY <1>0, <1>2, <2>2, EndKinds DEF ContentOwn, Peer
  <2>3. QED BY <2>1, <2>2
<1>6. QED BY <1>2, <1>4, <1>5

\* A request that arrives has been run, or is run, answered or held back.
LEMMA RequestLands ==
  ASSUME TypeOK, RanInv, NEW e \in End, NEW m \in Message, NEW box, OnMessage(e, m, box),
         m.type = "REQUEST" => cached[e][m.call[2]] \in {NoCall, m.call}
  PROVE  /\ \A f \in End : Ran(f) \subseteq Ran(f)' /\ Got(f) \subseteq Got(f)'
         /\ \A f \in End : f # e => buffer'[f] = buffer[f]
         /\ \/ buffer'[e] = buffer[e]
            \/ m \in Payload /\ buffer'[e] = Append(buffer[e], m)
         /\ \A c \in Call : m = Request(c) => c \in Got(e)'
<1>0. buffer \in [End -> Seq(Payload)] /\ Payload \subseteq Message
  BY MessageTypes DEF TypeOK
<1>1. /\ \A f \in End : Ran(f) \subseteq Ran(f)'
      /\ \A f \in End, c \in Call : execs'[f][c] > 0 => c \in Ran(f)'
  BY RanOnMessage DEF Ran
<1>2. \/ buffer' = buffer
      \/ m \in Payload /\ buffer' = [buffer EXCEPT ![e] = Append(@, m)]
  BY DEF OnMessage, OnHandshake, OnResponseAck, OnResponse, OnRequest, Message, Handshake, Payload
<1>3. /\ \A f \in End : f # e => buffer'[f] = buffer[f]
      /\ \/ buffer'[e] = buffer[e]
         \/ m \in Payload /\ buffer'[e] = Append(buffer[e], m)
  BY <1>0, <1>2
<1>4. \A f \in End : Held(buffer[f]) \subseteq Held(buffer'[f])
  <2> SUFFICES ASSUME NEW f \in End PROVE Held(buffer[f]) \subseteq Held(buffer'[f])
    OBVIOUS
  <2>1. CASE buffer'[f] = buffer[f]
    BY <2>1
  <2>2. CASE buffer'[f] # buffer[f]
    <3>1. f = e /\ m \in Payload /\ buffer'[f] = Append(buffer[f], m)
      BY <1>3, <2>2
    <3>2. buffer[f] \in Seq(Payload) /\ buffer'[f] = buffer[f] \o <<m>>
      BY <1>0, <3>1
    <3>3. buffer[f] \in Seq(Message) /\ <<m>> \in Seq(Message)
      BY <1>0, <3>2
    <3>4. Held(buffer[f] \o <<m>>) = Held(buffer[f]) \cup Held(<<m>>)
      BY <3>3, HeldConcat
    <3>5. QED BY <3>2, <3>4
  <2>3. QED BY <2>1, <2>2
<1>5. ASSUME NEW c \in Call, m = Request(c) PROVE c \in Got(e)'
  <2>1. m.type = "REQUEST" /\ m.call = c
    BY <1>5, RequestIsItsCall
  <2>2. \/ cached[e][c[2]] # NoCall
        \/ buffer' = [buffer EXCEPT ![e] = Append(@, m)]
        \/ c \in NoMethod
        \/ execs' = [execs EXCEPT ![e][c] = @ + 1]
    BY <2>1 DEF OnMessage, OnHandshake, OnResponseAck, OnResponse, OnRequest
  <2>3. CASE cached[e][c[2]] # NoCall
    <3>1. cached[e][c[2]] = c /\ c[2] \in Id
      BY <2>1, <2>3, MessageTypes
    <3>2. execs[e][c] > 0
      BY <2>3, <3>1 DEF RanInv
    <3>3. QED BY <1>1, <3>2 DEF Got, Ran
  <2>4. CASE buffer' = [buffer EXCEPT ![e] = Append(@, m)]
    <3>1. buffer[e] \in Seq(Message) /\ <<m>> \in Seq(Message)
          /\ buffer'[e] = buffer[e] \o <<m>>
      BY <1>0, <2>4
    <3>2. Held(buffer'[e]) = Held(buffer[e]) \cup Held(<<m>>)
      BY <3>1, HeldConcat
    <3>3. Held(<<m>>) = {c}
      BY <1>5, HeldNone
    <3>4. QED BY <3>2, <3>3 DEF Got
  <2>5. CASE c \in NoMethod
    BY <2>5 DEF Got, Ran
  <2>6. CASE execs' = [execs EXCEPT ![e][c] = @ + 1]
    <3>1. execs[e][c] \in Nat /\ execs'[e][c] = execs[e][c] + 1
      BY <2>6 DEF TypeOK
    <3>2. execs'[e][c] > 0
      BY <3>1
    <3>3. QED BY <3>2 DEF Got, Ran
  <2>7. QED BY <2>2, <2>3, <2>4, <2>5, <2>6
<1>6. \A f \in End : Got(f) \subseteq Got(f)'
  BY <1>1, <1>4 DEF Got
<1>7. QED BY <1>1, <1>3, <1>5, <1>6

LEMMA PostHolds ==
  ASSUME NEW box \in InboxType, NEW e \in End, NEW a \in 0..NActor, NEW ms \in Seq(Message)
  PROVE  /\ \A b \in Actor, t \in {"parent", "content"} :
              Held(box[b][t]) \subseteq Held(Post(box, e, a, ms)[b][t])
         /\ a \in Actor /\ ~Deaf(Peer(e, a), a) =>
              Held(ms) \subseteq Held(Post(box, e, a, ms)[a][Other(e)])
<1> DEFINE new == Post(box, e, a, ms)
<1>0. PICK side \in {"parent", "content"} : side = Other(e)
  BY ConstantTypes
<1>1. \/ new = box
      \/ /\ a \in Actor
         /\ new[a][side] = box[a][side] \o ms
         /\ \A b \in Actor, t \in {"parent", "content"} :
              b # a \/ t # side => new[b][t] = box[b][t]
  <2>1. \/ new = box
        \/ /\ a \in Actor /\ ~Deaf(Peer(e, a), a)
           /\ new[a][Other(e)] = box[a][Other(e)] \o ms
           /\ \A b \in Actor, t \in {"parent", "content"} :
                b # a \/ t # Other(e) => new[b][t] = box[b][t]
    BY PostFacts, ZenonT(30)
  <2> HIDE DEF new
  <2>2. QED BY <1>0, <2>1
<1>2. a \in Actor /\ ~Deaf(Peer(e, a), a) => new[a][side] = box[a][side] \o ms
  BY <1>0 DEF Post, Actor, NoActor, InboxType
<1>3. a \in Actor => Held(box[a][side] \o ms) = Held(box[a][side]) \cup Held(ms)
  <2>1. a \in Actor => box[a][side] \in Seq(Message)
    BY DEF InboxType
  <2>2. QED BY <2>1, HeldConcat
<1> HIDE DEF new
<1>4. \A b \in Actor, t \in {"parent", "content"} : Held(box[b][t]) \subseteq Held(new[b][t])
  BY <1>1, <1>3
<1>5. a \in Actor /\ ~Deaf(Peer(e, a), a) => Held(ms) \subseteq Held(new[a][side])
  BY <1>2, <1>3
<1>6. QED BY <1>0, <1>4, <1>5 DEF new

LEMMA PostedPost ==
  ASSUME NEW box \in InboxType, NEW e \in End, NEW a \in 0..NActor, NEW ms \in Seq(Message),
         NEW isReady, NEW S, NEW R, Posted(box, isReady, S, R),
         \A s \in End : isReady[s] => transport[s] \in Actor
  PROVE  Posted(Post(box, e, a, ms), isReady, S, R)
<1>1. \A b \in Actor, t \in {"parent", "content"} :
        Held(box[b][t]) \subseteq Held(Post(box, e, a, ms)[b][t])
  BY PostHolds
<1>2. \A s \in End : Other(s) \in {"parent", "content"}
  BY ConstantTypes
<1> DEFINE new == Post(box, e, a, ms)
<1>3. \A b \in Actor, t \in {"parent", "content"} : Held(box[b][t]) \subseteq Held(new[b][t])
  BY <1>1
<1> HIDE DEF new
<1>4. Posted(new, isReady, S, R)
  BY <1>2, <1>3 DEF Posted
<1>5. QED BY <1>4 DEF new

\* What an end sends on a message is in order, and all that is pending when it
\* becomes ready.
LEMMA OrderMessage ==
  ASSUME PeerInv, PeerInv', Hosted, NEW e \in End, NEW m \in Message, NEW box \in InboxType,
         OnMessage(e, m, box), NEW R,
         QueueOrder(box, pending, R), Posted(box, ready, pending, R)
  PROVE  /\ QueueOrder(inbox', pending', R)
         /\ Posted(inbox', ready', pending', R)
<1>0. /\ TypeOK /\ pending \in [End -> SUBSET Id] /\ ready \in [End -> BOOLEAN]
      /\ \A f \in End : pending[f] \subseteq 1..MaxRequest[f]
      /\ transport[e] \in 0..NActor /\ transport' = transport
  BY TypeParts DEF PeerInv, OnMessage, TypeOK
<1>1. \A f \in End : pending'[f] \subseteq pending[f]
  BY <1>0 DEF OnMessage, OnHandshake, OnResponseAck, OnResponse, OnRequest, requestVars
<1>2. PICK ms \in Seq(Message) :
        /\ inbox' = Post(box, e, transport[e], ms) \/ (inbox' = box /\ ms = <<>>)
        /\ \/ NoRequest(ms) /\ ready' = ready
           \/ /\ ~ready[e] /\ ready' = [ready EXCEPT ![e] = TRUE]
              /\ \E before \in Seq(Message), s \in Ascending(pending[e]) :
                   NoRequest(before) /\ ms = before \o Requests(e, s)
  BY <1>0, MessageSends
<1>3. \A s \in End : transport[s] # NoActor => transport[s] \in Actor /\ OnPair(s, transport[s])
  BY BoundPair
<1>4. \A s \in End : ready[s] => transport[s] \in Actor
  BY <1>3 DEF PeerInv, ReadyMeansPeer
<1>5. /\ Ahead(ms, e, pending[e], {})
      /\ ready' # ready => \A j \in pending[e] : <<e, j>> \in Held(ms)
  <2>1. CASE NoRequest(ms) /\ ready' = ready
    BY <2>1, AheadNone
  <2>2. CASE ~(NoRequest(ms) /\ ready' = ready)
    <3>1. PICK before \in Seq(Message), s \in Ascending(pending[e]) :
            NoRequest(before) /\ ms = before \o Requests(e, s)
      BY <1>2, <2>2
    <3>2. /\ pending[e] \subseteq 1..MaxRequest[e] /\ pending[e] \subseteq Id
          /\ Requests(e, s) \in Seq(Message)
      <4>1. pending[e] \subseteq 1..MaxRequest[e] /\ pending[e] \subseteq Id
        BY <1>0
      <4>2. QED BY <4>1, RequestsType
    <3>3. /\ Ahead(Requests(e, s), e, pending[e], {})
          /\ \A j \in pending[e] : <<e, j>> \in Held(Requests(e, s))
      BY <3>2, AheadAgain
    <3>4. Ahead(before, e, pending[e], {})
      BY <3>1, AheadNone
    <3>5. Ahead(Requests(e, s), e, pending[e], {} \cup Held(before))
      BY <3>3, AheadGrows
    <3>6. Ahead(ms, e, pending[e], {})
      BY <3>1, <3>2, <3>4, <3>5, AheadConcat
    <3>7. Held(ms) = Held(before) \cup Held(Requests(e, s))
      BY <3>1, <3>2, HeldConcat
    <3>8. QED BY <3>3, <3>6, <3>7
  <2>3. QED BY <2>1, <2>2
<1>6. QueueOrder(Post(box, e, transport[e], ms), pending, R)
  <2>1. \A G : Ahead(ms, e, pending[e], G)
    BY <1>5, AheadGrows
  <2>2. QED BY <1>0, <1>3, <2>1, QueuePost
<1>7. QueueOrder(inbox', pending, R)
  BY <1>2, <1>6
<1>8. QueueOrder(inbox', pending', R)
  BY <1>1, <1>7, QueueGrows
<1>9. Posted(Post(box, e, transport[e], ms), ready, pending, R)
  BY <1>0, <1>4, PostedPost
<1>10. Posted(inbox', ready, pending, R)
  BY <1>2, <1>9
<1>11. Posted(inbox', ready, pending', R)
  BY <1>1, <1>10 DEF Posted
<1>12. CASE ready' = ready
  BY <1>8, <1>11, <1>12
<1>13. CASE ready' # ready
  <2>1. ready' = [ready EXCEPT ![e] = TRUE]
    BY <1>2, <1>13
  <2>2. \A f \in End : f # e => ready'[f] = ready[f]
    BY <1>0, <2>1
  <2>3. transport[e] \in Actor
    <3>1. ready'[e]
      BY <1>0, <2>1
    <3>2. transport'[e] # NoActor
      BY <3>1 DEF PeerInv, ReadyMeansPeer
    <3>3. QED BY <1>0, <1>3, <3>2
  <2>4. inbox' = Post(box, e, transport[e], ms) \/ ms = <<>>
    BY <1>2
  <2>5. ~Deaf(Peer(e, transport[e]), transport[e]) =>
          \A j \in pending[e] : <<e, j>> \in Held(inbox'[transport[e]][Other(e)])
    <3>1. CASE inbox' = Post(box, e, transport[e], ms)
      <4>1. transport[e] \in Actor /\ ~Deaf(Peer(e, transport[e]), transport[e]) =>
              Held(ms) \subseteq Held(Post(box, e, transport[e], ms)[transport[e]][Other(e)])
        BY <1>0, PostHolds
      <4>2. QED BY <1>5, <1>13, <2>3, <3>1, <4>1
    <3>2. CASE ms = <<>>
      BY <1>5, <1>13, <3>2, HeldNone
    <3>3. QED BY <2>4, <3>1, <3>2
  <2>6. \A j \in pending'[e] : j \in pending[e]
    BY <1>1
  <2>7. ASSUME NEW s \in End, ready'[s], ~Deaf(Peer(s, transport[s]), transport[s]),
               NEW j \in pending'[s]
        PROVE  <<s, j>> \in R[Peer(s, transport[s])] \cup Held(inbox'[transport[s]][Other(s)])
    <3>1. CASE s = e
      BY <2>5, <2>6, <2>7, <3>1
    <3>2. CASE s # e
      BY <1>11, <2>2, <2>7, <3>2 DEF Posted
    <3>3. QED BY <3>1, <3>2
  <2>8. QED BY <1>8, <2>7 DEF Posted
<1>14. QED BY <1>8, <1>12, <1>11, <1>13

LEMMA AheadAppend ==
  ASSUME NEW q \in Seq(Message), NEW m \in Message, NEW s, NEW S, NEW G, Ahead(q, s, S, G),
         m.type = "REQUEST" => \A j \in S : j < m.call[2] => <<s, j>> \in G \cup Held(q)
  PROVE  Ahead(Append(q, m), s, S, G)
<1>1. <<m>> \in Seq(Message) /\ Append(q, m) = q \o <<m>>
  OBVIOUS
<1>2. Ahead(<<m>>, s, S, G \cup Held(q))
  <2>1. \A p \in 1..Len(<<m>>) : <<m>>[p] = m
    OBVIOUS
  <2>2. QED BY <2>1 DEF Ahead
<1>3. QED BY <1>1, <1>2, AheadConcat

LEMMA PostedTail ==
  ASSUME NEW box \in InboxType, NEW e \in End, NEW a \in Actor, OnPair(e, a),
         box[a][Side(e)] # <<>>, NEW isReady, NEW S, NEW R, NEW Q, Posted(box, isReady, S, R),
         \A f \in End : R[f] \subseteq Q[f],
         \A c \in Call : Head(box[a][Side(e)]) = Request(c) => c \in Q[e],
         \A s \in End : isReady[s] => transport[s] \in Actor /\ OnPair(s, transport[s])
  PROVE  Posted([box EXCEPT ![a][Side(e)] = Tail(@)], isReady, S, Q)
<1> DEFINE new == [box EXCEPT ![a][Side(e)] = Tail(@)]
<1>0. PICK side \in {"parent", "content"} : side = Side(e)
  BY ConstantTypes
<1>1. \A b \in Actor, t \in {"parent", "content"} :
        new[b][t] = IF b = a /\ t = side THEN Tail(box[a][side]) ELSE box[b][t]
  <2>1. \A b \in Actor, t \in {"parent", "content"} :
          [box EXCEPT ![a][side] = Tail(@)][b][t] =
            IF b = a /\ t = side THEN Tail(box[a][side]) ELSE box[b][t]
    BY DEF InboxType
  <2>2. QED BY <1>0, <2>1
<1>2. box[a][side] \in Seq(Message) /\ box[a][side] # <<>>
  BY <1>0 DEF InboxType
<1>3. \A c \in Held(box[a][side]) : c \in Held(Tail(box[a][side])) \/ c \in Q[e]
  <2>1. \A c \in Held(box[a][side]) : c \in Held(Tail(box[a][side])) \/ Head(box[a][side]) = Request(c)
    BY <1>2, HeldTail
  <2>2. \A c \in Held(box[a][side]) : c \in Call
    BY DEF Held
  <2>3. QED BY <1>0, <2>1, <2>2
<1> HIDE DEF new
<1>4. ASSUME NEW s \in End, isReady[s], ~Deaf(Peer(s, transport[s]), transport[s]), NEW j \in S[s]
      PROVE  <<s, j>> \in Q[Peer(s, transport[s])] \cup Held(new[transport[s]][Other(s)])
  <2>1. PICK b \in Actor : b = transport[s]
    BY <1>4
  <2>2. /\ OnPair(s, b) /\ Other(s) \in {"parent", "content"} /\ Peer(s, b) \in End
        /\ Side(Peer(s, b)) = Other(s) /\ OnPair(Peer(s, b), b)
    BY <1>4, <2>1, PairFacts, ConstantTypes
  <2>3. <<s, j>> \in R[Peer(s, b)] \cup Held(box[b][Other(s)])
    BY <1>4, <2>1 DEF Posted
  <2>4. CASE b = a /\ Other(s) = side
    <3>1. Peer(s, b) = e
      <4>1. /\ OnPair(Peer(e, a), a) /\ Peer(Peer(e, a), a) = e /\ Peer(e, a) \in End
            /\ \A f \in End : OnPair(f, a) /\ Other(f) = Other(Peer(e, a)) => f = Peer(e, a)
        BY PairFacts
      <4>2. Side(Peer(Peer(e, a), a)) = Other(Peer(e, a))
        BY <4>1, PairFacts
      <4>3. s = Peer(e, a)
        BY <1>0, <2>2, <2>4, <4>1, <4>2
      <4>4. QED BY <2>4, <4>1, <4>3
    <3>2. new[b][Other(s)] = Tail(box[a][side])
      BY <1>1, <2>2, <2>4
    <3>3. <<s, j>> \in R[e] \cup Held(box[a][side])
      BY <2>3, <2>4, <3>1
    <3>4. QED BY <1>3, <2>1, <3>1, <3>2, <3>3
  <2>5. CASE ~(b = a /\ Other(s) = side)
    <3>1. new[b][Other(s)] = box[b][Other(s)]
      BY <1>1, <2>2, <2>5
    <3>2. QED BY <2>1, <2>2, <2>3, <3>1
  <2>6. QED BY <2>4, <2>5
<1>5. QED BY <1>4 DEF Posted, new

LEMMA OrderDeliver ==
  ASSUME DistinctUids, OwnInv, PeerInv', LinkInv, RanInv, Ordered, NEW e \in End, Deliver(e)
  PROVE  Ordered'
<1>0. /\ TypeOK /\ PeerInv /\ Hosted /\ HeldOrder
      /\ QueueOrder(inbox, pending, reached) /\ Posted(inbox, ready, pending, reached)
      /\ inbox \in InboxType /\ pending \in [End -> SUBSET Id]
      /\ \A f \in End : pending[f] \subseteq 1..MaxRequest[f]
      /\ buffer \in [End -> Seq(Payload)] /\ Payload \subseteq Message
  BY TypeParts, MessageTypes DEF OwnInv, PeerInv, LinkInv, Ordered, TypeOK
<1> DEFINE a == transport[e]
           box == [inbox EXCEPT ![a][Side(e)] = Tail(@)]
           m == Head(inbox[a][Side(e)])
<1>1. /\ a # NoActor /\ a \in Actor /\ OnPair(e, a)
      /\ inbox[a][Side(e)] # <<>> /\ OnMessage(e, m, box) /\ drain' = drain /\ drain[e] = <<>>
      /\ Side(e) \in {"parent", "content"}
  BY <1>0, BoundPair, ConstantTypes DEF Deliver, Idle
<1>2. m \in Message /\ box \in InboxType
  BY <1>0, <1>1, TailType
<1>3. m.type = "REQUEST" => cached[e][m.call[2]] \in {NoCall, m.call}
  BY <1>2, KeptIsAsked
<1>4. m.type = "REQUEST" =>
        \A j \in pending[Peer(e, a)] : j < m.call[2] => <<Peer(e, a), j>> \in reached[e]
  BY <1>0, <1>1, QueueHead
<1>5. UNCHANGED <<hostOf, seen, transport, disposed>>
  BY <1>1 DEF OnMessage, linkVars
<1> HIDE DEF m
<1>6. /\ \A f \in End : Ran(f) \subseteq Ran(f)' /\ Got(f) \subseteq Got(f)'
      /\ \A f \in End : f # e => buffer'[f] = buffer[f]
      /\ \/ buffer'[e] = buffer[e]
         \/ m \in Payload /\ buffer'[e] = Append(buffer[e], m)
      /\ \A c \in Call : m = Request(c) => c \in Got(e)'
  BY <1>0, <1>1, <1>2, <1>3, RequestLands
<1>7. /\ \A f \in End : reached[f] \subseteq reached'[f]
      /\ \A f \in End : Got(f)' \subseteq reached'[f]
      /\ reached[e] = Got(e)
  <2>1. /\ \A f \in End : reached[f] = Got(f) \cup Held(drain[f])
        /\ \A f \in End : reached'[f] = Got(f)' \cup Held(drain'[f])
    BY DEF reached
  <2>2. Held(<<>>) = {}
    BY HeldNone
  <2>3. QED BY <1>1, <1>6, <2>1, <2>2, ZenonT(60)
<1>8. \A c \in Call : Head(inbox[a][Side(e)]) = Request(c) => c \in reached'[e]
  BY <1>6, <1>7 DEF m
<1>9. ASSUME NEW f \in End, NEW j \in pending[f] PROVE <<f, j>> \in Call
  <2>1. j \in Id /\ j \in 1..MaxRequest[f] /\ MaxRequest[f] \in Nat
    BY <1>0, ConstantTypes
  <2>2. QED BY <2>1, MessageTypes
<1>10. QueueOrder(box, pending, reached')
  BY <1>0, <1>1, <1>7, <1>8, <1>9, QueueTail
<1>11. \A s \in End : ready[s] => transport[s] \in Actor /\ OnPair(s, transport[s])
  BY <1>0, BoundPair DEF PeerInv, ReadyMeansPeer
<1>12. Posted(box, ready, pending, reached')
  BY <1>0, <1>1, <1>7, <1>8, <1>11, PostedTail
<1> HIDE DEF box
<1>13. QueueOrder(inbox', pending', reached') /\ Posted(inbox', ready', pending', reached')
  BY <1>0, <1>1, <1>2, <1>10, <1>12, OrderMessage
<1>14. QueueOrder(inbox, pending, reached)' /\ Posted(inbox, ready, pending, reached)'
  BY <1>5, <1>13 DEF QueueOrder, Posted, OnPair, Peer, Deaf
<1>15. pending'[Parent] \subseteq pending[Parent]
  BY <1>0, <1>1, ConstantTypes DEF OnMessage, OnHandshake, OnResponseAck, OnResponse, OnRequest, requestVars
<1>16. ASSUME NEW i \in Instance
       PROVE  /\ Ahead(drain'[i], Parent, pending'[Parent], Got(i)')
              /\ Ahead(buffer'[i], Parent, pending'[Parent], Ran(i)')
  <2>1. i \in End
    BY EndKinds
  <2>2. Ahead(drain'[i], Parent, pending'[Parent], Got(i)')
    <3>1. Ahead(drain[i], Parent, pending[Parent], Got(i))
      BY <1>0 DEF HeldOrder
    <3>2. Got(i) \subseteq Got(i)'
      BY <1>6, <2>1
    <3>3. QED BY <1>1, <1>15, <3>1, <3>2, AheadGrows
  <2>3. Ahead(buffer[i], Parent, pending[Parent], Ran(i))
    BY <1>0 DEF HeldOrder
  <2>4. Ahead(buffer'[i], Parent, pending[Parent], Ran(i))
    <3>1. CASE buffer'[i] = buffer[i]
      BY <2>3, <3>1
    <3>2. CASE buffer'[i] # buffer[i]
      <4>1. i = e /\ buffer'[i] = Append(buffer[i], m)
        BY <1>6, <2>1, <3>2
      <4>2. Peer(e, a) = Parent
        BY <4>1, EndKinds DEF Peer
      <4>3. m.type = "REQUEST" =>
              \A j \in pending[Parent] : j < m.call[2] => <<Parent, j>> \in Ran(i) \cup Held(buffer[i])
        BY <1>4, <1>7, <4>1, <4>2 DEF Got
      <4>4. buffer[i] \in Seq(Message)
        BY <1>0, <2>1
      <4>5. Ahead(Append(buffer[i], m), Parent, pending[Parent], Ran(i))
        BY <1>2, <2>3, <4>3, <4>4, AheadAppend
      <4>6. QED BY <4>1, <4>5
    <3>3. QED BY <3>1, <3>2
  <2>5. Ran(i) \subseteq Ran(i)'
    BY <1>6, <2>1
  <2>6. QED BY <1>15, <2>2, <2>4, <2>5, AheadGrows
<1>17. HeldOrder'
  BY <1>16 DEF HeldOrder
<1>18. QED BY <1>14, <1>17 DEF Ordered

\* ... and in the loop over the messages that were held back.
LEMMA OrderBuffered ==
  ASSUME OwnInv, PeerInv', LinkInv, RanInv, Ordered, NEW e \in End, DeliverBuffered(e)
  PROVE  Ordered'
<1>0. /\ TypeOK /\ PeerInv /\ Hosted /\ HeldOrder /\ ContentOwn /\ ParentOwn
      /\ QueueOrder(inbox, pending, reached) /\ Posted(inbox, ready, pending, reached)
      /\ inbox \in InboxType /\ pending \in [End -> SUBSET Id]
      /\ \A f \in End : pending[f] \subseteq 1..MaxRequest[f]
      /\ buffer \in [End -> Seq(Payload)] /\ Payload \subseteq Message
      /\ drain \in [End -> Seq(Payload)]
  BY TypeParts, MessageTypes DEF OwnInv, KeptOwn, PeerInv, LinkInv, Ordered, TypeOK
<1> DEFINE m == Head(drain[e])
<1>1. /\ drain[e] # <<>> /\ OnMessage(e, m, inbox) /\ drain' = [drain EXCEPT ![e] = Tail(@)]
      /\ e \in Instance /\ e # Parent
  BY <1>0, EndKinds DEF DeliverBuffered, ParentOwn
<1>2. /\ drain[e] \in Seq(Message) /\ drain[e] \in Seq(Payload) /\ m \in Message
      /\ 1 \in 1..Len(drain[e]) /\ m = drain[e][1]
  <2>1. drain[e] \in Seq(Payload) /\ drain[e] # <<>>
    BY <1>0, <1>1
  <2>2. drain[e] \in Seq(Message)
    BY <1>0, <2>1
  <2>3. QED BY <2>1, <2>2
<1>3. m.type = "REQUEST" =>
        /\ cached[e][m.call[2]] \in {NoCall, m.call}
        /\ \A j \in pending[Parent] : j < m.call[2] => <<Parent, j>> \in Got(e)
  <2> SUFFICES ASSUME m.type = "REQUEST"
               PROVE  /\ cached[e][m.call[2]] \in {NoCall, m.call}
                      /\ \A j \in pending[Parent] : j < m.call[2] => <<Parent, j>> \in Got(e)
    OBVIOUS
  <2>1. Fits(m, Parent, e)
    BY <1>0, <1>1, <1>2 DEF ContentOwn, Carried
  <2>2. m.call = <<Parent, m.call[2]>> /\ m.call[2] \in Id
    BY <1>2, <2>1, RequestIsItsCall, MessageTypes DEF Fits
  <2>3. Ahead(drain[e], Parent, pending[Parent], Got(e))
    BY <1>0, <1>1 DEF HeldOrder
  <2>4. \A x \in 1..Len(drain[e]) : ~(x < 1)
    BY <1>2
  <2>5. \A j \in pending[Parent] : j < m.call[2] => <<Parent, j>> \in Got(e)
    <3> HIDE DEF m
    <3>1. QED BY <1>2, <2>3, <2>4 DEF Ahead
  <2>6. cached[e][m.call[2]] \in {NoCall, m.call}
    BY <1>0, <1>1, <2>2 DEF ContentOwn
  <2>7. QED BY <2>5, <2>6
<1>4. UNCHANGED <<hostOf, seen, transport, disposed>>
  BY <1>1 DEF OnMessage, linkVars
<1> HIDE DEF m
<1>5. /\ \A f \in End : Ran(f) \subseteq Ran(f)' /\ Got(f) \subseteq Got(f)'
      /\ \A f \in End : f # e => buffer'[f] = buffer[f]
      /\ \/ buffer'[e] = buffer[e]
         \/ m \in Payload /\ buffer'[e] = Append(buffer[e], m)
      /\ \A c \in Call : m = Request(c) => c \in Got(e)'
  BY <1>0, <1>1, <1>2, <1>3, RequestLands
<1>6. /\ \A f \in End : f # e => drain'[f] = drain[f]
      /\ drain'[e] = Tail(drain[e])
      /\ \A c \in Held(drain[e]) : c \in Held(drain'[e]) \/ c \in Got(e)'
  <2>1. /\ \A f \in End : f # e => drain'[f] = drain[f]
        /\ drain'[e] = Tail(drain[e])
    BY <1>0, <1>1
  <2>2. \A c \in Held(drain[e]) : c \in Held(Tail(drain[e])) \/ Head(drain[e]) = Request(c)
    BY <1>1, <1>2, HeldTail
  <2>3. \A c \in Held(drain[e]) : c \in Call
    BY DEF Held
  <2>4. QED BY <1>5, <2>1, <2>2, <2>3 DEF m
<1>7. \A f \in End : reached[f] \subseteq reached'[f]
  <2>1. /\ \A f \in End : reached[f] = Got(f) \cup Held(drain[f])
        /\ \A f \in End : reached'[f] = Got(f)' \cup Held(drain'[f])
    BY DEF reached
  <2>2. QED BY <1>5, <1>6, <2>1
<1>8. QueueOrder(inbox, pending, reached')
  BY <1>0, <1>7, QueueGrows
<1>9. Posted(inbox, ready, pending, reached')
  <2>1. \A s \in End : ready[s] => transport[s] \in Actor /\ OnPair(s, transport[s])
    BY <1>0, BoundPair DEF PeerInv, ReadyMeansPeer
  <2>2. \A s \in End : ready[s] => Peer(s, transport[s]) \in End
    BY <2>1, PairFacts
  <2>3. QED BY <1>0, <1>7, <2>2 DEF Posted
<1>10. QueueOrder(inbox', pending', reached') /\ Posted(inbox', ready', pending', reached')
  BY <1>0, <1>1, <1>2, <1>8, <1>9, OrderMessage
<1>11. QueueOrder(inbox, pending, reached)' /\ Posted(inbox, ready, pending, reached)'
  BY <1>4, <1>10 DEF QueueOrder, Posted, OnPair, Peer, Deaf
<1>12. pending'[Parent] \subseteq pending[Parent]
  BY <1>0, <1>1, ConstantTypes DEF OnMessage, OnHandshake, OnResponseAck, OnResponse, OnRequest, requestVars
<1>13. ASSUME NEW i \in Instance
       PROVE  /\ Ahead(drain'[i], Parent, pending'[Parent], Got(i)')
              /\ Ahead(buffer'[i], Parent, pending'[Parent], Ran(i)')
  <2>1. i \in End /\ Ran(i) \subseteq Ran(i)' /\ Got(i) \subseteq Got(i)'
    BY <1>5, EndKinds
  <2>2. /\ Ahead(drain[i], Parent, pending[Parent], Got(i))
        /\ Ahead(buffer[i], Parent, pending[Parent], Ran(i))
    BY <1>0 DEF HeldOrder
  <2>3. CASE i # e
    <3>1. drain'[i] = drain[i] /\ buffer'[i] = buffer[i]
      BY <1>5, <1>6, <2>1, <2>3
    <3>2. QED BY <1>12, <2>1, <2>2, <3>1, AheadGrows
  <2>4. CASE i = e
    <3>1. Ahead(drain'[e], Parent, pending[Parent], Got(e)')
      <4>1. \A c \in Call : Head(drain[e]) = Request(c) => c \in Got(e)'
        BY <1>5 DEF m
      <4>2. \A j \in pending[Parent] : <<Parent, j>> \in Call
        BY <1>0, EndKinds, MessageTypes, SMTT(30) DEF Id
      <4>3. Ahead(Tail(drain[e]), Parent, pending[Parent], Got(e)')
        BY <1>1, <1>2, <2>1, <2>2, <2>4, <4>1, <4>2, AheadTail
      <4>4. QED BY <1>6, <4>3
    <3>2. Ahead(buffer'[e], Parent, pending[Parent], Ran(e))
      <4>1. CASE buffer'[e] = buffer[e]
        BY <2>2, <2>4, <4>1
      <4>2. CASE buffer'[e] # buffer[e]
        <5>1. buffer'[e] = Append(buffer[e], m) /\ buffer[e] \in Seq(Message)
          <6>1. buffer[e] \in Seq(Payload)
            BY <1>0
          <6>2. QED BY <1>0, <1>5, <4>2, <6>1
        <5>2. m.type = "REQUEST" =>
                \A j \in pending[Parent] : j < m.call[2] => <<Parent, j>> \in Ran(e) \cup Held(buffer[e])
          BY <1>3 DEF Got
        <5>3. Ahead(Append(buffer[e], m), Parent, pending[Parent], Ran(e))
          BY <1>2, <2>2, <2>4, <5>1, <5>2, AheadAppend
        <5>4. QED BY <5>1, <5>3
      <4>3. QED BY <4>1, <4>2
    <3>3. Ahead(drain'[i], Parent, pending'[Parent], Got(i)')
      BY <1>12, <2>4, <3>1, AheadGrows
    <3>4. Ahead(buffer'[i], Parent, pending'[Parent], Ran(i)')
      BY <1>12, <2>1, <2>4, <3>2, AheadGrows
    <3>5. QED BY <3>3, <3>4
  <2>5. QED BY <2>3, <2>4
<1>14. HeldOrder'
  BY <1>13 DEF HeldOrder
<1>15. QED BY <1>11, <1>14 DEF Ordered

LEMMA OrderQuiet ==
  ASSUME TypeOK, Ordered,
         UNCHANGED <<hostOf, seen, transport, disposed, ready, execs, buffer, drain>>,
         \A f \in End : pending'[f] \subseteq pending[f],
         QueueOrder(inbox', pending, reached), Posted(inbox', ready, pending, reached)
  PROVE  Ordered'
<1>1. reached' = reached /\ \A i \in End : Ran(i)' = Ran(i) /\ Got(i)' = Got(i)
  BY DEF reached, Got, Ran
<1>2. QueueOrder(inbox', pending', reached)
  BY QueueGrows
<1>3. Posted(inbox', ready, pending', reached)
  BY DEF Posted
<1>4. QueueOrder(inbox, pending, reached)' /\ Posted(inbox, ready, pending, reached)'
  BY <1>1, <1>2, <1>3 DEF QueueOrder, Posted, OnPair, Peer, Deaf
<1>5. HeldOrder'
  <2> SUFFICES ASSUME NEW i \in Instance
               PROVE  /\ Ahead(drain[i], Parent, pending'[Parent], Got(i)')
                      /\ Ahead(buffer[i], Parent, pending'[Parent], Ran(i)')
    BY DEF HeldOrder
  <2>1. /\ Ahead(drain[i], Parent, pending[Parent], Got(i))
        /\ Ahead(buffer[i], Parent, pending[Parent], Ran(i))
    BY DEF Ordered, HeldOrder
  <2>2. Ran(i)' = Ran(i) /\ Got(i)' = Got(i) /\ pending'[Parent] \subseteq pending[Parent]
    BY <1>1, EndKinds
  <2>3. QED BY <2>1, <2>2, AheadGrows
<1>6. QED BY <1>4, <1>5 DEF Ordered

LEMMA OrderCreate ==
  ASSUME PeerInv, LinkInv, Ordered, NEW i \in Instance, CreateActor(i)
  PROVE  Ordered'
<1>0. /\ TypeOK /\ WireInv(inbox) /\ Hosted
      /\ QueueOrder(inbox, pending, reached) /\ Posted(inbox, ready, pending, reached)
      /\ HeldOrder /\ hostOf \in [Actor -> End] /\ created \in 0..NActor /\ NActor \in Nat
  BY TypeParts, ConstantTypes DEF PeerInv, LinkInv, Ordered
<1>1. /\ hostOf' = [hostOf EXCEPT ![created + 1] = i]
      /\ UNCHANGED <<seen, transport, disposed, ready, execs, buffer, drain, inbox, pending>>
  BY DEF CreateActor, connVars, requestVars, bufferVars, serverVars
<1>2. \A a \in Actor : a = created + 1 => inbox[a]["parent"] = <<>> /\ inbox[a]["content"] = <<>>
  BY <1>0 DEF WireInv, Actor
<1>3. \A a \in Actor : a # created + 1 => hostOf'[a] = hostOf[a]
  BY <1>0, <1>1
<1>4. reached' = reached /\ HeldOrder'
  BY <1>0, <1>1 DEF reached, Got, Ran, HeldOrder
<1>5. QueueOrder(inbox, pending, reached)'
  <2> SUFFICES ASSUME NEW s \in End, NEW a \in Actor, OnPair(s, a)'
               PROVE  Ahead(inbox[a][Other(s)], s, pending[s], reached[Peer(s, a)'])
    BY <1>1, <1>4 DEF QueueOrder
  <2>1. CASE a = created + 1
    <3>1. NoRequest(inbox[a][Other(s)])
      BY <1>2, <2>1 DEF Other, NoRequest
    <3>2. QED BY <3>1, AheadNone
  <2>2. CASE a # created + 1
    <3>1. OnPair(s, a) /\ Peer(s, a)' = Peer(s, a)
      BY <1>3, <2>2 DEF OnPair, Peer
    <3>2. QED BY <1>0, <3>1 DEF QueueOrder
  <2>3. QED BY <2>1, <2>2
<1>6. Posted(inbox, ready, pending, reached)'
  <2>1. ASSUME NEW s \in End, ready[s]
        PROVE  Peer(s, transport[s])' = Peer(s, transport[s])
    <3>1. transport[s] \in Actor /\ transport[s] <= created
      BY <2>1, BoundPair, <1>0 DEF PeerInv, ReadyMeansPeer
    <3>2. transport[s] # created + 1
      BY <1>0, <3>1 DEF Actor
    <3>3. QED BY <1>1, <1>3, <3>1, <3>2 DEF Peer
  <2>2. QED BY <1>0, <1>1, <1>4, <2>1 DEF Posted, Deaf
<1>7. QED BY <1>4, <1>5, <1>6 DEF Ordered

LEMMA OrderLose ==
  ASSUME OwnInv, LinkInv, Ordered, NEW a \in Actor, LoseMessage(a)
  PROVE  Ordered'
<1>0. /\ TypeOK /\ Silent(inbox) /\ Order(inbox, ready, connectedTo[Parent]) /\ inbox \in InboxType
      /\ QueueOrder(inbox, pending, reached) /\ Posted(inbox, ready, pending, reached)
      /\ \A s \in End : ready[s] => transport[s] \in Actor
  <2>1. PeerInv /\ Hosted /\ LinkInv
    BY DEF OwnInv, LinkInv
  <2>2. \A s \in End : ready[s] => transport[s] \in Actor
    BY <2>1, BoundPair DEF PeerInv, ReadyMeansPeer
  <2>3. QED BY <2>1, <2>2, TypeParts DEF OwnInv, PairOwn, PeerInv, LinkInv, Ordered
<1>1. /\ seen[Parent] < a /\ inbox[a]["parent"] # <<>>
      /\ inbox' = [inbox EXCEPT ![a]["parent"] = Tail(@)]
      /\ UNCHANGED <<hostOf, seen, transport, disposed, ready, execs, buffer, drain, pending>>
  BY DEF LoseMessage, linkVars, connVars, requestVars, bufferVars, serverVars
<1>2. NoRequest(inbox[a]["parent"])
  <2>1. CASE disposed[Parent]
    BY <1>0, <1>1, <2>1 DEF Silent, Deaf
  <2>2. CASE ~disposed[Parent]
    BY <1>0, <1>1, <2>2 DEF Order, Fresh
  <2>3. QED BY <2>1, <2>2
<1>3. \A b \in Actor, t \in {"parent", "content"} :
        inbox'[b][t] = inbox[b][t] \/ (NoRequest(inbox[b][t]) /\ NoRequest(inbox'[b][t]))
  <2>1. \A b \in Actor, t \in {"parent", "content"} :
          inbox'[b][t] = IF b = a /\ t = "parent" THEN Tail(inbox[a]["parent"]) ELSE inbox[b][t]
    BY <1>0, <1>1 DEF InboxType
  <2>2. inbox[a]["parent"] \in Seq(Message)
    BY <1>0 DEF InboxType
  <2>3. NoRequest(Tail(inbox[a]["parent"]))
    BY <1>1, <1>2, <2>2, TailOrder
  <2>4. QED BY <1>2, <2>1, <2>3
<1>4. QueueOrder(inbox', pending, reached)
  BY <1>0, <1>3, QueueForget
<1>5. Posted(inbox', ready, pending, reached)
  <2>1. \A b \in Actor, t \in {"parent", "content"} : Held(inbox[b][t]) \subseteq Held(inbox'[b][t])
    BY <1>3, HeldNone
  <2>2. \A s \in End : Other(s) \in {"parent", "content"}
    BY ConstantTypes
  <2>3. QED BY <1>0, <2>1, <2>2 DEF Posted
<1>6. QED BY <1>0, <1>1, <1>4, <1>5, OrderQuiet

LEMMA OrderFinish ==
  ASSUME PeerInv, LinkInv, Ordered, NEW e \in End, NEW r \in running[e], FinishHandler(e, r)
  PROVE  Ordered'
<1>0. /\ TypeOK /\ inbox \in InboxType /\ transport[e] \in 0..NActor /\ r.call \in Call
      /\ QueueOrder(inbox, pending, reached) /\ Posted(inbox, ready, pending, reached)
      /\ \A s \in End : transport[s] # NoActor => transport[s] \in Actor /\ OnPair(s, transport[s])
      /\ \A s \in End : ready[s] => transport[s] \in Actor
  <2>1. \A s \in End : transport[s] # NoActor => transport[s] \in Actor /\ OnPair(s, transport[s])
    BY BoundPair DEF LinkInv
  <2>2. TypeOK /\ ReadyMeansPeer /\ running[e] \subseteq Run
    BY DEF PeerInv, TypeOK
  <2>3. r.call \in Call
    BY <2>2 DEF Run
  <2>4. \A s \in End : ready[s] => transport[s] \in Actor
    BY <2>1, <2>2 DEF ReadyMeansPeer
  <2>5. QED BY <2>1, <2>2, <2>3, <2>4, TypeParts DEF Ordered
<1>1. /\ UNCHANGED <<hostOf, seen, transport, disposed, ready, execs, buffer, drain, pending>>
      /\ inbox' = inbox \/ inbox' = Post(inbox, e, transport[e], <<Response(r.call)>>)
  BY DEF FinishHandler, linkVars, connVars, requestVars, bufferVars
<1>2. <<Response(r.call)>> \in Seq(Message) /\ NoRequest(<<Response(r.call)>>)
  BY <1>0, MessageTypes DEF NoRequest, Response
<1>3. QueueOrder(Post(inbox, e, transport[e], <<Response(r.call)>>), pending, reached)
  <2>1. \A s, S, G : Ahead(<<Response(r.call)>>, s, S, G)
    BY <1>2, AheadNone
  <2>2. QED BY <1>0, <1>2, <2>1, QueuePost
<1>4. Posted(Post(inbox, e, transport[e], <<Response(r.call)>>), ready, pending, reached)
  BY <1>0, <1>2, PostedPost
<1>5. QED BY <1>0, <1>1, <1>3, <1>4, OrderQuiet

\* What was held back is delivered again.
LEMMA OrderAgain ==
  ASSUME TypeOK, Ordered, NEW e \in End, drain[e] = <<>>,
         UNCHANGED <<hostOf, seen, transport, disposed, ready, execs, inbox, pending>>,
         drain' = [drain EXCEPT ![e] = buffer[e]], buffer' = [buffer EXCEPT ![e] = <<>>]
  PROVE  Ordered'
<1>1. /\ \A f \in End : drain'[f] = IF f = e THEN buffer[e] ELSE drain[f]
      /\ \A f \in End : buffer'[f] = IF f = e THEN <<>> ELSE buffer[f]
      /\ Held(<<>>) = {} /\ NoRequest(<<>>)
  BY HeldNone DEF TypeOK, NoRequest
<1>2. /\ \A f \in End : Ran(f)' = Ran(f)
      /\ \A f \in End : f # e => Got(f)' = Got(f)
      /\ Got(e)' = Ran(e)
  BY <1>1 DEF Ran, Got
<1>3. \A f \in End : reached'[f] = reached[f]
  <2>1. \A f \in End : reached[f] = Got(f) \cup Held(drain[f])
    BY DEF reached
  <2>2. \A f \in End : reached'[f] = Got(f)' \cup Held(drain'[f])
    BY DEF reached
  <2>3. Got(e) = Ran(e) \cup Held(buffer[e])
    BY DEF Got
  <2>4. reached'[e] = reached[e]
    BY <1>1, <1>2, <2>1, <2>2, <2>3, ZenonT(60)
  <2>5. \A f \in End : f # e => reached'[f] = reached[f]
    BY <1>1, <1>2, <2>1, <2>2, ZenonT(60)
  <2>6. QED BY <2>4, <2>5
<1>4. reached' = reached
  BY <1>3 DEF reached
<1>5. QueueOrder(inbox, pending, reached)' /\ Posted(inbox, ready, pending, reached)'
  BY <1>4 DEF Ordered, QueueOrder, Posted, OnPair, Peer, Deaf
<1>6. ASSUME NEW i \in Instance
      PROVE  /\ Ahead(drain'[i], Parent, pending[Parent], Got(i)')
             /\ Ahead(buffer'[i], Parent, pending[Parent], Ran(i)')
  <2>1. /\ Ahead(drain[i], Parent, pending[Parent], Got(i))
        /\ Ahead(buffer[i], Parent, pending[Parent], Ran(i)) /\ i \in End
    BY EndKinds DEF Ordered, HeldOrder
  <2>2. CASE i = e
    BY <1>1, <1>2, <2>1, <2>2, AheadNone
  <2>3. CASE i # e
    BY <1>1, <1>2, <2>1, <2>3
  <2>4. QED BY <2>2, <2>3
<1>7. HeldOrder'
  BY <1>6 DEF HeldOrder
<1>8. QED BY <1>5, <1>7 DEF Ordered

\* An end leaves the pairs before n.
LEMMA PostedLeave ==
  ASSUME PeerInv, Hosted, Posted(inbox, ready, pending, reached), NEW e \in End, NEW n,
         UNCHANGED <<created, hostOf, reached>>,
         \A f \in End : f # e => /\ seen'[f] = seen[f] /\ transport'[f] = transport[f]
                                 /\ disposed'[f] = disposed[f] /\ ready'[f] = ready[f]
                                 /\ pending'[f] = pending[f],
         ready'[e] = FALSE \/ pending'[e] = {},
         \A b \in Actor : ~Deaf(e, b)' => ~Deaf(e, b) /\ ~(b < n),
         \A b \in Actor, t \in {"parent", "content"} :
           Held(Forget(inbox, e, n)[b][t]) \subseteq Held(inbox'[b][t])
  PROVE  Posted(inbox, ready, pending, reached)'
<1> SUFFICES ASSUME NEW s \in End, ready'[s], ~Deaf(Peer(s, transport[s]), transport[s])',
                    NEW j \in pending'[s]
             PROVE  <<s, j>> \in reached'[Peer(s, transport[s])'] \cup Held(inbox'[transport'[s]][Other(s)])
  BY DEF Posted
<1>1. /\ s # e /\ transport'[s] = transport[s] /\ ready[s] /\ j \in pending[s]
  OBVIOUS
<1>2. PICK b \in Actor : b = transport[s] /\ OnPair(s, b)
  BY <1>1, BoundPair DEF PeerInv, ReadyMeansPeer
<1>3. PICK r \in End : r = Peer(s, b) /\ Side(r) = Other(s)
  BY <1>2, PairFacts
<1>4. Peer(s, transport[s])' = r
  BY <1>1, <1>2, <1>3 DEF Peer
<1>5. ~Deaf(r, b)'
  BY <1>1, <1>2, <1>4
<1>6. inbox \in InboxType /\ Other(s) \in {"parent", "content"}
  BY TypeParts, ConstantTypes DEF PeerInv
<1>7. ~Deaf(r, b) /\ Forget(inbox, e, n)[b][Other(s)] = inbox[b][Other(s)]
  <2>1. CASE r = e
    <3>1. ~Deaf(r, b) /\ ~(b < n)
      BY <1>5, <2>1
    <3>2. QED BY <1>6, <3>1, ForgetFacts
  <2>2. CASE r # e
    <3>1. ~Deaf(r, b)
      BY <1>5, <2>2 DEF Deaf
    <3>2. ~(Other(s) = Side(e) /\ (e = Parent \/ hostOf[b] = e))
      BY <1>1, <1>2, <1>3, <2>2, EndKinds DEF OnPair, Peer
    <3>3. Forget(inbox, e, n)[b][Other(s)] = inbox[b][Other(s)]
      <4>1. CASE Other(s) # Side(e)
        BY <1>6, <4>1, ForgetFacts
      <4>2. CASE ~(e = Parent \/ hostOf[b] = e)
        BY <1>6, <4>2 DEF Forget
      <4>3. QED BY <3>2, <4>1, <4>2
    <3>4. QED BY <3>1, <3>3
  <2>3. QED BY <2>1, <2>2
<1>8. <<s, j>> \in reached[r] \cup Held(inbox[b][Other(s)])
  BY <1>1, <1>2, <1>3, <1>7 DEF Posted
<1>9. Held(inbox[b][Other(s)]) \subseteq Held(inbox'[b][Other(s)])
  BY <1>6, <1>7
<1>10. QED BY <1>1, <1>2, <1>4, <1>8, <1>9

LEMMA HeldOrderKept ==
  ASSUME HeldOrder, UNCHANGED <<execs, buffer, drain>>, pending'[Parent] \subseteq pending[Parent]
  PROVE  HeldOrder' /\ reached' = reached
<1>1. reached' = reached /\ \A i \in Instance : Ran(i)' = Ran(i) /\ Got(i)' = Got(i)
  BY DEF reached, Got, Ran
<1>2. ASSUME NEW i \in Instance
      PROVE  /\ Ahead(drain[i], Parent, pending'[Parent], Got(i)')
             /\ Ahead(buffer[i], Parent, pending'[Parent], Ran(i)')
  <2>1. /\ Ahead(drain[i], Parent, pending[Parent], Got(i))
        /\ Ahead(buffer[i], Parent, pending[Parent], Ran(i))
    BY DEF HeldOrder
  <2>2. QED BY <1>1, <2>1, AheadGrows
<1>3. QED BY <1>1, <1>2 DEF HeldOrder

LEMMA QueueForgotten ==
  ASSUME TypeOK, QueueOrder(inbox, pending, reached), NEW e \in End, NEW n
  PROVE  QueueOrder(Forget(inbox, e, n), pending, reached)
<1>1. inbox \in InboxType /\ NoRequest(<<>>)
  BY TypeParts DEF NoRequest
<1>2. \A b \in Actor, t \in {"parent", "content"} :
        Forget(inbox, e, n)[b][t] = inbox[b][t] \/ Forget(inbox, e, n)[b][t] = <<>>
  BY <1>1, ForgetFacts
<1>3. \A b \in Actor, t \in {"parent", "content"} :
        Forget(inbox, e, n)[b][t] = inbox[b][t] \/ NoRequest(Forget(inbox, e, n)[b][t])
  BY <1>1, <1>2
<1>4. QED BY <1>3, QueueForget

LEMMA OrderBind ==
  ASSUME PeerInv, LinkInv, Ordered, NEW e \in End, NEW a \in Actor, BindToActor(e, a)
  PROVE  Ordered'
<1>0. /\ TypeOK /\ Hosted /\ HeldOrder /\ QueueOrder(inbox, pending, reached)
      /\ Posted(inbox, ready, pending, reached)
      /\ inbox \in InboxType /\ seen \in [End -> 0..NActor] /\ transport \in [End -> 0..NActor]
      /\ ready \in [End -> BOOLEAN] /\ created \in 0..NActor
      /\ a \in Nat /\ a \in 0..NActor /\ a # NoActor
  BY TypeParts, ConstantTypes DEF PeerInv, LinkInv, Ordered, Actor, NoActor
<1>1. /\ UNCHANGED <<created, hostOf, disposed, pending, execs, buffer, drain>>
      /\ seen' = [seen EXCEPT ![e] = a] /\ transport' = [transport EXCEPT ![e] = a]
      /\ ready' = [ready EXCEPT ![e] = FALSE]
      /\ seen[e] < a /\ a <= created /\ ~disposed[e]
      /\ IF e = Parent THEN a = created ELSE a <= created /\ hostOf[a] = e
      /\ inbox' = Post(Forget(inbox, e, a), e, a, <<Ready(e)>>)
  BY <1>0 DEF BindToActor, linkVars, requestVars, bufferVars, serverVars
<1>2. OnPair(e, a)
  BY <1>0, <1>1 DEF OnPair, Hosted
<1>3. Forget(inbox, e, a) \in InboxType /\ <<Ready(e)>> \in Seq(Message) /\ NoRequest(<<Ready(e)>>)
  BY <1>0, ForgetType, MessageTypes DEF NoRequest, Ready
<1>4. QueueOrder(inbox', pending, reached)
  <2>1. QueueOrder(Forget(inbox, e, a), pending, reached)
    BY <1>0, QueueForgotten
  <2>2. \A s, S, G : Ahead(<<Ready(e)>>, s, S, G)
    BY <1>3, AheadNone
  <2>3. QueueOrder(Post(Forget(inbox, e, a), e, a, <<Ready(e)>>), pending, reached)
    BY <1>0, <1>2, <1>3, <2>1, <2>2, QueuePost
  <2>4. QED BY <1>1, <2>3
<1>5. HeldOrder' /\ reached' = reached
  BY <1>0, <1>1, HeldOrderKept
<1>6. QueueOrder(inbox, pending, reached)'
  BY <1>1, <1>4, <1>5 DEF QueueOrder, OnPair, Peer
<1>7. \A b \in Actor, t \in {"parent", "content"} :
        Held(Forget(inbox, e, a)[b][t]) \subseteq Held(inbox'[b][t])
  BY <1>0, <1>1, <1>3, PostHolds
<1>8. ASSUME NEW b \in Actor, ~Deaf(e, b)' PROVE ~Deaf(e, b) /\ ~(b < a)
  <2>1. seen'[e] = a /\ transport'[e] = a /\ disposed' = disposed
    BY <1>0, <1>1
  <2>2. ~disposed[e] /\ ~(a >= b /\ a # b)
    BY <1>8, <2>1 DEF Deaf
  <2>3. b \in Nat /\ seen[e] \in Nat
    BY <1>0, ConstantTypes DEF Actor
  <2>4. QED BY <1>0, <1>1, <2>2, <2>3 DEF Deaf
<1>9. Posted(inbox, ready, pending, reached)'
  <2>1. \A f \in End : f # e => /\ seen'[f] = seen[f] /\ transport'[f] = transport[f]
                                /\ disposed'[f] = disposed[f] /\ ready'[f] = ready[f]
                                /\ pending'[f] = pending[f]
    BY <1>0, <1>1
  <2>2. ready'[e] = FALSE
    BY <1>0, <1>1
  <2>3. QED BY <1>0, <1>1, <1>5, <1>7, <1>8, <2>1, <2>2, PostedLeave
<1>10. QED BY <1>5, <1>6, <1>9 DEF Ordered

LEMMA OrderReset ==
  ASSUME PeerInv, SeenInv, LinkInv, Ordered, NEW e \in End, ResetTransport(e) \/ Dispose(e)
  PROVE  Ordered'
<1>0. /\ TypeOK /\ Hosted /\ HeldOrder /\ QueueOrder(inbox, pending, reached)
      /\ Posted(inbox, ready, pending, reached)
      /\ inbox \in InboxType /\ seen \in [End -> 0..NActor] /\ transport \in [End -> 0..NActor]
      /\ ready \in [End -> BOOLEAN] /\ pending \in [End -> SUBSET Id]
      /\ disposed \in [End -> BOOLEAN] /\ transport[e] \in {NoActor, seen[e]} /\ Parent \in End
      /\ NActor \in Nat
  BY TypeParts, ConstantTypes DEF PeerInv, LinkInv, Ordered, TypeOK, SeenInv
<1> DEFINE n == IF Dispose(e) THEN NActor + 1 ELSE transport[e] + 1
<1>1. /\ UNCHANGED <<created, hostOf, seen, execs, buffer, drain>>
      /\ inbox' = Forget(inbox, e, n)
      /\ \A f \in End : f # e => /\ transport'[f] = transport[f] /\ disposed'[f] = disposed[f]
                                 /\ ready'[f] = ready[f] /\ pending'[f] = pending[f]
      /\ ready'[e] = FALSE \/ pending'[e] = {}
      /\ pending'[e] \subseteq pending[e]
  <2>1. CASE Dispose(e)
    BY <1>0, <2>1 DEF Dispose, linkVars, connVars, serverVars
  <2>2. CASE ~Dispose(e)
    BY <1>0, <2>2 DEF ResetTransport, requestVars, bufferVars, serverVars
  <2>3. QED BY <2>1, <2>2
<1>2. ASSUME NEW b \in Actor, ~Deaf(e, b)' PROVE ~Deaf(e, b) /\ ~(b < n)
  <2>1. CASE Dispose(e)
    <3>1. disposed'[e]
      BY <1>0, <2>1 DEF Dispose
    <3>2. QED BY <1>2, <3>1 DEF Deaf
  <2>2. CASE ~Dispose(e)
    <3>1. /\ transport'[e] = NoActor /\ disposed' = disposed /\ transport[e] = seen[e]
          /\ seen' = seen /\ n = seen[e] + 1 /\ ~disposed[e]
      BY <1>0, <2>2 DEF ResetTransport
    <3>2. b \in Nat /\ b # NoActor /\ seen[e] \in Nat
      BY <1>0, ConstantTypes DEF Actor, NoActor
    <3>3. ~(seen[e] >= b)
      BY <1>2, <3>1, <3>2 DEF Deaf
    <3>4. QED BY <3>1, <3>2, <3>3 DEF Deaf
  <2>3. QED BY <2>1, <2>2
<1> HIDE DEF n
<1>3. HeldOrder' /\ reached' = reached
  <2>1. pending'[Parent] \subseteq pending[Parent]
    BY <1>0, <1>1
  <2>2. QED BY <1>0, <1>1, <2>1, HeldOrderKept
<1>4. QueueOrder(inbox', pending', reached)
  <2>1. QueueOrder(inbox', pending, reached)
    BY <1>0, <1>1, QueueForgotten
  <2>2. \A f \in End : pending'[f] \subseteq pending[f]
    BY <1>1
  <2>3. QED BY <2>1, <2>2, QueueGrows
<1>5. QueueOrder(inbox, pending, reached)'
  BY <1>1, <1>3, <1>4 DEF QueueOrder, OnPair, Peer
<1>6. Posted(inbox, ready, pending, reached)'
  <2>1. \A b \in Actor, t \in {"parent", "content"} :
          Held(Forget(inbox, e, n)[b][t]) \subseteq Held(inbox'[b][t])
    BY <1>1
  <2>2. \A f \in End : f # e => /\ seen'[f] = seen[f] /\ transport'[f] = transport[f]
                                /\ disposed'[f] = disposed[f] /\ ready'[f] = ready[f]
                                /\ pending'[f] = pending[f]
    BY <1>1
  <2>3. QED BY <1>0, <1>1, <1>2, <1>3, <2>1, <2>2, PostedLeave
<1>7. QED BY <1>3, <1>5, <1>6 DEF Ordered

\* A request that is new is later than all that its sender made before.
LEMMA AheadNewest ==
  ASSUME NEW q, NEW s \in End, NEW S, NEW G, sent[s] \in Nat, Ahead(q, s, S, G),
         \A p \in 1..Len(q) : q[p].type = "REQUEST" => q[p].call \in issued /\ q[p].call[1] = s
  PROVE  Ahead(q, s, S \cup {sent[s] + 1}, G)
<1> SUFFICES ASSUME NEW p \in 1..Len(q), q[p].type = "REQUEST",
                    NEW j \in S \cup {sent[s] + 1}, j < q[p].call[2]
             PROVE  <<s, j>> \in G \/ \E x \in 1..Len(q) : x < p /\ q[x] = Request(<<s, j>>)
  BY DEF Ahead
<1>1. q[p].call \in Call /\ q[p].call[2] <= sent[s] /\ q[p].call[2] \in Nat
  BY MessageTypes DEF issued, Id
<1>2. j \in S
  BY <1>1
<1>3. QED BY <1>2 DEF Ahead

LEMMA OrderSend ==
  ASSUME OwnInv, SoundInv, LinkInv, Ordered, NEW e \in End, Send(e)
  PROVE  Ordered'
<1>0. /\ TypeOK /\ PeerInv /\ Hosted /\ HeldOrder /\ QueueOrder(inbox, pending, reached)
      /\ Posted(inbox, ready, pending, reached) /\ WireOwn(inbox) /\ ContentOwn
      /\ WireSound(inbox, issued, done) /\ KeptSound
      /\ inbox \in InboxType /\ transport[e] \in 0..NActor /\ pending \in [End -> SUBSET Id]
      /\ sent[e] \in Nat /\ MaxRequest[e] \in Nat
  <2>1. PeerInv /\ TypeOK
    BY DEF OwnInv, PeerInv
  <2>2. sent[e] \in Nat /\ pending \in [End -> SUBSET Id]
    BY <2>1, ConstantTypes DEF TypeOK
  <2>3. QED
    BY <2>1, <2>2, TypeParts, ConstantTypes
       DEF OwnInv, PairOwn, KeptOwn, SoundInv, LinkInv, Ordered
<1> DEFINE k == sent[e] + 1
           ms == <<Request(<<e, k>>)>>
<1>1. /\ pending' = [pending EXCEPT ![e] = @ \cup {k}]
      /\ inbox' = IF ready[e] THEN Post(inbox, e, transport[e], ms) ELSE inbox
      /\ UNCHANGED <<created, hostOf, seen, transport, disposed, ready, execs, buffer, drain>>
      /\ sent[e] < MaxRequest[e]
  BY DEF Send, linkVars, connVars, bufferVars, serverVars
<1>2. /\ pending'[e] = pending[e] \cup {k}
      /\ \A f \in End : f # e => pending'[f] = pending[f]
  BY <1>0, <1>1
<1>3. <<e, k>> \in Call /\ ms \in Seq(Message) /\ Held(ms) = {<<e, k>>}
  <2>1. k \in Id /\ k <= MaxRequest[e]
    BY <1>0, <1>1, ConstantTypes DEF Id
  <2>2. <<e, k>> \in Call
    BY <2>1, MessageTypes
  <2>3. QED BY <2>2, MessageTypes, HeldNone
<1>4. \A s \in End : transport[s] # NoActor => transport[s] \in Actor /\ OnPair(s, transport[s])
  BY <1>0, BoundPair
<1>5. \A s \in End : ready[s] => transport[s] \in Actor /\ transport[s] # NoActor
  BY <1>0, <1>4 DEF PeerInv, ReadyMeansPeer
<1>6. QueueOrder(inbox, pending', reached)
  <2> SUFFICES ASSUME NEW s \in End, NEW a \in Actor, OnPair(s, a)
               PROVE  Ahead(inbox[a][Other(s)], s, pending'[s], reached[Peer(s, a)])
    BY DEF QueueOrder
  <2>1. Ahead(inbox[a][Other(s)], s, pending[s], reached[Peer(s, a)])
    BY <1>0 DEF QueueOrder
  <2>2. CASE s # e
    BY <1>2, <2>1, <2>2
  <2>3. CASE s = e
    <3>1. \A p \in 1..Len(inbox[a][Other(e)]) : inbox[a][Other(e)][p].type = "REQUEST" =>
             inbox[a][Other(e)][p].call \in issued /\ inbox[a][Other(e)][p].call[1] = e
      <4>1. AllSound(inbox[a][Other(e)], issued, done)
        BY <1>0 DEF WireSound, Other
      <4>2. Carried(inbox[a][Other(e)], e, Peer(e, a))
        <5>1. CASE e = Parent
          BY <1>0, <5>1, EndKinds DEF WireOwn, Peer
        <5>2. CASE e # Parent
          BY <1>0, <2>3, <5>2, EndKinds DEF WireOwn, Peer, OnPair
        <5>3. QED BY <5>1, <5>2
      <4>3. QED BY <4>1, <4>2 DEF AllSound, Sound, Carried, Fits
    <3>2. Ahead(inbox[a][Other(e)], e, pending[e] \cup {sent[e] + 1}, reached[Peer(e, a)])
      BY <1>0, <2>1, <2>3, <3>1, AheadNewest
    <3>3. QED BY <1>2, <2>3, <3>2
  <2>4. QED BY <2>2, <2>3
<1> HIDE DEF k, ms
<1>7. ready[e] /\ ~Deaf(Peer(e, transport[e]), transport[e]) =>
        \A j \in pending[e] : <<e, j>> \in reached[Peer(e, transport[e])]
                                           \cup Held(inbox[transport[e]][Other(e)])
  BY <1>0 DEF Posted
<1>8. QueueOrder(inbox', pending', reached)
  <2>1. CASE ready[e]
    <3>1. transport[e] # NoActor /\ ~Deaf(Peer(e, transport[e]), transport[e]) =>
            Ahead(ms, e, pending'[e], reached[Peer(e, transport[e])]
                                        \cup Held(inbox[transport[e]][Other(e)]))
      <4> DEFINE G == reached[Peer(e, transport[e])] \cup Held(inbox[transport[e]][Other(e)])
      <4> SUFFICES ASSUME ~Deaf(Peer(e, transport[e]), transport[e])
                   PROVE  Ahead(ms, e, pending'[e], G)
        OBVIOUS
      <4>1. \A j \in pending[e] : <<e, j>> \in G
        BY <1>7, <2>1
      <4> HIDE DEF G
      <4>2. 1..Len(ms) = {1} /\ ms[1] = Request(<<e, k>>) /\ ms[1].call[2] = k /\ k \in Int
        BY <1>0, <1>3, RequestIsItsCall DEF ms, k
      <4>3. \A j \in pending'[e] : j < k => j \in pending[e]
        BY <1>2, <4>2
      <4>4. QED BY <4>1, <4>2, <4>3 DEF Ahead
    <3>2. QueueOrder(Post(inbox, e, transport[e], ms), pending', reached)
      BY <1>0, <1>3, <1>4, <1>6, <3>1, QueuePost
    <3>3. QED BY <1>1, <2>1, <3>2
  <2>2. CASE ~ready[e]
    BY <1>1, <1>6, <2>2
  <2>3. QED BY <2>1, <2>2
<1>9. Posted(inbox', ready, pending', reached)
  <2>1. Posted(inbox', ready, pending, reached)
    <3>1. Posted(Post(inbox, e, transport[e], ms), ready, pending, reached)
      BY <1>0, <1>3, <1>5, PostedPost
    <3>2. QED BY <1>0, <1>1, <3>1
  <2>2. ASSUME NEW s \in End, ready[s], ~Deaf(Peer(s, transport[s]), transport[s]),
               NEW j \in pending'[s]
        PROVE  <<s, j>> \in reached[Peer(s, transport[s])] \cup Held(inbox'[transport[s]][Other(s)])
    <3>1. CASE j \in pending[s]
      BY <2>1, <2>2, <3>1 DEF Posted
    <3>2. CASE j \notin pending[s]
      <4>1. s = e /\ j = k
        BY <1>2, <2>2, <3>2
      <4>2. inbox' = Post(inbox, e, transport[e], ms) /\ transport[e] \in Actor
        BY <1>1, <1>5, <2>2, <4>1
      <4>3. transport[e] \in Actor /\ ~Deaf(Peer(e, transport[e]), transport[e]) =>
              Held(ms) \subseteq Held(Post(inbox, e, transport[e], ms)[transport[e]][Other(e)])
        BY <1>0, <1>3, PostHolds
      <4>4. QED BY <1>3, <2>2, <4>1, <4>2, <4>3
    <3>3. QED BY <3>1, <3>2
  <2>3. QED BY <2>2 DEF Posted
<1>10. reached' = reached /\ \A i \in Instance : Ran(i)' = Ran(i) /\ Got(i)' = Got(i)
  BY <1>1 DEF reached, Got, Ran
<1>11. QueueOrder(inbox, pending, reached)' /\ Posted(inbox, ready, pending, reached)'
  BY <1>1, <1>8, <1>9, <1>10 DEF QueueOrder, Posted, OnPair, Peer, Deaf
<1>12. ASSUME NEW i \in Instance
       PROVE  /\ Ahead(drain[i], Parent, pending'[Parent], Got(i))
              /\ Ahead(buffer[i], Parent, pending'[Parent], Ran(i))
  <2>1. /\ Ahead(drain[i], Parent, pending[Parent], Got(i))
        /\ Ahead(buffer[i], Parent, pending[Parent], Ran(i))
        /\ Parent \in End /\ i \in End
    BY <1>0, EndKinds DEF HeldOrder
  <2>2. CASE e # Parent
    BY <1>2, <2>1, <2>2
  <2>3. CASE e = Parent
    <3>1. \A q : AllSound(q, issued, done) /\ Carried(q, Parent, i) =>
            \A p \in 1..Len(q) : q[p].type = "REQUEST" =>
              q[p].call \in issued /\ q[p].call[1] = Parent
      BY DEF AllSound, Sound, Carried, Fits
    <3>2. /\ AllSound(drain[i], issued, done) /\ Carried(drain[i], Parent, i)
          /\ AllSound(buffer[i], issued, done) /\ Carried(buffer[i], Parent, i)
      BY <1>0, <2>1 DEF KeptSound, ContentOwn
    <3>3. pending'[Parent] = pending[Parent] \cup {sent[Parent] + 1} /\ sent[Parent] \in Nat
      BY <1>0, <1>2, <2>3 DEF k
    <3>4. Ahead(drain[i], Parent, pending'[Parent], Got(i))
      BY <2>1, <3>1, <3>2, <3>3, AheadNewest
    <3>5. Ahead(buffer[i], Parent, pending'[Parent], Ran(i))
      BY <2>1, <3>1, <3>2, <3>3, AheadNewest
    <3>6. QED BY <3>4, <3>5
  <2>4. QED BY <2>2, <2>3
<1>13. HeldOrder'
  BY <1>1, <1>10, <1>12 DEF HeldOrder
<1>14. QED BY <1>11, <1>13 DEF Ordered

LEMMA OrderInit == Init => OrderedInv
<1> SUFFICES ASSUME Init PROVE OrderedInv
  OBVIOUS
<1>0. NActor \in Nat /\ Parent \in End /\ \A i \in Instance : i \in End
  BY EndKinds, ConstantTypes
<1>1. \A a \in Actor, t \in {"parent", "content"} : inbox[a][t] = <<>>
  BY DEF Init
<1>2. LinkInv
  BY <1>0, <1>1 DEF Init, LinkInv, Hosted, Silent, Actor
<1>3. RanInv
  <2>1. \A e \in End : /\ \A id \in Id : cached[e][id] = NoCall
                       /\ running[e] = {} /\ \A c \in Call : execs[e][c] = 0
    BY DEF Init
  <2>2. QED BY <2>1 DEF RanInv
<1>4. NoRequest(<<>>)
  BY DEF NoRequest
<1>5. QueueOrder(inbox, pending, reached)
  <2>1. \A s \in End, a \in Actor : inbox[a][Other(s)] = <<>>
    BY <1>1, ConstantTypes
  <2>2. QED BY <1>4, <2>1, AheadNone DEF QueueOrder
<1>6. HeldOrder
  <2>1. \A i \in Instance : drain[i] = <<>> /\ buffer[i] = <<>>
    BY <1>0 DEF Init
  <2>2. QED BY <1>4, <2>1, AheadNone DEF HeldOrder
<1>7. Posted(inbox, ready, pending, reached)
  BY DEF Init, Posted
<1>8. QED BY <1>2, <1>3, <1>5, <1>6, <1>7 DEF OrderedInv, Ordered

LEMMA OrderNext ==
  ASSUME DistinctUids, PromptParent, OwnInv, OwnInv', SoundInv, OrderedInv, [Next]_vars
  PROVE  OrderedInv'
<1>0. /\ TypeOK /\ PeerInv /\ PeerInv' /\ SeenInv /\ ParentOwn /\ LinkInv /\ RanInv /\ Ordered
      /\ pending \in [End -> SUBSET Id]
      /\ QueueOrder(inbox, pending, reached) /\ Posted(inbox, ready, pending, reached)
  BY DEF OwnInv, PeerInv, PairOwn, KeptOwn, OrderedInv, Ordered, TypeOK
<1>1. LinkInv' /\ RanInv'
  BY <1>0, LinkNext, RanNext
<1>2. ASSUME UNCHANGED <<hostOf, seen, transport, disposed, ready, execs, buffer, drain, inbox>>,
             \A f \in End : pending'[f] \subseteq pending[f]
      PROVE  Ordered'
  BY <1>0, <1>2, OrderQuiet
<1>3. ASSUME NEW e \in End,
             \/ Unregister(e) \/ Pause(e) \/ ResumeSoon(e)
             \/ \E S \in SUBSET Id : DisposeConnector(e, S)
      PROVE  Ordered'
  <2>1. UNCHANGED <<hostOf, seen, transport, disposed, ready, execs, buffer, drain, inbox>>
    BY <1>3 DEF Unregister, Pause, ResumeSoon, DisposeConnector, linkVars, connVars, requestVars,
       bufferVars, serverVars
  <2>2. pending' = pending \/ \E S : pending' = [pending EXCEPT ![e] = @ \ S]
    BY <1>3 DEF Unregister, Pause, ResumeSoon, DisposeConnector, requestVars
  <2>3. \A f \in End : pending'[f] \subseteq pending[f]
    BY <1>0, <2>2
  <2>4. QED BY <1>2, <2>1, <2>3
<1>4. ASSUME NEW e \in End, Register(e) \/ ResumeTimer(e) PROVE Ordered'
  <2>1. /\ drain[e] = <<>> /\ drain' = [drain EXCEPT ![e] = buffer[e]]
        /\ buffer' = [buffer EXCEPT ![e] = <<>>]
        /\ UNCHANGED <<hostOf, seen, transport, disposed, ready, execs, inbox, pending>>
    BY <1>4 DEF Register, ResumeTimer, Idle, linkVars, connVars, requestVars, serverVars
  <2>2. QED BY <1>0, <2>1, OrderAgain
<1>5. ASSUME UNCHANGED vars PROVE Ordered'
  BY <1>2, <1>5 DEF vars, linkVars, connVars, requestVars, bufferVars, serverVars
<1>6. ASSUME Next PROVE Ordered'
  <2>1. ASSUME NEW i \in Instance, CreateActor(i) PROVE Ordered'
    BY <1>0, <2>1, OrderCreate
  <2>2. ASSUME NEW e \in End, NEW a \in Actor, BindToActor(e, a) PROVE Ordered'
    BY <1>0, <2>2, OrderBind
  <2>3. ASSUME NEW e \in End, ResetTransport(e) \/ Dispose(e) PROVE Ordered'
    BY <1>0, <2>3, OrderReset
  <2>4. ASSUME NEW a \in Actor, LoseMessage(a) PROVE Ordered'
    BY <1>0, <2>4, OrderLose
  <2>5. ASSUME NEW e \in End, Send(e) PROVE Ordered'
    BY <1>0, <2>5, OrderSend
  <2>6. ASSUME NEW e \in End, Deliver(e) PROVE Ordered'
    BY <1>0, <2>6, OrderDeliver
  <2>7. ASSUME NEW e \in End, DeliverBuffered(e) PROVE Ordered'
    BY <1>0, <2>7, OrderBuffered
  <2>8. ASSUME NEW e \in End, NEW r \in running[e], FinishHandler(e, r) PROVE Ordered'
    BY <1>0, <2>8, OrderFinish
  <2>9. QED BY <1>3, <1>4, <1>6, <2>1, <2>2, <2>3, <2>4, <2>5, <2>6, <2>7, <2>8 DEF Next
<1>7. Ordered'
  BY <1>5, <1>6
<1>8. QED BY <1>1, <1>7 DEF OrderedInv

LEMMA RunNext ==
  ASSUME OwnInv, OrderedInv, Next
  PROVE  RunsInOrder
<1>0. /\ TypeOK /\ PeerInv /\ Hosted /\ HeldOrder /\ ContentOwn /\ ParentOwn /\ WireOwn(inbox)
      /\ QueueOrder(inbox, pending, reached) /\ RanInv
      /\ inbox \in InboxType /\ drain \in [End -> Seq(Payload)] /\ Payload \subseteq Message
      /\ buffer \in [End -> Seq(Payload)]
  BY TypeParts, MessageTypes
     DEF OwnInv, PeerInv, PairOwn, KeptOwn, OrderedInv, LinkInv, Ordered, TypeOK
<1> SUFFICES ASSUME NEW e \in End, NEW c \in Call, execs'[e][c] # execs[e][c],
                    NEW d \in Call, d[1] = c[1], d[2] < c[2], d[2] \in pending[d[1]]
             PROVE  \/ execs[e][d] > 0
                    \/ d \in NoMethod
                    \/ \E k \in DOMAIN buffer[e] : buffer[e][k] = Request(d)
  BY DEF RunsInOrder
<1>1. /\ d = <<c[1], d[2]>> /\ c = <<c[1], c[2]>> /\ d[2] \in pending[c[1]]
      /\ Request(c).type = "REQUEST" /\ Request(c).call = c
  BY MessageTypes, RequestIsItsCall
<1>2. d \in Got(e) => \/ execs[e][d] > 0
                      \/ d \in NoMethod
                      \/ \E k \in DOMAIN buffer[e] : buffer[e][k] = Request(d)
  <2>1. DOMAIN buffer[e] = 1..Len(buffer[e])
    BY <1>0
  <2>2. QED BY <2>1 DEF Got, Ran, Held
<1>3. ASSUME NEW f \in End, Deliver(f) PROVE d \in Got(e)
  <2> DEFINE a == transport[f]
             box == [inbox EXCEPT ![a][Side(f)] = Tail(@)]
             m == Head(inbox[a][Side(f)])
  <2>1. /\ a \in Actor /\ OnPair(f, a) /\ inbox[a][Side(f)] # <<>> /\ OnMessage(f, m, box)
        /\ drain[f] = <<>> /\ Side(f) \in {"parent", "content"} /\ (f # Parent => hostOf[a] = f)
    BY <1>0, <1>3, BoundPair, ConstantTypes DEF Deliver, Idle, OnPair
  <2>2. m \in Message
    BY <1>0, <2>1, TailType
  <2>3. Fits(m, Peer(f, a), f)
    BY <1>0, <2>1, OwnTail
  <2>4. m.type = "REQUEST" =>
          \A j \in pending[Peer(f, a)] : j < m.call[2] => <<Peer(f, a), j>> \in reached[f]
    BY <1>0, <2>1, QueueHead
  <2> HIDE DEF m, box
  <2>5. f = e /\ m = Request(c)
    BY <1>0, <2>1, <2>2, RanOnMessage
  <2>6. Peer(f, a) = c[1]
    BY <1>1, <2>3, <2>5 DEF Fits
  <2>7. d \in reached[e]
    BY <1>1, <2>4, <2>5, <2>6
  <2>8. reached[e] = Got(e) \cup Held(drain[e]) /\ Held(<<>>) = {}
    BY HeldNone DEF reached
  <2>9. QED BY <2>1, <2>5, <2>7, <2>8
<1>4. ASSUME NEW f \in End, DeliverBuffered(f) PROVE d \in Got(e)
  <2>1. /\ f \in Instance /\ drain[f] # <<>> /\ drain[f] \in Seq(Payload)
        /\ OnMessage(f, Head(drain[f]), inbox)
    BY <1>0, <1>4, EndKinds DEF DeliverBuffered, ParentOwn
  <2>2. PICK m \in Message : m = Head(drain[f])
    BY <1>0, <2>1
  <2>3. f = e /\ m = Request(c)
    BY <1>0, <2>1, <2>2, RanOnMessage
  <2>4. 1 \in 1..Len(drain[e]) /\ drain[e][1] = Request(c) /\ \A x \in 1..Len(drain[e]) : ~(x < 1)
    BY <2>1, <2>2, <2>3
  <2>5. c[1] = Parent
    <3>1. Carried(drain[e], Parent, e)
      BY <1>0, <2>1, <2>3 DEF ContentOwn
    <3>2. Fits(Request(c), Parent, e)
      BY <2>4, <3>1 DEF Carried
    <3>3. QED BY <1>1, <3>2 DEF Fits
  <2>6. Ahead(drain[e], Parent, pending[Parent], Got(e))
    BY <1>0, <2>1, <2>3 DEF HeldOrder
  <2>7. <<Parent, d[2]>> \in Got(e)
    BY <1>1, <2>4, <2>5, <2>6 DEF Ahead
  <2>8. QED BY <1>1, <2>5, <2>7
<1>5. \E f \in End : Deliver(f) \/ DeliverBuffered(f)
  <2> SUFFICES ASSUME ~\E f \in End : Deliver(f) \/ DeliverBuffered(f) PROVE execs' = execs
    OBVIOUS
  <2>1. QED
    BY DEF Next, CreateActor, BindToActor, ResetTransport, LoseMessage, Send, Dispose,
       DisposeConnector, Register, Unregister, Pause, ResumeSoon, ResumeTimer, FinishHandler, serverVars
<1>6. QED BY <1>2, <1>3, <1>4, <1>5

\* An end runs the requests of a sender in the order in which they were made:
\* whatever transports were replaced and whatever was held back on the way
\* (_markAsReady, _pendingMessages, _deliverBufferedIncomingMessages), the first
\* run of a request comes after that of each earlier one that is still pending,
\* except for those in the receiver's buffer.
THEOREM InOrderTheorem ==
  ASSUME DistinctUids, PromptParent
  PROVE  Spec => InOrder
<1>1. Init => OwnInv /\ SoundInv /\ OrderedInv
  BY OwnInit, SoundInit, OrderInit
<1>2. OwnInv /\ SoundInv /\ OrderedInv /\ [Next]_vars => OwnInv' /\ SoundInv' /\ OrderedInv'
  BY OwnNext, PeerNext, SoundNext, OrderNext DEF OwnInv
<1>3. OwnInv /\ OrderedInv /\ [Next]_vars => [RunsInOrder]_vars
  BY RunNext
<1>4. QED BY <1>1, <1>2, <1>3, PTL DEF Spec, InOrder, RunsInOrder

-----------------------------------------------------------------------------
(* What is answered is not run again: queues *)

LEMMA KindsConcat ==
  ASSUME NEW q \in Seq(Message), NEW ms \in Seq(Message)
  PROVE  /\ Acks(q \o ms) = Acks(q) \cup Acks(ms)
         /\ Answers(q \o ms) = Answers(q) \cup Answers(ms)
<1> DEFINE n == Len(q)
           k == Len(ms)
           z == q \o ms
<1>1. /\ \A p \in 1..n : p \in 1..Len(z) /\ z[p] = q[p]
      /\ \A l \in 1..k : n + l \in 1..Len(z) /\ z[n + l] = ms[l]
      /\ \A p \in 1..Len(z) : p \in 1..n \/ \E l \in 1..k : p = n + l
  BY ConcatPlaces
<1> HIDE DEF n, k, z
<1>2. ASSUME NEW j \in Id
      PROVE  /\ j \in Acks(z) => j \in Acks(q) \/ j \in Acks(ms)
             /\ j \in Acks(q) \/ j \in Acks(ms) => j \in Acks(z)
  <2>1. (\E p \in 1..Len(z) : z[p] = ResponseAck(j))
           => \/ \E p \in 1..n : q[p] = ResponseAck(j)
              \/ \E l \in 1..k : ms[l] = ResponseAck(j)
    BY <1>1
  <2>2. (\/ \E p \in 1..n : q[p] = ResponseAck(j)
         \/ \E l \in 1..k : ms[l] = ResponseAck(j))
           => \E p \in 1..Len(z) : z[p] = ResponseAck(j)
    BY <1>1
  <2>3. QED BY <2>1, <2>2 DEF Acks, n, k
<1>3. ASSUME NEW j \in Id
      PROVE  /\ j \in Answers(z) => j \in Answers(q) \/ j \in Answers(ms)
             /\ j \in Answers(q) \/ j \in Answers(ms) => j \in Answers(z)
  <2>1. (\E p \in 1..Len(z) : z[p].type = "RESPONSE" /\ z[p].id = j)
           => \/ \E p \in 1..n : q[p].type = "RESPONSE" /\ q[p].id = j
              \/ \E l \in 1..k : ms[l].type = "RESPONSE" /\ ms[l].id = j
    BY <1>1
  <2>2. (\/ \E p \in 1..n : q[p].type = "RESPONSE" /\ q[p].id = j
         \/ \E l \in 1..k : ms[l].type = "RESPONSE" /\ ms[l].id = j)
           => \E p \in 1..Len(z) : z[p].type = "RESPONSE" /\ z[p].id = j
    BY <1>1
  <2>3. QED BY <2>1, <2>2 DEF Answers, n, k
<1>4. Acks(z) \subseteq Id /\ Acks(q) \subseteq Id /\ Acks(ms) \subseteq Id
  BY DEF Acks
<1>5. Answers(z) \subseteq Id /\ Answers(q) \subseteq Id /\ Answers(ms) \subseteq Id
  BY DEF Answers
<1>6. Acks(z) = Acks(q) \cup Acks(ms)
  BY <1>2, <1>4
<1>7. Answers(z) = Answers(q) \cup Answers(ms)
  BY <1>3, <1>5
<1>8. QED BY <1>6, <1>7 DEF z

LEMMA AfterAckConcat ==
  ASSUME NEW q \in Seq(Message), NEW ms \in Seq(Message), AfterAck(q), AfterAck(ms),
         \A k \in Acks(q) : <<Parent, k>> \notin Held(ms)
  PROVE  AfterAck(q \o ms)
<1> DEFINE n == Len(q)
           k == Len(ms)
           z == q \o ms
<1>1. /\ \A p \in 1..n : p \in 1..Len(z) /\ z[p] = q[p]
      /\ \A l \in 1..k : n + l \in 1..Len(z) /\ z[n + l] = ms[l]
      /\ \A p \in 1..Len(z) : p \in 1..n \/ \E l \in 1..k : p = n + l
      /\ \A j \in 1..n, l \in 1..k : j < n + l
  BY ConcatPlaces
<1>2. n \in Nat
  OBVIOUS
<1>3. /\ \A j, l \in 1..k : n + j < n + l => j < l
      /\ \A j \in 1..n, l \in 1..k : ~(n + l < j)
  BY <1>2
<1> HIDE DEF n, k, z
<1>4. ASSUME NEW id \in Id, NEW p \in 1..Len(z), NEW x \in 1..Len(z),
             p < x, z[p] = ResponseAck(id), z[x] = Request(<<Parent, id>>)
      PROVE  FALSE
  <2>1. CASE x \in 1..n
    <3>1. p \in 1..n
      BY <1>1, <1>3, <1>4, <2>1
    <3>2. QED BY <1>1, <1>4, <2>1, <3>1 DEF AfterAck, n
  <2>2. CASE \E l \in 1..k : x = n + l
    <3>1. PICK l \in 1..k : x = n + l
      BY <2>2
    <3>2. ms[l] = Request(<<Parent, id>>)
      BY <1>1, <1>4, <3>1
    <3>3. CASE p \in 1..n
      <4>1. id \in Acks(q)
        BY <1>1, <1>4, <3>3 DEF Acks, n
      <4>2. <<Parent, id>> \in Call
        <5>1. ms[l] \in Message /\ ms[l].type = "REQUEST" /\ ms[l].call = <<Parent, id>>
          BY <3>2 DEF Request, k
        <5>2. QED BY <5>1, RequestIsItsCall
      <4>3. QED BY <3>2, <4>1, <4>2 DEF Held, k
    <3>4. CASE \E j \in 1..k : p = n + j
      <4>1. PICK j \in 1..k : p = n + j
        BY <3>4
      <4>2. j < l /\ ms[j] = ResponseAck(id)
        BY <1>1, <1>3, <1>4, <3>1, <4>1
      <4>3. QED BY <3>2, <4>2 DEF AfterAck, k
    <3>5. QED BY <1>1, <3>3, <3>4
  <2>3. QED BY <1>1, <2>1, <2>2
<1>5. QED BY <1>4 DEF AfterAck, z

LEMMA NoTwiceConcat ==
  ASSUME NEW q \in Seq(Message), NEW ms \in Seq(Message), NoTwice(q), NoTwice(ms),
         \A c \in Held(q) : c \notin Held(ms)
  PROVE  NoTwice(q \o ms)
<1> DEFINE n == Len(q)
           k == Len(ms)
           z == q \o ms
<1>1. /\ \A p \in 1..n : p \in 1..Len(z) /\ z[p] = q[p]
      /\ \A l \in 1..k : n + l \in 1..Len(z) /\ z[n + l] = ms[l]
      /\ \A p \in 1..Len(z) : p \in 1..n \/ \E l \in 1..k : p = n + l
  BY ConcatPlaces
<1>2. n \in Nat
  OBVIOUS
<1>3. /\ \A j, l \in 1..k : n + j < n + l => j < l
      /\ \A j \in 1..n, l \in 1..k : ~(n + l < j)
  BY <1>2
<1> HIDE DEF n, k, z
<1>4. ASSUME NEW c \in Call, NEW p \in 1..Len(z), NEW x \in 1..Len(z),
             p < x, z[p] = Request(c), z[x] = Request(c)
      PROVE  FALSE
  <2>1. CASE x \in 1..n
    <3>1. p \in 1..n
      BY <1>1, <1>3, <1>4, <2>1
    <3>2. QED BY <1>1, <1>4, <2>1, <3>1 DEF NoTwice, n
  <2>2. CASE \E l \in 1..k : x = n + l
    <3>1. PICK l \in 1..k : x = n + l
      BY <2>2
    <3>2. ms[l] = Request(c)
      BY <1>1, <1>4, <3>1
    <3>3. CASE p \in 1..n
      <4>1. c \in Held(q) /\ c \in Held(ms)
        BY <1>1, <1>4, <3>2, <3>3 DEF Held, n, k
      <4>2. QED BY <4>1
    <3>4. CASE \E j \in 1..k : p = n + j
      <4>1. PICK j \in 1..k : p = n + j
        BY <3>4
      <4>2. j < l /\ ms[j] = Request(c)
        BY <1>1, <1>3, <1>4, <3>1, <4>1
      <4>3. QED BY <3>2, <4>2 DEF NoTwice, k
    <3>5. QED BY <1>1, <3>3, <3>4
  <2>3. QED BY <1>1, <2>1, <2>2
<1>5. QED BY <1>4 DEF NoTwice, z

LEMMA KindsTail ==
  ASSUME NEW q \in Seq(Message), q # <<>>
  PROVE  /\ Acks(Tail(q)) \subseteq Acks(q) /\ Answers(Tail(q)) \subseteq Answers(q)
         /\ AfterAck(q) => AfterAck(Tail(q))
         /\ NoTwice(q) => NoTwice(Tail(q))
         /\ \A k \in Id : Head(q) = ResponseAck(k) => k \in Acks(q)
         /\ \A k \in Id : Head(q).type = "RESPONSE" /\ Head(q).id = k => k \in Answers(q)
         /\ \A k \in Id : AfterAck(q) /\ Head(q) = ResponseAck(k) => <<Parent, k>> \notin Held(Tail(q))
         /\ \A c \in Call : NoTwice(q) /\ Head(q) = Request(c) => c \notin Held(Tail(q))
<1> DEFINE t == Tail(q)
<1>1. /\ Len(q) \in Nat /\ Len(q) # 0 /\ Len(t) = Len(q) - 1
      /\ \A k \in 1..Len(q) - 1 : t[k] = q[k + 1]
      /\ Head(q) = q[1]
  OBVIOUS
<1>2. \A n \in Nat : n # 0 => /\ 1 \in 1..n
                              /\ \A k \in 1..n - 1 : k + 1 \in 1..n /\ 1 < k + 1
                              /\ \A j, k \in 1..n - 1 : j < k => j + 1 < k + 1
  OBVIOUS
<1>3. /\ 1 \in 1..Len(q)
      /\ \A k \in 1..Len(t) : k + 1 \in 1..Len(q) /\ t[k] = q[k + 1] /\ 1 < k + 1
      /\ \A j, k \in 1..Len(t) : j < k => j + 1 < k + 1
  BY <1>1, <1>2
<1> HIDE DEF t
<1>4. Acks(t) \subseteq Acks(q)
  BY <1>3 DEF Acks
<1>5. Answers(t) \subseteq Answers(q)
  BY <1>3 DEF Answers
<1>6. AfterAck(q) => AfterAck(t)
  BY <1>3 DEF AfterAck
<1>7. NoTwice(q) => NoTwice(t)
  BY <1>3 DEF NoTwice
<1>8. \A k \in Id : Head(q) = ResponseAck(k) => k \in Acks(q)
  BY <1>1, <1>3 DEF Acks
<1>9. \A k \in Id : Head(q).type = "RESPONSE" /\ Head(q).id = k => k \in Answers(q)
  BY <1>1, <1>3 DEF Answers
<1>10. \A k \in Id : AfterAck(q) /\ Head(q) = ResponseAck(k) => <<Parent, k>> \notin Held(t)
  BY <1>1, <1>3 DEF AfterAck, Held
<1>11. \A c \in Call : NoTwice(q) /\ Head(q) = Request(c) => c \notin Held(t)
  BY <1>1, <1>3 DEF NoTwice, Held
<1>12. QED BY <1>4, <1>5, <1>6, <1>7, <1>8, <1>9, <1>10, <1>11 DEF t

LEMMA KindsOfOne ==
  /\ Acks(<<>>) = {} /\ Answers(<<>>) = {} /\ AfterAck(<<>>) /\ NoTwice(<<>>)
  /\ \A m : /\ AfterAck(<<m>>) /\ NoTwice(<<m>>)
            /\ m.type # "RESPONSE" => Answers(<<m>>) = {}
            /\ m.type # "RESPONSE_ACK" => Acks(<<m>>) = {}
  /\ \A id \in Id : Acks(<<ResponseAck(id)>>) = {id}
  /\ \A c \in Call : Answers(<<Response(c)>>) = {c[2]}
<1>1. Acks(<<>>) = {} /\ Answers(<<>>) = {} /\ AfterAck(<<>>) /\ NoTwice(<<>>)
  BY DEF Acks, Answers, AfterAck, NoTwice
<1>2. \A m : Len(<<m>>) = 1 /\ <<m>>[1] = m /\ 1..Len(<<m>>) = {1}
  OBVIOUS
<1>3. \A m : AfterAck(<<m>>) /\ NoTwice(<<m>>)
  BY <1>2 DEF AfterAck, NoTwice
<1>4. \A m : m.type # "RESPONSE" => Answers(<<m>>) = {}
  BY <1>2 DEF Answers
<1>5. \A m : m.type # "RESPONSE_ACK" => Acks(<<m>>) = {}
  BY <1>2 DEF Acks, ResponseAck
<1>6. ASSUME NEW id \in Id PROVE Acks(<<ResponseAck(id)>>) = {id}
  <2>1. \A j : ResponseAck(j) = ResponseAck(id) => j = id
    <3>1. \A j : ResponseAck(j).id = j
      BY DEF ResponseAck
    <3>2. QED BY <3>1
  <2>2. QED BY <1>2, <2>1 DEF Acks
<1>7. ASSUME NEW c \in Call PROVE Answers(<<Response(c)>>) = {c[2]}
  <2>1. Response(c).type = "RESPONSE" /\ Response(c).id = c[2] /\ c[2] \in Id
    BY MessageTypes DEF Response
  <2>2. QED BY <1>2, <2>1 DEF Answers
<1>8. QED BY <1>1, <1>3, <1>4, <1>5, <1>6, <1>7

-----------------------------------------------------------------------------
(* What is answered is not run again: the invariant *)

LEMMA ShrunkFacts ==
  ASSUME NEW q \in Seq(Message), NEW r, Shrunk(q, r)
  PROVE  /\ r \in Seq(Message)
         /\ Held(r) \subseteq Held(q) /\ Acks(r) \subseteq Acks(q) /\ Answers(r) \subseteq Answers(q)
         /\ AfterAck(q) => AfterAck(r)
         /\ NoTwice(q) => NoTwice(r)
<1>1. CASE r = q
  BY <1>1
<1>2. CASE r = <<>>
  BY <1>2, HeldNone, KindsOfOne
<1>3. CASE q # <<>> /\ r = Tail(q)
  <2>1. r \in Seq(Message)
    BY <1>3
  <2>2. QED BY <1>3, <2>1, HeldTail, KindsTail
<1>4. QED BY <1>1, <1>2, <1>3 DEF Shrunk

\* No copy of a settled request comes back.
LEMMA CopiesGo ==
  ASSUME inbox \in InboxType, ContentLink, NEW b \in Actor, NEW k \in spent,
         <<Parent, k>> \in Held(inbox'[b]["content"])
  PROVE  <<Parent, k>> \in Held(inbox[b]["content"])
<1>1. inbox[b]["content"] \in Seq(Message)
  BY DEF InboxType
<1>2. CASE Shrunk(inbox[b]["content"], inbox'[b]["content"])
  BY <1>1, <1>2, ShrunkFacts
<1>3. CASE ~Shrunk(inbox[b]["content"], inbox'[b]["content"])
  <2>1. PICK ms \in Seq(Message) :
          /\ inbox'[b]["content"] = inbox[b]["content"] \o ms
          /\ <<Parent, k>> \notin Held(ms)
    BY <1>3 DEF ContentLink
  <2>2. Held(inbox'[b]["content"]) = Held(inbox[b]["content"]) \cup Held(ms)
    BY <1>1, <2>1, HeldConcat
  <2>3. QED BY <2>1, <2>2
<1>4. QED BY <1>2, <1>3

LEMMA AckStep ==
  ASSUME inbox \in InboxType, AckInv(inbox, spent), ContentLink, spent \subseteq spent'
  PROVE  AckInv(inbox', spent')
<1> SUFFICES ASSUME NEW a \in Actor
             PROVE  /\ AfterAck(inbox'[a]["content"]) /\ Acks(inbox'[a]["content"]) \subseteq spent'
                    /\ \A b \in Actor : \A k \in Acks(inbox'[a]["content"]) :
                         a < b => <<Parent, k>> \notin Held(inbox'[b]["content"])
  BY DEF AckInv
<1>1. /\ inbox[a]["content"] \in Seq(Message)
      /\ AfterAck(inbox[a]["content"]) /\ Acks(inbox[a]["content"]) \subseteq spent
  BY DEF InboxType, AckInv
<1>2. \A b \in Actor : \A k \in Acks(inbox[a]["content"]) :
        a < b => <<Parent, k>> \notin Held(inbox'[b]["content"])
  BY <1>1, CopiesGo DEF AckInv
<1>3. CASE Shrunk(inbox[a]["content"], inbox'[a]["content"])
  <2>1. /\ AfterAck(inbox'[a]["content"])
        /\ Acks(inbox'[a]["content"]) \subseteq Acks(inbox[a]["content"])
    BY <1>1, <1>3, ShrunkFacts
  <2>2. QED BY <1>1, <1>2, <2>1
<1>4. CASE ~Shrunk(inbox[a]["content"], inbox'[a]["content"])
  <2>1. PICK ms \in Seq(Message) :
          /\ inbox'[a]["content"] = inbox[a]["content"] \o ms
          /\ AfterAck(ms) /\ Acks(ms) \subseteq spent'
          /\ \A k \in spent : <<Parent, k>> \notin Held(ms)
          /\ Acks(ms) = {} \/ \A b \in Actor : a < b => inbox'[b]["content"] = <<>>
    BY <1>4 DEF ContentLink
  <2>2. Acks(inbox'[a]["content"]) = Acks(inbox[a]["content"]) \cup Acks(ms)
    BY <1>1, <2>1, KindsConcat
  <2>3. \A k \in Acks(inbox[a]["content"]) : <<Parent, k>> \notin Held(ms)
    BY <1>1, <2>1
  <2>4. AfterAck(inbox'[a]["content"])
    BY <1>1, <2>1, <2>3, AfterAckConcat
  <2>5. \A b \in Actor : \A k \in Acks(ms) :
          a < b => <<Parent, k>> \notin Held(inbox'[b]["content"])
    BY <2>1, HeldNone
  <2>6. QED BY <1>1, <1>2, <2>1, <2>2, <2>4, <2>5
<1>5. QED BY <1>3, <1>4

\* A response that is kept, or not needed, stays so.
LEMMA SafeStep ==
  ASSUME inbox \in InboxType, ContentLink, spent \subseteq spent',
         \A b \in Actor : hostOf'[b] = hostOf[b] \/ inbox'[b]["content"] = <<>>,
         NEW i \in Instance, NEW k \in Id, Safe(i, k),
         \/ cached'[i][k] # NoCall \/ cached[i][k] = NoCall
         \/ k \in spent /\ NoCopyFor(inbox', i, k)
  PROVE  Safe(i, k)'
<1>1. CASE cached'[i][k] # NoCall
  BY <1>1 DEF Safe
<1>2. CASE k \in spent /\ NoCopyFor(inbox', i, k)
  <2>1. ASSUME NEW a \in Actor, hostOf'[a] = i PROVE <<Parent, k>> \notin Held(inbox'[a]["content"])
    BY <1>2, <2>1, HeldNone DEF NoCopyFor
  <2>2. QED BY <1>2, <2>1 DEF Safe, NoCopyFor
<1>3. CASE k \in spent /\ NoCopyFor(inbox, i, k)
  <2>1. ASSUME NEW a \in Actor, hostOf'[a] = i PROVE <<Parent, k>> \notin Held(inbox'[a]["content"])
    <3>1. CASE inbox'[a]["content"] = <<>>
      BY <3>1, HeldNone
    <3>2. CASE hostOf'[a] = hostOf[a]
      BY <1>3, <2>1, <3>2, CopiesGo DEF NoCopyFor
    <3>3. QED BY <3>1, <3>2
  <2>2. QED BY <1>3, <2>1 DEF Safe, NoCopyFor
<1>4. QED BY <1>1, <1>2, <1>3 DEF Safe

LEMMA ServedStep ==
  ASSUME SoundInv, RanInv, RanInv', ServedInv,
         execs \in [End -> [Call -> Nat]],
         execs' \in [End -> [Call -> Nat]],
         \A f \in End, c \in Call : execs[f][c] > 0 => execs'[f][c] > 0,
         \A i \in Instance, k \in Id : Safe(i, k) => Safe(i, k)',
         \A a \in Actor, i \in Instance, k \in Id :
           hostOf'[a] = i /\ k \in Answers(inbox'[a]["parent"]) =>
             \/ hostOf[a] = i /\ k \in Answers(inbox[a]["parent"])
             \/ <<Parent, k>> \in NoMethod
             \/ execs'[i][<<Parent, k>>] > 0 /\ Safe(i, k)',
         \A k \in Id : answer'[Parent][k] # NoCall =>
           \/ answer[Parent][k] # NoCall
           \/ \E a \in Actor : hostOf[a] \in Instance /\ k \in Answers(inbox[a]["parent"])
  PROVE  ServedInv'
<1> SUFFICES ASSUME NEW i \in Instance, NEW k \in Id, <<Parent, k>> \in Call
             PROVE  /\ \A a \in Actor : hostOf'[a] = i /\ k \in Answers(inbox'[a]["parent"]) =>
                         \/ <<Parent, k>> \in NoMethod
                         \/ execs'[i][<<Parent, k>>] > 0 /\ Safe(i, k)'
                    /\ /\ answer'[Parent][k] # NoCall /\ execs'[i][<<Parent, k>>] > 0
                       /\ \A f \in End \ {i} : execs'[f][<<Parent, k>>] = 0
                       => Safe(i, k)'
  BY DEF ServedInv
<1> DEFINE c == <<Parent, k>>
<1>0. c \in Call /\ i \in End /\ Parent \in End
  BY EndKinds
<1>n. \A f \in End : execs[f][c] \in Nat /\ execs'[f][c] \in Nat
  BY <1>0
<1>m. \A f \in End : execs[f][c] > 0 => execs'[f][c] > 0
  BY <1>0
<1>1. ASSUME NEW a \in Actor, hostOf'[a] = i, k \in Answers(inbox'[a]["parent"]), c \notin NoMethod
      PROVE  execs'[i][c] > 0 /\ Safe(i, k)'
  <2>1. CASE hostOf[a] = i /\ k \in Answers(inbox[a]["parent"])
    <3>1. execs[i][c] > 0 /\ Safe(i, k)
      BY <1>0, <1>1, <2>1 DEF ServedInv
    <3>2. QED BY <1>0, <1>m, <3>1
  <2>2. CASE ~(hostOf[a] = i /\ k \in Answers(inbox[a]["parent"]))
    BY <1>1, <2>2
  <2>3. QED BY <2>1, <2>2
<1>2. ASSUME answer'[Parent][k] # NoCall, execs'[i][c] > 0,
             \A f \in End \ {i} : execs'[f][c] = 0
      PROVE  Safe(i, k)'
  <2>1. \A f \in End : execs[f][c] > 0 => f = i
    <3>1. ASSUME NEW f \in End \ {i} PROVE ~(execs[f][c] > 0)
      <4>1. f \in End /\ execs'[f][c] = 0
        BY <1>2
      <4>2. ~(execs'[f][c] > 0)
        BY <4>1, SMT
      <4>3. QED BY <1>m, <4>1, <4>2, ZenonT(30)
    <3>2. QED BY <3>1
  <2>2. c \notin NoMethod
    BY <1>0, <1>n, <1>2 DEF RanInv
  <2>3. CASE answer[Parent][k] # NoCall
    <3>1. c \in done
      BY <1>0, <2>3 DEF SoundInv, AskedInv
    <3>2. PICK f \in End : execs[f][c] > 0
      BY <2>2, <3>1 DEF done, callsRun
    <3>3. execs[i][c] > 0 /\ \A g \in End \ {i} : execs[g][c] = 0
      <4>1. f = i /\ execs[i][c] > 0
        BY <2>1, <3>2
      <4>2. ASSUME NEW g \in End \ {i} PROVE execs[g][c] = 0
        <5>1. g \in End /\ g # i /\ execs[g][c] \in Nat
          BY <1>n
        <5>2. ~(execs[g][c] > 0)
          BY <2>1, <5>1
        <5>3. QED BY <5>1, <5>2, SMT
      <4>3. QED BY <4>1, <4>2
    <3>4. Safe(i, k)
      BY <1>0, <2>3, <3>3 DEF ServedInv
    <3>5. QED BY <3>4
  <2>4. CASE answer[Parent][k] = NoCall
    <3>1. PICK a \in Actor : hostOf[a] \in Instance /\ k \in Answers(inbox[a]["parent"])
      BY <1>2, <2>4
    <3>2. execs[hostOf[a]][c] > 0 /\ Safe(hostOf[a], k)
      BY <1>0, <2>2, <3>1 DEF ServedInv
    <3>3. hostOf[a] = i
      BY <2>1, <3>1, <3>2, EndKinds
    <3>4. QED BY <3>2, <3>3
  <2>5. QED BY <2>3, <2>4
<1>3. QED BY <1>1, <1>2

LEMMA KnownStep ==
  ASSUME inbox \in InboxType, KnownInv, ContentLink, Silent(inbox)',
         \A a \in Actor : hostOf'[a] = hostOf[a] \/ (inbox'[a]["content"] = <<>> /\ transport'[Parent] # a),
         \A i \in Instance : Strange(i)' =>
           /\ Strange(i) /\ running'[i] \subseteq running[i]
           /\ \A k \in Id : cached'[i][k] = cached[i][k] \/ cached'[i][k] = NoCall,
         \A i \in Instance : \A r \in running'[i] : r \in running[i] \/ r.uid = UidOf[Parent],
         \A i \in Instance, a \in Actor : hostOf[a] = i /\ Strange(i)' /\ ~Deaf(i, a)' =>
           /\ ~Deaf(i, a)
           /\ \/ inbox'[a]["content"] = inbox[a]["content"]
              \/ ~Shrunk(inbox[a]["content"], inbox'[a]["content"])
              \/ /\ inbox[a]["content"] # <<>> /\ inbox'[a]["content"] = Tail(inbox[a]["content"])
                 /\ Head(inbox[a]["content"]).type \notin Greeting
           /\ transport'[Parent] = a => transport[Parent] = a \/ HasGreeting(inbox'[a]["content"])
  PROVE  KnownInv'
<1> SUFFICES ASSUME NEW i \in Instance
             PROVE  /\ Strange(i)' => running'[i] = {} /\ \A k \in Id : cached'[i][k] = NoCall
                    /\ \A r \in running'[i] : r.uid = UidOf[Parent]
                    /\ \A a \in Actor : hostOf'[a] = i /\ Strange(i)' =>
                         /\ Prefaced(inbox'[a]["content"])
                         /\ HasGreeting(inbox'[a]["content"]) \/ transport'[Parent] # a \/ Deaf(i, a)'
  BY DEF KnownInv
<1>1. Strange(i)' => running'[i] = {} /\ \A k \in Id : cached'[i][k] = NoCall
  BY DEF KnownInv
<1>2. \A r \in running'[i] : r.uid = UidOf[Parent]
  BY DEF KnownInv
<1>3. Prefaced(<<>>)
  BY EmptyOrder, NoRequestPrefaced
<1>4. ASSUME NEW a \in Actor, hostOf'[a] = i, Strange(i)'
      PROVE  /\ Prefaced(inbox'[a]["content"])
             /\ HasGreeting(inbox'[a]["content"]) \/ transport'[Parent] # a \/ Deaf(i, a)'
  <2>1. CASE inbox'[a]["content"] = <<>> /\ transport'[Parent] # a
    BY <1>3, <2>1
  <2>2. CASE Deaf(i, a)'
    <3>1. inbox'[a]["content"] = <<>>
      BY <1>4, <2>2 DEF Silent
    <3>2. QED BY <1>3, <2>2, <3>1
  <2>3. CASE ~Deaf(i, a)' /\ ~(inbox'[a]["content"] = <<>> /\ transport'[Parent] # a)
    <3>1. /\ hostOf[a] = i /\ ~Deaf(i, a) /\ Strange(i)
          /\ Prefaced(inbox[a]["content"])
          /\ HasGreeting(inbox[a]["content"]) \/ transport[Parent] # a
          /\ inbox[a]["content"] \in Seq(Message)
      BY <1>4, <2>3 DEF KnownInv, InboxType
    <3>2. CASE inbox'[a]["content"] = inbox[a]["content"]
      BY <1>4, <2>3, <3>1, <3>2
    <3>3. CASE /\ inbox[a]["content"] # <<>> /\ inbox'[a]["content"] = Tail(inbox[a]["content"])
               /\ Head(inbox[a]["content"]).type \notin Greeting
      <4>1. /\ Prefaced(inbox'[a]["content"])
            /\ HasGreeting(inbox[a]["content"]) => HasGreeting(inbox'[a]["content"])
        BY <3>1, <3>3, TailOrder
      <4>2. QED BY <1>4, <2>3, <3>1, <4>1
    <3>4. CASE ~Shrunk(inbox[a]["content"], inbox'[a]["content"])
      <4>1. PICK ms \in Seq(Message) :
              /\ inbox'[a]["content"] = inbox[a]["content"] \o ms
              /\ transport'[Parent] = a
              /\ transport[Parent] = a \/ ms = <<Ready(Parent)>>
        BY <3>4 DEF ContentLink
      <4>2. CASE transport[Parent] = a
        <5>1. HasGreeting(inbox[a]["content"])
          BY <3>1, <4>2
        <5>2. QED BY <3>1, <4>1, <5>1, ConcatOrder
      <4>3. CASE ms = <<Ready(Parent)>>
        <5>1. Len(ms) = 1 /\ ms[1] = Ready(Parent) /\ 1..Len(ms) = {1}
          BY <4>3
        <5>2. NoRequest(ms) /\ HasGreeting(ms)
          BY <5>1 DEF NoRequest, HasGreeting, Greeting, Ready
        <5>3. QED BY <3>1, <4>1, <5>2, ConcatOrder
      <4>4. QED BY <4>1, <4>2, <4>3
    <3>5. QED BY <1>4, <2>3, <3>1, <3>2, <3>3, <3>4
  <2>4. QED BY <2>1, <2>2, <2>3
<1>5. QED BY <1>1, <1>2, <1>4

LEMMA BaseParts ==
  ASSUME BaseInv
  PROVE  /\ TypeOK /\ PeerInv /\ SeenInv /\ BoundInv /\ Hosted /\ Silent(inbox) /\ RanInv
         /\ inbox \in InboxType /\ WireInv(inbox) /\ WireOwn(inbox)
         /\ hostOf \in [Actor -> End] /\ transport \in [End -> 0..NActor]
         /\ seen \in [End -> 0..NActor] /\ sent \in [End -> 0..MaxId]
         /\ \A e \in End : transport[e] \in {NoActor, seen[e]}
         /\ \A e \in End : transport[e] # NoActor =>
              /\ transport[e] \in Actor /\ transport[e] <= created
              /\ hostOf[transport[e]] \in Instance
              /\ e # Parent => hostOf[transport[e]] = e
<1>1. TypeOK /\ PeerInv /\ SeenInv /\ BoundInv /\ Hosted /\ Silent(inbox) /\ RanInv
  BY DEF BaseInv, OwnInv, PairOwn, LinkInv, PeerInv
<1>2. /\ inbox \in InboxType /\ WireInv(inbox) /\ WireOwn(inbox)
      /\ hostOf \in [Actor -> End] /\ transport \in [End -> 0..NActor]
      /\ seen \in [End -> 0..NActor] /\ created \in 0..NActor
  BY <1>1, TypeParts DEF BaseInv, OwnInv, PairOwn, PeerInv
<1>3. sent \in [End -> 0..MaxId]
  BY <1>1 DEF TypeOK
<1>4. \A e \in End : transport[e] \in {NoActor, seen[e]}
  BY <1>1 DEF SeenInv
<1>5. ASSUME NEW e \in End, transport[e] # NoActor
      PROVE  /\ transport[e] \in Actor /\ transport[e] <= created
             /\ hostOf[transport[e]] \in Instance
             /\ e # Parent => hostOf[transport[e]] = e
  <2>1. transport[e] \in Actor /\ transport[e] <= created
    BY <1>1, <1>2, <1>5, ConstantTypes DEF BoundInv, Actor, NoActor
  <2>2. QED BY <1>1, <1>5, <2>1 DEF BoundInv, Hosted
<1>6. QED BY <1>1, <1>2, <1>3, <1>4, <1>5

LEMMA SpentGrows ==
  ASSUME sent[Parent] \in 0..MaxId, sent'[Parent] \in 0..MaxId, sent[Parent] <= sent'[Parent],
         \A k \in pending'[Parent] : k \in pending[Parent] \/ k > sent[Parent]
  PROVE  spent \subseteq spent'
<1> SUFFICES ASSUME NEW k \in spent PROVE k \in spent'
  OBVIOUS
<1>1. k \in Id /\ k \notin pending[Parent] /\ k <= sent[Parent]
  BY DEF spent
<1>2. k \in Int /\ sent[Parent] \in Int /\ sent'[Parent] \in Int
  BY <1>1, ConstantTypes DEF Id
<1>3. k <= sent'[Parent] /\ k \notin pending'[Parent]
  BY <1>1, <1>2
<1>4. QED BY <1>1, <1>3 DEF spent

LEMMA ShrunkConcat ==
  ASSUME NEW q \in Seq(Message), NEW ms \in Seq(Message), Shrunk(q, q \o ms)
  PROVE  q \o ms = q
<1>1. Len(q \o ms) = Len(q) + Len(ms) /\ Len(q) \in Nat /\ Len(ms) \in Nat
  OBVIOUS
<1>2. CASE q \o ms = <<>>
  <2>1. Len(q \o ms) = 0
    BY <1>2
  <2>2. Len(q) = 0
    BY <1>1, <2>1
  <2>3. q = <<>>
    BY <2>2
  <2>4. QED BY <1>2, <2>3
<1>3. CASE q # <<>> /\ q \o ms = Tail(q)
  <2>1. Len(Tail(q)) = Len(q) - 1
    BY <1>3
  <2>2. QED BY <1>1, <1>3, <2>1
<1>4. QED BY <1>2, <1>3 DEF Shrunk

\* What the parent sends on a pair, and what a content end sends.
LEMMA ParentPosts ==
  ASSUME BaseInv, NEW box \in InboxType, NEW ms \in Seq(Message),
         \A a \in Actor : box[a]["content"] = inbox[a]["content"],
         inbox' = box \/ inbox' = Post(box, Parent, transport[Parent], ms),
         transport'[Parent] = transport[Parent],
         AfterAck(ms), Acks(ms) \subseteq spent', \A k \in spent : <<Parent, k>> \notin Held(ms)
  PROVE  /\ ContentLink
         /\ \A a \in Actor : inbox'[a]["parent"] = box[a]["parent"]
         /\ \A a \in Actor : inbox'[a]["content"] = inbox[a]["content"]
              \/ (a = transport[Parent] /\ inbox'[a]["content"] = inbox[a]["content"] \o ms)
<1> DEFINE t == transport[Parent]
<1>0. Parent \in End /\ t \in 0..NActor /\ Other(Parent) = "content" /\ "parent" # "content"
      /\ t \in {NoActor, seen[Parent]} /\ Silent(inbox) /\ seen[Parent] \in 0..NActor
  BY BaseParts, EndKinds
<1>1. CASE \A a \in Actor, d \in {"parent", "content"} : inbox'[a][d] = box[a][d]
  <2>1. \A a \in Actor : Shrunk(inbox[a]["content"], inbox'[a]["content"])
    BY <1>1 DEF Shrunk
  <2>2. QED BY <1>1, <2>1 DEF ContentLink
<1>2. CASE /\ t \in Actor /\ ~Deaf(hostOf[t], t)
           /\ inbox'[t]["content"] = box[t]["content"] \o ms
           /\ \A b \in Actor, d \in {"parent", "content"} :
                b # t \/ d # "content" => inbox'[b][d] = box[b][d]
  <2>1. \A a \in Actor : a # t => inbox'[a]["content"] = inbox[a]["content"]
    BY <1>2
  <2>2. \A a \in Actor : inbox'[a]["parent"] = box[a]["parent"]
    BY <1>0, <1>2
  <2>3. ASSUME NEW b \in Actor, t < b PROVE inbox'[b]["content"] = <<>>
    <3>1. b # t /\ seen[Parent] = t
      BY <1>0, <1>2, <2>3 DEF Actor, NoActor
    <3>2. QED BY <1>0, <2>1, <2>3, <3>1 DEF Silent
  <2>4. ASSUME NEW a \in Actor
        PROVE  \/ Shrunk(inbox[a]["content"], inbox'[a]["content"])
               \/ \E zs \in Seq(Message) :
                     /\ inbox'[a]["content"] = inbox[a]["content"] \o zs
                     /\ transport'[Parent] = a /\ ~Deaf(hostOf[a], a)
                     /\ transport[Parent] = a \/ zs = <<Ready(Parent)>>
                     /\ AfterAck(zs) /\ Acks(zs) \subseteq spent'
                     /\ \A k \in spent : <<Parent, k>> \notin Held(zs)
                     /\ Acks(zs) = {} \/ \A b \in Actor : a < b => inbox'[b]["content"] = <<>>
    <3>1. CASE a # t
      BY <2>1, <3>1 DEF Shrunk
    <3>2. CASE a = t
      <4>1. /\ inbox'[a]["content"] = inbox[a]["content"] \o ms
            /\ transport'[Parent] = a /\ ~Deaf(hostOf[a], a)
            /\ transport[Parent] = a
            /\ \A b \in Actor : a < b => inbox'[b]["content"] = <<>>
        BY <1>2, <2>3, <3>2
      <4>2. QED BY <4>1
    <3>3. QED BY <3>1, <3>2
  <2>5. ContentLink
    BY <2>4 DEF ContentLink
  <2>6. QED BY <1>2, <2>1, <2>2, <2>5
<1>3. QED
  <2>1. CASE inbox' = box
    BY <1>1, <2>1
  <2>2. CASE inbox' = Post(box, Parent, t, ms)
    <3>1. \/ Post(box, Parent, t, ms) = box
          \/ /\ t \in Actor /\ ~Deaf(Peer(Parent, t), t)
             /\ Post(box, Parent, t, ms)[t][Other(Parent)] = box[t][Other(Parent)] \o ms
             /\ \A b \in Actor, d \in {"parent", "content"} :
                  b # t \/ d # Other(Parent) => Post(box, Parent, t, ms)[b][d] = box[b][d]
      BY <1>0, PostFacts, ZenonT(30)
    <3>2. Peer(Parent, t) = hostOf[t]
      BY DEF Peer
    <3>3. CASE Post(box, Parent, t, ms) = box
      BY <1>1, <2>2, <3>3
    <3>4. CASE Post(box, Parent, t, ms) # box
      BY <1>0, <1>2, <2>2, <3>1, <3>2, <3>4
    <3>5. QED BY <3>3, <3>4
  <2>3. QED BY <2>1, <2>2

LEMMA ContentPosts ==
  ASSUME BaseInv, NEW i \in Instance, NEW t \in 0..NActor, NEW box \in InboxType, NEW ms \in Seq(Message),
         inbox' = box \/ inbox' = Post(box, i, t, ms),
         \A a \in Actor : Shrunk(inbox[a]["content"], box[a]["content"])
  PROVE  /\ ContentLink
         /\ \A a \in Actor : inbox'[a]["content"] = box[a]["content"]
         /\ \A a \in Actor : inbox'[a]["parent"] = box[a]["parent"]
              \/ (a = t /\ inbox'[a]["parent"] = box[a]["parent"] \o ms)
<1>0. i \in End /\ Other(i) = "parent"
  BY EndKinds
<1>1. CASE inbox' = box
  BY <1>1 DEF ContentLink
<1>2. CASE inbox' = Post(box, i, t, ms)
  <2>1. \/ Post(box, i, t, ms) = box
        \/ /\ t \in Actor /\ ~Deaf(Peer(i, t), t)
           /\ Post(box, i, t, ms)[t][Other(i)] = box[t][Other(i)] \o ms
           /\ \A b \in Actor, d \in {"parent", "content"} :
                b # t \/ d # Other(i) => Post(box, i, t, ms)[b][d] = box[b][d]
    BY <1>0, PostFacts, ZenonT(30)
  <2>2. /\ \A a \in Actor : inbox'[a]["content"] = box[a]["content"]
        /\ \A a \in Actor : inbox'[a]["parent"] = box[a]["parent"]
              \/ (a = t /\ inbox'[a]["parent"] = box[a]["parent"] \o ms)
    BY <1>0, <1>2, <2>1
  <2>3. QED BY <2>2 DEF ContentLink
<1>3. QED BY <1>1, <1>2

\* The request, its answer and its run are never on the pair together: a step
\* that takes a copy away may start the run, a step that ends it may answer.
LEMMA OncePairStep ==
  ASSUME NEW i, NEW q, NEW w, NEW ans, NEW R, NEW closed, OncePair(i, q, w, ans, R, closed),
         NEW v, NEW x, NEW ns, NEW S, NEW cls,
         NoTwice(v), Held(v) \subseteq Held(q),
         \A k \in Id : <<i, k>> \in Held(v) => ns[k] = ans[k] \/ k \in Answers(w),
         \A k \in Answers(x) : \/ k \in Answers(w)
                               \/ <<i, k>> \in R
                               \/ <<i, k>> \in Held(q) /\ <<i, k>> \notin Held(v),
         \A c \in S : c \in R \/ (c \in Held(q) /\ c \notin Held(v)),
         cls => closed
  PROVE  OncePair(i, v, x, ns, S, cls)
<1>1. ASSUME NEW k \in Id, <<i, k>> \in Held(v)
      PROVE  k \notin Answers(x) /\ ns[k] = NoCall /\ <<i, k>> \notin S
  <2>1. k \notin Answers(w) /\ ans[k] = NoCall /\ <<i, k>> \notin R
    BY <1>1 DEF OncePair
  <2>2. QED BY <1>1, <2>1
<1>2. cls => Held(v) = {} /\ Answers(x) = {} /\ S = {}
  BY DEF OncePair
<1>3. QED BY <1>1, <1>2 DEF OncePair

LEMMA DullFacts ==
  ASSUME NEW q \in Seq(Message)
  PROVE  /\ \A r : Shrunk(q, r) => Dull(q, r)
         /\ \A ms \in Seq(Message) : NoRequest(ms) => Dull(q, q \o ms)
<1>1. ASSUME NEW r, Shrunk(q, r) PROVE Dull(q, r)
  BY <1>1, ShrunkFacts DEF Dull
<1>2. ASSUME NEW ms \in Seq(Message), NoRequest(ms) PROVE Dull(q, q \o ms)
  <2>1. Held(ms) = {} /\ Held(q \o ms) = Held(q) \cup Held(ms)
    BY <1>2, HeldNone, HeldConcat
  <2>2. NoTwice(ms)
    BY <1>2, RequestIsItsCall DEF NoTwice, NoRequest
  <2>3. NoTwice(q) => NoTwice(q \o ms)
    BY <2>1, <2>2, NoTwiceConcat
  <2>4. QED BY <2>1, <2>3 DEF Dull
<1>3. QED BY <1>1, <1>2

\* A step that leaves a pair as it was, or takes messages and runs away.
LEMMA OnceQuiet ==
  ASSUME OnceInv, inbox \in InboxType, NEW a \in Actor,
         \/ /\ inbox'[a]["parent"] = <<>> /\ inbox'[a]["content"] = <<>> /\ transport'[Parent] # a
         \/ /\ hostOf'[a] = hostOf[a]
            /\ Dull(inbox[a]["parent"], inbox'[a]["parent"])
            /\ Answers(inbox'[a]["content"]) \subseteq Answers(inbox[a]["content"])
            /\ answer'[hostOf[a]] = answer[hostOf[a]] \/ Held(inbox'[a]["parent"]) = {}
            /\ RunsOn(a)' \subseteq RunsOn(a)
            /\ Closed(hostOf[a], a)' => Closed(hostOf[a], a)
  PROVE  OnceAt(a)'
<1> SUFFICES ASSUME hostOf'[a] \in Instance
             PROVE  OncePair(hostOf'[a], inbox'[a]["parent"], inbox'[a]["content"], answer'[hostOf'[a]],
                             RunsOn(a)', Closed(hostOf[a], a)')
  BY DEF OnceAt
<1>1. CASE inbox'[a]["parent"] = <<>> /\ inbox'[a]["content"] = <<>> /\ transport'[Parent] # a
  <2>1. RunsOn(a)' = {}
    BY <1>1 DEF RunsOn
  <2>2. QED BY <1>1, <2>1, HeldNone, KindsOfOne DEF OncePair
<1>2. CASE ~(inbox'[a]["parent"] = <<>> /\ inbox'[a]["content"] = <<>> /\ transport'[Parent] # a)
  <2>1. OncePair(hostOf[a], inbox[a]["parent"], inbox[a]["content"], answer[hostOf[a]],
                 RunsOn(a), Closed(hostOf[a], a))
    BY <1>2 DEF OnceInv, OnceAt
  <2>2. /\ hostOf'[a] = hostOf[a]
        /\ Answers(inbox'[a]["content"]) \subseteq Answers(inbox[a]["content"])
        /\ answer'[hostOf[a]] = answer[hostOf[a]] \/ Held(inbox'[a]["parent"]) = {}
        /\ RunsOn(a)' \subseteq RunsOn(a)
        /\ Closed(hostOf[a], a)' => Closed(hostOf[a], a)
    BY <1>2
  <2>3. /\ Held(inbox'[a]["parent"]) \subseteq Held(inbox[a]["parent"])
        /\ NoTwice(inbox'[a]["parent"])
    BY <1>2, <2>1 DEF OncePair, Dull
  <2>4. OncePair(hostOf[a], inbox'[a]["parent"], inbox'[a]["content"], answer'[hostOf[a]],
                 RunsOn(a)', Closed(hostOf[a], a)')
    BY <2>1, <2>2, <2>3, OncePairStep
  <2>5. QED BY <2>2, <2>4
<1>3. QED BY <1>1, <1>2

LEMMA ServeNext ==
  ASSUME BaseInv, BaseInv', AckInv(inbox, spent), ServedInv, ServeLink,
         \A f \in End, c \in Call : execs[f][c] > 0 => execs'[f][c] > 0
  PROVE  AckInv(inbox', spent') /\ ServedInv'
<1>0. /\ inbox \in InboxType /\ RanInv /\ RanInv' /\ SoundInv
      /\ execs \in [End -> [Call -> Nat]] /\ execs' \in [End -> [Call -> Nat]]
  <2>1. TypeOK /\ TypeOK' /\ inbox \in InboxType
    BY BaseParts DEF BaseInv, OwnInv, PeerInv
  <2>2. QED BY <2>1 DEF BaseInv, TypeOK
<1>1. AckInv(inbox', spent')
  BY <1>0, AckStep DEF ServeLink
<1>2. ASSUME NEW i \in Instance, NEW k \in Id, Safe(i, k) PROVE Safe(i, k)'
  <2>1. \A b \in Actor : hostOf'[b] = hostOf[b] \/ inbox'[b]["content"] = <<>>
    BY DEF ServeLink
  <2>2. \/ cached'[i][k] # NoCall \/ cached[i][k] = NoCall
        \/ k \in spent /\ NoCopyFor(inbox', i, k)
    BY DEF ServeLink
  <2>3. ContentLink /\ spent \subseteq spent'
    BY DEF ServeLink
  <2>4. QED BY <1>0, <1>2, <2>1, <2>2, <2>3, SafeStep
<1>3. ASSUME NEW a \in Actor, NEW i \in Instance, NEW k \in Id,
             hostOf'[a] = i, k \in Answers(inbox'[a]["parent"])
      PROVE  \/ hostOf[a] = i /\ k \in Answers(inbox[a]["parent"])
             \/ <<Parent, k>> \in NoMethod
             \/ execs'[i][<<Parent, k>>] > 0 /\ Safe(i, k)'
  <2>1. \/ hostOf[a] = i /\ k \in Answers(inbox[a]["parent"])
        \/ <<Parent, k>> \in NoMethod
        \/ execs'[i][<<Parent, k>>] > 0 /\ cached'[i][k] # NoCall
    BY <1>3 DEF ServeLink
  <2>2. QED BY <2>1 DEF Safe
<1>4. \A k \in Id : answer'[Parent][k] # NoCall =>
        \/ answer[Parent][k] # NoCall
        \/ \E a \in Actor : hostOf[a] \in Instance /\ k \in Answers(inbox[a]["parent"])
  BY DEF ServeLink
<1>5. ServedInv'
  BY <1>0, <1>2, <1>3, <1>4, ServedStep
<1>6. QED BY <1>1, <1>5

\* A step that answers, runs and keeps nothing.
LEMMA QuietServe ==
  ASSUME BaseInv, BaseInv', NoRerunInv,
         UNCHANGED <<cached, running, execs, answer, connectedTo>>,
         ContentLink, spent \subseteq spent',
         \A a \in Actor : \/ hostOf'[a] = hostOf[a]
                          \/ /\ inbox'[a]["content"] = <<>> /\ inbox'[a]["parent"] = <<>>
                             /\ transport'[Parent] # a,
         \A a \in Actor : Answers(inbox'[a]["parent"]) \subseteq Answers(inbox[a]["parent"]),
         \A i \in Instance, a \in Actor : hostOf[a] = i /\ ~Deaf(i, a)' =>
           /\ ~Deaf(i, a)
           /\ inbox'[a]["content"] = inbox[a]["content"]
              \/ ~Shrunk(inbox[a]["content"], inbox'[a]["content"])
           /\ transport'[Parent] = a => transport[Parent] = a \/ HasGreeting(inbox'[a]["content"])
  PROVE  KnownInv' /\ AckInv(inbox', spent') /\ ServedInv'
<1>0. /\ inbox \in InboxType /\ KnownInv /\ AckInv(inbox, spent) /\ ServedInv
      /\ Silent(inbox)'
  BY BaseParts DEF NoRerunInv, BaseInv, LinkInv
<1>1. ServeLink
  <2>1. \A i \in Instance, k \in Id : \/ cached'[i][k] # NoCall \/ cached[i][k] = NoCall
    OBVIOUS
  <2>2. ASSUME NEW a \in Actor, NEW i \in Instance, NEW k \in Id,
               hostOf'[a] = i, k \in Answers(inbox'[a]["parent"])
        PROVE  hostOf[a] = i /\ k \in Answers(inbox[a]["parent"])
    <3>1. inbox'[a]["parent"] # <<>>
      BY <2>2, KindsOfOne
    <3>2. QED BY <2>2, <3>1
  <2>3. QED BY <2>1, <2>2 DEF ServeLink
<1>2. \A f \in End, c \in Call : execs[f][c] > 0 => execs'[f][c] > 0
  OBVIOUS
<1>3. AckInv(inbox', spent') /\ ServedInv'
  BY <1>0, <1>1, <1>2, ServeNext
<1>4. \A a \in Actor : hostOf'[a] = hostOf[a] \/ (inbox'[a]["content"] = <<>> /\ transport'[Parent] # a)
  OBVIOUS
<1>5. \A i \in Instance : Strange(i)' = Strange(i)
  BY DEF Strange
<1>6. KnownInv'
  BY <1>0, <1>4, <1>5, KnownStep
<1>7. QED BY <1>3, <1>6

LEMMA RerunCreate ==
  ASSUME BaseInv, BaseInv', NoRerunInv, NEW i \in Instance, CreateActor(i)
  PROVE  NoRerunInv'
<1> DEFINE n == created + 1
<1>0. /\ inbox \in InboxType /\ hostOf \in [Actor -> End] /\ created \in 0..NActor
      /\ WireInv(inbox)
      /\ \A e \in End : transport[e] # NoActor => transport[e] <= created
  BY BaseParts DEF TypeOK
<1>1. UNCHANGED <<cached, running, execs, answer, connectedTo, inbox, seen, transport, ready, disposed, sent, pending>>
  BY DEF CreateActor, connVars, requestVars, serverVars
<1>2. \A a \in Actor : a # n => hostOf'[a] = hostOf[a]
  BY <1>0 DEF CreateActor
<1>3. n \in Actor /\ n > created /\ n # NoActor
  BY <1>0, ConstantTypes DEF CreateActor, Actor, NoActor
<1>4. inbox[n]["content"] = <<>> /\ inbox[n]["parent"] = <<>> /\ transport[Parent] # n
  <2>1. inbox[n]["content"] = <<>> /\ inbox[n]["parent"] = <<>>
    BY <1>0, <1>3 DEF WireInv
  <2>2. ~(n <= created)
    BY <1>0, <1>3
  <2>3. QED BY <1>0, <1>3, <2>1, <2>2, EndKinds
<1> HIDE DEF n
<1>5. \A a \in Actor : \/ hostOf'[a] = hostOf[a]
                       \/ /\ inbox'[a]["content"] = <<>> /\ inbox'[a]["parent"] = <<>>
                          /\ transport'[Parent] # a
  BY <1>1, <1>2, <1>4
<1>6. ContentLink
  BY <1>1 DEF ContentLink, Shrunk
<1>7. spent' = spent
  BY <1>1 DEF spent
<1>8. \A j \in Instance, a \in Actor : Deaf(j, a)' = Deaf(j, a)
  BY <1>1 DEF Deaf
<1>9. KnownInv' /\ AckInv(inbox', spent') /\ ServedInv'
  BY <1>1, <1>5, <1>6, <1>7, <1>8, QuietServe
<1>10. ASSUME NEW a \in Actor PROVE OnceAt(a)'
  <2>1. CASE hostOf'[a] = hostOf[a]
    <3>1. Dull(inbox[a]["parent"], inbox'[a]["parent"])
      BY <1>1 DEF Dull
    <3>2. RunsOn(a)' = RunsOn(a) /\ Closed(hostOf[a], a)' = Closed(hostOf[a], a)
      BY <1>1, <2>1 DEF RunsOn, Closed
    <3>3. QED BY <1>0, <1>1, <2>1, <3>1, <3>2, OnceQuiet DEF NoRerunInv
  <2>2. CASE hostOf'[a] # hostOf[a]
    BY <1>0, <1>5, <2>2, OnceQuiet DEF NoRerunInv
  <2>3. QED BY <2>1, <2>2
<1>11. QED BY <1>9, <1>10 DEF NoRerunInv, OnceInv

\* Calls that are given up, messages that nobody takes.
LEMMA RerunDrop ==
  ASSUME BaseInv, BaseInv', NoRerunInv,
         \/ \E a \in Actor : LoseMessage(a)
         \/ \E e \in End, S \in SUBSET Id : DisposeConnector(e, S)
  PROVE  NoRerunInv'
<1>0. /\ inbox \in InboxType /\ sent \in [End -> 0..MaxId] /\ Parent \in End
      /\ pending \in [End -> SUBSET Id]
  BY BaseParts, EndKinds DEF TypeOK
<1>1. /\ UNCHANGED <<cached, running, execs, answer, connectedTo, seen, transport, ready,
                     disposed, sent, hostOf>>
      /\ pending'[Parent] \subseteq pending[Parent]
  BY <1>0 DEF LoseMessage, DisposeConnector, connVars, requestVars, serverVars, linkVars
<1>2. ASSUME NEW a \in Actor
      PROVE  /\ inbox'[a]["content"] = inbox[a]["content"]
             /\ Shrunk(inbox[a]["parent"], inbox'[a]["parent"])
  <2>1. CASE \E b \in Actor : LoseMessage(b)
    <3>1. PICK b \in Actor : LoseMessage(b)
      BY <2>1
    <3>2. inbox[b]["parent"] # <<>> /\ inbox' = [inbox EXCEPT ![b]["parent"] = Tail(@)]
      BY <3>1 DEF LoseMessage
    <3>3. "content" # "parent"
      OBVIOUS
    <3>4. inbox'[a]["content"] = inbox[a]["content"]
      BY <1>0, <3>2, <3>3 DEF InboxType
    <3>5. CASE a = b
      <4>1. inbox'[a]["parent"] = Tail(inbox[a]["parent"])
        BY <1>0, <3>2, <3>5 DEF InboxType
      <4>2. QED BY <3>2, <3>4, <3>5, <4>1 DEF Shrunk
    <3>6. CASE a # b
      <4>1. inbox'[a] = inbox[a]
        BY <1>0, <3>2, <3>6 DEF InboxType
      <4>2. QED BY <3>4, <4>1 DEF Shrunk
    <3>7. QED BY <3>5, <3>6
  <2>2. CASE \E e \in End, S \in SUBSET Id : DisposeConnector(e, S)
    BY <2>2 DEF DisposeConnector, Shrunk
  <2>3. QED BY <2>1, <2>2
<1>3. ContentLink
  BY <1>2 DEF ContentLink, Shrunk
<1>4. spent \subseteq spent'
  BY <1>1 DEF spent
<1>5. \A j \in Instance, a \in Actor : Deaf(j, a)' = Deaf(j, a)
  BY <1>1 DEF Deaf
<1>6. \A a \in Actor : inbox[a]["parent"] \in Seq(Message)
  BY <1>0 DEF InboxType
<1>7. \A a \in Actor : Answers(inbox'[a]["parent"]) \subseteq Answers(inbox[a]["parent"])
  BY <1>2, <1>6, ShrunkFacts
<1>8. KnownInv' /\ AckInv(inbox', spent') /\ ServedInv'
  BY <1>1, <1>2, <1>3, <1>4, <1>5, <1>7, QuietServe
<1>9. ASSUME NEW a \in Actor PROVE OnceAt(a)'
  <2>1. Dull(inbox[a]["parent"], inbox'[a]["parent"])
    BY <1>2, <1>6, DullFacts
  <2>2. RunsOn(a)' = RunsOn(a) /\ Closed(hostOf[a], a)' = Closed(hostOf[a], a)
    BY <1>1 DEF RunsOn, Closed
  <2>3. QED BY <1>0, <1>1, <1>2, <2>1, <2>2, OnceQuiet DEF NoRerunInv
<1>10. QED BY <1>8, <1>9 DEF NoRerunInv, OnceInv

LEMMA RerunBindContent ==
  ASSUME BaseInv, BaseInv', NoRerunInv, NEW e \in Instance, NEW n \in Actor, BindToActor(e, n)
  PROVE  NoRerunInv'
<1> DEFINE box == Forget(inbox, e, n)
           ms == <<Ready(e)>>
<1>0. /\ inbox \in InboxType /\ seen \in [End -> 0..NActor] /\ transport \in [End -> 0..NActor]
      /\ ready \in [End -> BOOLEAN] /\ e \in End /\ e # Parent /\ Parent \in End
      /\ Side(e) = "content" /\ "parent" # "content" /\ sent \in [End -> 0..MaxId]
  BY BaseParts, EndKinds DEF TypeOK
<1>1. /\ UNCHANGED <<cached, running, execs, answer, connectedTo, disposed, hostOf, sent, pending>>
      /\ seen[e] < n /\ hostOf[n] = e
      /\ \A f \in End : seen'[f] = IF f = e THEN n ELSE seen[f]
      /\ \A f \in End : transport'[f] = IF f = e THEN n ELSE transport[f]
      /\ \A f \in End : ready'[f] = IF f = e THEN FALSE ELSE ready[f]
      /\ inbox' = Post(box, e, n, ms)
  BY <1>0 DEF BindToActor, connVars, requestVars, serverVars, linkVars
<1>2. /\ box \in InboxType /\ n \in 0..NActor
      /\ ms \in Seq(Message) /\ NoRequest(ms) /\ Answers(ms) = {}
  <2>1. box \in InboxType
    BY <1>0, ForgetType
  <2>2. ms \in Seq(Message)
    BY <1>0, MessageTypes
  <2>3. Len(ms) = 1 /\ ms[1] = Ready(e) /\ Ready(e).type = "READY"
    BY DEF Ready
  <2>4. NoRequest(ms)
    BY <2>3 DEF NoRequest
  <2>5. Answers(ms) = {}
    BY <2>3, KindsOfOne
  <2>6. n \in 0..NActor
    BY DEF Actor
  <2>7. QED BY <2>1, <2>2, <2>4, <2>5, <2>6
<1>3. ASSUME NEW b \in Actor
      PROVE  /\ box[b]["parent"] = inbox[b]["parent"]
             /\ box[b]["content"] \in {inbox[b]["content"], <<>>}
             /\ ~(b < n) \/ hostOf[b] # e => box[b]["content"] = inbox[b]["content"]
  <2>1. /\ box[b]["parent"] = inbox[b]["parent"]
        /\ box[b]["content"] \in {inbox[b]["content"], <<>>}
    BY <1>0, ForgetFacts
  <2>2. ~(b < n) \/ hostOf[b] # e => box[b]["content"] = inbox[b]["content"]
    BY <1>0 DEF Forget
  <2>3. QED BY <2>1, <2>2
<1> HIDE DEF box, ms
<1>4. \A b \in Actor : Shrunk(inbox[b]["content"], box[b]["content"])
  BY <1>3 DEF Shrunk
<1>5. /\ ContentLink
      /\ \A b \in Actor : inbox'[b]["content"] = box[b]["content"]
      /\ \A b \in Actor : \/ inbox'[b]["parent"] = box[b]["parent"]
                          \/ inbox'[b]["parent"] = box[b]["parent"] \o ms
  BY <1>1, <1>2, <1>4, ContentPosts
<1>6. ASSUME NEW b \in Actor
      PROVE  /\ Dull(inbox[b]["parent"], inbox'[b]["parent"])
             /\ Answers(inbox'[b]["parent"]) \subseteq Answers(inbox[b]["parent"])
             /\ Answers(inbox'[b]["content"]) \subseteq Answers(inbox[b]["content"])
  <2>1. inbox[b]["parent"] \in Seq(Message) /\ inbox[b]["content"] \in Seq(Message)
    BY <1>0 DEF InboxType
  <2>2. Dull(inbox[b]["parent"], inbox'[b]["parent"])
    <3>1. Dull(inbox[b]["parent"], box[b]["parent"])
      BY <1>3, <2>1, DullFacts DEF Shrunk
    <3>2. Dull(inbox[b]["parent"], inbox[b]["parent"] \o ms)
      BY <1>2, <2>1, DullFacts
    <3>3. QED BY <1>3, <1>5, <3>1, <3>2
  <2>3. Answers(inbox'[b]["parent"]) \subseteq Answers(inbox[b]["parent"])
    <3>1. Answers(inbox[b]["parent"] \o ms) = Answers(inbox[b]["parent"]) \cup Answers(ms)
      BY <1>2, <2>1, KindsConcat
    <3>2. inbox'[b]["parent"] \in {inbox[b]["parent"], inbox[b]["parent"] \o ms}
      BY <1>3, <1>5
    <3>3. QED BY <1>2, <3>1, <3>2
  <2>4. Answers(inbox'[b]["content"]) \subseteq Answers(inbox[b]["content"])
    BY <1>3, <1>5, <2>1, KindsOfOne
  <2>5. QED BY <2>2, <2>3, <2>4
<1>7. spent' = spent
  BY <1>1 DEF spent
<1>n. /\ \A b \in Actor : b \in Int
      /\ \A f \in End : seen[f] \in Int
  BY <1>0, ConstantTypes DEF Actor
<1>8. ASSUME NEW i \in Instance, NEW b \in Actor, hostOf[b] = i, ~Deaf(i, b)'
      PROVE  ~Deaf(i, b) /\ inbox'[b]["content"] = inbox[b]["content"]
  <2>1. i \in End
    BY EndKinds
  <2>2. CASE i = e
    <3>1. disposed[i] = disposed'[i] /\ seen'[i] = n /\ transport'[i] = n
      BY <1>1, <2>1, <2>2
    <3>2. ~disposed[i] /\ ~(n >= b /\ n # b)
      BY <1>8, <3>1 DEF Deaf
    <3>3. ~(b < n) /\ ~(seen[i] >= b)
      BY <1>1, <1>n, <2>1, <2>2, <3>2
    <3>4. QED BY <1>3, <1>5, <3>2, <3>3 DEF Deaf
  <2>3. CASE i # e
    <3>1. disposed[i] = disposed'[i] /\ seen'[i] = seen[i] /\ transport'[i] = transport[i]
      BY <1>1, <2>1, <2>3
    <3>2. ~Deaf(i, b)
      BY <1>8, <3>1 DEF Deaf
    <3>3. QED BY <1>3, <1>5, <1>8, <2>3, <3>2
  <2>4. QED BY <2>2, <2>3
<1>9. transport'[Parent] = transport[Parent]
  BY <1>0, <1>1
<1>10. KnownInv' /\ AckInv(inbox', spent') /\ ServedInv'
  BY <1>1, <1>5, <1>6, <1>7, <1>8, <1>9, QuietServe
<1>11. ASSUME NEW b \in Actor PROVE OnceAt(b)'
  <2>1. CASE hostOf[b] \in Instance
    <3>1. RunsOn(b)' = RunsOn(b)
      BY <1>1, <1>9 DEF RunsOn
    <3>2. hostOf[b] \in End
      BY <2>1, EndKinds
    <3>3. ASSUME Closed(hostOf[b], b)' PROVE Closed(hostOf[b], b)
      <4>1. CASE hostOf[b] = e
        <5>1. seen'[e] = n /\ transport'[e] = n
          BY <1>0, <1>1
        <5>2. n < b \/ n = b
          BY <1>1, <3>3, <4>1, <5>1 DEF Closed
        <5>3. seen[e] < b
          BY <1>0, <1>1, <1>n, <5>2
        <5>4. QED BY <4>1, <5>3 DEF Closed
      <4>2. CASE hostOf[b] # e
        <5>1. /\ seen'[hostOf[b]] = seen[hostOf[b]] /\ transport'[hostOf[b]] = transport[hostOf[b]]
              /\ ready'[hostOf[b]] = ready[hostOf[b]]
          BY <1>1, <3>2, <4>2
        <5>2. QED BY <1>1, <3>3, <5>1 DEF Closed
      <4>3. QED BY <4>1, <4>2
    <3>4. QED BY <1>0, <1>1, <1>6, <3>1, <3>3, OnceQuiet DEF NoRerunInv
  <2>2. CASE hostOf[b] \notin Instance
    BY <1>1, <2>2 DEF OnceAt
  <2>3. QED BY <2>1, <2>2
<1>12. QED BY <1>10, <1>11 DEF NoRerunInv, OnceInv

LEMMA RerunBindParent ==
  ASSUME PromptParent, BaseInv, BaseInv', NoRerunInv, NEW n \in Actor, BindToActor(Parent, n)
  PROVE  NoRerunInv'
<1> DEFINE box == Forget(inbox, Parent, n)
           ms == <<Ready(Parent)>>
<1>0. /\ inbox \in InboxType /\ seen \in [End -> 0..NActor] /\ transport \in [End -> 0..NActor]
      /\ Parent \in End /\ Side(Parent) = "parent" /\ Other(Parent) = "content"
      /\ "parent" # "content"
  BY BaseParts, EndKinds DEF TypeOK
<1>1. /\ UNCHANGED <<cached, running, execs, answer, connectedTo, disposed, hostOf, sent, pending>>
      /\ \A i \in Instance : seen'[i] = seen[i] /\ transport'[i] = transport[i] /\ ready'[i] = ready[i]
      /\ transport'[Parent] = n
      /\ inbox' = Post(box, Parent, n, ms)
      /\ running[Parent] = {}
  <2>1. \A i \in Instance : i \in End /\ i # Parent
    BY EndKinds
  <2>2. running[Parent] = {}
    BY IdleParent DEF BindToActor
  <2>3. UNCHANGED <<cached, running, execs, answer, connectedTo, disposed, hostOf, sent, pending>>
    BY DEF BindToActor, connVars, requestVars, serverVars, linkVars
  <2>4. /\ seen' = [seen EXCEPT ![Parent] = n] /\ transport' = [transport EXCEPT ![Parent] = n]
        /\ ready' = [ready EXCEPT ![Parent] = FALSE]
        /\ inbox' = Post(box, Parent, n, ms)
    BY DEF BindToActor
  <2>5. ready \in [End -> BOOLEAN]
    BY BaseParts DEF TypeOK
  <2>6. QED BY <1>0, <2>1, <2>2, <2>3, <2>4, <2>5
<1>2. /\ box \in InboxType /\ n \in 0..NActor
      /\ ms \in Seq(Message) /\ AfterAck(ms) /\ Acks(ms) = {} /\ Held(ms) = {}
      /\ Answers(ms) = {} /\ NoRequest(ms) /\ HasGreeting(ms)
  <2>1. box \in InboxType
    BY <1>0, ForgetType
  <2>2. ms \in Seq(Message)
    BY <1>0, MessageTypes
  <2>3. Len(ms) = 1 /\ ms[1] = Ready(Parent) /\ Ready(Parent).type = "READY"
    BY DEF Ready
  <2>4. NoRequest(ms) /\ HasGreeting(ms)
    BY <2>3 DEF NoRequest, HasGreeting, Greeting
  <2>5. Answers(ms) = {} /\ Acks(ms) = {} /\ AfterAck(ms)
    BY <2>3, KindsOfOne
  <2>6. n \in 0..NActor /\ Held(ms) = {}
    BY <2>4, HeldNone DEF Actor
  <2>7. QED BY <2>1, <2>2, <2>4, <2>5, <2>6
<1>3. \A b \in Actor : /\ box[b]["content"] = inbox[b]["content"]
                       /\ box[b]["parent"] \in {inbox[b]["parent"], <<>>}
  BY <1>0, ForgetFacts
<1>4. Peer(Parent, n) = hostOf[n]
  BY DEF Peer
<1> HIDE DEF box, ms
<1>5. \/ \A b \in Actor, d \in {"parent", "content"} : inbox'[b][d] = box[b][d]
      \/ /\ ~Deaf(hostOf[n], n)
         /\ inbox'[n]["content"] = box[n]["content"] \o ms
         /\ \A b \in Actor, d \in {"parent", "content"} :
              b # n \/ d # "content" => inbox'[b][d] = box[b][d]
  <2>1. \/ Post(box, Parent, n, ms) = box
        \/ /\ n \in Actor /\ ~Deaf(Peer(Parent, n), n)
           /\ Post(box, Parent, n, ms)[n][Other(Parent)] = box[n][Other(Parent)] \o ms
           /\ \A b \in Actor, d \in {"parent", "content"} :
                b # n \/ d # Other(Parent) => Post(box, Parent, n, ms)[b][d] = box[b][d]
    <3>1. box \in InboxType /\ Parent \in End /\ n \in 0..NActor /\ ms \in Seq(Message)
      BY <1>0, <1>2
    <3>2. QED BY <3>1, PostFacts, ZenonT(60)
  <2>2. QED BY <1>0, <1>1, <1>4, <2>1
<1>6. /\ \A b \in Actor : inbox'[b]["parent"] \in {inbox[b]["parent"], <<>>}
      /\ \A b \in Actor : b # n => inbox'[b]["content"] = inbox[b]["content"]
      /\ inbox'[n]["content"] = inbox[n]["content"]
         \/ (~Deaf(hostOf[n], n) /\ inbox'[n]["content"] = inbox[n]["content"] \o ms)
  BY <1>0, <1>3, <1>5
<1>q. \A b \in Actor : inbox[b]["parent"] \in Seq(Message) /\ inbox[b]["content"] \in Seq(Message)
  BY <1>0 DEF InboxType
<1>7. ContentLink
  <2>1. ASSUME NEW b \in Actor, ~Shrunk(inbox[b]["content"], inbox'[b]["content"])
        PROVE  /\ inbox'[b]["content"] = inbox[b]["content"] \o ms
               /\ transport'[Parent] = b /\ ~Deaf(hostOf[b], b)
    BY <1>1, <1>6, <2>1 DEF Shrunk
  <2>2. \A k \in spent : <<Parent, k>> \notin Held(ms)
    BY <1>2
  <2>3. Acks(ms) \subseteq spent'
    BY <1>2
  <2>4. ms = <<Ready(Parent)>>
    BY DEF ms
  <2>5. QED BY <1>2, <2>1, <2>2, <2>3, <2>4 DEF ContentLink
<1>8. ASSUME NEW b \in Actor
      PROVE  /\ Dull(inbox[b]["parent"], inbox'[b]["parent"])
             /\ Answers(inbox'[b]["parent"]) \subseteq Answers(inbox[b]["parent"])
             /\ Answers(inbox'[b]["content"]) \subseteq Answers(inbox[b]["content"])
  <2>1. Shrunk(inbox[b]["parent"], inbox'[b]["parent"])
    BY <1>6 DEF Shrunk
  <2>2. /\ Dull(inbox[b]["parent"], inbox'[b]["parent"])
        /\ Answers(inbox'[b]["parent"]) \subseteq Answers(inbox[b]["parent"])
    BY <1>q, <2>1, DullFacts, ShrunkFacts
  <2>3. Answers(inbox'[b]["content"]) \subseteq Answers(inbox[b]["content"])
    <3>1. Answers(inbox[b]["content"] \o ms) = Answers(inbox[b]["content"]) \cup Answers(ms)
      BY <1>2, <1>q, KindsConcat
    <3>2. inbox'[b]["content"] \in {inbox[b]["content"], inbox[b]["content"] \o ms}
      BY <1>6
    <3>3. QED BY <1>2, <3>1, <3>2
  <2>4. QED BY <2>2, <2>3
<1>9. spent' = spent
  BY <1>1 DEF spent
<1>10. ASSUME NEW i \in Instance, NEW b \in Actor, hostOf[b] = i, ~Deaf(i, b)'
       PROVE  /\ ~Deaf(i, b)
              /\ inbox'[b]["content"] = inbox[b]["content"]
                 \/ ~Shrunk(inbox[b]["content"], inbox'[b]["content"])
              /\ transport'[Parent] = b => transport[Parent] = b \/ HasGreeting(inbox'[b]["content"])
  <2>1. ~Deaf(i, b)
    BY <1>1, <1>10 DEF Deaf
  <2>2. \/ inbox'[b]["content"] = inbox[b]["content"]
        \/ ~Shrunk(inbox[b]["content"], inbox'[b]["content"])
    <3>1. inbox'[b]["content"] = inbox[b]["content"] \o ms =>
            \/ inbox'[b]["content"] = inbox[b]["content"]
            \/ ~Shrunk(inbox[b]["content"], inbox'[b]["content"])
      BY <1>2, <1>q, ShrunkConcat
    <3>2. QED BY <1>6, <3>1, ZenonT(30)
  <2>3. ASSUME transport'[Parent] = b PROVE HasGreeting(inbox'[b]["content"])
    <3>1. b = n /\ ~Deaf(hostOf[n], n)
      BY <1>1, <1>10, <2>1, <2>3
    <3>2. inbox'[b]["content"] = inbox[b]["content"] \o ms
      <4>1. ~Deaf(Peer(Parent, n), n) /\ n # NoActor
        BY <1>4, <3>1 DEF Actor, NoActor
      <4>2. Post(box, Parent, n, ms) = [box EXCEPT ![n]["content"] = @ \o ms]
        BY <1>0, <4>1 DEF Post
      <4>3. Post(box, Parent, n, ms)[n]["content"] = box[n]["content"] \o ms
        BY <1>2, <4>2 DEF InboxType
      <4>4. QED BY <1>1, <1>3, <3>1, <4>3
    <3>3. QED BY <1>2, <1>q, <3>2, ConcatOrder
  <2>4. QED BY <2>1, <2>2, <2>3
<1>11. KnownInv' /\ AckInv(inbox', spent') /\ ServedInv'
  BY <1>1, <1>7, <1>8, <1>9, <1>10, QuietServe
<1>12. ASSUME NEW b \in Actor PROVE OnceAt(b)'
  <2>1. CASE hostOf[b] \in Instance
    <3>1. RunsOn(b)' = {}
      BY <1>1 DEF RunsOn
    <3>2. Closed(hostOf[b], b)' = Closed(hostOf[b], b)
      BY <1>1, <2>1 DEF Closed
    <3>3. QED BY <1>0, <1>1, <1>8, <3>1, <3>2, OnceQuiet DEF NoRerunInv
  <2>2. CASE hostOf[b] \notin Instance
    BY <1>1, <2>2 DEF OnceAt
  <2>3. QED BY <2>1, <2>2
<1>13. QED BY <1>11, <1>12 DEF NoRerunInv, OnceInv

LEMMA RerunReset ==
  ASSUME BaseInv, BaseInv', NoRerunInv, NEW e \in End, ResetTransport(e) \/ Dispose(e)
  PROVE  NoRerunInv'
<1> DEFINE n == IF Dispose(e) THEN NActor + 1 ELSE transport[e] + 1
<1>0. /\ inbox \in InboxType /\ seen \in [End -> 0..NActor] /\ transport \in [End -> 0..NActor]
      /\ ready \in [End -> BOOLEAN] /\ disposed \in [End -> BOOLEAN] /\ pending \in [End -> SUBSET Id]
      /\ Parent \in End /\ transport[e] \in {NoActor, seen[e]}
      /\ Side(e) \in {"parent", "content"} /\ (e # Parent => Side(e) = "content")
      /\ Side(Parent) = "parent" /\ "parent" # "content" /\ \A i \in Instance : i \in End /\ i # Parent
  BY BaseParts, EndKinds DEF TypeOK
<1>1. /\ UNCHANGED <<cached, running, execs, answer, connectedTo, hostOf, sent, seen>>
      /\ inbox' = Forget(inbox, e, n)
      /\ \A f \in End : f # e => transport'[f] = transport[f] /\ ready'[f] = ready[f] /\ disposed'[f] = disposed[f]
      /\ pending'[Parent] \subseteq pending[Parent]
  BY <1>0 DEF ResetTransport, Dispose, connVars, requestVars, serverVars, linkVars
<1>2. \/ disposed'[e] /\ transport'[e] = transport[e] /\ ready'[e] = ready[e]
      \/ n = transport[e] + 1 /\ transport'[e] = NoActor /\ disposed'[e] = disposed[e]
  BY <1>0 DEF ResetTransport, Dispose, connVars
<1> HIDE DEF n
<1>3. ASSUME NEW b \in Actor
      PROVE  /\ inbox'[b]["parent"] \in {inbox[b]["parent"], <<>>}
             /\ inbox'[b]["content"] \in {inbox[b]["content"], <<>>}
             /\ ~(b < n) \/ hostOf[b] # e => inbox'[b]["content"] = inbox[b]["content"]
  <2>1. /\ inbox'[b]["parent"] \in {inbox[b]["parent"], <<>>}
        /\ inbox'[b]["content"] \in {inbox[b]["content"], <<>>}
    <3>1. \A t \in {"parent", "content"} :
            Forget(inbox, e, n)[b][t] = inbox[b][t] \/ Forget(inbox, e, n)[b][t] = <<>>
      BY <1>0, ForgetFacts
    <3>2. QED BY <1>1, <3>1
  <2>2. ASSUME ~(b < n) \/ hostOf[b] # e PROVE inbox'[b]["content"] = inbox[b]["content"]
    <3>1. CASE e = Parent
      <4>1. Forget(inbox, e, n)[b]["content"] = inbox[b]["content"]
        BY <1>0, <3>1, ForgetFacts
      <4>2. QED BY <1>1, <4>1
    <3>2. CASE e # Parent
      BY <1>1, <2>2, <3>2 DEF Forget
    <3>3. QED BY <3>1, <3>2
  <2>3. QED BY <2>1, <2>2
<1>4. ContentLink
  BY <1>3 DEF ContentLink, Shrunk
<1>5. spent \subseteq spent'
  BY <1>1 DEF spent
<1>6. ASSUME NEW b \in Actor
      PROVE  /\ Dull(inbox[b]["parent"], inbox'[b]["parent"])
             /\ Answers(inbox'[b]["parent"]) \subseteq Answers(inbox[b]["parent"])
             /\ Answers(inbox'[b]["content"]) \subseteq Answers(inbox[b]["content"])
  <2>1. inbox[b]["parent"] \in Seq(Message) /\ inbox[b]["content"] \in Seq(Message)
    BY <1>0 DEF InboxType
  <2>2. /\ Shrunk(inbox[b]["parent"], inbox'[b]["parent"])
        /\ Shrunk(inbox[b]["content"], inbox'[b]["content"])
    BY <1>3 DEF Shrunk
  <2>3. QED BY <2>1, <2>2, DullFacts, ShrunkFacts
<1>n. /\ \A b \in Actor : b \in Int /\ b # NoActor
      /\ \A f \in End : seen[f] \in Int /\ transport[f] \in Int
  BY <1>0, ConstantTypes DEF Actor, NoActor
<1>7. ASSUME NEW i \in Instance, NEW b \in Actor, hostOf[b] = i, ~Deaf(i, b)'
      PROVE  ~Deaf(i, b) /\ inbox'[b]["content"] = inbox[b]["content"]
  <2>1. CASE i = e
    <3>1. ~disposed'[e] /\ ~(seen[e] >= b /\ transport'[e] # b)
      BY <1>1, <1>7, <2>1 DEF Deaf
    <3>2. n = transport[e] + 1 /\ transport'[e] = NoActor /\ disposed'[e] = disposed[e]
      BY <1>2, <3>1
    <3>3. ~(seen[e] >= b) /\ ~(b < n)
      BY <1>0, <1>n, <3>1, <3>2 DEF NoActor
    <3>4. QED BY <1>3, <2>1, <3>1, <3>2, <3>3 DEF Deaf
  <2>2. CASE i # e
    <3>1. disposed[i] = disposed'[i] /\ seen'[i] = seen[i] /\ transport'[i] = transport[i]
      BY <1>0, <1>1, <2>2
    <3>2. ~Deaf(i, b)
      BY <1>7, <3>1 DEF Deaf
    <3>3. QED BY <1>3, <1>7, <2>2, <3>2
  <2>3. QED BY <2>1, <2>2
<1>8. \A b \in Actor : transport'[Parent] = b => transport[Parent] = b
  BY <1>0, <1>1, <1>2, <1>n
<1>9. KnownInv' /\ AckInv(inbox', spent') /\ ServedInv'
  BY <1>1, <1>4, <1>5, <1>6, <1>7, <1>8, QuietServe
<1>10. ASSUME NEW b \in Actor PROVE OnceAt(b)'
  <2>1. CASE hostOf[b] \in Instance
    <3>1. RunsOn(b)' \subseteq RunsOn(b)
      BY <1>1, <1>8 DEF RunsOn
    <3>2. hostOf[b] \in End
      BY <2>1, EndKinds
    <3>3. ASSUME Closed(hostOf[b], b)' PROVE Closed(hostOf[b], b)
      <4>1. CASE hostOf[b] = e
        <5>1. seen'[e] < b \/ (transport'[e] = b /\ ~ready'[e])
          BY <1>1, <3>3, <4>1 DEF Closed
        <5>2. seen[e] < b \/ (transport[e] = b /\ ~ready[e])
          BY <1>1, <1>2, <1>n, <5>1
        <5>3. QED BY <4>1, <5>2 DEF Closed
      <4>2. CASE hostOf[b] # e
        <5>1. /\ seen'[hostOf[b]] = seen[hostOf[b]] /\ transport'[hostOf[b]] = transport[hostOf[b]]
              /\ ready'[hostOf[b]] = ready[hostOf[b]]
          BY <1>1, <3>2, <4>2
        <5>2. QED BY <1>1, <3>3, <5>1 DEF Closed
      <4>3. QED BY <4>1, <4>2
    <3>4. QED BY <1>0, <1>1, <1>6, <3>1, <3>3, OnceQuiet DEF NoRerunInv
  <2>2. CASE hostOf[b] \notin Instance
    BY <1>1, <2>2 DEF OnceAt
  <2>3. QED BY <2>1, <2>2
<1>11. QED BY <1>9, <1>10 DEF NoRerunInv, OnceInv

\* What is on a pair: requests that were made, responses to requests that were.
LEMMA WireIds ==
  ASSUME BaseInv, NEW a \in Actor, hostOf[a] \in Instance
  PROVE  /\ \A c \in Held(inbox[a]["parent"]) : c[1] = hostOf[a] /\ c[2] <= sent[hostOf[a]]
         /\ \A c \in Held(inbox[a]["content"]) : c[1] = Parent /\ c[2] <= sent[Parent]
         /\ \A k \in Answers(inbox[a]["content"]) : k <= sent[hostOf[a]]
         /\ \A k \in Answers(inbox[a]["parent"]) : k <= sent[Parent]
<1>1. /\ Carried(inbox[a]["parent"], hostOf[a], Parent)
      /\ Carried(inbox[a]["content"], Parent, hostOf[a])
      /\ AllSound(inbox[a]["parent"], issued, done) /\ AllSound(inbox[a]["content"], issued, done)
      /\ inbox[a]["parent"] \in Seq(Message) /\ inbox[a]["content"] \in Seq(Message)
  BY BaseParts DEF WireOwn, BaseInv, SoundInv, WireSound, InboxType
<1>2. done \subseteq issued
  BY DEF done
<1>3. ASSUME NEW q \in Seq(Message), NEW s, NEW t, Carried(q, s, t), AllSound(q, issued, done)
      PROVE  /\ \A c \in Held(q) : c[1] = s /\ c[2] <= sent[s]
             /\ \A k \in Answers(q) : k <= sent[t]
  <2>1. ASSUME NEW c \in Held(q) PROVE c[1] = s /\ c[2] <= sent[s]
    <3>1. PICK p \in 1..Len(q) : q[p] = Request(c) /\ c \in Call
      BY <2>1 DEF Held
    <3>2. c \in issued /\ c[1] = s
      BY <1>3, <3>1, RequestIsItsCall DEF Carried, Fits, AllSound, Sound
    <3>3. QED BY <3>2 DEF issued
  <2>2. ASSUME NEW k \in Answers(q) PROVE k <= sent[t]
    <3>1. PICK p \in 1..Len(q) : q[p].type = "RESPONSE" /\ q[p].id = k
      BY <2>2 DEF Answers
    <3>2. q[p].of \in issued /\ q[p].of = <<t, k>>
      BY <1>2, <1>3, <3>1 DEF Carried, Fits, AllSound, Sound
    <3>3. <<t, k>>[1] = t /\ <<t, k>>[2] = k
      OBVIOUS
    <3>4. QED BY <3>2, <3>3 DEF issued
  <2>3. QED BY <2>1, <2>2
<1>4. QED BY <1>1, <1>3

LEMMA ResponseAlone ==
  ASSUME NEW c \in Call
  PROVE  /\ <<Response(c)>> \in Seq(Message) /\ NoRequest(<<Response(c)>>) /\ Held(<<Response(c)>>) = {}
         /\ Answers(<<Response(c)>>) = {c[2]} /\ Acks(<<Response(c)>>) = {}
         /\ AfterAck(<<Response(c)>>)
<1>1. Response(c) \in Message /\ Response(c).type = "RESPONSE"
  BY MessageTypes DEF Response
<1>2. Len(<<Response(c)>>) = 1 /\ <<Response(c)>>[1] = Response(c)
  OBVIOUS
<1>3. NoRequest(<<Response(c)>>)
  BY <1>1, <1>2 DEF NoRequest
<1>4. QED BY <1>1, <1>3, KindsOfOne, HeldNone

LEMMA RequestAlone ==
  ASSUME NEW c \in Call
  PROVE  /\ <<Request(c)>> \in Seq(Message) /\ Held(<<Request(c)>>) = {c}
         /\ Answers(<<Request(c)>>) = {} /\ Acks(<<Request(c)>>) = {}
         /\ AfterAck(<<Request(c)>>) /\ NoTwice(<<Request(c)>>)
<1>1. Request(c) \in Message /\ Request(c).type = "REQUEST"
  BY MessageTypes DEF Request
<1>2. QED BY <1>1, HeldNone, KindsOfOne

LEMMA SendType ==
  ASSUME BaseInv, NEW e \in End, Send(e)
  PROVE  /\ sent[e] + 1 \in Id /\ <<e, sent[e] + 1>> \in Call
         /\ ~(sent[e] + 1 <= sent[e])
         /\ \A f \in End : /\ sent'[f] = IF f = e THEN sent[e] + 1 ELSE sent[f]
                           /\ pending'[f] = IF f = e THEN pending[e] \cup {sent[e] + 1} ELSE pending[f]
         /\ UNCHANGED <<cached, running, execs, answer, connectedTo, hostOf, seen, transport,
                        ready, disposed>>
         /\ \/ inbox' = inbox
            \/ ready[e] /\ inbox' = Post(inbox, e, transport[e], <<Request(<<e, sent[e] + 1>>)>>)
<1>0. TypeOK /\ sent \in [End -> 0..MaxId] /\ sent[e] \in Nat /\ MaxRequest[e] \in Nat /\ MaxId \in Nat
      /\ MaxRequest[e] <= MaxId /\ pending \in [End -> SUBSET Id]
  <2>1. TypeOK /\ MaxRequest[e] \in Nat /\ MaxId \in Nat /\ MaxRequest[e] <= MaxId
    BY BaseParts, ConstantTypes
  <2>2. sent \in [End -> 0..MaxId] /\ pending \in [End -> SUBSET Id]
    BY <2>1 DEF TypeOK
  <2>3. QED BY <2>1, <2>2
<1>1. sent[e] < MaxRequest[e]
  BY DEF Send
<1>2. sent[e] + 1 \in Id /\ sent[e] + 1 <= MaxRequest[e] /\ ~(sent[e] + 1 <= sent[e])
  BY <1>0, <1>1 DEF Id
<1>3. <<e, sent[e] + 1>> \in Call
  BY <1>2, MessageTypes
<1>4. QED BY <1>0, <1>2, <1>3 DEF Send, connVars, serverVars, linkVars

LEMMA RerunSendParent ==
  ASSUME BaseInv, BaseInv', NoRerunInv, Send(Parent)
  PROVE  NoRerunInv'
<1> DEFINE k == sent[Parent] + 1
           c == <<Parent, k>>
           ms == <<Request(c)>>
<1>0. /\ inbox \in InboxType /\ Parent \in End /\ sent \in [End -> 0..MaxId] /\ sent' \in [End -> 0..MaxId]
      /\ \A a \in Actor : inbox[a]["content"] \in Seq(Message) /\ inbox[a]["parent"] \in Seq(Message)
  <2>1. TypeOK' /\ inbox \in InboxType /\ sent \in [End -> 0..MaxId]
    BY BaseParts DEF BaseInv, OwnInv, PeerInv
  <2>2. QED BY <2>1, EndKinds DEF InboxType, TypeOK
<1>1. /\ k \in Id /\ c \in Call /\ ~(k <= sent[Parent])
      /\ \A f \in End : /\ sent'[f] = IF f = Parent THEN k ELSE sent[f]
                        /\ pending'[f] = IF f = Parent THEN pending[Parent] \cup {k} ELSE pending[f]
      /\ UNCHANGED <<cached, running, execs, answer, connectedTo, hostOf, seen, transport,
                     ready, disposed>>
      /\ inbox' = inbox \/ inbox' = Post(inbox, Parent, transport[Parent], ms)
  BY <1>0, SendType
<1>2. /\ ms \in Seq(Message) /\ Held(ms) = {c} /\ Answers(ms) = {} /\ Acks(ms) = {} /\ AfterAck(ms)
  BY <1>1, RequestAlone
<1>3. \A j \in spent : <<Parent, j>> \notin Held(ms)
  <2>1. ASSUME NEW j \in spent PROVE <<Parent, j>> # c
    <3>1. j <= sent[Parent]
      BY DEF spent
    <3>2. j # k
      BY <1>1, <3>1
    <3>3. <<Parent, j>>[2] = j /\ c[2] = k
      OBVIOUS
    <3>4. QED BY <3>2, <3>3
  <2>2. QED BY <1>2, <2>1
<1>4. spent \subseteq spent'
  <2>1. /\ sent[Parent] \in 0..MaxId /\ sent'[Parent] \in 0..MaxId /\ sent'[Parent] = sent[Parent] + 1
        /\ pending'[Parent] = pending[Parent] \cup {sent[Parent] + 1}
    BY <1>0, <1>1
  <2>2. sent[Parent] <= sent'[Parent] /\ sent[Parent] + 1 > sent[Parent]
    BY <2>1, ConstantTypes
  <2>3. QED BY <2>1, <2>2, SpentGrows
<1> HIDE DEF ms
<1>5. /\ ContentLink
      /\ \A a \in Actor : inbox'[a]["parent"] = inbox[a]["parent"]
      /\ \A a \in Actor : inbox'[a]["content"] \in {inbox[a]["content"], inbox[a]["content"] \o ms}
  BY <1>0, <1>1, <1>2, <1>3, <1>4, ParentPosts
<1>6. ASSUME NEW a \in Actor
      PROVE  /\ Dull(inbox[a]["parent"], inbox'[a]["parent"])
             /\ Answers(inbox'[a]["parent"]) \subseteq Answers(inbox[a]["parent"])
             /\ Answers(inbox'[a]["content"]) \subseteq Answers(inbox[a]["content"])
             /\ inbox'[a]["content"] = inbox[a]["content"]
                  \/ ~Shrunk(inbox[a]["content"], inbox'[a]["content"])
  <2>1. Answers(inbox[a]["content"] \o ms) = Answers(inbox[a]["content"]) \cup Answers(ms)
    BY <1>0, <1>2, KindsConcat
  <2>2. Answers(inbox'[a]["content"]) \subseteq Answers(inbox[a]["content"])
    BY <1>2, <1>5, <2>1
  <2>3. \/ inbox'[a]["content"] = inbox[a]["content"]
        \/ ~Shrunk(inbox[a]["content"], inbox'[a]["content"])
    BY <1>0, <1>2, <1>5, ShrunkConcat
  <2>4. QED BY <1>5, <2>2, <2>3 DEF Dull
<1>7. \A i \in Instance, a \in Actor : Deaf(i, a)' = Deaf(i, a)
  BY <1>1 DEF Deaf
<1>8. KnownInv' /\ AckInv(inbox', spent') /\ ServedInv'
  BY <1>1, <1>4, <1>5, <1>6, <1>7, QuietServe
<1>9. ASSUME NEW a \in Actor PROVE OnceAt(a)'
  <2>1. RunsOn(a)' = RunsOn(a) /\ Closed(hostOf[a], a)' = Closed(hostOf[a], a)
    BY <1>1 DEF RunsOn, Closed
  <2>2. QED BY <1>0, <1>1, <1>6, <2>1, OnceQuiet DEF NoRerunInv
<1>10. QED BY <1>8, <1>9 DEF NoRerunInv, OnceInv

LEMMA RerunSendContent ==
  ASSUME BaseInv, BaseInv', NoRerunInv, NEW e \in Instance, Send(e)
  PROVE  NoRerunInv'
<1> DEFINE k == sent[e] + 1
           c == <<e, k>>
           ms == <<Request(c)>>
           t == transport[e]
<1>0. /\ inbox \in InboxType /\ Parent \in End /\ e \in End /\ e # Parent
      /\ t \in 0..NActor /\ sent \in [End -> 0..MaxId] /\ t \in {NoActor, seen[e]}
      /\ seen[e] \in 0..NActor
      /\ \A a \in Actor : inbox[a]["content"] \in Seq(Message) /\ inbox[a]["parent"] \in Seq(Message)
  BY BaseParts, EndKinds DEF InboxType
<1>1. /\ k \in Id /\ c \in Call /\ ~(k <= sent[e])
      /\ \A f \in End : /\ sent'[f] = IF f = e THEN k ELSE sent[f]
                        /\ pending'[f] = IF f = e THEN pending[e] \cup {k} ELSE pending[f]
      /\ UNCHANGED <<cached, running, execs, answer, connectedTo, hostOf, seen, transport,
                     ready, disposed>>
      /\ inbox' = inbox \/ (ready[e] /\ inbox' = Post(inbox, e, t, ms))
  BY <1>0, SendType
<1>2. /\ ms \in Seq(Message) /\ Held(ms) = {c} /\ Answers(ms) = {} /\ NoTwice(ms)
  BY <1>1, RequestAlone
<1> HIDE DEF ms
<1>3. /\ ContentLink
      /\ \A a \in Actor : inbox'[a]["content"] = inbox[a]["content"]
      /\ \A a \in Actor : \/ inbox'[a]["parent"] = inbox[a]["parent"]
                          \/ /\ a = t /\ ready[e]
                             /\ inbox'[a]["parent"] = inbox[a]["parent"] \o ms
  <2>1. \A a \in Actor : Shrunk(inbox[a]["content"], inbox[a]["content"])
    BY DEF Shrunk
  <2>2. CASE inbox' = inbox
    BY <2>1, <2>2 DEF ContentLink
  <2>3. CASE ready[e] /\ inbox' = Post(inbox, e, t, ms)
    BY <1>0, <1>2, <2>1, <2>3, ContentPosts
  <2>4. QED BY <1>1, <2>2, <2>3
<1>4. spent' = spent
  BY <1>0, <1>1 DEF spent
<1>5. ASSUME NEW a \in Actor
      PROVE  Answers(inbox'[a]["parent"]) \subseteq Answers(inbox[a]["parent"])
  <2>1. Answers(inbox[a]["parent"] \o ms) = Answers(inbox[a]["parent"]) \cup Answers(ms)
    BY <1>0, <1>2, KindsConcat
  <2>2. QED BY <1>2, <1>3, <2>1
<1>6. \A i \in Instance, a \in Actor : Deaf(i, a)' = Deaf(i, a)
  BY <1>1 DEF Deaf
<1>7. KnownInv' /\ AckInv(inbox', spent') /\ ServedInv'
  BY <1>1, <1>3, <1>4, <1>5, <1>6, QuietServe
<1>8. ASSUME NEW a \in Actor PROVE OnceAt(a)'
  <2>1. RunsOn(a)' = RunsOn(a) /\ Closed(hostOf[a], a)' = Closed(hostOf[a], a)
    BY <1>1 DEF RunsOn, Closed
  <2>2. CASE inbox'[a]["parent"] = inbox[a]["parent"]
    <3>1. Dull(inbox[a]["parent"], inbox'[a]["parent"])
      BY <2>2 DEF Dull
    <3>2. QED BY <1>0, <1>1, <1>3, <2>1, <3>1, OnceQuiet DEF NoRerunInv
  <2>3. CASE /\ a = t /\ ready[e]
             /\ inbox'[a]["parent"] = inbox[a]["parent"] \o ms
    <3>1. hostOf[a] = e /\ transport[e] = a /\ seen[e] = a /\ a # NoActor
      <4>1. a # NoActor
        BY DEF Actor, NoActor
      <4>2. QED BY <1>0, <2>3, <4>1, BaseParts
    <3>2. /\ \A d \in Held(inbox[a]["parent"]) : d[1] = e /\ d[2] <= sent[e]
          /\ \A j \in Answers(inbox[a]["content"]) : j <= sent[e]
      BY <3>1, WireIds
    <3>3. OncePair(e, inbox[a]["parent"], inbox[a]["content"], answer[e], RunsOn(a), Closed(e, a))
      BY <3>1 DEF NoRerunInv, OnceInv, OnceAt
    <3>4. Held(inbox'[a]["parent"]) = Held(inbox[a]["parent"]) \cup {c}
      BY <1>0, <1>2, <2>3, HeldConcat
    <3>5. NoTwice(inbox'[a]["parent"])
      <4>1. c \notin Held(inbox[a]["parent"])
        BY <1>1, <3>2
      <4>2. \A d \in Held(inbox[a]["parent"]) : d \notin Held(ms)
        BY <1>2, <4>1
      <4>3. QED BY <1>0, <1>2, <2>3, <3>3, <4>2, NoTwiceConcat DEF OncePair
    <3>6. k \notin Answers(inbox[a]["content"])
      BY <1>1, <3>2
    <3>7. answer[e][k] = NoCall
      BY <1>0, <1>1 DEF BaseInv, SoundInv, AskedInv
    <3>8. c \notin RunsOn(a)
      <4>1. ASSUME NEW r \in running[Parent] PROVE r.call # c
        <5>1. r.call \in issued
          BY <1>0 DEF BaseInv, SoundInv, KeptSound, done
        <5>2. c \notin issued
          BY <1>1 DEF issued
        <5>3. QED BY <5>1, <5>2
      <4>2. QED BY <4>1 DEF RunsOn
    <3>9. ~Closed(e, a)
      <4>1. ~(seen[e] < a)
        BY <1>0, <3>1
      <4>2. QED BY <2>3, <4>1 DEF Closed
    <3>10. OncePair(e, inbox'[a]["parent"], inbox'[a]["content"], answer'[e], RunsOn(a)', Closed(e, a)')
      <4>1. ASSUME NEW j \in Id, <<e, j>> \in Held(inbox'[a]["parent"])
            PROVE  /\ j \notin Answers(inbox'[a]["content"]) /\ answer'[e][j] = NoCall
                   /\ <<e, j>> \notin RunsOn(a)'
        <5>1. CASE j = k
          BY <1>1, <1>3, <2>1, <3>6, <3>7, <3>8, <5>1
        <5>2. CASE j # k
          <6>1. <<e, j>> # c
            BY <5>2
          <6>2. <<e, j>> \in Held(inbox[a]["parent"])
            BY <3>4, <4>1, <6>1
          <6>3. QED BY <1>1, <1>3, <2>1, <3>3, <6>2 DEF OncePair
        <5>3. QED BY <5>1, <5>2
      <4>2. ~Closed(e, a)'
        BY <2>1, <3>1, <3>9, <1>1 DEF Closed
      <4>3. QED BY <3>5, <4>1, <4>2 DEF OncePair
    <3>11. QED BY <1>1, <3>1, <3>10 DEF OnceAt
  <2>4. QED BY <1>3, <2>2, <2>3
<1>9. QED BY <1>7, <1>8 DEF NoRerunInv, OnceInv

\* The pair that a content end takes its messages from.
LEMMA ContentTakes ==
  ASSUME BaseInv, NEW i \in Instance, Deliver(i)
  PROVE  LET a == transport[i]
             q == inbox[a]["content"]
             box == [inbox EXCEPT ![a]["content"] = Tail(@)]
         IN /\ i \in End /\ a \in Actor /\ a \in 0..NActor /\ hostOf[a] = i /\ seen[i] = a
            /\ ~disposed[i] /\ ~Deaf(i, a)
            /\ q \in Seq(Message) /\ q # <<>> /\ Head(q) \in Message /\ box \in InboxType
            /\ \A b \in Actor : box[b]["parent"] = inbox[b]["parent"]
            /\ \A b \in Actor : box[b]["content"] = IF b = a THEN Tail(q) ELSE inbox[b]["content"]
            /\ OnMessage(i, Head(q), box)
            /\ Fits(Head(q), Parent, i)
            /\ Head(q).type \in Greeting => Head(q).uid = UidOf[Parent]
            /\ Sound(Head(q), issued, done)
            /\ UNCHANGED <<drain, timer>>
<1> DEFINE a == transport[i]
           q == inbox[a]["content"]
           box == [inbox EXCEPT ![a]["content"] = Tail(@)]
<1>0. i \in End /\ i # Parent /\ Side(i) = "content" /\ inbox \in InboxType /\ seen[i] \in 0..NActor
  BY BaseParts, EndKinds
<1>1. ~disposed[i] /\ a # NoActor /\ q # <<>> /\ OnMessage(i, Head(q), box) /\ UNCHANGED <<drain, timer>>
  BY <1>0 DEF Deliver
<1>2. a \in Actor /\ a \in 0..NActor /\ hostOf[a] = i /\ seen[i] = a
  BY <1>0, <1>1, BaseParts
<1>3. ~Deaf(i, a)
  BY <1>1 DEF Deaf
<1>4. q \in Seq(Message) /\ Head(q) \in Message /\ box \in InboxType
  <2>1. q \in Seq(Message)
    BY <1>0, <1>2 DEF InboxType
  <2>2. QED BY <1>0, <1>1, <1>2, <2>1, TailType
<1>5. /\ \A b \in Actor : box[b]["parent"] = inbox[b]["parent"]
      /\ \A b \in Actor : box[b]["content"] = IF b = a THEN Tail(q) ELSE inbox[b]["content"]
  BY <1>0, <1>2 DEF InboxType
<1>6. Fits(Head(q), Parent, i)
  <2>1. Fits(Head(inbox[a][Side(i)]), Peer(i, a), i)
    BY <1>0, <1>1, <1>2, BaseParts, OwnTail
  <2>2. QED BY <1>0, <2>1 DEF Peer
<1>7. Head(q) = q[1] /\ 1 \in 1..Len(q)
  <2>1. Len(q) \in Nat /\ Len(q) # 0 /\ Head(q) = q[1]
    BY <1>1, <1>4
  <2>2. QED BY <2>1
<1>8. Head(q).type \in Greeting => Head(q).uid = UidOf[Parent]
  BY <1>2, <1>7, BaseParts DEF WireInv, Greets, Greeting
<1>9. Sound(Head(q), issued, done)
  BY <1>2, <1>7 DEF BaseInv, SoundInv, WireSound, AllSound
<1>10. QED BY <1>0, <1>1, <1>2, <1>3, <1>4, <1>5, <1>6, <1>8, <1>9

\* Nothing that could be run again follows what is acknowledged.
LEMMA AckedIsGone ==
  ASSUME BaseInv, AckInv(inbox, spent), NEW i \in Instance, Deliver(i), NEW k \in Id,
         Head(inbox[transport[i]]["content"]) = ResponseAck(k)
  PROVE  /\ k \in spent
         /\ NoCopyFor([inbox EXCEPT ![transport[i]]["content"] = Tail(@)], i, k)
<1> DEFINE a == transport[i]
           q == inbox[a]["content"]
           box == [inbox EXCEPT ![a]["content"] = Tail(@)]
<1>1. /\ i \in End /\ a \in Actor /\ hostOf[a] = i /\ seen[i] = a
      /\ q \in Seq(Message) /\ q # <<>>
      /\ \A b \in Actor : box[b]["content"] = IF b = a THEN Tail(q) ELSE inbox[b]["content"]
  BY ContentTakes
<1>2. k \in Acks(q) /\ <<Parent, k>> \notin Held(Tail(q))
  BY <1>1, KindsTail DEF AckInv
<1>3. ASSUME NEW b \in Actor, hostOf[b] = i PROVE <<Parent, k>> \notin Held(box[b]["content"])
  <2>1. CASE b = a
    BY <1>1, <1>2, <2>1
  <2>2. CASE a < b
    <3>1. b # a
      BY <2>2 DEF Actor
    <3>2. QED BY <1>1, <1>2, <2>2, <3>1 DEF AckInv
  <2>3. CASE b < a
    <3>1. b # a /\ seen[i] >= b
      BY <1>1, <2>3, ConstantTypes DEF Actor
    <3>2. Deaf(i, b)
      BY <3>1 DEF Deaf
    <3>3. inbox[b]["content"] = <<>>
      BY <1>3, <3>2, BaseParts DEF Silent
    <3>4. QED BY <1>1, <3>1, <3>3, HeldNone
  <2>4. a \in Int /\ b \in Int
    BY <1>1, ConstantTypes DEF Actor
  <2>5. b = a \/ a < b \/ b < a
    BY <2>4
  <2>6. QED BY <2>1, <2>2, <2>3, <2>5
<1>4. k \in spent
  BY <1>1, <1>2 DEF AckInv
<1>5. QED BY <1>3, <1>4 DEF NoCopyFor

\* What an end sends again when it becomes ready is there once.
LEMMA AgainOnce ==
  ASSUME NEW e \in End, NEW S, S \subseteq 1..MaxRequest[e], S \subseteq Id, NEW s \in Ascending(S),
         NEW before \in Seq(Message), NoRequest(before)
  PROVE  /\ Requests(e, s) \in Seq(Message) /\ before \o Requests(e, s) \in Seq(Message)
         /\ Held(before \o Requests(e, s)) \subseteq {<<e, j>> : j \in S}
         /\ NoTwice(before \o Requests(e, s))
         /\ Answers(before \o Requests(e, s)) = Answers(before)
         /\ Acks(before \o Requests(e, s)) = Acks(before)
<1> DEFINE rs == Requests(e, s)
<1>1. rs \in Seq(Message)
  BY RequestsType
<1>2. PICK n \in Nat : AllOf(S, s, n)
  BY AscendingOnto
<1>3. /\ DOMAIN rs = 1..n /\ \A p \in 1..n : rs[p] = Request(<<e, s[p]>>)
  BY <1>2 DEF AllOf, Requests
<1>4. Len(rs) = n
  BY <1>1, <1>2, <1>3
<1>5. ASSUME NEW p \in 1..n PROVE s[p] \in S /\ <<e, s[p]>> \in Call
  <2>1. s[p] \in S
    BY <1>2 DEF AllOf
  <2>2. s[p] \in Id /\ s[p] \in 1..MaxRequest[e] /\ MaxRequest[e] \in Nat
    BY <2>1, ConstantTypes
  <2>3. s[p] <= MaxRequest[e]
    BY <2>2
  <2>4. QED BY <2>1, <2>2, <2>3, MessageTypes
<1>6. NoTwice(rs)
  <2>1. ASSUME NEW p \in 1..n, NEW x \in 1..n, p < x, rs[p] = rs[x] PROVE FALSE
    <3>1. <<e, s[p]>> = <<e, s[x]>>
      <4>1. /\ rs[p] = Request(<<e, s[p]>>) /\ rs[x] = Request(<<e, s[x]>>)
            /\ <<e, s[p]>> \in Call /\ <<e, s[x]>> \in Call
        BY <1>3, <1>5
      <4>2. QED BY <2>1, <4>1, RequestIsItsCall
    <3>2. s[p] = s[x] /\ s[p] < s[x]
      BY <1>2, <2>1, <3>1 DEF AllOf
    <3>3. s[p] \in Id
      BY <1>5
    <3>4. s[p] \in Int
      BY <3>3, ConstantTypes DEF Id
    <3>5. QED BY <3>2, <3>4
  <2>2. QED BY <1>4, <2>1 DEF NoTwice
<1>7. Answers(rs) = {} /\ Acks(rs) = {}
  <2>1. \A p \in 1..Len(rs) : rs[p].type = "REQUEST"
    BY <1>3, <1>4 DEF Request
  <2>2. \A k : ResponseAck(k).type = "RESPONSE_ACK"
    BY DEF ResponseAck
  <2>3. QED BY <2>1, <2>2 DEF Answers, Acks
<1>8. Held(rs) \subseteq {<<e, j>> : j \in S} /\ Held(before) = {}
  BY AheadAgain, HeldNone
<1>9. NoTwice(before)
  BY RequestIsItsCall DEF NoTwice, NoRequest
<1> HIDE DEF rs
<1>10. NoTwice(before \o rs)
  BY <1>1, <1>6, <1>8, <1>9, NoTwiceConcat
<1>11. /\ Held(before \o rs) = Held(before) \cup Held(rs)
       /\ Answers(before \o rs) = Answers(before) \cup Answers(rs)
       /\ Acks(before \o rs) = Acks(before) \cup Acks(rs)
       /\ before \o rs \in Seq(Message)
  BY <1>1, HeldConcat, KindsConcat
<1>12. /\ rs \in Seq(Message) /\ before \o rs \in Seq(Message)
       /\ Held(before \o rs) \subseteq {<<e, j>> : j \in S}
       /\ NoTwice(before \o rs)
       /\ Answers(before \o rs) = Answers(before) /\ Acks(before \o rs) = Acks(before)
  BY <1>1, <1>7, <1>8, <1>10, <1>11
<1>13. QED BY <1>12 DEF rs

LEMMA HearsHandshake ==
  ASSUME BaseInv, KnownInv, NEW i \in Instance, Deliver(i), NEW m \in Message, NEW box,
         m = Head(inbox[transport[i]]["content"]), m.uid = UidOf[Parent], OnHandshake(i, m, box)
  PROVE  \E ms \in Seq(Message) : Hears(i, ms) /\ inbox' = Post(box, i, transport[i], ms)
<1> DEFINE before == IF m.type = "READY" THEN <<ReadyAck(i)>> ELSE <<>>
<1>0. /\ i \in End /\ TypeOK /\ Parent \in End /\ i # Parent
      /\ cached \in [End -> [Id -> Call \cup {NoCall}]] /\ connectedTo \in [End -> Uid \cup {NoUid}]
      /\ ready \in [End -> BOOLEAN]
      /\ pending[i] \subseteq 1..MaxRequest[i] /\ pending[i] \subseteq Id
  BY BaseParts, EndKinds DEF TypeOK
<1>1. /\ m.type \in Greeting
      /\ cached' = [cached EXCEPT ![i] = IF connectedTo[i] = m.uid THEN @ ELSE [id \in Id |-> NoCall]]
      /\ connectedTo' = [connectedTo EXCEPT ![i] = m.uid]
      /\ MarkAsReady(i, box, before)
      /\ UNCHANGED <<sent, pending, answer, buffer, running, execs>>
  BY DEF OnHandshake, Greeting, requestVars, serverVars
<1>2. before \in Seq(Message) /\ NoRequest(before) /\ Answers(before) = {}
  <2>1. <<ReadyAck(i)>> \in Seq(Message) /\ ReadyAck(i).type = "READY_ACK"
    <3>1. ReadyAck(i) \in Message
      BY <1>0, MessageTypes
    <3>2. QED BY <3>1 DEF ReadyAck
  <2>2. Len(<<ReadyAck(i)>>) = 1 /\ <<ReadyAck(i)>>[1] = ReadyAck(i)
    OBVIOUS
  <2>3. NoRequest(<<ReadyAck(i)>>) /\ Answers(<<ReadyAck(i)>>) = {}
    BY <2>1, <2>2, KindsOfOne DEF NoRequest
  <2>4. QED BY <2>1, <2>3, KindsOfOne, EmptyOrder
<1>3. ~Strange(i)'
  BY <1>0, <1>1 DEF Strange
<1>4. \A k \in Id : cached'[i][k] # NoCall \/ cached[i][k] = NoCall
  <2>1. CASE connectedTo[i] = m.uid
    BY <1>0, <1>1, <2>1
  <2>2. CASE connectedTo[i] # m.uid
    BY <2>2 DEF KnownInv, Strange
  <2>3. QED BY <2>1, <2>2
<1>5. running' = running /\ answer' = answer
  BY <1>1
<1> HIDE DEF before
<1>6. ASSUME NEW ms \in Seq(Message), Answers(ms) = {}, inbox' = Post(box, i, transport[i], ms),
             \/ ready'[i] = ready[i] /\ NoRequest(ms)
             \/ /\ ~ready[i] /\ ready'[i] /\ NoTwice(ms)
                /\ Held(ms) \subseteq {<<i, j>> : j \in pending[i]}
      PROVE  Hears(i, ms) /\ inbox' = Post(box, i, transport[i], ms)
  <2>1. \A k \in Id : \/ cached'[i][k] # NoCall \/ cached[i][k] = NoCall
    BY <1>4
  <2>2. \A r \in running'[i] : r \in running[i]
    BY <1>5
  <2>3. QED BY <1>3, <1>5, <1>6, <2>1, <2>2 DEF Hears
<1>7. CASE ready[i]
  <2>1. inbox' = Post(box, i, transport[i], before) /\ ready' = ready
    BY <1>1, <1>7 DEF MarkAsReady
  <2>2. QED BY <1>2, <1>6, <2>1
<1>8. CASE ~ready[i]
  <2>1. /\ ready' = [ready EXCEPT ![i] = TRUE]
        /\ \E s \in Ascending(pending[i]) : inbox' = Post(box, i, transport[i], before \o Requests(i, s))
    BY <1>1, <1>8 DEF MarkAsReady
  <2>2. PICK s \in Ascending(pending[i]) : inbox' = Post(box, i, transport[i], before \o Requests(i, s))
    BY <2>1
  <2>3. /\ before \o Requests(i, s) \in Seq(Message)
        /\ Held(before \o Requests(i, s)) \subseteq {<<i, j>> : j \in pending[i]}
        /\ NoTwice(before \o Requests(i, s))
        /\ Answers(before \o Requests(i, s)) = Answers(before)
    BY <1>0, <1>2, <2>2, AgainOnce
  <2>4. ready'[i]
    BY <1>0, <2>1
  <2>5. QED BY <1>2, <1>6, <1>8, <2>2, <2>3, <2>4
<1>9. QED BY <1>7, <1>8

LEMMA HearsAck ==
  ASSUME BaseInv, KnownInv, AckInv(inbox, spent), NEW i \in Instance, Deliver(i), NEW m \in Message,
         m = Head(inbox[transport[i]]["content"]),
         OnResponseAck(i, m, [inbox EXCEPT ![transport[i]]["content"] = Tail(@)])
  PROVE  Hears(i, <<>>)
<1> DEFINE box == [inbox EXCEPT ![transport[i]]["content"] = Tail(@)]
<1>0. /\ i \in End /\ TypeOK /\ cached \in [End -> [Id -> Call \cup {NoCall}]]
  BY BaseParts, EndKinds DEF TypeOK
<1>1. /\ m.type = "RESPONSE_ACK" /\ cached' = [cached EXCEPT ![i][m.id] = NoCall] /\ inbox' = box
      /\ UNCHANGED <<connectedTo, ready, answer, running, execs>>
  BY DEF OnResponseAck, requestVars
<1>2. m.id \in Id /\ m = ResponseAck(m.id)
  BY <1>1 DEF Message, Handshake, Payload, ResponseAck
<1>3. m.id \in spent /\ NoCopyFor(box, i, m.id)
  BY <1>2, AckedIsGone
<1>4. \A k \in Id : k # m.id => cached'[i][k] = cached[i][k]
  BY <1>0, <1>1
<1>5. cached'[i][m.id] = NoCall
  BY <1>0, <1>1, <1>2
<1>6. ASSUME NEW k \in Id
      PROVE  \/ cached'[i][k] # NoCall \/ cached[i][k] = NoCall
             \/ k \in spent /\ NoCopyFor(inbox', i, k)
  <2>1. CASE k = m.id
    BY <1>1, <1>3, <2>1
  <2>2. CASE k # m.id
    BY <1>4, <2>2
  <2>3. QED BY <2>1, <2>2
<1>7. Strange(i)' = Strange(i) /\ m.type \notin Greeting
  BY <1>1 DEF Strange, Greeting
<1>8. \A k \in Id : cached'[i][k] = cached[i][k] \/ cached'[i][k] = NoCall
  BY <1>4, <1>5
<1>9. Answers(<<>>) = {} /\ NoRequest(<<>>)
  BY KindsOfOne, EmptyOrder
<1> HIDE DEF box
<1>10. QED BY <1>1, <1>6, <1>7, <1>8, <1>9 DEF Hears

LEMMA HearsResponse ==
  ASSUME BaseInv, NEW i \in Instance, Deliver(i), NEW m \in Message, NEW box,
         m = Head(inbox[transport[i]]["content"]), OnResponse(i, m, box)
  PROVE  /\ <<ResponseAck(m.id)>> \in Seq(Message) /\ Hears(i, <<ResponseAck(m.id)>>)
         /\ inbox' = Post(box, i, transport[i], <<ResponseAck(m.id)>>)
<1> DEFINE ms == <<ResponseAck(m.id)>>
           q == inbox[transport[i]]["content"]
<1>0. /\ i \in End /\ TypeOK /\ answer \in [End -> [Id -> Call \cup {NoCall}]]
      /\ q \in Seq(Message) /\ q # <<>>
  BY BaseParts, EndKinds, ContentTakes DEF TypeOK
<1>1. /\ m.type = "RESPONSE" /\ inbox' = Post(box, i, transport[i], ms)
      /\ UNCHANGED <<connectedTo, ready, cached, running, execs>>
      /\ answer' = [answer EXCEPT ![i][m.id] = m.of] \/ answer' = answer
  BY DEF OnResponse, serverVars
<1>2. m.id \in Id
  BY <1>1 DEF Message, Handshake, Payload
<1>3. ms \in Seq(Message) /\ ResponseAck(m.id).type = "RESPONSE_ACK"
  BY <1>2, MessageTypes DEF ResponseAck
<1>4. NoRequest(ms) /\ Answers(ms) = {}
  <2>1. Len(ms) = 1 /\ ms[1] = ResponseAck(m.id)
    OBVIOUS
  <2>2. QED BY <1>3, <2>1, KindsOfOne DEF NoRequest
<1>5. m.id \in Answers(q)
  BY <1>0, <1>1, <1>2, KindsTail
<1>6. \A k \in Id : k # m.id => answer'[i][k] = answer[i][k]
  BY <1>0, <1>1
<1>7. \A k \in Id : answer'[i][k] = answer[i][k] \/ k \in Answers(q)
  BY <1>5, <1>6
<1>8. Strange(i)' = Strange(i) /\ m.type \notin Greeting
  BY <1>1 DEF Strange, Greeting
<1>9. \A k \in Id : cached'[i][k] = cached[i][k]
  BY <1>1
<1> HIDE DEF ms
<1>10. Hears(i, ms)
  BY <1>1, <1>4, <1>7, <1>8, <1>9 DEF Hears
<1>11. QED BY <1>1, <1>3, <1>10 DEF ms

LEMMA HearsRequest ==
  ASSUME DistinctUids, BaseInv, BaseInv', UnheldInv, KnownInv, NEW i \in Instance, Deliver(i),
         NEW m \in Message, NEW box,
         m = Head(inbox[transport[i]]["content"]), OnRequest(i, m, box)
  PROVE  \E ms \in Seq(Message) :
            Hears(i, ms) /\ (inbox' = box \/ inbox' = Post(box, i, transport[i], ms))
<1> DEFINE a == transport[i]
           q == inbox[a]["content"]
           c == m.call
           k == c[2]
<1>0. /\ i \in End /\ TypeOK /\ Parent \in End /\ i # Parent /\ Side(i) = "content"
      /\ cached \in [End -> [Id -> Call \cup {NoCall}]]
      /\ execs \in [End -> [Call -> Nat]] /\ running \in [End -> SUBSET Run]
      /\ a \in Actor /\ hostOf[a] = i /\ q \in Seq(Message) /\ q # <<>> /\ ~disposed[i]
      /\ ~Deaf(i, a) /\ OwnInv /\ RanInv /\ RanInv'
  BY BaseParts, EndKinds, ContentTakes DEF TypeOK, BaseInv
<1>1. m.type = "REQUEST" /\ UNCHANGED <<connectedTo, ready, answer, cached>>
  BY DEF OnRequest, requestVars
<1>2. registered[i]
  BY <1>0 DEF UnheldInv
<1>3. c \in Call /\ k \in Id /\ c = <<Parent, k>> /\ cached[i][k] \in {NoCall, c}
  <2>1. m = Head(inbox[transport[i]][Side(i)])
    BY <1>0
  <2>2. /\ c \in Call /\ k \in Id
        /\ c = <<Peer(i, transport[i]), k>>
        /\ cached[i][k] \in {NoCall, c}
    BY <1>0, <1>1, <2>1, KeptIsAsked
  <2>3. Peer(i, transport[i]) = Parent
    BY <1>0 DEF Peer
  <2>4. QED BY <2>2, <2>3
<1>4. ~Strange(i)
  <2>1. Head(q) = q[1] /\ 1 \in 1..Len(q)
    <3>1. Len(q) \in Nat /\ Len(q) # 0 /\ Head(q) = q[1]
      BY <1>0
    <3>2. QED BY <3>1
  <2>2. ~(\E j \in 1..Len(q) : j < 1)
    OBVIOUS
  <2>3. ~Prefaced(q)
    BY <1>1, <2>1, <2>2 DEF Prefaced
  <2>4. QED BY <1>0, <2>3 DEF KnownInv
<1>5. ~Strange(i)' /\ connectedTo[i] = UidOf[Parent]
  BY <1>1, <1>4 DEF Strange
<1>6. \A j \in Id : cached'[i][j] = cached[i][j]
  BY <1>1
<1>7. /\ <<Response(c)>> \in Seq(Message) /\ NoRequest(<<Response(c)>>) /\ Answers(<<Response(c)>>) = {k}
  BY <1>3, ResponseAlone
<1>8. Answers(<<>>) = {} /\ NoRequest(<<>>) /\ <<>> \in Seq(Message)
  BY KindsOfOne, EmptyOrder
<1>9. \A j \in Id : \/ cached'[i][j] # NoCall \/ cached[i][j] = NoCall
  BY <1>6
<1> HIDE DEF c, k
<1>10. ASSUME NEW ms \in Seq(Message), NoRequest(ms),
              \A j \in Answers(ms) : \/ <<Parent, j>> \in NoMethod
                                     \/ execs'[i][<<Parent, j>>] > 0 /\ cached'[i][j] # NoCall,
              \A r \in running'[i] : r \in running[i] \/ r.uid = UidOf[Parent]
       PROVE  Hears(i, ms)
  <2>1. \A j \in Id : answer'[i][j] = answer[i][j]
    BY <1>1
  <2>2. ready'[i] = ready[i]
    BY <1>1
  <2>3. QED BY <1>5, <1>9, <1>10, <2>1, <2>2 DEF Hears
<1>11. CASE /\ cached[i][k] # NoCall /\ running' = running
            /\ inbox' = Post(box, i, a, <<Response(cached[i][k])>>)
  <2>1. cached[i][k] = c
    BY <1>3, <1>11
  <2>2. execs'[i][<<Parent, k>>] > 0 /\ cached'[i][k] # NoCall
    BY <1>0, <1>1, <1>3, <1>11, <2>1 DEF RanInv
  <2>3. Hears(i, <<Response(c)>>)
    BY <1>7, <1>10, <1>11, <2>2
  <2>4. inbox' = Post(box, i, a, <<Response(c)>>)
    BY <1>11, <2>1
  <2>5. QED BY <1>7, <2>3, <2>4
<1>12. CASE c \in NoMethod /\ running' = running /\ inbox' = Post(box, i, a, <<Response(c)>>)
  <2>1. Hears(i, <<Response(c)>>)
    BY <1>3, <1>7, <1>10, <1>12
  <2>2. QED BY <1>7, <1>12, <2>1
<1>13. CASE /\ inbox' = box
            /\ running' = [running EXCEPT ![i] = @ \cup
                             {[call |-> c, uid |-> connectedTo[i], n |-> execs[i][c]]}]
  <2>1. running'[i] = running[i] \cup {[call |-> c, uid |-> connectedTo[i], n |-> execs[i][c]]}
    BY <1>0, <1>13
  <2>2. \A r \in running'[i] : r \in running[i] \/ r.uid = UidOf[Parent]
    BY <1>5, <2>1
  <2>3. Hears(i, <<>>)
    BY <1>8, <1>10, <2>2
  <2>4. QED BY <1>8, <1>13, <2>3
<1>14. QED
  <2>1. \/ /\ cached[i][k] # NoCall /\ running' = running
           /\ inbox' = Post(box, i, a, <<Response(cached[i][k])>>)
        \/ c \in NoMethod /\ running' = running /\ inbox' = Post(box, i, a, <<Response(c)>>)
        \/ /\ inbox' = box
           /\ running' = [running EXCEPT ![i] = @ \cup
                            {[call |-> c, uid |-> connectedTo[i], n |-> execs[i][c]]}]
    BY <1>2 DEF OnRequest, c, k
  <2>2. QED BY <1>11, <1>12, <1>13, <2>1

LEMMA HearsMessage ==
  ASSUME DistinctUids, BaseInv, BaseInv', UnheldInv, KnownInv, AckInv(inbox, spent),
         NEW i \in Instance, Deliver(i)
  PROVE  \E ms \in Seq(Message) :
           LET box == [inbox EXCEPT ![transport[i]]["content"] = Tail(@)] IN
           Hears(i, ms) /\ (inbox' = box \/ inbox' = Post(box, i, transport[i], ms))
<1> DEFINE box == [inbox EXCEPT ![transport[i]]["content"] = Tail(@)]
           m == Head(inbox[transport[i]]["content"])
<1>1. /\ m \in Message /\ OnMessage(i, m, box) /\ i \in End
      /\ m.type \in Greeting => m.uid = UidOf[Parent]
  BY ContentTakes
<1>2. ~paused[i]
  BY <1>1 DEF UnheldInv
<1>3. CASE OnHandshake(i, m, box)
  <2>1. m.uid = UidOf[Parent]
    BY <1>1, <1>3 DEF OnHandshake, Greeting
  <2>2. QED BY <1>1, <1>3, <2>1, HearsHandshake
<1>4. CASE OnResponseAck(i, m, box)
  <2>1. Hears(i, <<>>)
    BY <1>1, <1>4, HearsAck
  <2>2. inbox' = box /\ <<>> \in Seq(Message)
    BY <1>4 DEF OnResponseAck
  <2>3. QED BY <2>1, <2>2
<1>5. CASE OnResponse(i, m, box)
  BY <1>1, <1>5, HearsResponse
<1>6. CASE OnRequest(i, m, box)
  BY <1>1, <1>6, HearsRequest
<1>7. QED BY <1>1, <1>2, <1>3, <1>4, <1>5, <1>6 DEF OnMessage

LEMMA OnceDeliverContent ==
  ASSUME BaseInv, OnceInv, NEW i \in Instance, Deliver(i), NEW ms \in Seq(Message), Hears(i, ms),
         UNCHANGED <<hostOf, seen, transport, disposed>>,
         \A f \in End : f # i => ready'[f] = ready[f] /\ running'[f] = running[f] /\ answer'[f] = answer[f],
         \A b \in Actor : inbox'[b]["content"] = IF b = transport[i] THEN Tail(inbox[b]["content"])
                                                 ELSE inbox[b]["content"],
         \A b \in Actor : \/ inbox'[b]["parent"] = inbox[b]["parent"]
                          \/ b = transport[i] /\ inbox'[b]["parent"] = inbox[b]["parent"] \o ms
  PROVE  OnceInv'
<1>a. PICK a \in Actor : a = transport[i]
  BY ContentTakes
<1>0. /\ i \in End /\ i # Parent /\ Parent \in End /\ a \in Actor /\ hostOf[a] = i /\ seen[i] = a
      /\ inbox \in InboxType /\ inbox[a]["content"] # <<>>
      /\ seen \in [End -> 0..NActor] /\ transport[Parent] \in {NoActor, seen[Parent]}
      /\ \A b \in Actor : inbox[b]["content"] \in Seq(Message) /\ inbox[b]["parent"] \in Seq(Message)
  <2>1. hostOf[a] = i /\ seen[i] = a /\ inbox[a]["content"] # <<>>
    BY <1>a, ContentTakes
  <2>2. /\ inbox \in InboxType /\ seen \in [End -> 0..NActor]
        /\ transport[Parent] \in {NoActor, seen[Parent]}
    BY BaseParts, EndKinds
  <2>3. QED BY <2>1, <2>2, EndKinds DEF InboxType
<1>n. \A b \in Actor : b \in Int /\ b # NoActor
  BY ConstantTypes DEF Actor, NoActor
<1>1. /\ \A b \in Actor : RunsOn(b)' = RunsOn(b)
      /\ \A b \in Actor : inbox'[b]["content"] = IF b = a THEN Tail(inbox[b]["content"])
                                                   ELSE inbox[b]["content"]
      /\ \A b \in Actor : \/ inbox'[b]["parent"] = inbox[b]["parent"]
                          \/ b = a /\ inbox'[b]["parent"] = inbox[b]["parent"] \o ms
      /\ \A k \in Id : answer'[i][k] = answer[i][k] \/ k \in Answers(inbox[a]["content"])
      /\ transport[i] = a /\ transport'[i] = a
  BY <1>0, <1>a DEF RunsOn, Hears
<1>2. ASSUME NEW b \in Actor, hostOf[b] = i, b # a PROVE Held(inbox[b]["parent"]) = {}
  <2>1. CASE a < b
    <3>1. Closed(i, b)
      BY <1>0, <2>1 DEF Closed
    <3>2. QED BY <1>2, <3>1 DEF OnceInv, OnceAt, OncePair
  <2>2. CASE b < a
    <3>1. ~(seen[Parent] < a)
      BY <1>0, BaseParts DEF Silent
    <3>2. seen[Parent] >= b /\ seen[Parent] # b
      BY <1>0, <1>n, <2>2, <3>1, ConstantTypes
    <3>3. transport[Parent] # b
      BY <1>0, <1>n, <3>2
    <3>4. Deaf(Parent, b)
      BY <3>2, <3>3 DEF Deaf
    <3>5. inbox[b]["parent"] = <<>>
      BY <3>4, BaseParts DEF Silent
    <3>6. QED BY <3>5, HeldNone
  <2>3. QED BY <1>0, <1>2, <1>n, <2>1, <2>2
<1>3. ASSUME NEW b \in Actor, b # a PROVE OnceAt(b)'
  <2>1. CASE hostOf[b] \in Instance
    <3>1. /\ Dull(inbox[b]["parent"], inbox'[b]["parent"])
          /\ inbox'[b]["parent"] = inbox[b]["parent"] /\ inbox'[b]["content"] = inbox[b]["content"]
      BY <1>1, <1>3 DEF Dull
    <3>2. hostOf[b] \in End
      BY <2>1, EndKinds
    <3>3. answer'[hostOf[b]] = answer[hostOf[b]] \/ Held(inbox'[b]["parent"]) = {}
      BY <1>2, <1>3, <3>1, <3>2
    <3>4. ASSUME Closed(hostOf[b], b)' PROVE Closed(hostOf[b], b)
      <4>1. CASE hostOf[b] = i
        BY <1>1, <1>3, <3>4, <4>1 DEF Closed
      <4>2. CASE hostOf[b] # i
        BY <3>2, <3>4, <4>2 DEF Closed
      <4>3. QED BY <4>1, <4>2
    <3>5. QED BY <1>0, <1>1, <3>1, <3>3, <3>4, OnceQuiet
  <2>2. CASE hostOf[b] \notin Instance
    BY <2>2 DEF OnceAt
  <2>3. QED BY <2>1, <2>2
<1> DEFINE q == inbox[a]["parent"]
           w == inbox[a]["content"]
           v == inbox'[a]["parent"]
           x == inbox'[a]["content"]
<1>4. /\ OncePair(i, q, w, answer[i], RunsOn(a), Closed(i, a))
      /\ q \in Seq(Message) /\ w \in Seq(Message) /\ w # <<>> /\ x = Tail(w)
      /\ v \in {q, q \o ms}
  BY <1>0, <1>1 DEF OnceInv, OnceAt
<1>5. Answers(x) \subseteq Answers(w)
  BY <1>4, KindsTail
<1>6. OncePair(i, v, x, answer'[i], RunsOn(a)', Closed(i, a)')
  <2>1. CASE ready'[i] = ready[i] /\ NoRequest(ms)
    <3>1. Dull(q, v)
      <4>1. Dull(q, q)
        BY DEF Dull
      <4>2. Dull(q, q \o ms)
        BY <1>4, <2>1, DullFacts
      <4>3. QED BY <1>4, <4>1, <4>2
    <3>2. NoTwice(v) /\ Held(v) \subseteq Held(q)
      BY <1>4, <3>1 DEF Dull, OncePair
    <3>3. \A k \in Id : answer'[i][k] = answer[i][k] \/ k \in Answers(w)
      BY <1>1
    <3>4. Closed(i, a)' => Closed(i, a)
      BY <1>1, <2>1 DEF Closed
    <3>5. RunsOn(a)' = RunsOn(a)
      BY <1>0, <1>1
    <3>6. OncePair(i, q, w, answer[i], RunsOn(a), Closed(i, a))
      BY <1>4
    <3>7. PICK r : r = RunsOn(a)
      OBVIOUS
    <3>8. PICK ns : ns = answer'[i]
      OBVIOUS
    <3>9. PICK v0, x0 : v0 = v /\ x0 = x
      OBVIOUS
    <3>10. PICK cls \in BOOLEAN : cls <=> Closed(i, a)'
      OBVIOUS
    <3>11. OncePair(i, v0, x0, ns, r, cls)
      <4>1. /\ NoTwice(v0) /\ Held(v0) \subseteq Held(q)
            /\ \A k \in Id : <<i, k>> \in Held(v0) => ns[k] = answer[i][k] \/ k \in Answers(w)
            /\ \A k \in Answers(x0) : k \in Answers(w)
            /\ \A c \in r : c \in RunsOn(a)
            /\ cls => Closed(i, a)
        BY <1>5, <3>2, <3>3, <3>4, <3>7, <3>8, <3>9, <3>10
      <4> HIDE DEF q, w, v, x
      <4>2. QED BY <3>6, <4>1, OncePairStep
    <3>12. QED BY <3>5, <3>7, <3>8, <3>9, <3>10, <3>11 DEF OncePair
  <2>2. CASE /\ ~ready[i] /\ ready'[i] /\ answer' = answer /\ NoTwice(ms)
             /\ Held(ms) \subseteq {<<i, j>> : j \in pending[i]}
    <3>1. Closed(i, a)
      BY <1>1, <2>2 DEF Closed
    <3>2. Held(q) = {} /\ Answers(w) = {} /\ RunsOn(a) = {} /\ NoTwice(q)
      BY <1>4, <3>1 DEF OncePair
    <3>3. Held(q \o ms) = Held(ms)
      <4>1. Held(q \o ms) = Held(q) \cup Held(ms)
        BY <1>4, HeldConcat
      <4>2. QED BY <3>2, <4>1
    <3>4. NoTwice(q \o ms)
      BY <1>4, <2>2, <3>2, NoTwiceConcat
    <3>5. NoTwice(v) /\ Held(v) \subseteq {<<i, j>> : j \in pending[i]}
      BY <1>4, <2>2, <3>2, <3>3, <3>4
    <3>6. ASSUME NEW j \in Id, <<i, j>> \in Held(v) PROVE answer'[i][j] = NoCall
      <4>1. j \in pending[i]
        BY <3>5, <3>6
      <4>2. QED BY <1>0, <2>2, <4>1 DEF BaseInv, SoundInv, AskedInv
    <3>7. Answers(x) = {} /\ RunsOn(a)' = {}
      BY <1>0, <1>1, <1>5, <3>2
    <3>8. ~Closed(i, a)'
      <4>1. ~(seen'[i] < a)
        BY <1>0, <1>n
      <4>2. QED BY <1>1, <2>2, <4>1 DEF Closed
    <3>9. QED BY <3>5, <3>6, <3>7, <3>8 DEF OncePair
  <2>3. QED BY <2>1, <2>2 DEF Hears
<1>7. OnceAt(a)'
  BY <1>0, <1>6 DEF OnceAt
<1>8. QED BY <1>3, <1>7 DEF OnceInv

LEMMA RerunDeliverContent ==
  ASSUME DistinctUids, BaseInv, BaseInv', UnheldInv, NoRerunInv, NEW i \in Instance, Deliver(i)
  PROVE  NoRerunInv'
<1>a. PICK a \in Actor : a = transport[i]
  BY ContentTakes
<1> DEFINE box == [inbox EXCEPT ![a]["content"] = Tail(@)]
           m == Head(inbox[a]["content"])
<1>0. /\ i \in End /\ i # Parent /\ Parent \in End /\ a \in Actor /\ a \in 0..NActor /\ hostOf[a] = i
      /\ inbox \in InboxType /\ inbox[a]["content"] # <<>> /\ box \in InboxType /\ m \in Message
      /\ OnMessage(i, m, box) /\ TypeOK /\ RanInv
      /\ \A b \in Actor : box[b]["parent"] = inbox[b]["parent"]
      /\ \A b \in Actor : box[b]["content"] = IF b = a THEN Tail(inbox[b]["content"])
                                              ELSE inbox[b]["content"]
      /\ \A b \in Actor : inbox[b]["content"] \in Seq(Message) /\ inbox[b]["parent"] \in Seq(Message)
  <2>1. /\ i \in End /\ a \in 0..NActor /\ hostOf[a] = i
        /\ inbox[a]["content"] # <<>> /\ box \in InboxType /\ m \in Message
        /\ OnMessage(i, m, box)
        /\ \A b \in Actor : box[b]["parent"] = inbox[b]["parent"]
        /\ \A b \in Actor : box[b]["content"] = IF b = a THEN Tail(inbox[a]["content"])
                                                ELSE inbox[b]["content"]
    BY <1>a, ContentTakes
  <2>2. inbox \in InboxType /\ TypeOK /\ RanInv
    BY BaseParts
  <2>3. QED BY <2>1, <2>2, EndKinds DEF InboxType
<1>1. /\ UNCHANGED <<created, hostOf, gone, seen, transport, registered, paused, disposed, sent>>
      /\ \A f \in End : f # i => /\ connectedTo'[f] = connectedTo[f]
                                 /\ ready'[f] = ready[f]
                                 /\ cached'[f] = cached[f]
                                 /\ running'[f] = running[f]
                                 /\ pending'[f] = pending[f]
                                 /\ answer'[f] = answer[f]
                                 /\ execs'[f] = execs[f]
  BY <1>0, OthersKeep
<1>2. \A f \in End, c \in Call : execs[f][c] > 0 => execs'[f][c] > 0
  BY <1>0, RanOnMessage
<1>3. PICK ms \in Seq(Message) :
        Hears(i, ms) /\ (inbox' = box \/ inbox' = Post(box, i, a, ms))
  BY <1>a, HearsMessage DEF NoRerunInv
<1> HIDE DEF box, m
<1>4. \A b \in Actor : Shrunk(inbox[b]["content"], box[b]["content"])
  BY <1>0 DEF Shrunk
<1>5. /\ ContentLink
      /\ \A b \in Actor : inbox'[b]["content"] = box[b]["content"]
      /\ \A b \in Actor : \/ inbox'[b]["parent"] = inbox[b]["parent"]
                          \/ b = a /\ inbox'[b]["parent"] = inbox[b]["parent"] \o ms
  <2>1. /\ ContentLink
        /\ \A b \in Actor : inbox'[b]["content"] = box[b]["content"]
        /\ \A b \in Actor : inbox'[b]["parent"] = box[b]["parent"]
             \/ (b = a /\ inbox'[b]["parent"] = box[b]["parent"] \o ms)
    BY <1>0, <1>3, <1>4, ContentPosts
  <2>2. QED BY <1>0, <2>1
<1>6. spent' = spent
  BY <1>0, <1>1 DEF spent
<1>7. ServeLink
  <2>1. ASSUME NEW j \in Instance, NEW k \in Id
        PROVE  \/ cached'[j][k] # NoCall \/ cached[j][k] = NoCall
               \/ k \in spent /\ NoCopyFor(inbox', j, k)
    <3>1. CASE j = i
      BY <1>3, <3>1 DEF Hears
    <3>2. CASE j # i
      BY <1>1, <3>2, EndKinds
    <3>3. QED BY <3>1, <3>2
  <2>2. ASSUME NEW b \in Actor, NEW j \in Instance, NEW k \in Id,
               hostOf'[b] = j, k \in Answers(inbox'[b]["parent"])
        PROVE  \/ hostOf[b] = j /\ k \in Answers(inbox[b]["parent"])
               \/ <<Parent, k>> \in NoMethod
               \/ execs'[j][<<Parent, k>>] > 0 /\ cached'[j][k] # NoCall
    <3>1. hostOf[b] = j
      BY <1>1, <2>2
    <3>2. CASE k \in Answers(inbox[b]["parent"])
      BY <3>1, <3>2
    <3>3. CASE k \notin Answers(inbox[b]["parent"])
      <4>1. b = a /\ inbox'[b]["parent"] = inbox[b]["parent"] \o ms
        BY <1>5, <2>2, <3>3
      <4>2. Answers(inbox'[b]["parent"]) = Answers(inbox[b]["parent"]) \cup Answers(ms)
        BY <1>0, <4>1, KindsConcat
      <4>3. k \in Answers(ms) /\ j = i
        BY <1>0, <2>2, <3>1, <3>3, <4>1, <4>2
      <4>4. QED BY <1>3, <4>3 DEF Hears
    <3>4. QED BY <3>2, <3>3
  <2>3. answer'[Parent] = answer[Parent]
    BY <1>0, <1>1
  <2>4. QED BY <1>1, <1>5, <1>6, <2>1, <2>2, <2>3 DEF ServeLink
<1>8. AckInv(inbox', spent') /\ ServedInv'
  BY <1>2, <1>7, ServeNext DEF NoRerunInv
<1>9. KnownInv'
  <2>1. Silent(inbox)'
    BY DEF BaseInv, LinkInv
  <2>2. ASSUME NEW j \in Instance, Strange(j)'
        PROVE  /\ Strange(j) /\ running'[j] \subseteq running[j]
               /\ \A k \in Id : cached'[j][k] = cached[j][k] \/ cached'[j][k] = NoCall
    <3>1. CASE j = i
      BY <1>3, <2>2, <3>1 DEF Hears
    <3>2. CASE j # i
      BY <1>1, <2>2, <3>2, EndKinds DEF Strange
    <3>3. QED BY <3>1, <3>2
  <2>3. ASSUME NEW j \in Instance PROVE \A r \in running'[j] : r \in running[j] \/ r.uid = UidOf[Parent]
    <3>1. CASE j = i
      BY <1>3, <3>1 DEF Hears
    <3>2. CASE j # i
      BY <1>1, <3>2, EndKinds
    <3>3. QED BY <3>1, <3>2
  <2>4. ASSUME NEW j \in Instance, NEW b \in Actor, hostOf[b] = j, Strange(j)', ~Deaf(j, b)'
        PROVE  /\ ~Deaf(j, b)
               /\ \/ inbox'[b]["content"] = inbox[b]["content"]
                  \/ ~Shrunk(inbox[b]["content"], inbox'[b]["content"])
                  \/ /\ inbox[b]["content"] # <<>> /\ inbox'[b]["content"] = Tail(inbox[b]["content"])
                     /\ Head(inbox[b]["content"]).type \notin Greeting
               /\ transport'[Parent] = b => transport[Parent] = b \/ HasGreeting(inbox'[b]["content"])
    <3>1. ~Deaf(j, b)
      BY <1>1, <2>4 DEF Deaf
    <3>2. CASE b = a
      BY <1>a, <1>0, <1>1, <1>3, <1>5, <2>4, <3>1, <3>2 DEF Hears
    <3>3. CASE b # a
      BY <1>0, <1>1, <1>5, <3>1, <3>3
    <3>4. QED BY <3>2, <3>3
  <2>5. \A b \in Actor : hostOf'[b] = hostOf[b]
    BY <1>1
  <2>6. QED BY <1>0, <1>5, <2>1, <2>2, <2>3, <2>4, <2>5, KnownStep DEF NoRerunInv
<1>10. OnceInv'
  <2>1. \A b \in Actor : inbox'[b]["content"] = IF b = transport[i] THEN Tail(inbox[b]["content"])
                                                 ELSE inbox[b]["content"]
    BY <1>a, <1>0, <1>5
  <2>2. QED BY <1>a, <1>1, <1>3, <1>5, <2>1, OnceDeliverContent DEF NoRerunInv
<1>11. QED BY <1>8, <1>9, <1>10 DEF NoRerunInv

\* The pair that the parent takes its messages from.
LEMMA ParentTakes ==
  ASSUME BaseInv, OnceInv, Deliver(Parent)
  PROVE  LET a == transport[Parent]
             q == inbox[a]["parent"]
             box == [inbox EXCEPT ![a]["parent"] = Tail(@)]
         IN /\ a \in Actor /\ a \in 0..NActor /\ hostOf[a] \in Instance /\ seen[Parent] = a
            /\ ~disposed[Parent]
            /\ q \in Seq(Message) /\ q # <<>> /\ Head(q) \in Message /\ box \in InboxType
            /\ NoTwice(q)
            /\ \A b \in Actor : box[b]["content"] = inbox[b]["content"]
            /\ \A b \in Actor : box[b]["parent"] = IF b = a THEN Tail(q) ELSE inbox[b]["parent"]
            /\ OnMessage(Parent, Head(q), box)
            /\ Fits(Head(q), hostOf[a], Parent)
            /\ Sound(Head(q), issued, done)
            /\ UNCHANGED <<drain, timer>>
<1> DEFINE a == transport[Parent]
           q == inbox[a]["parent"]
           box == [inbox EXCEPT ![a]["parent"] = Tail(@)]
<1>0. Parent \in End /\ Side(Parent) = "parent" /\ inbox \in InboxType /\ seen[Parent] \in 0..NActor
      /\ "parent" # "content"
  BY BaseParts, EndKinds
<1>1. ~disposed[Parent] /\ a # NoActor /\ q # <<>> /\ OnMessage(Parent, Head(q), box) /\ UNCHANGED <<drain, timer>>
  BY <1>0 DEF Deliver
<1>2. a \in Actor /\ a \in 0..NActor /\ hostOf[a] \in Instance /\ seen[Parent] = a
  BY <1>0, <1>1, BaseParts
<1>4. q \in Seq(Message) /\ Head(q) \in Message /\ box \in InboxType
  <2>1. q \in Seq(Message)
    BY <1>0, <1>2 DEF InboxType
  <2>2. QED BY <1>0, <1>1, <1>2, <2>1, TailType
<1>5. /\ \A b \in Actor : box[b]["content"] = inbox[b]["content"]
      /\ \A b \in Actor : box[b]["parent"] = IF b = a THEN Tail(q) ELSE inbox[b]["parent"]
  BY <1>0, <1>2 DEF InboxType
<1>6. Fits(Head(q), hostOf[a], Parent)
  <2>1. Fits(Head(inbox[a][Side(Parent)]), Peer(Parent, a), Parent)
    BY <1>0, <1>1, <1>2, BaseParts, OwnTail
  <2>2. QED BY <1>0, <2>1 DEF Peer
<1>7. Head(q) = q[1] /\ 1 \in 1..Len(q)
  <2>1. Len(q) \in Nat /\ Len(q) # 0 /\ Head(q) = q[1]
    BY <1>1, <1>4
  <2>2. QED BY <2>1
<1>8. NoTwice(q)
  BY <1>2 DEF OnceInv, OnceAt, OncePair
<1>9. Sound(Head(q), issued, done)
  BY <1>2, <1>7 DEF BaseInv, SoundInv, WireSound, AllSound
<1>10. QED BY <1>0, <1>1, <1>2, <1>4, <1>5, <1>6, <1>8, <1>9

LEMMA ParentGreeted ==
  ASSUME BaseInv, NEW m \in Message, NEW box, OnHandshake(Parent, m, box)
  PROVE  \E ms \in Seq(Message) : ParentHears(ms) /\ inbox' = Post(box, Parent, transport[Parent], ms)
<1> DEFINE before == IF m.type = "READY" THEN <<ReadyAck(Parent)>> ELSE <<>>
<1>0. /\ TypeOK /\ Parent \in End
      /\ pending[Parent] \subseteq 1..MaxRequest[Parent] /\ pending[Parent] \subseteq Id
  BY BaseParts, EndKinds DEF TypeOK
<1>1. /\ MarkAsReady(Parent, box, before)
      /\ UNCHANGED <<pending, answer, running>>
  BY DEF OnHandshake, requestVars, serverVars
<1>2. /\ before \in Seq(Message) /\ NoRequest(before) /\ Answers(before) = {} /\ Acks(before) = {}
      /\ Held(before) = {}
  <2>1. <<ReadyAck(Parent)>> \in Seq(Message) /\ ReadyAck(Parent).type = "READY_ACK"
    <3>1. ReadyAck(Parent) \in Message
      BY <1>0, MessageTypes
    <3>2. QED BY <3>1 DEF ReadyAck
  <2>2. Len(<<ReadyAck(Parent)>>) = 1 /\ <<ReadyAck(Parent)>>[1] = ReadyAck(Parent)
    OBVIOUS
  <2>3. /\ NoRequest(<<ReadyAck(Parent)>>) /\ Answers(<<ReadyAck(Parent)>>) = {}
        /\ Acks(<<ReadyAck(Parent)>>) = {}
    BY <2>1, <2>2, KindsOfOne DEF NoRequest
  <2>4. /\ before \in Seq(Message) /\ NoRequest(before) /\ Answers(before) = {} /\ Acks(before) = {}
    BY <2>1, <2>3, KindsOfOne, EmptyOrder
  <2>5. QED BY <2>4, HeldNone
<1> HIDE DEF before
<1>3. ASSUME NEW ms \in Seq(Message), Answers(ms) = {}, Acks(ms) = {},
             Held(ms) \subseteq {<<Parent, j>> : j \in pending[Parent]}
      PROVE  ParentHears(ms)
  <2>1. AfterAck(ms)
    <3>1. \A k \in Id, p \in 1..Len(ms) : ms[p] # ResponseAck(k)
      BY <1>3 DEF Acks
    <3>2. QED BY <3>1 DEF AfterAck
  <2>2. ASSUME NEW k \in spent PROVE <<Parent, k>> \notin Held(ms)
    <3>1. k \notin pending[Parent]
      BY DEF spent
    <3>2. \A j \in pending[Parent] : <<Parent, j>> # <<Parent, k>>
      BY <3>1
    <3>3. QED BY <1>3, <3>2
  <2>3. QED BY <1>1, <1>3, <2>1, <2>2 DEF ParentHears
<1>4. CASE ready[Parent]
  <2>1. inbox' = Post(box, Parent, transport[Parent], before)
    BY <1>1, <1>4 DEF MarkAsReady
  <2>2. QED BY <1>2, <1>3, <2>1
<1>5. CASE ~ready[Parent]
  <2>1. PICK s \in Ascending(pending[Parent]) :
          inbox' = Post(box, Parent, transport[Parent], before \o Requests(Parent, s))
    BY <1>1, <1>5 DEF MarkAsReady
  <2>2. /\ before \o Requests(Parent, s) \in Seq(Message)
        /\ Held(before \o Requests(Parent, s)) \subseteq {<<Parent, j>> : j \in pending[Parent]}
        /\ Answers(before \o Requests(Parent, s)) = Answers(before)
        /\ Acks(before \o Requests(Parent, s)) = Acks(before)
    BY <1>0, <1>2, <2>1, AgainOnce
  <2>3. QED BY <1>2, <1>3, <2>1, <2>2
<1>6. QED BY <1>4, <1>5

LEMMA ParentAcked ==
  ASSUME NEW m \in Message, NEW box, OnResponseAck(Parent, m, box)
  PROVE  ParentHears(<<>>) /\ inbox' = box /\ <<>> \in Seq(Message)
<1>1. UNCHANGED <<answer, running, pending>> /\ inbox' = box
  BY DEF OnResponseAck, requestVars
<1>2. Acks(<<>>) = {} /\ Answers(<<>>) = {} /\ AfterAck(<<>>) /\ Held(<<>>) = {} /\ <<>> \in Seq(Message)
  BY KindsOfOne, HeldNone
<1>3. QED BY <1>1, <1>2 DEF ParentHears

LEMMA ParentAnswered ==
  ASSUME BaseInv, OnceInv, Deliver(Parent), NEW m \in Message, NEW box,
         m = Head(inbox[transport[Parent]]["parent"]), OnResponse(Parent, m, box)
  PROVE  /\ <<ResponseAck(m.id)>> \in Seq(Message) /\ ParentHears(<<ResponseAck(m.id)>>)
         /\ inbox' = Post(box, Parent, transport[Parent], <<ResponseAck(m.id)>>)
<1> DEFINE ms == <<ResponseAck(m.id)>>
           q == inbox[transport[Parent]]["parent"]
<1>0. /\ TypeOK /\ Parent \in End /\ answer \in [End -> [Id -> Call \cup {NoCall}]]
      /\ pending \in [End -> SUBSET Id]
      /\ q \in Seq(Message) /\ q # <<>> /\ transport[Parent] \in Actor
      /\ hostOf[transport[Parent]] \in Instance
  BY BaseParts, EndKinds, ParentTakes DEF TypeOK
<1>1. /\ m.type = "RESPONSE" /\ inbox' = Post(box, Parent, transport[Parent], ms)
      /\ UNCHANGED <<running, sent>>
      /\ IF transport[Parent] # NoActor /\ m.id \in pending[Parent]
         THEN /\ pending' = [pending EXCEPT ![Parent] = @ \ {m.id}]
              /\ answer' = [answer EXCEPT ![Parent][m.id] = m.of]
         ELSE UNCHANGED <<pending, answer>>
  BY DEF OnResponse, serverVars
<1>2. m.id \in Id
  BY <1>1 DEF Message, Handshake, Payload
<1>3. ms \in Seq(Message) /\ ResponseAck(m.id).type = "RESPONSE_ACK"
  BY <1>2, MessageTypes DEF ResponseAck
<1>4. Held(ms) = {} /\ Answers(ms) = {} /\ AfterAck(ms) /\ Acks(ms) = {m.id}
  <2>1. Len(ms) = 1 /\ ms[1] = ResponseAck(m.id)
    OBVIOUS
  <2>2. NoRequest(ms)
    BY <1>3, <2>1 DEF NoRequest
  <2>3. QED BY <1>2, <1>3, <2>2, KindsOfOne, HeldNone
<1>5. m.id \in Answers(q)
  BY <1>0, <1>1, <1>2, KindsTail
<1>6. m.id <= sent[Parent]
  BY <1>0, <1>5, WireIds
<1>7. transport[Parent] # NoActor
  BY <1>0, ConstantTypes DEF Actor, NoActor
<1>8. m.id \notin pending'[Parent] /\ pending'[Parent] \subseteq pending[Parent]
  BY <1>0, <1>1, <1>7
<1>9. m.id \in spent'
  BY <1>1, <1>2, <1>6, <1>8 DEF spent
<1>10. \A k \in Id : k # m.id => answer'[Parent][k] = answer[Parent][k]
  BY <1>0, <1>1
<1>11. \A k \in Id : answer'[Parent][k] = answer[Parent][k] \/ k \in Answers(q)
  BY <1>5, <1>10
<1> HIDE DEF ms
<1>12. ParentHears(ms)
  BY <1>1, <1>4, <1>8, <1>9, <1>11 DEF ParentHears
<1>13. QED BY <1>1, <1>3, <1>12 DEF ms

LEMMA ParentAsked ==
  ASSUME DistinctUids, BaseInv, OnceInv, Deliver(Parent), NEW m \in Message, NEW box,
         m = Head(inbox[transport[Parent]]["parent"]), OnRequest(Parent, m, box)
  PROVE  \E ms \in Seq(Message) :
           ParentHears(ms) /\ (inbox' = box \/ inbox' = Post(box, Parent, transport[Parent], ms))
<1> DEFINE q == inbox[transport[Parent]]["parent"]
           h == hostOf[transport[Parent]]
           c == m.call
           k == c[2]
<1>0. /\ TypeOK /\ Parent \in End /\ OwnInv /\ Side(Parent) = "parent"
      /\ running \in [End -> SUBSET Run]
      /\ q \in Seq(Message) /\ q # <<>> /\ NoTwice(q)
  BY BaseParts, EndKinds, ParentTakes DEF TypeOK, BaseInv
<1>1. m.type = "REQUEST" /\ UNCHANGED <<answer, pending>>
  BY DEF OnRequest, requestVars
<1>2. c \in Call /\ k \in Id /\ m = Request(c) /\ c = <<h, k>> /\ cached[Parent][k] \in {NoCall, c}
  <2>1. m = Head(inbox[transport[Parent]][Side(Parent)])
    BY <1>0
  <2>2. /\ c \in Call /\ m = Request(c) /\ k \in Id
        /\ c = <<Peer(Parent, transport[Parent]), k>>
        /\ cached[Parent][k] \in {NoCall, c}
    BY <1>0, <1>1, <2>1, KeptIsAsked
  <2>3. Peer(Parent, transport[Parent]) = h
    BY DEF Peer
  <2>4. QED BY <2>2, <2>3
<1>3. c \in Held(q) /\ c \notin Held(Tail(q))
  BY <1>0, <1>2, HeldTail, KindsTail
<1>4. /\ <<Response(c)>> \in Seq(Message) /\ Held(<<Response(c)>>) = {}
      /\ Answers(<<Response(c)>>) = {k} /\ Acks(<<Response(c)>>) = {} /\ AfterAck(<<Response(c)>>)
  BY <1>2, ResponseAlone
<1>5. Acks(<<>>) = {} /\ Answers(<<>>) = {} /\ AfterAck(<<>>) /\ Held(<<>>) = {} /\ <<>> \in Seq(Message)
  BY KindsOfOne, HeldNone
<1> HIDE DEF c, k
<1>6. ASSUME running' = running PROVE ParentHears(<<Response(c)>>) /\ ParentHears(<<>>)
  <2>1. \A j \in Answers(<<Response(c)>>) : <<h, j>> \in Held(q) /\ <<h, j>> \notin Held(Tail(q))
    BY <1>2, <1>3, <1>4
  <2>2. ParentHears(<<Response(c)>>)
    BY <1>1, <1>4, <1>6, <2>1 DEF ParentHears
  <2>3. ParentHears(<<>>)
    BY <1>1, <1>5, <1>6 DEF ParentHears
  <2>4. QED BY <2>2, <2>3
<1>7. CASE /\ cached[Parent][k] # NoCall /\ running' = running
           /\ inbox' = Post(box, Parent, transport[Parent], <<Response(cached[Parent][k])>>)
  <2>1. cached[Parent][k] = c
    BY <1>2, <1>7
  <2>2. inbox' = Post(box, Parent, transport[Parent], <<Response(c)>>)
    BY <1>7, <2>1
  <2>3. QED BY <1>4, <1>6, <1>7, <2>2
<1>8. CASE running' = running /\ inbox' = Post(box, Parent, transport[Parent], <<Response(c)>>)
  BY <1>4, <1>6, <1>8
<1>9. CASE running' = running /\ inbox' = box
  BY <1>5, <1>6, <1>9
<1>10. CASE /\ inbox' = box
            /\ running' = [running EXCEPT ![Parent] = @ \cup
                             {[call |-> c, uid |-> connectedTo[Parent], n |-> execs[Parent][c]]}]
  <2>1. running'[Parent] = running[Parent] \cup
                             {[call |-> c, uid |-> connectedTo[Parent], n |-> execs[Parent][c]]}
    BY <1>0, <1>10
  <2>2. \A r \in running'[Parent] : r \in running[Parent] \/ r.call = c
    BY <2>1
  <2>3. \A r \in running'[Parent] :
          r \in running[Parent] \/ (r.call \in Held(q) /\ r.call \notin Held(Tail(q)))
    BY <1>3, <2>2
  <2>4. ParentHears(<<>>)
    BY <1>1, <1>5, <2>3 DEF ParentHears
  <2>5. QED BY <1>5, <1>10, <2>4
<1>11. QED
  <2>1. \/ /\ cached[Parent][k] # NoCall /\ running' = running
           /\ inbox' = Post(box, Parent, transport[Parent], <<Response(cached[Parent][k])>>)
        \/ running' = running /\ inbox' = box
        \/ running' = running /\ inbox' = Post(box, Parent, transport[Parent], <<Response(c)>>)
        \/ /\ inbox' = box
           /\ running' = [running EXCEPT ![Parent] = @ \cup
                            {[call |-> c, uid |-> connectedTo[Parent], n |-> execs[Parent][c]]}]
    BY DEF OnRequest, c, k
  <2>2. QED BY <1>7, <1>8, <1>9, <1>10, <2>1

LEMMA ParentHeard ==
  ASSUME DistinctUids, BaseInv, OnceInv, Deliver(Parent)
  PROVE  \E ms \in Seq(Message) :
           LET box == [inbox EXCEPT ![transport[Parent]]["parent"] = Tail(@)] IN
           ParentHears(ms) /\ (inbox' = box \/ inbox' = Post(box, Parent, transport[Parent], ms))
<1> DEFINE box == [inbox EXCEPT ![transport[Parent]]["parent"] = Tail(@)]
           m == Head(inbox[transport[Parent]]["parent"])
<1>1. m \in Message /\ OnMessage(Parent, m, box)
  BY ParentTakes
<1>2. ~paused[Parent]
  BY DEF BaseInv, OwnInv, KeptOwn, ParentOwn
<1>3. CASE OnHandshake(Parent, m, box)
  BY <1>1, <1>3, ParentGreeted
<1>4. CASE OnResponseAck(Parent, m, box)
  BY <1>1, <1>4, ParentAcked
<1>5. CASE OnResponse(Parent, m, box)
  BY <1>1, <1>5, ParentAnswered
<1>6. CASE OnRequest(Parent, m, box)
  BY <1>1, <1>6, ParentAsked
<1>7. QED BY <1>1, <1>2, <1>3, <1>4, <1>5, <1>6 DEF OnMessage

LEMMA OnceDeliverParent ==
  ASSUME BaseInv, OnceInv, Deliver(Parent), NEW ms \in Seq(Message), ParentHears(ms),
         UNCHANGED <<hostOf, seen, transport, disposed>>,
         \A i \in Instance : ready'[i] = ready[i] /\ answer'[i] = answer[i],
         \A b \in Actor : inbox'[b]["parent"] = IF b = transport[Parent] THEN Tail(inbox[b]["parent"])
                                                ELSE inbox[b]["parent"],
         \A b \in Actor : \/ inbox'[b]["content"] = inbox[b]["content"]
                          \/ b = transport[Parent] /\ inbox'[b]["content"] = inbox[b]["content"] \o ms
  PROVE  OnceInv'
<1>a. PICK a \in Actor : a = transport[Parent]
  BY ParentTakes
<1>b. PICK i \in Instance : i = hostOf[a]
  BY <1>a, ParentTakes
<1>0. /\ inbox \in InboxType /\ i \in End
      /\ \A b \in Actor : inbox[b]["content"] \in Seq(Message) /\ inbox[b]["parent"] \in Seq(Message)
  BY BaseParts, EndKinds DEF InboxType
<1>1. ASSUME NEW b \in Actor, hostOf[b] \in Instance PROVE Closed(hostOf[b], b)' = Closed(hostOf[b], b)
  BY <1>1 DEF Closed
<1>2. ASSUME NEW b \in Actor, b # a PROVE OnceAt(b)'
  <2>1. CASE hostOf[b] \in Instance
    <3>1. inbox'[b]["parent"] = inbox[b]["parent"] /\ inbox'[b]["content"] = inbox[b]["content"]
      BY <1>a, <1>2
    <3>2. Dull(inbox[b]["parent"], inbox'[b]["parent"])
      BY <3>1 DEF Dull
    <3>3. RunsOn(b)' = {}
      BY <1>a, <1>2 DEF RunsOn
    <3>4. QED BY <1>0, <1>1, <2>1, <3>1, <3>2, <3>3, OnceQuiet
  <2>2. CASE hostOf[b] \notin Instance
    BY <2>2 DEF OnceAt
  <2>3. QED BY <2>1, <2>2
<1>3. PICK q, w, v, x : /\ q = inbox[a]["parent"] /\ w = inbox[a]["content"]
                        /\ v = inbox'[a]["parent"] /\ x = inbox'[a]["content"]
  OBVIOUS
<1>4. PICK R, S : R = RunsOn(a) /\ S = RunsOn(a)'
  OBVIOUS
<1>5. /\ OncePair(i, q, w, answer[i], R, Closed(i, a))
      /\ q \in Seq(Message) /\ q # <<>> /\ w \in Seq(Message) /\ v = Tail(q) /\ x \in {w, w \o ms}
  <2>1. OncePair(i, q, w, answer[i], R, Closed(i, a))
    BY <1>b, <1>3, <1>4 DEF OnceInv, OnceAt
  <2>2. q # <<>>
    BY <1>a, <1>3, ParentTakes
  <2>3. v = Tail(q) /\ x \in {w, w \o ms}
    BY <1>a, <1>3
  <2>4. QED BY <1>0, <1>3, <2>1, <2>2, <2>3
<1>6. /\ \A k \in Answers(ms) : <<i, k>> \in Held(q) /\ <<i, k>> \notin Held(v)
      /\ \A r \in running'[Parent] : r \in running[Parent] \/ (r.call \in Held(q) /\ r.call \notin Held(v))
  BY <1>a, <1>b, <1>3, <1>5 DEF ParentHears
<1>7. NoTwice(v) /\ Held(v) \subseteq Held(q)
  BY <1>5, KindsTail, HeldTail DEF OncePair
<1>8. \A k \in Answers(x) : k \in Answers(w) \/ (<<i, k>> \in Held(q) /\ <<i, k>> \notin Held(v))
  <2>1. Answers(w \o ms) = Answers(w) \cup Answers(ms)
    BY <1>5, KindsConcat
  <2>2. QED BY <1>5, <1>6, <2>1
<1>9. \A c \in S : c \in R \/ (c \in Held(q) /\ c \notin Held(v))
  BY <1>a, <1>4, <1>6 DEF RunsOn
<1>10. PICK cls \in BOOLEAN : cls = Closed(i, a)
  BY DEF Closed
<1>11. OncePair(i, v, x, answer[i], S, cls)
  BY <1>5, <1>7, <1>8, <1>9, <1>10, OncePairStep
<1>12. OnceAt(a)'
  <2>1. Closed(i, a)' = cls
    BY <1>1, <1>b, <1>10
  <2>2. answer'[i] = answer[i] /\ hostOf'[a] = i
    BY <1>b
  <2>3. OncePair(i, inbox'[a]["parent"], inbox'[a]["content"], answer'[i], RunsOn(a)', Closed(i, a)')
    BY <1>3, <1>4, <1>11, <2>1, <2>2
  <2>4. QED BY <2>2, <2>3, <1>b DEF OnceAt
<1>13. QED BY <1>2, <1>12 DEF OnceInv

LEMMA RerunDeliverParent ==
  ASSUME DistinctUids, BaseInv, BaseInv', NoRerunInv, Deliver(Parent)
  PROVE  NoRerunInv'
<1> DEFINE box == [inbox EXCEPT ![transport[Parent]]["parent"] = Tail(@)]
           m == Head(inbox[transport[Parent]]["parent"])
<1>a. PICK a \in Actor : a = transport[Parent]
  BY ParentTakes DEF NoRerunInv
<1>i. OnceInv
  BY DEF NoRerunInv
<1>0. /\ Parent \in End /\ hostOf[a] \in Instance
      /\ inbox \in InboxType /\ inbox[a]["parent"] # <<>> /\ box \in InboxType /\ m \in Message
      /\ OnMessage(Parent, m, box) /\ TypeOK /\ RanInv /\ sent \in [End -> 0..MaxId]
      /\ \A b \in Actor : box[b]["content"] = inbox[b]["content"]
      /\ \A b \in Actor : box[b]["parent"] = IF b = a THEN Tail(inbox[b]["parent"])
                                             ELSE inbox[b]["parent"]
      /\ \A b \in Actor : inbox[b]["content"] \in Seq(Message) /\ inbox[b]["parent"] \in Seq(Message)
  <2>1. /\ hostOf[a] \in Instance
        /\ inbox[a]["parent"] # <<>> /\ box \in InboxType /\ m \in Message
        /\ OnMessage(Parent, m, box)
        /\ \A b \in Actor : box[b]["content"] = inbox[b]["content"]
        /\ \A b \in Actor : box[b]["parent"] = IF b = a THEN Tail(inbox[a]["parent"])
                                               ELSE inbox[b]["parent"]
    BY <1>a, <1>i, ParentTakes
  <2>2. inbox \in InboxType /\ TypeOK /\ RanInv /\ sent \in [End -> 0..MaxId]
    BY BaseParts
  <2>3. QED BY <2>1, <2>2, EndKinds DEF InboxType
<1>1. /\ UNCHANGED <<created, hostOf, gone, seen, transport, registered, paused, disposed, sent>>
      /\ \A f \in Instance : /\ connectedTo'[f] = connectedTo[f]
                             /\ ready'[f] = ready[f]
                             /\ cached'[f] = cached[f]
                             /\ running'[f] = running[f]
                             /\ answer'[f] = answer[f]
                             /\ execs'[f] = execs[f]
  <2>1. \A f \in Instance : f \in End /\ f # Parent
    BY EndKinds
  <2>2. QED BY <1>0, <2>1, OthersKeep
<1>2. \A f \in End, c \in Call : execs[f][c] > 0 => execs'[f][c] > 0
  BY <1>0, RanOnMessage
<1>3. PICK ms \in Seq(Message) :
        ParentHears(ms) /\ (inbox' = box \/ inbox' = Post(box, Parent, transport[Parent], ms))
  BY <1>i, ParentHeard
<1> HIDE DEF box, m
<1>4. /\ AfterAck(ms) /\ Acks(ms) \subseteq spent' /\ \A k \in spent : <<Parent, k>> \notin Held(ms)
      /\ \A k \in Id : answer'[Parent][k] = answer[Parent][k] \/ k \in Answers(inbox[a]["parent"])
      /\ pending'[Parent] \subseteq pending[Parent]
  BY <1>a, <1>3 DEF ParentHears
<1>5. /\ ContentLink
      /\ \A b \in Actor : inbox'[b]["parent"] = box[b]["parent"]
      /\ \A b \in Actor : \/ inbox'[b]["content"] = inbox[b]["content"]
                          \/ b = a /\ inbox'[b]["content"] = inbox[b]["content"] \o ms
  <2>1. transport'[Parent] = transport[Parent]
    BY <1>1
  <2>2. /\ ContentLink
        /\ \A b \in Actor : inbox'[b]["parent"] = box[b]["parent"]
        /\ \A b \in Actor : \/ inbox'[b]["content"] = inbox[b]["content"]
                            \/ b = transport[Parent] /\ inbox'[b]["content"] = inbox[b]["content"] \o ms
    BY <1>0, <1>3, <1>4, <2>1, ParentPosts
  <2>3. QED BY <1>a, <2>2
<1>6. spent \subseteq spent'
  BY <1>1, <1>4 DEF spent
<1>7. \A b \in Actor : Answers(inbox'[b]["parent"]) \subseteq Answers(inbox[b]["parent"])
  BY <1>0, <1>5, KindsTail
<1>8. ServeLink
  <2>1. \A j \in Instance, k \in Id : cached'[j][k] # NoCall \/ cached[j][k] = NoCall
    BY <1>1
  <2>2. \A b \in Actor, j \in Instance, k \in Id :
          hostOf'[b] = j /\ k \in Answers(inbox'[b]["parent"]) => hostOf[b] = j /\ k \in Answers(inbox[b]["parent"])
    BY <1>1, <1>7
  <2>3. \A k \in Id : answer'[Parent][k] # NoCall =>
          \/ answer[Parent][k] # NoCall
          \/ \E b \in Actor : hostOf[b] \in Instance /\ k \in Answers(inbox[b]["parent"])
    BY <1>0, <1>4
  <2>4. QED BY <1>1, <1>5, <1>6, <2>1, <2>2, <2>3 DEF ServeLink
<1>9. AckInv(inbox', spent') /\ ServedInv'
  BY <1>2, <1>8, ServeNext DEF NoRerunInv
<1>10. KnownInv'
  <2>1. Silent(inbox)'
    BY DEF BaseInv, LinkInv
  <2>2. \A j \in Instance : Strange(j)' =>
          /\ Strange(j) /\ running'[j] \subseteq running[j]
          /\ \A k \in Id : cached'[j][k] = cached[j][k] \/ cached'[j][k] = NoCall
    BY <1>1 DEF Strange
  <2>3. \A j \in Instance : \A r \in running'[j] : r \in running[j]
    BY <1>1
  <2>4. ASSUME NEW j \in Instance, NEW b \in Actor, ~Deaf(j, b)'
        PROVE  /\ ~Deaf(j, b)
               /\ \/ inbox'[b]["content"] = inbox[b]["content"]
                  \/ ~Shrunk(inbox[b]["content"], inbox'[b]["content"])
               /\ transport'[Parent] = b => transport[Parent] = b
    <3>1. ~Deaf(j, b)
      BY <1>1, <2>4 DEF Deaf
    <3>2. \/ inbox'[b]["content"] = inbox[b]["content"]
          \/ ~Shrunk(inbox[b]["content"], inbox'[b]["content"])
      BY <1>0, <1>5, ShrunkConcat
    <3>3. QED BY <1>1, <3>1, <3>2
  <2>5. \A b \in Actor : hostOf'[b] = hostOf[b]
    BY <1>1
  <2>6. QED BY <1>0, <1>5, <2>1, <2>2, <2>3, <2>4, <2>5, KnownStep DEF NoRerunInv
<1>11. OnceInv'
  <2>1. \A b \in Actor : inbox'[b]["parent"] = IF b = transport[Parent] THEN Tail(inbox[b]["parent"])
                                               ELSE inbox[b]["parent"]
    BY <1>a, <1>0, <1>5
  <2>2. \A b \in Actor : \/ inbox'[b]["content"] = inbox[b]["content"]
                         \/ b = transport[Parent] /\ inbox'[b]["content"] = inbox[b]["content"] \o ms
    BY <1>a, <1>5
  <2>3. QED BY <1>1, <1>3, <1>i, <2>1, <2>2, OnceDeliverParent
<1>12. QED BY <1>9, <1>10, <1>11 DEF NoRerunInv

LEMMA RerunFinishContent ==
  ASSUME BaseInv, BaseInv', NoRerunInv, NEW i \in Instance, NEW r \in running[i], FinishHandler(i, r)
  PROVE  NoRerunInv'
<1> DEFINE c == r.call
           k == c[2]
           ms == <<Response(c)>>
           t == transport[i]
<1>0. /\ i \in End /\ i # Parent /\ Parent \in End /\ inbox \in InboxType /\ t \in 0..NActor
      /\ running \in [End -> SUBSET Run] /\ cached \in [End -> [Id -> Call \cup {NoCall}]]
      /\ RanInv /\ ContentOwn /\ KnownInv /\ OnceInv
      /\ \A a \in Actor : inbox[a]["content"] \in Seq(Message) /\ inbox[a]["parent"] \in Seq(Message)
  <2>1. /\ inbox \in InboxType /\ t \in 0..NActor /\ RanInv /\ i \in End /\ i # Parent /\ Parent \in End
    BY BaseParts, EndKinds
  <2>2. running \in [End -> SUBSET Run] /\ cached \in [End -> [Id -> Call \cup {NoCall}]]
    BY BaseParts DEF TypeOK
  <2>3. ContentOwn /\ KnownInv /\ OnceInv
    BY DEF BaseInv, OwnInv, KeptOwn, NoRerunInv
  <2>4. QED BY <2>1, <2>2, <2>3 DEF InboxType
<1>1. /\ c \in Call /\ k \in Id /\ c = <<Parent, k>> /\ c # NoCall /\ execs[i][c] > 0
      /\ ~Strange(i) /\ r.uid = UidOf[Parent]
  <2>1. r \in Run
    BY <1>0
  <2>2. c \in Call
    BY <2>1 DEF Run
  <2>3. c[1] = Parent /\ execs[i][c] > 0
    BY <1>0 DEF ContentOwn, RanInv
  <2>4. k \in Id /\ c = <<c[1], k>>
    BY <2>2, MessageTypes
  <2>5. k # 0 /\ NoCall[2] = 0
    BY <2>4, ConstantTypes DEF Id, NoCall
  <2>6. ~Strange(i) /\ r.uid = UidOf[Parent]
    BY <1>0 DEF KnownInv
  <2>7. QED BY <2>2, <2>3, <2>4, <2>5, <2>6
<1>2. /\ UNCHANGED <<created, hostOf, gone, seen, transport, ready, connectedTo, disposed, sent, pending,
                     answer, execs>>
      /\ running' = [running EXCEPT ![i] = @ \ {r}]
      /\ cached' = [cached EXCEPT ![i][k] = c]
      /\ inbox' = Post(inbox, i, t, ms)
  BY <1>1 DEF FinishHandler, Strange, linkVars, connVars, requestVars
<1>3. /\ ms \in Seq(Message) /\ NoRequest(ms) /\ Answers(ms) = {k}
  BY <1>1, ResponseAlone
<1> HIDE DEF ms, c, k
<1>4. /\ \A j \in Id : cached'[i][j] # NoCall \/ cached[i][j] = NoCall
      /\ cached'[i][k] # NoCall
      /\ \A j \in Instance : j # i => cached'[j] = cached[j] /\ running'[j] = running[j]
      /\ running'[i] \subseteq running[i] /\ running'[Parent] = running[Parent]
  <2>1. \A j \in Id : j # k => cached'[i][j] = cached[i][j]
    BY <1>0, <1>1, <1>2
  <2>2. cached'[i][k] = c
    BY <1>0, <1>1, <1>2
  <2>3. \A j \in Instance : j # i => cached'[j] = cached[j] /\ running'[j] = running[j]
    <3>1. \A j \in Instance : j \in End
      BY EndKinds
    <3>2. QED BY <1>0, <1>2, <3>1
  <2>4. running'[i] \subseteq running[i] /\ running'[Parent] = running[Parent]
    BY <1>0, <1>2
  <2>5. QED BY <1>1, <2>1, <2>2, <2>3, <2>4
<1>5. /\ ContentLink
      /\ \A a \in Actor : inbox'[a]["content"] = inbox[a]["content"]
      /\ \A a \in Actor : \/ inbox'[a]["parent"] = inbox[a]["parent"]
                          \/ a = t /\ inbox'[a]["parent"] = inbox[a]["parent"] \o ms
  <2>1. \A a \in Actor : Shrunk(inbox[a]["content"], inbox[a]["content"])
    BY DEF Shrunk
  <2>2. QED BY <1>0, <1>2, <1>3, <2>1, ContentPosts
<1>6. spent' = spent
  BY <1>2 DEF spent
<1>7. ASSUME NEW a \in Actor, NEW j \in Instance, NEW l \in Id,
             hostOf'[a] = j, l \in Answers(inbox'[a]["parent"])
      PROVE  \/ hostOf[a] = j /\ l \in Answers(inbox[a]["parent"])
             \/ execs'[j][<<Parent, l>>] > 0 /\ cached'[j][l] # NoCall
  <2>1. CASE l \in Answers(inbox[a]["parent"])
    BY <1>2, <1>7, <2>1
  <2>2. CASE l \notin Answers(inbox[a]["parent"])
    <3>1. a = t /\ inbox'[a]["parent"] = inbox[a]["parent"] \o ms
      BY <1>5, <1>7, <2>2
    <3>2. Answers(inbox'[a]["parent"]) = Answers(inbox[a]["parent"]) \cup Answers(ms)
      BY <1>0, <1>3, <3>1, KindsConcat
    <3>3. l = k
      BY <1>3, <1>7, <2>2, <3>2
    <3>4. hostOf[a] = i
      <4>1. t # NoActor
        BY <3>1, ConstantTypes DEF Actor, NoActor
      <4>2. QED BY <1>0, <3>1, <4>1, BaseParts
    <3>5. QED BY <1>1, <1>2, <1>4, <1>7, <3>3, <3>4
  <2>3. QED BY <2>1, <2>2
<1>8. ServeLink
  <2>1. \A j \in Instance, l \in Id : cached'[j][l] # NoCall \/ cached[j][l] = NoCall
    BY <1>4
  <2>2. QED BY <1>2, <1>5, <1>6, <1>7, <2>1 DEF ServeLink
<1>9. AckInv(inbox', spent') /\ ServedInv'
  BY <1>2, <1>8, ServeNext DEF NoRerunInv
<1>10. KnownInv'
  <2>1. Silent(inbox)'
    BY DEF BaseInv, LinkInv
  <2>2. ASSUME NEW j \in Instance, Strange(j)'
        PROVE  Strange(j) /\ running'[j] = running[j] /\ cached'[j] = cached[j]
    <3>1. Strange(j)
      BY <1>2, <2>2 DEF Strange
    <3>2. j # i
      BY <1>1, <3>1
    <3>3. QED BY <1>4, <3>1, <3>2
  <2>3. \A j \in Instance : \A s \in running'[j] : s \in running[j]
    BY <1>4
  <2>4. \A j \in Instance, b \in Actor : Deaf(j, b)' = Deaf(j, b)
    BY <1>2 DEF Deaf
  <2>5. \A b \in Actor : hostOf'[b] = hostOf[b]
    BY <1>2
  <2>6. transport' = transport
    BY <1>2
  <2>7. QED BY <1>0, <1>5, <2>1, <2>2, <2>3, <2>4, <2>5, <2>6, KnownStep
<1>11. ASSUME NEW a \in Actor PROVE OnceAt(a)'
  <2>1. Dull(inbox[a]["parent"], inbox'[a]["parent"])
    <3>1. Dull(inbox[a]["parent"], inbox[a]["parent"])
      BY DEF Dull
    <3>2. Dull(inbox[a]["parent"], inbox[a]["parent"] \o ms)
      BY <1>0, <1>3, DullFacts
    <3>3. QED BY <1>5, <3>1, <3>2
  <2>2. RunsOn(a)' = RunsOn(a) /\ Closed(hostOf[a], a)' = Closed(hostOf[a], a)
    BY <1>2, <1>4 DEF RunsOn, Closed
  <2>3. QED BY <1>0, <1>2, <1>5, <2>1, <2>2, OnceQuiet
<1>12. QED BY <1>9, <1>10, <1>11 DEF NoRerunInv, OnceInv

LEMMA RerunFinishParent ==
  ASSUME BaseInv, BaseInv', NoRerunInv, NEW r \in running[Parent], FinishHandler(Parent, r)
  PROVE  NoRerunInv'
<1> DEFINE c == r.call
           k == c[2]
           ms == <<Response(c)>>
<1>a. PICK a \in Actor : a = transport[Parent] /\ hostOf[a] \in Instance /\ r.call[1] = hostOf[a]
  <2>1. transport[Parent] # NoActor /\ r.call[1] = hostOf[transport[Parent]]
    BY DEF BaseInv, OwnInv, KeptOwn, ParentOwn
  <2>2. QED BY <2>1, BaseParts, EndKinds
<1>b. PICK i \in Instance : i = hostOf[a]
  BY <1>a
<1>0. /\ i \in End /\ i # Parent /\ Parent \in End /\ inbox \in InboxType
      /\ running \in [End -> SUBSET Run] /\ cached \in [End -> [Id -> Call \cup {NoCall}]]
      /\ KnownInv /\ OnceInv
      /\ \A b \in Actor : inbox[b]["content"] \in Seq(Message) /\ inbox[b]["parent"] \in Seq(Message)
  <2>1. inbox \in InboxType /\ i \in End /\ i # Parent /\ Parent \in End
    BY BaseParts, EndKinds
  <2>2. running \in [End -> SUBSET Run] /\ cached \in [End -> [Id -> Call \cup {NoCall}]]
    BY BaseParts DEF TypeOK
  <2>3. KnownInv /\ OnceInv
    BY DEF NoRerunInv
  <2>4. QED BY <2>1, <2>2, <2>3 DEF InboxType
<1>1. c \in Call /\ k \in Id /\ c = <<i, k>>
  <2>1. r \in Run
    BY <1>0
  <2>2. c \in Call
    BY <2>1 DEF Run
  <2>3. k \in Id /\ c = <<c[1], k>>
    BY <2>2, MessageTypes
  <2>4. QED BY <1>a, <1>b, <2>2, <2>3
<1>2. /\ UNCHANGED <<created, hostOf, gone, seen, transport, ready, connectedTo, disposed, sent, pending,
                     answer, execs>>
      /\ \A j \in Instance : running'[j] = running[j] /\ cached'[j] = cached[j]
      /\ running'[Parent] = running[Parent] \ {r}
      /\ inbox' = inbox \/ inbox' = Post(inbox, Parent, transport[Parent], ms)
  <2>1. /\ UNCHANGED <<created, hostOf, gone, seen, transport, ready, connectedTo, disposed, sent, pending,
                       answer, execs>>
        /\ running' = [running EXCEPT ![Parent] = @ \ {r}]
        /\ cached' = cached \/ cached' = [cached EXCEPT ![Parent][k] = c]
        /\ inbox' = inbox \/ inbox' = Post(inbox, Parent, transport[Parent], ms)
    BY DEF FinishHandler, linkVars, connVars, requestVars
  <2>2. \A j \in Instance : j \in End /\ j # Parent
    BY EndKinds
  <2>3. \A j \in Instance : cached'[j] = cached[j]
    BY <1>0, <2>1, <2>2
  <2>4. QED BY <1>0, <2>1, <2>2, <2>3
<1>3. /\ ms \in Seq(Message) /\ Held(ms) = {} /\ Answers(ms) = {k} /\ Acks(ms) = {} /\ AfterAck(ms)
  BY <1>1, ResponseAlone
<1>r. c \in RunsOn(a)
  BY <1>a DEF RunsOn
<1> HIDE DEF ms, c, k
<1>5. /\ ContentLink
      /\ \A b \in Actor : inbox'[b]["parent"] = inbox[b]["parent"]
      /\ \A b \in Actor : \/ inbox'[b]["content"] = inbox[b]["content"]
                          \/ b = a /\ inbox'[b]["content"] = inbox[b]["content"] \o ms
  <2>1. transport'[Parent] = transport[Parent] /\ \A j \in spent : <<Parent, j>> \notin Held(ms)
    BY <1>2, <1>3
  <2>2. Acks(ms) \subseteq spent'
    BY <1>3
  <2>3. /\ ContentLink
        /\ \A b \in Actor : inbox'[b]["parent"] = inbox[b]["parent"]
        /\ \A b \in Actor : \/ inbox'[b]["content"] = inbox[b]["content"]
                            \/ b = transport[Parent] /\ inbox'[b]["content"] = inbox[b]["content"] \o ms
    BY <1>0, <1>2, <1>3, <2>1, <2>2, ParentPosts
  <2>4. QED BY <1>a, <2>3
<1>6. spent' = spent
  BY <1>2 DEF spent
<1>8. ServeLink
  <2>1. \A j \in Instance, l \in Id : cached'[j][l] # NoCall \/ cached[j][l] = NoCall
    BY <1>2
  <2>2. QED BY <1>2, <1>5, <1>6, <2>1 DEF ServeLink
<1>9. AckInv(inbox', spent') /\ ServedInv'
  BY <1>2, <1>8, ServeNext DEF NoRerunInv
<1>10. KnownInv'
  <2>1. Silent(inbox)'
    BY DEF BaseInv, LinkInv
  <2>2. \A j \in Instance : Strange(j)' = Strange(j)
    BY <1>2 DEF Strange
  <2>3. \A j \in Instance, b \in Actor : Deaf(j, b)' = Deaf(j, b)
    BY <1>2 DEF Deaf
  <2>4. \A b \in Actor : \/ inbox'[b]["content"] = inbox[b]["content"]
                         \/ ~Shrunk(inbox[b]["content"], inbox'[b]["content"])
    BY <1>0, <1>3, <1>5, ShrunkConcat
  <2>5. \A b \in Actor : hostOf'[b] = hostOf[b]
    BY <1>2
  <2>6. transport' = transport
    BY <1>2
  <2>7. \A j \in Instance : running'[j] = running[j] /\ cached'[j] = cached[j]
    BY <1>2
  <2>8. QED BY <1>0, <1>5, <2>1, <2>2, <2>3, <2>4, <2>5, <2>6, <2>7, KnownStep
<1>11. ASSUME NEW b \in Actor, hostOf[b] \in Instance PROVE Closed(hostOf[b], b)' = Closed(hostOf[b], b)
  BY <1>2 DEF Closed
<1>12. ASSUME NEW b \in Actor, b # a PROVE OnceAt(b)'
  <2>1. CASE hostOf[b] \in Instance
    <3>1. inbox'[b]["parent"] = inbox[b]["parent"] /\ inbox'[b]["content"] = inbox[b]["content"]
      BY <1>5, <1>12
    <3>2. Dull(inbox[b]["parent"], inbox'[b]["parent"])
      BY <3>1 DEF Dull
    <3>3. RunsOn(b)' = {}
      BY <1>a, <1>2, <1>12 DEF RunsOn
    <3>4. QED BY <1>0, <1>2, <1>11, <2>1, <3>1, <3>2, <3>3, OnceQuiet
  <2>2. CASE hostOf[b] \notin Instance
    BY <1>2, <2>2 DEF OnceAt
  <2>3. QED BY <2>1, <2>2
<1>13. OnceAt(a)'
  <2>1. PICK q, w, x : q = inbox[a]["parent"] /\ w = inbox[a]["content"] /\ x = inbox'[a]["content"]
    OBVIOUS
  <2>2. PICK R, S : R = RunsOn(a) /\ S = RunsOn(a)'
    OBVIOUS
  <2>3. PICK cls \in BOOLEAN : cls = Closed(i, a)
    BY DEF Closed
  <2>4. OncePair(i, q, w, answer[i], R, Closed(i, a))
    BY <1>0, <1>b, <2>1, <2>2 DEF OnceInv, OnceAt
  <2>5. NoTwice(q)
    BY <2>4 DEF OncePair
  <2>6. \A l \in Answers(x) : l \in Answers(w) \/ <<i, l>> \in R
    <3>1. Answers(inbox[a]["content"] \o ms) = Answers(inbox[a]["content"]) \cup Answers(ms)
      BY <1>0, <1>3, KindsConcat
    <3>2. x = w \/ Answers(x) = Answers(w) \cup {k}
      BY <1>3, <1>5, <2>1, <3>1
    <3>3. <<i, k>> \in R
      BY <1>1, <1>r, <2>2
    <3>4. QED BY <3>2, <3>3
  <2>7. S \subseteq R
    BY <1>2, <2>2 DEF RunsOn
  <2>8. OncePair(i, q, x, answer[i], S, cls)
    BY <2>3, <2>4, <2>5, <2>6, <2>7, OncePairStep
  <2>9. Closed(i, a)' = cls
    <3>1. Closed(i, a)' = Closed(i, a)
      BY <1>2 DEF Closed
    <3>2. QED BY <3>1, <2>3
  <2>10. answer'[i] = answer[i] /\ hostOf'[a] = i
    BY <1>2, <1>b
  <2>11. OncePair(i, inbox'[a]["parent"], inbox'[a]["content"], answer'[i], RunsOn(a)', Closed(i, a)')
    BY <1>5, <2>1, <2>2, <2>8, <2>9, <2>10
  <2>12. QED BY <2>10, <2>11, <1>b DEF OnceAt
<1>14. QED BY <1>9, <1>10, <1>12, <1>13 DEF NoRerunInv, OnceInv

LEMMA UnheldInit == NothingHeld /\ Init => UnheldInv
BY DEF NothingHeld, Init, UnheldInv

LEMMA UnheldMessage ==
  ASSUME UnheldInv, NEW e \in End, ~disposed[e], NEW m, NEW box, OnMessage(e, m, box)
  PROVE  UNCHANGED <<buffer, registered, paused, disposed>>
<1>1. ~paused[e] /\ registered[e]
  BY DEF UnheldInv
<1>2. UNCHANGED buffer
  <2>1. CASE OnHandshake(e, m, box) \/ OnResponseAck(e, m, box)
    BY <2>1 DEF OnHandshake, OnResponseAck
  <2>2. CASE OnResponse(e, m, box)
    BY <2>2 DEF OnResponse
  <2>3. CASE OnRequest(e, m, box)
    BY <1>1, <2>3 DEF OnRequest
  <2>4. QED BY <1>1, <2>1, <2>2, <2>3 DEF OnMessage
<1>3. QED BY <1>2 DEF OnMessage

LEMMA UnheldNext ==
  ASSUME NothingHeld, TypeOK, UnheldInv, [Next]_vars
  PROVE  UnheldInv'
<1>0. /\ registered \in [End -> BOOLEAN] /\ disposed \in [End -> BOOLEAN]
  BY DEF TypeOK
<1>1. CASE UNCHANGED <<bufferVars, disposed>>
  BY <1>1 DEF UnheldInv, bufferVars
<1>2. ASSUME NEW e \in End, Dispose(e) PROVE UnheldInv'
  <2>1. /\ UNCHANGED <<paused, timer, buffer, drain>>
        /\ registered' = [registered EXCEPT ![e] = FALSE]
        /\ disposed' = [disposed EXCEPT ![e] = TRUE]
    BY <1>2 DEF Dispose
  <2>2. QED BY <1>0, <2>1 DEF UnheldInv
<1>3. ASSUME NEW e \in End, Deliver(e) PROVE UnheldInv'
  <2>1. ~disposed[e] /\ UNCHANGED <<timer, drain>>
    BY <1>3 DEF Deliver
  <2>2. UNCHANGED <<buffer, registered, paused, disposed>>
    BY <1>3, <2>1, UnheldMessage DEF Deliver
  <2>3. QED BY <2>1, <2>2 DEF UnheldInv
<1>4. ASSUME NEW e \in End
      PROVE  ~(DeliverBuffered(e) \/ Register(e) \/ Unregister(e) \/ Pause(e) \/ ResumeSoon(e) \/ ResumeTimer(e))
  BY DEF UnheldInv, NothingHeld, DeliverBuffered, Register, Unregister, Pause, ResumeSoon, ResumeTimer
<1>5. \/ UNCHANGED <<bufferVars, disposed>>
      \/ \E e \in End : Dispose(e)
      \/ \E e \in End : Deliver(e)
  <2>1. CASE UNCHANGED vars
    BY <2>1 DEF vars
  <2>2. CASE Next
    BY <1>4, <2>2 DEF Next, CreateActor, BindToActor, ResetTransport, LoseMessage, Send,
       DisposeConnector, FinishHandler
  <2>3. QED BY <2>1, <2>2
<1>6. QED BY <1>1, <1>2, <1>3, <1>5

LEMMA NoRerunInit == Init => NoRerunInv
<1> SUFFICES ASSUME Init PROVE NoRerunInv
  OBVIOUS
<1>1. /\ \A a \in Actor : hostOf[a] = Parent /\ inbox[a]["parent"] = <<>> /\ inbox[a]["content"] = <<>>
      /\ \A e \in End : running[e] = {} /\ transport[e] = NoActor
      /\ \A e \in End, id \in Id : cached[e][id] = NoCall /\ answer[e][id] = NoCall
      /\ \A e \in End, c \in Call : execs[e][c] = 0
      /\ \A i \in Instance : i \in End /\ i # Parent
      /\ Parent \in End
  BY EndKinds DEF Init
<1>2. KnownInv
  <2>1. \A i \in Instance : running[i] = {} /\ \A k \in Id : cached[i][k] = NoCall
    BY <1>1
  <2>2. \A a \in Actor : hostOf[a] \notin Instance
    BY <1>1
  <2>3. QED BY <2>1, <2>2 DEF KnownInv
<1>3. AckInv(inbox, spent)
  BY <1>1, KindsOfOne DEF AckInv
<1>4. ServedInv
  BY <1>1, KindsOfOne DEF ServedInv
<1>5. OnceInv
  BY <1>1 DEF OnceInv, OnceAt
<1>6. QED BY <1>2, <1>3, <1>4, <1>5 DEF NoRerunInv

LEMMA RerunStutter ==
  ASSUME NoRerunInv, UNCHANGED vars
  PROVE  NoRerunInv'
<1>1. /\ UNCHANGED <<created, hostOf, inbox, seen, transport, ready, connectedTo, sent, pending, answer>>
      /\ UNCHANGED <<cached, running, execs, disposed>>
  BY DEF vars, linkVars, connVars, requestVars, serverVars
<1>2. KnownInv'
  <2>1. \A i \in Instance : Strange(i)' = Strange(i)
    BY <1>1 DEF Strange
  <2>2. \A i \in Instance, a \in Actor : Deaf(i, a)' = Deaf(i, a)
    BY <1>1 DEF Deaf
  <2>3. QED BY <1>1, <2>1, <2>2 DEF NoRerunInv, KnownInv
<1>3. spent' = spent
  BY <1>1 DEF spent
<1>4. AckInv(inbox', spent')
  BY <1>1, <1>3 DEF NoRerunInv
<1>5. ServedInv'
  <2>1. \A i \in Instance, k \in Id : Safe(i, k)' = Safe(i, k)
    BY <1>1, <1>3 DEF Safe, NoCopyFor
  <2>2. QED BY <1>1, <2>1 DEF NoRerunInv, ServedInv
<1>6. OnceInv'
  BY <1>1 DEF NoRerunInv, OnceInv, OnceAt, RunsOn, Closed
<1>7. QED BY <1>2, <1>4, <1>5, <1>6 DEF NoRerunInv

LEMMA NoRerunNext ==
  ASSUME DistinctUids, PromptParent, BaseInv, BaseInv', UnheldInv, NothingHeld, NoRerunInv, [Next]_vars
  PROVE  NoRerunInv'
<1>1. ASSUME NEW e \in End, NEW a \in Actor, BindToActor(e, a) PROVE NoRerunInv'
  BY <1>1, EndKinds, RerunBindContent, RerunBindParent
<1>2. ASSUME NEW e \in End, Send(e) PROVE NoRerunInv'
  BY <1>2, EndKinds, RerunSendContent, RerunSendParent
<1>3. ASSUME NEW e \in End, Deliver(e) PROVE NoRerunInv'
  BY <1>3, EndKinds, RerunDeliverContent, RerunDeliverParent
<1>4. ASSUME NEW e \in End, NEW r \in running[e], FinishHandler(e, r) PROVE NoRerunInv'
  BY <1>4, EndKinds, RerunFinishContent, RerunFinishParent
<1>5. ASSUME NEW e \in End
      PROVE  ~(DeliverBuffered(e) \/ Register(e) \/ Unregister(e) \/ Pause(e) \/ ResumeSoon(e) \/ ResumeTimer(e))
  BY DEF UnheldInv, NothingHeld, DeliverBuffered, Register, Unregister, Pause, ResumeSoon, ResumeTimer
<1>6. CASE Next
  BY <1>1, <1>2, <1>3, <1>4, <1>5, <1>6, RerunCreate, RerunDrop, RerunReset DEF Next
<1>7. QED BY <1>6, RerunStutter

LEMMA NotRunAgain ==
  ASSUME NothingHeld, BaseInv, UnheldInv, NoRerunInv, Next
  PROVE  NoRerunStep
<1> SUFFICES ASSUME NEW e \in End, NEW c \in Call, Answered(c), execs[e][c] > 0,
                    \A f \in End \ {e} : execs[f][c] = 0,
                    execs'[e][c] # execs[e][c]
             PROVE  FALSE
  BY DEF NoRerunStep
<1>0. /\ TypeOK /\ RanInv /\ c = <<c[1], c[2]>> /\ c[2] \in Id
      /\ ServedInv /\ OnceInv
  BY BaseParts, MessageTypes DEF NoRerunInv
<1>1. PICK f \in End : Deliver(f)
  <2>1. ASSUME NEW f \in End PROVE ~DeliverBuffered(f)
    BY DEF UnheldInv, DeliverBuffered
  <2> SUFFICES ASSUME ~\E f \in End : Deliver(f) PROVE execs' = execs
    OBVIOUS
  <2>2. QED
    BY <2>1 DEF Next, CreateActor, BindToActor, ResetTransport, LoseMessage, Send, Dispose,
       DisposeConnector, Register, Unregister, Pause, ResumeSoon, ResumeTimer, FinishHandler, serverVars
<1>2. CASE f \in Instance
  <2> DEFINE a == transport[f]
             q == inbox[a]["content"]
             box == [inbox EXCEPT ![a]["content"] = Tail(@)]
  <2>1. /\ a \in Actor /\ hostOf[a] = f /\ q \in Seq(Message) /\ q # <<>> /\ Head(q) \in Message
        /\ OnMessage(f, Head(q), box) /\ Fits(Head(q), Parent, f)
    BY <1>1, <1>2, ContentTakes
  <2> HIDE DEF box
  <2>2. f = e /\ Head(q) = Request(c) /\ cached[e][c[2]] = NoCall
    BY <1>0, <1>1, <2>1, RanOnMessage
  <2>3. c[1] = Parent /\ c = <<Parent, c[2]>>
    <3>1. Request(c).type = "REQUEST" /\ Request(c).call = c
      BY DEF Request
    <3>2. c[1] = Parent
      BY <2>1, <2>2, <3>1 DEF Fits
    <3>3. QED BY <1>0, <3>2
  <2>4. PICK k \in Id : k = c[2]
    BY <1>0
  <2>5. answer[Parent][k] # NoCall
    BY <2>3, <2>4 DEF Answered
  <2>6. Safe(e, k)
    BY <1>0, <1>2, <2>2, <2>3, <2>4, <2>5 DEF ServedInv
  <2>7. c \notin Held(q)
    BY <2>1, <2>2, <2>3, <2>4, <2>6 DEF Safe, NoCopyFor
  <2>8. 1 \in 1..Len(q) /\ q[1] = Request(c)
    BY <2>1, <2>2
  <2>9. QED BY <2>7, <2>8 DEF Held
<1>3. CASE f = Parent
  <2> DEFINE a == transport[Parent]
             q == inbox[a]["parent"]
             box == [inbox EXCEPT ![a]["parent"] = Tail(@)]
  <2>1. /\ a \in Actor /\ hostOf[a] \in Instance /\ q \in Seq(Message) /\ q # <<>> /\ Head(q) \in Message
        /\ OnMessage(f, Head(q), box) /\ Fits(Head(q), hostOf[a], Parent)
    BY <1>0, <1>1, <1>3, ParentTakes
  <2> HIDE DEF box
  <2>2. f = e /\ Head(q) = Request(c)
    BY <1>0, <1>1, <2>1, RanOnMessage
  <2>3. c[1] = hostOf[a] /\ c = <<hostOf[a], c[2]>>
    <3>1. Request(c).type = "REQUEST" /\ Request(c).call = c
      BY DEF Request
    <3>2. c[1] = hostOf[a]
      BY <2>1, <2>2, <3>1 DEF Fits
    <3>3. QED BY <1>0, <3>2
  <2>4. c \in Held(q)
    <3>1. 1 \in 1..Len(q) /\ q[1] = Request(c)
      BY <2>1, <2>2
    <3>2. QED BY <3>1 DEF Held
  <2>5. answer[hostOf[a]][c[2]] = NoCall
    BY <1>0, <2>1, <2>3, <2>4 DEF OnceInv, OnceAt, OncePair
  <2>6. QED BY <2>3, <2>5 DEF Answered
<1>4. QED BY <1>2, <1>3, EndKinds

\* Once the caller has the answer of the only end that ran the handler, that end
\* does not run it again: the response stays in _bufferedResponses until the
\* caller acknowledged it, RESPONSE_ACK follows the last copy of the request, and
\* what is retransmitted on a new transport is only what is still pending
\* (_onMessage, _markAsReady).  For a channel that holds nothing back: a paused
\* end may run a buffered copy after the acknowledgement.
THEOREM NoRerunTheorem ==
  ASSUME DistinctUids, PromptParent, NothingHeld
  PROVE  Spec => NoRerunAfterAnswer
<1> DEFINE Inv == BaseInv /\ UnheldInv /\ NoRerunInv
<1>1. Init => Inv
  BY OwnInit, SoundInit, OrderInit, UnheldInit, NoRerunInit DEF BaseInv, OrderedInv
<1>2. Inv /\ [Next]_vars => Inv'
  <2> SUFFICES ASSUME Inv, [Next]_vars PROVE Inv'
    OBVIOUS
  <2>1. PeerInv /\ SeenInv /\ TypeOK /\ OwnInv /\ SoundInv /\ LinkInv /\ RanInv
    BY BaseParts DEF BaseInv
  <2>2. OwnInv'
    BY <2>1, OwnNext, PeerNext DEF OwnInv
  <2>3. SoundInv' /\ LinkInv' /\ RanInv'
    BY <2>1, <2>2, SoundNext, LinkNext, RanNext
  <2>4. BaseInv'
    BY <2>2, <2>3 DEF BaseInv
  <2>5. UnheldInv'
    BY <2>1, UnheldNext
  <2>6. QED BY <2>4, <2>5, NoRerunNext
<1>3. Inv /\ [Next]_vars => [NoRerunStep]_vars
  BY NotRunAgain
<1>4. QED BY <1>1, <1>2, <1>3, PTL DEF Spec, NoRerunAfterAnswer, NoRerunStep

=============================================================================
