---------------------- MODULE SimpleChannelInvariants -----------------------
(***************************************************************************)
(* What is always true of SimpleChannel beside its properties, and is      *)
(* needed to prove them: the inductive invariants, the operators they are  *)
(* made of, the steps that properties of steps speak of, and the           *)
(* assumptions about the constants under which the theorems hold.          *)
(***************************************************************************)
EXTENDS SimpleChannel

InboxType == [Actor -> [{"parent", "content"} -> Seq(Message)]]

-----------------------------------------------------------------------------
(* An end that believes its channel ready knows its peer *)

\* Every greeting in s carries the uid u.
Greets(s, u) ==
  \A k \in 1..Len(s) : s[k].type \in {"READY", "READY_ACK"} => s[k].uid = u

\* Greetings travel only on the pair of their sender, and actors that do not
\* exist yet carry nothing.
WireInv(box) ==
  \A a \in Actor :
    /\ Greets(box[a]["parent"], UidOf[hostOf[a]])
    /\ Greets(box[a]["content"], UidOf[Parent])
    /\ a > created => box[a]["parent"] = <<>> /\ box[a]["content"] = <<>>

\* A bound end is bound to an actor that exists; a content end, to its own.
BoundInv ==
  \A e \in End : transport[e] # NoActor =>
    /\ transport[e] <= created
    /\ e # Parent => hostOf[transport[e]] = e
PeerInv == TypeOK /\ BoundInv /\ WireInv(inbox) /\ ReadyMeansPeer

-----------------------------------------------------------------------------
(* A request is only resolved with its own response: what messages carry *)

\* The content ends live in processes of their own, and the parent's handlers
\* are there for good and settle within the task that started them.
DistinctUids == \A e, f \in End : UidOf[e] = UidOf[f] => e = f
PromptParent == Parent \notin Async /\ Parent \notin MayUnregister

\* Message m belongs on the way from one end to another.
Fits(m, from, to) ==
  /\ m.type = "REQUEST" => m.call[1] = from
  /\ m.type = "RESPONSE" => m.of = <<to, m.id>>
Carried(q, from, to) == \A k \in 1..Len(q) : Fits(q[k], from, to)

WireOwn(box) ==
  \A a \in Actor :
    /\ Carried(box[a]["parent"], hostOf[a], Parent)
    /\ Carried(box[a]["content"], Parent, hostOf[a])

-----------------------------------------------------------------------------
(* ... and in which order they are on a pair *)

Greeting == {"READY", "READY_ACK"}
HasGreeting(q) == \E k \in 1..Len(q) : q[k].type \in Greeting
NoRequest(q) == \A k \in 1..Len(q) : q[k].type # "REQUEST"
NoAck(q) == \A k \in 1..Len(q) : q[k].type # "READY_ACK"

Prefaced(q) ==
  \A k \in 1..Len(q) : q[k].type = "REQUEST" =>
    \E j \in 1..Len(q) : j < k /\ q[j].type \in Greeting

\* The parent has not bound a yet: nothing but greetings is under way.
Fresh(box, isReady) ==
  \A a \in Actor : seen[Parent] < a =>
    /\ box[a]["content"] = <<>>
    /\ NoRequest(box[a]["parent"])
    /\ \A i \in Instance : transport[i] = a => ~isReady[i]

\* The parent is bound to a pair and knows the end behind it by uid u: not yet,
\* and then a greeting comes before its requests.
Trusted(box, isReady, u) ==
  LET a == transport[Parent] IN
  a # NoActor /\ u # UidOf[hostOf[a]] =>
    /\ Prefaced(box[a]["parent"])
    /\ HasGreeting(box[a]["parent"]) \/ \A i \in Instance : transport[i] = a => ~isReady[i]
    /\ NoAck(box[a]["content"])

Order(box, isReady, u) ==
  disposed[Parent] \/ (Fresh(box, isReady) /\ Trusted(box, isReady, u))

-----------------------------------------------------------------------------
(* ... and what the ends keep *)

\* An end sends through the newest actor it was bound to.
SeenInv == \A e \in End : transport[e] \in {NoActor, seen[e]}

\* A content end keeps what the parent asked, and hears what itself asked.
ContentOwn ==
  \A i \in Instance :
    /\ \A id \in Id : cached[i][id] \in {NoCall, <<Parent, id>>}
    /\ \A r \in running[i] : r.call[1] = Parent
    /\ Carried(buffer[i], Parent, i)
    /\ Carried(drain[i], Parent, i)

\* The parent holds no message back, keeps the responses for the end it knows,
\* and runs a handler for the end it is bound to.
ParentOwn ==
  /\ buffer[Parent] = <<>> /\ drain[Parent] = <<>>
  /\ ~paused[Parent] /\ ~timer[Parent]
  /\ disposed[Parent] \/ registered[Parent]
  /\ \A id \in Id : cached[Parent][id] # NoCall =>
       /\ cached[Parent][id][2] = id
       /\ UidOf[cached[Parent][id][1]] = connectedTo[Parent]
  /\ \A r \in running[Parent] :
       /\ transport[Parent] # NoActor
       /\ r.call[1] = hostOf[transport[Parent]]
       /\ connectedTo[Parent] = UidOf[r.call[1]]
AnswerOwn == \A e \in End, id \in Id : answer[e][id] \in {NoCall, <<e, id>>}
KeptOwn == ContentOwn /\ ParentOwn /\ AnswerOwn

PairOwn == /\ SeenInv /\ WireOwn(inbox)
           /\ Order(inbox, ready, connectedTo[Parent])
OwnInv == PeerInv /\ PairOwn /\ KeptOwn

-----------------------------------------------------------------------------
(* The channel implements Rpc *)

issued == {c \in Call : c[2] <= sent[c[1]]}
done   == (callsRun \cup NoMethod) \cap issued

\* Requests are of calls in I, responses of calls in D.
Sound(m, I, D) ==
  /\ m.type = "REQUEST" => m.call \in I
  /\ m.type = "RESPONSE" => m.of \in D
AllSound(q, I, D) == \A k \in 1..Len(q) : Sound(q[k], I, D)

WireSound(box, I, D) ==
  \A a \in Actor : AllSound(box[a]["parent"], I, D) /\ AllSound(box[a]["content"], I, D)

\* What an end keeps is of calls that were made, its responses of calls that
\* were run or name no method.
KeptSound ==
  \A e \in End :
    /\ AllSound(buffer[e], issued, done) /\ AllSound(drain[e], issued, done)
    /\ \A id \in Id : cached[e][id] # NoCall => cached[e][id] \in done
    /\ \A r \in running[e] : r.call \in done

\* A pending call was made and has no answer; an answered one was run.
AskedInv ==
  \A e \in End, id \in Id :
    /\ id \in pending[e] => id <= sent[e] /\ answer[e][id] = NoCall
    /\ answer[e][id] # NoCall => id <= sent[e] /\ <<e, id>> \in done
SoundInv == WireSound(inbox, issued, done) /\ KeptSound /\ AskedInv

\* What the calls have come to only grows.
Forward == issued \subseteq issued' /\ done \subseteq done'

\* The step as Rpc sees it.
RpcStep == [Calls!Next]_<<callStatus, callsRun>>

-----------------------------------------------------------------------------
(* Requests are run in the order in which they were made: queues *)

\* The requests in q, and whether, when a request of s is in q, the requests in
\* S that s made before it are ahead of it there, or are in G.
Held(q) == {c \in Call : \E p \in 1..Len(q) : q[p] = Request(c)}

Ahead(q, s, S, G) ==
  \A p \in 1..Len(q) : q[p].type = "REQUEST" =>
    \A j \in S : j < q[p].call[2] =>
      <<s, j>> \in G \/ \E x \in 1..Len(q) : x < p /\ q[x] = Request(<<s, j>>)

\* s lists the ids of S in ascending order: what _markAsReady sends again.
AllOf(S, s, n) ==
  /\ DOMAIN s = 1..n
  /\ \A k \in 1..n : s[k] \in S
  /\ \A k, l \in 1..n : k < l => s[k] < s[l]
  /\ \A j \in S : \E k \in 1..n : s[k] = j

-----------------------------------------------------------------------------
(* ... what an end that left a pair is sent *)

\* Nothing is under way to an end that left the pair or was disposed, nor to a
\* content end before the parent has bound its pair.
Silent(box) ==
  \A a \in Actor :
    /\ Deaf(Parent, a) => box[a]["parent"] = <<>>
    /\ \A i \in Instance : hostOf[a] = i /\ Deaf(i, a) => box[a]["content"] = <<>>
    /\ seen[Parent] < a => box[a]["content"] = <<>>

\* Pairs that exist are hosted by content ends.
Hosted == \A a \in Actor : a <= created => hostOf[a] \in Instance
LinkInv == Hosted /\ Silent(inbox)

\* What is kept or runs was started, and no unknown method ever was.
RanInv ==
  \A e \in End :
    /\ \A id \in Id : cached[e][id] # NoCall => execs[e][cached[e][id]] > 0
    /\ \A r \in running[e] : execs[e][r.call] > 0
    /\ \A c \in Call : c \in NoMethod => execs[e][c] = 0

-----------------------------------------------------------------------------
(* ... and on every queue at once *)

\* What an end has run or answered as unknown, what it also holds back, and
\* what has reached it in one of these ways or is about to be delivered again.
Ran(e) == {c \in Call : execs[e][c] > 0 \/ c \in NoMethod}
Got(e) == Ran(e) \cup Held(buffer[e])
reached == [e \in End |-> Got(e) \cup Held(drain[e])]

\* End s may send through pair a.
OnPair(s, a) == IF s = Parent THEN hostOf[a] \in Instance ELSE hostOf[a] = s

\* On no queue is a request ahead of an earlier one of its sender that is still
\* pending and has not reached the receiver.
QueueOrder(box, S, R) ==
  \A s \in End, a \in Actor : OnPair(s, a) =>
    Ahead(box[a][Other(s)], s, S[s], R[Peer(s, a)])

\* Nor among the messages that a content end holds back.
HeldOrder ==
  \A i \in Instance :
    /\ Ahead(drain[i], Parent, pending[Parent], Got(i))
    /\ Ahead(buffer[i], Parent, pending[Parent], Ran(i))

\* An end that is ready has sent all that is pending to the end that listens.
Posted(box, isReady, S, R) ==
  \A s \in End :
    LET a == transport[s] IN
    isReady[s] /\ ~Deaf(Peer(s, a), a) =>
      \A j \in S[s] : <<s, j>> \in R[Peer(s, a)] \cup Held(box[a][Other(s)])
Ordered == QueueOrder(inbox, pending, reached) /\ HeldOrder /\ Posted(inbox, ready, pending, reached)
OrderedInv == LinkInv /\ RanInv /\ Ordered

\* The step of InOrder.
RunsInOrder ==
  \A e \in End, c \in Call :
    execs[e][c] = 0 /\ execs'[e][c] = 1 =>
      \A d \in Call : d[1] = c[1] /\ d[2] < c[2] /\ d[2] \in pending[d[1]]
                        => \/ execs[e][d] > 0
                           \/ d \in NoMethod
                           \/ \E k \in DOMAIN buffer[e] : buffer[e][k] = Request(d)

-----------------------------------------------------------------------------
(* What is answered is not run again: queues *)

\* The ids acknowledged and answered in q; whether no request of the parent
\* follows its own acknowledgement; whether no request is in q twice.
Acks(q) == {k \in Id : \E p \in 1..Len(q) : q[p] = ResponseAck(k)}
Answers(q) == {k \in Id : \E p \in 1..Len(q) : q[p].type = "RESPONSE" /\ q[p].id = k}

AfterAck(q) ==
  \A k \in Id : \A p, x \in 1..Len(q) :
    p < x /\ q[p] = ResponseAck(k) => q[x] # Request(<<Parent, k>>)

NoTwice(q) ==
  \A c \in Call : \A p, x \in 1..Len(q) : p < x /\ q[p] = Request(c) => q[x] # Request(c)

-----------------------------------------------------------------------------
(* What is answered is not run again: the invariant *)

\* No dialog pauses an end, and its handlers are there for good.
NothingHeld == MayPause = {} /\ MayUnregister = {}

UnheldInv ==
  \A e \in End : /\ buffer[e] = <<>> /\ drain[e] = <<>> /\ ~paused[e] /\ ~timer[e]
                 /\ registered[e] \/ disposed[e]

\* The requests of the parent that are settled, and will not be sent again.
spent == {k \in Id : k \notin pending[Parent] /\ k <= sent[Parent]}

\* A content end that does not know the parent yet runs and keeps nothing, and
\* will hear a greeting before a request.
Strange(i) == connectedTo[i] # UidOf[Parent]

KnownInv ==
  \A i \in Instance :
    /\ Strange(i) => running[i] = {} /\ \A k \in Id : cached[i][k] = NoCall
    /\ \A r \in running[i] : r.uid = UidOf[Parent]
    /\ \A a \in Actor : hostOf[a] = i /\ Strange(i) =>
         /\ Prefaced(inbox[a]["content"])
         /\ HasGreeting(inbox[a]["content"]) \/ transport[Parent] # a \/ Deaf(i, a)

\* What the parent acknowledges is settled, and no copy of the request follows.
AckInv(box, Z) ==
  \A a \in Actor :
    /\ AfterAck(box[a]["content"]) /\ Acks(box[a]["content"]) \subseteq Z
    /\ \A b \in Actor : \A k \in Acks(box[a]["content"]) :
         a < b => <<Parent, k>> \notin Held(box[b]["content"])

\* Content end i keeps the response to request k of the parent, or needs it no
\* more, as no copy of the request can still arrive.
NoCopyFor(box, i, k) == \A a \in Actor : hostOf[a] = i => <<Parent, k>> \notin Held(box[a]["content"])
Safe(i, k) == cached[i][k] # NoCall \/ (k \in spent /\ NoCopyFor(inbox, i, k))

ServedInv ==
  \A i \in Instance, k \in Id : <<Parent, k>> \in Call =>
    /\ \A a \in Actor : hostOf[a] = i /\ k \in Answers(inbox[a]["parent"]) =>
         \/ <<Parent, k>> \in NoMethod
         \/ execs[i][<<Parent, k>>] > 0 /\ Safe(i, k)
    /\ /\ answer[Parent][k] # NoCall /\ execs[i][<<Parent, k>>] > 0
       /\ \A f \in End \ {i} : execs[f][<<Parent, k>>] = 0
       => Safe(i, k)

\* A content end sends a request once on a pair: q and w are the queues towards
\* the parent and back, R the calls that the parent runs for the pair.
OncePair(i, q, w, ans, R, closed) ==
  /\ NoTwice(q)
  /\ \A k \in Id : <<i, k>> \in Held(q) => k \notin Answers(w) /\ ans[k] = NoCall /\ <<i, k>> \notin R
  /\ closed => Held(q) = {} /\ Answers(w) = {} /\ R = {}
RunsOn(a) == IF transport[Parent] = a THEN {r.call : r \in running[Parent]} ELSE {}
Closed(i, a) == seen[i] < a \/ (transport[i] = a /\ ~ready[i])

OnceAt(a) ==
  hostOf[a] \in Instance =>
    OncePair(hostOf[a], inbox[a]["parent"], inbox[a]["content"], answer[hostOf[a]],
             RunsOn(a), Closed(hostOf[a], a))
OnceInv == \A a \in Actor : OnceAt(a)

\* How a queue shrinks, and what a step does to the queues towards content ends.
Shrunk(q, r) == r = q \/ r = <<>> \/ (q # <<>> /\ r = Tail(q))

ContentLink ==
  \A a \in Actor :
    \/ Shrunk(inbox[a]["content"], inbox'[a]["content"])
    \/ \E ms \in Seq(Message) :
         /\ inbox'[a]["content"] = inbox[a]["content"] \o ms
         /\ transport'[Parent] = a /\ ~Deaf(hostOf[a], a)
         /\ transport[Parent] = a \/ ms = <<Ready(Parent)>>
         /\ AfterAck(ms) /\ Acks(ms) \subseteq spent'
         /\ \A k \in spent : <<Parent, k>> \notin Held(ms)
         /\ Acks(ms) = {} \/ \A b \in Actor : a < b => inbox'[b]["content"] = <<>>

\* What holds anyway where uids differ and the parent's handlers settle at once.
BaseInv == OwnInv /\ SoundInv /\ LinkInv /\ RanInv

\* How a queue changes that gets no request.
Dull(q, r) == Held(r) \subseteq Held(q) /\ (NoTwice(q) => NoTwice(r))

\* The conditions of a step that concern what content ends serve, in one place.
ServeLink ==
  /\ ContentLink /\ spent \subseteq spent'
  /\ \A a \in Actor : \/ hostOf'[a] = hostOf[a]
                      \/ /\ inbox'[a]["content"] = <<>> /\ inbox'[a]["parent"] = <<>>
                         /\ transport'[Parent] # a
  /\ \A i \in Instance, k \in Id :
       \/ cached'[i][k] # NoCall \/ cached[i][k] = NoCall
       \/ k \in spent /\ NoCopyFor(inbox', i, k)
  /\ \A a \in Actor, i \in Instance, k \in Id :
       hostOf'[a] = i /\ k \in Answers(inbox'[a]["parent"]) =>
         \/ hostOf[a] = i /\ k \in Answers(inbox[a]["parent"])
         \/ <<Parent, k>> \in NoMethod
         \/ execs'[i][<<Parent, k>>] > 0 /\ cached'[i][k] # NoCall
  /\ \A k \in Id : answer'[Parent][k] # NoCall =>
       \/ answer[Parent][k] # NoCall
       \/ \E a \in Actor : hostOf[a] \in Instance /\ k \in Answers(inbox[a]["parent"])
NoRerunInv == KnownInv /\ AckInv(inbox, spent) /\ ServedInv /\ OnceInv

\* What a content end makes of the first message of its pair, and sends for it.
Hears(i, ms) ==
  /\ \A k \in Id : \/ cached'[i][k] # NoCall \/ cached[i][k] = NoCall
                   \/ k \in spent /\ NoCopyFor(inbox', i, k)
  /\ \A k \in Answers(ms) : \/ <<Parent, k>> \in NoMethod
                            \/ execs'[i][<<Parent, k>>] > 0 /\ cached'[i][k] # NoCall
  /\ Strange(i)' => /\ Strange(i) /\ running'[i] \subseteq running[i]
                    /\ \A k \in Id : cached'[i][k] = cached[i][k] \/ cached'[i][k] = NoCall
                    /\ Head(inbox[transport[i]]["content"]).type \notin Greeting
  /\ \A r \in running'[i] : r \in running[i] \/ r.uid = UidOf[Parent]
  /\ \A k \in Id : answer'[i][k] = answer[i][k] \/ k \in Answers(inbox[transport[i]]["content"])
  /\ \/ ready'[i] = ready[i] /\ NoRequest(ms)
     \/ /\ ~ready[i] /\ ready'[i] /\ answer' = answer /\ NoTwice(ms)
        /\ Held(ms) \subseteq {<<i, j>> : j \in pending[i]}

\* What the parent makes of the first message of its pair, and sends for it.
ParentHears(ms) ==
  LET q == inbox[transport[Parent]]["parent"]
      h == hostOf[transport[Parent]]
  IN /\ AfterAck(ms) /\ Acks(ms) \subseteq spent'
     /\ \A k \in spent : <<Parent, k>> \notin Held(ms)
     /\ \A k \in Answers(ms) : <<h, k>> \in Held(q) /\ <<h, k>> \notin Held(Tail(q))
     /\ \A r \in running'[Parent] :
          r \in running[Parent] \/ (r.call \in Held(q) /\ r.call \notin Held(Tail(q)))
     /\ \A k \in Id : answer'[Parent][k] = answer[Parent][k] \/ k \in Answers(q)
     /\ pending'[Parent] \subseteq pending[Parent]

NoRerunStep ==
  \A e \in End, c \in Call :
    /\ Answered(c) /\ execs[e][c] > 0
    /\ \A f \in End \ {e} : execs[f][c] = 0
    => execs'[e][c] = execs[e][c]

=============================================================================
