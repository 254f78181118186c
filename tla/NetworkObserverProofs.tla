------------------------ MODULE NetworkObserverProofs ------------------------
(***************************************************************************)
(* Proofs about NetworkObserver: the life of a request as the client sees  *)
(* it, what an interception serves, and the accounting of stored bodies.   *)
(***************************************************************************)
EXTENDS NetworkObserver, Induction, SequenceTheorems

-----------------------------------------------------------------------------
(* Channels and requests as pairs.                                         *)

Place(x) == x[2]

LEMMA ChannelPairs ==
  /\ None \notin Channel
  /\ \A c \in Channel : LoadOf(c) \in Load /\ Place(c) \in Nat
  /\ \A c \in Channel : LoadOf(NextChannel(c)) = LoadOf(c) /\ Place(NextChannel(c)) = Place(c) + 1
  /\ \A c, d \in Channel : LoadOf(c) = LoadOf(d) /\ Place(c) = Place(d) => c = d
  /\ \A l \in Load : <<l, 0>> \in Channel /\ LoadOf(<<l, 0>>) = l /\ Place(<<l, 0>>) = 0
<1>1. \A c \in Channel : \E l \in Load : \E n \in 0..Hops[l] : c = <<l, n>>
  BY DEF Channel
<1>2. \A l \in Load : Hops[l] \in Nat
  BY NetworkAssumption
<1>3. \A l \in Load : <<l, 0>> \in Channel
  <2> TAKE l \in Load
  <2>1. <<l, 0>> \in {l} \X (0..Hops[l])
    BY <1>2
  <2>2. QED BY <2>1 DEF Channel
<1>4. QED BY <1>1, <1>2, <1>3, NoneAssumption DEF LoadOf, Place, NextChannel

LEMMA RequestPairs ==
  /\ None \notin Request
  /\ \A r \in Request : LoadOf(r) \in Load /\ Place(r) \in Nat
  /\ \A r \in Request : LoadOf(Successor(r)) = LoadOf(r) /\ Place(Successor(r)) = Place(r) + 1
  /\ \A r \in Request : IsRedirected(r) <=> Place(r) > 0
  /\ \A q, r \in Request : LoadOf(q) = LoadOf(r) /\ Place(q) = Place(r) => q = r
  /\ \A l \in Load : <<l, 0>> \in Request /\ LoadOf(<<l, 0>>) = l /\ Place(<<l, 0>>) = 0
<1>1. \A r \in Request : \E l \in Load : \E n \in 0..MaxRedirect : r = <<l, n>>
  BY DEF Request
<1>2. MaxRedirect \in Nat
  BY NetworkAssumption
<1>3. QED BY <1>1, <1>2, NoneAssumption DEF LoadOf, Place, Successor, IsRedirected, Request

\* A step to a channel that follows another.
LEMMA NextPairs ==
  /\ \A c \in Channel : NextChannel(c) # c
  /\ \A c, d \in Channel : NextChannel(c) = NextChannel(d) => c = d
  /\ \A r \in Request : Successor(r) # r
  /\ \A q, r \in Request : Successor(q) = Successor(r) => q = r
BY ChannelPairs, RequestPairs

-----------------------------------------------------------------------------
(* The inductive invariant: channels, the maps, and who is used.           *)

Active(c) == chan[c] \notin {"none", "done"}
Used(r) == request[r].httpChannel # None

Announcing == {"announced", "diverting", "intercepted", "worker", "paused", "resetting",
               "sending", "answered", "redirecting", "synthesized", "receiving"}
ChanState == Announcing \cup {"none", "opening", "cancelled", "failing", "done"}
Fields == [httpChannel : Channel \cup {None}, sentOnRequest : BOOLEAN,
           sentOnResponse : BOOLEAN, expecting : {"nothing", "plain", "headers"},
           headers : BOOLEAN, yields : BOOLEAN, body : Nat]

TypeInv ==
  /\ chan \in [Channel -> ChanState]
  /\ owner \in [Channel -> Request \cup {None}]
  /\ channelToRequest \in [Channel -> Request \cup {None}]
  /\ expectedRedirect \in [Channel -> Request \cup {None}]
  /\ request \in [Request -> Fields]
  /\ \A c \in Channel : owner[c] # None => LoadOf(owner[c]) = LoadOf(c)
  /\ \A c \in Channel : expectedRedirect[c] # None => LoadOf(expectedRedirect[c]) = LoadOf(c)
  /\ \A r \in Request : Used(r) => LoadOf(request[r].httpChannel) = LoadOf(r)

\* The channels of a load come one after the other.
LineInv ==
  \A c, d \in Channel :
    LoadOf(c) = LoadOf(d) /\ Place(c) < Place(d) /\ chan[d] # "none" => chan[c] = "done"

\* _channelToRequest has every channel that was announced until it ends, and
\* agrees with the request's own field and with the channel's listener.
Agrees(c) ==
  channelToRequest[c] # None =>
    owner[c] = channelToRequest[c] /\ request[channelToRequest[c]].httpChannel = c
Mapped(c) ==
  /\ chan[c] \in Announcing => channelToRequest[c] # None
  /\ chan[c] = "none" => channelToRequest[c] = None
  /\ chan[c] = "none" /\ Place(c) = 0 => owner[c] = None /\ expectedRedirect[c] = None
Listens(c) == Active(c) /\ Calls(c) => channelToRequest[c] = owner[c]

MapInv == \A c \in Channel : Agrees(c) /\ Mapped(c) /\ Listens(c)

\* What _expectedRedirect holds: for a channel that is about to be announced,
\* the request that it continues, which still has its channel in the map.
Redirecting(c) ==
  chan[c] = "redirecting" =>
    /\ NextChannel(c) \in Channel /\ Successor(owner[c]) \in Request
    /\ expectedRedirect[NextChannel(c)] = owner[c]
    /\ owner[NextChannel(c)] = owner[c]
Continues(c, r) ==
  /\ owner[c] = r /\ Successor(r) \in Request
  /\ Used(r) /\ channelToRequest[request[r].httpChannel] = r
  /\ channelToRequest[c] # None => request[r].httpChannel = c
Continuing(c) ==
  chan[c] = "opening" =>
    \A r \in Request : expectedRedirect[c] = r => Continues(c, r)
Resuming(c) ==
  chan[c] = "opening" /\ expectedRedirect[c] = None =>
    IF channelToRequest[c] = None THEN Place(c) = 0 ELSE c \in plain
Expected(c) ==
  /\ chan[c] \in Announcing => expectedRedirect[c] = None
  /\ NextChannel(c) \in Channel /\ expectedRedirect[NextChannel(c)] # None =>
       chan[c] \in {"redirecting", "cancelled", "failing", "done"}

RedirectInv ==
  \A c \in Channel : Redirecting(c) /\ Continuing(c) /\ Resuming(c) /\ Expected(c)

\* The requests of a load are used one after the other, and the last one that
\* is used is the one that has its channel in the map.
UsedInOrder == \A r \in Request : Successor(r) \in Request /\ Used(Successor(r)) => Used(r)
IsLatest(r) == Successor(r) \in Request => ~Used(Successor(r))
LatestMapped == \A c \in Channel : \A r \in Request : channelToRequest[c] = r => IsLatest(r)
Fresh(c) ==
  Place(c) = 0 /\ chan[c] \in {"none", "opening"} /\ channelToRequest[c] = None =>
    \A r \in Request : LoadOf(r) = LoadOf(c) => ~Used(r)

UseInv == UsedInOrder /\ LatestMapped /\ \A c \in Channel : Fresh(c)

StructInv == TypeInv /\ LineInv /\ MapInv /\ RedirectInv /\ UseInv

LEMMA StructInit == ASSUME Init PROVE StructInv
<1>1. /\ \A c \in Channel : chan[c] = "none" /\ owner[c] = None
                            /\ channelToRequest[c] = None /\ expectedRedirect[c] = None
      /\ \A r \in Request : request[r] = Unused /\ ~Used(r)
  BY DEF Init, Used, Unused
<1>2. TypeInv
  <2>1. Unused \in Fields
    BY DEF Unused, Fields
  <2>2. QED BY <1>1, <2>1 DEF Init, TypeInv, ChanState
<1>3. LineInv /\ MapInv
  BY <1>1 DEF LineInv, MapInv, Agrees, Mapped, Listens, Announcing, Active
<1>4. RedirectInv /\ UseInv
  BY <1>1, RequestPairs DEF RedirectInv, Redirecting, Continuing, Resuming, Expected, Announcing,
                            UseInv, UsedInOrder, LatestMapped, Fresh
<1>5. QED BY <1>2, <1>3, <1>4 DEF StructInv

\* Only one channel of a load is active.
LEMMA OneActive ==
  ASSUME StructInv, NEW c \in Channel, Active(c), NEW d \in Channel, d # c, LoadOf(d) = LoadOf(c)
  PROVE  /\ \/ Place(d) < Place(c) /\ chan[d] = "done"
            \/ Place(d) > Place(c) /\ chan[d] = "none"
         /\ ~Active(d)
BY ChannelPairs DEF StructInv, LineInv, Active

-----------------------------------------------------------------------------
(* Steps that leave the maps alone.                                        *)

\* Active channels may change their state.
Moves ==
  \A c \in Channel : chan'[c] # chan[c] =>
    /\ Active(c) /\ chan'[c] \in ChanState \ {"none", "opening", "redirecting", "done"}
    /\ chan'[c] \in Announcing /\ chan[c] \notin Announcing =>
         channelToRequest[c] # None /\ expectedRedirect[c] = None
    /\ chan[c] \in {"redirecting", "cancelled", "failing"} => chan'[c] \in {"cancelled", "failing"}

KeepsMaps ==
  /\ UNCHANGED <<owner, channelToRequest, expectedRedirect, plain>>
  /\ \A r \in Request : request'[r].httpChannel = request[r].httpChannel

LEMMA MovesStruct ==
  ASSUME StructInv, Moves, KeepsMaps,
         chan' \in [Channel -> ChanState], request' \in [Request -> Fields]
  PROVE  StructInv'
<1> USE DEF StructInv, KeepsMaps
<1>1. TypeInv'
  BY DEF TypeInv, Used
<1>2. \A c \in Channel : /\ chan'[c] = "none" <=> chan[c] = "none"
                         /\ chan[c] = "done" <=> chan'[c] = "done"
                         /\ Active(c)' <=> Active(c)
  BY DEF Moves, Active
<1>3. LineInv'
  BY <1>2 DEF LineInv
<1>4. \A r \in Request : Used(r)' <=> Used(r)
  BY DEF Used
<1>5. MapInv'
  <2> SUFFICES ASSUME NEW c \in Channel PROVE Agrees(c)' /\ Mapped(c)' /\ Listens(c)'
    BY DEF MapInv
  <2> USE DEF MapInv
  <2>1. Agrees(c)'
    BY DEF Agrees, TypeInv
  <2>2. chan'[c] \in Announcing => chan[c] \in Announcing \/ channelToRequest[c] # None
    BY DEF Moves
  <2>3. Mapped(c)'
    BY <1>2, <2>2 DEF Mapped
  <2>4. Listens(c)'
    BY <1>2 DEF Listens, Calls, TypeInv
  <2>5. QED BY <2>1, <2>3, <2>4
<1>6. RedirectInv'
  <2> SUFFICES ASSUME NEW c \in Channel
               PROVE  Redirecting(c)' /\ Continuing(c)' /\ Resuming(c)' /\ Expected(c)'
    BY DEF RedirectInv
  <2> USE DEF RedirectInv
  <2>1. /\ chan'[c] \in Announcing => chan[c] \in Announcing \/ expectedRedirect[c] = None
        /\ chan'[c] \in {"redirecting", "opening"} => chan'[c] = chan[c]
        /\ chan[c] \in {"redirecting", "cancelled", "failing"} /\ chan'[c] # chan[c]
             => chan'[c] \in {"cancelled", "failing"}
    BY DEF Moves
  <2>2. Redirecting(c)' /\ Resuming(c)'
    BY <2>1 DEF Redirecting, Resuming
  <2>3. Continuing(c)'
    BY <2>1, <1>4 DEF Continuing, Continues
  <2>4. Expected(c)'
    BY <2>1, <1>2 DEF Expected
  <2>5. QED BY <2>2, <2>3, <2>4
<1>7. UseInv'
  <2>1. \A c \in Channel : chan'[c] \in {"none", "opening"} => chan'[c] = chan[c]
    BY DEF Moves
  <2>2. QED BY <1>4, <2>1 DEF UseInv, UsedInOrder, LatestMapped, IsLatest, Fresh
<1>8. QED BY <1>1, <1>3, <1>5, <1>6, <1>7

-----------------------------------------------------------------------------
(* Steps that change them.                                                 *)

\* What a request is given that is not its channel.
Flags ==
  /\ request' \in [Request -> Fields]
  /\ \A r \in Request : request'[r].httpChannel = request[r].httpChannel

LEMMA OpenStruct ==
  ASSUME StructInv, NEW l \in Load, Open(l)
  PROVE  StructInv'
<1> USE DEF StructInv
<1> DEFINE c == <<l, 0>>
<1>1. c \in Channel /\ LoadOf(c) = l /\ Place(c) = 0
  BY ChannelPairs
<1> HIDE DEF c
<1>2. /\ chan[c] = "none" /\ chan' = [chan EXCEPT ![c] = "opening"]
      /\ UNCHANGED <<plain, owner, channelToRequest, expectedRedirect, request>>
  BY DEF Open, Became, mapVars, c
<1>3. /\ channelToRequest[c] = None /\ owner[c] = None /\ expectedRedirect[c] = None
      /\ NextChannel(c) \in Channel => expectedRedirect[NextChannel(c)] = None
      /\ \A d \in Channel : NextChannel(d) # c
  BY <1>1, <1>2, ChannelPairs DEF MapInv, Mapped, RedirectInv, Expected
<1>4. \A d \in Channel : d # c => chan'[d] = chan[d]
  BY <1>2 DEF TypeInv
<1>5. chan'[c] = "opening" /\ None \notin Request
  BY <1>1, <1>2, RequestPairs DEF TypeInv
<1>6. TypeInv'
  BY <1>1, <1>2 DEF TypeInv, ChanState, Used
<1>7. LineInv'
  BY <1>1, <1>2, <1>4, <1>5, ChannelPairs DEF LineInv
<1>8. MapInv'
  BY <1>2, <1>3, <1>4, <1>5 DEF MapInv, Agrees, Mapped, Listens, Announcing, Active, Calls
<1>9. RedirectInv'
  BY <1>1, <1>2, <1>3, <1>4, <1>5
  DEF RedirectInv, Redirecting, Continuing, Continues, Resuming, Expected, Announcing, Used
<1>10. UseInv'
  BY <1>2, <1>3, <1>4, <1>5 DEF UseInv, UsedInOrder, LatestMapped, IsLatest, Fresh, Used
<1>11. QED BY <1>6, <1>7, <1>8, <1>9, <1>10

LEMMA NewRequestStruct ==
  ASSUME StructInv, NEW c \in Channel, chan[c] = "opening", NewRequest(c), Announced(c),
         UNCHANGED plain
  PROVE  StructInv'
<1> USE DEF StructInv
<1> DEFINE r == <<LoadOf(c), 0>>
<1>1. r \in Request /\ LoadOf(r) = LoadOf(c) /\ Place(r) = 0
  BY ChannelPairs, RequestPairs
<1> HIDE DEF r
<1>2. /\ expectedRedirect[c] = None /\ channelToRequest[c] = None
      /\ request' = [request EXCEPT ![r] = Constructed(c, FALSE)]
      /\ channelToRequest' = [channelToRequest EXCEPT ![c] = r]
      /\ owner' = [owner EXCEPT ![c] = r]
      /\ expectedRedirect' = expectedRedirect
  BY DEF NewRequest, r
<1>3. chan' = [chan EXCEPT ![c] = IF c \in plain THEN "sending" ELSE "announced"]
  BY DEF Announced, Became
<1>4. Constructed(c, FALSE) \in Fields /\ Constructed(c, FALSE).httpChannel = c
  BY DEF Constructed, Unused, Fields
<1>5. /\ Place(c) = 0
      /\ \A q \in Request : LoadOf(q) = LoadOf(c) => ~Used(q)
      /\ \A d \in Channel : NextChannel(d) # c
      /\ \A q \in Request : Successor(q) # r
  BY <1>1, <1>2, ChannelPairs, RequestPairs DEF RedirectInv, Resuming, UseInv, Fresh
<1>6. /\ \A d \in Channel : d # c => /\ chan'[d] = chan[d] /\ owner'[d] = owner[d]
                                     /\ channelToRequest'[d] = channelToRequest[d]
      /\ \A q \in Request : q # r => request'[q] = request[q]
  BY <1>2, <1>3 DEF TypeInv
<1>7. /\ chan'[c] \in {"sending", "announced"} /\ owner'[c] = r /\ channelToRequest'[c] = r
      /\ request'[r].httpChannel = c
  BY <1>1, <1>2, <1>3, <1>4 DEF TypeInv
<1>8. c # None /\ r # None /\ ~Used(r) /\ None \notin Request /\ None \notin Channel
  BY <1>1, <1>5, ChannelPairs, RequestPairs
<1>9. \A q \in Request : Used(q)' <=> (Used(q) \/ q = r)
  BY <1>1, <1>6, <1>7, <1>8 DEF Used
<1>10. TypeInv'
  <2>1. /\ chan' \in [Channel -> ChanState] /\ owner' \in [Channel -> Request \cup {None}]
        /\ channelToRequest' \in [Channel -> Request \cup {None}]
        /\ request' \in [Request -> Fields]
    BY <1>1, <1>2, <1>3, <1>4 DEF TypeInv, ChanState, Announcing
  <2>2. QED BY <2>1, <1>1, <1>2, <1>6, <1>7 DEF TypeInv, Used
<1>11. LineInv'
  BY <1>6, <1>7 DEF LineInv
<1>12. \A d \in Channel : channelToRequest[d] # None =>
         channelToRequest[d] \in Request /\ channelToRequest[d] # r
  BY <1>8, ChannelPairs DEF TypeInv, MapInv, Agrees, Used
<1>13. MapInv'
  <2> SUFFICES ASSUME NEW d \in Channel PROVE Agrees(d)' /\ Mapped(d)' /\ Listens(d)'
    BY DEF MapInv
  <2> USE DEF MapInv
  <2>1. Agrees(d)'
    BY <1>6, <1>7, <1>12 DEF Agrees
  <2>2. Mapped(d)'
    BY <1>2, <1>6, <1>7, <1>8 DEF Mapped
  <2>3. Listens(d)'
    <3>1. CASE d = c
      BY <3>1, <1>7 DEF Listens
    <3>2. CASE d # c
      BY <3>2, <1>6, <1>7 DEF Listens, Active, Calls, TypeInv
    <3>3. QED BY <3>1, <3>2
  <2>4. QED BY <2>1, <2>2, <2>3
<1>14. RedirectInv'
  <2> SUFFICES ASSUME NEW d \in Channel
               PROVE  Redirecting(d)' /\ Continuing(d)' /\ Resuming(d)' /\ Expected(d)'
    BY DEF RedirectInv
  <2> USE DEF RedirectInv
  <2>1. Redirecting(d)' /\ Resuming(d)' /\ Expected(d)'
    BY <1>2, <1>5, <1>6, <1>7 DEF Redirecting, Resuming, Expected
  <2>2. Continuing(d)'
    <3> SUFFICES ASSUME chan[d] = "opening", d # c,
                        NEW q \in Request, expectedRedirect[d] = q
                 PROVE  Continues(d, q)'
      BY <1>2, <1>6, <1>7 DEF Continuing
    <3>1. Continues(d, q)
      BY DEF Continuing
    <3>2. request[q].httpChannel \in Channel /\ request[q].httpChannel # c
      BY <3>1, <1>2, <1>8 DEF TypeInv, Used, Fields, Continues
    <3>3. request'[q] = request[q]
      BY <3>1, <1>6, <1>8 DEF Continues
    <3>4. QED BY <3>1, <3>2, <3>3, <1>6 DEF Continues, Used
  <2>3. QED BY <2>1, <2>2
<1>15. UseInv'
  <2>1. UsedInOrder'
    BY <1>5, <1>9 DEF UseInv, UsedInOrder
  <2>2. LatestMapped'
    <3>1. \A q \in Request : IsLatest(q) => IsLatest(q)'
      BY <1>5, <1>9 DEF IsLatest
    <3>2. IsLatest(r)
      BY <1>1, <1>5, RequestPairs DEF IsLatest
    <3>3. QED BY <3>1, <3>2, <1>6, <1>7 DEF UseInv, LatestMapped
  <2>3. \A d \in Channel : Fresh(d)'
    <3>1. \A d \in Channel : d # c /\ Place(d) = 0 => LoadOf(d) # LoadOf(r)
      BY <1>1, <1>5, ChannelPairs
    <3>2. QED BY <3>1, <1>6, <1>7, <1>9 DEF UseInv, Fresh
  <2>4. QED BY <2>1, <2>2, <2>3 DEF UseInv
<1>16. QED BY <1>10, <1>11, <1>13, <1>14, <1>15

LEMMA RedirectedStruct ==
  ASSUME StructInv, NEW c \in Channel, chan[c] = "opening", RedirectedRequest(c), Announced(c),
         UNCHANGED plain
  PROVE  StructInv'
<1> USE DEF StructInv
<1> DEFINE r == expectedRedirect[c]
           s == Successor(r)
           old == request[r].httpChannel
           new == [Constructed(c, request[r].headers) EXCEPT !.sentOnRequest = TRUE]
<1>1. /\ r \in Request /\ s \in Request /\ ~Clashes(c)
      /\ expectedRedirect' = [expectedRedirect EXCEPT ![c] = None]
      /\ request' = [request EXCEPT ![s] = new]
      /\ channelToRequest' = [channelToRequest EXCEPT ![old] = None, ![c] = s]
      /\ owner' = [owner EXCEPT ![c] = s]
  BY DEF RedirectedRequest, TypeInv
<1>2. chan' = [chan EXCEPT ![c] = IF c \in plain THEN "sending" ELSE "announced"]
  BY DEF Announced, Became
<1>3. new \in Fields /\ new.httpChannel = c
  <2>1. request[r].headers \in BOOLEAN
    BY <1>1 DEF TypeInv, Fields
  <2>2. QED BY <2>1 DEF Constructed, Unused, Fields
<1>4. Continues(c, r)
  BY <1>1 DEF RedirectInv, Continuing
<1>5. /\ old \in Channel /\ channelToRequest[old] = r /\ LoadOf(r) = LoadOf(c)
      /\ LoadOf(old) = LoadOf(c) /\ Used(r) /\ LoadOf(s) = LoadOf(c)
  BY <1>1, <1>4, RequestPairs DEF Continues, TypeInv, Used, Fields
<1>6. /\ ~Used(s) /\ s # None /\ r # s /\ c # None /\ None \notin Request /\ None \notin Channel
  BY <1>1, <1>5, NextPairs, RequestPairs, ChannelPairs DEF UseInv, LatestMapped, IsLatest
<1> HIDE DEF r, s, old, new
<1>7. \A d \in Channel : d # c /\ LoadOf(d) = LoadOf(c) => ~Active(d)
  BY OneActive DEF Active
<1>8. /\ \A d \in Channel : d # c => /\ chan'[d] = chan[d] /\ owner'[d] = owner[d]
                                     /\ expectedRedirect'[d] = expectedRedirect[d]
      /\ \A d \in Channel : d # c /\ d # old => channelToRequest'[d] = channelToRequest[d]
      /\ old # c => channelToRequest'[old] = None
      /\ \A q \in Request : q # s => request'[q] = request[q]
  BY <1>1, <1>2, <1>5 DEF TypeInv
<1>9. /\ chan'[c] \in {"sending", "announced"} /\ owner'[c] = s /\ channelToRequest'[c] = s
      /\ request'[s].httpChannel = c /\ expectedRedirect'[c] = None
  BY <1>1, <1>2, <1>3 DEF TypeInv
<1>10. \A q \in Request : Used(q)' <=> (Used(q) \/ q = s)
  BY <1>1, <1>6, <1>8, <1>9 DEF Used
<1>11. TypeInv'
  <2>1. /\ chan' \in [Channel -> ChanState] /\ owner' \in [Channel -> Request \cup {None}]
        /\ request' \in [Request -> Fields]
        /\ expectedRedirect' \in [Channel -> Request \cup {None}]
    BY <1>1, <1>2, <1>3 DEF TypeInv, ChanState, Announcing
  <2>2. channelToRequest' \in [Channel -> Request \cup {None}]
    BY <1>1 DEF TypeInv
  <2>3. QED BY <2>1, <2>2, <1>1, <1>5, <1>8, <1>9 DEF TypeInv, Used
<1>12. LineInv'
  BY <1>8, <1>9 DEF LineInv
<1>13. \A d \in Channel : channelToRequest[d] # None =>
         channelToRequest[d] \in Request /\ channelToRequest[d] # s
  BY <1>6, ChannelPairs DEF TypeInv, MapInv, Agrees, Used
<1>14. MapInv'
  <2> SUFFICES ASSUME NEW d \in Channel PROVE Agrees(d)' /\ Mapped(d)' /\ Listens(d)'
    BY DEF MapInv
  <2> USE DEF MapInv
  <2>1. CASE d = c
    BY <2>1, <1>6, <1>9 DEF Agrees, Mapped, Listens
  <2>2. CASE d # c /\ d = old
    <3>1. ~Active(d) /\ channelToRequest[d] # None
      BY <2>2, <1>1, <1>5, <1>6, <1>7
    <3>2. QED BY <2>2, <3>1, <1>8 DEF Agrees, Mapped, Listens, Active, Announcing
  <2>3. CASE d # c /\ d # old
    <3>1. Agrees(d)'
      BY <2>3, <1>8, <1>13 DEF Agrees
    <3>2. Mapped(d)'
      BY <2>3, <1>8 DEF Mapped
    <3>3. Listens(d)'
      BY <2>3, <1>8, <1>9 DEF Listens, Active, Calls, TypeInv
    <3>4. QED BY <3>1, <3>2, <3>3
  <2>4. QED BY <2>1, <2>2, <2>3
<1>15. RedirectInv'
  <2> SUFFICES ASSUME NEW d \in Channel
               PROVE  Redirecting(d)' /\ Continuing(d)' /\ Resuming(d)' /\ Expected(d)'
    BY DEF RedirectInv
  <2> USE DEF RedirectInv
  <2>1. Redirecting(d)'
    <3> SUFFICES ASSUME chan[d] = "redirecting", d # c PROVE Redirecting(d)'
      BY <1>8, <1>9 DEF Redirecting
    <3>1. Active(d) /\ LoadOf(d) # LoadOf(c) /\ NextChannel(d) # c
      BY <1>7, ChannelPairs DEF Active
    <3>2. QED BY <3>1, <1>8 DEF Redirecting
  <2>2. Continuing(d)'
    <3> SUFFICES ASSUME chan[d] = "opening", d # c,
                        NEW q \in Request, expectedRedirect[d] = q
                 PROVE  Continues(d, q)'
      BY <1>8, <1>9 DEF Continuing
    <3>1. Continues(d, q)
      BY DEF Continuing
    <3>2. Active(d) /\ LoadOf(d) # LoadOf(c) /\ LoadOf(q) = LoadOf(d)
      BY <1>6, <1>7 DEF Active, TypeInv
    <3>3. /\ request[q].httpChannel \in Channel
          /\ request[q].httpChannel # c /\ request[q].httpChannel # old
      BY <3>1, <3>2, <1>5 DEF TypeInv, Used, Fields, Continues
    <3>4. request'[q] = request[q] /\ d # old
      BY <3>1, <3>2, <1>5, <1>6, <1>8 DEF Continues
    <3>5. QED BY <3>1, <3>3, <3>4, <1>8 DEF Continues, Used
  <2>3. Resuming(d)'
    <3> SUFFICES ASSUME chan[d] = "opening", d # c PROVE Resuming(d)'
      BY <1>9 , <1>8 DEF Resuming
    <3>1. d # old
      BY <1>5, <1>7 DEF Active
    <3>2. QED BY <3>1, <1>8 DEF Resuming
  <2>4. Expected(d)'
    <3>1. CASE d = c
      BY <3>1, <1>8, <1>9, NextPairs DEF Expected
    <3>2. CASE d # c
      BY <3>2, <1>8, <1>9 DEF Expected
    <3>3. QED BY <3>1, <3>2
  <2>5. QED BY <2>1, <2>2, <2>3, <2>4
<1>16. UseInv'
  <2>1. UsedInOrder'
    <3>1. \A q \in Request : Successor(q) = s => q = r
      BY <1>1, NextPairs DEF s
    <3>2. ~(Successor(s) \in Request /\ Used(Successor(s)))
      BY <1>1, <1>6 DEF UseInv, UsedInOrder
    <3>3. QED BY <3>1, <3>2, <1>1, <1>5, <1>10 DEF UseInv, UsedInOrder
  <2>2. LatestMapped'
    <3>1. \A q \in Request : IsLatest(q) /\ q # r => IsLatest(q)'
      BY <1>1, <1>10, NextPairs DEF IsLatest, s
    <3>2. \A q \in Request : q = s => IsLatest(q)'
      BY <1>1, <1>6, <1>10, NextPairs DEF IsLatest, UseInv, UsedInOrder
    <3>3. ASSUME NEW d \in Channel, NEW q \in Request, channelToRequest'[d] = q PROVE IsLatest(q)'
      <4>1. CASE d = c
        <5>1. q = s
          BY <4>1, <3>3, <1>9
        <5>2. QED BY <5>1, <3>2
      <4>2. CASE d # c
        <5>1. d # old /\ channelToRequest[d] = q
          BY <4>2, <3>3, <1>6, <1>8
        <5>2. q # r
          BY <5>1, <1>1, <1>6 DEF MapInv, Agrees, old
        <5>3. QED BY <5>1, <5>2, <3>1 DEF UseInv, LatestMapped
      <4>3. QED BY <4>1, <4>2
    <3>4. QED BY <3>3 DEF LatestMapped
  <2>3. ASSUME NEW d \in Channel PROVE Fresh(d)'
    <3> SUFFICES ASSUME Place(d) = 0, chan'[d] \in {"none", "opening"} PROVE Fresh(d)'
      BY DEF Fresh
    <3>1. d # c /\ LoadOf(d) # LoadOf(c)
      BY <1>9, OneActive, ChannelPairs, <1>8 DEF Active
    <3>2. QED BY <3>1, <1>5, <1>8, <1>10 DEF UseInv, Fresh
  <2>4. QED BY <2>1, <2>2, <2>3 DEF UseInv
<1>17. QED BY <1>11, <1>12, <1>14, <1>15, <1>16

LEMMA InternalRedirectStruct ==
  ASSUME StructInv, NEW c \in Channel, InternalRedirect(c)
  PROVE  StructInv'
<1> USE DEF StructInv
<1>1. PICK d \in Channel : d = NextChannel(c)
  BY DEF InternalRedirect
<1>2. /\ chan[c] \in {"diverting", "resetting"}
      /\ chan' = [chan EXCEPT ![c] = "done",
                              ![d] = IF chan[c] = "diverting" THEN "intercepted" ELSE "opening"]
      /\ plain' = IF chan[c] = "resetting" THEN plain \cup {d} ELSE plain
      /\ owner' = [owner EXCEPT ![d] = owner[c]]
      /\ channelToRequest' = [channelToRequest EXCEPT ![c] = None, ![d] = channelToRequest[c]]
      /\ expectedRedirect' = expectedRedirect
  BY <1>1 DEF InternalRedirect
<1>3. PICK r \in Request : /\ channelToRequest[c] = r /\ owner[c] = r /\ r # None
                           /\ request[r].httpChannel = c /\ LoadOf(r) = LoadOf(c)
  BY <1>2, RequestPairs DEF Announcing, MapInv, Mapped, Agrees, TypeInv
<1>4. request' = [request EXCEPT ![r].httpChannel = d]
  BY <1>1, <1>3 DEF InternalRedirect, Follows
<1>5. /\ d # c /\ LoadOf(d) = LoadOf(c) /\ Place(d) = Place(c) + 1 /\ Place(c) \in Nat
      /\ \A e \in Channel : NextChannel(e) = d => e = c
      /\ c # None /\ d # None /\ None \notin Request /\ None \notin Channel
  BY <1>1, NextPairs, ChannelPairs, RequestPairs
<1>6. Active(c)
  BY <1>2 DEF Active
<1>7. /\ chan[d] = "none" /\ channelToRequest[d] = None /\ expectedRedirect[d] = None
      /\ \A e \in Channel : e # c /\ LoadOf(e) = LoadOf(c) => ~Active(e)
      /\ NextChannel(d) \in Channel => expectedRedirect[NextChannel(d)] = None
  <2>1. chan[d] = "none" /\ \A e \in Channel : e # c /\ LoadOf(e) = LoadOf(c) => ~Active(e)
    BY <1>5, <1>6, OneActive
  <2>2. expectedRedirect[d] = None
    BY <1>1, <1>2 DEF RedirectInv, Expected
  <2>3. QED BY <2>1, <2>2 DEF MapInv, Mapped, RedirectInv, Expected
<1>8. /\ \A e \in Channel : e # c /\ e # d => /\ chan'[e] = chan[e]
                                              /\ channelToRequest'[e] = channelToRequest[e]
      /\ \A e \in Channel : e # d => owner'[e] = owner[e] /\ (e \in plain' <=> e \in plain)
      /\ \A q \in Request : q # r => request'[q] = request[q]
  BY <1>2, <1>4 DEF TypeInv
<1>9. /\ chan'[c] = "done" /\ channelToRequest'[c] = None
      /\ chan'[d] \in {"intercepted", "opening"} /\ (chan'[d] = "opening" => d \in plain')
      /\ channelToRequest'[d] = r /\ owner'[d] = r /\ request'[r].httpChannel = d
  BY <1>2, <1>3, <1>4, <1>5 DEF TypeInv, Fields
<1>10. \A q \in Request : Used(q)' <=> Used(q)
  BY <1>3, <1>5, <1>8, <1>9 DEF Used
<1>11. TypeInv'
  <2>1. /\ chan' \in [Channel -> ChanState] /\ owner' \in [Channel -> Request \cup {None}]
        /\ channelToRequest' \in [Channel -> Request \cup {None}]
    BY <1>2, <1>3 DEF TypeInv, ChanState, Announcing
  <2>2. request' \in [Request -> Fields]
    BY <1>4 DEF TypeInv, Fields
  <2>3. QED BY <2>1, <2>2, <1>2, <1>3, <1>5, <1>8, <1>9 DEF TypeInv, Used
<1>12. LineInv'
  <2> SUFFICES ASSUME NEW a \in Channel, NEW b \in Channel,
                      LoadOf(a) = LoadOf(b), Place(a) < Place(b), chan'[b] # "none"
               PROVE  chan'[a] = "done"
    BY DEF LineInv
  <2>1. CASE a = c
    BY <2>1, <1>9
  <2>2. CASE a = d
    <3>1. b # c /\ b # d /\ LoadOf(c) = LoadOf(b) /\ Place(c) < Place(b)
      BY <2>2, <1>5, ChannelPairs
    <3>2. chan[b] # "none"
      BY <3>1, <1>8
    <3>3. QED BY <3>1, <3>2, <1>2 DEF LineInv
  <2>3. CASE a # c /\ a # d
    <3>1. CASE b = d
      <4>1. Place(a) < Place(c)
        BY <2>3, <3>1, <1>5, ChannelPairs
      <4>2. QED BY <4>1, <2>3, <3>1, <1>2, <1>5, <1>8 DEF LineInv
    <3>2. CASE b # d
      BY <2>3, <3>2, <1>2, <1>8 DEF LineInv
    <3>3. QED BY <3>1, <3>2
  <2>4. QED BY <2>1, <2>2, <2>3
<1>13. \A e \in Channel : e # c => channelToRequest[e] # r
  BY <1>3 DEF MapInv, Agrees
<1>14. MapInv'
  <2> SUFFICES ASSUME NEW e \in Channel PROVE Agrees(e)' /\ Mapped(e)' /\ Listens(e)'
    BY DEF MapInv
  <2> USE DEF MapInv
  <2>1. CASE e = c
    BY <2>1, <1>9, <1>5 DEF Agrees, Mapped, Listens, Active, Announcing
  <2>2. CASE e = d
    BY <2>2, <1>9, <1>5, <1>3 DEF Agrees, Mapped, Listens
  <2>3. CASE e # c /\ e # d
    <3>1. Agrees(e)' /\ Mapped(e)'
      BY <2>3, <1>2, <1>8, <1>13 DEF Agrees, Mapped, TypeInv
    <3>2. Listens(e)'
      BY <2>3, <1>8, <1>9 DEF Listens, Active, Calls, TypeInv
    <3>3. QED BY <3>1, <3>2
  <2>4. QED BY <2>1, <2>2, <2>3
<1>15. RedirectInv'
  <2> SUFFICES ASSUME NEW e \in Channel
               PROVE  Redirecting(e)' /\ Continuing(e)' /\ Resuming(e)' /\ Expected(e)'
    BY DEF RedirectInv
  <2> USE DEF RedirectInv
  <2>1. Redirecting(e)'
    BY <1>2, <1>5, <1>8, <1>9 DEF Redirecting
  <2>2. Continuing(e)'
    <3> SUFFICES ASSUME chan[e] = "opening", e # c, e # d,
                        NEW q \in Request, expectedRedirect[e] = q
                 PROVE  Continues(e, q)'
      BY <1>2, <1>5, <1>7, <1>8, <1>9 DEF Continuing
    <3>1. Continues(e, q)
      BY DEF Continuing
    <3>2. Active(e) /\ LoadOf(e) # LoadOf(c) /\ LoadOf(q) = LoadOf(e)
      BY <1>5, <1>7 DEF Active, TypeInv
    <3>3. /\ request[q].httpChannel \in Channel
          /\ request[q].httpChannel # c /\ request[q].httpChannel # d
      BY <3>1, <3>2, <1>5 DEF TypeInv, Used, Fields, Continues
    <3>4. request'[q] = request[q]
      BY <3>2, <1>3, <1>8
    <3>5. QED BY <3>1, <3>3, <3>4, <1>8 DEF Continues, Used
  <2>3. Resuming(e)'
    BY <1>2, <1>3, <1>8, <1>9 DEF Resuming
  <2>4. Expected(e)'
    <3>1. CASE e = c
      BY <3>1, <1>9 DEF Expected, Announcing
    <3>2. CASE e = d
      BY <3>2, <1>2, <1>7 DEF Expected
    <3>3. CASE e # c /\ e # d
      BY <3>3, <1>2, <1>8 DEF Expected
    <3>4. QED BY <3>1, <3>2, <3>3
  <2>5. QED BY <2>1, <2>2, <2>3, <2>4
<1>16. UseInv'
  <2>1. UsedInOrder' /\ LatestMapped'
    <3>1. \A q \in Request : IsLatest(q)' <=> IsLatest(q)
      BY <1>10 DEF IsLatest
    <3>2. UsedInOrder'
      BY <1>10 DEF UseInv, UsedInOrder
    <3>3. IsLatest(r)
      BY <1>3 DEF UseInv, LatestMapped
    <3>4. LatestMapped'
      BY <3>1, <3>3, <1>5, <1>8, <1>9 DEF UseInv, LatestMapped
    <3>5. QED BY <3>2, <3>4
  <2>2. ASSUME NEW e \in Channel PROVE Fresh(e)'
    BY <1>5, <1>8, <1>9, <1>10 DEF UseInv, Fresh
  <2>3. QED BY <2>1, <2>2 DEF UseInv
<1>17. QED BY <1>11, <1>12, <1>14, <1>15, <1>16

\* Where the flags of requests change and their channels do not.
LEMMA FlagsKeepUse ==
  ASSUME StructInv, Flags
  PROVE  /\ \A r \in Request : Used(r)' <=> Used(r)
         /\ \A r \in Request : IsLatest(r)' <=> IsLatest(r)
         /\ UsedInOrder'
BY DEF Flags, Used, IsLatest, StructInv, UseInv, UsedInOrder

LEMMA RoomGivesNext ==
  ASSUME NEW c \in Channel, RoomForRedirect(c)
  PROVE  NextChannel(c) \in Channel
<1>1. PICK l \in Load : \E n \in 0..Hops[l] : c = <<l, n>>
  BY DEF Channel
<1>2. PICK n \in 0..Hops[l] : c = <<l, n>>
  BY <1>1
<1>3. Hops[l] \in Nat
  BY NetworkAssumption
<1>4. n + 1 \in 0..Hops[l]
  BY <1>2, <1>3 DEF RoomForRedirect, LoadOf
<1>5. NextChannel(c) = <<l, n + 1>>
  BY <1>2 DEF NextChannel
<1>6. QED BY <1>4, <1>5 DEF Channel

LEMMA OnRedirectStruct ==
  ASSUME StructInv, NEW c \in Channel, NEW upgrade \in BOOLEAN, OnRedirect(c, upgrade), Flags
  PROVE  StructInv'
<1> USE DEF StructInv
<1>1. PICK d \in Channel : d = NextChannel(c)
  BY RoomGivesNext DEF OnRedirect
<1>2. /\ chan[c] \in {"sending", "answered"} /\ Successor(owner[c]) \in Request
      /\ chan' = [chan EXCEPT ![c] = "redirecting"]
      /\ owner' = [owner EXCEPT ![d] = owner[c]]
      /\ expectedRedirect' = [expectedRedirect EXCEPT ![d] = channelToRequest[c]]
      /\ UNCHANGED <<plain, channelToRequest>>
  BY <1>1 DEF OnRedirect, Became
<1>3. PICK r \in Request : /\ channelToRequest[c] = r /\ owner[c] = r /\ r # None
                           /\ request[r].httpChannel = c /\ LoadOf(r) = LoadOf(c)
  BY <1>2, RequestPairs DEF Announcing, MapInv, Mapped, Agrees, TypeInv
<1>4. /\ d # c /\ LoadOf(d) = LoadOf(c) /\ Place(d) = Place(c) + 1 /\ Place(c) \in Nat
      /\ \A e \in Channel : NextChannel(e) = d => e = c
      /\ None \notin Request /\ None \notin Channel
  BY <1>1, NextPairs, ChannelPairs, RequestPairs
<1>5. Active(c) /\ chan[d] = "none" /\ channelToRequest[d] = None
  <2>1. Active(c)
    BY <1>2 DEF Active
  <2>2. chan[d] = "none"
    BY <2>1, <1>4, OneActive
  <2>3. QED BY <2>1, <2>2 DEF MapInv, Mapped
<1>6. /\ \A e \in Channel : e # c => chan'[e] = chan[e]
      /\ \A e \in Channel : e # d => owner'[e] = owner[e] /\ expectedRedirect'[e] = expectedRedirect[e]
  BY <1>2 DEF TypeInv
<1>7. chan'[c] = "redirecting" /\ owner'[d] = r /\ expectedRedirect'[d] = r
  BY <1>2, <1>3 DEF TypeInv
<1>8. TypeInv'
  <2>1. /\ chan' \in [Channel -> ChanState] /\ owner' \in [Channel -> Request \cup {None}]
        /\ expectedRedirect' \in [Channel -> Request \cup {None}]
    BY <1>2, <1>3 DEF TypeInv, ChanState, Announcing
  <2>2. QED BY <2>1, <1>2, <1>3, <1>4, <1>6, <1>7 DEF TypeInv, Used, Flags
<1>9. LineInv'
  BY <1>2, <1>6, <1>7 DEF LineInv
<1>10. MapInv'
  <2> SUFFICES ASSUME NEW e \in Channel PROVE Agrees(e)' /\ Mapped(e)' /\ Listens(e)'
    BY DEF MapInv
  <2> USE DEF MapInv
  <2>1. Agrees(e)'
    BY <1>2, <1>5, <1>6 DEF Agrees, TypeInv, Flags
  <2>2. Mapped(e)'
    BY <1>2, <1>3, <1>4, <1>6, <1>7 DEF Mapped
  <2>3. Listens(e)'
    <3>1. CASE e = d
      BY <3>1, <1>4, <1>5, <1>6 DEF Listens, Active
    <3>2. CASE e # d
      BY <3>2, <1>2, <1>5, <1>6, <1>7 DEF Listens, Active, Calls, TypeInv, Flags
    <3>3. QED BY <3>1, <3>2
  <2>4. QED BY <2>1, <2>2, <2>3
<1>11. RedirectInv'
  <2> SUFFICES ASSUME NEW e \in Channel
               PROVE  Redirecting(e)' /\ Continuing(e)' /\ Resuming(e)' /\ Expected(e)'
    BY DEF RedirectInv
  <2> USE DEF RedirectInv
  <2>1. Redirecting(e)'
    <3>1. CASE e = c
      BY <3>1, <1>1, <1>2, <1>3, <1>4, <1>6, <1>7 DEF Redirecting
    <3>2. CASE e # c
      <4>1. chan'[e] = "redirecting" => e # d
        BY <3>2, <1>4, <1>5, <1>6
      <4>2. QED BY <3>2, <4>1, <1>4, <1>6 DEF Redirecting
    <3>3. QED BY <3>1, <3>2
  <2>2. Continuing(e)'
    <3> SUFFICES ASSUME chan[e] = "opening", e # d,
                        NEW q \in Request, expectedRedirect[e] = q
                 PROVE  Continues(e, q)'
      BY <1>4, <1>5, <1>6, <1>7 DEF Continuing
    <3>1. Continues(e, q)
      BY DEF Continuing
    <3>2. QED BY <3>1, <1>2, <1>6 DEF Continues, Used, Flags
  <2>3. Resuming(e)'
    BY <1>2, <1>4, <1>5, <1>6, <1>7 DEF Resuming
  <2>4. Expected(e)'
    <3>1. CASE e = c
      BY <3>1, <1>2, <1>4, <1>6, <1>7 DEF Expected, Announcing
    <3>2. CASE e = d
      BY <3>2, <1>4, <1>5, <1>6, NextPairs DEF Expected, Announcing
    <3>3. CASE e # c /\ e # d
      BY <3>3, <1>4, <1>6 DEF Expected
    <3>4. QED BY <3>1, <3>2, <3>3
  <2>5. QED BY <2>1, <2>2, <2>3, <2>4
<1>12. UseInv'
  BY <1>2, <1>5, <1>6, <1>7, FlagsKeepUse DEF UseInv, LatestMapped, Fresh
<1>13. QED BY <1>8, <1>9, <1>10, <1>11, <1>12

LEMMA RedirectVerifiedStruct ==
  ASSUME StructInv, NEW c \in Channel, RedirectVerified(c)
  PROVE  StructInv'
<1> USE DEF StructInv
<1>1. PICK d \in Channel : d = NextChannel(c)
  BY DEF RedirectVerified, RedirectInv, Redirecting
<1>2. /\ chan[c] = "redirecting"
      /\ chan' = [chan EXCEPT ![c] = "done", ![d] = "opening"]
      /\ UNCHANGED <<plain, owner, channelToRequest, expectedRedirect, request>>
  BY <1>1 DEF RedirectVerified, mapVars
<1>3. PICK r \in Request : /\ channelToRequest[c] = r /\ owner[c] = r /\ r # None
                           /\ request[r].httpChannel = c /\ LoadOf(r) = LoadOf(c)
  BY <1>2, RequestPairs DEF Announcing, MapInv, Mapped, Agrees, TypeInv
<1>4. /\ d # c /\ LoadOf(d) = LoadOf(c) /\ Place(d) = Place(c) + 1 /\ Place(c) \in Nat
      /\ \A e \in Channel : NextChannel(e) = d => e = c
      /\ None \notin Request /\ None \notin Channel /\ c # None
  BY <1>1, NextPairs, ChannelPairs, RequestPairs
<1>5. /\ Active(c) /\ chan[d] = "none" /\ channelToRequest[d] = None
      /\ \A a \in Channel : LoadOf(a) = LoadOf(c) /\ Place(a) < Place(c) => chan[a] = "done"
      /\ \A a \in Channel : LoadOf(a) = LoadOf(c) /\ Place(c) < Place(a) => chan[a] = "none"
      /\ NextChannel(d) \in Channel => expectedRedirect[NextChannel(d)] = None
  <2>1. Active(c)
    BY <1>2 DEF Active
  <2>2. chan[d] = "none"
    BY <2>1, <1>4, OneActive
  <2>3. QED BY <2>1, <2>2, <1>2 DEF MapInv, Mapped, LineInv, RedirectInv, Expected
<1>6. /\ \A e \in Channel : e # c /\ e # d => chan'[e] = chan[e]
      /\ chan'[c] = "done" /\ chan'[d] = "opening"
  BY <1>2, <1>4 DEF TypeInv
<1>7. TypeInv'
  BY <1>2 DEF TypeInv, ChanState, Used
<1>8. LineInv'
  <2> SUFFICES ASSUME NEW a \in Channel, NEW b \in Channel,
                      LoadOf(a) = LoadOf(b), Place(a) < Place(b), chan'[b] # "none", a # c
               PROVE  chan'[a] = "done"
    BY <1>6 DEF LineInv
  <2>1. CASE LoadOf(a) = LoadOf(c)
    <3>1. Place(b) <= Place(d)
      <4> SUFFICES ASSUME Place(b) > Place(d) PROVE FALSE
        BY ChannelPairs
      <4>1. Place(c) < Place(b) /\ b # c /\ b # d
        BY <1>4, ChannelPairs
      <4>2. QED BY <4>1, <2>1, <1>5, <1>6
    <3>2. Place(a) < Place(c) /\ a # d
      BY <2>1, <3>1, <1>4, ChannelPairs
    <3>3. QED BY <2>1, <3>2, <1>5, <1>6
  <2>2. CASE LoadOf(a) # LoadOf(c)
    BY <2>2, <1>4, <1>6 DEF LineInv
  <2>3. QED BY <2>1, <2>2
<1>9. MapInv'
  <2> SUFFICES ASSUME NEW e \in Channel PROVE Agrees(e)' /\ Mapped(e)' /\ Listens(e)'
    BY DEF MapInv
  <2> USE DEF MapInv
  <2>1. Agrees(e)' /\ Mapped(e)'
    BY <1>2, <1>6 DEF Agrees, Mapped, Announcing
  <2>2. Listens(e)'
    <3>1. CASE e = d
      <4>1. owner[d] = r
        BY <1>1, <1>2, <1>3 DEF RedirectInv, Redirecting
      <4>2. QED BY <3>1, <4>1, <1>2, <1>3, <1>4 DEF Listens, Calls
    <3>2. CASE e # d
      BY <3>2, <1>2, <1>6 DEF Listens, Active, Calls
    <3>3. QED BY <3>1, <3>2
  <2>3. QED BY <2>1, <2>2
<1>10. RedirectInv'
  <2> SUFFICES ASSUME NEW e \in Channel
               PROVE  Redirecting(e)' /\ Continuing(e)' /\ Resuming(e)' /\ Expected(e)'
    BY DEF RedirectInv
  <2> USE DEF RedirectInv
  <2>1. expectedRedirect[d] = r /\ owner[d] = r /\ Successor(r) \in Request
    BY <1>1, <1>2, <1>3 DEF Redirecting
  <2>2. CASE e = d
    <3>1. Continues(d, r)'
      BY <2>1, <1>2, <1>3, <1>4, <1>5 DEF Continues, Used
    <3>2. \A q \in Request : expectedRedirect'[d] = q => q = r
      BY <2>1, <1>2
    <3>3. Continuing(d)'
      BY <3>1, <3>2 DEF Continuing
    <3>4. Resuming(d)' /\ Redirecting(d)' /\ Expected(d)'
      BY <2>1, <1>2, <1>3, <1>5, <1>6 DEF Resuming, Redirecting, Expected, Announcing
    <3>5. QED BY <2>2, <3>3, <3>4
  <2>3. CASE e = c
    BY <2>3, <1>6 DEF Redirecting, Continuing, Resuming, Expected, Announcing
  <2>4. CASE e # c /\ e # d
    BY <2>4, <1>2, <1>6 DEF Redirecting, Continuing, Continues, Resuming, Expected, Used
  <2>5. QED BY <2>2, <2>3, <2>4
<1>11. UseInv'
  <2>1. UsedInOrder' /\ LatestMapped'
    BY <1>2 DEF UseInv, UsedInOrder, LatestMapped, IsLatest, Used
  <2>2. ASSUME NEW e \in Channel PROVE Fresh(e)'
    BY <1>2, <1>4, <1>6 DEF UseInv, Fresh, Used
  <2>3. QED BY <2>1, <2>2 DEF UseInv
<1>12. QED BY <1>7, <1>8, <1>9, <1>10, <1>11

LEMMA PromptAuthStruct ==
  ASSUME StructInv, NEW c \in Channel, PromptAuth(c)
  PROVE  StructInv'
<1> USE DEF StructInv
<1>1. /\ chan[c] = "answered" /\ Calls(c) /\ Successor(owner[c]) \in Request
      /\ chan' = [chan EXCEPT ![c] = "opening"]
      /\ expectedRedirect' = [expectedRedirect EXCEPT ![c] = owner[c]]
      /\ plain' = plain \cup {c}
      /\ UNCHANGED <<owner, channelToRequest, request>>
  BY DEF PromptAuth, Became
<1>2. PICK r \in Request : /\ channelToRequest[c] = r /\ owner[c] = r /\ r # None
                           /\ request[r].httpChannel = c /\ LoadOf(r) = LoadOf(c)
  BY <1>1, RequestPairs DEF Announcing, MapInv, Mapped, Agrees, TypeInv
<1>3. None \notin Request /\ None \notin Channel
  BY RequestPairs, ChannelPairs
<1>4. \A e \in Channel : e # c => /\ chan'[e] = chan[e] /\ (e \in plain' <=> e \in plain)
                                  /\ expectedRedirect'[e] = expectedRedirect[e]
  BY <1>1 DEF TypeInv
<1>5. chan'[c] = "opening" /\ expectedRedirect'[c] = r
  BY <1>1, <1>2 DEF TypeInv
<1>6. TypeInv'
  BY <1>1, <1>2 DEF TypeInv, ChanState, Used
<1>7. LineInv'
  BY <1>1, <1>4, <1>5 DEF LineInv
<1>8. MapInv'
  BY <1>1, <1>2, <1>4, <1>5 DEF MapInv, Agrees, Mapped, Listens, Active, Calls, Announcing
<1>9. RedirectInv'
  <2> SUFFICES ASSUME NEW e \in Channel
               PROVE  Redirecting(e)' /\ Continuing(e)' /\ Resuming(e)' /\ Expected(e)'
    BY DEF RedirectInv
  <2> USE DEF RedirectInv
  <2>1. NextChannel(e) = c => chan[e] = "done" /\ e # c
    BY <1>1, OneActive, ChannelPairs DEF Active
  <2>2. Redirecting(e)'
    BY <2>1, <1>1, <1>4, <1>5 DEF Redirecting
  <2>3. Continuing(e)'
    <3>1. CASE e = c
      BY <3>1, <1>1, <1>2, <1>3, <1>5, ChannelPairs DEF Continuing, Continues, Used
    <3>2. CASE e # c
      BY <3>2, <1>1, <1>4 DEF Continuing, Continues, Used
    <3>3. QED BY <3>1, <3>2
  <2>4. Resuming(e)'
    BY <1>1, <1>4, <1>5, <1>2, <1>3 DEF Resuming
  <2>5. Expected(e)'
    <3>1. CASE e = c
      <4>1. NextChannel(c) \in Channel => expectedRedirect[NextChannel(c)] = None
        BY <1>1 DEF Expected
      <4>2. QED BY <3>1, <4>1, <1>4, <1>5, NextPairs DEF Expected, Announcing
    <3>2. CASE e # c
      BY <3>2, <2>1, <1>4 DEF Expected
    <3>3. QED BY <3>1, <3>2
  <2>6. QED BY <2>2, <2>3, <2>4, <2>5
<1>10. UseInv'
  BY <1>1, <1>2, <1>3, <1>4 DEF UseInv, UsedInOrder, LatestMapped, IsLatest, Fresh, Used
<1>11. QED BY <1>6, <1>7, <1>8, <1>9, <1>10

LEMMA OnStopStruct ==
  ASSUME StructInv, NEW c \in Channel, OnStopRequest(c), Flags
  PROVE  StructInv'
<1> USE DEF StructInv
<1>1. /\ chan[c] \in {"receiving", "failing"}
      /\ chan' = [chan EXCEPT ![c] = "done"]
      /\ channelToRequest' = [channelToRequest EXCEPT ![c] = None]
      /\ UNCHANGED <<plain, owner, expectedRedirect>>
  <2>1. CASE Calls(c)
    BY <2>1 DEF OnStopRequest, Became
  <2>2. CASE ~Calls(c)
    <3>1. channelToRequest[c] = None
      BY <2>2 DEF MapInv, Agrees, Calls
    <3>2. channelToRequest = [channelToRequest EXCEPT ![c] = None]
      BY <3>1 DEF TypeInv
    <3>3. QED BY <2>2, <3>2 DEF OnStopRequest, Became
  <2>3. QED BY <2>1, <2>2
<1>2. None \notin Request /\ None \notin Channel
  BY RequestPairs, ChannelPairs
<1>3. \A e \in Channel : e # c => /\ chan'[e] = chan[e]
                                  /\ channelToRequest'[e] = channelToRequest[e]
  BY <1>1 DEF TypeInv
<1>4. chan'[c] = "done" /\ channelToRequest'[c] = None
  BY <1>1 DEF TypeInv
<1>5. \A e \in Channel : e # c /\ LoadOf(e) = LoadOf(c) => ~Active(e)
  BY <1>1, OneActive DEF Active
<1>6. TypeInv'
  BY <1>1 DEF TypeInv, ChanState, Used, Flags
<1>7. LineInv'
  BY <1>1, <1>3, <1>4 DEF LineInv
<1>8. MapInv'
  <2> SUFFICES ASSUME NEW e \in Channel PROVE Agrees(e)' /\ Mapped(e)' /\ Listens(e)'
    BY DEF MapInv
  <2> USE DEF MapInv
  <2>1. CASE e = c
    BY <2>1, <1>4 DEF Agrees, Mapped, Listens, Active, Announcing
  <2>2. CASE e # c
    BY <2>2, <1>1, <1>3 DEF Agrees, Mapped, Listens, Active, Calls, TypeInv, Flags
  <2>3. QED BY <2>1, <2>2
<1>9. RedirectInv'
  <2> SUFFICES ASSUME NEW e \in Channel
               PROVE  Redirecting(e)' /\ Continuing(e)' /\ Resuming(e)' /\ Expected(e)'
    BY DEF RedirectInv
  <2> USE DEF RedirectInv
  <2>1. CASE e = c
    BY <2>1, <1>4 DEF Redirecting, Continuing, Resuming, Expected, Announcing
  <2>2. CASE e # c
    <3>1. Redirecting(e)' /\ Resuming(e)' /\ Expected(e)'
      BY <2>2, <1>1, <1>3 DEF Redirecting, Resuming, Expected
    <3>2. Continuing(e)'
      <4> SUFFICES ASSUME chan[e] = "opening", NEW q \in Request, expectedRedirect[e] = q
                   PROVE  Continues(e, q)'
        BY <2>2, <1>1, <1>3 DEF Continuing
      <4>1. Continues(e, q)
        BY DEF Continuing
      <4>2. LoadOf(e) # LoadOf(c) /\ LoadOf(q) = LoadOf(e)
        BY <2>2, <1>2, <1>5 DEF Active, TypeInv
      <4>3. request[q].httpChannel \in Channel /\ request[q].httpChannel # c
        BY <4>1, <4>2 DEF TypeInv, Used, Fields, Continues
      <4>4. QED BY <2>2, <4>1, <4>3, <1>1, <1>3 DEF Continues, Used, Flags
    <3>3. QED BY <3>1, <3>2
  <2>3. QED BY <2>1, <2>2
<1>10. UseInv'
  BY <1>2, <1>3, <1>4, FlagsKeepUse DEF UseInv, LatestMapped, Fresh
<1>11. QED BY <1>6, <1>7, <1>8, <1>9, <1>10

-----------------------------------------------------------------------------
(* Every step keeps the structure.                                         *)

\* The request of a channel that is announced.
LEMMA Announced_Owner ==
  ASSUME StructInv, NEW c \in Channel, chan[c] \in Announcing
  PROVE  /\ owner[c] \in Request /\ channelToRequest[c] = owner[c] /\ owner[c] # None
         /\ request[owner[c]].httpChannel = c /\ LoadOf(owner[c]) = LoadOf(c)
         /\ Used(owner[c]) /\ Active(c) /\ Calls(c)
BY ChannelPairs, RequestPairs
DEF StructInv, TypeInv, MapInv, Agrees, Mapped, Used, Active, Calls, Announcing

\* The fields of one request after a step that leaves its channel and headers.
Alters(r, onRequest, onResponse, expecting, yields, body) ==
  /\ request' \in [Request -> Fields]
  /\ \A q \in Request : q # r => request'[q] = request[q]
  /\ request'[r].httpChannel = request[r].httpChannel
  /\ request'[r].headers = request[r].headers
  /\ request'[r].sentOnRequest = onRequest /\ request'[r].sentOnResponse = onResponse
  /\ request'[r].expecting = expecting /\ request'[r].yields = yields
  /\ request'[r].body = body

LEMMA AltersIsFlags ==
  ASSUME NEW r \in Request, NEW onRequest, NEW onResponse, NEW expecting, NEW yields, NEW body,
         Alters(r, onRequest, onResponse, expecting, yields, body)
  PROVE  Flags
BY DEF Alters, Flags

LEMMA SendOnRequestAlters ==
  ASSUME TypeInv, NEW r \in Request, request' = [request EXCEPT ![r].sentOnRequest = TRUE]
  PROVE  Alters(r, TRUE, request[r].sentOnResponse, request[r].expecting, request[r].yields,
                request[r].body)
BY DEF TypeInv, Fields, Alters

LEMMA SendOnResponseAlters ==
  ASSUME TypeInv, NEW r \in Request,
         request' = [request EXCEPT ![r].sentOnRequest = TRUE, ![r].sentOnResponse = TRUE]
  PROVE  Alters(r, TRUE, TRUE, request[r].expecting, request[r].yields, request[r].body)
BY DEF TypeInv, Fields, Alters

LEMMA ResumedAlters ==
  ASSUME TypeInv, NEW r \in Request, NEW how \in {"plain", "headers"}, request' = Resumed(r, how)
  PROVE  Alters(r, request[r].sentOnRequest, request[r].sentOnResponse, how, request[r].yields,
                request[r].body)
BY DEF TypeInv, Fields, Alters, Resumed

LEMMA YieldsAlters ==
  ASSUME TypeInv, NEW r \in Request, NEW b \in BOOLEAN,
         request' = [request EXCEPT ![r].yields = b]
  PROVE  Alters(r, request[r].sentOnRequest, request[r].sentOnResponse, request[r].expecting, b,
                request[r].body)
BY DEF TypeInv, Fields, Alters

LEMMA PassedAlters ==
  ASSUME TypeInv, NEW r \in Request,
         request' = [request EXCEPT ![r].sentOnRequest = TRUE, ![r].expecting = "plain"]
  PROVE  Alters(r, TRUE, request[r].sentOnResponse, "plain", request[r].yields, request[r].body)
BY DEF TypeInv, Fields, Alters

LEMMA DataAlters ==
  ASSUME TypeInv, NEW r \in Request,
         request' = [request EXCEPT ![r].sentOnRequest = TRUE, ![r].sentOnResponse = TRUE,
                                    ![r].body = @ + Chunk]
  PROVE  Alters(r, TRUE, TRUE, request[r].expecting, request[r].yields, request[r].body + Chunk)
<1>1. request[r].body + Chunk \in Nat
  BY NetworkAssumption DEF TypeInv, Fields
<1>2. QED BY <1>1 DEF TypeInv, Fields, Alters

LEMMA NothingAltered ==
  ASSUME TypeInv, NEW r \in Request, request' = request
  PROVE  Alters(r, request[r].sentOnRequest, request[r].sentOnResponse, request[r].expecting,
                request[r].yields, request[r].body)
BY DEF TypeInv, Alters

LEMMA SendsKeepFields ==
  ASSUME TypeInv, NEW r \in Request
  PROVE  /\ \A isIntercepted \in BOOLEAN : SendOnRequest(r, isIntercepted) => Flags
         /\ SendOnResponse(r) => Flags
         /\ request' = request => Flags
         /\ \A how \in {"plain", "headers"} : request' = Resumed(r, how) => Flags
         /\ \A b \in BOOLEAN : request' = [request EXCEPT ![r].yields = b] => Flags
<1>1. request' = [request EXCEPT ![r].sentOnRequest = TRUE] => Flags
  BY SendOnRequestAlters, AltersIsFlags
<1>2. request' = [request EXCEPT ![r].sentOnRequest = TRUE, ![r].sentOnResponse = TRUE] => Flags
  BY SendOnResponseAlters, AltersIsFlags
<1>3. request' = request => Flags
  BY NothingAltered, AltersIsFlags
<1>4. ASSUME NEW how \in {"plain", "headers"}, request' = Resumed(r, how) PROVE Flags
  BY <1>4, ResumedAlters, AltersIsFlags
<1>5. ASSUME NEW b \in BOOLEAN, request' = [request EXCEPT ![r].yields = b] PROVE Flags
  BY <1>5, YieldsAlters, AltersIsFlags
<1>6. QED BY <1>1, <1>2, <1>3, <1>4, <1>5 DEF SendOnRequest, SendOnResponse

LEMMA MoveOne ==
  ASSUME TypeInv, NEW c \in Channel, NEW state \in ChanState, Became(c, state)
  PROVE  /\ chan' \in [Channel -> ChanState] /\ chan'[c] = state
         /\ \A d \in Channel : d # c => chan'[d] = chan[d]
BY DEF TypeInv, Became

\* A callback or an answer that moves one channel on, and no map.
LEMMA OneMovesStruct ==
  ASSUME StructInv, NEW c \in Channel, Active(c),
         NEW state \in ChanState \ {"none", "opening", "redirecting", "done"}, Became(c, state),
         state \in Announcing /\ chan[c] \notin Announcing =>
           channelToRequest[c] # None /\ expectedRedirect[c] = None,
         chan[c] \in {"redirecting", "cancelled", "failing"} => state \in {"cancelled", "failing"},
         UNCHANGED <<owner, channelToRequest, expectedRedirect, plain>>, Flags
  PROVE  StructInv'
<1>1. /\ chan' \in [Channel -> ChanState] /\ chan'[c] = state
      /\ \A d \in Channel : d # c => chan'[d] = chan[d]
  BY MoveOne DEF StructInv
<1>2. Moves
  BY <1>1 DEF Moves
<1>3. QED BY <1>1, <1>2, MovesStruct DEF KeepsMaps, Flags

LEMMA ResumedChannelStruct ==
  ASSUME StructInv, NEW c \in Channel, chan[c] = "opening", ResumedChannel(c), Announced(c),
         UNCHANGED plain
  PROVE  StructInv'
<1> DEFINE state == IF c \in plain THEN "sending" ELSE "announced"
<1>1. state \in ChanState \ {"none", "opening", "redirecting", "done"}
  BY DEF ChanState, Announcing
<1>2. Became(c, state)
  BY DEF Announced
<1> HIDE DEF state
<1>3. channelToRequest[c] \in Request /\ channelToRequest[c] # None /\ expectedRedirect[c] = None
  BY DEF ResumedChannel, StructInv, TypeInv
<1>4. Flags
  <2>1. PICK r \in Request : r = channelToRequest[c]
    BY <1>3
  <2>2. \/ request' = request
        \/ request' = [request EXCEPT ![r].expecting = "nothing",
                                      ![r].headers = (request[r].expecting = "headers")]
    BY <2>1 DEF ResumedChannel
  <2>3. QED BY <2>2 DEF StructInv, TypeInv, Flags, Fields
<1>5. UNCHANGED <<owner, channelToRequest, expectedRedirect>>
  BY DEF ResumedChannel
<1>6. QED BY <1>1, <1>2, <1>3, <1>4, <1>5, OneMovesStruct DEF Active

LEMMA OnRequestStruct ==
  ASSUME StructInv, NEW c \in Channel, OnRequest(c)
  PROVE  StructInv'
BY NewRequestStruct, RedirectedStruct, ResumedChannelStruct DEF OnRequest

LEMMA ShouldPrepareStruct ==
  ASSUME StructInv, NEW c \in Channel, ShouldPrepareForIntercept(c)
  PROVE  StructInv'
<1>1. chan[c] = "announced" /\ owner[c] \in Request /\ Active(c)
  BY Announced_Owner DEF ShouldPrepareForIntercept, Announcing
<1>2. UNCHANGED <<owner, channelToRequest, expectedRedirect, plain>>
  BY DEF ShouldPrepareForIntercept, mapVars
<1>3. Flags
  BY <1>1, SendsKeepFields DEF ShouldPrepareForIntercept, StructInv
<1>4. Became(c, "diverting") \/ Became(c, "sending")
  BY DEF ShouldPrepareForIntercept
<1>5. QED BY <1>1, <1>2, <1>3, <1>4, OneMovesStruct DEF ChanState, Announcing

LEMMA ChannelInterceptedStruct ==
  ASSUME StructInv, NEW c \in Channel, ChannelIntercepted(c)
  PROVE  StructInv'
<1>1. chan[c] \in {"intercepted", "worker"} /\ owner[c] \in Request /\ Active(c)
  BY Announced_Owner DEF ChannelIntercepted, Announcing
<1>2. UNCHANGED <<owner, channelToRequest, expectedRedirect, plain>>
  BY DEF ChannelIntercepted, mapVars
<1>3. Flags
  <2>1. request' = [request EXCEPT ![owner[c]].sentOnRequest = TRUE, ![owner[c]].expecting = "plain"] => Flags
    BY <1>1, PassedAlters, AltersIsFlags DEF StructInv
  <2>2. QED BY <1>1, <2>1, SendsKeepFields DEF ChannelIntercepted, Offer, StructInv
<1>4. Became(c, "paused") \/ Became(c, "resetting")
  BY DEF ChannelIntercepted, Offer
<1>5. QED BY <1>1, <1>2, <1>3, <1>4, OneMovesStruct DEF ChanState, Announcing

LEMMA WorkerStruct ==
  ASSUME StructInv, NEW c \in Channel, YieldToWorker(c) \/ WorkerResponds(c)
  PROVE  StructInv'
<1>1. chan[c] \in {"intercepted", "worker"} /\ owner[c] \in Request /\ Active(c)
  BY Announced_Owner DEF YieldToWorker, WorkerResponds, Announcing
<1>2. UNCHANGED <<owner, channelToRequest, expectedRedirect, plain>>
  BY DEF YieldToWorker, WorkerResponds, mapVars
<1>3. Flags
  BY <1>1, SendsKeepFields DEF YieldToWorker, WorkerResponds, StructInv
<1>4. Became(c, "worker") \/ Became(c, "synthesized")
  BY DEF YieldToWorker, WorkerResponds
<1>5. QED BY <1>1, <1>2, <1>3, <1>4, OneMovesStruct DEF ChanState, Announcing

LEMMA OnResponseStruct ==
  ASSUME StructInv, NEW c \in Channel, OnResponse(c)
  PROVE  StructInv'
<1>1. chan[c] = "sending" /\ owner[c] \in Request /\ Active(c) /\ channelToRequest[c] \in Request
  BY Announced_Owner DEF OnResponse, Announcing
<1>2. UNCHANGED <<owner, channelToRequest, expectedRedirect, plain>>
  BY DEF OnResponse, mapVars
<1>3. Flags
  BY <1>1, SendsKeepFields DEF OnResponse, StructInv
<1>4. Became(c, "answered")
  BY DEF OnResponse
<1>5. QED BY <1>1, <1>2, <1>3, <1>4, OneMovesStruct DEF ChanState, Announcing

LEMMA OnStartStruct ==
  ASSUME StructInv, NEW c \in Channel, OnStartRequest(c)
  PROVE  StructInv'
<1>1. chan[c] \in {"answered", "synthesized", "cancelled"} /\ Active(c)
  BY DEF OnStartRequest, Active
<1>2. UNCHANGED <<owner, channelToRequest, expectedRedirect, plain>>
  BY DEF OnStartRequest, mapVars
<1>3. Flags
  <2>1. CASE Calls(c)
    <3>1. owner[c] \in Request
      BY <2>1 DEF Calls, StructInv, TypeInv
    <3>2. QED BY <2>1, <3>1, SendsKeepFields DEF OnStartRequest, StructInv
  <2>2. CASE ~Calls(c)
    BY <2>2 DEF OnStartRequest, StructInv, TypeInv, Flags
  <2>3. QED BY <2>1, <2>2
<1>4. IF chan[c] = "cancelled" THEN Became(c, "failing") ELSE Became(c, "receiving")
  BY DEF OnStartRequest
<1>5. QED BY <1>1, <1>2, <1>3, <1>4, OneMovesStruct DEF ChanState, Announcing

LEMMA CancelStruct ==
  ASSUME StructInv, NEW c \in Channel, Cancel(c)
  PROVE  StructInv'
<1>1. Active(c)
  BY DEF Cancel, Active
<1>2. UNCHANGED <<owner, channelToRequest, expectedRedirect, plain>> /\ Flags
  BY DEF Cancel, mapVars, StructInv, TypeInv, Flags
<1>3. Became(c, "failing") \/ Became(c, "cancelled")
  BY DEF Cancel
<1>4. QED BY <1>1, <1>2, <1>3, OneMovesStruct DEF ChanState, Announcing

\* Steps that leave the channels where they are.
LEMMA StillStruct ==
  ASSUME StructInv, UNCHANGED <<chan, owner, channelToRequest, expectedRedirect, plain>>, Flags
  PROVE  StructInv'
<1>1. chan' \in [Channel -> ChanState] /\ Moves
  BY DEF StructInv, TypeInv, Moves
<1>2. QED BY <1>1, MovesStruct DEF KeepsMaps, Flags

LEMMA OnDataStruct ==
  ASSUME StructInv, NEW c \in Channel, OnDataAvailable(c)
  PROVE  StructInv'
<1>1. owner[c] \in Request
  BY DEF OnDataAvailable, Calls, StructInv, TypeInv
<1>2. Flags
  BY <1>1, DataAlters, AltersIsFlags DEF OnDataAvailable, StructInv
<1>3. QED BY <1>2, StillStruct DEF OnDataAvailable, netVars, mapVars

LEMMA AnswersStruct ==
  ASSUME StructInv, NEW r \in Request, ClientAnswers(r)
  PROVE  StructInv'
<1>1. UNCHANGED <<owner, channelToRequest, expectedRedirect, plain>>
  BY DEF ClientAnswers, ResumeInterceptedRequest, FulfillInterceptedRequest,
         AbortInterceptedRequest, EndIntercepted, mapVars
<1>2. Flags
  <2>1. \/ \E how \in {"plain", "headers"} : request' = Resumed(r, how)
        \/ request' = request
    BY DEF ClientAnswers, ResumeInterceptedRequest, FulfillInterceptedRequest,
           AbortInterceptedRequest, EndIntercepted
  <2>2. QED BY <2>1, SendsKeepFields DEF StructInv
<1>3. CASE ~Paused(r)
  BY <1>1, <1>2, <1>3, StillStruct
  DEF ClientAnswers, ResumeInterceptedRequest, FulfillInterceptedRequest,
      AbortInterceptedRequest, EndIntercepted
<1>4. CASE Paused(r)
  <2>1. PICK state \in {"resetting", "synthesized", "cancelled"} :
          Became(request[r].httpChannel, state)
    BY <1>4 DEF ClientAnswers, ResumeInterceptedRequest, FulfillInterceptedRequest,
                AbortInterceptedRequest, EndIntercepted
  <2>2. CASE request[r].httpChannel \in Channel
    <3>1. PICK c \in Channel : c = request[r].httpChannel
      BY <2>2
    <3>2. chan[c] = "paused" /\ Active(c)
      BY <1>4, <3>1 DEF Paused, Active
    <3>3. Became(c, state) /\ state \in ChanState \ {"none", "opening", "redirecting", "done"}
      BY <2>1, <3>1 DEF ChanState, Announcing
    <3>4. QED BY <1>1, <1>2, <3>2, <3>3, OneMovesStruct DEF Announcing
  <2>3. CASE request[r].httpChannel \notin Channel
    <3>1. chan' = chan
      BY <2>1, <2>3 DEF Became, StructInv, TypeInv
    <3>2. QED BY <3>1, <1>1, <1>2, StillStruct
  <2>4. QED BY <2>2, <2>3
<1>5. QED BY <1>3, <1>4

LEMMA DisableStruct ==
  ASSUME StructInv, DisableRequestInterception
  PROVE  StructInv'
<1>1. UNCHANGED <<owner, channelToRequest, expectedRedirect, plain>>
  BY DEF DisableRequestInterception, mapVars
<1>2. PICK touched :
        /\ request' = [r \in Request |->
             IF r \in touched THEN [request[r] EXCEPT !.expecting = "plain"] ELSE request[r]]
        /\ chan' = [c \in Channel |->
             IF chan[c] = "paused" /\ owner[c] \in touched THEN "resetting" ELSE chan[c]]
  BY DEF DisableRequestInterception
<1>3. Flags
  BY <1>2 DEF Flags, StructInv, TypeInv, Fields
<1>4. chan' \in [Channel -> ChanState] /\ Moves
  BY <1>2 DEF StructInv, TypeInv, Moves, ChanState, Announcing, Active
<1>5. QED BY <1>1, <1>3, <1>4, MovesStruct DEF KeepsMaps, Flags

\* What the network tells of a redirect and of the end changes flags only.
LEMMA EndsKeepFields ==
  ASSUME StructInv, NEW c \in Channel
  PROVE  /\ \A upgrade \in BOOLEAN : OnRedirect(c, upgrade) => Flags
         /\ OnStopRequest(c) => Flags
<1>1. ASSUME NEW upgrade \in BOOLEAN, OnRedirect(c, upgrade) PROVE Flags
  <2>1. chan[c] \in Announcing
    BY <1>1 DEF OnRedirect, Announcing
  <2>2. channelToRequest[c] \in Request
    BY <2>1, Announced_Owner
  <2>3. QED BY <1>1, <2>2, SendsKeepFields DEF OnRedirect, StructInv
<1>2. ASSUME OnStopRequest(c) PROVE Flags
  <2>1. CASE Calls(c)
    <3>1. owner[c] \in Request
      BY <2>1 DEF Calls, StructInv, TypeInv
    <3>2. CASE chan[c] = "receiving"
      BY <1>2, <2>1, <3>1, <3>2, SendOnResponseAlters, AltersIsFlags
      DEF OnStopRequest, StopWell, StructInv
    <3>3. CASE chan[c] # "receiving"
      BY <1>2, <2>1, <3>1, <3>3 DEF OnStopRequest, StopFailed, StructInv, TypeInv, Flags
    <3>4. QED BY <3>2, <3>3
  <2>2. CASE ~Calls(c)
    BY <1>2, <2>2 DEF OnStopRequest, StructInv, TypeInv, Flags
  <2>3. QED BY <2>1, <2>2
<1>3. QED BY <1>1, <1>2

LEMMA StructNext == ASSUME StructInv, [Next]_vars PROVE StructInv'
<1>1. ASSUME UNCHANGED <<chan, owner, channelToRequest, expectedRedirect, plain, request>>
      PROVE  StructInv'
  <2>1. Flags
    BY <1>1 DEF Flags, StructInv, TypeInv
  <2>2. QED BY <2>1, <1>1, StillStruct
<1>2. CASE FrameAttached \/ EnableRequestInterception \/ SetContextInterception \/ UNCHANGED vars
  BY <1>1, <1>2 DEF FrameAttached, EnableRequestInterception, SetContextInterception, vars,
                    netVars, mapVars
<1>3. CASE \E l \in Load : Open(l)
  BY <1>3, OpenStruct
<1>4. ASSUME NEW c \in Channel, Callback(c) PROVE StructInv'
  BY <1>4, OnRequestStruct, ShouldPrepareStruct, InternalRedirectStruct, ChannelInterceptedStruct,
     WorkerStruct, OnResponseStruct, RedirectVerifiedStruct, OnStartStruct, OnStopStruct,
     EndsKeepFields
  DEF Callback
<1>5. ASSUME NEW c \in Channel, OnDataAvailable(c) \/ PromptAuth(c) \/ Cancel(c) PROVE StructInv'
  BY <1>5, OnDataStruct, PromptAuthStruct, CancelStruct
<1>6. ASSUME NEW c \in Channel, NEW upgrade \in BOOLEAN, OnRedirect(c, upgrade) PROVE StructInv'
  BY <1>6, OnRedirectStruct, EndsKeepFields
<1>7. ASSUME NEW r \in Request, ClientAnswers(r) PROVE StructInv'
  BY <1>7, AnswersStruct
<1>8. CASE DisableRequestInterception
  BY <1>8, DisableStruct
<1>9. QED BY <1>2, <1>3, <1>4, <1>5, <1>6, <1>7, <1>8 DEF Next

-----------------------------------------------------------------------------
(* The inductive invariant: what the client was told.                      *)

EventName == {"request", "intercepted", "response", "finished", "failed"}

\* All events of a request, delivered or waiting for their frame.
Life(r) == seen[r] \o heldBack[r]
Live(r) == \E c \in Channel : channelToRequest[c] = r

Silent == {<<>>}
Known == {<<"request">>, <<"intercepted">>}
Answered == {<<"request", "response">>, <<"intercepted", "response">>}
Ended == {<<"request", "failed">>, <<"intercepted", "failed">>,
          <<"request", "response", "finished">>, <<"intercepted", "response", "finished">>,
          <<"request", "response", "failed">>, <<"intercepted", "response", "failed">>}

\* The life so far of a request that has its channel.
Begun(r) ==
  IF ~request[r].sentOnRequest THEN Silent
  ELSE IF ~request[r].sentOnResponse THEN Known ELSE Answered

Events == seen \in [Request -> Seq(EventName)] /\ heldBack \in [Request -> Seq(EventName)]
Waits == IF reported THEN heldBack = Nothing ELSE seen = Nothing
Told(r) ==
  /\ request[r].sentOnResponse => request[r].sentOnRequest
  /\ Life(r) \in Lives
  /\ ~Tracked(r) \/ ~Used(r) => Life(r) = <<>>
  /\ Tracked(r) /\ Live(r) => Life(r) \in Begun(r)
Started(c) ==
  chan[c] \in {"receiving", "failing"} =>
    \A r \in Request : channelToRequest[c] = r => request[r].sentOnRequest

LifeInv ==
  /\ Events /\ Waits
  /\ \A r \in Request : Told(r)
  /\ \A c \in Channel : Started(c)

LEMMA LivesArePhases == Lives = Silent \cup Known \cup Answered \cup Ended
BY DEF Lives, Silent, Known, Answered, Ended

\* What the events of a step add to a life.
Plus(life, events) == life \o events

LEMMA PlusNothing ==
  ASSUME NEW life \in Seq(EventName)
  PROVE  Plus(life, <<>>) = life
BY DEF Plus

LEMMA PhaseSequences ==
  Silent \cup Known \cup Answered \cup Ended \subseteq Seq(EventName)
<1>1. "request" \in EventName /\ "intercepted" \in EventName /\ "response" \in EventName
      /\ "finished" \in EventName /\ "failed" \in EventName
  BY DEF EventName
<1>2. Silent \cup Known \subseteq Seq(EventName)
  BY <1>1 DEF Silent, Known
<1>3. Answered \subseteq Seq(EventName)
  BY <1>1 DEF Answered
<1>4. Ended \subseteq Seq(EventName)
  BY <1>1 DEF Ended
<1>5. QED BY <1>2, <1>3, <1>4

LEMMA NextPhase ==
  /\ \A s \in Silent : Plus(s, <<"request">>) \in Known /\ Plus(s, <<"intercepted">>) \in Known
  /\ \A s \in Known : Plus(s, <<"response">>) \in Answered /\ Plus(s, <<"failed">>) \in Ended
  /\ \A s \in Answered : Plus(s, <<"finished">>) \in Ended /\ Plus(s, <<"failed">>) \in Ended
<1>1. ASSUME NEW e \in EventName PROVE Plus(<<>>, <<e>>) = <<e>>
  BY DEF Plus
<1>2. ASSUME NEW d \in EventName, NEW e \in EventName PROVE Plus(<<d>>, <<e>>) = <<d, e>>
  <2> DEFINE s == <<d>> \o <<e>>
             t == <<d, e>>
  <2>1. s \in Seq(EventName) /\ t \in Seq(EventName)
    OBVIOUS
  <2>2. Len(s) = 2 /\ Len(t) = 2
    OBVIOUS
  <2>3. s[1] = d /\ s[2] = e /\ t[1] = d /\ t[2] = e
    OBVIOUS
  <2> HIDE DEF s, t
  <2>4. \A i \in 1..Len(s) : s[i] = t[i]
    BY <2>2, <2>3
  <2>5. s = t
    BY <2>1, <2>2, <2>4, SeqEqual
  <2>6. QED BY <2>5 DEF Plus, s, t
<1>3. ASSUME NEW c \in EventName, NEW d \in EventName, NEW e \in EventName
      PROVE  Plus(<<c, d>>, <<e>>) = <<c, d, e>>
  <2> DEFINE s == <<c, d>> \o <<e>>
             t == <<c, d, e>>
  <2>1. s \in Seq(EventName) /\ t \in Seq(EventName)
    OBVIOUS
  <2>2. Len(s) = 3 /\ Len(t) = 3
    OBVIOUS
  <2>3. s[1] = c /\ s[2] = d /\ s[3] = e /\ t[1] = c /\ t[2] = d /\ t[3] = e
    OBVIOUS
  <2> HIDE DEF s, t
  <2>4. \A i \in 1..Len(s) : s[i] = t[i]
    BY <2>2, <2>3
  <2>5. s = t
    BY <2>1, <2>2, <2>4, SeqEqual
  <2>6. QED BY <2>5 DEF Plus, s, t
<1>4. /\ "request" \in EventName /\ "intercepted" \in EventName /\ "response" \in EventName
      /\ "finished" \in EventName /\ "failed" \in EventName
  BY DEF EventName
<1>5. \A s \in Silent : Plus(s, <<"request">>) \in Known /\ Plus(s, <<"intercepted">>) \in Known
  BY <1>1, <1>4 DEF Silent, Known
<1>6. \A s \in Known : Plus(s, <<"response">>) \in Answered /\ Plus(s, <<"failed">>) \in Ended
  BY <1>2, <1>4 DEF Known, Answered, Ended
<1>7. \A s \in Answered : Plus(s, <<"finished">>) \in Ended /\ Plus(s, <<"failed">>) \in Ended
  BY <1>3, <1>4 DEF Answered, Ended
<1>8. QED BY <1>5, <1>6, <1>7

LEMMA PlusInTwo ==
  ASSUME NEW s \in Seq(EventName), NEW t \in Seq(EventName), NEW u \in Seq(EventName)
  PROVE  Plus(s, t \o u) = Plus(Plus(s, t), u)
BY DEF Plus

\* Events are appended to the life of their request.
LEMMA LifeAfter ==
  ASSUME Events, Waits, NEW l, NEW events \in [Request -> Seq(EventName)], EmitAll(l, events),
         UNCHANGED reported
  PROVE  /\ Events' /\ Waits'
         /\ \A q \in Request :
              Life(q)' = IF l \in tracked THEN Plus(Life(q), events[q]) ELSE Life(q)
<1>1. CASE l \notin tracked
  BY <1>1 DEF EmitAll, Events, Waits, Life
<1>2. CASE l \in tracked /\ reported
  <2>1. seen' = Joined(seen, events) /\ heldBack' = heldBack /\ heldBack = Nothing
    BY <1>2 DEF EmitAll, Waits
  <2>2. \A q \in Request : seen[q] \o events[q] \in Seq(EventName)
    BY DEF Events
  <2>3. seen' \in [Request -> Seq(EventName)] /\ \A q \in Request : seen'[q] = seen[q] \o events[q]
    BY <2>1, <2>2 DEF Joined
  <2>4. \A q \in Request : Life(q)' = Plus(Life(q), events[q])
    <3> TAKE q \in Request
    <3>1. heldBack[q] = <<>> /\ heldBack'[q] = <<>>
      BY <2>1 DEF Nothing
    <3>2. seen[q] \in Seq(EventName) /\ events[q] \in Seq(EventName)
      BY DEF Events
    <3>3. seen[q] \o <<>> = seen[q] /\ (seen[q] \o events[q]) \o <<>> = seen[q] \o events[q]
      BY <3>2
    <3>4. QED BY <3>1, <3>3, <2>3 DEF Life, Plus
  <2>5. QED BY <2>1, <2>3, <2>4, <1>2 DEF Events, Waits
<1>3. CASE l \in tracked /\ ~reported
  <2>1. heldBack' = Joined(heldBack, events) /\ seen' = seen /\ seen = Nothing
    BY <1>3 DEF EmitAll, Waits
  <2>2. \A q \in Request : heldBack[q] \o events[q] \in Seq(EventName)
    BY DEF Events
  <2>3. heldBack' \in [Request -> Seq(EventName)]
        /\ \A q \in Request : heldBack'[q] = heldBack[q] \o events[q]
    BY <2>1, <2>2 DEF Joined
  <2>4. \A q \in Request : Life(q)' = Plus(Life(q), events[q])
    <3> TAKE q \in Request
    <3>1. seen[q] = <<>> /\ seen'[q] = <<>>
      BY <2>1 DEF Nothing
    <3>2. heldBack[q] \in Seq(EventName) /\ events[q] \in Seq(EventName)
      BY DEF Events
    <3>3. /\ <<>> \o heldBack[q] = heldBack[q]
          /\ <<>> \o (heldBack[q] \o events[q]) = heldBack[q] \o events[q]
      BY <3>2
    <3>4. QED BY <3>1, <3>3, <2>3 DEF Life, Plus
  <2>5. QED BY <2>1, <2>3, <2>4, <1>3 DEF Events, Waits
<1>4. QED BY <1>1, <1>2, <1>3

LEMMA EmitLife ==
  ASSUME Events, Waits, NEW r \in Request, NEW events \in Seq(EventName), Emit(r, events),
         UNCHANGED reported
  PROVE  /\ Events' /\ Waits'
         /\ Life(r)' = IF Tracked(r) THEN Plus(Life(r), events) ELSE Life(r)
         /\ \A q \in Request : q # r => Life(q)' = Life(q)
<1> DEFINE all == [Nothing EXCEPT ![r] = events]
<1>1. /\ all \in [Request -> Seq(EventName)] /\ all[r] = events
      /\ \A q \in Request : q # r => all[q] = <<>>
  <2>1. <<>> \in Seq(EventName)
    OBVIOUS
  <2>2. QED BY <2>1 DEF Nothing
<1>2. EmitAll(LoadOf(r), all)
  BY DEF Emit
<1> HIDE DEF all
<1>3. /\ Events' /\ Waits'
      /\ \A q \in Request :
           Life(q)' = IF LoadOf(r) \in tracked THEN Plus(Life(q), all[q]) ELSE Life(q)
  BY <1>1, <1>2, LifeAfter
<1>4. \A q \in Request : Life(q) \in Seq(EventName)
  BY DEF Life, Events
<1>5. \A q \in Request : q # r => Life(q)' = Life(q)
  BY <1>1, <1>3, <1>4, PlusNothing
<1>6. QED BY <1>1, <1>3, <1>5 DEF Tracked

LEMMA LifeInit == ASSUME Init PROVE LifeInv
<1>1. Nothing \in [Request -> Seq(EventName)] /\ \A r \in Request : Nothing[r] = <<>>
  BY DEF Nothing
<1>2. Events /\ Waits /\ \A r \in Request : Life(r) = <<>>
  BY <1>1 DEF Init, Events, Waits, Life
<1>3. \A r \in Request : ~request[r].sentOnRequest /\ ~request[r].sentOnResponse
  BY DEF Init, Unused
<1>4. \A r \in Request : Told(r)
  BY <1>2, <1>3, LivesArePhases DEF Told, Silent, Begun
<1>5. \A c \in Channel : Started(c)
  BY DEF Init, Started
<1>6. QED BY <1>2, <1>4, <1>5 DEF LifeInv

LEMMA LifeSequences == ASSUME LifeInv, NEW r \in Request PROVE Life(r) \in Seq(EventName)
BY DEF LifeInv, Events, Life

\* What a step keeps of a request.
Same(q) ==
  /\ request'[q].sentOnRequest = request[q].sentOnRequest
  /\ request'[q].sentOnResponse = request[q].sentOnResponse

LEMMA QuietLife ==
  ASSUME LifeInv, UNCHANGED <<seen, heldBack, reported, tracked>>,
         \A q \in Request : Same(q) /\ (Used(q)' <=> Used(q)) /\ (Live(q)' => Live(q)),
         \A c \in Channel : Started(c)'
  PROVE  LifeInv'
<1>1. Events' /\ Waits'
  BY DEF LifeInv, Events, Waits
<1>2. ASSUME NEW q \in Request PROVE Told(q)'
  <2>1. Life(q)' = Life(q) /\ (Tracked(q)' <=> Tracked(q)) /\ Begun(q)' = Begun(q)
    BY DEF Life, Tracked, Begun, Same
  <2>2. QED BY <2>1 DEF LifeInv, Told, Same
<1>3. QED BY <1>1, <1>2 DEF LifeInv

LEMMA TellsOne ==
  ASSUME LifeInv, NEW r \in Request, NEW events \in Seq(EventName), Emit(r, events),
         UNCHANGED <<reported, tracked>>, Used(r),
         \A q \in Request : q # r => Same(q),
         \A q \in Request : (Used(q)' <=> Used(q)) /\ (Live(q)' => Live(q)),
         request'[r].sentOnResponse => request'[r].sentOnRequest,
         Tracked(r) => /\ Plus(Life(r), events) \in Lives
                       /\ Live(r)' => Plus(Life(r), events) \in Begun(r)',
         \A c \in Channel : Started(c)'
  PROVE  LifeInv'
<1>1. /\ Events' /\ Waits'
      /\ Life(r)' = IF Tracked(r) THEN Plus(Life(r), events) ELSE Life(r)
      /\ \A q \in Request : q # r => Life(q)' = Life(q)
  BY EmitLife DEF LifeInv
<1>2. ASSUME NEW q \in Request, q # r PROVE Told(q)'
  <2>1. Life(q)' = Life(q) /\ (Tracked(q)' <=> Tracked(q)) /\ Begun(q)' = Begun(q)
    BY <1>1, <1>2 DEF Tracked, Begun, Same
  <2>2. QED BY <1>2, <2>1 DEF LifeInv, Told, Same
<1>3. Told(r)'
  <2>1. Tracked(r)' <=> Tracked(r)
    BY DEF Tracked
  <2>2. CASE Tracked(r)
    BY <1>1, <2>1, <2>2 DEF Told
  <2>3. CASE ~Tracked(r)
    BY <1>1, <2>1, <2>3 DEF Told, LifeInv
  <2>4. QED BY <2>2, <2>3
<1>4. QED BY <1>1, <1>2, <1>3 DEF LifeInv

\* The events of _sendOnRequest and _sendOnResponse for a request that is live.
LEMMA RequestEventLife ==
  ASSUME TypeInv, LifeInv, NEW r \in Request, NEW isIntercepted \in BOOLEAN
  PROVE  /\ RequestEvent(r, isIntercepted) \in Seq(EventName)
         /\ Tracked(r) /\ Live(r) =>
              /\ request[r].sentOnResponse => Plus(Life(r), RequestEvent(r, isIntercepted)) \in Answered
              /\ ~request[r].sentOnResponse => Plus(Life(r), RequestEvent(r, isIntercepted)) \in Known
<1>1. <<"request">> \in Seq(EventName) /\ <<"intercepted">> \in Seq(EventName)
      /\ <<>> \in Seq(EventName)
  BY DEF EventName
<1>2. RequestEvent(r, isIntercepted) \in Seq(EventName)
  BY <1>1 DEF RequestEvent
<1>3. Life(r) \in Seq(EventName) /\ (request[r].sentOnResponse => request[r].sentOnRequest)
  BY LifeSequences DEF LifeInv, Told
<1>4. ASSUME Tracked(r), Live(r) PROVE Life(r) \in Begun(r)
  BY <1>4 DEF LifeInv, Told
<1>5. CASE request[r].sentOnRequest
  <2>1. Plus(Life(r), RequestEvent(r, isIntercepted)) = Life(r)
    BY <1>3, <1>5, PlusNothing DEF RequestEvent
  <2>2. QED BY <1>2, <1>4, <1>5, <2>1 DEF Begun
<1>6. CASE ~request[r].sentOnRequest
  <2>1. RequestEvent(r, isIntercepted) \in {<<"request">>, <<"intercepted">>}
    BY <1>6 DEF RequestEvent
  <2>2. QED BY <1>2, <1>3, <1>4, <1>6, <2>1, NextPhase DEF Begun
<1>7. QED BY <1>5, <1>6

LEMMA ResponseEventsLife ==
  ASSUME TypeInv, LifeInv, NEW r \in Request
  PROVE  /\ ResponseEvents(r) \in Seq(EventName)
         /\ Tracked(r) /\ Live(r) => Plus(Life(r), ResponseEvents(r)) \in Answered
<1> DEFINE first == RequestEvent(r, FALSE)
           second == IF request[r].sentOnResponse THEN <<>> ELSE <<"response">>
<1>1. first \in Seq(EventName) /\ Life(r) \in Seq(EventName)
  BY RequestEventLife, LifeSequences
<1>2. second \in Seq(EventName)
  <2>1. <<"response">> \in Seq(EventName) /\ <<>> \in Seq(EventName)
    BY DEF EventName
  <2>2. QED BY <2>1
<1>3. ResponseEvents(r) = first \o second
  BY DEF ResponseEvents
<1> HIDE DEF first, second
<1>4. Plus(Life(r), ResponseEvents(r)) = Plus(Plus(Life(r), first), second)
  BY <1>1, <1>2, <1>3, PlusInTwo
<1>5. Plus(Life(r), first) \in Seq(EventName)
  BY <1>1 DEF Plus
<1>6. ASSUME Tracked(r), Live(r) PROVE Plus(Plus(Life(r), first), second) \in Answered
  <2>1. CASE request[r].sentOnResponse
    BY <1>5, <1>6, <2>1, RequestEventLife, PlusNothing DEF first, second
  <2>2. CASE ~request[r].sentOnResponse
    BY <1>6, <2>2, RequestEventLife, NextPhase DEF first, second
  <2>3. QED BY <2>1, <2>2
<1>7. ResponseEvents(r) \in Seq(EventName)
  BY <1>1, <1>2, <1>3
<1>8. QED BY <1>4, <1>6, <1>7

\* Steps after which a request is live only if it was, and told of its start.
KeepsLive == \A c \in Channel : channelToRequest'[c] \in {channelToRequest[c], None}

LEMMA KeepsLiveIsLive ==
  ASSUME KeepsLive, NEW q \in Request
  PROVE  Live(q)' => Live(q)
BY RequestPairs DEF KeepsLive, Live

LEMMA KeepsStarted ==
  ASSUME LifeInv, KeepsLive, NEW c \in Channel,
         chan'[c] \in {"receiving", "failing"} => chan[c] \in {"receiving", "failing"},
         \A q \in Request : request[q].sentOnRequest => request'[q].sentOnRequest
  PROVE  Started(c)'
BY RequestPairs DEF LifeInv, Started, KeepsLive

\* No channel starts to receive, or to fail, that did not.
NoStart ==
  \A c \in Channel : chan'[c] \in {"receiving", "failing"} => chan[c] \in {"receiving", "failing"}

LEMMA QuietStep ==
  ASSUME StructInv, LifeInv, UNCHANGED <<seen, heldBack, reported, tracked>>,
         Flags, \A q \in Request : Same(q), KeepsLive, NoStart
  PROVE  LifeInv'
<1>1. \A q \in Request : (Used(q)' <=> Used(q)) /\ (Live(q)' => Live(q))
  BY FlagsKeepUse, KeepsLiveIsLive
<1>2. \A c \in Channel : Started(c)'
  BY KeepsStarted DEF NoStart, Same
<1>3. QED BY <1>1, <1>2, QuietLife

LEMMA LiveIsUsed == ASSUME StructInv, NEW r \in Request, Live(r) PROVE Used(r)
BY ChannelPairs, RequestPairs DEF StructInv, MapInv, Agrees, Live, Used

LEMMA SendsRequestLife ==
  ASSUME StructInv, LifeInv, NEW r \in Request, Live(r), NEW isIntercepted \in BOOLEAN,
         Emit(r, RequestEvent(r, isIntercepted)),
         NEW e, NEW y, NEW b, Alters(r, TRUE, request[r].sentOnResponse, e, y, b),
         UNCHANGED <<reported, tracked>>, KeepsLive, \A c \in Channel : Started(c)'
  PROVE  LifeInv'
<1>1. TypeInv /\ Used(r) /\ Flags
  BY LiveIsUsed, AltersIsFlags DEF StructInv
<1>2. \A q \in Request : (Used(q)' <=> Used(q)) /\ (Live(q)' => Live(q))
  BY <1>1, FlagsKeepUse, KeepsLiveIsLive
<1>3. /\ RequestEvent(r, isIntercepted) \in Seq(EventName)
      /\ Tracked(r) =>
           Plus(Life(r), RequestEvent(r, isIntercepted)) \in
             IF request[r].sentOnResponse THEN Answered ELSE Known
  BY <1>1, RequestEventLife
<1>4. Begun(r)' = IF request[r].sentOnResponse THEN Answered ELSE Known
  BY DEF Alters, Begun
<1>5. \A q \in Request : q # r => Same(q)
  BY DEF Alters, Same
<1>6. QED BY <1>1, <1>2, <1>3, <1>4, <1>5, TellsOne, LivesArePhases DEF Alters

LEMMA SendsResponseLife ==
  ASSUME StructInv, LifeInv, NEW r \in Request, Live(r), Emit(r, ResponseEvents(r)),
         NEW e, NEW y, NEW b, Alters(r, TRUE, TRUE, e, y, b),
         UNCHANGED <<reported, tracked>>, KeepsLive, \A c \in Channel : Started(c)'
  PROVE  LifeInv'
<1>1. TypeInv /\ Used(r) /\ Flags
  BY LiveIsUsed, AltersIsFlags DEF StructInv
<1>2. \A q \in Request : (Used(q)' <=> Used(q)) /\ (Live(q)' => Live(q))
  BY <1>1, FlagsKeepUse, KeepsLiveIsLive
<1>3. /\ ResponseEvents(r) \in Seq(EventName)
      /\ Tracked(r) => Plus(Life(r), ResponseEvents(r)) \in Answered
  BY <1>1, ResponseEventsLife
<1>4. Begun(r)' = Answered
  BY DEF Alters, Begun
<1>5. \A q \in Request : q # r => Same(q)
  BY DEF Alters, Same
<1>6. QED BY <1>1, <1>2, <1>3, <1>4, <1>5, TellsOne, LivesArePhases DEF Alters

\* Flags that were set stay set.
LEMMA AltersStarted ==
  ASSUME LifeInv, KeepsLive, NoStart, NEW r \in Request, NEW onResponse, NEW e, NEW y, NEW b,
         Alters(r, TRUE, onResponse, e, y, b)
  PROVE  \A c \in Channel : Started(c)'
<1>1. \A q \in Request : request[q].sentOnRequest => request'[q].sentOnRequest
  BY DEF Alters
<1>2. QED BY <1>1, KeepsStarted DEF NoStart

LEMMA MapsKeepLive == ASSUME UNCHANGED channelToRequest PROVE KeepsLive
BY DEF KeepsLive

\* A channel that is announced has a live request.
LEMMA AnnouncedIsLive ==
  ASSUME StructInv, NEW c \in Channel, chan[c] \in Announcing
  PROVE  owner[c] \in Request /\ Live(owner[c]) /\ channelToRequest[c] = owner[c]
BY Announced_Owner DEF Live

LEMMA FrameAttachedLife ==
  ASSUME StructInv, LifeInv, FrameAttached
  PROVE  LifeInv'
<1>1. /\ ~reported /\ reported' /\ seen' = Joined(seen, heldBack) /\ heldBack' = Nothing
      /\ UNCHANGED <<chan, channelToRequest, tracked, request>>
  BY DEF FrameAttached, netVars, mapVars
<1>2. seen = Nothing /\ Events
  BY <1>1 DEF LifeInv, Waits
<1>3. \A q \in Request : /\ seen[q] = <<>> /\ heldBack'[q] = <<>> /\ heldBack[q] \in Seq(EventName)
                         /\ seen'[q] = seen[q] \o heldBack[q]
  BY <1>1, <1>2 DEF Nothing, Joined, Events
<1>4. \A q \in Request : seen'[q] = heldBack[q] /\ seen'[q] \o <<>> = seen'[q]
  <2> TAKE q \in Request
  <2>1. heldBack[q] \in Seq(EventName) /\ seen'[q] = <<>> \o heldBack[q]
    BY <1>3
  <2>2. <<>> \o heldBack[q] = heldBack[q] /\ heldBack[q] \o <<>> = heldBack[q]
    BY <2>1, ConcatEmptySeq
  <2>3. QED BY <2>1, <2>2
<1>5. Events' /\ Waits'
  <2>1. Nothing \in [Request -> Seq(EventName)]
    BY DEF Nothing
  <2>2. seen' \in [Request -> Seq(EventName)]
    BY <1>1, <1>3, <1>4 DEF Joined
  <2>3. QED BY <2>1, <2>2, <1>1 DEF Events, Waits
<1>6. \A q \in Request : Life(q)' = Life(q)
  BY <1>3, <1>4 DEF Life
<1>7. ASSUME NEW q \in Request PROVE Told(q)'
  BY <1>1, <1>6 DEF LifeInv, Told, Tracked, Used, Live, Begun
<1>8. QED BY <1>1, <1>5, <1>7 DEF LifeInv, Started

LEMMA NewRequestLife ==
  ASSUME StructInv, LifeInv, NEW c \in Channel, chan[c] = "opening", NewRequest(c), Announced(c),
         UNCHANGED <<reported, tracked>>
  PROVE  LifeInv'
<1> DEFINE r == <<LoadOf(c), 0>>
<1>1. r \in Request /\ LoadOf(r) = LoadOf(c) /\ TypeInv
  BY ChannelPairs, RequestPairs DEF StructInv
<1> HIDE DEF r
<1>2. /\ expectedRedirect[c] = None /\ channelToRequest[c] = None
      /\ request' = [request EXCEPT ![r] = Constructed(c, FALSE)]
      /\ channelToRequest' = [channelToRequest EXCEPT ![c] = r]
      /\ UNCHANGED <<seen, heldBack>>
  BY DEF NewRequest, r
<1>3. ~Used(r)
  BY <1>1, <1>2 DEF StructInv, RedirectInv, Resuming, UseInv, Fresh
<1>4. /\ request'[r] = Constructed(c, FALSE) /\ \A q \in Request : q # r => request'[q] = request[q]
      /\ \A d \in Channel : d # c => channelToRequest'[d] = channelToRequest[d] /\ chan'[d] = chan[d]
      /\ channelToRequest'[c] = r /\ chan'[c] \in {"sending", "announced"}
  BY <1>1, <1>2 DEF TypeInv, Announced, Became
<1>5. ~request'[r].sentOnRequest /\ ~request'[r].sentOnResponse
  BY <1>4 DEF Constructed, Unused
<1>6. Events' /\ Waits' /\ \A q \in Request : Life(q)' = Life(q)
  BY <1>2 DEF LifeInv, Events, Waits, Life
<1>7. ASSUME NEW q \in Request PROVE Told(q)'
  <2>1. CASE q = r
    BY <2>1, <1>3, <1>5, <1>6, LivesArePhases DEF Told, Begun, Silent, LifeInv
  <2>2. CASE q # r
    <3>1. Live(q)' => Live(q)
      BY <2>2, <1>4 DEF Live
    <3>2. QED BY <2>2, <3>1, <1>4, <1>6 DEF Told, Begun, Tracked, Used, LifeInv
  <2>3. QED BY <2>1, <2>2
<1>8. ASSUME NEW d \in Channel PROVE Started(d)'
  <2> SUFFICES ASSUME d # c, chan[d] \in {"receiving", "failing"},
                      NEW q \in Request, channelToRequest[d] = q
               PROVE  request'[q].sentOnRequest
    BY <1>4 DEF Started
  <2>1. q # r
    BY <1>3, LiveIsUsed DEF Live
  <2>2. QED BY <2>1, <1>4 DEF LifeInv, Started
<1>9. QED BY <1>6, <1>7, <1>8 DEF LifeInv

LEMMA RedirectedLife ==
  ASSUME StructInv, LifeInv, NEW c \in Channel, chan[c] = "opening", RedirectedRequest(c),
         Announced(c), UNCHANGED <<reported, tracked>>
  PROVE  LifeInv'
<1>1. PICK r \in Request : r = expectedRedirect[c]
  BY DEF RedirectedRequest, StructInv, TypeInv
<1>2. PICK s \in Request : s = Successor(r)
  BY <1>1 DEF RedirectedRequest
<1>3. Continues(c, r)
  BY <1>1 DEF StructInv, RedirectInv, Continuing
<1>4. PICK old \in Channel : /\ old = request[r].httpChannel /\ channelToRequest[old] = r
                             /\ channelToRequest[c] # None => old = c
  BY <1>3 DEF Continues, Used, StructInv, TypeInv, Fields
<1> DEFINE new == [Constructed(c, request[r].headers) EXCEPT !.sentOnRequest = TRUE]
           events == [Nothing EXCEPT ![r] = FinishedEvent(r), ![s] = <<"request">>]
<1>5. /\ request' = [request EXCEPT ![s] = new]
      /\ channelToRequest' = [channelToRequest EXCEPT ![old] = None, ![c] = s]
      /\ EmitAll(LoadOf(c), events)
  BY <1>1, <1>2, <1>4 DEF RedirectedRequest
<1>6. new.sentOnRequest /\ ~new.sentOnResponse
  BY DEF Constructed, Unused
<1>7. ~Used(s) /\ r # s /\ Live(r) /\ Used(r) /\ None \notin Request
  BY <1>2, <1>3, <1>4, NextPairs, RequestPairs
  DEF StructInv, UseInv, LatestMapped, IsLatest, Live, Continues
<1>8. /\ events \in [Request -> Seq(EventName)]
      /\ events[r] = FinishedEvent(r) /\ events[s] = <<"request">>
      /\ \A q \in Request : q # r /\ q # s => events[q] = <<>>
  <2>1. /\ <<"request">> \in Seq(EventName) /\ <<"finished">> \in Seq(EventName)
        /\ <<>> \in Seq(EventName)
    BY DEF EventName
  <2>2. FinishedEvent(r) \in Seq(EventName)
    BY <2>1 DEF FinishedEvent
  <2>3. QED BY <2>1, <2>2, <1>7 DEF Nothing
<1> HIDE DEF new, events
<1>9. /\ Events' /\ Waits'
      /\ \A q \in Request :
           Life(q)' = IF LoadOf(c) \in tracked THEN Plus(Life(q), events[q]) ELSE Life(q)
  BY <1>5, <1>8, LifeAfter DEF LifeInv
<1>10. LoadOf(r) = LoadOf(c) /\ LoadOf(s) = LoadOf(c)
  BY <1>1, <1>2, RequestPairs DEF StructInv, TypeInv
<1>11. /\ request'[s] = new /\ \A q \in Request : q # s => request'[q] = request[q]
       /\ channelToRequest'[c] = s
       /\ \A d \in Channel : d # c => /\ chan'[d] = chan[d]
                                      /\ channelToRequest'[d] \in {channelToRequest[d], None}
       /\ chan'[c] \in {"sending", "announced"}
       /\ \A d \in Channel : d # c => channelToRequest'[d] # r
  <2>1. \A d \in Channel : channelToRequest[d] = r => d = old
    BY <1>4, <1>7 DEF StructInv, MapInv, Agrees
  <2>2. QED BY <2>1, <1>4, <1>5, <1>7 DEF StructInv, TypeInv, Announced, Became
<1>12. \A q \in Request : q # r /\ q # s => Life(q)' = Life(q)
  BY <1>8, <1>9, LifeSequences, PlusNothing
<1>13. Told(s)'
  <2>1. Life(s) = <<>>
    BY <1>7 DEF LifeInv, Told
  <2>2. Used(s)'
    BY <1>11, ChannelPairs DEF new, Constructed, Unused, Used
  <2>3. Life(s)' = IF Tracked(s) THEN Plus(Life(s), <<"request">>) ELSE <<>>
    BY <2>1, <1>8, <1>9, <1>10 DEF Tracked
  <2>4. Tracked(s) => Life(s)' \in Known
    BY <2>1, <2>3, NextPhase DEF Silent
  <2>5. <<>> \in Silent
    BY DEF Silent
  <2>6. QED BY <2>2, <2>3, <2>4, <2>5, <1>6, <1>11, LivesArePhases DEF Told, Begun, Tracked
<1>14. Told(r)'
  <2>1. Life(r)' = IF Tracked(r) THEN Plus(Life(r), FinishedEvent(r)) ELSE Life(r)
    BY <1>8, <1>9, <1>10 DEF Tracked
  <2>2. ~Live(r)'
    BY <1>7, <1>11 DEF Live
  <2>3. Used(r)' /\ (Tracked(r)' <=> Tracked(r)) /\ request'[r] = request[r]
    BY <1>7, <1>11 DEF Used, Tracked
  <2>4. CASE ~Tracked(r)
    BY <2>1, <2>2, <2>3, <2>4 DEF Told, LifeInv
  <2>5. CASE Tracked(r) /\ request[r].sentOnResponse
    <3>1. Life(r) \in Answered /\ FinishedEvent(r) = <<"finished">>
      BY <2>5, <1>7 DEF LifeInv, Told, Begun, FinishedEvent
    <3>2. Life(r)' \in Lives
      BY <2>1, <2>5, <3>1, NextPhase, LivesArePhases
    <3>3. QED BY <2>2, <2>3, <2>5, <3>2 DEF Told, LifeInv
  <2>6. CASE Tracked(r) /\ ~request[r].sentOnResponse
    <3>1. Life(r)' = Life(r)
      BY <2>1, <2>6, LifeSequences, PlusNothing DEF FinishedEvent
    <3>2. QED BY <2>2, <2>3, <2>6, <3>1 DEF Told, LifeInv
  <2>7. QED BY <2>4, <2>5, <2>6
<1>15. ASSUME NEW q \in Request PROVE Told(q)'
  <2>1. CASE q # r /\ q # s
    <3>1. Live(q)' => Live(q)
      BY <2>1, <1>7, <1>11 DEF Live
    <3>2. QED BY <2>1, <3>1, <1>11, <1>12 DEF Told, Begun, Tracked, Used, LifeInv
  <2>2. QED BY <2>1, <1>13, <1>14
<1>16. ASSUME NEW d \in Channel PROVE Started(d)'
  <2> SUFFICES ASSUME d # c, chan[d] \in {"receiving", "failing"},
                      NEW q \in Request, channelToRequest[d] = q
               PROVE  request'[q].sentOnRequest
    BY <1>7, <1>11 DEF Started
  <2>1. q # s
    BY <1>7, LiveIsUsed DEF Live
  <2>2. QED BY <2>1, <1>11 DEF LifeInv, Started
<1>17. QED BY <1>9, <1>15, <1>16 DEF LifeInv

LEMMA ResumedChannelLife ==
  ASSUME StructInv, LifeInv, NEW c \in Channel, ResumedChannel(c), Announced(c),
         UNCHANGED <<reported, tracked>>
  PROVE  LifeInv'
<1>1. PICK r \in Request : r = channelToRequest[c]
  BY DEF ResumedChannel, StructInv, TypeInv
<1>2. \/ request' = request
      \/ request' = [request EXCEPT ![r].expecting = "nothing",
                                    ![r].headers = (request[r].expecting = "headers")]
  BY <1>1 DEF ResumedChannel
<1>3. Flags /\ \A q \in Request : Same(q)
  BY <1>2 DEF StructInv, TypeInv, Flags, Fields, Same
<1>4. KeepsLive /\ NoStart
  BY DEF KeepsLive, NoStart, ResumedChannel, Announced, Became, StructInv, TypeInv
<1>5. QED BY <1>3, <1>4, QuietStep DEF ResumedChannel

LEMMA OnRequestLife ==
  ASSUME StructInv, LifeInv, NEW c \in Channel, OnRequest(c)
  PROVE  LifeInv'
BY NewRequestLife, RedirectedLife, ResumedChannelLife DEF OnRequest

\* A channel that moves on, and does not start to receive.
LEMMA BecameNoStart ==
  ASSUME TypeInv, NEW c \in Channel, NEW state, Became(c, state),
         state \in {"receiving", "failing"} => chan[c] \in {"receiving", "failing"}
  PROVE  NoStart
BY DEF TypeInv, Became, NoStart

LEMMA ShouldPrepareLife ==
  ASSUME StructInv, LifeInv, NEW c \in Channel, ShouldPrepareForIntercept(c)
  PROVE  LifeInv'
<1>1. PICK r \in Request : r = owner[c] /\ Live(r)
  BY AnnouncedIsLive DEF ShouldPrepareForIntercept, Announcing
<1>2. KeepsLive /\ TypeInv /\ UNCHANGED <<reported, tracked>>
  BY MapsKeepLive DEF ShouldPrepareForIntercept, mapVars, StructInv
<1>3. NoStart
  BY <1>2, BecameNoStart DEF ShouldPrepareForIntercept
<1>4. CASE request' = [request EXCEPT ![r].yields = TRUE] /\ UNCHANGED <<seen, heldBack>>
  <2>1. Flags /\ \A q \in Request : Same(q)
    BY <1>2, <1>4, YieldsAlters, AltersIsFlags DEF Alters, Same
  <2>2. QED BY <2>1, <1>2, <1>3, <1>4, QuietStep
<1>5. CASE UNCHANGED <<request, seen, heldBack>>
  BY <1>2, <1>3, <1>5, SendsKeepFields, QuietStep DEF Same
<1>6. CASE SendOnRequest(r, FALSE)
  <2>1. Alters(r, TRUE, request[r].sentOnResponse, request[r].expecting, request[r].yields,
               request[r].body)
    BY <1>2, <1>6, SendOnRequestAlters DEF SendOnRequest
  <2>2. \A d \in Channel : Started(d)'
    BY <2>1, <1>2, <1>3, AltersStarted
  <2>3. QED BY <2>1, <2>2, <1>1, <1>2, <1>6, SendsRequestLife DEF SendOnRequest
<1>7. QED BY <1>1, <1>4, <1>5, <1>6 DEF ShouldPrepareForIntercept

LEMMA InternalRedirectLife ==
  ASSUME StructInv, LifeInv, NEW c \in Channel, InternalRedirect(c)
  PROVE  LifeInv'
<1>1. PICK d \in Channel : d = NextChannel(c)
  BY DEF InternalRedirect
<1>2. /\ chan[c] \in {"diverting", "resetting"}
      /\ chan' = [chan EXCEPT ![c] = "done",
                              ![d] = IF chan[c] = "diverting" THEN "intercepted" ELSE "opening"]
      /\ channelToRequest' = [channelToRequest EXCEPT ![c] = None, ![d] = channelToRequest[c]]
      /\ UNCHANGED <<seen, heldBack, reported, tracked>>
  BY <1>1 DEF InternalRedirect, clientVars
<1>3. PICK r \in Request : r = channelToRequest[c] /\ r # None
  BY <1>2, AnnouncedIsLive, RequestPairs DEF Announcing
<1>4. request' = [request EXCEPT ![r].httpChannel = d]
  BY <1>1, <1>3 DEF InternalRedirect, Follows
<1>5. \A q \in Request : Same(q) /\ (Used(q)' <=> Used(q))
  <2>1. Used(r) /\ d # None
    BY <1>3, LiveIsUsed, ChannelPairs DEF Live
  <2>2. QED BY <2>1, <1>4 DEF StructInv, TypeInv, Fields, Same, Used
<1>6. \A q \in Request : Live(q)' => Live(q)
  BY <1>2, RequestPairs DEF Live, StructInv, TypeInv
<1>7. \A e \in Channel : Started(e)'
  <2>1. ASSUME NEW e \in Channel, e # c, e # d PROVE Started(e)'
    BY <2>1, <1>2, <1>5 DEF LifeInv, Started, Same, StructInv, TypeInv
  <2>2. Started(c)' /\ Started(d)'
    BY <1>2 DEF Started, StructInv, TypeInv
  <2>3. QED BY <2>1, <2>2
<1>8. QED BY <1>2, <1>5, <1>6, <1>7, QuietLife

LEMMA ChannelInterceptedLife ==
  ASSUME StructInv, LifeInv, NEW c \in Channel, ChannelIntercepted(c)
  PROVE  LifeInv'
<1>1. PICK r \in Request : r = owner[c] /\ Live(r)
  BY AnnouncedIsLive DEF ChannelIntercepted, Announcing
<1>2. KeepsLive /\ TypeInv /\ UNCHANGED <<reported, tracked>>
  BY MapsKeepLive DEF ChannelIntercepted, mapVars, StructInv
<1>3. NoStart
  BY <1>2, BecameNoStart DEF ChannelIntercepted, Offer
<1>4. CASE request' = Resumed(r, "plain") /\ UNCHANGED <<seen, heldBack>>
  <2>1. Flags /\ \A q \in Request : Same(q)
    BY <1>2, <1>4, ResumedAlters, AltersIsFlags DEF Alters, Same
  <2>2. QED BY <2>1, <1>2, <1>3, <1>4, QuietStep
<1>5. CASE SendOnRequest(r, TRUE)
  <2>1. Alters(r, TRUE, request[r].sentOnResponse, request[r].expecting, request[r].yields,
               request[r].body)
    BY <1>2, <1>5, SendOnRequestAlters DEF SendOnRequest
  <2>2. \A d \in Channel : Started(d)'
    BY <2>1, <1>2, <1>3, AltersStarted
  <2>3. QED BY <2>1, <2>2, <1>1, <1>2, <1>5, SendsRequestLife DEF SendOnRequest
<1>6. CASE /\ request' = [request EXCEPT ![r].sentOnRequest = TRUE, ![r].expecting = "plain"]
           /\ Emit(r, RequestEvent(r, FALSE))
  <2>1. Alters(r, TRUE, request[r].sentOnResponse, "plain", request[r].yields, request[r].body)
    BY <1>2, <1>6, PassedAlters
  <2>2. \A d \in Channel : Started(d)'
    BY <2>1, <1>2, <1>3, AltersStarted
  <2>3. QED BY <2>1, <2>2, <1>1, <1>2, <1>6, SendsRequestLife
<1>7. QED BY <1>1, <1>4, <1>5, <1>6 DEF ChannelIntercepted, Offer

LEMMA WorkerLife ==
  ASSUME StructInv, LifeInv, NEW c \in Channel, YieldToWorker(c) \/ WorkerResponds(c)
  PROVE  LifeInv'
<1>1. PICK r \in Request : r = owner[c] /\ Live(r)
  BY AnnouncedIsLive DEF YieldToWorker, WorkerResponds, Announcing
<1>2. KeepsLive /\ TypeInv /\ UNCHANGED <<seen, heldBack, reported, tracked>>
  BY MapsKeepLive DEF YieldToWorker, WorkerResponds, mapVars, clientVars, StructInv
<1>3. NoStart
  BY <1>2, BecameNoStart DEF YieldToWorker, WorkerResponds
<1>4. Flags /\ \A q \in Request : Same(q)
  <2>1. request' = [request EXCEPT ![r].yields = FALSE] \/ request' = request
    BY <1>1 DEF YieldToWorker, WorkerResponds
  <2>2. QED BY <2>1, <1>2, YieldsAlters, NothingAltered, AltersIsFlags DEF Alters, Same
<1>5. QED BY <1>2, <1>3, <1>4, QuietStep

LEMMA OnResponseLife ==
  ASSUME StructInv, LifeInv, NEW c \in Channel, OnResponse(c)
  PROVE  LifeInv'
<1>1. PICK r \in Request : r = channelToRequest[c] /\ Live(r) /\ r # None
  BY AnnouncedIsLive, RequestPairs DEF OnResponse, Announcing
<1>2. KeepsLive /\ TypeInv /\ UNCHANGED <<reported, tracked>>
  BY MapsKeepLive DEF OnResponse, mapVars, StructInv
<1>3. NoStart
  BY <1>2, BecameNoStart DEF OnResponse
<1>4. SendOnResponse(r)
  BY <1>1 DEF OnResponse
<1>5. Alters(r, TRUE, TRUE, request[r].expecting, request[r].yields, request[r].body)
  BY <1>2, <1>4, SendOnResponseAlters DEF SendOnResponse
<1>6. \A d \in Channel : Started(d)'
  BY <1>2, <1>3, <1>5, AltersStarted
<1>7. QED BY <1>1, <1>2, <1>4, <1>5, <1>6, SendsResponseLife DEF SendOnResponse

LEMMA OnRedirectLife ==
  ASSUME StructInv, LifeInv, NEW c \in Channel, NEW upgrade \in BOOLEAN, OnRedirect(c, upgrade)
  PROVE  LifeInv'
<1>1. PICK r \in Request : r = channelToRequest[c] /\ Live(r) /\ r # None
  BY AnnouncedIsLive, RequestPairs DEF OnRedirect, Announcing
<1>2. KeepsLive /\ TypeInv /\ UNCHANGED <<reported, tracked>>
  BY MapsKeepLive DEF OnRedirect, StructInv
<1>3. NoStart
  BY <1>2, BecameNoStart DEF OnRedirect
<1>4. CASE SendOnResponse(r)
  <2>1. Alters(r, TRUE, TRUE, request[r].expecting, request[r].yields, request[r].body)
    BY <1>2, <1>4, SendOnResponseAlters DEF SendOnResponse
  <2>2. \A d \in Channel : Started(d)'
    BY <1>2, <1>3, <2>1, AltersStarted
  <2>3. QED BY <1>1, <1>2, <1>4, <2>1, <2>2, SendsResponseLife DEF SendOnResponse
<1>5. CASE UNCHANGED <<request, seen, heldBack>>
  BY <1>2, <1>3, <1>5, SendsKeepFields, QuietStep DEF Same
<1>6. QED BY <1>1, <1>4, <1>5 DEF OnRedirect

LEMMA RedirectVerifiedLife ==
  ASSUME StructInv, LifeInv, NEW c \in Channel, RedirectVerified(c)
  PROVE  LifeInv'
<1>1. KeepsLive /\ UNCHANGED <<seen, heldBack, reported, tracked, request>>
  BY MapsKeepLive DEF RedirectVerified, mapVars, clientVars
<1>2. NoStart
  BY DEF RedirectVerified, NoStart, StructInv, TypeInv
<1>3. Flags /\ \A q \in Request : Same(q)
  BY <1>1 DEF Flags, Same, StructInv, TypeInv
<1>4. QED BY <1>1, <1>2, <1>3, QuietStep

LEMMA OnStartLife ==
  ASSUME StructInv, LifeInv, NEW c \in Channel, OnStartRequest(c)
  PROVE  LifeInv'
<1>1. KeepsLive /\ TypeInv /\ UNCHANGED <<reported, tracked>>
  BY MapsKeepLive DEF OnStartRequest, mapVars, StructInv
<1>2. /\ \A d \in Channel : d # c => chan'[d] = chan[d]
      /\ channelToRequest' = channelToRequest /\ Active(c)
  BY <1>1 DEF OnStartRequest, Became, TypeInv, mapVars, Active
<1>3. CASE Calls(c)
  <2>1. PICK r \in Request : r = owner[c] /\ channelToRequest[c] = r
    BY <1>1, <1>2, <1>3 DEF Calls, TypeInv, StructInv, MapInv, Listens
  <2>2. SendOnRequest(r, FALSE) /\ Live(r)
    BY <1>3, <2>1 DEF OnStartRequest, Live
  <2>3. Alters(r, TRUE, request[r].sentOnResponse, request[r].expecting, request[r].yields,
               request[r].body)
    BY <1>1, <2>2, SendOnRequestAlters DEF SendOnRequest
  <2>4. ASSUME NEW d \in Channel PROVE Started(d)'
    <3>1. CASE d = c
      BY <3>1, <1>2, <2>1, <2>3 DEF Started, Alters
    <3>2. CASE d # c
      BY <3>2, <1>2, <2>3 DEF Started, Alters, LifeInv
    <3>3. QED BY <3>1, <3>2
  <2>5. QED BY <1>1, <2>2, <2>3, <2>4, SendsRequestLife DEF SendOnRequest
<1>4. CASE ~Calls(c)
  <2>1. UNCHANGED <<request, seen, heldBack>> /\ channelToRequest[c] \notin Request
    BY <1>4, RequestPairs DEF OnStartRequest, StructInv, MapInv, Agrees, Calls
  <2>2. \A d \in Channel : Started(d)'
    BY <1>2, <2>1 DEF LifeInv, Started
  <2>3. \A q \in Request : Same(q) /\ (Used(q)' <=> Used(q)) /\ (Live(q)' => Live(q))
    BY <1>2, <2>1 DEF Same, Used, Live
  <2>4. QED BY <1>1, <2>1, <2>2, <2>3, QuietLife
<1>5. QED BY <1>3, <1>4

LEMMA OnDataLife ==
  ASSUME StructInv, LifeInv, NEW c \in Channel, OnDataAvailable(c)
  PROVE  LifeInv'
<1>1. KeepsLive /\ TypeInv /\ UNCHANGED <<reported, tracked, chan>>
  BY MapsKeepLive DEF OnDataAvailable, mapVars, netVars, StructInv
<1>2. PICK r \in Request : r = owner[c] /\ channelToRequest[c] = r /\ Live(r)
  BY DEF OnDataAvailable, Active, Calls, Live, StructInv, TypeInv, MapInv, Listens
<1>3. Alters(r, TRUE, TRUE, request[r].expecting, request[r].yields, request[r].body + Chunk)
  BY <1>1, <1>2, DataAlters DEF OnDataAvailable
<1>4. \A d \in Channel : Started(d)'
  BY <1>1, <1>3, AltersStarted DEF NoStart
<1>5. QED BY <1>1, <1>2, <1>3, <1>4, SendsResponseLife DEF OnDataAvailable

LEMMA OnStopLife ==
  ASSUME StructInv, LifeInv, NEW c \in Channel, OnStopRequest(c)
  PROVE  LifeInv'
<1>1. KeepsLive /\ TypeInv /\ UNCHANGED <<reported, tracked>>
  BY RequestPairs DEF OnStopRequest, KeepsLive, StructInv, TypeInv
<1>2. NoStart
  BY <1>1, BecameNoStart DEF OnStopRequest
<1>3. CASE Calls(c)
  <2>1. PICK r \in Request : r = owner[c] /\ channelToRequest[c] = r /\ Live(r)
    BY <1>1, <1>3 DEF OnStopRequest, Active, Calls, Live, TypeInv, StructInv, MapInv, Listens
  <2>2. ~Live(r)'
    BY <1>3, <2>1, RequestPairs DEF OnStopRequest, Live, StructInv, TypeInv, MapInv, Agrees
  <2>3. /\ TypeInv /\ \A q \in Request : Live(q)' => Live(q)
        /\ Used(r) /\ Life(r) \in Seq(EventName)
        /\ Tracked(r) => Life(r) \in Begun(r)
        /\ request[r].sentOnRequest
    BY <1>1, <2>1, KeepsLiveIsLive, LiveIsUsed, LifeSequences
    DEF OnStopRequest, LifeInv, Told, Started
  <2>4. CASE chan[c] = "receiving"
    <3> DEFINE events == ResponseEvents(r) \o <<"finished">>
    <3>1. StopWell(c) /\ Emit(r, events)
      BY <1>3, <2>1, <2>4 DEF OnStopRequest, StopWell
    <3>2. Alters(r, TRUE, TRUE, request[r].expecting, request[r].yields, request[r].body)
      BY <2>1, <2>3, <3>1, SendOnResponseAlters DEF StopWell
    <3>3. /\ ResponseEvents(r) \in Seq(EventName) /\ <<"finished">> \in Seq(EventName)
          /\ Tracked(r) => Plus(Life(r), ResponseEvents(r)) \in Answered
      BY <2>1, <2>3, ResponseEventsLife DEF EventName
    <3>4. events \in Seq(EventName)
      BY <3>3
    <3>5. Plus(Life(r), events) = Plus(Plus(Life(r), ResponseEvents(r)), <<"finished">>)
      BY <2>3, <3>3, PlusInTwo
    <3> HIDE DEF events
    <3>6. Tracked(r) => Plus(Life(r), events) \in Lives
      BY <3>3, <3>5, NextPhase, LivesArePhases
    <3>7. Flags /\ (\A q \in Request : q # r => Same(q))
      BY <3>2, AltersIsFlags DEF Alters, Same
    <3>8. \A d \in Channel : Started(d)'
      BY <1>1, <1>2, <3>2, AltersStarted
    <3>9. \A q \in Request : Used(q)' <=> Used(q)
      BY <3>7, FlagsKeepUse
    <3>10. request'[r].sentOnRequest
      BY <3>2 DEF Alters
    <3>11. QED BY <1>1, <2>2, <2>3, <3>1, <3>4, <3>6, <3>7, <3>8, <3>9, <3>10, TellsOne
  <2>5. CASE chan[c] # "receiving"
    <3>1. StopFailed(c) /\ Emit(r, <<"failed">>) /\ request' = request
      BY <1>3, <2>1, <2>5 DEF OnStopRequest, StopFailed
    <3>2. <<"failed">> \in Seq(EventName)
      BY DEF EventName
    <3>3. Tracked(r) => Plus(Life(r), <<"failed">>) \in Lives
      BY <2>3, NextPhase, LivesArePhases DEF Begun
    <3>4. \A q \in Request : Same(q) /\ (Used(q)' <=> Used(q))
      BY <3>1 DEF Same, Used
    <3>5. \A d \in Channel : Started(d)'
      BY <1>1, <1>2, <3>1, KeepsStarted DEF NoStart
    <3>6. QED BY <1>1, <2>2, <2>3, <3>1, <3>2, <3>3, <3>4, <3>5, TellsOne
  <2>6. QED BY <2>4, <2>5
<1>4. CASE ~Calls(c)
  <2>1. UNCHANGED <<request, seen, heldBack>>
    BY <1>4 DEF OnStopRequest
  <2>2. Flags /\ \A q \in Request : Same(q)
    BY <1>1, <2>1 DEF Flags, Same, TypeInv
  <2>3. QED BY <1>1, <1>2, <2>1, <2>2, QuietStep
<1>5. QED BY <1>3, <1>4

\* Steps that tell the client nothing.
LEMMA QuietActionsLife ==
  ASSUME StructInv, LifeInv, KeepsLive, NoStart,
         UNCHANGED <<seen, heldBack, reported, tracked, request>>
  PROVE  LifeInv'
<1>1. Flags /\ \A q \in Request : Same(q)
  BY DEF Flags, Same, StructInv, TypeInv
<1>2. QED BY <1>1, QuietStep

LEMMA OpenLife ==
  ASSUME StructInv, LifeInv, NEW l \in Load, Open(l)
  PROVE  LifeInv'
<1>1. NoStart
  BY DEF Open, Became, NoStart, StructInv, TypeInv
<1>2. QED BY <1>1, MapsKeepLive, QuietActionsLife DEF Open, clientVars, mapVars

LEMMA PromptAuthLife ==
  ASSUME StructInv, LifeInv, NEW c \in Channel, PromptAuth(c)
  PROVE  LifeInv'
<1>1. NoStart
  BY BecameNoStart DEF PromptAuth, StructInv
<1>2. QED BY <1>1, MapsKeepLive, QuietActionsLife DEF PromptAuth, clientVars

LEMMA CancelLife ==
  ASSUME StructInv, LifeInv, NEW c \in Channel, Cancel(c)
  PROVE  LifeInv'
<1>1. NoStart
  BY BecameNoStart DEF Cancel, StructInv
<1>2. QED BY <1>1, MapsKeepLive, QuietActionsLife DEF Cancel, clientVars, mapVars

LEMMA AnswersLife ==
  ASSUME StructInv, LifeInv, NEW r \in Request, ClientAnswers(r)
  PROVE  LifeInv'
<1>1. KeepsLive /\ TypeInv /\ UNCHANGED <<seen, heldBack, reported, tracked>>
  BY MapsKeepLive
  DEF ClientAnswers, ResumeInterceptedRequest, FulfillInterceptedRequest,
      AbortInterceptedRequest, EndIntercepted, mapVars, clientVars, StructInv
<1>2. NoStart
  <2>1. \/ chan' = chan
        \/ \E state \in {"resetting", "synthesized", "cancelled"} :
             Became(request[r].httpChannel, state)
    BY DEF ClientAnswers, ResumeInterceptedRequest, FulfillInterceptedRequest,
           AbortInterceptedRequest, EndIntercepted
  <2>2. QED BY <1>1, <2>1 DEF Became, NoStart, TypeInv
<1>3. Flags /\ \A q \in Request : Same(q)
  <2>1. \/ \E how \in {"plain", "headers"} : request' = Resumed(r, how)
        \/ request' = request
    BY DEF ClientAnswers, ResumeInterceptedRequest, FulfillInterceptedRequest,
           AbortInterceptedRequest, EndIntercepted
  <2>2. QED BY <1>1, <2>1, ResumedAlters, NothingAltered, AltersIsFlags DEF Alters, Same
<1>4. QED BY <1>1, <1>2, <1>3, QuietStep

LEMMA DisableLife ==
  ASSUME StructInv, LifeInv, DisableRequestInterception
  PROVE  LifeInv'
<1>1. KeepsLive /\ UNCHANGED <<seen, heldBack, reported, tracked>>
  BY MapsKeepLive DEF DisableRequestInterception, mapVars, clientVars
<1>2. PICK touched :
        /\ request' = [r \in Request |->
             IF r \in touched THEN [request[r] EXCEPT !.expecting = "plain"] ELSE request[r]]
        /\ chan' = [c \in Channel |->
             IF chan[c] = "paused" /\ owner[c] \in touched THEN "resetting" ELSE chan[c]]
  BY DEF DisableRequestInterception
<1>3. Flags /\ \A q \in Request : Same(q)
  BY <1>2 DEF Flags, Same, StructInv, TypeInv, Fields
<1>4. NoStart
  BY <1>2 DEF NoStart, StructInv, TypeInv
<1>5. QED BY <1>1, <1>3, <1>4, QuietStep

LEMMA LifeNext == ASSUME StructInv, LifeInv, [Next]_vars PROVE LifeInv'
<1>1. CASE EnableRequestInterception \/ SetContextInterception \/ UNCHANGED vars
  BY <1>1, MapsKeepLive, QuietActionsLife
  DEF EnableRequestInterception, SetContextInterception, vars, netVars, mapVars, clientVars, NoStart
<1>2. CASE FrameAttached \/ \E l \in Load : Open(l)
  BY <1>2, FrameAttachedLife, OpenLife
<1>3. ASSUME NEW c \in Channel, Callback(c) PROVE LifeInv'
  BY <1>3, OnRequestLife, ShouldPrepareLife, InternalRedirectLife, ChannelInterceptedLife,
     WorkerLife, OnResponseLife, RedirectVerifiedLife, OnStartLife, OnStopLife
  DEF Callback
<1>4. ASSUME NEW c \in Channel, OnDataAvailable(c) \/ PromptAuth(c) \/ Cancel(c) PROVE LifeInv'
  BY <1>4, OnDataLife, PromptAuthLife, CancelLife
<1>5. ASSUME NEW c \in Channel, NEW upgrade \in BOOLEAN, OnRedirect(c, upgrade) PROVE LifeInv'
  BY <1>5, OnRedirectLife
<1>6. ASSUME NEW r \in Request, ClientAnswers(r) PROVE LifeInv'
  BY <1>6, AnswersLife
<1>7. CASE DisableRequestInterception
  BY <1>7, DisableLife
<1>8. QED BY <1>1, <1>2, <1>3, <1>4, <1>5, <1>6, <1>7 DEF Next

\* The two parts together say what the client sees: a request in the map of a
\* channel that is about to be announced is the one that channel continues.
LEMMA InvClientSeesLife == ASSUME StructInv, LifeInv PROVE ClientSeesLife
<1>1. \A r \in Request : seen[r] \o heldBack[r] \in Lives
  BY DEF LifeInv, Told, Life
<1>2. reported => heldBack = Nothing
  BY DEF LifeInv, Waits
<1>3. ASSUME NEW c \in Channel, chan[c] = "opening", Clashes(c) PROVE FALSE
  <2>1. expectedRedirect[c] \in Request
    BY <1>3 DEF Clashes, StructInv, TypeInv
  <2>2. Continues(c, expectedRedirect[c])
    BY <1>3, <2>1 DEF StructInv, RedirectInv, Continuing
  <2>3. QED BY <1>3, <2>2 DEF Clashes, Continues
<1>4. QED BY <1>1, <1>2, <1>3 DEF ClientSeesLife

\* The client sees the life of every request, whatever redirects,
\* interceptions, service workers and failures its load goes through, and the
\* constructor never finds a channel of _channelToRequest that is not its own.
THEOREM ClientSeesLifeTheorem == Spec => []ClientSeesLife
<1>1. Init => StructInv /\ LifeInv
  BY StructInit, LifeInit
<1>2. StructInv /\ LifeInv /\ [Next]_vars => (StructInv /\ LifeInv)'
  BY StructNext, LifeNext
<1>3. StructInv /\ LifeInv => ClientSeesLife
  BY InvClientSeesLife
<1>4. QED BY <1>1, <1>2, <1>3, PTL DEF Spec

-----------------------------------------------------------------------------
(* Events are never taken back, and the map of intercepted requests.       *)

LEMMA PlusContains ==
  ASSUME NEW s \in Seq(EventName), NEW t \in Seq(EventName), NEW e
  PROVE  Contains(Plus(s, t), e) <=> Contains(s, e) \/ Contains(t, e)
<1>1. /\ Len(s) \in Nat /\ Len(t) \in Nat /\ Len(s \o t) = Len(s) + Len(t)
      /\ \A i \in 1..(Len(s) + Len(t)) :
           (s \o t)[i] = IF i <= Len(s) THEN s[i] ELSE t[i - Len(s)]
  BY ConcatProperties
<1> DEFINE u == s \o t
<1> HIDE DEF u
<1>2. /\ Len(u) = Len(s) + Len(t)
      /\ \A i \in 1..(Len(s) + Len(t)) : u[i] = IF i <= Len(s) THEN s[i] ELSE t[i - Len(s)]
  BY <1>1 DEF u
<1>3. ASSUME NEW i \in 1..Len(u), u[i] = e PROVE Contains(s, e) \/ Contains(t, e)
  <2>1. CASE i <= Len(s)
    BY <2>1, <1>1, <1>2, <1>3 DEF Contains
  <2>2. CASE i > Len(s)
    <3>1. i - Len(s) \in 1..Len(t) /\ t[i - Len(s)] = e
      BY <2>2, <1>1, <1>2, <1>3
    <3>2. QED BY <3>1 DEF Contains
  <2>3. QED BY <2>1, <2>2, <1>1
<1>4. ASSUME NEW i \in 1..Len(s), s[i] = e PROVE Contains(u, e)
  BY <1>1, <1>2, <1>4 DEF Contains
<1>5. ASSUME NEW i \in 1..Len(t), t[i] = e PROVE Contains(u, e)
  <2>1. i + Len(s) \in 1..Len(u) /\ ~(i + Len(s) <= Len(s)) /\ (i + Len(s)) - Len(s) = i
    BY <1>1, <1>2
  <2>2. u[i + Len(s)] = e
    BY <2>1, <1>2, <1>5
  <2>3. QED BY <2>1, <2>2 DEF Contains
<1>6. Contains(u, e) <=> Contains(s, e) \/ Contains(t, e)
  BY <1>3, <1>4, <1>5 DEF Contains
<1>7. QED BY <1>6 DEF Plus, u

LEMMA AppendedMap ==
  ASSUME NEW s \in Seq(Request), NEW r \in Request, IsInjective(s), r \notin ToSet(s)
  PROVE  /\ Append(s, r) \in Seq(Request) /\ IsInjective(Append(s, r))
         /\ ToSet(Append(s, r)) = ToSet(s) \cup {r}
<1> DEFINE t == Append(s, r)
<1>1. /\ t \in Seq(Request) /\ Len(t) = Len(s) + 1 /\ Len(s) \in Nat
      /\ DOMAIN s = 1..Len(s) /\ DOMAIN t = 1..(Len(s) + 1)
      /\ \A i \in 1..Len(s) : t[i] = s[i]
      /\ t[Len(s) + 1] = r
  BY AppendProperties, LenProperties
<1> HIDE DEF t
<1>2. \A i \in DOMAIN t : i \in DOMAIN s \/ i = Len(s) + 1
  BY <1>1
<1>3. ToSet(t) = ToSet(s) \cup {r}
  BY <1>1, <1>2 DEF ToSet
<1>4. IsInjective(t)
  <2> SUFFICES ASSUME NEW i \in DOMAIN t, NEW j \in DOMAIN t, t[i] = t[j] PROVE i = j
    BY DEF IsInjective
  <2>1. CASE i \in DOMAIN s /\ j \in DOMAIN s
    BY <2>1, <1>1 DEF IsInjective
  <2>2. CASE i \notin DOMAIN s /\ j \in DOMAIN s
    BY <2>2, <1>1, <1>2 DEF ToSet
  <2>3. CASE i \in DOMAIN s /\ j \notin DOMAIN s
    BY <2>3, <1>1, <1>2 DEF ToSet
  <2>4. QED BY <2>1, <2>2, <2>3, <1>2
<1>5. QED BY <1>1, <1>3, <1>4 DEF t

LEMMA RemovedFromMap ==
  ASSUME NEW s \in Seq(Request), NEW r \in ToSet(s), IsInjective(s)
  PROVE  /\ Removed(s, r) \in Seq(Request) /\ IsInjective(Removed(s, r))
         /\ ToSet(Removed(s, r)) = ToSet(s) \ {r}
<1> DEFINE i == CHOOSE i \in DOMAIN s : s[i] = r
           front == SubSeq(s, 1, i - 1)
           back == SubSeq(s, i + 1, Len(s))
           t == front \o back
<1>1. i \in DOMAIN s /\ s[i] = r /\ Len(s) \in Nat /\ DOMAIN s = 1..Len(s)
  BY DEF ToSet
<1>2. i \in 1..Len(s)
  BY <1>1
<1>3. Removed(s, r) = t
  BY DEF Removed, RemoveAt
<1> HIDE DEF i
<1>4. /\ front \in Seq(Request) /\ Len(front) = i - 1
      /\ \A j \in 1..(i - 1) : front[j] = s[j]
  BY <1>2
<1>5. /\ back \in Seq(Request) /\ Len(back) = Len(s) - i
      /\ \A j \in 1..(Len(s) - i) : back[j] = s[i + j]
  BY <1>2
<1> HIDE DEF front, back
<1>6. /\ t \in Seq(Request) /\ Len(t) = Len(s) - 1 /\ DOMAIN t = 1..(Len(s) - 1)
      /\ \A j \in 1..(Len(s) - 1) : t[j] = IF j <= i - 1 THEN front[j] ELSE back[j - (i - 1)]
  <2>1. Len(front) + Len(back) = Len(s) - 1
    BY <1>1, <1>2, <1>4, <1>5
  <2>2. QED BY <2>1, <1>4, <1>5, ConcatProperties, LenProperties
<1> HIDE DEF t
<1> DEFINE From(j) == IF j < i THEN j ELSE j + 1
<1>7. ASSUME NEW j \in DOMAIN t PROVE From(j) \in DOMAIN s /\ From(j) # i /\ t[j] = s[From(j)]
  <2>1. CASE j < i
    BY <2>1, <1>1, <1>2, <1>4, <1>6
  <2>2. CASE j >= i
    <3>1. j - (i - 1) \in 1..(Len(s) - i) /\ i + (j - (i - 1)) = j + 1 /\ ~(j <= i - 1)
      BY <2>2, <1>1, <1>2, <1>6
    <3>2. t[j] = back[j - (i - 1)] /\ back[j - (i - 1)] = s[j + 1]
      BY <3>1, <1>5, <1>6
    <3>3. QED BY <2>2, <3>2, <1>1, <1>2, <1>6
  <2>3. QED BY <2>1, <2>2, <1>1, <1>2, <1>6
<1>8. ASSUME NEW k \in DOMAIN s, k # i PROVE \E j \in DOMAIN t : From(j) = k
  <2>1. CASE k < i
    <3>1. k \in DOMAIN t /\ From(k) = k
      BY <2>1, <1>1, <1>2, <1>6
    <3>2. QED BY <3>1
  <2>2. CASE k > i
    <3>1. k - 1 \in DOMAIN t /\ From(k - 1) = k
      BY <2>2, <1>1, <1>2, <1>6
    <3>2. QED BY <3>1
  <2>3. QED BY <2>1, <2>2, <1>1, <1>2, <1>8
<1>9. \A j, k \in DOMAIN t : From(j) = From(k) => j = k
  BY <1>1, <1>2, <1>6
<1> HIDE DEF From
<1>10. IsInjective(t)
  BY <1>7, <1>9 DEF IsInjective
<1>11. ToSet(t) = ToSet(s) \ {r}
  <2>1. \A x \in ToSet(t) : x \in ToSet(s) /\ x # r
    BY <1>1, <1>7 DEF ToSet, IsInjective
  <2>2. \A x \in ToSet(s) : x # r => x \in ToSet(t)
    <3> SUFFICES ASSUME NEW k \in DOMAIN s, s[k] # r PROVE s[k] \in ToSet(t)
      BY DEF ToSet
    <3>1. PICK j \in DOMAIN t : From(j) = k
      BY <1>1, <1>8
    <3>2. QED BY <3>1, <1>7 DEF ToSet
  <2>3. QED BY <2>1, <2>2
<1>12. QED BY <1>3, <1>6, <1>10, <1>11

\* The client is told of a step, or it is not; a frame that is reported brings
\* what waited for it.
Emits ==
  \E l : \E events \in [Request -> Seq(EventName)] : EmitAll(l, events) /\ UNCHANGED reported

LEMMA EmitIsEmits ==
  ASSUME NEW r \in Request, NEW events \in Seq(EventName), Emit(r, events), UNCHANGED reported
  PROVE  Emits
<1>1. <<>> \in Seq(EventName)
  OBVIOUS
<1>2. [Nothing EXCEPT ![r] = events] \in [Request -> Seq(EventName)]
  BY <1>1 DEF Nothing
<1>3. QED BY <1>2 DEF Emit, Emits

\* What the client was told, or will be when its frame is reported, stays.
Grows ==
  \A q \in Request : Contains(Life(q), "intercepted") => Contains(Life(q)', "intercepted")

LEMMA EmitsGrows == ASSUME LifeInv, Emits PROVE Grows
<1>1. PICK l : \E events \in [Request -> Seq(EventName)] : EmitAll(l, events) /\ UNCHANGED reported
  BY DEF Emits
<1> PICK events \in [Request -> Seq(EventName)] : EmitAll(l, events) /\ UNCHANGED reported
  BY <1>1
<1>2. \A q \in Request :
        Life(q)' = IF l \in tracked THEN Plus(Life(q), events[q]) ELSE Life(q)
  BY <1>1, LifeAfter DEF LifeInv
<1>3. ASSUME NEW q \in Request, Contains(Life(q), "intercepted")
      PROVE  Contains(Life(q)', "intercepted")
  <2>1. Life(q) \in Seq(EventName) /\ events[q] \in Seq(EventName)
    BY LifeSequences
  <2>2. Contains(Plus(Life(q), events[q]), "intercepted")
    BY <2>1, <1>3, PlusContains
  <2>3. QED BY <2>2, <1>2, <1>3
<1>4. QED BY <1>3 DEF Grows

LEMMA SilentGrows == ASSUME UNCHANGED <<seen, heldBack>> PROVE Grows
BY DEF Grows, Life

LEMMA StepGrows == ASSUME StructInv, LifeInv, [Next]_vars PROVE Grows
<1>1. TypeInv
  BY DEF StructInv
<1>2. \A r \in Request : /\ \A b \in BOOLEAN : RequestEvent(r, b) \in Seq(EventName)
                         /\ ResponseEvents(r) \in Seq(EventName)
  BY <1>1, RequestEventLife, ResponseEventsLife
<1>3. /\ \A r \in Request : ResponseEvents(r) \o <<"finished">> \in Seq(EventName)
      /\ <<"failed">> \in Seq(EventName)
  <2>1. <<"finished">> \in Seq(EventName) /\ <<"failed">> \in Seq(EventName)
    BY DEF EventName
  <2>2. ASSUME NEW r \in Request PROVE ResponseEvents(r) \o <<"finished">> \in Seq(EventName)
    <3>1. ResponseEvents(r) \in Seq(EventName)
      BY <1>2
    <3>2. QED BY <2>1, <3>1
  <2>3. QED BY <2>1, <2>2
<1>4. ASSUME UNCHANGED <<seen, heldBack>> \/ Emits PROVE Grows
  BY <1>4, EmitsGrows, SilentGrows
<1>5. ASSUME NEW c \in Channel, OnRequest(c) PROVE Grows
  <2>1. CASE NewRequest(c) \/ ResumedChannel(c)
    BY <2>1, <1>4 DEF NewRequest, ResumedChannel
  <2>2. CASE RedirectedRequest(c)
    <3>1. PICK r \in Request : r = expectedRedirect[c] /\ Successor(r) \in Request
      BY <2>2, <1>1 DEF RedirectedRequest, TypeInv
    <3> DEFINE events == [Nothing EXCEPT ![r] = FinishedEvent(r), ![Successor(r)] = <<"request">>]
    <3>2. EmitAll(LoadOf(c), events)
      BY <2>2, <3>1 DEF RedirectedRequest
    <3>3. events \in [Request -> Seq(EventName)]
      <4>1. /\ <<"request">> \in Seq(EventName) /\ <<"finished">> \in Seq(EventName)
            /\ <<>> \in Seq(EventName)
        BY DEF EventName
      <4>2. FinishedEvent(r) \in Seq(EventName)
        BY <4>1 DEF FinishedEvent
      <4>3. QED BY <3>1, <4>1, <4>2 DEF Nothing
    <3> HIDE DEF events
    <3>4. Emits
      BY <1>5, <3>2, <3>3 DEF Emits, OnRequest
    <3>5. QED BY <3>4, <1>4
  <2>3. QED BY <1>5, <2>1, <2>2 DEF OnRequest
<1>6. ASSUME NEW c \in Channel, ShouldPrepareForIntercept(c) \/ ChannelIntercepted(c) PROVE Grows
  <2>1. PICK r \in Request : r = owner[c]
    BY <1>6, AnnouncedIsLive DEF ShouldPrepareForIntercept, ChannelIntercepted, Announcing
  <2>2. /\ reported' = reported
        /\ \/ UNCHANGED <<seen, heldBack>>
           \/ \E b \in BOOLEAN : Emit(r, RequestEvent(r, b))
    BY <1>6, <2>1 DEF ShouldPrepareForIntercept, ChannelIntercepted, Offer, SendOnRequest
  <2>3. QED BY <2>2, <1>2, <1>4, EmitIsEmits
<1>7. ASSUME NEW c \in Channel, OnResponse(c) PROVE Grows
  <2>1. channelToRequest[c] \in Request \cup {None}
    BY <1>1 DEF TypeInv
  <2>2. QED BY <2>1, <1>2, <1>4, <1>7, EmitIsEmits, RequestPairs DEF OnResponse, SendOnResponse
<1>8. ASSUME NEW c \in Channel, NEW upgrade \in BOOLEAN, OnRedirect(c, upgrade) PROVE Grows
  <2>1. channelToRequest[c] \in Request \cup {None}
    BY <1>1 DEF TypeInv
  <2>2. QED BY <2>1, <1>2, <1>4, <1>8, EmitIsEmits, RequestPairs DEF OnRedirect, SendOnResponse
<1>9. ASSUME NEW c \in Channel, OnStartRequest(c) PROVE Grows
  <2>1. Calls(c) => owner[c] \in Request
    BY <1>1 DEF TypeInv, Calls
  <2>2. QED BY <2>1, <1>2, <1>4, <1>9, EmitIsEmits DEF OnStartRequest, SendOnRequest
<1>10. ASSUME NEW c \in Channel, OnDataAvailable(c) PROVE Grows
  <2>1. owner[c] \in Request
    BY <1>1, <1>10 DEF OnDataAvailable, TypeInv, Calls
  <2>2. QED BY <2>1, <1>2, <1>4, <1>10, EmitIsEmits DEF OnDataAvailable
<1>11. ASSUME NEW c \in Channel, OnStopRequest(c) PROVE Grows
  <2>1. Calls(c) => owner[c] \in Request
    BY <1>1 DEF TypeInv, Calls
  <2>2. \/ UNCHANGED <<seen, heldBack>>
        \/ Calls(c) /\ Emit(owner[c], ResponseEvents(owner[c]) \o <<"finished">>)
        \/ Calls(c) /\ Emit(owner[c], <<"failed">>)
    BY <1>11 DEF OnStopRequest, StopWell, StopFailed
  <2>3. QED BY <2>1, <2>2, <1>3, <1>4, <1>11, EmitIsEmits DEF OnStopRequest
<1>12. ASSUME NEW c \in Channel, \/ Callback(c) \/ OnDataAvailable(c) \/ PromptAuth(c) \/ Cancel(c)
       PROVE  Grows
  <2>1. CASE InternalRedirect(c) \/ YieldToWorker(c) \/ WorkerResponds(c) \/ RedirectVerified(c)
             \/ PromptAuth(c) \/ Cancel(c)
    BY <2>1, <1>4 DEF InternalRedirect, YieldToWorker, WorkerResponds, RedirectVerified,
                      PromptAuth, Cancel, clientVars
  <2>2. QED BY <1>12, <2>1, <1>5, <1>6, <1>7, <1>9, <1>10, <1>11 DEF Callback
<1>13. ASSUME FrameAttached PROVE Grows
  <2>1. /\ \A q \in Request : seen'[q] = seen[q] \o heldBack[q] /\ heldBack'[q] = <<>>
        /\ Events
    BY <1>13 DEF FrameAttached, Joined, Nothing, LifeInv
  <2>2. ASSUME NEW q \in Request PROVE Life(q)' = Life(q)
    <3>1. seen[q] \o heldBack[q] \in Seq(EventName)
      BY <2>1 DEF Events
    <3>2. Life(q)' = (seen[q] \o heldBack[q]) \o <<>>
      BY <2>1 DEF Life
    <3>3. QED BY <3>1, <3>2, ConcatEmptySeq DEF Life
  <2>3. QED BY <2>2 DEF Grows
<1>14. CASE \/ \E l \in Load : Open(l)
            \/ \E r \in Request : ClientAnswers(r)
            \/ EnableRequestInterception \/ DisableRequestInterception \/ SetContextInterception
            \/ UNCHANGED vars
  BY <1>4, <1>14
  DEF Open, ClientAnswers, ResumeInterceptedRequest, FulfillInterceptedRequest,
      AbortInterceptedRequest, EndIntercepted, EnableRequestInterception,
      DisableRequestInterception, SetContextInterception, vars, clientVars
<1>15. QED BY <1>8, <1>12, <1>13, <1>14 DEF Next

-----------------------------------------------------------------------------
(* The inductive invariant: what an interception serves.                   *)

InTheMap(r) == r \in ToSet(interceptedRequests)

Member(r) ==
  ~IsRedirected(r) /\ Used(r) /\ request[r].sentOnRequest /\ LoadOf(r) \notin asked

\* A request is offered to an interceptor before it is reported, or after a
\* redirect; a channel that was intercepted is not the first of its load.
Offered(c) ==
  /\ chan[c] \in {"announced", "diverting", "intercepted", "worker"} =>
       IsRedirected(owner[c]) \/ ~request[owner[c]].sentOnRequest
  /\ chan[c] \in {"intercepted", "worker", "paused"} => Place(c) > 0
PausedTold(c) ==
  chan[c] = "paused" =>
    ~IsRedirected(owner[c]) /\ InTheMap(owner[c]) /\ Contains(Life(owner[c]), "intercepted")

\* Where the headers are that the client asked for.
Carried(c) ==
  /\ chan[c] \notin {"diverting", "intercepted", "worker", "paused"}
  /\ chan[c] \in {"announced", "sending", "answered", "redirecting"} =>
       c \in carries /\ request[owner[c]].headers
  /\ chan[c] = "opening" =>
       IF expectedRedirect[c] = None THEN request[owner[c]].expecting = "headers"
                                     ELSE request[owner[c]].headers
  /\ chan[c] = "resetting" => request[owner[c]].expecting = "headers"
Headers(c) ==
  LoadOf(c) \in asked =>
    /\ Place(c) = 0 => chan[c] = "done"
    /\ chan[c] = "announced" => IsRedirected(owner[c])
    /\ Active(c) /\ (LoadOf(c) \in Worker => ~IsRedirected(owner[c])) => Carried(c)

Good(c) == Offered(c) /\ PausedTold(c) /\ Headers(c)

ServeInv ==
  /\ interceptedRequests \in Seq(Request) /\ IsInjective(interceptedRequests)
  /\ \A r \in Request : InTheMap(r) => Member(r)
  /\ \A c \in Channel : Good(c)

LEMMA ServeInit == ASSUME Init PROVE ServeInv
BY DEF Init, ServeInv, Good, Offered, PausedTold, Headers, InTheMap, ToSet, IsInjective

\* What a step leaves alone that is about one load.
Elsewhere(l) ==
  /\ \A d \in Channel : LoadOf(d) # l =>
       /\ chan'[d] = chan[d] /\ owner'[d] = owner[d]
       /\ expectedRedirect'[d] = expectedRedirect[d] /\ (d \in carries' <=> d \in carries)
  /\ \A q \in Request : LoadOf(q) # l => request'[q] = request[q]
  /\ \A q \in Request : LoadOf(q) # l => (InTheMap(q)' <=> InTheMap(q))
  /\ \A m \in Load : m # l => (m \in asked' <=> m \in asked)

LEMMA GoodElsewhere ==
  ASSUME StructInv, StructInv', ServeInv, Grows, NEW l, Elsewhere(l), NEW d \in Channel, LoadOf(d) # l
  PROVE  Good(d)'
<1>1. /\ chan'[d] = chan[d] /\ owner'[d] = owner[d] /\ expectedRedirect'[d] = expectedRedirect[d]
      /\ (d \in carries' <=> d \in carries) /\ (LoadOf(d) \in asked' <=> LoadOf(d) \in asked)
  BY ChannelPairs DEF Elsewhere
<1>2. owner[d] # None => owner[d] \in Request /\ LoadOf(owner[d]) = LoadOf(d)
  BY RequestPairs DEF StructInv, TypeInv
<1>3. owner[d] # None => /\ request'[owner[d]] = request[owner[d]]
                         /\ (InTheMap(owner[d]) => InTheMap(owner[d])')
  BY <1>1, <1>2 DEF Elsewhere
<1>4. /\ chan[d] \in Announcing => owner[d] # None
      /\ LoadOf(d) \in asked /\ chan[d] = "opening" => owner[d] # None
  <2>1. chan[d] \in Announcing => owner[d] # None
    BY Announced_Owner
  <2>2. chan[d] = "opening" /\ expectedRedirect[d] # None => owner[d] # None
    BY RequestPairs DEF StructInv, TypeInv, RedirectInv, Continuing, Continues
  <2>3. chan[d] = "opening" /\ LoadOf(d) \in asked => Place(d) # 0
    BY DEF ServeInv, Good, Headers
  <2>4. chan[d] = "opening" /\ LoadOf(d) \in asked /\ expectedRedirect[d] = None
          => channelToRequest[d] # None
    BY <2>3 DEF StructInv, RedirectInv, Resuming
  <2>5. QED BY <2>1, <2>2, <2>4 DEF StructInv, MapInv, Agrees
<1>5. Offered(d)'
  BY <1>1, <1>3, <1>4 DEF ServeInv, Good, Offered, Announcing
<1>6. PausedTold(d)'
  BY <1>1, <1>2, <1>3, <1>4 DEF ServeInv, Good, PausedTold, Announcing, Grows
<1>7. Headers(d)'
  <2> SUFFICES ASSUME LoadOf(d) \in asked' PROVE Headers(d)'
    BY DEF Headers
  <2>1. Headers(d) /\ LoadOf(d) \in asked
    BY <1>1 DEF ServeInv, Good
  <2>2. CASE chan[d] \in Announcing \cup {"opening"}
    BY <2>1, <2>2, <1>1, <1>3, <1>4 DEF Headers, Carried, Active
  <2>3. CASE chan[d] \notin Announcing \cup {"opening"}
    BY <2>1, <2>3, <1>1 DEF Headers, Carried, Active, Announcing
  <2>4. QED BY <2>2, <2>3
<1>8. QED BY <1>5, <1>6, <1>7 DEF Good

LEMMA LocalServe ==
  ASSUME StructInv, StructInv', ServeInv, Grows, NEW l \in Load, Elsewhere(l),
         interceptedRequests' \in Seq(Request), IsInjective(interceptedRequests'),
         \A q \in Request : LoadOf(q) = l /\ InTheMap(q)' => Member(q)',
         \A d \in Channel : LoadOf(d) = l => Good(d)'
  PROVE  ServeInv'
<1>1. ASSUME NEW q \in Request, LoadOf(q) # l, InTheMap(q)' PROVE Member(q)'
  <2>1. Member(q) /\ request'[q] = request[q] /\ (LoadOf(q) \in asked' <=> LoadOf(q) \in asked)
    BY <1>1, RequestPairs DEF Elsewhere, ServeInv
  <2>2. QED BY <2>1 DEF Member, Used
<1>2. \A d \in Channel : Good(d)'
  BY GoodElsewhere
<1>3. QED BY <1>1, <1>2 DEF ServeInv

LEMMA Idle ==
  ASSUME ServeInv, NEW e \in Channel, ~Active(e), chan'[e] = chan[e],
         LoadOf(e) \in asked' => LoadOf(e) \in asked
  PROVE  Good(e)'
BY DEF ServeInv, Good, Offered, PausedTold, Headers, Active

\* Requests that are used stay so, and so does that they were reported.
RequestsStay ==
  \A q \in Request : Used(q) =>
    /\ request'[q].httpChannel # None
    /\ request[q].sentOnRequest => request'[q].sentOnRequest

LEMMA OneServe ==
  ASSUME StructInv, StructInv', ServeInv, Grows, NEW l \in Load, Elsewhere(l), RequestsStay,
         UNCHANGED <<interceptedRequests, asked>>,
         \A d \in Channel : LoadOf(d) = l => Good(d)' \/ (~Active(d) /\ chan'[d] = chan[d])
  PROVE  ServeInv'
<1>1. \A d \in Channel : LoadOf(d) = l => Good(d)'
  BY Idle
<1>2. \A q \in Request : InTheMap(q)' => Member(q)'
  BY DEF InTheMap, ServeInv, Member, RequestsStay, Used
<1>3. interceptedRequests' \in Seq(Request) /\ IsInjective(interceptedRequests')
  BY DEF ServeInv
<1>4. QED BY <1>1, <1>2, <1>3, LocalServe

\* A step of one channel.
LEMMA MoverServe ==
  ASSUME StructInv, StructInv', ServeInv, Grows, NEW c \in Channel, Active(c),
         Elsewhere(LoadOf(c)), RequestsStay, UNCHANGED <<interceptedRequests, asked>>,
         \A d \in Channel : d # c => chan'[d] = chan[d],
         Good(c)'
  PROVE  ServeInv'
<1>1. \A d \in Channel : LoadOf(d) = LoadOf(c) => Good(d)' \/ (~Active(d) /\ chan'[d] = chan[d])
  BY OneActive
<1>2. LoadOf(c) \in Load
  BY ChannelPairs
<1>3. QED BY <1>1, <1>2, OneServe

\* ... that leaves the listeners, the headers and the map of intercepted
\* requests, and alters one request.
Simple(c) ==
  /\ UNCHANGED <<owner, expectedRedirect, carries, interceptedRequests, asked>>
  /\ \A d \in Channel : d # c => chan'[d] = chan[d]
AltersOf(l) ==
  \/ request' = request
  \/ \E r \in Request : \E sent, onResponse, e, y, b :
       /\ LoadOf(r) = l /\ Alters(r, sent, onResponse, e, y, b)
       /\ request[r].sentOnRequest => sent

LEMMA SimpleServe ==
  ASSUME StructInv, StructInv', ServeInv, Grows, NEW c \in Channel, Active(c), Simple(c),
         AltersOf(LoadOf(c)), Good(c)'
  PROVE  ServeInv'
<1>1. /\ \A q \in Request : LoadOf(q) # LoadOf(c) => request'[q] = request[q]
      /\ RequestsStay
  <2>1. CASE request' = request
    BY <2>1 DEF RequestsStay, Used
  <2>2. CASE request' # request
    <3>1. PICK r \in Request : \E sent, onResponse, e, y, b :
                 /\ LoadOf(r) = LoadOf(c) /\ Alters(r, sent, onResponse, e, y, b)
                 /\ request[r].sentOnRequest => sent
      BY <2>2 DEF AltersOf
    <3>2. QED BY <3>1 DEF Alters, RequestsStay, Used
  <2>3. QED BY <2>1, <2>2
<1>2. Elsewhere(LoadOf(c))
  BY <1>1 DEF Simple, Elsewhere, InTheMap
<1>3. QED BY <1>1, <1>2, MoverServe DEF Simple

LEMMA OneAltered ==
  ASSUME NEW r \in Request, NEW l, LoadOf(r) = l, NEW sent, NEW onResponse, NEW e, NEW y, NEW b,
         Alters(r, sent, onResponse, e, y, b), request[r].sentOnRequest => sent
  PROVE  AltersOf(l)
BY DEF AltersOf

\* A channel that is past its interception and its redirects is good.
LEMMA GoodLate ==
  ASSUME ServeInv, NEW c \in Channel, Active(c), UNCHANGED asked,
         chan'[c] \in {"synthesized", "cancelled", "failing", "receiving", "done"}
  PROVE  Good(c)'
BY DEF ServeInv, Good, Offered, PausedTold, Headers, Carried, Active

\* Where the channel of a request that is asked has its listener.
LEMMA OwnerKnown ==
  ASSUME StructInv, ServeInv, NEW d \in Channel,
         \/ chan[d] \in Announcing
         \/ chan[d] = "opening" /\ LoadOf(d) \in asked
  PROVE  owner[d] \in Request /\ LoadOf(owner[d]) = LoadOf(d) /\ owner[d] # None
<1>1. CASE chan[d] \in Announcing
  BY <1>1, Announced_Owner
<1>2. CASE chan[d] = "opening" /\ LoadOf(d) \in asked
  <2>1. Place(d) # 0
    BY <1>2 DEF ServeInv, Good, Headers
  <2>2. owner[d] # None
    BY <1>2, <2>1, RequestPairs
    DEF StructInv, TypeInv, RedirectInv, Continuing, Continues, Resuming, MapInv, Agrees
  <2>3. QED BY <2>2, RequestPairs DEF StructInv, TypeInv
<1>3. QED BY <1>1, <1>2

LEMMA OpenServe ==
  ASSUME StructInv, StructInv', ServeInv, Grows, NEW l \in Load, Open(l)
  PROVE  ServeInv'
<1>1. PICK c \in Channel : c = <<l, 0>> /\ LoadOf(c) = l /\ Place(c) = 0
  BY ChannelPairs
<1>2. /\ chan[c] = "none" /\ chan'[c] = "opening" /\ \A d \in Channel : d # c => chan'[d] = chan[d]
      /\ UNCHANGED <<owner, expectedRedirect, carries, request, interceptedRequests, asked>>
  BY <1>1 DEF Open, Became, mapVars, headerVars, pageVars, StructInv, TypeInv
<1>3. Elsewhere(l) /\ RequestsStay
  BY <1>1, <1>2 DEF Elsewhere, InTheMap, RequestsStay, Used
<1>4. Good(c)'
  BY <1>1, <1>2 DEF ServeInv, Good, Offered, PausedTold, Headers
<1>5. \A d \in Channel : LoadOf(d) = l /\ d # c => ~Active(d)
  BY <1>1, <1>2, ChannelPairs DEF StructInv, LineInv, Active
<1>6. QED BY <1>2, <1>3, <1>4, <1>5, OneServe

LEMMA OnRequestServe ==
  ASSUME StructInv, StructInv', ServeInv, Grows, NEW c \in Channel, OnRequest(c)
  PROVE  ServeInv'
<1>1. /\ chan[c] = "opening" /\ Active(c) /\ Headers(c)
      /\ chan'[c] = IF c \in plain THEN "sending" ELSE "announced"
      /\ \A d \in Channel : d # c => chan'[d] = chan[d]
      /\ UNCHANGED <<interceptedRequests, asked>>
  BY DEF OnRequest, Active, Announced, Became, StructInv, TypeInv, pageVars, ServeInv, Good
<1>2. CASE NewRequest(c)
  <2>1. PICK r \in Request : r = <<LoadOf(c), 0>> /\ LoadOf(r) = LoadOf(c)
    BY ChannelPairs, RequestPairs
  <2>2. /\ expectedRedirect[c] = None /\ channelToRequest[c] = None
        /\ request' = [request EXCEPT ![r] = Constructed(c, FALSE)]
        /\ owner' = [owner EXCEPT ![c] = r]
        /\ UNCHANGED <<expectedRedirect, carries>>
    BY <1>2, <2>1 DEF NewRequest
  <2>3. ~Used(r) /\ Place(c) = 0
    BY <1>1, <2>1, <2>2 DEF StructInv, RedirectInv, Resuming, UseInv, Fresh
  <2>4. /\ request'[r] = Constructed(c, FALSE) /\ owner'[c] = r
        /\ \A q \in Request : q # r => request'[q] = request[q]
        /\ \A d \in Channel : d # c => owner'[d] = owner[d]
    BY <2>1, <2>2 DEF StructInv, TypeInv
  <2>5. ~request'[r].sentOnRequest
    BY <2>4 DEF Constructed, Unused
  <2>6. Elsewhere(LoadOf(c)) /\ RequestsStay
    BY <1>1, <2>1, <2>2, <2>3, <2>4 DEF Elsewhere, InTheMap, RequestsStay, Used
  <2>7. Good(c)'
    BY <1>1, <2>3, <2>4, <2>5 DEF Good, Offered, PausedTold, Headers
  <2>8. QED BY <1>1, <2>6, <2>7, MoverServe
<1>3. CASE RedirectedRequest(c)
  <2>1. PICK r \in Request : r = expectedRedirect[c] /\ r # None
    BY <1>3 DEF RedirectedRequest, StructInv, TypeInv
  <2>2. PICK s \in Request : s = Successor(r) /\ IsRedirected(s) /\ LoadOf(s) = LoadOf(c)
    BY <1>3, <2>1, RequestPairs DEF RedirectedRequest, StructInv, TypeInv
  <2>3. Continues(c, r)
    BY <1>1, <2>1 DEF StructInv, RedirectInv, Continuing
  <2>4. ~Used(s) /\ owner[c] = r /\ r # s
    BY <2>2, <2>3, NextPairs
    DEF Continues, Used, StructInv, TypeInv, Fields, UseInv, LatestMapped, IsLatest
  <2> DEFINE new == [Constructed(c, request[r].headers) EXCEPT !.sentOnRequest = TRUE]
  <2>5. /\ request' = [request EXCEPT ![s] = new]
        /\ owner' = [owner EXCEPT ![c] = s]
        /\ expectedRedirect' = [expectedRedirect EXCEPT ![c] = None]
        /\ carries' = IF request[r].headers THEN carries \cup {c} ELSE carries
    BY <1>3, <2>1, <2>2 DEF RedirectedRequest
  <2>6. new.headers = request[r].headers
    BY DEF Constructed, Unused
  <2> HIDE DEF new
  <2>7. /\ request'[s] = new /\ owner'[c] = s
        /\ \A q \in Request : q # s => request'[q] = request[q]
        /\ \A d \in Channel : d # c => /\ owner'[d] = owner[d]
                                       /\ expectedRedirect'[d] = expectedRedirect[d]
                                       /\ (d \in carries' <=> d \in carries)
    BY <2>2, <2>5 DEF StructInv, TypeInv
  <2>8. Elsewhere(LoadOf(c)) /\ RequestsStay
    BY <1>1, <2>2, <2>4, <2>7 DEF Elsewhere, InTheMap, RequestsStay, Used
  <2>9. Headers(c)'
    <3> SUFFICES ASSUME LoadOf(c) \in asked, LoadOf(c) \notin Worker PROVE Headers(c)'
      BY <1>1, <2>2, <2>7 DEF Headers
    <3>1. request[r].headers /\ Place(c) # 0
      BY <1>1, <2>1, <2>4 DEF Headers, Carried
    <3>2. c \in carries' /\ request'[s].headers
      BY <3>1, <2>5, <2>6, <2>7
    <3>3. QED BY <3>1, <3>2, <1>1, <2>2, <2>7 DEF Headers, Carried
  <2>10. Good(c)'
    BY <1>1, <2>2, <2>7, <2>9 DEF Good, Offered, PausedTold
  <2>11. QED BY <1>1, <2>8, <2>10, MoverServe
<1>4. CASE ResumedChannel(c)
  <2>1. PICK r \in Request : r = channelToRequest[c] /\ r # None
    BY <1>4 DEF ResumedChannel, StructInv, TypeInv
  <2>2. /\ expectedRedirect[c] = None
        /\ \/ request[r].expecting = "nothing" /\ request' = request
           \/ /\ request[r].expecting # "nothing"
              /\ request' = [request EXCEPT ![r].expecting = "nothing",
                                            ![r].headers = (request[r].expecting = "headers")]
        /\ carries' = IF request[r].expecting = "headers" THEN carries \cup {c} ELSE carries
        /\ UNCHANGED <<expectedRedirect, owner>>
    BY <1>4, <2>1 DEF ResumedChannel
  <2>3. owner[c] = r /\ LoadOf(r) = LoadOf(c) /\ chan'[c] = "sending"
    BY <1>1, <2>1, <2>2 DEF StructInv, TypeInv, MapInv, Agrees, RedirectInv, Resuming
  <2>4. /\ \A q \in Request : q # r => request'[q] = request[q]
        /\ \A q \in Request : Same(q) /\ request'[q].httpChannel = request[q].httpChannel
        /\ request[r].expecting = "headers" => request'[r].headers
    BY <2>2 DEF StructInv, TypeInv, Fields, Same
  <2>5. Elsewhere(LoadOf(c)) /\ RequestsStay
    BY <1>1, <2>2, <2>3, <2>4 DEF Elsewhere, InTheMap, RequestsStay, Used, Same
  <2>6. Good(c)'
    BY <1>1, <2>2, <2>3, <2>4 DEF Good, Offered, PausedTold, Headers, Carried
  <2>7. QED BY <1>1, <2>5, <2>6, MoverServe
<1>5. QED BY <1>2, <1>3, <1>4 DEF OnRequest

LEMMA ShouldPrepareServe ==
  ASSUME StructInv, StructInv', ServeInv, Grows, NEW c \in Channel, ShouldPrepareForIntercept(c)
  PROVE  ServeInv'
<1>1. PICK r \in Request : /\ r = owner[c] /\ LoadOf(r) = LoadOf(c) /\ Calls(c)
                           /\ chan[c] = "announced" /\ Active(c)
  BY Announced_Owner DEF ShouldPrepareForIntercept, Announcing
<1>2. Simple(c) /\ TypeInv /\ Good(c) /\ asked' = asked
  BY DEF ShouldPrepareForIntercept, Simple, Became, StructInv, TypeInv, mapVars, pageVars,
         headerVars, ServeInv
<1>3. chan'[c] \in {"diverting", "sending"} /\ owner'[c] = r
  BY <1>1, <1>2 DEF ShouldPrepareForIntercept, Became, TypeInv, Simple
<1>4. CASE request' = [request EXCEPT ![r].yields = TRUE] /\ LoadOf(c) \in Worker
           /\ chan'[c] = "diverting"
  <2>1. Alters(r, request[r].sentOnRequest, request[r].sentOnResponse, request[r].expecting, TRUE,
               request[r].body)
    BY <1>2, <1>4, YieldsAlters
  <2>2. Good(c)'
    BY <1>1, <1>2, <1>3, <1>4, <2>1 DEF Good, Offered, PausedTold, Headers, Carried, Alters
  <2>3. QED BY <1>1, <1>2, <2>1, <2>2, OneAltered, SimpleServe
<1>5. CASE request' = request /\ ShouldIntercept(r) /\ chan'[c] = "diverting"
  <2>1. Good(c)'
    BY <1>1, <1>2, <1>3, <1>5 DEF Good, Offered, PausedTold, Headers, Carried, ShouldIntercept
  <2>2. QED BY <1>1, <1>2, <1>5, <2>1, SimpleServe DEF AltersOf
<1>6. CASE SendOnRequest(r, FALSE) /\ chan'[c] = "sending"
  <2>1. Alters(r, TRUE, request[r].sentOnResponse, request[r].expecting, request[r].yields,
               request[r].body)
    BY <1>2, <1>6, SendOnRequestAlters DEF SendOnRequest
  <2>2. Good(c)'
    BY <1>1, <1>2, <1>3, <1>6, <2>1
    DEF Good, Offered, PausedTold, Headers, Carried, Alters, Simple
  <2>3. QED BY <1>1, <1>2, <2>1, <2>2, OneAltered, SimpleServe
<1>7. QED
  <2>1. LoadOf(c) \in Worker => /\ request' = [request EXCEPT ![r].yields = TRUE]
                                /\ chan'[c] = "diverting"
    BY <1>1, <1>2 DEF ShouldPrepareForIntercept, Became, TypeInv
  <2>2. LoadOf(c) \notin Worker /\ ShouldIntercept(r) => request' = request /\ chan'[c] = "diverting"
    BY <1>1, <1>2 DEF ShouldPrepareForIntercept, Became, TypeInv
  <2>3. LoadOf(c) \notin Worker /\ ~ShouldIntercept(r) =>
          SendOnRequest(r, FALSE) /\ chan'[c] = "sending"
    BY <1>1, <1>2 DEF ShouldPrepareForIntercept, Became, TypeInv
  <2>4. QED BY <2>1, <2>2, <2>3, <1>4, <1>5, <1>6

LEMMA InternalRedirectServe ==
  ASSUME StructInv, StructInv', ServeInv, Grows, NEW c \in Channel, InternalRedirect(c)
  PROVE  ServeInv'
<1>1. PICK d \in Channel : /\ d = NextChannel(c) /\ d # c /\ LoadOf(d) = LoadOf(c)
                           /\ Place(d) = Place(c) + 1 /\ Place(c) \in Nat
  BY NextPairs, ChannelPairs DEF InternalRedirect
<1>2. PICK r \in Request : /\ r = owner[c] /\ channelToRequest[c] = r /\ r # None
                           /\ LoadOf(r) = LoadOf(c) /\ Active(c) /\ Used(r)
                           /\ chan[c] \in {"diverting", "resetting"}
  BY Announced_Owner DEF InternalRedirect, Announcing
<1>3. /\ chan' = [chan EXCEPT ![c] = "done",
                              ![d] = IF chan[c] = "diverting" THEN "intercepted" ELSE "opening"]
      /\ owner' = [owner EXCEPT ![d] = r]
      /\ request' = [request EXCEPT ![r].httpChannel = d]
      /\ expectedRedirect' = expectedRedirect
      /\ carries' = IF c \in carries THEN carries \cup {d} ELSE carries
      /\ UNCHANGED <<interceptedRequests, asked>>
  BY <1>1, <1>2 DEF InternalRedirect, Follows, pageVars
<1>4. /\ chan'[c] = "done"
      /\ chan'[d] = IF chan[c] = "diverting" THEN "intercepted" ELSE "opening"
      /\ \A e \in Channel : e # c /\ e # d => chan'[e] = chan[e]
      /\ owner'[d] = r /\ \A e \in Channel : e # d => owner'[e] = owner[e]
      /\ \A q \in Request : q # r => request'[q] = request[q]
      /\ request'[r].httpChannel = d /\ Same(r) /\ request'[r].expecting = request[r].expecting
  BY <1>1, <1>2, <1>3 DEF StructInv, TypeInv, Fields, Same
<1>5. expectedRedirect[d] = None /\ Good(c)
  BY <1>1, <1>2 DEF StructInv, RedirectInv, Expected, ServeInv
<1>6. d # None
  BY ChannelPairs
<1>7. Elsewhere(LoadOf(c)) /\ RequestsStay
  BY <1>1, <1>2, <1>3, <1>4, <1>6 DEF Elsewhere, InTheMap, RequestsStay, Used, Same
<1>8. Good(c)'
  BY <1>2, <1>3, <1>4, <1>5, GoodLate
<1>9. Good(d)'
  BY <1>1, <1>2, <1>3, <1>4, <1>5 DEF Good, Offered, PausedTold, Headers, Carried, Same
<1>10. \A e \in Channel : LoadOf(e) = LoadOf(c) => Good(e)' \/ (~Active(e) /\ chan'[e] = chan[e])
  BY <1>2, <1>4, <1>8, <1>9, OneActive
<1>11. LoadOf(c) \in Load
  BY ChannelPairs
<1>12. QED BY <1>3, <1>7, <1>10, <1>11, OneServe

LEMMA ChannelInterceptedServe ==
  ASSUME StructInv, StructInv', LifeInv, ServeInv, Grows, NEW c \in Channel, ChannelIntercepted(c)
  PROVE  ServeInv'
<1>1. PICK r \in Request : /\ r = owner[c] /\ LoadOf(r) = LoadOf(c) /\ Active(c) /\ Used(r)
                           /\ chan[c] \in {"intercepted", "worker"}
  BY Announced_Owner DEF ChannelIntercepted, Announcing
<1>2. /\ TypeInv /\ Good(c)
      /\ UNCHANGED <<owner, expectedRedirect, carries, asked, reported>>
      /\ \A d \in Channel : d # c => chan'[d] = chan[d]
  BY DEF ChannelIntercepted, Offer, Became, StructInv, TypeInv, mapVars, headerVars, ServeInv
<1>3. LoadOf(c) \in asked => LoadOf(c) \in Worker /\ IsRedirected(r)
  BY <1>1, <1>2 DEF Good, Headers, Carried
<1>4. ASSUME chan'[c] = "resetting" PROVE Good(c)'
  BY <1>1, <1>2, <1>3, <1>4 DEF Good, Offered, PausedTold, Headers
<1>5. CASE request' = Resumed(r, "plain") /\ chan'[c] = "resetting" /\ UNCHANGED interceptedRequests
  <2>1. Alters(r, request[r].sentOnRequest, request[r].sentOnResponse, "plain", request[r].yields,
               request[r].body)
    BY <1>2, <1>5, ResumedAlters
  <2>2. QED BY <1>1, <1>2, <1>4, <1>5, <2>1, OneAltered, SimpleServe DEF Simple
<1>6. CASE /\ request' = [request EXCEPT ![r].sentOnRequest = TRUE, ![r].expecting = "plain"]
           /\ chan'[c] = "resetting" /\ UNCHANGED interceptedRequests
  <2>1. Alters(r, TRUE, request[r].sentOnResponse, "plain", request[r].yields, request[r].body)
    BY <1>2, <1>6, PassedAlters
  <2>2. QED BY <1>1, <1>2, <1>4, <1>6, <2>1, OneAltered, SimpleServe DEF Simple
<1>7. CASE /\ ShouldIntercept(r) /\ SendOnRequest(r, TRUE) /\ chan'[c] = "paused"
           /\ interceptedRequests' = Append(interceptedRequests, r)
  <2>1. /\ ~IsRedirected(r) /\ Tracked(r) /\ ~request[r].sentOnRequest /\ Place(c) > 0
        /\ LoadOf(r) \notin asked
    BY <1>1, <1>2, <1>3, <1>7 DEF ShouldIntercept, Good, Offered
  <2>2. ~InTheMap(r)
    BY <2>1 DEF ServeInv, Member
  <2>3. /\ interceptedRequests' \in Seq(Request) /\ IsInjective(interceptedRequests')
        /\ \A q \in Request : InTheMap(q)' <=> (InTheMap(q) \/ q = r)
    BY <1>7, <2>2, AppendedMap DEF ServeInv, InTheMap
  <2>4. Alters(r, TRUE, request[r].sentOnResponse, request[r].expecting, request[r].yields,
               request[r].body)
    BY <1>2, <1>7, SendOnRequestAlters DEF SendOnRequest
  <2>5. Elsewhere(LoadOf(c))
    BY <1>1, <1>2, <2>3, <2>4 DEF Elsewhere, Alters
  <2>6. \A q \in Request : InTheMap(q)' => Member(q)'
    <3>1. Member(r)'
      BY <1>1, <1>2, <2>1, <2>4 DEF Member, Alters, Used
    <3>2. \A q \in Request : q # r /\ InTheMap(q)' => Member(q)'
      BY <1>2, <2>3, <2>4 DEF ServeInv, Member, Alters, Used
    <3>3. QED BY <3>1, <3>2
  <2>7. Contains(Life(r)', "intercepted")
    <3>1. RequestEvent(r, TRUE) = <<"intercepted">> /\ <<"intercepted">> \in Seq(EventName)
      BY <2>1 DEF RequestEvent, EventName
    <3>2. Emit(r, <<"intercepted">>)
      BY <1>7, <3>1 DEF SendOnRequest
    <3>3. Life(r)' = Plus(Life(r), <<"intercepted">>)
      BY <1>2, <2>1, <3>1, <3>2, EmitLife DEF LifeInv
    <3>4. Contains(<<"intercepted">>, "intercepted")
      BY DEF Contains
    <3>5. Life(r) \in Seq(EventName)
      BY LifeSequences
    <3>6. Contains(Plus(Life(r), <<"intercepted">>), "intercepted")
      BY <3>1, <3>4, <3>5, PlusContains
    <3>7. QED BY <3>3, <3>6
  <2>8. Good(c)'
    <3>1. PausedTold(c)'
      BY <1>1, <1>2, <2>1, <2>3, <2>7 DEF PausedTold
    <3>2. Offered(c)' /\ Headers(c)'
      BY <1>1, <1>2, <1>7, <2>1 DEF Offered, Headers
    <3>3. QED BY <3>1, <3>2 DEF Good
  <2>9. \A d \in Channel : LoadOf(d) = LoadOf(c) => Good(d)'
    <3>1. \A d \in Channel : LoadOf(d) = LoadOf(c) /\ d # c => ~Active(d)
      BY <1>1, OneActive
    <3>2. QED BY <1>2, <2>8, <3>1, Idle
  <2>10. LoadOf(c) \in Load
    BY ChannelPairs
  <2>11. QED BY <2>3, <2>5, <2>6, <2>9, <2>10, LocalServe
<1>8. QED
  <2>1. \/ ~Tracked(r) /\ request' = Resumed(r, "plain") /\ Became(c, "resetting")
           /\ UNCHANGED interceptedRequests
        \/ Tracked(r) /\ Offer(c, r)
    BY <1>1 DEF ChannelIntercepted
  <2>2. \A state : Became(c, state) => chan'[c] = state
    BY <1>2 DEF Became, TypeInv
  <2>3. QED BY <2>1, <2>2, <1>5, <1>6, <1>7 DEF Offer

LEMMA WorkerServe ==
  ASSUME StructInv, StructInv', ServeInv, Grows, NEW c \in Channel,
         YieldToWorker(c) \/ WorkerResponds(c)
  PROVE  ServeInv'
<1>1. PICK r \in Request : /\ r = owner[c] /\ LoadOf(r) = LoadOf(c) /\ Active(c)
                           /\ chan[c] \in {"intercepted", "worker"}
  BY Announced_Owner DEF YieldToWorker, WorkerResponds, Announcing
<1>2. Simple(c) /\ TypeInv /\ Good(c) /\ asked' = asked
  BY DEF YieldToWorker, WorkerResponds, Simple, Became, StructInv, TypeInv, mapVars, pageVars,
         headerVars, ServeInv
<1>3. CASE YieldToWorker(c)
  <2>1. request' = [request EXCEPT ![r].yields = FALSE] /\ chan'[c] = "worker"
    BY <1>1, <1>2, <1>3 DEF YieldToWorker, Became, TypeInv
  <2>2. Alters(r, request[r].sentOnRequest, request[r].sentOnResponse, request[r].expecting, FALSE,
               request[r].body)
    BY <1>2, <2>1, YieldsAlters
  <2>3. Good(c)'
    BY <1>1, <1>2, <2>1, <2>2 DEF Good, Offered, PausedTold, Headers, Carried, Alters, Simple
  <2>4. QED BY <1>1, <1>2, <2>2, <2>3, OneAltered, SimpleServe
<1>4. CASE WorkerResponds(c)
  <2>1. request' = request /\ chan'[c] = "synthesized"
    BY <1>2, <1>4 DEF WorkerResponds, Became, TypeInv
  <2>2. QED BY <1>1, <1>2, <2>1, GoodLate, SimpleServe DEF AltersOf
<1>5. QED BY <1>3, <1>4

LEMMA OnResponseServe ==
  ASSUME StructInv, StructInv', ServeInv, Grows, NEW c \in Channel, OnResponse(c)
  PROVE  ServeInv'
<1>1. PICK r \in Request : /\ r = owner[c] /\ LoadOf(r) = LoadOf(c) /\ Active(c) /\ r # None
                           /\ chan[c] = "sending" /\ channelToRequest[c] = r
  BY Announced_Owner DEF OnResponse, Announcing
<1>2. Simple(c) /\ TypeInv /\ Good(c) /\ asked' = asked
  BY DEF OnResponse, Simple, Became, StructInv, TypeInv, mapVars, pageVars, headerVars, ServeInv
<1>3. SendOnResponse(r) /\ chan'[c] = "answered"
  BY <1>1, <1>2 DEF OnResponse, Became, TypeInv
<1>4. Alters(r, TRUE, TRUE, request[r].expecting, request[r].yields, request[r].body)
  BY <1>2, <1>3, SendOnResponseAlters DEF SendOnResponse
<1>5. Good(c)'
  BY <1>1, <1>2, <1>3, <1>4 DEF Good, Offered, PausedTold, Headers, Carried, Alters, Simple, Active
<1>6. QED BY <1>1, <1>2, <1>4, <1>5, OneAltered, SimpleServe

LEMMA OnRedirectServe ==
  ASSUME StructInv, StructInv', ServeInv, Grows, NEW c \in Channel, NEW upgrade \in BOOLEAN,
         OnRedirect(c, upgrade)
  PROVE  ServeInv'
<1>1. PICK d \in Channel : d = NextChannel(c) /\ d # c /\ LoadOf(d) = LoadOf(c)
  BY RoomGivesNext, NextPairs, ChannelPairs DEF OnRedirect
<1>2. PICK r \in Request : /\ r = owner[c] /\ channelToRequest[c] = r /\ LoadOf(r) = LoadOf(c)
                           /\ Active(c) /\ r # None /\ chan[c] \in {"sending", "answered"}
  BY Announced_Owner DEF OnRedirect, Announcing
<1>3. /\ TypeInv /\ Good(c) /\ UNCHANGED <<carries, interceptedRequests, asked>>
      /\ chan'[c] = "redirecting" /\ \A e \in Channel : e # c => chan'[e] = chan[e]
      /\ \A e \in Channel : e # d =>
           owner'[e] = owner[e] /\ expectedRedirect'[e] = expectedRedirect[e]
  BY <1>1, <1>2 DEF OnRedirect, Became, StructInv, TypeInv, ServeInv, headerVars, pageVars
<1>4. /\ AltersOf(LoadOf(c)) /\ RequestsStay
      /\ \A q \in Request : LoadOf(q) # LoadOf(c) => request'[q] = request[q]
      /\ request'[r].headers = request[r].headers
  <2>1. SendOnResponse(r) \/ request' = request
    BY <1>2 DEF OnRedirect
  <2>2. CASE SendOnResponse(r)
    <3>1. Alters(r, TRUE, TRUE, request[r].expecting, request[r].yields, request[r].body)
      BY <1>3, <2>2, SendOnResponseAlters DEF SendOnResponse
    <3>2. QED BY <1>2, <3>1, OneAltered DEF Alters, RequestsStay, Used
  <2>3. CASE request' = request
    BY <2>3 DEF AltersOf, RequestsStay, Used
  <2>4. QED BY <2>1, <2>2, <2>3
<1>5. Elsewhere(LoadOf(c))
  BY <1>1, <1>3, <1>4 DEF Elsewhere, InTheMap
<1>6. Good(c)'
  BY <1>1, <1>2, <1>3, <1>4 DEF Good, Offered, PausedTold, Headers, Carried, Active
<1>7. QED BY <1>2, <1>3, <1>4, <1>5, <1>6, MoverServe

LEMMA RedirectVerifiedServe ==
  ASSUME StructInv, StructInv', ServeInv, Grows, NEW c \in Channel, RedirectVerified(c)
  PROVE  ServeInv'
<1>1. PICK d \in Channel : /\ d = NextChannel(c) /\ d # c /\ LoadOf(d) = LoadOf(c)
                           /\ Place(d) = Place(c) + 1 /\ Place(c) \in Nat
  BY NextPairs, ChannelPairs DEF RedirectVerified, StructInv, RedirectInv, Redirecting
<1>2. PICK r \in Request : /\ r = owner[c] /\ LoadOf(r) = LoadOf(c) /\ Active(c) /\ r # None
                           /\ expectedRedirect[d] = r /\ owner[d] = r /\ chan[c] = "redirecting"
  BY <1>1, Announced_Owner
  DEF RedirectVerified, Announcing, StructInv, RedirectInv, Redirecting
<1>3. /\ UNCHANGED <<owner, expectedRedirect, request, carries, interceptedRequests, asked>>
      /\ chan'[c] = "done" /\ chan'[d] = "opening"
      /\ \A e \in Channel : e # c /\ e # d => chan'[e] = chan[e]
  BY <1>1 DEF RedirectVerified, StructInv, TypeInv, mapVars, pageVars, headerVars
<1>4. Elsewhere(LoadOf(c)) /\ RequestsStay
  BY <1>1, <1>3 DEF Elsewhere, InTheMap, RequestsStay, Used
<1>5. Good(c)'
  BY <1>2, <1>3, GoodLate
<1>6. Good(d)'
  <2>1. Headers(c)
    BY DEF ServeInv, Good
  <2>2. QED BY <1>1, <1>2, <1>3, <2>1 DEF Good, Offered, PausedTold, Headers, Carried, Active
<1>7. \A e \in Channel : LoadOf(e) = LoadOf(c) => Good(e)' \/ (~Active(e) /\ chan'[e] = chan[e])
  BY <1>2, <1>3, <1>5, <1>6, OneActive
<1>8. LoadOf(c) \in Load
  BY ChannelPairs
<1>9. QED BY <1>3, <1>4, <1>7, <1>8, OneServe

LEMMA PromptAuthServe ==
  ASSUME StructInv, StructInv', ServeInv, Grows, NEW c \in Channel, PromptAuth(c)
  PROVE  ServeInv'
<1>1. PICK r \in Request : /\ r = owner[c] /\ LoadOf(r) = LoadOf(c) /\ Active(c) /\ r # None
                           /\ chan[c] = "answered"
  BY Announced_Owner DEF PromptAuth, Announcing
<1>2. /\ TypeInv /\ Good(c)
      /\ UNCHANGED <<owner, request, carries, interceptedRequests, asked>>
      /\ chan'[c] = "opening" /\ \A d \in Channel : d # c => chan'[d] = chan[d]
      /\ expectedRedirect'[c] = r
      /\ \A d \in Channel : d # c => expectedRedirect'[d] = expectedRedirect[d]
  BY <1>1 DEF PromptAuth, Became, StructInv, TypeInv, ServeInv, headerVars, pageVars
<1>3. Elsewhere(LoadOf(c)) /\ RequestsStay
  BY <1>2 DEF Elsewhere, InTheMap, RequestsStay, Used
<1>4. Good(c)'
  BY <1>1, <1>2 DEF Good, Offered, PausedTold, Headers, Carried, Active
<1>5. QED BY <1>1, <1>2, <1>3, <1>4, MoverServe

LEMMA CancelServe ==
  ASSUME StructInv, StructInv', ServeInv, Grows, NEW c \in Channel, Cancel(c)
  PROVE  ServeInv'
<1>1. Simple(c) /\ Active(c) /\ asked' = asked /\ request' = request
  BY DEF Cancel, Simple, Became, StructInv, TypeInv, mapVars, pageVars, headerVars, Active
<1>2. chan'[c] \in {"failing", "cancelled"}
  BY DEF Cancel, Became, StructInv, TypeInv
<1>3. QED BY <1>1, <1>2, GoodLate, SimpleServe DEF AltersOf

\* The request of a channel that calls back.
LEMMA CallsOwner ==
  ASSUME StructInv, NEW c \in Channel, Calls(c)
  PROVE  owner[c] \in Request /\ LoadOf(owner[c]) = LoadOf(c) /\ owner[c] # None
BY RequestPairs DEF StructInv, TypeInv, Calls

LEMMA OnStartServe ==
  ASSUME StructInv, StructInv', ServeInv, Grows, NEW c \in Channel, OnStartRequest(c)
  PROVE  ServeInv'
<1>1. Simple(c) /\ Active(c) /\ asked' = asked /\ TypeInv
  BY DEF OnStartRequest, Simple, Became, StructInv, TypeInv, mapVars, pageVars, headerVars, Active
<1>2. chan'[c] \in {"failing", "receiving"}
  BY <1>1 DEF OnStartRequest, Became, TypeInv
<1>3. AltersOf(LoadOf(c))
  <2>1. CASE Calls(c)
    <3>1. PICK r \in Request : r = owner[c] /\ LoadOf(r) = LoadOf(c)
      BY <2>1, CallsOwner
    <3>2. Alters(r, TRUE, request[r].sentOnResponse, request[r].expecting, request[r].yields,
                 request[r].body)
      BY <1>1, <2>1, <3>1, SendOnRequestAlters DEF OnStartRequest, SendOnRequest
    <3>3. QED BY <3>1, <3>2, OneAltered
  <2>2. CASE ~Calls(c)
    BY <2>2 DEF OnStartRequest, AltersOf
  <2>3. QED BY <2>1, <2>2
<1>4. QED BY <1>1, <1>2, <1>3, GoodLate, SimpleServe

LEMMA OnStopServe ==
  ASSUME StructInv, StructInv', ServeInv, Grows, NEW c \in Channel, OnStopRequest(c)
  PROVE  ServeInv'
<1>1. Simple(c) /\ Active(c) /\ asked' = asked /\ TypeInv /\ chan'[c] = "done"
  BY DEF OnStopRequest, Simple, Became, StructInv, TypeInv, pageVars, headerVars, Active
<1>2. AltersOf(LoadOf(c))
  <2>1. CASE Calls(c) /\ StopWell(c)
    <3>1. PICK r \in Request : r = owner[c] /\ LoadOf(r) = LoadOf(c)
      BY <2>1, CallsOwner
    <3>2. Alters(r, TRUE, TRUE, request[r].expecting, request[r].yields, request[r].body)
      BY <1>1, <2>1, <3>1, SendOnResponseAlters DEF StopWell
    <3>3. QED BY <3>1, <3>2, OneAltered
  <2>2. CASE request' = request
    BY <2>2 DEF AltersOf
  <2>3. QED BY <2>1, <2>2 DEF OnStopRequest, StopFailed
<1>3. QED BY <1>1, <1>2, GoodLate, SimpleServe

LEMMA OnDataServe ==
  ASSUME StructInv, StructInv', ServeInv, Grows, NEW c \in Channel, OnDataAvailable(c)
  PROVE  ServeInv'
<1>1. Simple(c) /\ Active(c) /\ asked' = asked /\ TypeInv /\ chan'[c] = "receiving"
  BY DEF OnDataAvailable, Simple, StructInv, TypeInv, pageVars, headerVars, netVars, mapVars, Active
<1>2. PICK r \in Request : r = owner[c] /\ LoadOf(r) = LoadOf(c)
  BY CallsOwner DEF OnDataAvailable
<1>3. Alters(r, TRUE, TRUE, request[r].expecting, request[r].yields, request[r].body + Chunk)
  BY <1>1, <1>2, DataAlters DEF OnDataAvailable
<1>4. QED BY <1>1, <1>2, <1>3, OneAltered, GoodLate, SimpleServe

\* The one request of a load that a client may be asked about.
LEMMA PausedRequest ==
  ASSUME StructInv, ServeInv, NEW r \in Request, InTheMap(r), NEW d \in Channel,
         chan[d] = "paused", LoadOf(d) = LoadOf(r)
  PROVE  owner[d] = r /\ request[r].httpChannel = d
<1>1. ~IsRedirected(r) /\ ~IsRedirected(owner[d])
  BY DEF ServeInv, Member, Good, PausedTold
<1>2. owner[d] \in Request /\ request[owner[d]].httpChannel = d /\ LoadOf(owner[d]) = LoadOf(d)
  BY Announced_Owner DEF Announcing
<1>3. QED BY <1>1, <1>2, RequestPairs

LEMMA AnswersServe ==
  ASSUME StructInv, StructInv', ServeInv, Grows, NEW r \in Request, ClientAnswers(r)
  PROVE  ServeInv'
<1>1. /\ InTheMap(r) /\ Member(r) /\ TypeInv
      /\ interceptedRequests' = Removed(interceptedRequests, r)
      /\ UNCHANGED <<owner, expectedRedirect, carries>>
  BY DEF ClientAnswers, ResumeInterceptedRequest, FulfillInterceptedRequest,
         AbortInterceptedRequest, EndIntercepted, Answers, InTheMap, ServeInv, mapVars, headerVars,
         StructInv
<1>2. PICK c \in Channel : c = request[r].httpChannel /\ LoadOf(c) = LoadOf(r)
  BY <1>1 DEF Member, Used, TypeInv, Fields
<1>3. \A q \in Request : LoadOf(q) = LoadOf(r) /\ ~IsRedirected(q) => q = r
  BY <1>1, RequestPairs DEF Member
<1>4. /\ interceptedRequests' \in Seq(Request) /\ IsInjective(interceptedRequests')
      /\ \A q \in Request : InTheMap(q)' <=> (InTheMap(q) /\ q # r)
  BY <1>1, RemovedFromMap DEF ServeInv, InTheMap
<1>5. /\ \A q \in Request : q # r => request'[q] = request[q]
      /\ Flags /\ Same(r)
  <2>1. \/ \E how \in {"plain", "headers"} : request' = Resumed(r, how)
        \/ request' = request
    BY DEF ClientAnswers, ResumeInterceptedRequest, FulfillInterceptedRequest,
           AbortInterceptedRequest, EndIntercepted
  <2>2. QED BY <1>1, <2>1, ResumedAlters, NothingAltered, AltersIsFlags DEF Alters, Same
<1>6. \A q \in Request : LoadOf(q) = LoadOf(r) /\ InTheMap(q)' => Member(q)'
  BY <1>3, <1>4 DEF ServeInv, Member
<1>7. LoadOf(r) \in Load
  BY RequestPairs
<1>8. CASE Paused(r)
  <2>1. chan[c] = "paused" /\ Active(c) /\ owner[c] = r
    BY <1>1, <1>2, <1>8, PausedRequest DEF Paused, Active
  <2>2. /\ chan'[c] \in {"resetting", "synthesized", "cancelled"}
        /\ \A d \in Channel : d # c => chan'[d] = chan[d]
    <3>1. \E state \in {"resetting", "synthesized", "cancelled"} : Became(c, state)
      BY <1>2, <1>8 DEF ClientAnswers, ResumeInterceptedRequest, FulfillInterceptedRequest,
                        AbortInterceptedRequest, EndIntercepted
    <3>2. QED BY <1>1, <3>1 DEF Became, TypeInv
  <2>3. \/ asked' = asked
        \/ /\ asked' = asked \cup {LoadOf(r)} /\ request'[r].expecting = "headers"
           /\ chan'[c] = "resetting"
    <3>1. CASE ResumeInterceptedRequest(r, "headers")
      <4>1. request' = Resumed(r, "headers") /\ Became(c, "resetting")
            /\ asked' = asked \cup {LoadOf(r)}
        BY <1>2, <1>8, <3>1 DEF ResumeInterceptedRequest
      <4>2. request'[r].expecting = "headers"
        BY <1>1, <4>1, ResumedAlters DEF Alters
      <4>3. QED BY <1>1, <4>1, <4>2 DEF Became, TypeInv
    <3>2. CASE ResumeInterceptedRequest(r, "plain")
      BY <1>8, <3>2 DEF ResumeInterceptedRequest
    <3>3. CASE FulfillInterceptedRequest(r) \/ AbortInterceptedRequest(r)
      BY <3>3 DEF FulfillInterceptedRequest, AbortInterceptedRequest, EndIntercepted, headerVars
    <3>4. QED BY <3>1, <3>2, <3>3 DEF ClientAnswers
  <2>4. Elsewhere(LoadOf(r))
    BY <1>1, <1>2, <1>4, <1>5, <2>2, <2>3 DEF Elsewhere
  <2>5. Place(c) > 0 /\ Place(c) \in Nat /\ LoadOf(r) \notin asked
    BY <1>1, <2>1, ChannelPairs DEF ServeInv, Good, Offered, Member
  <2>6. Good(c)'
    BY <1>1, <1>2, <2>1, <2>2, <2>3, <2>5 DEF Good, Offered, PausedTold, Headers, Carried
  <2>7. ASSUME NEW d \in Channel, LoadOf(d) = LoadOf(r), d # c PROVE Good(d)'
    <3>1. ~Active(d) /\ chan'[d] = chan[d] /\ (Place(d) = 0 => chan[d] = "done")
      BY <1>2, <2>1, <2>2, <2>5, <2>7, OneActive, ChannelPairs
    <3>2. QED BY <3>1 DEF Good, Offered, PausedTold, Headers, Active
  <2>8. QED BY <1>4, <1>6, <1>7, <2>4, <2>6, <2>7, LocalServe
<1>9. CASE ~Paused(r)
  <2>1. UNCHANGED <<chan, asked>>
    BY <1>9 DEF ClientAnswers, ResumeInterceptedRequest, FulfillInterceptedRequest,
                AbortInterceptedRequest, EndIntercepted, headerVars
  <2>2. Elsewhere(LoadOf(r))
    BY <1>1, <1>4, <1>5, <2>1 DEF Elsewhere
  <2>3. ASSUME NEW d \in Channel, LoadOf(d) = LoadOf(r) PROVE Good(d)'
    <3>1. chan[d] # "paused"
      BY <1>1, <1>9, <2>3, PausedRequest DEF Paused
    <3>2. LoadOf(d) \notin asked'
      BY <1>1, <2>1, <2>3 DEF Member
    <3>3. Offered(d)'
      <4>1. Offered(d)
        BY DEF ServeInv, Good
      <4>2. chan[d] \in Announcing =>
              owner[d] \in Request /\ request'[owner[d]].sentOnRequest = request[owner[d]].sentOnRequest
        BY <1>5, Announced_Owner DEF Same
      <4>3. QED BY <1>1, <2>1, <4>1, <4>2 DEF Offered, Announcing
    <3>4. QED BY <2>1, <3>1, <3>2, <3>3 DEF Good, PausedTold, Headers
  <2>4. QED BY <1>4, <1>6, <1>7, <2>2, <2>3, LocalServe
<1>10. QED BY <1>8, <1>9

LEMMA DisableServe ==
  ASSUME StructInv, StructInv', ServeInv, Grows, DisableRequestInterception
  PROVE  ServeInv'
<1>1. PICK touched :
        /\ touched \subseteq ToSet(interceptedRequests)
        /\ request' = [r \in Request |->
             IF r \in touched THEN [request[r] EXCEPT !.expecting = "plain"] ELSE request[r]]
        /\ chan' = [c \in Channel |->
             IF chan[c] = "paused" /\ owner[c] \in touched THEN "resetting" ELSE chan[c]]
        /\ \/ interceptedRequests' = interceptedRequests
           \/ interceptedRequests' = <<>> /\ ToSet(interceptedRequests) \subseteq touched
  <2> DEFINE late == {i \in DOMAIN interceptedRequests : ~Paused(interceptedRequests[i])}
             upTo == {i \in DOMAIN interceptedRequests : \A j \in late : i <= j}
             touched == {interceptedRequests[i] : i \in upTo}
  <2>1. touched \subseteq ToSet(interceptedRequests)
    BY DEF ToSet
  <2>2. late = {} => ToSet(interceptedRequests) \subseteq touched
    BY DEF ToSet
  <2>3. /\ request' = [r \in Request |->
             IF r \in touched THEN [request[r] EXCEPT !.expecting = "plain"] ELSE request[r]]
        /\ chan' = [c \in Channel |->
             IF chan[c] = "paused" /\ owner[c] \in touched THEN "resetting" ELSE chan[c]]
        /\ interceptedRequests' = IF late = {} THEN <<>> ELSE interceptedRequests
    BY DEF DisableRequestInterception
  <2> HIDE DEF touched
  <2>4. QED BY <2>1, <2>2, <2>3
<1>2. UNCHANGED <<owner, expectedRedirect, carries, asked>> /\ TypeInv
  BY DEF DisableRequestInterception, mapVars, headerVars, StructInv
<1>3. \A r \in Request : /\ Same(r) /\ request'[r].httpChannel = request[r].httpChannel
                         /\ r \notin touched => request'[r] = request[r]
  BY <1>1, <1>2 DEF TypeInv, Fields, Same
<1>4. \A r \in Request : r \in touched => InTheMap(r) /\ Member(r)
  BY <1>1 DEF InTheMap, ServeInv
<1>5. /\ interceptedRequests' \in Seq(Request) /\ IsInjective(interceptedRequests')
      /\ \A r \in Request : InTheMap(r)' => Member(r)'
  <2>1. CASE interceptedRequests' = <<>>
    BY <2>1 DEF InTheMap, ToSet, IsInjective
  <2>2. CASE interceptedRequests' = interceptedRequests
    BY <1>2, <1>3, <2>2 DEF ServeInv, InTheMap, Member, Used, Same
  <2>3. QED BY <1>1, <2>1, <2>2
<1>6. ASSUME NEW d \in Channel PROVE Good(d)'
  <2>1. /\ chan'[d] = IF chan[d] = "paused" /\ owner[d] \in touched THEN "resetting" ELSE chan[d]
        /\ owner'[d] = owner[d]
    BY <1>1, <1>2
  <2>2. chan[d] \in Announcing => owner[d] \in Request
    BY Announced_Owner
  <2>3. Offered(d)'
    <3>1. Offered(d)
      BY DEF ServeInv, Good
    <3>2. chan[d] \in Announcing => request'[owner[d]].sentOnRequest = request[owner[d]].sentOnRequest
      BY <1>3, <2>2 DEF Same
    <3>3. QED BY <2>1, <3>1, <3>2 DEF Offered, Announcing
  <2>4. PausedTold(d)'
    <3> SUFFICES ASSUME chan'[d] = "paused" PROVE PausedTold(d)'
      BY DEF PausedTold
    <3>1. chan[d] = "paused" /\ owner[d] \notin touched /\ owner[d] \in Request /\ PausedTold(d)
      BY <2>1, <2>2 DEF Announcing, ServeInv, Good
    <3>2. interceptedRequests' = interceptedRequests
      BY <1>1, <3>1 DEF PausedTold, InTheMap
    <3>3. QED BY <2>1, <3>1, <3>2 DEF PausedTold, InTheMap, Grows
  <2>5. Headers(d)'
    <3> SUFFICES ASSUME LoadOf(d) \in asked PROVE Headers(d)'
      BY <1>2 DEF Headers
    <3>1. Headers(d)
      BY DEF ServeInv, Good
    <3>2. CASE chan[d] \in Announcing \cup {"opening"}
      <4>1. owner[d] \in Request /\ LoadOf(owner[d]) = LoadOf(d)
        BY <3>2, OwnerKnown
      <4>2. owner[d] \notin touched
        BY <1>4, <4>1 DEF Member
      <4>3. request'[owner[d]] = request[owner[d]] /\ chan'[d] = chan[d]
        BY <1>3, <2>1, <4>1, <4>2
      <4>4. QED BY <1>2, <2>1, <3>1, <4>3 DEF Headers, Carried, Active
    <3>3. CASE chan[d] \notin Announcing \cup {"opening"}
      BY <1>2, <2>1, <3>1, <3>3 DEF Headers, Carried, Active, Announcing
    <3>4. QED BY <3>2, <3>3
  <2>6. QED BY <2>3, <2>4, <2>5 DEF Good
<1>7. QED BY <1>5, <1>6 DEF ServeInv

\* Steps that change what the client was told, and the switches, only.
LEMMA StillServe ==
  ASSUME StructInv, StructInv', ServeInv, Grows,
         UNCHANGED <<chan, owner, expectedRedirect, request, carries, interceptedRequests, asked>>
  PROVE  ServeInv'
<1>1. ASSUME NEW d \in Channel PROVE Good(d)'
  <2>1. chan[d] = "paused" => owner[d] \in Request
    BY Announced_Owner DEF Announcing
  <2>2. QED BY <2>1 DEF ServeInv, Good, Offered, PausedTold, InTheMap, Headers, Carried, Active, Grows
<1>2. QED BY <1>1 DEF ServeInv, InTheMap, Member, Used

LEMMA ServeNext ==
  ASSUME StructInv, StructInv', LifeInv, ServeInv, [Next]_vars
  PROVE  ServeInv'
<1>1. Grows
  BY StepGrows
<1>2. CASE FrameAttached \/ EnableRequestInterception \/ SetContextInterception \/ UNCHANGED vars
  BY <1>1, <1>2, StillServe
  DEF FrameAttached, EnableRequestInterception, SetContextInterception, vars, netVars, mapVars,
      pageVars, headerVars
<1>3. ASSUME NEW l \in Load, Open(l) PROVE ServeInv'
  BY <1>1, <1>3, OpenServe
<1>4. ASSUME NEW c \in Channel, Callback(c) PROVE ServeInv'
  BY <1>1, <1>4, OnRequestServe, ShouldPrepareServe, InternalRedirectServe, ChannelInterceptedServe,
     WorkerServe, OnResponseServe, RedirectVerifiedServe, OnStartServe, OnStopServe
  DEF Callback
<1>5. ASSUME NEW c \in Channel, OnDataAvailable(c) \/ PromptAuth(c) \/ Cancel(c) PROVE ServeInv'
  BY <1>1, <1>5, OnDataServe, PromptAuthServe, CancelServe
<1>6. ASSUME NEW c \in Channel, NEW upgrade \in BOOLEAN, OnRedirect(c, upgrade) PROVE ServeInv'
  BY <1>1, <1>6, OnRedirectServe
<1>7. ASSUME NEW r \in Request, ClientAnswers(r) PROVE ServeInv'
  BY <1>1, <1>7, AnswersServe
<1>8. CASE DisableRequestInterception
  BY <1>1, <1>8, DisableServe
<1>9. QED BY <1>2, <1>3, <1>4, <1>5, <1>6, <1>7, <1>8 DEF Next

\* A channel that is paused is its request's own, and one that carries what
\* the client asked for has it.
LEMMA InvInterceptionServes == ASSUME StructInv, LifeInv, ServeInv PROVE InterceptionServes
<1>1. ASSUME NEW c \in Channel, chan[c] = "paused"
      PROVE  /\ Calls(c) /\ owner[c] \in ToSet(interceptedRequests)
             /\ Contains(Joined(seen, heldBack)[owner[c]], "intercepted")
  <2>1. Calls(c) /\ owner[c] \in Request
    BY <1>1, Announced_Owner DEF Announcing
  <2>2. Joined(seen, heldBack)[owner[c]] = Life(owner[c])
    BY <2>1 DEF Joined, Life
  <2>3. QED BY <1>1, <2>1, <2>2 DEF ServeInv, Good, PausedTold, InTheMap
<1>2. ASSUME NEW c \in Channel, chan[c] \in {"sending", "answered"}, LoadOf(c) \in asked,
             LoadOf(c) \in Worker => ~IsRedirected(owner[c])
      PROVE  c \in carries
  BY <1>2 DEF ServeInv, Good, Headers, Carried, Active
<1>3. QED BY <1>1, <1>2 DEF InterceptionServes

\* A channel is never paused behind the client's back, and what the client
\* asked for on resuming goes to the network with every channel that the load
\* has from then on, for all loads, redirects and orders of the callbacks.
THEOREM InterceptionServesTheorem == Spec => []InterceptionServes
<1>1. Init => StructInv /\ LifeInv /\ ServeInv
  BY StructInit, LifeInit, ServeInit
<1>2. StructInv /\ LifeInv /\ ServeInv /\ [Next]_vars => (StructInv /\ LifeInv /\ ServeInv)'
  BY StructNext, LifeNext, ServeNext
<1>3. StructInv /\ LifeInv /\ ServeInv => InterceptionServes
  BY InvInterceptionServes
<1>4. QED BY <1>1, <1>2, <1>3, PTL DEF Spec

-----------------------------------------------------------------------------
(* The accounting of stored bodies.                                        *)

Kept == [id : Request, size : Nat, evicted : BOOLEAN]

LEMMA KeptFields ==
  ASSUME NEW s \in Seq(Kept), NEW i \in 1..Len(s)
  PROVE  /\ s[i] \in Kept /\ s[i].id \in Request /\ s[i].size \in Int /\ s[i].evicted \in BOOLEAN
         /\ Stored(s[i].id, 0, TRUE) \in Kept
<1>1. s[i] \in Kept
  OBVIOUS
<1>2. QED BY <1>1 DEF Kept, Stored

\* What the bodies up to each one take together.
Sums(s, t) ==
  /\ t \in [0..Len(s) -> Int] /\ t[0] = 0
  /\ \A i \in 1..Len(s) : t[i] = t[i - 1] + s[i].size

LEMMA TotalIsSum ==
  ASSUME NEW s \in Seq(Kept), NEW t, Sums(s, t)
  PROVE  TotalOf(s) = t[Len(s)] /\ TotalOf(s) \in Int
<1> DEFINE N == Len(s)
           IsTotal(f) == f = [i \in 0..N |-> IF i = 0 THEN 0 ELSE f[i - 1] + s[i].size]
           g == CHOOSE f : IsTotal(f)
<1>1. N \in Nat
  OBVIOUS
<1>2. IsTotal(t)
  <2>1. \A i \in 0..N : t[i] = IF i = 0 THEN 0 ELSE t[i - 1] + s[i].size
    BY <1>1 DEF Sums
  <2>2. QED BY <2>1 DEF Sums
<1>3. TotalOf(s) = g[N]
  BY DEF TotalOf
<1>4. IsTotal(g)
  <2> HIDE DEF IsTotal
  <2>1. QED BY <1>2
<1> HIDE DEF g
<1> DEFINE P == {i \in 0..N : g[i] = t[i]}
<1>5. 0 \in P
  BY <1>1, <1>2, <1>4
<1>6. ASSUME NEW i \in 1..N, i - 1 \in P PROVE i \in P
  BY <1>1, <1>2, <1>4, <1>6
<1>7. 0..N \subseteq P
  <2> HIDE DEF P
  <2>1. QED BY <1>1, <1>5, <1>6, BoundedInduction
<1>8. N \in 0..N
  BY <1>1
<1>9. QED BY <1>3, <1>7, <1>8 DEF Sums

LEMMA SumsExist == ASSUME NEW s \in Seq(Kept) PROVE \E t : Sums(s, t)
<1> DEFINE N == Len(s)
           step == [p \in (1..N) \X Int |-> p[2] + s[p[1]].size]
<1>1. N \in Nat /\ 0 \in Int
  OBVIOUS
<1>2. \A i \in 1..N : s[i].size \in Int
  BY KeptFields
<1>3. step \in Steps(N, Int)
  <2>1. \A p \in (1..N) \X Int : p[2] + s[p[1]].size \in Int
    BY <1>2
  <2>2. QED BY <2>1 DEF Steps
<1>4. \A i \in 1..N : \A n \in Int : step[<<i, n>>] = n + s[i].size
  OBVIOUS
<1>5. PICK t : Recursive(t, N, Int, 0, step)
  <2> HIDE DEF N, step
  <2>1. QED BY <1>1, <1>3, Recursion
<1>6. \A i \in 1..N : t[i - 1] \in Int
  <2>1. \A i \in 1..N : i - 1 \in 0..N
    BY <1>1
  <2>2. QED BY <1>5, <2>1 DEF Recursive
<1> HIDE DEF step
<1>7. Sums(s, t)
  BY <1>4, <1>5, <1>6 DEF Sums, Recursive
<1>8. QED BY <1>7

LEMMA TotalOfInt == ASSUME NEW s \in Seq(Kept) PROVE TotalOf(s) \in Int
BY SumsExist, TotalIsSum

LEMMA TotalOfAppend ==
  ASSUME NEW s \in Seq(Kept), NEW x \in Kept
  PROVE  TotalOf(Append(s, x)) = TotalOf(s) + x.size
<1>1. PICK t : Sums(s, t)
  BY SumsExist
<1>2. TotalOf(s) = t[Len(s)]
  BY <1>1, TotalIsSum
<1> DEFINE u == Append(s, x)
           v == [i \in 0..(Len(s) + 1) |-> IF i <= Len(s) THEN t[i] ELSE t[Len(s)] + x.size]
<1>3. /\ u \in Seq(Kept) /\ Len(u) = Len(s) + 1 /\ Len(s) \in Nat /\ u[Len(s) + 1] = x
      /\ \A i \in 1..Len(s) : u[i] = s[i]
  OBVIOUS
<1>4. x.size \in Int
  BY DEF Kept
<1> HIDE DEF u
<1>5. Sums(u, v)
  <2>1. v \in [0..Len(u) -> Int] /\ v[0] = 0
    BY <1>1, <1>3, <1>4 DEF Sums
  <2>2. ASSUME NEW i \in 1..Len(u) PROVE v[i] = v[i - 1] + u[i].size
    <3>1. CASE i <= Len(s)
      BY <3>1, <1>1, <1>3 DEF Sums
    <3>2. CASE i = Len(s) + 1
      BY <3>2, <1>3
    <3>3. QED BY <3>1, <3>2, <1>3
  <2>3. QED BY <2>1, <2>2 DEF Sums
<1>6. TotalOf(u) = v[Len(u)]
  BY <1>3, <1>5, TotalIsSum
<1>7. v[Len(u)] = t[Len(s)] + x.size
  BY <1>3
<1>8. QED BY <1>2, <1>6, <1>7 DEF u

\* Dropping the first bodies subtracts what they took, and so leaves the sum.
LEMMA TotalOfDropped ==
  ASSUME NEW total, NEW s \in Seq(Kept), total = TotalOf(s), NEW n \in 1..Len(s)
  PROVE  LET d == Dropped([totalSize |-> total, responses |-> s], n)
         IN  /\ d.responses \in Seq(Kept) /\ Len(d.responses) = Len(s)
             /\ d.totalSize = TotalOf(d.responses)
             /\ n = Len(s) - 1 => d.totalSize = s[Len(s)].size
<1> DEFINE front == SubSeq(s, 1, n)
           rest == [i \in DOMAIN s |-> IF i > n THEN s[i] ELSE Stored(s[i].id, 0, TRUE)]
           d == Dropped([totalSize |-> total, responses |-> s], n)
<1>1. PICK t : Sums(s, t)
  BY SumsExist
<1>2. total = t[Len(s)] /\ Len(s) \in Nat /\ n \in Nat /\ DOMAIN s = 1..Len(s)
  BY <1>1, TotalIsSum
<1>3. d.totalSize = total - TotalOf(front) /\ d.responses = rest
  BY DEF Dropped
<1>4. TotalOf(front) = t[n]
  <2> DEFINE u == [i \in 0..n |-> t[i]]
  <2>1. front \in Seq(Kept) /\ Len(front) = n /\ \A i \in 1..n : front[i] = s[i]
    OBVIOUS
  <2> HIDE DEF front
  <2>2. Sums(front, u)
    BY <1>1, <1>2, <2>1 DEF Sums
  <2>3. TotalOf(front) = u[n]
    BY <2>1, <2>2, TotalIsSum
  <2>4. QED BY <2>3, <1>2
<1>5. rest \in Seq(Kept) /\ Len(rest) = Len(s)
  <2>1. \A i \in 1..Len(s) : s[i] \in Kept /\ Stored(s[i].id, 0, TRUE) \in Kept
    BY KeptFields
  <2>2. \A i \in 1..Len(s) : rest[i] \in Kept
    BY <1>2, <2>1
  <2>3. DOMAIN rest = 1..Len(s)
    BY <1>2
  <2> HIDE DEF rest
  <2>4. rest = [i \in 1..Len(s) |-> rest[i]]
    BY <2>3 DEF rest
  <2>5. rest \in [1..Len(s) -> Kept]
    BY <2>2, <2>3, <2>4
  <2>6. QED BY <1>2, <2>5
<1>6. TotalOf(rest) = t[Len(s)] - t[n]
  <2> DEFINE u == [i \in 0..Len(s) |-> IF i <= n THEN 0 ELSE t[i] - t[n]]
  <2>1. \A i \in 1..Len(s) : rest[i].size = IF i > n THEN s[i].size ELSE 0
    BY <1>2 DEF Stored
  <2> HIDE DEF rest
  <2>2. u \in [0..Len(s) -> Int] /\ u[0] = 0
    BY <1>1, <1>2 DEF Sums
  <2>3. ASSUME NEW i \in 1..Len(s) PROVE u[i] = u[i - 1] + rest[i].size
    <3>1. /\ i \in 0..Len(s) /\ i - 1 \in 0..Len(s) /\ n \in 0..Len(s)
          /\ t[i] \in Int /\ t[i - 1] \in Int /\ t[n] \in Int
          /\ t[i] = t[i - 1] + s[i].size
      BY <1>1, <1>2, SMTT(30) DEF Sums
    <3>2. s[i].size \in Int
      BY KeptFields
    <3>3. CASE i <= n
      BY <3>3, <3>1, <2>1
    <3>4. CASE i = n + 1
      BY <3>4, <3>1, <3>2, <2>1, <1>2
    <3>5. CASE i > n + 1
      BY <3>5, <3>1, <3>2, <2>1, <1>2
    <3>6. QED BY <3>3, <3>4, <3>5, <1>2
  <2>4. Sums(rest, u)
    BY <1>5, <2>2, <2>3 DEF Sums
  <2>5. TotalOf(rest) = u[Len(s)]
    BY <1>5, <2>4, TotalIsSum
  <2>6. u[Len(s)] = t[Len(s)] - t[n]
    <3>1. t[n] \in Int /\ n <= Len(s)
      BY <1>1, <1>2 DEF Sums
    <3>2. QED BY <3>1, <1>2
  <2>7. QED BY <2>5, <2>6
<1>7. n = Len(s) - 1 => t[Len(s)] - t[n] = s[Len(s)].size
  <2>1. Len(s) \in 1..Len(s) /\ Len(s) - 1 \in 0..Len(s)
    BY <1>2
  <2> s[Len(s)].size \in Int
    BY <2>1, KeptFields
  <2>2. t[Len(s)] = t[Len(s) - 1] + s[Len(s)].size /\ t[Len(s) - 1] \in Int
    BY <1>1, <2>1 DEF Sums
  <2>3. QED BY <2>1, <2>2
<1> HIDE DEF front, rest
<1>8. QED BY <1>2, <1>3, <1>4, <1>5, <1>6, <1>7

\* The loop over the responses ends before the newest one, which fits.
LEMMA EvictedFits ==
  ASSUME NEW s \in Seq(Kept), s # <<>>, NEW total, total = TotalOf(s),
         s[Len(s)].size <= MaxResponseSize
  PROVE  LET e == Evicted([totalSize |-> total, responses |-> s])
         IN  \E n \in 0..(Len(s) - 1) :
               /\ e.responses \in Seq(Kept) /\ Len(e.responses) = Len(s)
               /\ e.totalSize = TotalOf(e.responses) /\ e.totalSize <= MaxTotalSize
               /\ \A i \in 1..Len(s) :
                    e.responses[i] = IF i > n THEN s[i] ELSE Stored(s[i].id, 0, TRUE)
<1> DEFINE storage0 == [totalSize |-> total, responses |-> s]
           D(n) == Dropped(storage0, n)
           enough == {n \in DOMAIN s : D(n).totalSize < MaxTotalSize}
           e == Evicted(storage0)
<1>1. Len(s) \in Nat /\ Len(s) > 0 /\ DOMAIN s = 1..Len(s) /\ Len(s) \in 1..Len(s)
  BY EmptySeq
<1> s[Len(s)].size \in Int
  BY <1>1, KeptFields
<1>2. MaxTotalSize \in Int /\ MaxResponseSize \in Int /\ MaxResponseSize < MaxTotalSize
  BY StorageAssumption
<1>3. CASE total <= MaxTotalSize
  <2>1. e = storage0
    BY <1>3 DEF Evicted
  <2>2. 0 \in 0..(Len(s) - 1) /\ \A i \in 1..Len(s) : i > 0
    BY <1>1
  <2>3. e.responses = s /\ e.totalSize = total
    BY <2>1
  <2> HIDE DEF e
  <2>4. /\ e.responses \in Seq(Kept) /\ Len(e.responses) = Len(s)
        /\ e.totalSize = TotalOf(e.responses) /\ e.totalSize <= MaxTotalSize
        /\ \A i \in 1..Len(s) :
             e.responses[i] = IF i > 0 THEN s[i] ELSE Stored(s[i].id, 0, TRUE)
    BY <1>3, <2>2, <2>3
  <2>5. QED BY <2>2, <2>4 DEF e
<1>4. CASE ~(total <= MaxTotalSize)
  <2>1. Len(s) - 1 \in 1..Len(s)
    <3> SUFFICES ASSUME Len(s) = 1 PROVE FALSE
      BY <1>1
    <3>1. PICK t : Sums(s, t)
      BY SumsExist
    <3>2. total = t[Len(s)] /\ t[0] = 0
      BY <3>1, TotalIsSum DEF Sums
    <3>3. t[1] = t[1 - 1] + s[1].size
      BY <3>1 DEF Sums
    <3>4. total = s[Len(s)].size
      BY <3>2, <3>3, <1>2
    <3>5. QED BY <3>4, <1>2, <1>4
  <2>2. D(Len(s) - 1).totalSize = s[Len(s)].size
    BY <2>1, TotalOfDropped
  <2>3. Len(s) - 1 \in enough /\ enough \subseteq Nat
    BY <1>1, <1>2, <2>1, <2>2
  <2>4. e = D(CHOOSE n \in enough : \A m \in enough : n <= m)
    BY <1>4, <2>3 DEF Evicted
  <2> HIDE DEF enough, e
  <2>5. \E n \in enough : \A m \in enough : n <= m
    BY <2>3, LeastNumber
  <2>6. PICK n \in enough : e = D(n) /\ n <= Len(s) - 1
    BY <2>3, <2>4, <2>5
  <2>7. n \in 1..Len(s) /\ D(n).totalSize < MaxTotalSize
    BY <1>1 DEF enough
  <2>8. /\ D(n).responses \in Seq(Kept) /\ Len(D(n).responses) = Len(s)
        /\ D(n).totalSize = TotalOf(D(n).responses) /\ D(n).totalSize \in Int
    BY <2>7, TotalOfDropped, TotalOfInt
  <2>9. \A i \in 1..Len(s) :
          D(n).responses[i] = IF i > n THEN s[i] ELSE Stored(s[i].id, 0, TRUE)
    BY <1>1 DEF Dropped
  <2>10. n \in 0..(Len(s) - 1)
    BY <1>1, <2>6, <2>7
  <2> HIDE DEF D
  <2>11. D(n).totalSize <= MaxTotalSize
    BY <1>2, <2>7, <2>8
  <2>12. QED BY <2>6, <2>8, <2>9, <2>10, <2>11 DEF e
<1>5. QED BY <1>3, <1>4

\* A request that has no channel in the map any more rests: its body stays.
Rested(q) == Used(q) /\ ~Live(q)
Settles ==
  \A q \in Request : Rested(q) => Rested(q)' /\ request'[q].body = request[q].body

LEMMA AltersSettles ==
  ASSUME KeepsLive, NEW r \in Request, NEW onRequest, NEW onResponse, NEW expecting, NEW yields,
         Alters(r, onRequest, onResponse, expecting, yields, request[r].body)
  PROVE  Settles
<1>1. \A q \in Request : Live(q)' => Live(q)
  BY KeepsLiveIsLive
<1>2. QED BY <1>1 DEF Settles, Rested, Used, Alters

LEMMA QuietSettles == ASSUME KeepsLive, request' = request PROVE Settles
<1>1. \A q \in Request : Live(q)' => Live(q)
  BY KeepsLiveIsLive
<1>2. QED BY <1>1 DEF Settles, Rested, Used

LEMMA SendsSettle ==
  ASSUME TypeInv, KeepsLive, NEW r \in Request
  PROVE  /\ request' = [request EXCEPT ![r].sentOnRequest = TRUE] => Settles
         /\ request' = [request EXCEPT ![r].sentOnRequest = TRUE, ![r].sentOnResponse = TRUE]
              => Settles
         /\ request' = [request EXCEPT ![r].sentOnRequest = TRUE, ![r].expecting = "plain"]
              => Settles
         /\ \A how \in {"plain", "headers"} : request' = Resumed(r, how) => Settles
         /\ \A b \in BOOLEAN : request' = [request EXCEPT ![r].yields = b] => Settles
<1>1. request' = [request EXCEPT ![r].sentOnRequest = TRUE] => Settles
  BY SendOnRequestAlters, AltersSettles
<1>2. request' = [request EXCEPT ![r].sentOnRequest = TRUE, ![r].sentOnResponse = TRUE] => Settles
  BY SendOnResponseAlters, AltersSettles
<1>3. request' = [request EXCEPT ![r].sentOnRequest = TRUE, ![r].expecting = "plain"] => Settles
  BY PassedAlters, AltersSettles
<1>4. ASSUME NEW how \in {"plain", "headers"}, request' = Resumed(r, how) PROVE Settles
  BY <1>4, ResumedAlters, AltersSettles
<1>5. ASSUME NEW b \in BOOLEAN, request' = [request EXCEPT ![r].yields = b] PROVE Settles
  BY <1>5, YieldsAlters, AltersSettles
<1>6. QED BY <1>1, <1>2, <1>3, <1>4, <1>5

LEMMA OnRequestSettles == ASSUME StructInv, NEW c \in Channel, OnRequest(c) PROVE Settles
<1>1. chan[c] = "opening" /\ TypeInv
  BY DEF OnRequest, StructInv
<1>2. CASE NewRequest(c)
  <2>1. PICK r \in Request : r = <<LoadOf(c), 0>> /\ LoadOf(r) = LoadOf(c)
    BY ChannelPairs, RequestPairs
  <2>2. /\ request' = [request EXCEPT ![r] = Constructed(c, FALSE)]
        /\ channelToRequest' = [channelToRequest EXCEPT ![c] = r]
        /\ expectedRedirect[c] = None /\ channelToRequest[c] = None
    BY <1>2, <2>1 DEF NewRequest
  <2>3. ~Used(r)
    BY <1>1, <2>1, <2>2 DEF StructInv, RedirectInv, Resuming, UseInv, Fresh
  <2>4. \A q \in Request : q # r => request'[q] = request[q] /\ (Live(q)' => Live(q))
    BY <1>1, <2>2 DEF TypeInv, Live
  <2>5. QED BY <2>3, <2>4 DEF Settles, Rested, Used
<1>3. CASE RedirectedRequest(c)
  <2>1. PICK r \in Request : r = expectedRedirect[c] /\ r # None
    BY <1>3 DEF RedirectedRequest, StructInv, TypeInv
  <2>2. PICK s \in Request : s = Successor(r)
    BY <1>3, <2>1 DEF RedirectedRequest
  <2>3. Continues(c, r)
    BY <1>1, <2>1 DEF StructInv, RedirectInv, Continuing
  <2>4. PICK old \in Channel : old = request[r].httpChannel
    BY <1>1, <2>3 DEF Continues, Used, TypeInv, Fields
  <2>5. ~Used(s)
    BY <2>2, <2>3, <2>4 DEF Continues, StructInv, UseInv, LatestMapped, IsLatest
  <2> DEFINE new == [Constructed(c, request[r].headers) EXCEPT !.sentOnRequest = TRUE]
  <2>6. /\ request' = [request EXCEPT ![s] = new]
        /\ channelToRequest' = [channelToRequest EXCEPT ![old] = None, ![c] = s]
    BY <1>3, <2>1, <2>2, <2>4 DEF RedirectedRequest
  <2> HIDE DEF new
  <2>7. \A q \in Request : q # s => request'[q] = request[q] /\ (Live(q)' => Live(q))
    BY <1>1, <2>6, RequestPairs DEF TypeInv, Live
  <2>8. QED BY <2>5, <2>7 DEF Settles, Rested, Used
<1>4. CASE ResumedChannel(c)
  <2>1. PICK r \in Request : r = channelToRequest[c] /\ r # None
    BY <1>4 DEF ResumedChannel, StructInv, TypeInv
  <2>2. /\ channelToRequest' = channelToRequest
        /\ \A q \in Request : q # r => request'[q] = request[q]
    BY <1>1, <1>4, <2>1 DEF ResumedChannel, TypeInv
  <2>3. Live(r)
    BY <2>1 DEF Live
  <2>4. \A q \in Request : Live(q)' <=> Live(q)
    BY <2>2 DEF Live
  <2>5. QED BY <2>2, <2>3, <2>4 DEF Settles, Rested, Used
<1>5. QED BY <1>2, <1>3, <1>4 DEF OnRequest

LEMMA InternalRedirectSettles ==
  ASSUME StructInv, NEW c \in Channel, InternalRedirect(c)
  PROVE  Settles
<1>1. PICK d \in Channel : d = NextChannel(c)
  BY DEF InternalRedirect
<1>2. PICK r \in Request : channelToRequest[c] = r /\ r # None
  BY Announced_Owner DEF InternalRedirect, Announcing
<1>3. /\ request' = [request EXCEPT ![r].httpChannel = d]
      /\ channelToRequest' = [channelToRequest EXCEPT ![c] = None, ![d] = r]
  BY <1>1, <1>2 DEF InternalRedirect, Follows
<1>4. Live(r)
  BY <1>2 DEF Live
<1>5. \A q \in Request : q # r => request'[q] = request[q] /\ (Live(q)' => Live(q))
  BY <1>3, RequestPairs DEF StructInv, TypeInv, Live
<1>6. QED BY <1>4, <1>5 DEF Settles, Rested, Used

LEMMA OnStopSettles == ASSUME StructInv, NEW c \in Channel, OnStopRequest(c) PROVE Settles
<1>1. TypeInv /\ KeepsLive
  BY DEF OnStopRequest, KeepsLive, StructInv, TypeInv
<1>2. CASE Calls(c) /\ StopWell(c)
  <2>1. PICK r \in Request : r = owner[c]
    BY <1>2, CallsOwner
  <2>2. QED BY <1>1, <1>2, <2>1, SendsSettle DEF StopWell
<1>3. CASE request' = request
  BY <1>1, <1>3, QuietSettles
<1>4. QED BY <1>2, <1>3 DEF OnStopRequest, StopFailed

LEMMA OnDataSettles == ASSUME StructInv, NEW c \in Channel, OnDataAvailable(c) PROVE Settles
<1>1. TypeInv /\ channelToRequest' = channelToRequest
  BY DEF OnDataAvailable, mapVars, StructInv
<1>2. PICK r \in Request : r = owner[c] /\ channelToRequest[c] = r /\ Live(r)
  BY DEF OnDataAvailable, Active, Calls, Live, StructInv, TypeInv, MapInv, Listens
<1>3. Alters(r, TRUE, TRUE, request[r].expecting, request[r].yields, request[r].body + Chunk)
  BY <1>1, <1>2, DataAlters DEF OnDataAvailable
<1>4. \A q \in Request : Live(q)' <=> Live(q)
  BY <1>1 DEF Live
<1>5. QED BY <1>2, <1>3, <1>4 DEF Alters, Settles, Rested, Used

LEMMA DisableSettles == ASSUME StructInv, DisableRequestInterception PROVE Settles
<1>1. KeepsLive
  BY MapsKeepLive DEF DisableRequestInterception, mapVars
<1>2. PICK touched : request' = [r \in Request |->
             IF r \in touched THEN [request[r] EXCEPT !.expecting = "plain"] ELSE request[r]]
  BY DEF DisableRequestInterception
<1>3. \A q \in Request : /\ request'[q].httpChannel = request[q].httpChannel
                         /\ request'[q].body = request[q].body
  BY <1>2 DEF StructInv, TypeInv, Fields
<1>4. \A q \in Request : Live(q)' => Live(q)
  BY <1>1, KeepsLiveIsLive
<1>5. QED BY <1>3, <1>4 DEF Settles, Rested, Used

LEMMA SettlesNext == ASSUME StructInv, [Next]_vars PROVE Settles
<1>1. TypeInv
  BY DEF StructInv
<1>2. ASSUME UNCHANGED channelToRequest, request' = request PROVE Settles
  BY <1>2, MapsKeepLive, QuietSettles
<1>3. CASE FrameAttached \/ EnableRequestInterception \/ SetContextInterception \/ UNCHANGED vars
           \/ \E l \in Load : Open(l)
  BY <1>2, <1>3 DEF FrameAttached, EnableRequestInterception, SetContextInterception, vars,
                    netVars, mapVars, Open
<1>4. ASSUME NEW c \in Channel,
             \/ WorkerResponds(c) \/ RedirectVerified(c) \/ PromptAuth(c) \/ Cancel(c)
      PROVE  Settles
  BY <1>2, <1>4 DEF WorkerResponds, RedirectVerified, PromptAuth, Cancel, mapVars
<1>5. ASSUME NEW c \in Channel,
             ShouldPrepareForIntercept(c) \/ ChannelIntercepted(c) \/ YieldToWorker(c)
      PROVE  Settles
  <2>1. PICK r \in Request : r = owner[c]
    BY <1>5, Announced_Owner
    DEF ShouldPrepareForIntercept, ChannelIntercepted, YieldToWorker, Announcing
  <2>2. KeepsLive
    BY <1>5, MapsKeepLive DEF ShouldPrepareForIntercept, ChannelIntercepted, YieldToWorker, mapVars
  <2>3. \/ request' = request
        \/ request' = [request EXCEPT ![r].sentOnRequest = TRUE]
        \/ request' = [request EXCEPT ![r].sentOnRequest = TRUE, ![r].expecting = "plain"]
        \/ request' = Resumed(r, "plain")
        \/ \E b \in BOOLEAN : request' = [request EXCEPT ![r].yields = b]
    BY <1>5, <2>1
    DEF ShouldPrepareForIntercept, ChannelIntercepted, YieldToWorker, Offer, SendOnRequest
  <2>4. QED BY <1>1, <2>2, <2>3, SendsSettle, QuietSettles
<1>6. ASSUME NEW c \in Channel, OnResponse(c) \/ \E upgrade \in BOOLEAN : OnRedirect(c, upgrade)
      PROVE  Settles
  <2>1. UNCHANGED channelToRequest
    BY <1>6 DEF OnResponse, OnRedirect, mapVars
  <2>2. CASE request' = request
    BY <1>2, <2>1, <2>2
  <2>3. CASE request' # request
    <3>1. PICK r \in Request : SendOnResponse(r)
      BY <1>1, <1>6, <2>3 DEF OnResponse, OnRedirect, TypeInv
    <3>2. QED BY <1>1, <2>1, <3>1, MapsKeepLive, SendsSettle DEF SendOnResponse
  <2>4. QED BY <2>2, <2>3
<1>7. ASSUME NEW c \in Channel, OnStartRequest(c) PROVE Settles
  <2>1. KeepsLive
    BY <1>7, MapsKeepLive DEF OnStartRequest, mapVars
  <2>2. CASE Calls(c)
    <3>1. PICK r \in Request : r = owner[c]
      BY <2>2, CallsOwner
    <3>2. QED BY <1>1, <1>7, <2>1, <2>2, <3>1, SendsSettle DEF OnStartRequest, SendOnRequest
  <2>3. CASE ~Calls(c)
    BY <1>7, <2>1, <2>3, QuietSettles DEF OnStartRequest
  <2>4. QED BY <2>2, <2>3
<1>8. ASSUME NEW r \in Request, ClientAnswers(r) PROVE Settles
  <2>1. KeepsLive
    BY <1>8, MapsKeepLive
    DEF ClientAnswers, ResumeInterceptedRequest, FulfillInterceptedRequest,
        AbortInterceptedRequest, EndIntercepted, mapVars
  <2>2. \/ \E how \in {"plain", "headers"} : request' = Resumed(r, how)
        \/ request' = request
    BY <1>8 DEF ClientAnswers, ResumeInterceptedRequest, FulfillInterceptedRequest,
                AbortInterceptedRequest, EndIntercepted
  <2>3. QED BY <1>1, <2>1, <2>2, SendsSettle, QuietSettles
<1>9. ASSUME NEW c \in Channel, Callback(c) PROVE Settles
  BY <1>4, <1>5, <1>6, <1>7, <1>9, OnRequestSettles, InternalRedirectSettles, OnStopSettles
  DEF Callback
<1>10. ASSUME NEW c \in Channel, OnDataAvailable(c) PROVE Settles
  BY <1>10, OnDataSettles
<1>11. CASE DisableRequestInterception
  BY <1>11, DisableSettles
<1>12. QED BY <1>3, <1>4, <1>6, <1>8, <1>9, <1>10, <1>11 DEF Next

-----------------------------------------------------------------------------
(* The inductive invariant: what is stored.                                *)

Responses == storage.responses
IsEvicted(i) == Responses[i].evicted
Fits(i) == request[Responses[i].id].body <= MaxResponseSize

Counted ==
  /\ Responses \in Seq(Kept) /\ storage.totalSize = TotalOf(Responses)
  /\ storage.totalSize <= MaxTotalSize
Distinct == \A i, j \in 1..Len(Responses) : i # j => Responses[i].id # Responses[j].id
Bodies ==
  \A i \in 1..Len(Responses) :
    ~IsEvicted(i) => Responses[i].size = request[Responses[i].id].body
OldestFirst ==
  \A i, j \in 1..Len(Responses) : i < j /\ Fits(j) /\ IsEvicted(j) => IsEvicted(i)
NewestKept ==
  Len(Responses) > 0 /\ Fits(Len(Responses)) => ~IsEvicted(Len(Responses))

\* A response is stored when its request ends, so what is stored rests.
AtRest == \A i \in 1..Len(Responses) : Rested(Responses[i].id)

StoredInv ==
  Counted /\ Distinct /\ Bodies /\ OldestFirst /\ NewestKept /\ AtRest

LEMMA StoredInit == ASSUME Init PROVE StoredInv
<1>1. Responses = <<>> /\ storage.totalSize = 0
  BY DEF Init, EmptyStorage, Responses
<1>2. <<>> \in Seq(Kept) /\ Len(<<>>) = 0
  OBVIOUS
<1>3. TotalOf(<<>>) = 0
  <2>1. PICK t : Sums(<<>>, t)
    BY <1>2, SumsExist
  <2>2. TotalOf(<<>>) = t[0] /\ t[0] = 0
    BY <1>2, <2>1, TotalIsSum DEF Sums
  <2>3. QED BY <2>2
<1>4. Counted
  BY <1>1, <1>2, <1>3, StorageAssumption DEF Counted
<1>5. QED BY <1>1, <1>2, <1>4
          DEF StoredInv, Distinct, Bodies, OldestFirst, NewestKept, AtRest

LEMMA StoredKept == ASSUME StoredInv, Settles, UNCHANGED storage PROVE StoredInv'
<1>1. Responses' = Responses
  BY DEF Responses
<1>2. \A i \in 1..Len(Responses) :
        /\ Responses[i].id \in Request
        /\ request'[Responses[i].id].body = request[Responses[i].id].body
        /\ Rested(Responses[i].id)'
  <2> SUFFICES ASSUME NEW i \in 1..Len(Responses)
               PROVE  /\ Responses[i].id \in Request
                      /\ request'[Responses[i].id].body = request[Responses[i].id].body
                      /\ Rested(Responses[i].id)'
    OBVIOUS
  <2>1. PICK q \in Request : q = Responses[i].id
    BY KeptFields DEF StoredInv, Counted
  <2>2. Rested(q)' /\ request'[q].body = request[q].body
    BY <2>1 DEF StoredInv, AtRest, Settles
  <2>3. Responses'[i].id = q
    BY <1>1, <2>1
  <2>4. QED BY <2>1, <2>2, <2>3
<1>3. Counted' /\ Distinct'
  BY <1>1 DEF StoredInv, Counted, Distinct
<1>4. Bodies' /\ AtRest'
  BY <1>1, <1>2 DEF StoredInv, Bodies, IsEvicted, AtRest
<1>5. Len(Responses) \in Nat
  BY DEF StoredInv, Counted
<1>6. \A i \in 1..Len(Responses) : (Fits(i)' <=> Fits(i)) /\ (IsEvicted(i)' <=> IsEvicted(i))
  BY <1>1, <1>2 DEF Fits, IsEvicted
<1>7. OldestFirst' /\ NewestKept'
  BY <1>1, <1>5, <1>6 DEF StoredInv, OldestFirst, NewestKept
<1>8. QED BY <1>3, <1>4, <1>7 DEF StoredInv

\* What addResponseBody makes of the responses: one more, and the first ones
\* without their bodies.
LEMMA AddedResponse ==
  ASSUME Counted, NEW r \in Request, NEW size \in Nat,
         \A i \in 1..Len(Responses) : Responses[i].id # r
  PROVE  LET e == AddResponseBody(storage, r, size)
             x == IF size > MaxResponseSize THEN Stored(r, 0, TRUE) ELSE Stored(r, size, FALSE)
         IN  \E n \in 0..Len(Responses) :
               /\ e.responses \in Seq(Kept) /\ Len(e.responses) = Len(Responses) + 1
               /\ e.totalSize = TotalOf(e.responses) /\ e.totalSize <= MaxTotalSize
               /\ \A i \in 1..Len(Responses) :
                    e.responses[i] = IF i > n THEN Responses[i]
                                     ELSE Stored(Responses[i].id, 0, TRUE)
               /\ e.responses[Len(Responses) + 1] = x
<1> DEFINE s == Responses
           e == AddResponseBody(storage, r, size)
           x == IF size > MaxResponseSize THEN Stored(r, 0, TRUE) ELSE Stored(r, size, FALSE)
           u == Append(s, x)
<1>1. /\ s \in Seq(Kept) /\ Len(s) \in Nat /\ DOMAIN s = 1..Len(s)
      /\ storage.totalSize = TotalOf(s) /\ storage.totalSize <= MaxTotalSize
  BY DEF Counted
<1>2. /\ MaxTotalSize \in Int /\ MaxResponseSize \in Int /\ TotalOf(s) \in Int
  BY <1>1, TotalOfInt, StorageAssumption
<1>3. x \in Kept /\ x.id = r
  BY DEF Kept, Stored
<1> HIDE DEF x
<1>4. /\ u \in Seq(Kept) /\ Len(u) = Len(s) + 1 /\ u[Len(s) + 1] = x
      /\ \A i \in 1..Len(s) : u[i] = s[i]
      /\ u # <<>>
  BY <1>1, <1>3
<1>5. TotalOf(u) = TotalOf(s) + x.size
  BY <1>1, <1>3, TotalOfAppend
<1>6. SetResponse(storage.responses, x) = u
  BY <1>1, <1>3 DEF SetResponse, Responses
<1>7. CASE size > MaxResponseSize
  <2>1. x = Stored(r, 0, TRUE) /\ x.size = 0
    BY <1>7 DEF x, Stored
  <2>2. e.responses = u /\ e.totalSize = storage.totalSize
    <3>1. e = [storage EXCEPT !.responses = SetResponse(storage.responses, x)]
      BY <1>7, <2>1 DEF AddResponseBody
    <3>2. QED BY <1>6, <3>1, <1>1
  <2> HIDE DEF e, u
  <2>3. e.totalSize = TotalOf(e.responses) /\ e.totalSize <= MaxTotalSize
    <3>1. TotalOf(u) = TotalOf(s) + 0
      BY <1>5, <2>1, Zenon
    <3> TotalOf(u) = TotalOf(s)
      BY <1>2, <3>1
    <3>2. QED BY <1>1, <2>2, <3>1
  <2>4. 0 \in 0..Len(s) /\ \A i \in 1..Len(s) : i > 0
    BY <1>1
  <2>5. /\ e.responses \in Seq(Kept) /\ Len(e.responses) = Len(s) + 1
        /\ \A i \in 1..Len(s) :
             e.responses[i] = IF i > 0 THEN s[i] ELSE Stored(s[i].id, 0, TRUE)
        /\ e.responses[Len(s) + 1] = x
    BY <1>4, <2>2, <2>4
  <2>6. QED BY <2>3, <2>4, <2>5 DEF e, x
<1>8. CASE ~(size > MaxResponseSize)
  <2>1. x = Stored(r, size, FALSE) /\ x.size = size /\ size <= MaxResponseSize
    BY <1>2, <1>8 DEF x, Stored
  <2>2. e = Evicted([totalSize |-> TotalOf(u), responses |-> u])
    <3>1. e = Evicted([totalSize |-> storage.totalSize + size,
                       responses |-> SetResponse(storage.responses, x)])
      BY <1>8, <2>1 DEF AddResponseBody
    <3>2. storage.totalSize + size = TotalOf(u)
      BY <1>1, <1>5, <2>1
    <3>3. QED BY <1>6, <3>1, <3>2
  <2>3. u[Len(u)].size <= MaxResponseSize
    BY <1>4, <2>1
  <2> HIDE DEF e, u
  <2>4. PICK n \in 0..(Len(u) - 1) :
               /\ e.responses \in Seq(Kept) /\ Len(e.responses) = Len(u)
               /\ e.totalSize = TotalOf(e.responses) /\ e.totalSize <= MaxTotalSize
               /\ \A i \in 1..Len(u) :
                    e.responses[i] = IF i > n THEN u[i] ELSE Stored(u[i].id, 0, TRUE)
    BY <1>4, <2>2, <2>3, EvictedFits
  <2>5. n \in 0..Len(s) /\ Len(s) + 1 \in 1..Len(u) /\ Len(s) + 1 > n
        /\ \A i \in 1..Len(s) : i \in 1..Len(u)
    BY <1>1, <1>4
  <2>6. /\ \A i \in 1..Len(s) :
             e.responses[i] = IF i > n THEN s[i] ELSE Stored(s[i].id, 0, TRUE)
        /\ e.responses[Len(s) + 1] = x
    BY <1>4, <2>4, <2>5
  <2>7. QED BY <1>4, <2>4, <2>5, <2>6 DEF e, x
<1>9. QED BY <1>7, <1>8

\* onStopRequest: the request that ends is stored, and rests from then on.
LEMMA StoredAdds ==
  ASSUME StoredInv, Settles, NEW r \in Request, Live(r), Rested(r)',
         request[r].body \in Nat, request'[r].body = request[r].body,
         storage' = AddResponseBody(storage, r, request[r].body)
  PROVE  StoredInv'
<1>1. PICK S \in Seq(Kept) : S = Responses
  BY DEF StoredInv, Counted
<1>2. PICK x : x = IF request[r].body > MaxResponseSize THEN Stored(r, 0, TRUE)
                   ELSE Stored(r, request[r].body, FALSE)
  OBVIOUS
<1> DEFINE N == Len(S)
<1>3. N \in Nat /\ MaxResponseSize \in Int
  BY StorageAssumption
<1>4. \A q \in Request : Rested(q) => q # r
  BY DEF Rested
<1>5. ASSUME NEW i \in 1..N
      PROVE  /\ S[i].id \in Request /\ S[i].id # r
             /\ Rested(S[i].id)' /\ request'[S[i].id].body = request[S[i].id].body
             /\ S[i].evicted \in BOOLEAN
             /\ ~S[i].evicted => S[i].size = request[S[i].id].body
  <2>1. S[i].id \in Request /\ S[i].evicted \in BOOLEAN
    BY KeptFields
  <2>2. Rested(S[i].id) /\ (~S[i].evicted => S[i].size = request[S[i].id].body)
    BY <1>1 DEF StoredInv, AtRest, Bodies, IsEvicted
  <2>3. Rested(S[i].id)' /\ request'[S[i].id].body = request[S[i].id].body
    BY <2>1, <2>2 DEF Settles
  <2>4. QED BY <1>4, <2>1, <2>2, <2>3
<1>6. PICK R : R = Responses'
  OBVIOUS
<1>7. PICK n \in 0..N :
        /\ R \in Seq(Kept) /\ Len(R) = N + 1
        /\ storage'.totalSize = TotalOf(R) /\ storage'.totalSize <= MaxTotalSize
        /\ \A i \in 1..N : R[i] = IF i > n THEN S[i] ELSE Stored(S[i].id, 0, TRUE)
        /\ R[N + 1] = x
  <2>1. \A i \in 1..Len(Responses) : Responses[i].id # r
    BY <1>1, <1>5
  <2>2. Counted
    BY DEF StoredInv
  <2>3. storage'.responses = R
    BY <1>6 DEF Responses
  <2>4. QED BY <1>1, <1>2, <2>1, <2>2, <2>3, AddedResponse, ZenonT(30)
<1>8. \A i \in 1..N : /\ R[i].id = S[i].id
                      /\ R[i].evicted = IF i > n THEN S[i].evicted ELSE TRUE
                      /\ i > n => R[i].size = S[i].size
  <2> SUFFICES ASSUME NEW i \in 1..N
               PROVE  /\ R[i].id = S[i].id
                      /\ R[i].evicted = IF i > n THEN S[i].evicted ELSE TRUE
                      /\ i > n => R[i].size = S[i].size
    OBVIOUS
  <2>1. CASE i > n
    <3>1. R[i] = S[i]
      BY <1>7, <2>1
    <3>2. QED BY <2>1, <3>1
  <2>2. CASE ~(i > n)
    <3>1. R[i] = Stored(S[i].id, 0, TRUE)
      BY <1>7, <2>2
    <3>2. R[i].id = S[i].id /\ R[i].evicted = TRUE
      BY <3>1 DEF Stored
    <3>3. QED BY <2>2, <3>2
  <2>3. QED BY <2>1, <2>2
<1>9. /\ R[N + 1].id = r
      /\ R[N + 1].evicted <=> request[r].body > MaxResponseSize
      /\ ~R[N + 1].evicted => R[N + 1].size = request[r].body
  BY <1>2, <1>7 DEF Stored
<1>10. \A i \in 1..(N + 1) : i \in 1..N \/ i = N + 1
  BY <1>3
<1>11. Counted'
  BY <1>6, <1>7 DEF Counted, Responses
<1>12. Distinct'
  <2>1. \A i, j \in 1..(N + 1) : i # j => R[i].id # R[j].id
    <3>1. \A i, j \in 1..N : i # j => S[i].id # S[j].id
      BY <1>1 DEF StoredInv, Distinct
    <3>2. \A i \in 1..N : R[i].id = S[i].id /\ R[i].id # r
      BY <1>5, <1>8
    <3>3. \A i, j \in 1..N : i # j => R[i].id # R[j].id
      BY <3>1, <3>2
    <3> DEFINE Id(i) == R[i].id
    <3>4. /\ \A i, j \in 1..N : i # j => Id(i) # Id(j)
          /\ \A i \in 1..N : Id(i) # r
          /\ Id(N + 1) = r
      BY <3>2, <3>3, <1>9
    <3> HIDE DEF Id
    <3>5. \A i, j \in 1..(N + 1) : i # j => Id(i) # Id(j)
      BY <3>4, <1>10
    <3>6. QED BY <3>5 DEF Id
  <2>2. QED BY <1>6, <1>7, <2>1 DEF Distinct
<1>13. Bodies'
  <2>1. \A i \in 1..(N + 1) : ~R[i].evicted => R[i].size = request'[R[i].id].body
    <3>1. \A i \in 1..N : ~R[i].evicted => R[i].size = request'[R[i].id].body
      BY <1>5, <1>8, ZenonT(30)
    <3>2. ~R[N + 1].evicted => R[N + 1].size = request'[R[N + 1].id].body
      BY <1>9
    <3>3. QED BY <3>1, <3>2, <1>10
  <2>2. QED BY <1>6, <1>7, <2>1 DEF Bodies, IsEvicted
<1>14. AtRest'
  <2>1. ASSUME NEW i \in 1..(N + 1) PROVE \E q \in Request : q = R[i].id /\ Rested(q)'
    <3>1. CASE i \in 1..N
      BY <3>1, <1>5, <1>8
    <3>2. CASE i = N + 1
      BY <3>2, <1>9
    <3>3. QED BY <3>1, <3>2, <1>10
  <2>2. ASSUME NEW i \in 1..(N + 1) PROVE Rested(Responses[i].id)'
    <3>1. PICK q \in Request : q = R[i].id /\ Rested(q)'
      BY <2>1
    <3>2. Responses'[i].id = q
      BY <1>6, <3>1
    <3>3. QED BY <3>1, <3>2
  <2>3. QED BY <1>6, <1>7, <2>2 DEF AtRest
<1>15. OldestFirst'
  <2>1. ASSUME NEW i \in 1..(N + 1), NEW j \in 1..(N + 1), i < j, R[j].evicted,
               request'[R[j].id].body <= MaxResponseSize
        PROVE  R[i].evicted
    <3>1. CASE j = N + 1
      BY <3>1, <1>3, <1>9, <2>1
    <3>2. CASE j \in 1..N
      <4>1. i \in 1..N
        BY <3>2, <2>1, <1>3
      <4>2. CASE i > n
        <5> j > n
          BY <4>2, <2>1
        <5> request'[R[j].id].body = request[S[j].id].body
          BY <3>2, <1>5, <1>8
        <5>1. S[j].evicted /\ request[S[j].id].body <= MaxResponseSize
          BY <3>2, <2>1, <1>8
        <5>2. S[i].evicted
          BY <1>1, <2>1, <3>2, <4>1, <5>1 DEF StoredInv, OldestFirst, Fits, IsEvicted
        <5>3. QED BY <4>1, <4>2, <5>2, <1>8
      <4>3. CASE ~(i > n)
        BY <4>1, <4>3, <1>8
      <4>4. QED BY <4>2, <4>3
    <3>3. QED BY <3>1, <3>2, <1>10
  <2>2. QED BY <1>6, <1>7, <2>1 DEF OldestFirst, Fits, IsEvicted
<1>16. NewestKept'
  <2>1. request'[R[N + 1].id].body <= MaxResponseSize => ~R[N + 1].evicted
    BY <1>3, <1>9
  <2>2. QED BY <1>6, <1>7, <2>1 DEF NewestKept, Fits, IsEvicted
<1>17. QED BY <1>11, <1>12, <1>13, <1>14, <1>15, <1>16 DEF StoredInv

LEMMA OnStopStored ==
  ASSUME StructInv, StoredInv, Settles, NEW c \in Channel, OnStopRequest(c)
  PROVE  StoredInv'
<1>1. CASE Calls(c) /\ StopWell(c) /\ Tracked(owner[c])
  <2>1. PICK r \in Request : r = owner[c]
    BY <1>1, CallsOwner
  <2>2. TypeInv /\ channelToRequest[c] = r /\ request[r].httpChannel = c /\ Live(r)
    BY <1>1, <2>1 DEF OnStopRequest, Active, Calls, Live, StructInv, MapInv, Listens
  <2>3. Alters(r, TRUE, TRUE, request[r].expecting, request[r].yields, request[r].body)
    BY <1>1, <2>1, <2>2, SendOnResponseAlters DEF StopWell
  <2>4. channelToRequest' = [channelToRequest EXCEPT ![c] = None]
    BY <1>1 DEF OnStopRequest
  <2>5. \A d \in Channel : channelToRequest'[d] # r
    BY <2>2, <2>4, RequestPairs DEF StructInv, MapInv, Agrees, TypeInv
  <2>6. Rested(r)'
    BY <2>2, <2>3, <2>5, ChannelPairs DEF Rested, Live, Used, Alters
  <2>7. request[r].body \in Nat /\ request'[r].body = request[r].body
    BY <2>2, <2>3 DEF TypeInv, Fields, Alters
  <2>8. storage' = AddResponseBody(storage, r, request[r].body)
    BY <1>1, <2>1 DEF StopWell
  <2>9. QED BY <2>2, <2>6, <2>7, <2>8, StoredAdds
<1>2. CASE UNCHANGED storage
  BY <1>2, StoredKept
<1>3. QED BY <1>1, <1>2 DEF OnStopRequest, StopWell, StopFailed

LEMMA StoredNext == ASSUME StructInv, StoredInv, [Next]_vars PROVE StoredInv'
<1>1. Settles
  BY SettlesNext
<1>2. ASSUME NEW c \in Channel, OnStopRequest(c) PROVE StoredInv'
  BY <1>1, <1>2, OnStopStored
<1>3. CASE UNCHANGED storage
  BY <1>1, <1>3, StoredKept
<1>4. QED BY <1>2, <1>3
  DEF Next, vars, Callback, ClientAnswers, FrameAttached, Open, OnRequest,
      ShouldPrepareForIntercept, InternalRedirect, ChannelIntercepted, YieldToWorker,
      WorkerResponds, ResumeInterceptedRequest, EndIntercepted, FulfillInterceptedRequest,
      AbortInterceptedRequest, EnableRequestInterception, DisableRequestInterception,
      SetContextInterception, OnResponse, OnRedirect, RedirectVerified, PromptAuth,
      OnStartRequest, OnDataAvailable, Cancel

LEMMA InvStorageAccounts == ASSUME StoredInv PROVE StorageAccounts
<1>1. Responses \in Seq(Kept) /\ DOMAIN Responses = 1..Len(Responses) /\ Len(Responses) \in Nat
  BY DEF StoredInv, Counted
<1>2. \A i \in DOMAIN Responses : Fits(i) <=> request[Responses[i].id].body <= MaxResponseSize
  BY DEF Fits
<1>3. Responses # <<>> => Len(Responses) > 0 /\ Last(Responses) = Responses[Len(Responses)]
  BY <1>1, EmptySeq DEF Last
<1>4. QED BY <1>1, <1>3
          DEF StoredInv, Counted, Distinct, Bodies, OldestFirst, NewestKept, Fits, IsEvicted,
              StorageAccounts, Responses

\* The accounting of stored bodies: their sum is within the limit and is that
\* of the bodies kept, which are those of their requests; the oldest are
\* dropped, and the newest that fits is kept, for all limits, lengths and
\* orders in which responses end.
THEOREM StorageAccountsTheorem == Spec => []StorageAccounts
<1>1. Init => StructInv /\ StoredInv
  BY StructInit, StoredInit
<1>2. StructInv /\ StoredInv /\ [Next]_vars => (StructInv /\ StoredInv)'
  BY StructNext, StoredNext
<1>3. StructInv /\ StoredInv => StorageAccounts
  BY InvStorageAccounts
<1>4. QED BY <1>1, <1>2, <1>3, PTL DEF Spec
=============================================================================
