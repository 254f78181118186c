---------------------------- MODULE NetworkObserver ----------------------------
(***************************************************************************)
(* The requests of a page as its client sees them: NetworkObserver with its*)
(* NetworkRequests, the PageNetwork of the page, and the part of           *)
(* PageHandler that holds events back until their frame was reported.      *)
(*                                                                         *)
(* Firefox's side is a load of the frame: a chain of channels, of which an *)
(* interception, its end and a redirect each add one.  Every callback of   *)
(* Firefox is an action; all run on the main thread.  A NetworkRequest is  *)
(* <<load, n>>, the n-th of its load, which is what its requestId says.    *)
(***************************************************************************)
EXTENDS Integers, Sequences, FiniteSets, SequencesExt, ResponseStorage

CONSTANTS
  Load,           \* what the frame loads
  Worker,         \* loads that a service worker controls
  Untracked,      \* loads that may belong to no page target
  Cancelled,      \* loads that Firefox may cancel
  Hops,           \* of each load: how many channels it may add
  MaxRedirect,    \* how often a load may be redirected or authenticated
  Chunk,          \* the length of what onDataAvailable brings
  MaxBody,        \* of each load: the longest response
  None

ASSUME NetworkAssumption ==
  /\ Worker \subseteq Load /\ Untracked \subseteq Load /\ Cancelled \subseteq Load
  /\ Hops \in [Load -> Nat \ {0, 1}]     \* room for one interception
  /\ MaxRedirect \in Nat /\ Chunk \in Nat \ {0} /\ MaxBody \in [Load -> Nat]

Channel == UNION {{l} \X (0..Hops[l]) : l \in Load}
Request == Load \X (0..MaxRedirect)

ASSUME NoneAssumption == None \notin Channel /\ None \notin Request

VARIABLES
  chan,         \* what Firefox is doing with each channel
  plain,        \* channels that are not offered to an interceptor
  owner,        \* the NetworkRequest that is listener and callbacks of a channel
  tracked,      \* loads of a page target
  request,      \* the fields of each NetworkRequest
  channelToRequest,     \* _channelToRequest
  expectedRedirect,     \* _expectedRedirect, by the channel that has the id
  interceptedRequests,  \* _interceptedRequests, in the order of the map
  pageOn,       \* _requestInterceptionEnabled
  contextOn,    \* browserContext.requestInterceptionEnabled
  storage,      \* _responseStorage
  reported,     \* the frame is in _reportedFrameIds
  heldBack,     \* _networkEventsForUnreportedFrameIds, by request
  seen,         \* what the client was told of each request
  carries,      \* channels with the headers the client asked for
  asked         \* loads the client resumed with headers

netVars == <<chan, plain, owner>>
clientVars == <<reported, heldBack, seen>>
mapVars == <<channelToRequest, expectedRedirect>>
pageVars == <<interceptedRequests, pageOn, contextOn>>
headerVars == <<carries, asked>>
vars == <<netVars, clientVars, mapVars, pageVars, tracked, headerVars, request, storage>>

Unused == [httpChannel |-> None, sentOnRequest |-> FALSE, sentOnResponse |-> FALSE,
           expecting |-> "nothing", headers |-> FALSE, yields |-> FALSE, body |-> 0]

Nothing == [r \in Request |-> <<>>]
Joined(f, g) == [r \in Request |-> f[r] \o g[r]]

Init ==
  /\ chan = [c \in Channel |-> "none"] /\ plain = {}
  /\ owner = [c \in Channel |-> None]
  /\ \E S \in SUBSET Untracked : tracked = Load \ S
  /\ request = [r \in Request |-> Unused]
  /\ channelToRequest = [c \in Channel |-> None]
  /\ expectedRedirect = [c \in Channel |-> None]
  /\ interceptedRequests = <<>> /\ pageOn \in BOOLEAN /\ contextOn \in BOOLEAN
  /\ storage = EmptyStorage
  /\ reported = FALSE
  /\ heldBack = Nothing /\ seen = Nothing
  /\ carries = {} /\ asked = {}

LoadOf(x) == x[1]
NextChannel(c) == <<c[1], c[2] + 1>>
Successor(r) == <<r[1], r[2] + 1>>
IsRedirected(r) == r[2] > 0             \* redirectedFromId is set
Tracked(r) == LoadOf(r) \in tracked     \* _pageNetwork is set

\* The request whose own channel calls back; callbacks of others are ignored.
Calls(c) == owner[c] # None /\ request[owner[c]].httpChannel = c

-----------------------------------------------------------------------------
(* Events for the client.                                                  *)

\* PageNetwork.emit and _handleNetworkEvent, for the events of each request:
\* those of a frame that was not reported yet wait for it.
EmitAll(l, events) ==
  IF l \notin tracked THEN UNCHANGED <<seen, heldBack>>
  ELSE IF reported THEN seen' = Joined(seen, events) /\ UNCHANGED heldBack
  ELSE heldBack' = Joined(heldBack, events) /\ UNCHANGED seen

Emit(r, events) == EmitAll(LoadOf(r), [Nothing EXCEPT ![r] = events])

\* Faulty variant: every caller of _sendOnRequest gets its event.
RequestEventAlways(r, isIntercepted) ==
  <<IF isIntercepted THEN "intercepted" ELSE "request">>

\* _sendOnRequest: only the first of its callers sends the event.
RequestEvent(r, isIntercepted) ==
  IF request[r].sentOnRequest THEN <<>>
  ELSE <<IF isIntercepted THEN "intercepted" ELSE "request">>

\* _sendOnResponse makes sure of the request first.
ResponseEvents(r) ==
  RequestEvent(r, FALSE)
    \o (IF request[r].sentOnResponse THEN <<>> ELSE <<"response">>)

\* _sendOnRequestFinished: without a response the channel has no
\* responseEndTime, and nothing is sent.
FinishedEvent(r) == IF request[r].sentOnResponse THEN <<"finished">> ELSE <<>>

SendOnRequest(r, isIntercepted) ==
  /\ request' = [request EXCEPT ![r].sentOnRequest = TRUE]
  /\ Emit(r, RequestEvent(r, isIntercepted))

SendOnResponse(r) ==
  /\ request' = [request EXCEPT ![r].sentOnRequest = TRUE, ![r].sentOnResponse = TRUE]
  /\ Emit(r, ResponseEvents(r))

\* _onFrameAttached
FrameAttached ==
  /\ ~reported /\ reported' = TRUE
  /\ seen' = Joined(seen, heldBack)
  /\ heldBack' = Nothing
  /\ UNCHANGED <<netVars, mapVars, pageVars, tracked, headerVars, request, storage>>

-----------------------------------------------------------------------------
(* Requests.                                                               *)

Became(c, state) == chan' = [chan EXCEPT ![c] = state]

\* Firefox opens the first channel of a load.
Open(l) ==
  /\ chan[<<l, 0>>] = "none"
  /\ Became(<<l, 0>>, "opening")
  /\ UNCHANGED <<plain, owner, clientVars, mapVars, pageVars, tracked, headerVars,
                 request, storage>>

\* What follows http-on-modify-request.
Announced(c) == Became(c, IF c \in plain THEN "sending" ELSE "announced")

\* The constructor throws if the channel still has a request after the one it
\* redirects was finished.
Clashes(c) ==
  /\ expectedRedirect[c] # None /\ channelToRequest[c] # None
  /\ request[expectedRedirect[c]].httpChannel # c

Constructed(c, headers) ==
  [Unused EXCEPT !.httpChannel = c, !.headers = headers]

\* A channel nobody expects: the first request of its load.
NewRequest(c) ==
  LET r == <<LoadOf(c), 0>>
  IN /\ expectedRedirect[c] = None /\ channelToRequest[c] = None
     /\ request' = [request EXCEPT ![r] = Constructed(c, FALSE)]
     /\ channelToRequest' = [channelToRequest EXCEPT ![c] = r]
     /\ owner' = [owner EXCEPT ![c] = r]
     /\ UNCHANGED <<expectedRedirect, seen, heldBack, carries>>

\* A channel that was expected: a new request finishes the one it continues,
\* inherits its headers and its listener, and is reported at once.
RedirectedRequest(c) ==
  LET r == expectedRedirect[c]
      s == Successor(r)
      old == request[r].httpChannel
  IN /\ r # None /\ s \in Request /\ ~Clashes(c)
     /\ expectedRedirect' = [expectedRedirect EXCEPT ![c] = None]
     /\ request' = [request EXCEPT
          ![s] = [Constructed(c, request[r].headers) EXCEPT !.sentOnRequest = TRUE]]
     /\ channelToRequest' = [channelToRequest EXCEPT ![old] = None, ![c] = s]
     /\ owner' = [owner EXCEPT ![c] = s]
     /\ carries' = IF request[r].headers THEN carries \cup {c} ELSE carries
     /\ EmitAll(LoadOf(c), [Nothing EXCEPT ![r] = FinishedEvent(r), ![s] = <<"request">>])

\* Faulty variant: the headers are kept for redirects and never set here.
ResumedChannelBare(c) ==
  LET r == channelToRequest[c]
      expecting == request[r].expecting
  IN /\ expectedRedirect[c] = None /\ r # None
     /\ request' = IF expecting = "nothing" THEN request
                   ELSE [request EXCEPT ![r].expecting = "nothing",
                                        ![r].headers = (expecting = "headers")]
     /\ UNCHANGED <<carries, expectedRedirect, channelToRequest, owner, seen, heldBack>>

\* _onInternalRedirectReady: the replacement of a channel that was resumed
\* gets the headers the client asked for, if it asked.
ResumedChannel(c) ==
  LET r == channelToRequest[c]
      expecting == request[r].expecting
  IN /\ expectedRedirect[c] = None /\ r # None
     /\ request' = IF expecting = "nothing" THEN request
                   ELSE [request EXCEPT ![r].expecting = "nothing",
                                        ![r].headers = (expecting = "headers")]
     /\ carries' = IF expecting = "headers" THEN carries \cup {c} ELSE carries
     /\ UNCHANGED <<expectedRedirect, channelToRequest, owner, seen, heldBack>>

\* _onRequest, on http-on-modify-request.
OnRequest(c) ==
  /\ chan[c] = "opening"
  /\ NewRequest(c) \/ RedirectedRequest(c) \/ ResumedChannel(c)
  /\ Announced(c)
  /\ UNCHANGED <<plain, reported, pageVars, tracked, asked, storage>>

\* _shouldIntercept
ShouldIntercept(r) == ~IsRedirected(r) /\ Tracked(r) /\ (pageOn \/ contextOn)

\* shouldPrepareForIntercept: a service worker comes first.
ShouldPrepareForIntercept(c) ==
  LET r == owner[c]
  IN /\ chan[c] = "announced"
     /\ IF LoadOf(c) \in Worker
          THEN /\ request' = [request EXCEPT ![r].yields = TRUE]
               /\ Became(c, "diverting") /\ UNCHANGED <<seen, heldBack>>
          ELSE IF Calls(c) /\ ShouldIntercept(r)
          THEN Became(c, "diverting") /\ UNCHANGED <<request, seen, heldBack>>
          ELSE Became(c, "sending") /\ SendOnRequest(r, FALSE)
     /\ UNCHANGED <<plain, owner, reported, mapVars, pageVars, tracked, headerVars, storage>>

\* Faulty variant: the request stays with the channel that is replaced.
FollowsNever(c, d) == request' = request

\* _onInternalRedirect: the request moves on with its channel.
Follows(c, d) ==
  request' = IF channelToRequest[c] = None THEN request
             ELSE [request EXCEPT ![channelToRequest[c]].httpChannel = d]

\* An interception, and the end of one, replace the channel; what was asked of
\* the old one, its listener and its callbacks go with it.
InternalRedirect(c) ==
  LET d == NextChannel(c)
  IN /\ chan[c] \in {"diverting", "resetting"} /\ d \in Channel
     /\ chan' = [chan EXCEPT ![c] = "done",
                             ![d] = IF chan[c] = "diverting" THEN "intercepted" ELSE "opening"]
     /\ plain' = IF chan[c] = "resetting" THEN plain \cup {d} ELSE plain
     /\ owner' = [owner EXCEPT ![d] = owner[c]]
     /\ Follows(c, d)
     /\ channelToRequest' = [channelToRequest EXCEPT ![c] = None, ![d] = channelToRequest[c]]
     /\ carries' = IF c \in carries THEN carries \cup {d} ELSE carries
     /\ UNCHANGED <<expectedRedirect, clientVars, pageVars, tracked, asked, storage>>

-----------------------------------------------------------------------------
(* Interception.                                                           *)

Resumed(r, how) == [request EXCEPT ![r].expecting = how]

\* The page's client is asked, unless interception was switched off meanwhile.
Offer(c, r) ==
  IF ShouldIntercept(r)
    THEN /\ SendOnRequest(r, TRUE) /\ Became(c, "paused")
         /\ interceptedRequests' = Append(interceptedRequests, r)
    ELSE /\ request' = [request EXCEPT ![r].sentOnRequest = TRUE, ![r].expecting = "plain"]
         /\ Emit(r, RequestEvent(r, FALSE))
         /\ Became(c, "resetting") /\ UNCHANGED interceptedRequests

\* channelIntercepted
ChannelIntercepted(c) ==
  LET r == owner[c]
  IN /\ \/ chan[c] = "intercepted" /\ ~request[r].yields
        \/ chan[c] = "worker"       \* interceptAfterServiceWorkerResets
     /\ IF Tracked(r) THEN Offer(c, r)
        ELSE /\ request' = Resumed(r, "plain") /\ Became(c, "resetting")
             /\ UNCHANGED <<seen, heldBack, interceptedRequests>>
     /\ UNCHANGED <<plain, owner, reported, mapVars, pageOn, contextOn, tracked,
                    headerVars, storage>>

YieldToWorker(c) ==
  LET r == owner[c]
  IN /\ chan[c] = "intercepted" /\ request[r].yields
     /\ request' = [request EXCEPT ![r].yields = FALSE]
     /\ Became(c, "worker")
     /\ UNCHANGED <<plain, owner, clientVars, mapVars, pageVars, tracked, headerVars, storage>>

\* The service worker answers by itself.
WorkerResponds(c) ==
  /\ chan[c] = "worker"
  /\ Became(c, "synthesized")
  /\ UNCHANGED <<plain, owner, clientVars, mapVars, pageVars, tracked, headerVars,
                 request, storage>>

\* A client answers for requests it was told are intercepted.
Answers(r) == r \in ToSet(interceptedRequests) /\ Contains(seen[r], "intercepted")

Paused(r) == chan[request[r].httpChannel] = "paused"

\* Map.delete of a key that is there.
Removed(requests, r) ==
  RemoveAt(requests, CHOOSE i \in DOMAIN requests : requests[i] = r)

\* resume, fulfill and abort take the request out of the map first; they
\* throw when its channel is no longer paused.
ResumeInterceptedRequest(r, how) ==
  /\ Answers(r)
  /\ interceptedRequests' = Removed(interceptedRequests, r)
  /\ request' = Resumed(r, how)
  /\ IF Paused(r)
       THEN /\ Became(request[r].httpChannel, "resetting")
            /\ asked' = IF how = "headers" THEN asked \cup {LoadOf(r)} ELSE asked
       ELSE UNCHANGED <<chan, asked>>
  /\ UNCHANGED <<plain, owner, clientVars, mapVars, pageOn, contextOn, tracked, carries,
                 storage>>

EndIntercepted(r, state) ==
  /\ Answers(r)
  /\ interceptedRequests' = Removed(interceptedRequests, r)
  /\ IF Paused(r) THEN Became(request[r].httpChannel, state) ELSE UNCHANGED chan
  /\ UNCHANGED <<plain, owner, clientVars, mapVars, pageOn, contextOn, tracked, headerVars,
                 request, storage>>

FulfillInterceptedRequest(r) == EndIntercepted(r, "synthesized")
AbortInterceptedRequest(r) == EndIntercepted(r, "cancelled")

EnableRequestInterception ==
  /\ ~pageOn /\ pageOn' = TRUE
  /\ UNCHANGED <<netVars, clientVars, mapVars, interceptedRequests, contextOn, tracked,
                 headerVars, request, storage>>

\* disableRequestInterception: the loop ends with the first request that
\* throws, and then the map is not cleared.
DisableRequestInterception ==
  LET late == {i \in DOMAIN interceptedRequests : ~Paused(interceptedRequests[i])}
      upTo == {i \in DOMAIN interceptedRequests : \A j \in late : i <= j}
      touched == {interceptedRequests[i] : i \in upTo}
  IN /\ pageOn /\ pageOn' = FALSE
     /\ request' = [r \in Request |->
          IF r \in touched THEN [request[r] EXCEPT !.expecting = "plain"] ELSE request[r]]
     /\ chan' = [c \in Channel |->
          IF chan[c] = "paused" /\ owner[c] \in touched THEN "resetting" ELSE chan[c]]
     /\ interceptedRequests' = IF late = {} THEN <<>> ELSE interceptedRequests
     /\ UNCHANGED <<plain, owner, clientVars, mapVars, contextOn, tracked, headerVars, storage>>

\* Browser.setRequestInterception touches no request that is paused.
SetContextInterception ==
  /\ contextOn' = ~contextOn
  /\ UNCHANGED <<netVars, clientVars, mapVars, interceptedRequests, pageOn, tracked,
                 headerVars, request, storage>>

-----------------------------------------------------------------------------
(* The answer of the network.                                              *)

\* _onResponse, on http-on-examine-response.
OnResponse(c) ==
  /\ chan[c] = "sending"
  /\ Became(c, "answered")
  /\ IF channelToRequest[c] = None THEN UNCHANGED <<request, seen, heldBack>>
     ELSE SendOnResponse(channelToRequest[c])
  /\ UNCHANGED <<plain, owner, reported, mapVars, pageVars, tracked, headerVars, storage>>

\* The bound on redirects: a service worker may take each, which takes two hops.
RoomForRedirect(c) ==
  c[2] + (IF LoadOf(c) \in Worker THEN 3 ELSE 1) <= Hops[LoadOf(c)]

\* _onRedirect: the new channel is expected.  An upgrade to https, which has
\* no response, gets the event of one.
OnRedirect(c, upgrade) ==
  LET d == NextChannel(c)
      r == channelToRequest[c]
  IN /\ chan[c] \in IF upgrade THEN {"sending"} ELSE {"sending", "answered"}
     /\ RoomForRedirect(c) /\ owner[c] \in Request /\ Successor(owner[c]) \in Request
     /\ Became(c, "redirecting")
     /\ owner' = [owner EXCEPT ![d] = owner[c]]
     /\ expectedRedirect' = [expectedRedirect EXCEPT ![d] = r]
     /\ IF r # None /\ upgrade THEN SendOnResponse(r) ELSE UNCHANGED <<request, seen, heldBack>>
     /\ UNCHANGED <<plain, channelToRequest, reported, pageVars, tracked, headerVars, storage>>

RedirectVerified(c) ==
  /\ chan[c] = "redirecting"
  /\ chan' = [chan EXCEPT ![c] = "done", ![NextChannel(c)] = "opening"]
  /\ UNCHANGED <<plain, owner, clientVars, mapVars, pageVars, tracked, headerVars,
                 request, storage>>

\* promptAuth: with credentials the same channel is sent again, and expected.
PromptAuth(c) ==
  /\ chan[c] = "answered" /\ Calls(c) /\ Tracked(owner[c]) /\ Successor(owner[c]) \in Request
  /\ expectedRedirect' = [expectedRedirect EXCEPT ![c] = owner[c]]
  /\ plain' = plain \cup {c}
  /\ Became(c, "opening")
  /\ UNCHANGED <<owner, channelToRequest, clientVars, pageVars, tracked, headerVars,
                 request, storage>>

\* onStartRequest
OnStartRequest(c) ==
  /\ chan[c] \in {"answered", "synthesized", "cancelled"}
  /\ Became(c, IF chan[c] = "cancelled" THEN "failing" ELSE "receiving")
  /\ IF Calls(c) THEN SendOnRequest(owner[c], FALSE) ELSE UNCHANGED <<request, seen, heldBack>>
  /\ UNCHANGED <<plain, owner, reported, mapVars, pageVars, tracked, headerVars, storage>>

\* onDataAvailable
OnDataAvailable(c) ==
  LET r == owner[c]
  IN /\ chan[c] = "receiving" /\ Calls(c) /\ request[r].body + Chunk <= MaxBody[LoadOf(c)]
     /\ request' = [request EXCEPT ![r].sentOnRequest = TRUE, ![r].sentOnResponse = TRUE,
                                   ![r].body = @ + Chunk]
     /\ Emit(r, ResponseEvents(r))
     /\ UNCHANGED <<netVars, reported, mapVars, pageVars, tracked, headerVars, storage>>

\* onStopRequest with status 0: the body is stored and the request finished.
StopWell(c) ==
  LET r == owner[c]
  IN /\ request' = [request EXCEPT ![r].sentOnRequest = TRUE, ![r].sentOnResponse = TRUE]
     /\ storage' = IF Tracked(r) THEN AddResponseBody(storage, r, request[r].body) ELSE storage
     /\ Emit(r, ResponseEvents(r) \o <<"finished">>)

StopFailed(c) ==
  /\ Emit(owner[c], <<"failed">>)
  /\ UNCHANGED <<request, storage>>

\* onStopRequest
OnStopRequest(c) ==
  /\ chan[c] \in {"receiving", "failing"}
  /\ Became(c, "done")
  /\ IF Calls(c)
       THEN /\ IF chan[c] = "receiving" THEN StopWell(c) ELSE StopFailed(c)
            /\ channelToRequest' = [channelToRequest EXCEPT ![c] = None]
       ELSE UNCHANGED <<request, storage, seen, heldBack, channelToRequest>>
  /\ UNCHANGED <<plain, owner, reported, expectedRedirect, pageVars, tracked, headerVars>>

\* Firefox cancels a channel: its frame navigates or goes, the network fails.
Cancel(c) ==
  /\ LoadOf(c) \in Cancelled
  /\ chan[c] \notin {"none", "cancelled", "failing", "done"}
  /\ Became(c, IF chan[c] = "receiving" THEN "failing" ELSE "cancelled")
  /\ UNCHANGED <<plain, owner, clientVars, mapVars, pageVars, tracked, headerVars,
                 request, storage>>

-----------------------------------------------------------------------------

Callback(c) ==
  \/ OnRequest(c) \/ ShouldPrepareForIntercept(c) \/ InternalRedirect(c)
  \/ ChannelIntercepted(c) \/ YieldToWorker(c) \/ WorkerResponds(c)
  \/ OnResponse(c) \/ RedirectVerified(c)
  \/ OnStartRequest(c) \/ OnStopRequest(c)

ClientAnswers(r) ==
  \/ \E how \in {"plain", "headers"} : ResumeInterceptedRequest(r, how)
  \/ FulfillInterceptedRequest(r)
  \/ AbortInterceptedRequest(r)

Next ==
  \/ FrameAttached \/ \E l \in Load : Open(l)
  \/ \E c \in Channel :
       \/ Callback(c) \/ OnDataAvailable(c) \/ PromptAuth(c) \/ Cancel(c)
       \/ \E upgrade \in BOOLEAN : OnRedirect(c, upgrade)
  \/ \E r \in Request : ClientAnswers(r)
  \/ EnableRequestInterception \/ DisableRequestInterception \/ SetContextInterception

Spec == Init /\ [][Next]_vars

\* Firefox calls back and reports the frame, and the client answers for what it
\* was told is intercepted.
Fairness ==
  /\ WF_vars(FrameAttached)
  /\ \A l \in Load : WF_vars(\E c \in Channel : LoadOf(c) = l /\ Callback(c))
  /\ WF_vars(\E r \in Request : ClientAnswers(r))

FairSpec == Spec /\ Fairness

-----------------------------------------------------------------------------
(* Properties.                                                             *)

Lives == {<<>>} \cup
  UNION {{<<first>>, <<first, "failed">>, <<first, "response">>,
          <<first, "response", "finished">>, <<first, "response", "failed">>} :
         first \in {"request", "intercepted"}}

\* The client sees the life of every request: once that it is sent or paused,
\* then at most one response, then at most one end, whatever redirects,
\* interceptions, service workers and failures the load went through, and in
\* that order, whenever its frame was reported (_sendOnRequest and its four
\* callers, _handleNetworkEvent).  The constructor's "invariant is broken for
\* _channelToRequest map" is never thrown.
ClientSeesLife ==
  /\ \A r \in Request : seen[r] \o heldBack[r] \in Lives
  /\ reported => heldBack = Nothing
  /\ \A c \in Channel : chan[c] = "opening" => ~Clashes(c)

\* A channel is never paused behind the client's back: its request is in the
\* map and was reported as intercepted, also when interception was switched
\* off, or back on, while the channel was on its way (channelIntercepted).
\* What the client asked for on resuming goes to the network: the channel that
\* replaces the paused one has the headers, and so have those it is
\* redirected to (_expectingResumedRequest, _overriddenHeadersForRedirect),
\* except that a service worker that is offered a redirect and declines makes
\* the request forget the headers: it is resumed with none.
InterceptionServes ==
  /\ \A c \in Channel : chan[c] = "paused" =>
       /\ Calls(c) /\ owner[c] \in ToSet(interceptedRequests)
       /\ Contains(Joined(seen, heldBack)[owner[c]], "intercepted")
  /\ \A c \in Channel :
       /\ chan[c] \in {"sending", "answered"} /\ LoadOf(c) \in asked
       /\ LoadOf(c) \in Worker => ~IsRedirected(owner[c])
       => c \in carries

\* The accounting of stored bodies: the sum is that of the bodies kept, within
\* the limit, those dropped are the oldest, and the newest that fits is kept.
StorageAccounts ==
  LET Responses == storage.responses
      Small(i) == request[Responses[i].id].body <= MaxResponseSize
  IN /\ storage.totalSize = TotalOf(Responses) /\ storage.totalSize <= MaxTotalSize
     /\ \A i, j \in DOMAIN Responses : i # j => Responses[i].id # Responses[j].id
     /\ \A i \in DOMAIN Responses :
          ~Responses[i].evicted => Responses[i].size = request[Responses[i].id].body
     /\ \A i, j \in DOMAIN Responses :
          i < j /\ Small(j) /\ Responses[j].evicted => Responses[i].evicted
     /\ Responses # <<>> /\ Small(Len(Responses)) => ~Last(Responses).evicted

\* The redirect of a request whose new channel was cancelled before it was
\* announced: its end is told to nobody.
Lost(r) ==
  \E c \in Channel : /\ expectedRedirect[c] = r
                     /\ chan[c] \in {"cancelled", "failing", "done"} /\ ~Calls(c)

\* Every request the client was told of ends for it: finished, failed, or
\* continued by another one.  None stays open.
RequestsEnd ==
  []<>(\A r \in Request :
         \/ seen[r] = <<>> \/ Last(seen[r]) \in {"finished", "failed"}
         \/ Successor(r) \in Request /\ seen[Successor(r)] # <<>>
         \/ Lost(r))
=============================================================================
