--------------------------- MODULE TargetLifecycle ---------------------------
(***************************************************************************)
(* Tabs, page targets, browser contexts and page sessions in the parent    *)
(* process: TargetRegistry, PageTarget and BrowserContext of               *)
(* juggler/TargetRegistry.js, with the BrowserHandler of the one client.   *)
(*                                                                         *)
(* The tabs and the windows belong to Firefox, which reports what becomes  *)
(* of them later and in its own time: a window is opened, its tab is       *)
(* reported (TabOpen), a close is asked for, the tab is gone (TabClose),   *)
(* and in between its content process may crash.  The set pages of a       *)
(* BrowserContext is the set of the live targets of that context, and      *)
(* _browserToTarget is the set of all of them; neither is kept twice here. *)
(***************************************************************************)
EXTENDS Integers, Sequences, FiniteSets

CONSTANTS
  NPage,        \* tabs that may come to exist
  Context,      \* contexts the client may create, next to the default one
  HasTimezone   \* contexts with a timezone override

Page    == 1..NPage
Default == 0

ASSUME LifecycleAssumption ==
  NPage \in Nat /\ Default \notin Context /\ HasTimezone \subseteq Context

AnyContext == Context \cup {Default}

VARIABLES
  context,          \* the life of each context
  created,          \* _createdBrowserContextIds
  domain,           \* how far Browser.enable came: _enabled, and the listeners
  attachToDefault,  \* _attachToDefaultContext
  lastWindowQuits,  \* _lastWindowQuits
  tab,              \* what Firefox made of each tab
  contextOf,        \* the context each tab was opened in
  target,           \* the PageTarget of each tab
  sessions,         \* keys of _attachedSessions
  call,             \* the Browser.newPage that each tab is made for
  chain,            \* those calls, in the order of globalNewPageChain
  served,           \* how many of them the chain has left behind
  crashed,          \* tabs whose content process crashed
  timers,           \* tabs with a _closeCrashedTab due
  retained,         \* _retainedCrashedTargets
  quit              \* the browser quit with its last window

clientVars == <<context, created, domain, attachToDefault>>
tabVars    == <<tab, contextOf, quit>>
chainVars  == <<call, chain, served>>
crashVars  == <<crashed, timers, retained>>
vars == <<clientVars, lastWindowQuits, tabVars, target, sessions, chainVars, crashVars>>

PagesOf(c) == {p \in Page : contextOf[p] = c /\ target[p] = "live"}
Known(c)   == context[c] \in {"live", "removing"}   \* in the maps of the registry

\* The first page no tab was opened, nor asked for, under.
Fresh(p) == /\ tab[p] = "none" /\ call[p] = "none"
            /\ \A q \in Page : q < p => tab[q] # "none" \/ call[q] # "none"

\* _enabled is set before the preferences of the client are, and stays set when
\* one of them throws.
Enabled == domain \in {"on", "failed"}

Attaches(p, toDefault) == contextOf[p] \in created \/ (toDefault /\ contextOf[p] = Default)
ShouldAttachToTarget(p) == Attaches(p, attachToDefault)

\* Once its tab has a target, a newPage call is answered, or first asks the page
\* whether the timezone took.
AfterTarget(p) == IF contextOf[p] \in HasTimezone THEN "timezone" ELSE "answered"

\* Does the browser quit when the tabs S are closed?
Quits(S) == lastWindowQuits /\ \A q \in Page \ S : tab[q] \notin {"window", "open"}

Init ==
  /\ context = [c \in AnyContext |-> IF c = Default THEN "live" ELSE "none"]
  /\ created = {} /\ domain = "off" /\ attachToDefault = FALSE
  /\ lastWindowQuits \in BOOLEAN
  /\ tab = [p \in Page |-> IF lastWindowQuits /\ p = 1 THEN "window" ELSE "none"]
  /\ contextOf = [p \in Page |-> Default]
  /\ target = [p \in Page |-> "none"]
  /\ sessions = {}
  /\ call = [p \in Page |-> "none"] /\ chain = <<>> /\ served = 0
  /\ crashed = {} /\ timers = {} /\ retained = {}
  /\ quit = FALSE

-----------------------------------------------------------------------------
(* The client *)

\* Browser.enable, up to the end of the browser's startup ...
Enable ==
  /\ ~quit /\ domain = "off"
  /\ domain' = "starting"
  /\ UNCHANGED <<context, created, attachToDefault, lastWindowQuits, tabVars, target,
                 sessions, chainVars, crashVars>>

\* Faulty variant: the targets that exist already would be left out.
EnableListensOnly ==
  /\ ~quit /\ domain = "starting"
  /\ domain' = "on"
  /\ attachToDefault' \in BOOLEAN
  /\ UNCHANGED <<context, created, lastWindowQuits, tabVars, target, sessions, chainVars,
                 crashVars>>

\* ... and from there on: the targets that exist already are attached.
EnableDone ==
  /\ ~quit /\ domain = "starting"
  /\ domain' = "on"
  /\ attachToDefault' \in BOOLEAN
  /\ sessions' = {p \in Page : target[p] = "live" /\ Attaches(p, attachToDefault')}
  /\ UNCHANGED <<context, created, lastWindowQuits, tabVars, target, chainVars, crashVars>>

\* ... or it throws at a preference it does not take: there are neither listeners
\* nor sessions, and a second Browser.enable returns at once.
EnableFails ==
  /\ ~quit /\ domain = "starting"
  /\ domain' = "failed"
  /\ attachToDefault' \in BOOLEAN
  /\ UNCHANGED <<context, created, lastWindowQuits, tabVars, target, sessions, chainVars,
                 crashVars>>

CreateBrowserContext(c) ==
  /\ ~quit /\ Enabled /\ context[c] = "none"
  /\ context' = [context EXCEPT ![c] = "live"]
  /\ created' = created \cup {c}
  /\ UNCHANGED <<domain, attachToDefault, lastWindowQuits, tabVars, target, sessions,
                 chainVars, crashVars>>

\* Faulty variant: the context would be forgotten without awaiting its pages.
RemoveAtOnce(c) ==
  /\ ~quit /\ Enabled /\ c # Default /\ context[c] = "live"
  /\ LET closed == {p \in PagesOf(c) : tab[p] = "open"} IN
     /\ tab' = [p \in Page |-> IF p \in closed THEN "closing" ELSE tab[p]]
     /\ quit' = (closed # {} /\ Quits(closed))
  /\ context' = [context EXCEPT ![c] = "gone"]
  /\ created' = created \ {c}
  /\ UNCHANGED <<domain, attachToDefault, lastWindowQuits, contextOf, target, sessions,
                 chainVars, crashVars>>

\* Browser.removeBrowserContext: destroy() closes the pages the context has now,
\* and without any the context is gone at once.
RemoveBrowserContext(c) ==
  /\ ~quit /\ Enabled /\ c # Default /\ context[c] = "live"
  /\ LET closed == {p \in PagesOf(c) : tab[p] = "open"} IN
     /\ tab' = [p \in Page |-> IF p \in closed THEN "closing" ELSE tab[p]]
     /\ quit' = (closed # {} /\ Quits(closed))
  /\ IF PagesOf(c) = {}
     THEN context' = [context EXCEPT ![c] = "gone"] /\ created' = created \ {c}
     ELSE context' = [context EXCEPT ![c] = "removing"] /\ UNCHANGED created
  /\ UNCHANGED <<domain, attachToDefault, lastWindowQuits, contextOf, target, sessions,
                 chainVars, crashVars>>

\* Browser.newPage joins the chain, for a context the client knew at some time.
NewPage(p, c) ==
  /\ ~quit /\ Fresh(p) /\ context[c] # "none"
  /\ contextOf' = [contextOf EXCEPT ![p] = c]
  /\ call' = [call EXCEPT ![p] = "queued"]
  /\ chain' = Append(chain, p)
  /\ UNCHANGED <<clientVars, lastWindowQuits, tab, quit, target, sessions, served, crashVars>>

-----------------------------------------------------------------------------
(* _newPageInternal, one call at a time *)

\* Faulty variant: a call that fails would reject the chain with it.
OpenWindowBreaksChain(p) ==
  /\ ~quit /\ served < Len(chain) /\ chain[served + 1] = p
  /\ call[p] = "queued"
  /\ IF Known(contextOf[p])
     THEN /\ tab' = [tab EXCEPT ![p] = "window"]
          /\ call' = [call EXCEPT ![p] = "window"]
     ELSE /\ call' = [call EXCEPT ![p] = "failed"]
          /\ UNCHANGED tab
  /\ UNCHANGED <<clientVars, lastWindowQuits, contextOf, quit, target, sessions, chain, served,
                 crashVars>>

\* The context is looked up and a window opened; without a context the call fails.
OpenWindow(p) ==
  /\ ~quit /\ served < Len(chain) /\ chain[served + 1] = p
  /\ call[p] = "queued"
  /\ IF Known(contextOf[p])
     THEN /\ tab' = [tab EXCEPT ![p] = "window"]
          /\ call' = [call EXCEPT ![p] = "window"]
          /\ UNCHANGED served
     ELSE /\ call' = [call EXCEPT ![p] = "failed"]
          /\ served' = served + 1
          /\ UNCHANGED tab
  /\ UNCHANGED <<clientVars, lastWindowQuits, contextOf, quit, target, sessions, chain, crashVars>>

\* waitForWindowReady returns: is there a target by now?
WindowReady(p) ==
  /\ ~quit /\ call[p] = "window" /\ tab[p] \in {"window", "open"}
  /\ call' = [call EXCEPT ![p] = IF target[p] = "live" THEN AfterTarget(p) ELSE "target"]
  /\ served' = IF call'[p] = "answered" THEN served + 1 ELSE served
  /\ UNCHANGED <<clientVars, lastWindowQuits, tabVars, target, sessions, chain, crashVars>>

\* hasFailedToOverrideTimezone is answered by the page.
TimezoneChecked(p) ==
  /\ ~quit /\ call[p] = "timezone"
  /\ \E result \in {"answered", "failed"} : call' = [call EXCEPT ![p] = result]
  /\ served' = served + 1
  /\ UNCHANGED <<clientVars, lastWindowQuits, tabVars, target, sessions, chain, crashVars>>

-----------------------------------------------------------------------------
(* Tabs come and go *)

\* Faulty variant: crashed pages that were kept would be kept for ever.
TabOpenKeepsCrashed(p) ==
  /\ ~quit /\ tab[p] = "window" /\ Known(contextOf[p])
  /\ tab' = [tab EXCEPT ![p] = "open"]
  /\ target' = [target EXCEPT ![p] = "live"]
  /\ sessions' = IF domain = "on" /\ ShouldAttachToTarget(p) THEN sessions \cup {p} ELSE sessions
  /\ call' = [call EXCEPT ![p] = IF @ = "target" THEN AfterTarget(p) ELSE @]
  /\ served' = IF call[p] = "target" /\ call'[p] = "answered" THEN served + 1 ELSE served
  /\ UNCHANGED <<clientVars, lastWindowQuits, contextOf, quit, chain, crashVars>>

\* onTabOpenListener: the tab gets a target, its clients are told, the call that
\* waits for it goes on, and crashed pages that were kept may go.  It throws when
\* the context of the tab is not known (any more).
TabOpen(p) ==
  /\ ~quit /\ tab[p] = "window"
  /\ tab' = [tab EXCEPT ![p] = "open"]
  /\ IF Known(contextOf[p])
     THEN /\ target' = [target EXCEPT ![p] = "live"]
          /\ sessions' = IF domain = "on" /\ ShouldAttachToTarget(p)
                         THEN sessions \cup {p} ELSE sessions
          /\ call' = [call EXCEPT ![p] = IF @ = "target" THEN AfterTarget(p) ELSE @]
          /\ served' = IF call[p] = "target" /\ call'[p] = "answered" THEN served + 1 ELSE served
          /\ timers' = timers \cup retained
          /\ retained' = {}
     ELSE UNCHANGED <<target, sessions, call, served, timers, retained>>
  /\ UNCHANGED <<clientVars, lastWindowQuits, contextOf, quit, chain, crashed>>

\* A page opens a popup, in its own context.
OpenPopup(p, opener) ==
  /\ ~quit /\ Fresh(p)
  /\ tab[opener] = "open" /\ target[opener] = "live"
  /\ tab' = [tab EXCEPT ![p] = "window"]
  /\ contextOf' = [contextOf EXCEPT ![p] = contextOf[opener]]
  /\ UNCHANGED <<clientVars, lastWindowQuits, quit, target, sessions, chainVars, crashVars>>

\* Page.close of the client, or window.close of the page itself.
ClosePage(p) ==
  /\ ~quit /\ tab[p] = "open" /\ target[p] = "live"
  /\ tab' = [tab EXCEPT ![p] = "closing"]
  /\ quit' = Quits({p})
  /\ UNCHANGED <<clientVars, lastWindowQuits, contextOf, target, sessions, chainVars, crashVars>>

\* Faulty variant: the end of a target would not be told to destroy().
DisposeInSilence(p) ==
  /\ target' = [target EXCEPT ![p] = "disposed"]
  /\ sessions' = sessions \ {p}
  /\ UNCHANGED <<context, created>>

\* PageTarget.dispose: the session is destroyed, and every destroy() that finds
\* the pages of its context gone comes to its end.
Dispose(p) ==
  /\ target' = [target EXCEPT ![p] = "disposed"]
  /\ sessions' = sessions \ {p}
  /\ context' = [c \in AnyContext |-> IF context[c] = "removing" /\ PagesOf(c) \subseteq {p}
                                      THEN "gone" ELSE context[c]]
  /\ created' = {c \in created : context'[c] # "gone"}

\* onTabCloseListener, or onCloseWindow for the tabs of a window.
TabClose(p) ==
  /\ ~quit /\ tab[p] = "closing"
  /\ tab' = [tab EXCEPT ![p] = "closed"]
  /\ IF target[p] = "live" THEN Dispose(p) ELSE UNCHANGED <<target, sessions, context, created>>
  /\ UNCHANGED <<domain, attachToDefault, lastWindowQuits, contextOf, quit, chainVars, crashVars>>

-----------------------------------------------------------------------------
(* Crashed pages *)

\* Faulty variant: nothing would close the tab of a crashed page.
CrashLeavesTab(p) ==
  /\ ~quit /\ tab[p] \in {"open", "closing"} /\ target[p] = "live"
  /\ Dispose(p)
  /\ crashed' = crashed \cup {p}
  /\ UNCHANGED <<domain, attachToDefault, lastWindowQuits, tabVars, chainVars, timers, retained>>

\* oop-frameloader-crashed: the target goes at once, its tab by a timer.
Crash(p) ==
  /\ ~quit /\ tab[p] \in {"open", "closing"} /\ target[p] = "live"
  /\ Dispose(p)
  /\ crashed' = crashed \cup {p}
  /\ timers' = timers \cup {p}
  /\ UNCHANGED <<domain, attachToDefault, lastWindowQuits, tabVars, chainVars, retained>>

\* Faulty variant: a window that is closing would count as another window.
CloseCrashedCountsClosing(p) ==
  /\ ~quit /\ p \in timers
  /\ timers' = timers \ {p}
  /\ IF lastWindowQuits /\ \A q \in Page \ {p} : tab[q] \in {"none", "closed"}
     THEN retained' = retained \cup {p} /\ UNCHANGED <<tab, quit>>
     ELSE /\ tab' = [tab EXCEPT ![p] = IF @ = "open" THEN "closing" ELSE @]
          /\ quit' = (tab[p] = "open" /\ Quits({p}))
          /\ UNCHANGED retained
  /\ UNCHANGED <<clientVars, lastWindowQuits, contextOf, target, sessions, chainVars, crashed>>

\* _closeCrashedTab: kept if it is the last tab of a browser that would quit with
\* it, closed otherwise.  A window that is just opening may count or not.
CloseCrashedTab(p) ==
  /\ ~quit /\ p \in timers
  /\ timers' = timers \ {p}
  /\ \/ /\ lastWindowQuits /\ \A q \in Page \ {p} : tab[q] # "open"
        /\ retained' = retained \cup {p}
        /\ UNCHANGED <<tab, quit>>
     \/ /\ lastWindowQuits => \E q \in Page \ {p} : tab[q] \in {"window", "open"}
        /\ tab' = [tab EXCEPT ![p] = IF @ = "open" THEN "closing" ELSE @]
        /\ quit' = (tab[p] = "open" /\ Quits({p}))
        /\ UNCHANGED retained
  /\ UNCHANGED <<clientVars, lastWindowQuits, contextOf, target, sessions, chainVars, crashed>>

-----------------------------------------------------------------------------

Next ==
  \/ Enable \/ EnableDone \/ EnableFails
  \/ \E c \in Context : CreateBrowserContext(c) \/ RemoveBrowserContext(c)
  \/ \E p \in Page, c \in AnyContext : NewPage(p, c)
  \/ \E p \in Page : OpenWindow(p) \/ WindowReady(p) \/ TimezoneChecked(p)
  \/ \E p \in Page : TabOpen(p) \/ ClosePage(p) \/ TabClose(p)
  \/ \E p, opener \in Page : OpenPopup(p, opener)
  \/ \E p \in Page : Crash(p) \/ CloseCrashedTab(p)

Spec == Init /\ [][Next]_vars

\* Firefox reports what it was asked for, timers fire, and a page that lives
\* answers.  Nothing is promised of the client or the pages' scripts.  A tab
\* takes each of these steps a bounded number of times, so none is passed over.
Fairness ==
  /\ WF_vars(\E p \in Page : OpenWindow(p)) /\ WF_vars(\E p \in Page : WindowReady(p))
  /\ WF_vars(\E p \in Page : target[p] = "live" /\ TimezoneChecked(p))
  /\ WF_vars(\E p \in Page : TabOpen(p)) /\ WF_vars(\E p \in Page : TabClose(p))
  /\ WF_vars(\E p \in Page : CloseCrashedTab(p))

FairSpec == Spec /\ Fairness

-----------------------------------------------------------------------------
(* Properties *)

TypeOK ==
  /\ context \in [AnyContext -> {"none", "live", "removing", "gone"}]
  /\ created \subseteq Context
  /\ domain \in {"off", "starting", "on", "failed"}
  /\ attachToDefault \in BOOLEAN /\ lastWindowQuits \in BOOLEAN
  /\ tab \in [Page -> {"none", "window", "open", "closing", "closed"}]
  /\ contextOf \in [Page -> AnyContext]
  /\ target \in [Page -> {"none", "live", "disposed"}]
  /\ sessions \subseteq Page
  /\ call \in [Page -> {"none", "queued", "window", "target", "timezone", "answered", "failed"}]
  /\ chain \in Seq(Page) /\ served \in 0..Len(chain)
  /\ crashed \subseteq Page /\ timers \subseteq crashed /\ retained \subseteq crashed
  /\ quit \in BOOLEAN

\* Once Browser.enable has completed the client has a session for exactly the
\* pages that live in its contexts, whatever was opened, closed, crashed or
\* removed meanwhile (_onTargetCreated, _onTargetDestroyed, and the loop of
\* Browser.enable).  Before that it has none, and after a Browser.enable that
\* threw half-way it never gets one, for the contexts it may create just as well.
SessionsMatchTargets ==
  /\ domain = "on" => sessions = {p \in Page : target[p] = "live" /\ ShouldAttachToTarget(p)}
  /\ domain # "on" => sessions = {}

\* A context the client is told is removed has no page left, and none comes later.
RemovedIsEmpty ==
  \A c \in Context : context[c] = "gone" => PagesOf(c) = {}

\* Crashed pages are kept only while no page is open (_retainedCrashedTargets):
\* otherwise every crash would leave a window behind, for good.
KeptOnlyWhenLast ==
  retained # {} => \A q \in Page : ~(tab[q] = "open" /\ target[q] = "live")

\* Cleaning up after crashes never quits a persistent browser under its client:
\* only the close of a page that lives does.
CrashNeverQuits ==
  [][~quit /\ quit' => \E p \in Page : /\ tab[p] = "open" /\ target[p] = "live"
                                       /\ tab'[p] = "closing"]_vars

\* The tab of a crashed page goes, unless it is the last thing left: again and
\* again, none is there or no page lives (_closeCrashedTab and its timers).
CrashedTabsGo ==
  []<>(\/ quit \/ \A q \in Page : target[q] # "live"
       \/ \A p \in crashed : tab[p] = "closed")

\* Only a page that was opened after the pages of the context were closed can hold
\* up the removal of a context (BrowserContext.destroy): it never stays under way
\* without such a page.
RemovalEnds ==
  []<>(\/ quit
       \/ \A c \in Context : context[c] = "removing" =>
                               \E p \in PagesOf(c) : tab[p] = "open")

\* The page of a newPage call is lost: its window was closed, its content process
\* crashed, or its context was removed, before the call was answered.
Lost(p) ==
  /\ call[p] \in {"window", "target", "timezone"}
  /\ \/ tab[p] \in {"closing", "closed"}
     \/ target[p] = "disposed"
     \/ ~Known(contextOf[p])

\* Every newPage is answered or fails, unless the chain meets a page that is lost:
\* no call stays under way (newPage, _newPageInternal).
NewPageSettles ==
  []<>(\/ quit \/ \E q \in Page : Lost(q)
       \/ \A p \in Page : call[p] \in {"none", "answered", "failed"})

\* The chain keeps running, whatever becomes of one page (the comment in newPage).
ChainKeepsRunning ==
  \A p \in Page : call[p] = "queued" ~> (call[p] \in {"answered", "failed"} \/ quit)
=============================================================================
