------------------------ MODULE TargetLifecycleProofs ------------------------
(***************************************************************************)
(* Proofs about TargetLifecycle, for any number of pages and contexts: the *)
(* client's sessions match the targets, a removed context is empty, and    *)
(* crashed pages are neither kept needlessly nor closed at the wrong time. *)
(***************************************************************************)
EXTENDS TargetLifecycle, TLAPS

\* The call that is under way is the one whose turn it is.
TurnInv ==
  \A p \in Page : call[p] \in {"window", "target", "timezone"} =>
    served < Len(chain) /\ chain[served + 1] = p

\* What the parts know of each other: the client's contexts are those the
\* registry knows, and a target has a tab in a context the registry knows.
PageInv ==
  /\ context[Default] = "live"
  /\ created = {c \in Context : Known(c)}
  /\ \A p \in Page :
       /\ tab[p] \in {"none", "window"} => target[p] = "none"
       /\ call[p] = "queued" => tab[p] = "none"
       /\ target[p] = "live" => Known(contextOf[p])
       /\ p \in crashed => target[p] = "disposed"

IInv ==
  TypeOK /\ TurnInv /\ PageInv /\ SessionsMatchTargets /\ RemovedIsEmpty /\ KeptOnlyWhenLast

-----------------------------------------------------------------------------

LEMMA InvInit == Init => IInv
<1> SUFFICES ASSUME Init PROVE IInv
  OBVIOUS
<1> USE LifecycleAssumption DEF LifecycleAssumption, AnyContext, Default
<1>1. \A p \in Page : target[p] = "none" /\ call[p] = "none" /\ tab[p] \in {"none", "window"}
  BY DEF Init
<1>2. TypeOK
  BY DEF Init, TypeOK
<1>3. TurnInv
  BY <1>1 DEF TurnInv
<1>4. \A c \in Context : context[c] = "none"
  BY DEF Init
<1>5. PageInv
  BY <1>1, <1>4 DEF Init, PageInv, Known
<1>6. SessionsMatchTargets /\ RemovedIsEmpty /\ KeptOnlyWhenLast
  BY <1>1, <1>4 DEF Init, SessionsMatchTargets, RemovedIsEmpty, KeptOnlyWhenLast
<1>7. QED
  BY <1>2, <1>3, <1>5, <1>6 DEF IInv

\* Types and turns.
LEMMA TypeTurnStep ==
  ASSUME TypeOK, TurnInv, Next
  PROVE  TypeOK' /\ TurnInv'
<1> USE LifecycleAssumption DEF TypeOK, TurnInv, AnyContext, clientVars, tabVars, chainVars, crashVars
<1>1. CASE Enable \/ EnableDone \/ EnableFails
  BY <1>1 DEF Enable, EnableDone, EnableFails
<1>2. ASSUME NEW c \in Context, CreateBrowserContext(c) PROVE TypeOK' /\ TurnInv'
  BY <1>2 DEF CreateBrowserContext
<1>3. ASSUME NEW c \in Context, RemoveBrowserContext(c) PROVE TypeOK' /\ TurnInv'
  BY <1>3 DEF RemoveBrowserContext, Quits
<1>4. ASSUME NEW p \in Page, NEW c \in AnyContext, NewPage(p, c) PROVE TypeOK' /\ TurnInv'
  BY <1>4 DEF NewPage
<1>5. ASSUME NEW p \in Page, OpenWindow(p) PROVE TypeOK' /\ TurnInv'
  BY <1>5 DEF OpenWindow
<1>6. ASSUME NEW p \in Page, WindowReady(p) PROVE TypeOK' /\ TurnInv'
  BY <1>6 DEF WindowReady, AfterTarget
<1>7. ASSUME NEW p \in Page, TimezoneChecked(p) PROVE TypeOK' /\ TurnInv'
  BY <1>7 DEF TimezoneChecked
<1>8. ASSUME NEW p \in Page, TabOpen(p) PROVE TypeOK' /\ TurnInv'
  <2>1. TurnInv'
    BY <1>8 DEF TabOpen, AfterTarget
  <2>2. /\ tab' \in [Page -> {"none", "window", "open", "closing", "closed"}]
        /\ target' \in [Page -> {"none", "live", "disposed"}] /\ sessions' \subseteq Page
        /\ timers' \subseteq crashed /\ retained' \subseteq crashed
    BY <1>8 DEF TabOpen
  <2>3. /\ call' \in [Page -> {"none", "queued", "window", "target", "timezone", "answered",
                             "failed"}]
        /\ served' \in 0..Len(chain)
    BY <1>8 DEF TabOpen, AfterTarget
  <2>4. /\ UNCHANGED <<context, created, domain, attachToDefault, lastWindowQuits>>
        /\ UNCHANGED <<contextOf, quit, chain, crashed>>
    BY <1>8 DEF TabOpen
  <2>5. QED
    BY <2>1, <2>2, <2>3, <2>4
<1>9. ASSUME NEW p \in Page, ClosePage(p) PROVE TypeOK' /\ TurnInv'
  BY <1>9 DEF ClosePage, Quits
<1>10. ASSUME NEW p \in Page, TabClose(p) PROVE TypeOK' /\ TurnInv'
  BY <1>10 DEF TabClose, Dispose
<1>11. ASSUME NEW p \in Page, NEW opener \in Page, OpenPopup(p, opener) PROVE TypeOK' /\ TurnInv'
  BY <1>11 DEF OpenPopup
<1>12. ASSUME NEW p \in Page, Crash(p) PROVE TypeOK' /\ TurnInv'
  BY <1>12 DEF Crash, Dispose
<1>13. ASSUME NEW p \in Page, CloseCrashedTab(p) PROVE TypeOK' /\ TurnInv'
  <2>1. /\ UNCHANGED <<call, chain, served, context, created, domain, attachToDefault>>
        /\ UNCHANGED <<lastWindowQuits, contextOf, target, sessions, crashed>>
        /\ p \in crashed /\ timers' \subseteq crashed /\ retained' \subseteq crashed
    BY <1>13 DEF CloseCrashedTab
  <2>2. quit' \in BOOLEAN /\ tab' \in [Page -> {"none", "window", "open", "closing", "closed"}]
    BY <1>13 DEF CloseCrashedTab, Quits
  <2>3. QED
    BY <2>1, <2>2
<1> HIDE DEF TypeOK, TurnInv, AnyContext, clientVars, tabVars, chainVars, crashVars
<1>14. QED
  BY <1>1, <1>2, <1>3, <1>4, <1>5, <1>6, <1>7, <1>8, <1>9, <1>10, <1>11, <1>12, <1>13 DEF Next

\* A target that ends takes its session with it, and maybe the context that
\* waits for it, which has no other.
LEMMA DisposeStep ==
  ASSUME IInv, NEW p \in Page, target[p] = "live", Dispose(p),
         UNCHANGED <<domain, attachToDefault, contextOf, call>>,
         tab[p] \in {"open", "closing"}, tab'[p] # "none", tab'[p] # "window",
         \A q \in Page : q # p => tab'[q] = tab[q],
         crashed' \subseteq crashed \cup {p}
  PROVE  PageInv' /\ SessionsMatchTargets' /\ RemovedIsEmpty'
<1> USE LifecycleAssumption DEF IInv, TypeOK, PagesOf, Known, AnyContext
<1>1. /\ \A q \in Page : target'[q] = IF q = p THEN "disposed" ELSE target[q]
      /\ \A c \in AnyContext : context'[c] \in {context[c], "gone"}
      /\ \A c \in AnyContext : context'[c] # context[c] =>
           context[c] = "removing" /\ \A q \in Page : contextOf[q] = c /\ target[q] = "live" => q = p
      /\ context'[Default] = "live"
  BY DEF Dispose, PageInv
<1>2. \A q \in Page : target'[q] = "live" => context'[contextOf[q]] = context[contextOf[q]]
  BY <1>1
<1>3. created' = {c \in Context : context'[c] \in {"live", "removing"}}
  BY <1>1 DEF Dispose, PageInv
<1>4. PageInv'
  BY <1>1, <1>2, <1>3 DEF PageInv
<1>5. \A q \in Page : target'[q] = "live" => (contextOf[q] \in created' <=> contextOf[q] \in created)
  BY <1>2, <1>3 DEF PageInv
<1>6. SessionsMatchTargets'
  <2>1. sessions' = sessions \ {p}
    BY DEF Dispose
  <2>2. \A q \in Page : target'[q] = "live" =>
          /\ target[q] = "live" /\ q # p
          /\ ShouldAttachToTarget(q)' <=> ShouldAttachToTarget(q)
    BY <1>1, <1>5 DEF ShouldAttachToTarget, Attaches
  <2>3. \A q \in Page : target[q] = "live" /\ q # p => target'[q] = "live"
    BY <1>1
  <2>4. QED
    BY <2>1, <2>2, <2>3 DEF SessionsMatchTargets
<1>7. RemovedIsEmpty'
  BY <1>1 DEF RemovedIsEmpty
<1>8. QED
  BY <1>4, <1>6, <1>7

LEMMA InvNext == IInv /\ [Next]_vars => IInv'
<1> SUFFICES ASSUME IInv, [Next]_vars PROVE IInv'
  OBVIOUS
<1> USE DEF IInv
<1>1. CASE UNCHANGED vars
  BY <1>1 DEF vars, clientVars, tabVars, chainVars, crashVars, TypeOK, TurnInv, PageInv,
     SessionsMatchTargets, RemovedIsEmpty, KeptOnlyWhenLast, PagesOf, Known,
     ShouldAttachToTarget, Attaches
<1>2. CASE Next
  <2> DEFINE Rest == PageInv /\ SessionsMatchTargets /\ RemovedIsEmpty /\ KeptOnlyWhenLast
  <2> USE LifecycleAssumption
      DEF TypeOK, AnyContext, clientVars, tabVars, chainVars, crashVars, PagesOf, Known,
          PageInv, SessionsMatchTargets, RemovedIsEmpty, KeptOnlyWhenLast,
          ShouldAttachToTarget, Attaches
  <2>1. ASSUME Enable \/ EnableDone \/ EnableFails PROVE Rest'
    <3>1. UNCHANGED <<context, created, tab, contextOf, target, call, crashed, retained>>
      BY <2>1 DEF Enable, EnableDone, EnableFails
    <3>2. PageInv' /\ RemovedIsEmpty' /\ KeptOnlyWhenLast'
      BY <3>1
    <3>3. CASE Enable \/ EnableFails
      <4>1. domain # "on" /\ domain' # "on" /\ sessions' = sessions
        BY <3>3 DEF Enable, EnableFails
      <4>2. SessionsMatchTargets'
        BY <4>1
      <4>3. QED
        BY <3>2, <4>2, Zenon
    <3>4. CASE EnableDone
      <4>1. /\ sessions' = {q \in Page : target[q] = "live" /\ Attaches(q, attachToDefault')}
            /\ domain' = "on" /\ UNCHANGED <<created, contextOf, target>>
        BY <3>4 DEF EnableDone
      <4>2. SessionsMatchTargets'
        BY <4>1, Zenon DEF SessionsMatchTargets, ShouldAttachToTarget, Attaches
      <4>3. QED
        BY <3>2, <4>2, Zenon
    <3>5. QED
      BY <2>1, <3>3, <3>4
  <2>2. ASSUME NEW c \in Context, CreateBrowserContext(c) PROVE Rest'
    BY <2>2 DEF CreateBrowserContext
  <2>3. ASSUME NEW c \in Context, RemoveBrowserContext(c) PROVE Rest'
    BY <2>3 DEF RemoveBrowserContext
  <2>4. ASSUME NEW p \in Page, NEW c \in AnyContext, NewPage(p, c) PROVE Rest'
    BY <2>4 DEF NewPage, Fresh
  <2>5. ASSUME NEW p \in Page, OpenWindow(p) PROVE Rest'
    BY <2>5 DEF OpenWindow
  <2>6. ASSUME NEW p \in Page, WindowReady(p) PROVE Rest'
    BY <2>6 DEF WindowReady, AfterTarget
  <2>7. ASSUME NEW p \in Page, TimezoneChecked(p) PROVE Rest'
    BY <2>7 DEF TimezoneChecked
  <2>8. ASSUME NEW p \in Page, TabOpen(p) PROVE Rest'
    BY <2>8 DEF TabOpen, AfterTarget
  <2>9. ASSUME NEW p \in Page, ClosePage(p) PROVE Rest'
    BY <2>9 DEF ClosePage
  <2>10. ASSUME NEW p \in Page, TabClose(p) PROVE Rest'
    <3>1. CASE target[p] = "live"
      <4>1. PageInv' /\ SessionsMatchTargets' /\ RemovedIsEmpty'
        <5>1. /\ Dispose(p)
              /\ UNCHANGED <<domain, attachToDefault, contextOf, call, crashed>>
              /\ tab[p] = "closing" /\ tab'[p] = "closed"
              /\ \A q \in Page : q # p => tab'[q] = tab[q]
          BY <2>10, <3>1 DEF TabClose
        <5>2. QED
          BY <3>1, <5>1, DisposeStep
      <4>2. KeptOnlyWhenLast'
        BY <2>10, <3>1 DEF TabClose, Dispose
      <4>3. QED
        BY <4>1, <4>2, Zenon
    <3>2. CASE target[p] # "live"
      BY <2>10, <3>2 DEF TabClose
    <3>3. QED
      BY <3>1, <3>2
  <2>11. ASSUME NEW p \in Page, NEW opener \in Page, OpenPopup(p, opener) PROVE Rest'
    BY <2>11 DEF OpenPopup, Fresh
  <2>12. ASSUME NEW p \in Page, Crash(p) PROVE Rest'
    BY <2>12, DisposeStep DEF Crash, Dispose
  <2>13. ASSUME NEW p \in Page, CloseCrashedTab(p) PROVE Rest'
    BY <2>13 DEF CloseCrashedTab
  <2>14. Rest'
    BY <1>2, <2>1, <2>2, <2>3, <2>4, <2>5, <2>6, <2>7, <2>8, <2>9, <2>10, <2>11, <2>12, <2>13 DEF Next
  <2>15. QED
    BY <1>2, <2>14, TypeTurnStep
<1>3. QED
  BY <1>1, <1>2

-----------------------------------------------------------------------------

\* The registry, the handler and the chain keep to their types.
THEOREM LifecycleTypes == Spec => []TypeOK
<1>1. IInv => TypeOK
  BY DEF IInv
<1>2. QED
  BY <1>1, InvInit, InvNext, PTL DEF Spec

\* The client has a session for exactly the pages that live in its contexts
\* (BrowserHandler._onTargetCreated and _onTargetDestroyed).
THEOREM SessionsMatch == Spec => []SessionsMatchTargets
<1>1. IInv => SessionsMatchTargets
  BY DEF IInv
<1>2. QED
  BY <1>1, InvInit, InvNext, PTL DEF Spec

\* A context that is removed has no page left, nor gets one later
\* (BrowserContext.destroy and onTabOpenListener).
THEOREM RemovedContextsAreEmpty == Spec => []RemovedIsEmpty
<1>1. IInv => RemovedIsEmpty
  BY DEF IInv
<1>2. QED
  BY <1>1, InvInit, InvNext, PTL DEF Spec

\* Crashed pages are kept only while no page is open (_retainedCrashedTargets).
THEOREM CrashedKeptOnlyWhenLast == Spec => []KeptOnlyWhenLast
<1>1. IInv => KeptOnlyWhenLast
  BY DEF IInv
<1>2. QED
  BY <1>1, InvInit, InvNext, PTL DEF Spec

\* Only the close of a page that lives quits the browser (_closeCrashedTab).
THEOREM CrashCleanupNeverQuits == Spec => CrashNeverQuits
<1> DEFINE A == ~quit /\ quit' => \E p \in Page : /\ tab[p] = "open" /\ target[p] = "live"
                                                  /\ tab'[p] = "closing"
<1>1. IInv /\ Next => A
  <2> SUFFICES ASSUME IInv, Next, ~quit, quit' PROVE A
    OBVIOUS
  <2> USE DEF IInv, TypeOK, clientVars, tabVars, chainVars, crashVars
  <2>1. ASSUME NEW c \in Context, RemoveBrowserContext(c) PROVE A
    BY <2>1 DEF RemoveBrowserContext, PagesOf
  <2>2. ASSUME NEW p \in Page, ClosePage(p) PROVE A
    BY <2>2 DEF ClosePage
  <2>3. ASSUME NEW p \in Page, CloseCrashedTab(p) PROVE FALSE
    BY <2>3 DEF CloseCrashedTab, Quits
  <2>4. QED
    BY <2>1, <2>2, <2>3
    DEF Next, Enable, EnableDone, EnableFails, CreateBrowserContext, NewPage, OpenWindow, WindowReady,
        TimezoneChecked, TabOpen, TabClose, OpenPopup, Crash
<1>2. IInv /\ [Next]_vars => [A]_vars
  BY <1>1
<1>3. QED
  BY <1>2, InvInit, InvNext, PTL DEF Spec, CrashNeverQuits
=============================================================================
