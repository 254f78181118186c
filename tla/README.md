# A verification project for camoufox

camoufox is a Firefox build that a Playwright client drives through *juggler*, an
automation backend written in JavaScript and C++ that runs inside the browser
(`browser/additions/juggler/`), together with Python and TypeScript packages that
install and launch it (`python/`, `typescript/`). The launcher hands the browser a
fingerprint as JSON in its environment, which `MaskConfig.hpp` reads with a vendored
JSON library, and a browser that claims to be a Windows one computes `Math.pow`,
`sin`, `cos` and `tan` bit for bit as the Windows CRT does.

Two kinds of logic are modelled here. Juggler's decides whether a user's test suite
passes, hangs or silently drives the wrong tab: several event loops, threads and
processes that exchange messages over transports which navigation replaces, promise
chains shared by all tabs, and objects that Firefox creates and destroys in its own
time. The configuration's decides whether the browser shows the identity it was given,
in code that must never throw because the browser is built without exceptions.

All paths below are relative to the repository; `juggler/` stands for
`browser/additions/juggler/`, `camoucfg/` for `browser/additions/camoucfg/`.

## 1. Inventory

| component | state it keeps | operations | what is hard about it | status |
|---|---|---|---|---|
| **Page channel**, `juggler/SimpleChannel.js` | transport, `_ready`, `_connectedToUID`, pending requests, kept responses, handlers, buffered messages, `_paused`, `_disposed` | bind/reset a transport, send, receive, register, pause, dispose | transports are replaced mid-call; content ends succeed each other; handlers are asynchronous | modelled |
| **Window actors**, `JugglerFrameParent/Child`, `TargetRegistry.onActor*` | browserId -> actor table, `_actor` of each target | actor created, destroyed, remoteness change | created and destroyed in either order, before or after the target | partly |
| **Activation chain**, `TargetRegistry.activateAndRun`, `input/MouseDispatch.js`, `Helper.EventWatcher`, `PageHandler.dispatchMouseEvent`, `dispatchWheelEvent` | one promise chain per process, a timer per slot, watchers, drag state | ask for a slot, switch the tab, settle a drag, dispatch, ack, time out | one stuck slot stops the input of every tab; deadlines add up; callbacks outlive their slot | partly |
| **Targets, contexts, sessions**, `TargetRegistry`, `PageTarget`, `BrowserContext`, `protocol/BrowserHandler.js` | targets by browser, contexts by id, pages of a context, attached sessions, the newPage chain, kept crashed tabs | newPage, tab opened/closed/crashed, create/remove context, enable | Firefox reports late; crashes, closes and removals interleave with calls that wait | partly |
| **Pipe, dispatcher and shutdown**, `juggler/pipe/*.cpp`, `protocol/Dispatcher.js`, `components/Juggler.js` | two threads and their queues, partial lines, sessions, `pipeStopped` | read, write, dispatch, emit, Browser.enable, Browser.close, disconnect, Stop | messages come in pieces; close and disconnect together; Stop joins threads while the main thread goes on | partly |
| **Screencast**, `PageTarget.*Screencast*`, `juggler/screencast/*.cpp` | sessions, capturers, frames in flight, encoder queues, video files | start, frame, ack, stop, dispose | capture thread, encoder thread and main thread; a window has one snapshot listener; awaits inside the loop | partly |
| **Mask configuration**, `camoucfg/MaskConfig.hpp` | the parsed document, hash indices into it | join the variables, load, look up, typed getters | exceptions are off: a throw stops the browser; hashes collide; widths differ | modelled |
| **JSON library**, `camoucfg/json.hpp` | values; lexer and parser state | parse, dump, access, modify, patch, diff, merge, flatten, binary formats | every byte matters; shortest digits must read back; iterators and indices shift | partly |
| **Platform maths**, `browser/additions/js/src/builtin/UcrtMath*.c` | none | pow, sin, cos, tan | special operands, subnormal results, arguments that cancel against 2/pi | partly |
| **Network**, `juggler/NetworkObserver.js` | channel -> request map, expected redirects, intercepted requests, response bodies | request opened, redirected, intercepted, resumed, fulfilled, aborted, finished, evicted | redirect chains share channels; settings change while requests are paused; a service worker comes first; size accounting | partly |
| **Frame tree, page agent, runtime**, `content/*.js` | frames, pending navigations, execution contexts, remote objects | navigation started/committed/aborted, context created/destroyed, evaluate | events of documents that are being replaced | no |
| **Page handler**, `protocol/PageHandler.js` | pending watchers, network events of frames not reported yet, drag state | forwards methods, buffers events | ordering of frame and network events | partly |
| **Displays**, `python/src/camoufox/virtdisplay.py`, `gpudisplay.py` | server process, display number | get, kill | servers die, display numbers are reused | no |
| **Installation**, `pkgman.py`, `multiversion.py`, `addons.py` | cache directory | install, switch, remove | interrupted or concurrent installs | no |
| **Fingerprints, launch options, cursor generators, protocol schema, Firefox patches, build and CI** | none, or data | | pure data, or code that is not here (section 7) | no |

How they interact. The client writes to the pipe; the Dispatcher routes a message to
the root session (`BrowserHandler`) or to a page session (`PageHandler`). The
`TargetRegistry` listens to Firefox's windows and tabs, makes a `PageTarget` for each
tab and tells the BrowserHandler, which opens a session. A PageHandler talks to the
page agent in the content process over the target's SimpleChannel, whose transport is
the current pair of window actors. Input goes through the activation chain and comes
back as acknowledgements over the same channel. A PageTarget records its page through
the native screencast service, whose frames and ends reach it on the main thread. The
mask configuration is read once per process, on first use, and then served to
Firefox's own code; the Windows identity among it selects the platform maths
(`python/src/camoufox/utils.py:1474-1478`, `patches/windows-crt-math.patch`).

What makes each modelled component correct:

* *Channel*: every call is answered with the response of its own handler run, or
  rejected; it survives a transport change without being lost; ready means ready
  towards the peer behind the current actor; requests run in the order they were sent.
* *Activation chain*: input lands on the tab it was meant for; callbacks take turns in
  the order they were asked for; the chain always advances.
* *Targets*: the client has a session for exactly the live pages of its contexts; a
  removed context has no pages; crashed tabs are cleaned up without quitting the
  browser; newPage and the removal of a context end.
* *Pipe and shutdown*: messages stay whole and in order whatever the reads and writes
  are; every request is answered or the browser quits; nothing starts after the close.
* *Screencast*: a client that stops acknowledging is not flooded, one that
  acknowledges is not starved; a recording keeps its window; a video loses no frame and
  no time; what is stopped is reported; a disposed page is no longer captured.
* *Network*: the client sees one life of every request, whatever its load went through;
  nothing is paused behind its back, and what it asked for on resuming is sent; the
  stored bodies are accounted for.
* *Configuration*: exactly the JSON texts are accepted; every index agrees with the
  object behind it; a getter serves the value that was written or nothing; printing
  never throws and is read back.
* *Maths*: around the polynomials the result is the right one for every operand.

## 2. Plan

Built, in this order:

1. `SimpleChannel` with `Rpc`, the promise it implements; proofs.
2. `ActivationChain`; proofs.
3. `TargetLifecycle`; proofs.
4. `ScreencastService` and `Screencast` on top of it, with `Throttle`, the promise of
   both ways of capturing.
5. `RemoteDebuggingPipe` and `BrowserSession` on top of it.
6. `MaskConfig` on `JsonLexer`, `JsonParser`, `JsonValue` and `FlatIndex`; proofs from
   the bytes of the text to the getters; `JsonDump` and `Grisu`; `JsonGrammar`, the
   reference definition of the texts; `Configuration`, which composes them.
7. `JsonContainer`, `JsonPointer`, `JsonPatch`, `OrderedMap`, `JsonInput`,
   `JsonBinary`, `JsonCbor`, `JsonMsgpack` with their laws in `JsonLaws`;
   `UcrtMathPow`, `UcrtMathTrig`.
8. `NetworkObserver` on `ResponseStorage`.

What is left, the most valuable first:

* Proofs: the properties of `JsonContainer` and `OrderedMap` that need no recursion.
* `ActorBinding` (registry table, `setActor`, `removeActor`, remoteness changes), to be
  composed with `SimpleChannel`, which takes its bind and reset steps as given.
* `FrameTree` with `Runtime`'s contexts, `VirtualDisplay` (display numbers shared by
  launchers).

## 3. The modules

### SimpleChannel and Rpc (`juggler/SimpleChannel.js`)

One parent end (a tab's channel, alive as long as the tab) and a succession of content
ends, one for each content process or browsing context that hosts the tab. Variables
carry the names of the fields: `transport`, `ready`, `connectedTo`
(`_connectedToUID`), `sent` (`_messageId`), `pending` (`_pendingMessages`),
`registered` (`_handlers`), `paused`, `buffer` (`_bufferedIncomingMessages`), `cached`
(`_bufferedResponses`), `disposed`. `drain` is what is left of the loop of
`_deliverBufferedIncomingMessages`, `running` the handlers that were started and not
finished, each with the uid it captured.

* The link is a pair of queues per actor pair: messages of one pair arrive in order,
  none are duplicated, and those in flight on a pair that an end leaves are lost to
  that end (`Forget`, `Deaf`). Messages that reach a parent actor no target has bound
  are lost (`LoseMessage`). New pairs come from `CreateActor`: a document of the same
  content end, or the first one of the next end.
* JavaScript runs to completion, so nothing of an end interleaves with the drain loop
  or with a handler that does not await (`Idle`); the ends in `Async` have handlers
  that do.
* The data of a call is the call itself, `<<end, id>>`, and a response carries the call
  it is really the response of, next to the id the code routes by. That is how
  `OwnAnswer` can see an answer go astray.
* All namespaces are one. An end in `MayUnregister` has a handler that comes and goes.
* `_rejectCallbacksFromConnector` rejects any set of pending requests
  (`DisposeConnector`); `dispose` is for the ends in `MayDispose`.
* Exceptions of `transport.sendMessage` after a reset (it is null then) surface in
  promises nobody awaits. The model keeps what they leave undone: a response that
  arrives without a transport does not settle its request (`OnResponse`).

`Rpc` states what the caller may rely on: a call is issued, its handler may run while
the caller waits or has given up, it is answered once and only after it ran, or it is
rejected. `ImplementsRpc` maps a channel state to it: `callStatus` from `sent`,
`pending` and `answer`, `callsRun` from `execs`.

### ActivationChain (`TargetRegistry.js:567-601`, `MouseDispatch.js`, `PageHandler.js:519-785`, `Helper.js`)

`asked` is the chain: the slots in the order of the calls of `activateAndRun`;
`served` counts those the chain has left behind. `stage` follows a slot (queued,
switching the tab, running, over). `callback` is where its callback is: at one of the
waits of `dispatchMouseEvent` and `dispatchWheelEvent`, about to dispatch, done or
failed. A callback that was given up (`expired`) keeps running, as in the code. Events
are dispatched by coordinates, so `landed` records whichever tab is *selected* in the
slot's window at that moment.

`TypeOf` says what a slot dispatches and so which waits it has:

| wait | where | of | deadline |
|---|---|---|---|
| `settleBefore` | `PageHandler.js:632, 677` | mousemove, mouseup, while a drag is unsettled | 5 s |
| `reply` | `633-638, 678-688` | mousemove, mouseup, while the page drags: its content process answers | none |
| `flush` | `552-553, 754-755` | all | 5 s |
| `send` | `MouseDispatch.js:231-245`, `PageHandler.js:757-758` | the points of a curve, the notches of a wheel: a pause | its plan |
| `ack` | `MouseDispatch.js:165-174` | every mouse event | 5 s |
| `settleAfter` | `PageHandler.js:667-669` | a mousemove that started a drag | 5 s |

`Sends` is the number of events (points of the curve with the destination, or notches),
`left` those not sent yet. `Pauses` is the time the pauses of a slot take together, `plan`
what is left of it: a curve follows a schedule that goes on while an ack is awaited, and
is given up, pauses included, at an ack that misses its deadline; its destination is sent
all the same. `dragWatcher` and `isDragging` are the tabs with `_dragWatcher` and
`_isDragging`: a mousemove may start a drag (`Proceed`), which is settled by the page's
report or, at a mouseup, by the deadline (`Finalized`, `FinalizedTimeout`); it ends with a
drop, with Escape (`Escape`, off the chain) or unsettled at a mouseup.

Time: a `Tick` moves all armed timers, and cannot pass while a step that takes no time
can be taken (`Instant`), which is what the event loop's turn order gives. One tick is
one ack deadline (5 s); the pauses are rounded up to a tick. An event and its
`contextmenu` are dispatched and awaited together and count as one. `bringToFront`,
`reload` and a point outside the viewport are slots of type `none`. The computation of a
curve (slices of the main thread, `CursorTrajectory.js:205`) counts as part of `Pauses`.
Which of two watchers of one tab an answer was meant for is not told apart.

### TargetLifecycle (`TargetRegistry.js`, `BrowserHandler.js`)

`tab` is what Firefox made of each tab: a window that is loading, open, closing,
closed. `target` is the PageTarget of that tab; the set `pages` of a context and the
map `_browserToTarget` are functions of it (`PagesOf`). `sessions` are the keys of
`_attachedSessions`, `call` and `chain` the newPage calls and `globalNewPageChain`,
`crashed`, `timers` and `retained` the clean-up after a crash. What the code asks of
Firefox and what Firefox reports are separate steps: `OpenWindow`/`TabOpen`,
`ClosePage`/`TabClose`, so anything may happen in between. Where Firefox reports at
once (a tab closed in a window with several), that is one of the interleavings.
`PageTarget.dispose` emits TargetDestroyed, whose listeners (the BrowserHandler, and
every `destroy()` that waits) are part of `Dispose`, hence of `TabClose` and `Crash`.

Assumptions: a window that is closing no longer counts for `isLastTab` (`win.closed` is
set at once), one that is just opening may or may not; `Browser.enable` is called once,
and may throw half-way (`EnableFails`, see section 4, at its end);
a context is removed once; popups come from live, open pages; a page that vetoes its
closing is a page that is not closed; crashed tabs are not closed by hand.

`lastWindowQuits` is chosen in `Init`, so every run covers persistent and
non-persistent launches.

### ScreencastService, Screencast and Throttle (`juggler/screencast/`, `TargetRegistry.js:975-1170, 1515-1540`)

`ScreencastService` is the native side in a headless browser. `phase` follows a session
(on, stopped but still held by somebody, gone; `script` for PageTarget's own loop),
`known` are the keys of `mIdToSession`, `flying` the frames in flight, `capOf` and
`capt` the capturers with their raw and data listeners, `listener` the one snapshot
listener of the window's widget, `mainQ` the runnables on their way to the main thread,
`enc` each video's encoder with its queue, its last frame and the file so far. A frame
passes the capture thread (`Snapshot`, `SnapshotData`), the encoder's thread
(`EncoderTask`) and the main thread (`RunMain`), each a separate step. Who still holds
a session, and so when its destructor runs, is computed (`Held`, `Dying`): that is the
point of finding 4.

`Screencast` is PageTarget: `cast`, `tape`, the loop of `drawSnapshot` with its timer
(`loop`), dispose, and a client that acknowledges each frame at most once, with or
without the id. `headless` is chosen in `Init`. `Throttle` is what a client may count
on: no frame outside start and stop, no more unacknowledged frames than screencasts it
started. `Throttled` maps the two to it.

The constants `Overlap` (a second start while one runs) and `Hasty` (a start while an
earlier recording winds down) open what the code admits and the passing run leaves to
the violated one. The await of the window in startScreencast is not modelled: the
window is ready. The model also shows, outside the runs: two overlapping
`startScreencast` calls orphan the first session; a restart within the 40 ms of the
loop's timer adds a second periodic loop; an acknowledgement without an id
(`Protocol.js:1009-1018`) may be credited to the next screencast, which `Throttled`
allows for.

### RemoteDebuggingPipe and BrowserSession (`juggler/pipe/nsRemoteDebuggingPipe.cpp`, `Dispatcher.js`, `Juggler.js`, `BrowserHandler.js`)

The pipe: bytes on the wire, the reader thread with its partial line, the writer thread
with what is left of a packet, the runnables for the main thread, and `Stop`, which
forgets the client, shuts the sockets and joins the two threads while the main thread
runs other work. A message is two bytes that say what it is about, a read takes up to
`BufSize` bytes and a write up to `PacketSize`.

The session: requests to the root session (`Browser.enable`, `Browser.close`) and to
the page session of one target; the gates they wait for; `_enabled`, the listeners, the
dispatcher's sessions, `_attachedSessions`, `onclose`, `pipeStopped`, the quit. The
Dispatcher answers a request even if its session was destroyed meanwhile
(`Dispatcher.js:76`); a second close throws on an `onclose` that is null
(`CloseAgain`). `browserContext.destroy()` of BrowserHandler.dispose and the default
context (`attachToDefaultContext`) are left out, as is the schema check.

Known from the model and not claimed as properties: responses queued and unwritten when
`Stop` runs are lost, although `Juggler.js:130-132` speaks only of the answer to
Browser.close; two `Browser.enable` calls during start-up register their listeners
twice (the constant `EnableRequest` admits it); an enable that finishes after dispose
leaves a session behind.

### NetworkObserver and ResponseStorage (`juggler/NetworkObserver.js`, `protocol/PageHandler.js:232-252`)

Firefox's side is a load: a chain of channels, each in a state `chan`. An interception,
its end and a redirect each add a channel, so a channel is `<<load, hop>>`. `owner` is
the NetworkRequest that is a channel's stream listener and notification callbacks (they
move with the channel); a NetworkRequest is `<<load, n>>`, the n-th of its load, since
the constructor makes one at the start and one for each redirect and each
authentication. `request` has the fields that decide something: `httpChannel`,
`_sentOnRequest`, `_sentOnResponse`, `_expectingResumedRequest` (`expecting`: nothing, a
resume without or with headers), `_overriddenHeadersForRedirect` (`headers`), whether an
interception yields to a service worker, and the length of the body.
`channelToRequest`, `expectedRedirect`, `interceptedRequests`, `pageOn` and `contextOn`
are the maps and switches of NetworkObserver, PageNetwork and the context; `reported`
and `heldBack` are PageHandler's buffer for a frame the client does not know yet; `seen`
is what the client was told. `carries` are the channels whose request headers are those
the client asked for. Every callback is an action, and so is everything the client may
send: enable and disable for the page, the switch of the context, resume, fulfill, abort.

`ResponseStorage` keeps bodies as lengths, in the order of the Map, and evicts from the
oldest on until they fit.

What is assumed of Firefox: `onStartRequest` comes before data and `onStopRequest`; the
channel that replaces an intercepted one, or is sent again after authentication, is not
offered to interceptors again (`plain`); a redirect is verified some time after it was
announced; an upgrade to https has no response. A cancelled channel reports its failure
to the listener it has. Resets of a service worker for a cancelled channel are left out.

Seen while modelling, outside the runs:

* `_interceptedRequests` is documented as the requests that await an action
  (`NetworkObserver.js:49-51`), but a paused request that Firefox cancels stays in it.
  Resuming it throws. `disableRequestInterception` then ends in the middle of its loop:
  the map is not cleared and the requests behind the cancelled one stay paused until the
  client answers them one by one.
* `Browser.setRequestInterception` switched off leaves paused requests paused.
* A redirect whose new channel is cancelled before http-on-modify-request loses the end
  of its request (`Lost`, the exemption in `RequestsEnd`).
* A service worker that is offered a redirect and declines makes the request forget the
  headers of the client at the next redirect (the exemption in `InterceptionServes`).

Left out: the contents of headers, bodies, timings and security details, decoding of
stored bodies, `fromServiceWorker`, the proxy filter, `dispose()`.

### MaskConfig, FlatIndex and the JSON modules (`camoucfg/`)

`MaskConfig` starts with the launch: a text, chosen whole or grown byte by byte up to
`MaxLength`, is written to `CAMOU_CONFIG`, or cut into variables `CAMOU_CONFIG_n` of `chunk`
characters, while the reader follows; then it is joined (`ConfigText`), loaded (`LoadJson`)
and indexed. Its operators are the getters,
under their names. `FlatIndex` is the open-addressed table under all of them.
`MaskConfig` and the modules it stands on are written with recursive functions and no
RECURSIVE operator, so that they can be proved about; their properties (`JoinsText`,
`LookupsAgree`, `GettersServe`) stand in `MaskConfig` itself. `Configuration` extends it
with the recursive modules and two actions, `DumpVoice` and `DigitGen`, which print a
number of a skipped voice (`phase` is then "printing") and change neither the
configuration nor its index.
Text is a sequence of byte values; integers have the four limits `MaxUnsigned`,
`MaxSigned`, `MaxUint32`, `MaxInt32` for 64 and 32 bits, with conversions that wrap.

`JsonLexer` is the scanner as an automaton over bytes (`Scan`), with the ranges of
UTF-8, escapes and surrogates, numbers and their types; `JsonParser` feeds its tokens
to the parser's stack and the handler that builds values. Because the reader is driven
byte by byte, every prefix is a state of the run, and `AcceptsGrammar` compares it with
`JsonGrammar`, the grammar of RFC 8259 written as sets of positions, independent of the
automaton. `JsonValue`, `JsonContainer`, `JsonPointer` and `JsonPatch` are operations on
values: access, comparison, arithmetic conversions, modifiers and iterators as
positions, destruction with the explicit stack (`Drained`, `DestroyStack`), pointers,
flatten, patch, diff, merge. `Throw` stands for any exception. `JsonDump` prints a value
under all flags; floats go through `Grisu`, grisu2 with powers of ten that are computed
and rounded to `Q` bits where the code looks them up in a table; the run executes its
digit generation one digit a step on every float of `P` bits. `OrderedMap` is the map of `ordered_json`; `JsonInput` the adapters for 16- and
32-bit characters; `JsonCbor` and `JsonMsgpack` write and read values over `JsonBinary`.

Differences between launcher and browser seen while modelling, not findings because no
text promises otherwise: `utils.py:427-448` takes integral floats and bools for
integers, `1920.0` is then dropped by `MaskConfig.hpp:340-356`; values above 2^32 are cut
by the 32-bit getters; `GetDouble` of an unsigned above 2^63-1 is negative; a
`CAMOU_CONFIG_n` left over in the environment right behind the last chunk is appended;
getters that call `get<T>()` on another type stop the process; the wide adapter takes
ill-formed UTF-16 without an error.

Simplifications: the four bytes or eight of a float in a binary format are one unit,
single and double both tried; TLC's integers have 32 bits, so the 8-byte integer forms
of the binary formats are read and not written; a CBOR length of 2^64-1 is out of
reach; CBOR tags are only those of binary values. MaskConfig itself calls none of
patch, pointers, ordered maps, wide inputs and binary formats: those models say what
the library beside it does.

### UcrtMathPow and UcrtMathTrig (`browser/additions/js/src/builtin/`)

A double is the integer of its bits, in a format of `ExpBits` and `MantBits`, and all
bit tricks of the source are arithmetic on it modulo `Word`. `UcrtMathPow` has the
special operands, the checks for integer and odd exponents, the reduction of the base
to `2^k z`, the scale of `exp_inline` from its table and its two ways out of the range,
and the subnormal path with its compensated sum, where a result that is rounded to zero
takes the sign of the power (`Fold`). `UcrtMathTrig` has Payne-Hanek
reduction in words of `WordBits`, with 2/pi as digits, and the choice of kernel and
sign. `PowerIsIEEE`, `ScaleIsPower`, `SubnormalsRoundedOnce`, `LargeReduced` and
`QuadrantsAgree` compare them with definitions by exact integers and fractions. Whether
the table `EXP_TAB` is what `EXP_TAB(i)` says (the bits of 2^(i/N) less i steps) was
checked for the 128 entries of the source by hand, as was the choice of 1202 bits for
2/pi.

Left to the polynomials, and not modelled: the kernels, `log` and `exp` themselves,
Cody-Waite reduction of medium arguments, thresholds below which sin x is x, the payload
of a NaN. In the subnormal range the model rounds the sum once where the last
multiplication is exact; a double rounding of the correction at a tie is not excluded.

## 4. The runs

| run | checks | states | what it shows |
|---|---|---|---|
| `channel_cross_process` | `OwnAnswer`, `ReadyMeansPeer`, `NoRerunAfterAnswer`, `ImplementsRpc` | 103,400 | One tab, two content processes, two actor pairs, one request per end, asynchronous handlers on the content ends, a parent that may be disposed. |
| `channel_same_process` | `InOrder`, `CallsSettle` | 305,920 | One content end rebound once, two requests of the parent, with dialogs that pause it and a namespace that comes and goes. |
| `channel_stale_requests` | `OwnAnswer` (violated) | | As the first run, but the parent's namespace comes and goes: finding 1. |
| `activation` | `ReachesOwnTab`, `OnlyHangsExpire`, `Serialized`, `ChainAdvances` | 932,518 | A wheel in one tab; a press, a move along a curve that may start a drag, and a release in another tab of the window; late and missing acks and reports, a session that detaches, a tab stolen once. |
| `activation_switch` | `ChainAdvances` (violated) | | The same without the promise that `TabSwitchDone` fires: finding 2. |
| `lifecycle` | `SessionsMatchTargets`, `RemovedIsEmpty`, `KeptOnlyWhenLast`, `CrashNeverQuits`, `CrashedTabsGo`, `RemovalEnds`, `NewPageSettles` | 892,736 | Three tabs, the default context and one of the client's, with a timezone override; a Browser.enable that may throw. |
| `lifecycle_new_page` | `ChainKeepsRunning` (violated) | | Two newPage calls, one page lost: finding 3. |
| `screencast` | `TypeOK`, `KeepsItsSource`, `NoStall`, `VideoComplete`, `Throttled`, `VideoFinishes`, `DisposeQuiesces` | 184,092 | Three recordings of one page, videos and screencasts, headless and headful, two frames, acks with and without an id, a dispose. |
| `screencast_restart` | `KeepsItsSource` (violated) | | The same when a recording starts while an earlier one winds down: finding 4. |
| `shutdown` | `Framing`, `NoOrphanSession`, `SilentOnceClosed`, `RequestsSettle`, `CloseQuits` | 585,912 | One enable that may fail, one close and one page request cut into reads of at most three bytes, an empty message, a client that closes at any byte. |
| `network` | `ClientSeesLife`, `InterceptionServes`, `StorageAccounts`, `RequestsEnd` | 231,400 | Two loads: one that is redirected, authenticated or cancelled, one behind a service worker that may belong to no page; both ways of interception switched at any time. |
| `config` | `AcceptsGrammar`, `DumpRoundTrip`, `LookupsAgree`, `GettersServe`, `DigitsReadBack`, `DocumentsTransform`, `MathOfWindows` | 31,012 | Every text of up to four bytes from a menu of byte classes, eighty-odd longer ones, every float of five bits, every operand pair of an 8-bit format. |

Deadlock is not checked: a quiet tab, a chain whose slots are over, a page without a
recording, a page whose loads ended, a configuration that was read and a browser that quit
may stop.

**Why the bounds are enough.** The channel's hazards need a call whose request or
response is lost on one transport and repeated on the next (two actor pairs) and a new
peer that counts its ids from 1 again (two content ends, one id). Order needs two
requests of one sender. A run with three actor pairs and the first run's other
constants was explored once (1,998,305 states, no error) and is left out for its
length. The activation chain needs a slot before, one that hangs or expires, and one
after, in two tabs that compete for one window: a wheel of two notches in one, and in the
other the three events of a drag, whose move has a point before its destination. With
`AckDeadline` 1 and `Budget` 5 each of the four stays below the budget except the move,
whose deadlines (one for the drag before it, the flush, two events, the drag after it) and
whose pause make 6: it can expire, as the code's can. The bound is attained: with
`Budget` 6 and a second mousemove before it the move still expires. The lifecycle needs
a page that waits, one that is lost, and one more that keeps the browser alive or makes
it the last; two contexts beside the default one were explored once with three pages
(2,292,864 states, no error).

The screencast needs a recording that winds down, one that shares a capturer with it and
one after both (`MaxSession` 3), a frame in flight when the next is drawn (`MaxFrame`
2), and clock readings that round either way to ticks of the encoder (`MaxTime` 4). The
pipe needs a read that ends inside a message, at its end, and behind the next one's
start (`BufSize` 3, messages of two bytes and the NUL) and a write that takes part of a
message (`PacketSize` 2).

The network needs a load that is intercepted and redirected (three hops, one redirect
or authentication) and may be cancelled at each of them, next to one whose service
worker declines (two hops); a redirect of the latter takes five hops and was explored
alone. Two bodies of 2 exceed `MaxTotalSize` 3, and a body of 4 exceeds
`MaxResponseSize` 2.

For the configuration a text needs to be long enough for a value inside a container and
a string with an escape or a two-byte character (`MaxLength` 4 bytes of typed text);
what needs more, surrogate pairs, floats, voices, WebGL tables, every edge of the ranges
of UTF-8, is in the list of long texts, and each of those is also cut into chunks of 3.
Integers keep their structure with limits 63, 31, 15 and 7 (two bits fewer for each
halving), so the texts hold values on both sides of every limit. All keys hash to the
last slots of their tables, so probing wraps. `Grisu` runs on every float with `P` 5 bits
in words of `Q` 15. The documents of patch and diff are all those parsed against 14
targets and 18 pointers; binary lengths take every value around the limits of each head
up to 2^31-2.

Maths: `ExpBits` 5 and `MantBits` 2 give all 65,536 operand pairs, with `LogOff` between
two mantissas as in the source and `TableBits` 1; a fraction bit more or less leaves the
branches what they are. The trigonometric words have 16 bits, mantissas 8; `Exponents`
4..31 move the window over the 67 bits of 2/pi by every number of bits up to 27, more than a word.

**Counters that bound a model**: `NActor` (transports), `NInstance` (content ends),
`MaxId` and `MaxRequest` (requests of an end), `MaxSteal` (how often the browser selects
a tab by itself), `NPage` (tabs), `MaxSession`, `MaxFrame`, `MaxTime`, `Hops`
and `MaxRedirect` (a load), `MaxBody` and `Chunk` (its body), `MaxLength` (typed
text), `MaxExponentBits` (floats of a voice). The code bounds none of these. `Budget`,
`AckDeadline` and `kMaxFramesInFlight` are its own constants; `MaxVariables` is the size of
the modelled environment.

**Fairness.** In the channel: messages of a bound actor are delivered, drain loops go
on, handlers settle, timers fire; nothing forces navigations, dialogs or registrations,
and `CallsSettle` is conditional on the ends staying linked from some point on. In the
activation chain: the event loop and the timers run; *nothing* is assumed of the
renderer, the page or the sessions. `SwitchingSpec` adds that a tab switch is reported,
which is the one assumption `ChainAdvances` needs beyond the code, and run
`activation_switch` shows that it is needed. In the lifecycle: Firefox reports the tabs
it was asked to open and close, timers fire, and a page that *lives* answers; nothing
is assumed of the client, of the pages' scripts, or of pages that are gone. In the
screencast: the main thread, the encoder's thread and stops under way go on and a
snapshot that was drawn is delivered; no client acknowledges and no frame is drawn by
force. In the shutdown: the reader, the writer, the main thread and Stop go on, and
Firefox finishes its start-up; the client owes nothing, and a page request that waits
ends. In the network: Firefox goes on with every load and reports the frame, and the client
answers some request it was told is intercepted. The configuration has no temporal
property.

Of a step that can be taken only finitely often by each tab, request or load, fairness is
stated for all of them together, and "none stays under way" is `[]<>` of a state in
which none is: with finitely many of them that implies each one's leads-to, and TLC
checks it much faster.

Each property of a passing run is paired in `PROJECT.json` with a faulty variant of one
definition (they stand before the definition, marked "Faulty variant") that breaks it
under the same configuration.

### What the violated runs show

1. *A request outlives its sender* (`channel_stale_requests`). A request for a namespace
   that is not registered is buffered, and the buffer is not cleared when a peer with
   another uid connects, as the kept responses are. It runs once the namespace is
   registered, captures the *new* peer's uid, and its response settles the new peer's
   request of the same id.
2. *The switch is outside the race* (`activation_switch`). The slot budget is meant to
   cover `TabSwitchDone` (`TargetRegistry.js:14-24`, `docs/input-dispatch.md:78-80`) but
   is armed after it.
3. *A lost page stops newPage for everyone* (`lifecycle_new_page`). Three waits of
   `_newPageInternal` never end when the page is lost while they last.
4. *A recording that starts too early gets no frames* (`screencast_restart`). A stopped
   session is forgotten by the service at once but lives until its last frame or its
   file is done; a recording started in between replaces the window's snapshot listener,
   and the old session's destructor then clears it.

More facts the model showed while it was written, not kept as runs:

* *The deadlines of a slot add up.* Each wait of a callback but the one for a dragover is
  bounded, and a curve is given up when an ack *misses* its deadline, not when acks are
  slow. `OnlyHangsExpire` states the sum (`Worst`). With the code's numbers, a deadline of
  5 s and a plan of 1.5 s by default, it is 10 s for a mousedown, 15 s for a mouseup, 20 s
  for a plain mousemove, and 16.5 s and 5 s more for each event of a humanized one:
  from three events on, 31.5 s, a move can outlive its 30 s although every one of its
  waits ends in time, and its callback then goes on dispatching into the window of the
  next slot. The comment `TargetRegistry.js:26-27` ("with a 5s ack deadline a legitimate
  worst-case input slot approaches 10s, so this must sit well clear of that") is true of
  a mousedown only, and `docs/input-dispatch.md:67-69` ("the ~90 bounded waits a curve can
  hold [...] cannot add up to an unbounded slot") of a curve that is never late: what 90
  late acks add up to is bounded, by 466.5 s, and not by the budget.
* *An enable that fails stays enabled.* `Browser.enable` sets `_enabled` before it sets the
  preferences of the client (`BrowserHandler.js:34`), one of which may throw (46). The
  client gets an error, neither listeners nor sessions are made, and a second
  `Browser.enable` returns at once, as if all was well (31-32), while contexts and pages
  can be created: no page is ever attached. `EnableFails` of `TargetLifecycle` and of
  `BrowserSession` is that path, and the second part of `SessionsMatchTargets` what it
  leaves behind; no text of the code promises anything else.
* With asynchronous handlers a request can be *run* twice (a transport change while the
  handler runs; `AtMostOnce` fails with one content end, two actor pairs and
  `Async = {1}`), and `OwnAnswer` fails when two content ends have the same uid, which
  `content/main.js:95` derives from the process id.

## 5. What is proved

The proof modules are `SimpleChannelProofs`, `ActivationChainProofs`,
`TargetLifecycleProofs`, `ScreencastProofs`, `BrowserSessionProofs`,
`NetworkObserverProofs`, `MaskConfigProofs` and, under them, `Induction`. Each theorem
holds for every value of the constants that satisfies the modules' named assumptions
(`ChannelAssumption`, `ActivationAssumption`, `LifecycleAssumption`,
`ServiceAssumption`, `ScreencastAssumption`, `PipeAssumption`, `SessionAssumption`,
`NetworkAssumption`, `NoneAssumption`, `StorageAssumption`, `ConfigAssumption`,
`NamesAssumption`; TLC evaluates them on every
run). None is about a bound: the number of ends, actors, requests, slots, tabs, windows,
pages, sessions, frames, loads, redirects, bytes, keys and so on is arbitrary. A theorem
that holds only for some values of the constants says so in its ASSUME; without it
the property is violated:

| hypothesis | of the theorems | without it |
|---|---|---|
| `DistinctUids`, `PromptParent` | `OwnAnswerTheorem`, `ImplementsRpcTheorem`, `InOrderTheorem`, `NoRerunTheorem` | run `channel_stale_requests` (the parent unregisters); two content ends of one process id (section 4, at its end) |
| `NothingHeld` | `NoRerunTheorem` | one content end with asynchronous handlers and two actor pairs, and `MayPause = {1}` or `MayUnregister = {1}`: a copy of a request that was held back outlives the RESPONSE_ACK of its other copy, which nothing holds back |
| `~Hasty` | `SourceTheorem` | run `screencast_restart` |
| `~Overlap` | `StallTheorem`, `ThrottleTheorem` | run `screencast` with `Overlap = TRUE`: two screencasts at once share the acknowledgements |
| `HashesAreNumbers`, `SlotsAreUsed` | `LookupsTheorem`, `GettersTheorem` | both are facts of C++ that the constants must keep: a hash is a number (any number), and a slot with a value does not look like a free one |
| `UnsetIsNoText` | `JoinsTheorem` | likewise: a variable that is not set does not look like one that is |

* `SimpleChannelProofs`, with the invariants and the operators they are made of in
  `SimpleChannelInvariants`, where TLC can evaluate them: `ChannelTypes` (`Spec => []TypeOK`) and `ReadyIsWithThePeer`
  (`Spec => []ReadyMeansPeer`). `ReadyMeansPeer` is not inductive: a READY in flight
  decides what an end will believe. `PeerInv` adds `BoundInv` (a bound end is bound
  to an actor that exists, and a content end to one it hosts) and `WireInv` (every
  handshake on the wire of an actor carries the uid of the end on that side). What
  `_markAsReady` sends, and the two ways a message is taken (from the wire, from the
  buffer), are lemmas, so that each action needs one step.
  `DistinctUids` says that no two content ends have the same uid (`content/main.js:95`
  makes it of the process id), `PromptParent` that the parent's handlers stay registered
  and settle in the task that started them. Both are hypotheses, not facts of the program:
  the handlers of the parent are those that `PageHandler` and `WorkerHandler` register on
  the target's channel (`PageHandler.js:51, 136`), which settle at once but come and go
  with sessions and workers (73-76, 177-182). The theorems speak of a time in which those
  that messages are meant for stay; run `channel_stale_requests` is what happens otherwise.
  `OwnAnswerTheorem` (`[]OwnAnswer`) needs that every message, kept response and running
  handler is between an end and the peer it takes it for: `OwnInv` is `PeerInv` with
  `SeenInv`, `WireOwn` (messages on the wire of an actor are of the two ends it joins, and
  a new peer's greeting is ahead of its requests), `ContentOwn` and `ParentOwn` (what an
  end buffered, keeps and runs is of the peer it is connected to) and `AnswerOwn`.
  `ImplementsRpcTheorem` is the refinement of `Rpc`: with `SoundInv` (`WireSound`,
  `KeptSound`, `AskedInv`: every response on the wire or kept is of a request that was
  issued and has run) each step of the channel is a step of `Rpc` or changes nothing that
  a caller sees. `InOrderTheorem` (`InOrder`) adds `LinkInv` (`Hosted`, and `Silent`:
  nothing is on a pair that one of its ends left), `RanInv` (a kept response has been
  run) and `Ordered`: the requests of a sender on a pair, in its receiver's buffer and
  those not sent yet are in the order of their ids (`QueueOrder`, `HeldOrder`), and a
  pending request of a ready sender is on the pair, held or run (`Posted`).
  `NoRerunTheorem` (`NoRerunAfterAnswer`), for ends that hold nothing back
  (`UnheldInv`), has `NoRerunInv`: no copy of a request of the parent is behind its
  RESPONSE_ACK, on its pair or a later one (`AckInv`); a content end that answered keeps
  the response, or no copy of the request can still reach it (`ServedInv`); one that does
  not know the parent yet keeps and runs nothing (`KnownInv`); and a request of a content
  end, the parent's run of it and its answer are never on the same pair (`OnceInv`). The two
  directions differ because the parent's handlers settle at once: it never
  changes transports with a run under way.
* `ActivationChainProofs`: `InputReachesOwnTab` (`[]ReachesOwnTab`) and
  `CallbacksAreSerialized` (`Serialized`). The invariant is `ChainInv` (the chain lists
  each slot once; slots before `served` are over, those after it queued; so one slot at
  most is under way), `CallbackInv` (what a callback does fits the stage of its slot: one
  that runs on after its slot is over has expired), `TabInv` (the running slot's tab is
  selected unless it was stolen) and the property itself. The action property follows
  from the first two.
  `ActivationTypes` is `[]TypeOK`. `ExpiryNeedsHang` (`OnlyHangsExpire`, an action
  property) is about time, and its invariant `TimeInv` has for every running slot that
  does not wait for a dragover: the ticks its callback may still take (`Due`: what is left
  of its current wait, the deadlines still ahead of it, `Ahead`, and the rest of its plan)
  are together with the ticks spent at most `Worst`. A tick shortens the slot's timer, and
  with it the current wait or the plan (`TimeTick`); a step of the callback that arms a new
  deadline gives up one of those ahead (`StepInTime`, `KeepsTime`); a callback begins with
  all of them ahead (`BeginsInTime`). A slot whose timer is at 0 outside a dragover has
  therefore spent no more than `Worst`, which is then at least the budget.
* `TargetLifecycleProofs`: `LifecycleTypes`, `SessionsMatch`, `RemovedContextsAreEmpty`,
  `CrashedKeptOnlyWhenLast` and `CrashCleanupNeverQuits`. Beside the properties the
  invariant has `TurnInv` (a call that is under way is the one at the head of the chain)
  and `PageInv` (what the parts know of each other: the contexts of the client are those
  the registry knows; a live target has a tab, in a context the registry knows; a call
  that is queued has no tab yet; a crashed page has no live target). `SessionsMatch` holds
  with an enable that throws half-way among the steps: it says what the client has then.
* `MaskConfigProofs` goes from the bytes of the text to the getters, for every content of
  the variables, every set of keys and every hash function.
  - *The table.* `Holds` relates slots to the map they stand for: each key has one slot,
    and no slot between a key's hash and its slot is free. An empty table holds nothing
    (`EmptyHolds`), an insertion of a new key keeps it (`InsertExtends`), `Find` returns
    what is held (`FindIsLookup`), a table larger than its map has a free slot
    (`RoomLeft`, by the pigeonhole); so the loop that fills an index, over any sequence
    that has an entry for each key of a map and none twice (`Enters`), makes a table that
    answers as the map does (`FilledIsLookup`).
  - *The keys.* The order of a map's iterator is a strict total order of the byte strings,
    so its positions are those of its keys, each once (`KeysEnumerate`). A WebGL key
    stands for a number: `DumpInteger` writes the canonical spelling (`DumpSpells`) and a
    canonical spelling is what it writes (`SpellingDumped`), whence the table by number
    answers as the one by text (`LookupsAgree`, its last part).
  - *The reader.* A set of values is `Closed` if the parts of its members are in it, and a
    value is `WellFormed` if it is in a closed set: that says "to any depth" without
    recursion. `Reading` is the invariant of the reader: what each label of the lexer
    knows of its token (`Shaped`: a number has the digits that its conversion needs, a
    surrogate waits for its second half), and of the parser that its stack and the values
    on it are well-formed and match its states (`Stacked`). Every byte keeps it (`ScanOK`,
    `ParseOK`, `FeedOK`), so it holds in every reachable state (`ReaderTheorem`) and at
    the end of every text (`ParseTextOK`).
  - *The text.* `JoinsTheorem` (`[]JoinsText`, the first part of `AcceptsGrammar`): with
    `Arranged` (the variables up to the launcher's are set, those behind it are not) a
    byte that is written ends the joined text (`TextGrows`), so the reader has read just
    what `ConfigText` joins, and the parse of the whole is the reader's at the end.
  - *The properties.* `LookupsInv` (the configuration is well-formed, and the index of a
    browser that is ready is its index) is inductive; `LookupsTheorem` (`[]LookupsAgree`)
    and `GettersTheorem` (`[]GettersServe`) follow. They are theorems of `MaskConfig`'s
    `Spec`; the two actions `Configuration` adds leave all that they speak of alone.

* `BrowserSessionProofs`: `FramingTheorem` (`[]Framing`), for every size of the reader's
  buffer and of a packet. It rests on two facts about the scan of `ReadBytes` that are
  theorems of their own: `ScanOfChunks` (a scan of two chunks one after the other, with
  the line carried over, is the scan of both at once) and `StreamOfConcat`. `ReaderInv`
  and `WriterInv` then say that the stages of each stream put together (what is on the
  wire, the partial line, the runnables; the packet, what is left of it, what the client
  has) are the stream. `SilentOnceClosedTheorem` (`SilentOnceClosed`, an action
  property) has `ClosedInv`: nothing is accepted without a client.
  `NoOrphanSessionTheorem` (`[]NoOrphanSession`) has `EnableInv`, which relates
  `_enabled`, the listeners, the stage of the enabling request and the sessions.
* `NetworkObserverProofs`: `StructInv` is what the maps have to do with the loads: a load
  has one channel under way, listened to by its owner (`MapInv`), a redirect that is
  announced expects the successor of the request it continues (`RedirectInv`), and requests
  are used one after the other (`UseInv`). On it stand `ClientSeesLifeTheorem` with
  `LifeInv` (what was sent and what is held back for a frame the client does not know make
  up one life, at the point where the request's channel is), `InterceptionServesTheorem`
  with `ServeInv` (a channel that may go on is offered or intercepted, a paused one
  was reported, and the headers asked for are still with the load) and
  `StorageAccountsTheorem` with `StoredInv` (the bodies kept are the newest, each of a
  request that has ended; the sum is theirs).
* `ScreencastProofs`: `TypeTheorem` (`[]TypeOK`); its `StructInv` counts: the counter of
  a capturer is the number of its sessions (`CountInv`). `SourceTheorem`
  (`[]KeepsItsSource` for `~Hasty`) has `SourceInv`, `StallTheorem` (`[]NoStall` for
  `~Overlap`) `StallInv`: a session with a frame in flight has it in the queue of the main
  thread or at the client. `VideoTheorem` (`[]VideoComplete`) follows one encoder through
  its three threads: what was seen is in the file, in the queue or held as the last frame
  (`Framed`), and the time units written and queued are the time from the first frame to
  the last (`Clocked`). `ThrottleTheorem` is the refinement of `Throttle`, for `~Overlap`:
  the frames the client holds, those queued and the places still open are at most the
  screencasts started (`BudgetInv`). `Throttled` adds up the acknowledgements over a finite
  set with `MapThenSumSet`, whose laws `Induction` gives.
* `Induction`: the library's induction theorems take operators as parameters and cannot be
  instantiated by these provers. The module derives a first-order form from the
  well-foundedness of the finite subsets: `BoundedInduction`, where the hypothesis is a
  set; `SubsetInduction`; and `Recursion`, where the step of a recursive function is a
  function. `Stream`, `Scan` and `TotalOf` are instances.

Invariants that TLC can evaluate were first checked on small instances, then proved
(`WellFormed` and `Reading` quantify over every set of values and are only proved).

## 6. What is only model-checked

* Liveness (`CallsSettle`, `ChainAdvances`, `CrashedTabsGo`, `RemovalEnds`,
  `NewPageSettles`, `ChainKeepsRunning`, `VideoFinishes`, `DisposeQuiesces`,
  `RequestsSettle`, `CloseQuits`, `RequestsEnd`): TLAPS does not reason about fairness and `ENABLED`
  here.
* `NoRerunAfterAnswer` where an end holds requests back: it is false there (section 5),
  and nothing weaker is stated of those ends than `InOrder` and `OwnAnswer`.
* `AcceptsGrammar` beside `JoinsText`, `DumpRoundTrip` and `DocumentsTransform`: the
  grammar, the printer, comparison and the operations on documents recur over values,
  with RECURSIVE operators, and what holds of them is an induction over data.
* `DigitsReadBack` and `MathOfWindows`: exact fractions with powers of two of a variable
  exponent, beyond the provers' arithmetic. The statements hold for a format, and the
  instance is a small one.

## 7. What is not modelled, and why

* Planned, see section 2: actor binding, the frame tree with runtime and page agent, the
  launchers' displays. Downloads and installs are file handling around a few maps.
* Within the modelled components, beside what section 3 names: the end of a session of
  the client; the emulation overrides, cookies, permissions and downloads of targets and
  contexts, which change nothing the properties speak of; the debug names of channels;
  pixels, VP8 and WebM's bytes; the screen capturer of another build
  (`nsScreencastService.cpp:72-131`); logging.
* Of the JSON library: UBJSON, BJData and BSON, the parser with a callback,
  half-precision floats, NaN and infinity in the binary formats, user-defined types,
  allocation and the templates that only select an overload.
* Left out: the protocol schema (no state), cursor generation (reals, randomness and
  recorded data), fingerprint data and launch options (pure functions over data files),
  the TypeScript port of the Python package, Firefox patches (patches of code that is
  not here), build, packaging and CI scripts.

## 8. Running

    tlc -workers 2 -config ChannelCrossProcess.cfg MCSimpleChannel
    tlapm SimpleChannelProofs.tla

The other runs pair `MCActivationChain` with `Activation*.cfg`, `MCTargetLifecycle` with
`Lifecycle*.cfg`, `Screencast` with `Screencast*.cfg`, `BrowserSession` with
`Shutdown.cfg`, `MCNetworkObserver` with `Network.cfg` and `MCConfiguration` with
`Config.cfg`. The longest runs take two to
three minutes; of the proof modules `SimpleChannelProofs`, `NetworkObserverProofs`,
`ScreencastProofs` and `MaskConfigProofs` take several minutes each, the others about
one.
