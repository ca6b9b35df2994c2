# headlessdesk: a TLA+ verification project

`headlessdesk` serves one remote desktop to HTTP clients, MCP clients and a
FUSE filesystem. This directory models the parts of it whose correctness hangs
on orderings and on conversions that tests hardly reach: requests that
interleave, backends that end at any moment, files closed by several processes,
a process that must let go of what it started, a configuration assembled from
five sources, numbers that three parsers read. Models are checked by TLC on
small instances; the safety properties are proved with TLAPS for every instance,
those of the conversions for every input.

All source paths are relative to `src/internal/`.

## Inventory

| Component | State | Operations | What is hard | What makes it correct |
|---|---|---|---|---|
| control service, `control/service.go` | none of its own, no lock; the desktop's pressed buttons and keys, and its pointer, are shared through it | Click, DoubleClick, Drag, Move, Scroll, Keypress, Type, Wait, Screenshot, Status | each gesture is several backend calls with sleeps between them, and gestures of different requests interleave; any call may fail half-way; crop bounds may overflow | nothing stays pressed that nobody will release; a gesture holds what it presses; the answer tells what happened; a gesture ends; a crop is the area asked for |
| input names, `inputcode/` | tables | parse a key, chord or button; look it up again in a backend | two tables that must agree | a name that is accepted can be sent |
| resources and composite, `desktop/session.go` | `err`, `done`, `closeOnce` | NewComposite, watch, Err, Close, Status | two watch goroutines and any number of Close callers join errors and close a channel concurrently | no error is lost; Close is complete for every caller; one part's end is the composite's |
| process, `servercmd/` | started backends, server goroutine, signal | startBackends, runServe, runFuseMount, runStdioMCP, closeComponent | failing starts, an end seen in a `select` with three ready cases, handlers in flight at shutdown | every backend is closed on every path, not under a handler; failures show in the exit status; the process does not outlive its backends |
| configuration, `servercmd/command.go`, `backendpreset/` | config | load, flags, extend presets, merge, validate; what the start functions ask of it | five layers of values; validation and start are different code | the strongest source that sets a field decides; what validation accepts can start |
| FUSE files, `fusefs/filesystem.go` | one buffer, `wrote`, `done`, `errno` per open file | Write, Flush, Release; Open of a read file | the kernel calls Flush once per closed descriptor | a command runs once, and everybody is told its result |
| HTTP, MCP, health, `httpapi/`, `mcpapi/`, `healthapi/` | none | authorize, parse, call the service | three parsers of the same documents | a document means the same through every front |
| authorization, `authz/` | tokens | find a token, compare audience and scope | wildcards, defaults, tokens of equal value | no command without the scope the documentation names |
| number expressions, `apiinput/number.go` | none | parse, evaluate, round | rounding and ranges at the ends of the ints | as part of crops and points |
| KWin EIS, `kwineis/backend.go` | four device slots, regions, status, reader goroutine | New, Close, input calls, events, mapping of points | devices with overlapping capabilities come and go; New, reader and Close race | input goes to live devices only; ready means usable; references balance; points land inside the regions |
| RDP, `freerdp/` | C client, snapshot buffer, error | start with mode fallback, run, Screenshot, input, Close | client freed in Close while calls use it; snapshot resized between size and copy; text interleaved with other keys | one connection at a time; an image is whole and of the present size; text arrives as asked and leaves no modifier down |
| VNC, `vnc/` | framebuffer, status, socket | read loop, Screenshot, input, Close | Close against input and against a reader that waits for the input mutex | the end shows; the client outlives its reader; Close returns |
| command backend, `commandbackend/` | status, error, SSH connection | run a command here or over SSH, Close | time-outs and children that outlive them; a connection that drops or falls silent | calls end; an error shows until a call succeeds; a closed backend shows it |
| KWin screenshots, `kwin/` | status, bus connection | Screenshot, ScreenshotCrop, Close | KWin may never answer; sizes are cut to 32 bits | as the command backend |
| Windows, macOS, `winlocal/`, `macoslocal/` | status; on macOS one a side, made anew from permissions | capture, input, Close | calls record their results after Close; permissions come and go; crop rectangles | as the command backend; a crop is the area asked for |
| template functions, version | none | | | not modelled |

Interactions: HTTP handlers, MCP tools and FUSE writes call one `Service`; the
service calls one output and one input backend, perhaps the same one; a
`Composite` owns both and ends when either ends; the process owns the composite
and the server, and ends with whichever ends first.

## Modules

| Module | Models | Kind |
|---|---|---|
| `Control` | `control/service.go` with the two-section events of `kwineis/backend.go` | component |
| `MCControl` | the instances of it: two mixed requests; two clicks that race | TLC |
| `InputNames`, `MCNames` | button names from parser to session; composed with `Control` | component, TLC |
| `Resource` | the contract of `desktop.Resource`: Done, Err, Close | abstract specification |
| `Composite`, `MCComposite` | `desktop.Composite`; implements `Resource` | component, TLC |
| `Serve` | the commands of `servercmd`; extends `Composite` | composition |
| `Config` | the configuration: load, presets, merge, validation, start functions | operators |
| `Launch`, `MCServe` | a process from its command line on: `Config` before `Serve` | composition, TLC |
| `WriteHandle`, `MCWriteHandle` | `writeHandle` of `fusefs` | component, TLC |
| `EisBackend`, `MCEisBackend` | `kwineis.Backend`; implements `Resource` | component, TLC |
| `RdpSession`, `MCRdpSession` | `freerdp.StartSession`, the session's life and its snapshot; implements `Resource` | component, TLC |
| `RdpText`, `MCRdpText` | `freerdp.Session.TypeText` and key events | component, TLC |
| `VncSession`, `MCVncSession` | `vnc.Session`; implements `Resource` | component, TLC |
| `LocalBackend` | `commandbackend`, `kwin`, `winlocal`, `macoslocal`; implements `Resource` | component |
| `Authz`, `Numbers`, `Fronts` | tokens and scopes; numbers; the three fronts | operators |
| `Pictures`, `Pointers` | which area a screenshot shows; where a pointer event lands and how far a wheel turns | operators |
| `Desk`, `MCDesk` | a request through a front and the service to a local backend | composition, TLC |
| `ControlProofs`, `WriteHandleProofs`, `LaunchProofs`, `EisProofs`, `RdpProofs`, `RdpTextProofs`, `VncProofs`, `DeskProofs` | theorems about the module they extend, and what it extends | proofs |

Definitions whose comment begins with "Fault:" are deliberate mistakes: each
stands in for the definition after it to show that a property notices. No
specification uses them.

### Control

A client is a request in flight. `pc` says which backend call it makes next,
`n` is the loop variable of the code at that point (clicks done, path index,
axis, keys down), `err` is `releaseErr` of `releaseKeys`. One action per call
site: `MoveCall`, `ButtonDown`, `PathCall`, `ButtonUp`, `UndoUp`, `WheelCall`,
`KeyDown`, `KeyUp`, `UnwindUp`, `TypeCall`; `Accept` is the validation and
mapping at the head of each method, before the first call. Sleeps are just the
gaps between actions.

A backend call is one step. The sessions send their events with a mutex held;
where a call is more than that, the part that other calls can come between is
modelled: kwineis moves the pointer in a critical section of its own before a
button or wheel event (`Aim`, when `AtomicButton` is FALSE, as it is in
`control`), and the calls that take no lock at all, those of winlocal and
commandbackend and the wheel of macoslocal, allow the same order of motion and
press. A call ends "ok", "lost" (error, nothing delivered), "late" (error,
but delivered: a command killed by its time-out) or "refused".

`held` and `pointer` are the remote desktop. `failed`, `spoilt` and `stolen` are
history: whether a gesture has seen an error, which inputs' last call failed
with them down, and what another request has released.

Assumed: the mapping of a point does not change during a gesture; `TypeText` is
one call that releases the keys it uses unless it fails (for RDP that is
`LeavesNothingDown` of `RdpText`). TypeText's release of modifiers that another
request's chord holds is left to `RdpText`; `HeldWhileOwed` speaks of the calls
the service itself makes.

### Resource, Composite, Serve

`Resource` says what the interface promises: an end and an error never go back,
Close returns to everyone, but to nobody before the end. `Composite` has an
action per statement of `watch` and `Close` that another goroutine can come
between; `Local` parts are the Windows and macOS backends, whose error comes and
goes and which only Close ends. Its refinement maps `failed` to a recorded error
(`c.err`); while none is recorded, `Err` shows what the parts say.

`Serve` extends `Composite` with the command's goroutine (`main`), the listening
goroutine (`server`), the requests (`handler`) and the signal. The three
commands are values of `mode`; they share everything but what ends them. What
the HTTP, FUSE and MCP libraries do is external, as the code relies on it:
`Shutdown` stops accepting and waits, `Unmount` fails while somebody uses the
filesystem, the FUSE server's `Wait` waits for its requests. A signal that comes
before `NotifyContext` ends the process at once and is not modelled.

### Config, Launch

`Config` is pure: a backend is its extends list, a function from fields to
values and one from command names to specs. `Load` is `loadConfig` with
`applyChangedFlags`, backend by backend (`LoadBackend`): viper asks the
environment for every key, of any backend, that a default or the file names, its
extends list and the parts of its commands included, and for no others
(`Loaded`). So the variables that `docs/configuration.md` lists for the host, the
username and the password of the default backend (lines 263-265) are heard only
if the file names these keys. The flags are about the backend named "default"
(`FlagsOf`). `Resolve` is the preset merge, `Valid` and what it calls are
`validateConfig`, `Starts` and `Renders` are what the start functions,
`newSSHClient` and `renderCommand` ask again. Three of the presets are written
out. White space and letter case are those of a few sample strings; of the
sample templates two are `Malformed`, one that does not parse and one that asks
for a field no command is given.

`Launch` runs these in the order of a command: `LoadConfig`,
`ResolveBackendExtends`, `ValidateConfig`, `Run`, each of which may refuse. After
that the configuration is forgotten except that its roles name one backend or
two, and `Serve` goes on. `Resolved` compares the merge, written field by field
in the code, with a definition by sources: the strongest that sets a field.
`ValidatedStarts` compares what validation asks with what starting and rendering
ask of the same configuration.

### WriteHandle

One open file shared by processes. The mutex matters because the command runs
with it held: `FinishBegin` and `FinishEnd` are its two ends, and `Write` waits.
Chunks follow each other at the shared offset; `MaxChunks` bounds them.

### EisBackend

KWin's side (`Offer`, `Disconnect`, `Break`, and its answers to the two calls made
of it, `ConnectToEIS` and `CloseIsTold`) and libei's queue are external. New is
"calling" until KWin has answered, then "waiting" in its `select`; when the timer
has fired it is "expired" and closes the backend, and only when Close has
returned does New (`NewTimesOut`). Close is `CloseBegin`, `CloseTells` (`wg.Wait` is
over and the disconnect call made), `CloseIsTold` and `CloseEnd`. The reader's loop
is `RunTop`, `Poll`, `HandleEvent`, `RunAfter`, `Cleanup`; it holds the mutex from the first event to the last, so input calls see the slots
only between batches. Input calls change nothing here and are in `Control`; where
their points land is in `Pointers`. Device events are bounded by `MaxEvents`.

### RdpSession

`start` is `StartSession` with the poll of `waitForUsableStartupSnapshot`; every
graphics mode is an attempt with its own client, `run` goroutine, GDI buffer and
snapshot. A call of `Status` or `Screenshot` is a record in `thread` that walks
through `getClient`, `gofreerdp_snapshot_size` and `gofreerdp_copy_snapshot`;
`Look` and `Fill` are the two halves of `gofreerdp_snapshot_update`, which reads
GDI's size before it takes `snapshot_mutex`. A size stands for width, height and
stride; a copy made with a size that is not GDI's any more is `torn` and its
content arbitrary. A thread that touches a freed client is `wild`: the model
says nothing of it from there on, and the client's memory is not modelled
further.

FreeRDP is external: it connects, paints, resizes and disconnects as it likes.
Assumed: it gives up after an abort, also one that comes before it has begun to
connect; memory does not run out. What a mode that was given up has left in
`failed` and `aborted` is forgotten, as nobody has that session any more. Each
caller calls what `Calls` gives it and closes once.

### RdpText

One `TypeText` holds `inputMu` for its keyboard synchronisation, its release of
all modifiers and the events of each character; `SendKey` of other requests
takes it for one event. The remote desktop is external: a set of keys that are
down, and `typed`, what has arrived during each call; text with a modifier down
does not count as that text. A synchronise event may or may not reset the keys
(servers differ). Any event of `TypeText` may be refused. `releaseModifiersLocked`
drops its errors: a call for which a release that mattered was refused is
`lossy`, and the properties leave it out.

### VncSession

`run` is the read loop; its frame requests take `inputMu`, and so do the input
calls, which differ only in how many events they send (`left`). Sending may fail
at any event. `Close` takes no lock: `Shut`, `Clean` and `Delete` are its three
steps. An input call that meets a freed client is `wild`, as above.

### LocalBackend

The five backends that act call by call have the same shape: a call acts on the
desktop without a lock, and then records what came of it in the status, in one
critical section or several. `call[c].marks` is what is left to record, one
`Mark` a section: `note` (an error), `clear`, `size`, `ready` (setReady of
Windows and macOS), `measure` and `refresh` (the macOS status is made anew from
permissions read before the lock is taken). So the calls and Close interleave
exactly between sections. `Render`, `OpenSession`, `Exit`, `TimeOut`, `Orphan`
and `LetGo` are a command's life here or over SSH: a time-out kills the command,
not a child that has kept its output open, and `cmd.Run` waits for that child.
`Enter` to `Leave` are Close.

External: commands, the SSH peer (`link`: up, dropped, or silent), KWin's answer,
Windows, and what macOS has and permits (`granted`; at most `MaxMissing` things
are missing at a time). The several permission reads of one measurement are one
step. `told` (the last call's outcome, "mixed" when calls overlapped) and `late`
(macOS recorded after Close) are history.

### Authz, Numbers, Fronts, Pictures, Pointers, Desk

A request's document is a record of every field a front knows. `Fronts` makes a
command of it the way each front does: the HTTP routes and FUSE files decode JSON
(FUSE has crops in file names), MCP checks a schema first. `Authz` decides
whether the bearer's token lets it through. `Numbers` evaluates a field: values
are counted in halves, enough to tell how they round, and an int has `Width`
bits; an expression is one operation on two literals, and a product or quotient that
is not a number of halves is cut towards zero to one that rounds alike.
`Pictures` follows a crop from
`cropBounds` to the backend's own rectangle; `Pointers` follows a point to the
protocol's or the desktop's numbers and a wheel to its turns: for RDP to the nine
bits of the event, where the sign is the highest bit of the mask the amount is
checked against (`TurnSign`).

`Desk` composes them with `LocalBackend`: `Receive` a request, `Examine` it (its
command, and the first call the command makes of the backend begins). The calls
after the first are `Control`'s. A request comes only to a backend that is as it
was started, with nothing missing; the code in front of a backend does not look
at its state, so the other combinations would only repeat these, and what a
call meets in a marked or closed backend is `LocalBackend`'s own part of the run.

What the fronts are found to differ in, and `FrontsAgree` names: MCP's schema
refuses a `null` and a field it does not know (`extra`, which stands for those of
the other tools as well), which HTTP and FUSE take for absent; a crop in a file name cannot leave a part out; `wait` is a tool only.

## Runs

| Run | Instance | Shows |
|---|---|---|
| `control` | 2 clients; click (double, unknown button), drag (three points, unmappable), scroll on two axes, move, chord, chord naming a key twice, type, wait; presses and releases may be lost or late, other calls lost | `NothingStuck`, `HeldWhileOwed`, `HonestReply`, `EveryRequestAnswered` |
| `click_race` | 2 clients, a click each at its own point, nothing fails | violates `ClickLands` |
| `names` | 1 client, every button name, RDP and VNC tables | violates `NeverRefused` |
| `composite` | a session and a local part, 2 Close callers | `CloseComplete`, `NothingForgotten`, `KeepsPromise` |
| `serve` | 3 commands, 2 backends or one for both roles, 2 requests; some 1900 sets of flags, variables and settings in builds for three systems | `ServeTypeOK`, `NoBackendLeft`, `ClosedWhileIdle`, `ResultHonest`, `Resolved`, `ValidatedStarts`, `EndExits` |
| `write_handle` | 3 processes, 2 writes | `ExecutedOnce`, `SameAnswer`, `CloseReturns` |
| `whole_file` | 2 processes, 2 writes | violates `WholeFile` |
| `eis` | 3 devices: pointer with button and wheel, pointer with button, keyboard; 5 device events | `DevicesOwned`, `StatusFollows`, `NewAnswers`, `KeepsPromise` |
| `rdp_session` | 2 graphics modes, 2 sizes, 2 blank pictures, a goroutine that takes screenshots and one that asks for the status, both close | `TypeOK`, `ClientsHandedBack`, `PictureHonest`, `StartAnswers`, `KeepsPromise` |
| `rdp_text` | 2 calls, 4 texts of 5 characters, 2 of the 8 modifiers, keys pressed and released by others | `TypeOK`, `TypedAsAsked`, `LeavesNothingDown` |
| `vnc_session` | 3 goroutines that send one or two events and close | `EndShows`, `RunOutlived`, `KeepsPromise` |
| `desk` | 5 kinds of backend, 2 callers that call and close; every document through 4 fronts without tokens, one of each operation with 6 accounts over HTTP and MCP | `ClosedShows`, `ErrorShows`, `AuthorizedOnly`, `FrontsAgree`, `CropsServed`, `PointsLand`, `CallsEnd`, `KeepsPromise` |

Some properties join two that belong together: `DevicesOwned` (`OnlyLive`,
`RefsBalanced`), `StatusFollows` (`ReadyIsUsable`, `RegionsFollow`),
`ResultHonest` (`GivingUpShows`, `SuccessExplained`), `ClientsHandedBack`
(`AttemptsClosed`, `FreedUnused`), `PictureHonest` (`ImageWhole`,
`SnapshotCurrent`).

Why the bounds are enough. `control`: every property speaks of a client and what
any other has released, so two clients show every pairwise interference; a drag
of three points and a chord of two keys reach the first, a middle and the last
iteration of each loop. `composite`: NewComposite makes at most two parts, and a
third Close caller waits like the second. `serve`: requests are interchangeable;
two allow one to end while the other does not; each configuration differs from a
complete one in a field or two, and every check in the code has one that fails
it alone. `write_handle`: one process runs the command, one waits for it, one
comes later. `eis`: five events fill all slots, replace two of them and take a
device away again. `rdp_session`: two modes make one that is given up and the
last one, which is returned as it is; two sizes are enough for a copy that is too
large, too small or torn. `rdp_text`: the texts hold a shifted letter followed by
the same key without Shift, a line break, a character that needs a Unicode event
and one that needs a surrogate pair; the modifiers are released in a loop, of
which two show the first and the last turn. `vnc_session`: one goroutine closes,
one waits for it to, one is in an input call. `desk`: an int has 8 bits, an int32
4, a uint16 ends at 6 and a wheel turn at 7 with its sign at 4 (`Width`, `Narrow`, `Far`, `MaxTurn`,
`Finest`), so that every range can be left by numbers of a document; the picture
is 4 by 3 and crops begin and end before, at and behind its edges, also by
overflow; `Beyond` is what amd64 makes of a float64 that no int is; regions
overlap, lie left of the origin, are empty, or none; two callers show a call
that overlaps another call or Close.

### What the violations show

- `click_race`: on KWin EIS a click is a motion, then motion and press, then
  motion and release, each in a critical section of its own. A second request's
  motion between the halves of a press makes the button go down at the second
  request's point. `docs/api.md:11` promises a click at the coordinate.
- `names`: `ParseMouseButtonName("left").String()` is `BTN_LEFT`; the RDP and
  VNC sessions look that up in tables of `left`, `1`, ... and refuse it, every
  button alike. The pointer has already moved by then. (VNC's `MoveMouse` also
  sends a mask without buttons, which would end a drag; it cannot be reached
  while every button is refused.)
- `whole_file`: the kernel flushes at each close of a descriptor, so
  `(cmd1; cmd2) > input/type` executes what `cmd1` wrote and drops what `cmd2`
  wrote, with success for both.

### What the properties leave out

Behaviour the code has and no document denies, which the properties except by
name:

- a macOS call in flight during Close, when it records, shows the closed backend
  as connected again (`late` in `ClosedShows`);
- nothing bounds the wait for a child that keeps a command's output open, for an
  SSH peer that falls silent, or for KWin's answer (`Waits` in `CallsEnd`);
- nothing bounds the two calls that the EIS backend makes of KWin: New waits for
  `connectToEIS` before its five seconds begin, and Close, also the one New calls
  when they are over, for `disconnect` (`NewAnswers` and `KeepsPromise` say "if
  KWin answers"; `backend.go` 86, 138, 172);
- a field of the default backend that nothing but a default and a preset sets
  takes the default: the type "rdp" wins over the preset's "command". The
  documents (`docs/configuration.md:158`, `docs/architecture.md:25`) speak of fields
  on the backend that override presets, not of defaults; `Resolved` claims nothing
  there (`ByDefault`);
- validation parses no template and opens neither the SSH key nor the file of known
  hosts: a malformed template makes the requests that need it fail, a bad file
  the start (`WellTemplated` in `ValidatedStarts`, `DialsSSH`);
- Windows and macOS build a crop with `image.Rect`, which swaps its corners: a
  negative width or height shows the area to the other side (`Swapped` in
  `CropsServed`); KWin is asked modulo 32 bits;
- RDP and VNC send any pixel that a uint16 holds, whether or not the output has it;
  with EIS a point of the output is refused when the union of the regions begins
  left of the origin or above it and the point maps there (`PointsLand`);
- Windows, macOS and EIS cut a wheel delta to 32 bits, so that one beyond them may
  turn the other way, or not at all, with success (`Fits`); an RDP amount that
  reaches the sign bit shares it with the sign (`TurnSign`: 256 to 511, which the
  check lets through in both directions with the same bits), and of the least int
  only the sign is sent; VNC makes one step whatever the delta;
- a copy of the RDP screen made while it is resized may be torn
  (`PictureHonest`), and an input call in flight during Close may use the freed
  client (`Wild` in `RdpSession` and `VncSession`);
- when accepting connections fails, `runServe` does not wait for the requests in
  flight (`gaveUp` in `ClosedWhileIdle`).
- `TypeText` over RDP lets go of modifiers another request's chord holds, and one
  that fails in the middle of a character leaves keys down (`RdpText`);
- after VNC's connection has ended the last frame is still served (`EndShows` is
  about the error and the state beside it).

Seen while reading and in no property: `kwineis.New` returns without Close when
the connection ends before the devices are ready, and leaves its bus connection
(`backend.go:133`); `kwin` and `kwineis` may share the session bus connection that
the first to close closes (`backend.go:171`).

## Fairness

Environment steps are never fair: nobody has to send a request, end a backend,
write a file, resume a device, answer a request, end a command or let go of its
output. Fair are goroutines with something to do: in `Control` each request's
next call (backend calls return, except as `CallsEnd` says; a request waits as
long); in `Composite` each watch goroutine and each caller inside Close; in
`Launch` and `Serve` the command's goroutine: its own waits have a deadline or
a refusal (`EndExits` holds although requests may run for ever), and for its
parts it relies on the Close of each returning, as the runs of the backends show
with the exceptions named above (an EIS backend's Close waits for KWin); in
`WriteHandle` strong fairness for each closer, because `sync.Mutex` hands itself
over to a starving waiter; in `EisBackend` the reader, New's `select` and timer and Close's own steps, but neither
of KWin's answers, and only New is sure to close a backend; in
`RdpSession` the goroutines, strongly the deadline, whose channel stays ready
while `select` chooses, and a session that has been aborted gives up; in
`VncSession` the goroutines, strongly whoever waits for `inputMu`, and a socket
that has been shut makes waiting or reading fail; in `LocalBackend` and `Desk`
each caller's own steps (`Work`) and the deadline of a command (`TimeOut`), which
stays enabled while the command runs. `RdpText` has no liveness property and no
fairness.

## Proofs

Every safety property that a run checks is a theorem, for any set of clients,
requests, keys, parts, callers, devices, modes, sizes, texts, configurations,
documents and ways to fail that the assumptions allow. A proof module states an
inductive invariant, with one lemma per action or group of actions, and the
theorems follow from it.

| Module | Theorems | Why `TypeOK` is not inductive, or not enough |
|---|---|---|
| `ControlProofs` | `TypeCorrect`, `RepliesHonest`, `InputReleased`, `GestureHolds` | that a path index is in the path, or that the point a client aims at was mapped, depends on its `pc`: `Place(c)` says what each label knows of the command and its loop variable, `Books` what it knows of the reply so far. A ledger lemma says how `Owed` changes from one label to the next, and three lemmas (idle, press, release) carry `NothingStuck` and `HeldWhileOwed` over any action that changes `Owed`, `held`, `spoilt` and `stolen` in one of these ways |
| `WriteHandleProofs` | `HandleTyped`, `RunsOnce`, `AnswersAgree` | `Progress`: `done` is set in the section that starts the command, so until then nothing was executed and nobody was answered |
| `LaunchProofs`, of `Composite` | `CompositeTyped`, `CloseIsComplete`, `ErrorsAreKept`, `CompositeIsResource` | `Passed`: what Close has come past is closed; `Noted`: a watch goroutine looks only at a part that has ended, and a session's error is final then |
| `LaunchProofs`, of `Serve` and `Launch` | `ServeTyped`, `EveryBackendClosed`, `ClosedUnderNoRequest`, `ResultsHonest` | `LInv`: where `main` stands says which backends are started and closed (`Starting`), who may be in Close (`ClosingTurn`), whether a request may be at work (`Serving`) and what the result has to explain (`Ended`, `Told`) |
| `LaunchProofs`, of `Config` | `PresetsResolved`, `AcceptedStarts` | `CfgInv`: the configuration at each stage is a function of what was given; the rest is about `Load`, `Resolve` and `Valid`. `LoadFields` and `LoadSpecs` say that loading gives each key the strongest of its layers, the environment's known keys included, for a backend of any name; the fold over the presets keeps, after `i` of them, what the last of those `i` that sets a field gives |
| `EisProofs` | `BackendTyped`, `SlotsOwnDevices`, `ReadyHasDevices`, `BackendIsResource` | `Queued`: nothing follows the end of the connection in libei's queue; `Ending`: once `done` is closed no event is left that would make the backend ready; reference counts need how a cardinality changes with one slot |
| `RdpProofs` | `SessionTyped`, `ClientsAreHandedBack`, `PicturesAreHonest`, `SessionIsResource` | `InTurn`: modes to come are untouched and those gone past are over; `Starting`: where StartSession stands says whose calls are in flight and what is left of the session; `Whole`: a copy that is not torn is of one size |
| `RdpTextProofs` | `TextTypes`, `TextTypedAsAsked`, `TextLeavesNothingDown` | `Turns`: whoever is past `Lock` holds `inputMu`; `ModsClear` and `KeysClear`: which modifiers and keys the position in the release loop and in a character's events leaves down; `Spelling`: what has arrived is what those events type, character by character |
| `VncProofs` | `SessionTyped`, `EndIsShown`, `ClientOutlivesRun`, `SessionIsResource` | `Ownership`: who deletes has seen `run` end; `Farewell`: `run` leaves with its error and shows it before `done` |
| `DeskProofs`, of `LocalBackend` | `BackendTyped`, `ClosedIsSeen`, `ErrorIsSeen`, `BackendIsResource` | `Marks(k)`: which sequences of sections a backend's kind leaves to record; `StaysDown`: only a late refresh connects a closed backend again; `Report`: what a call has left to record fits its outcome (`Recording`), a call that ran by itself had nobody beside it (`Alone`), one caller at a time closes (`Attended`), and until the next call records, what is shown is the last result (`Told`) |
| `DeskProofs`, of `Desk` | `AuthorizedByScope`, `FrontsMeanTheSame`, `CropsAreServed`, `PointersLand` | the invariant is only that what is looked at is one of `Requests`; the work is in lemmas about the operators, see below |

**Resource.** `CompositeIsResource`, the two `SessionIsResource` and the two
`BackendIsResource` are the safety part of `KeepsPromise` for all five
implementations: initial states map to `Resource`'s, and every step to one of
its steps or a stutter. `Final` (EIS), `Parting` (RDP) and `Closing` (VNC) add to
the module's invariant what the mapping needs: that an error is recorded before
`done`, and that who leaves Close has seen `done`.

**Conversions.** `DeskProofs` follows a request. `AuthorizeIs` says which token
`Authorize` finds, the first that matches; `AuthorizeGrants` turns its scopes
into those of the documentation. `PressedBy` to `ShotBy` say what each front
makes of each operation, and `FuseLikeHttp` and `McpLikeHttp` compare them.
`ValueIs`, `RoundIntIs` and `IntOfIs` bound what a field can come to, `WrappedIs`
says that a sum of two ints wraps at most once, and `AxisIs` that an edge which
wrapped lies on the wrong side of its corner, so that `CutServed` and
`SwappedServed` find the area refused exactly when the one that was meant is not
in the picture. `RegionUnionIs` bounds the union of a finite layout; `ShareIs`
is the arithmetic of `MapInputPoint`: the pixel is in the stretch, and the
mapping keeps the order. `PixelRounds` says that what lies on the output is rounded
to one of its pixels, so no backend refuses it, and `TurnServed` which deltas come
through; `NarrowedIs` that an int32 keeps exactly the numbers it holds.

**Assumptions.** Each is an ASSUME of the module that declares the constant, and
TLC evaluates it on the instances. `SpotAssumption`, `InputAssumption`,
`RequestAssumption` and `OutcomeAssumption` (`Control`), `OrderAssumption` and
`PairAssumption` (a composite has parts, the process at most two, no part
twice), `GivenAssumption` (ports and the like are unsigned in the Go types,
`extends` is a list), `DeviceAssumption`, `AttemptAssumption` and `SizeAssumption`
are what the types in the code say. Of `RdpText`, `KeyAssumption` is the table of
`freerdp/client.go`: a key types one character with Shift and one without, and
is no modifier; `UnitAssumption` and `NoneAssumption` give sequences their types.
Of `Desk`, `RequestAssumption` says what a document can be, `PictureAssumption`
that a picture is not empty and its size an int, `LayoutAssumption` that a device
has finitely many regions with sizes from 0, `PointerAssumption` that a uint16 and
RDP's mask are smaller than the greatest int, `BeyondAssumption` what amd64 and arm64 make of a
float64 that no int is. `PowerAssumption` is true of every `Width`: powers of two
are positive and double, which the provers do not know of `^`. The remaining
ones keep names such as "nobody" apart from the members of a set.

Induction over a fold or a sequence is done with least counterexamples:
`WFMin` for `<` on the naturals, applied to a set of the numbers that fail
(`LeastNatural`, `SetInduction`), since the induction theorems that take an
operator cannot be instantiated.

Only model-checked: what must happen in the end and the fairness it rests on
(`EveryRequestAnswered`, `EndExits`, `CloseReturns`, `NewAnswers`,
`StartAnswers`, `CallsEnd`, and the liveness part of `KeepsPromise`).

## What is left

- the RDP and VNC screenshots through `Desk`, as it has the local backends;
- the chords of `InputNames` and the parsing of key names, which are tables so far.

## Not modelled

Pixel conversion and formats, PNG encoding, key tables and evdev codes, template
functions and rendering of command lines, D-Bus and SSH transport below a call
and its answer, Win32 and CoreGraphics structures, cobra and viper themselves,
the wording of responses and errors, RDP's `Probe`, the version: I/O and data
without a state of their own. HTTP status codes other than those of `/healthz`
are left out: a refused request and a failed one are told apart, not how the
client is told.
