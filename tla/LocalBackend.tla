----------------------------- MODULE LocalBackend ------------------------------
(***************************************************************************)
(* The backends that act on the desktop call by call and keep a status of  *)
(* what became of the last one:                                            *)
(*   command, ssh  a configured command for every call, run here or over   *)
(*                 an SSH connection (commandbackend)                      *)
(*   kwin          screenshots over D-Bus (kwin)                           *)
(*   windows       Win32 calls (winlocal)                                  *)
(*   macos         CoreGraphics calls, which depend on permissions that    *)
(*                 are asked for with every call (macoslocal)              *)
(* A call acts on the desktop without a lock and then records what came of *)
(* it in one critical section or more (marks), so calls interleave between *)
(* the act and the marks.  Health checks read the status at any moment.    *)
(*                                                                         *)
(* macos keeps a status for each side, the others one for both.  What a    *)
(* capture permission, the probe's success or an input permission is at    *)
(* the moment of a measurement is read at once here, by several calls in   *)
(* the code.                                                               *)
(***************************************************************************)
EXTENDS Naturals, Sequences, FiniteSets, SequencesExt

CONSTANTS
  Kinds,      \* the backends to look at
  Callers,    \* goroutines that call it
  MaxMissing  \* bound: so many things macOS may lack at a time

ASSUME KindAssumption == Kinds \subseteq {"command", "ssh", "kwin", "windows", "macos"}
ASSUME CallerAssumption == Callers \cap {"fresh", "spent"} = {}
ASSUME MissingAssumption == MaxMissing \in Nat

VARIABLES
  kind,    \* the backend
  opts,    \* command: what is configured
  link,    \* ssh: the connection; kwin: the bus connection
  granted, \* macos: what the system has and permits
  status,  \* of each side: Connected and Active, Ready, Error is set
  runErr,  \* runErr is set
  shut,    \* Close has marked the status
  once,    \* closeOnce: "fresh", the caller inside it, or "spent"
  done,    \* done is closed
  call,    \* where each caller stands
  told,    \* history: the result of the last call to record one, and how it did
  late     \* history: macos recorded a call after Close had marked the status

world == <<kind, opts, link, granted>>
book  == <<status, runErr, shut, once, done>>
past  == <<told, late>>
vars  == <<world, book, call, past>>

Sides == {"output", "input"}
InputOps == {"key", "scancode", "mouse"}
Ops == InputOps \cup {"shot", "crop"}
Grants == {"display", "screen", "probe", "input"}

\* What the service asks of the backend, given what it is configured as.
\* Windows and macOS record a crop as they do a screenshot, and a scancode
\* as a key.
Asked ==
  CASE kind \in {"command", "ssh"} ->
         (IF "screenshot" \in opts THEN {"shot", "crop"} ELSE {})
           \cup (IF "input" \in opts THEN InputOps ELSE {})
    [] kind = "kwin" -> {"shot", "crop"}
    [] OTHER -> {"shot", "key", "mouse"}

\* A caller goes on to another call, but not after Close.
InFlight(c) == call[c].at \notin {"idle", "closed"}
InCall(c) == InFlight(c) /\ call[c].op # "close"

Quiet == \A c \in Callers : ~InCall(c)

------------------------------------------------------------------------------
(* A call *)

Idle == [at |-> "idle", op |-> "none", marks |-> <<>>, failed |-> FALSE,
         alone |-> TRUE, seen |-> {}]

To(c, at) == call' = [call EXCEPT ![c].at = at]

\* The outside effect is over; what it comes to is left to record.
Conclude(c, failed, marks) ==
  call' = [call EXCEPT ![c].at = "marking", ![c].failed = failed, ![c].marks = marks]

Begin(c, op) ==
  /\ op \in Asked
  /\ call[c].at = "idle"
  /\ call' = [d \in Callers |->
                IF d = c THEN [Idle EXCEPT !.at = "starting", !.op = op, !.alone = Quiet]
                ELSE [call[d] EXCEPT !.alone = @ /\ ~InCall(d)]]
  /\ UNCHANGED <<world, book, past>>

\* ErrCroppedOutputUnavailable, a crop without area, a scancode without a
\* command: answered without a trace.
Decline(c) ==
  /\ call[c].at = "starting"
  /\ \/ kind \in {"command", "ssh", "kwin"} /\ call[c].op = "crop"
     \/ kind \in {"command", "ssh"} /\ call[c].op \in {"crop", "scancode"} \ opts
  /\ call' = [call EXCEPT ![c] = Idle]
  /\ UNCHANGED <<world, book, past>>

------------------------------------------------------------------------------
(* commandbackend: run *)

Command(c) == kind \in {"command", "ssh"} /\ call[c].op \in Ops

\* Fault: the error is cleared when the picture has been looked at.
RanClears(c) ==
  LET op == call[c].op IN
  \/ Conclude(c, FALSE, IF op = "shot" THEN <<"size", "clear">> ELSE <<"clear">>)
  \/ op \in {"shot", "crop"} /\ Conclude(c, TRUE, <<"note", "clear">>)

\* The command succeeded: the error is cleared, and a screenshot decoded,
\* which may fail.
Ran(c) ==
  LET op == call[c].op IN
  \/ Conclude(c, FALSE, IF op = "shot" THEN <<"clear", "size">> ELSE <<"clear">>)
  \/ op \in {"shot", "crop"} /\ Conclude(c, TRUE, <<"clear", "note">>)

\* renderCommand.
Render(c) ==
  /\ Command(c)
  /\ call[c].at = "starting"
  /\ call[c].op \in {"crop", "scancode"} => call[c].op \in opts
  /\ \/ To(c, IF kind = "ssh" THEN "opening" ELSE "running")
     \/ Conclude(c, TRUE, <<"note">>)
  /\ UNCHANGED <<world, book, past>>

\* client.NewSession, which has no deadline: the connection is dead, or the
\* peer says no, or yes.
OpenSession(c) ==
  /\ call[c].at = "opening"
  /\ link # "silent"
  /\ \/ link = "up" /\ To(c, "running")
     \/ Conclude(c, TRUE, <<"note">>)
  /\ UNCHANGED <<world, book, past>>

\* The command ends by itself; over SSH, also with the connection.
Exit(c) ==
  /\ Command(c)
  /\ call[c].at = "running"
  /\ kind = "ssh" => link # "silent"
  /\ \/ link \in {"none", "up"} /\ Ran(c)
     \/ Conclude(c, TRUE, <<"note">>)
  /\ UNCHANGED <<world, book, past>>

\* A local command ends, but a child of it still has its output open, and
\* cmd.Run waits for that.
Orphan(c, failed) ==
  /\ kind = "command"
  /\ call[c].at = "running"
  /\ call' = [call EXCEPT ![c].at = "held", ![c].failed = failed]
  /\ UNCHANGED <<world, book, past>>

\* Fault: the SSH session is left open when time is up.
TimeOutWaits(c) ==
  /\ Command(c)
  /\ call[c].at = "running"
  /\ kind = "command"
  /\ \/ Conclude(c, TRUE, <<"note">>)
     \/ call' = [call EXCEPT ![c].at = "held", ![c].failed = TRUE]
  /\ UNCHANGED <<world, book, past>>

\* The context's deadline: a local process is killed, its children are
\* not; an SSH session is closed, and the answer waited for.
TimeOut(c) ==
  /\ Command(c)
  /\ call[c].at = "running"
  /\ IF kind = "ssh" THEN To(c, "killed")
     ELSE \/ Conclude(c, TRUE, <<"note">>)
          \/ call' = [call EXCEPT ![c].at = "held", ![c].failed = TRUE]
  /\ UNCHANGED <<world, book, past>>

\* session.Run returns after session.Close, with an error or without.
KilledReturns(c) ==
  /\ call[c].at = "killed"
  /\ link # "silent"
  /\ Conclude(c, TRUE, <<"note">>)
  /\ UNCHANGED <<world, book, past>>

\* The last process with the output open has gone.
LetGo(c) ==
  /\ call[c].at = "held"
  /\ IF call[c].failed THEN Conclude(c, TRUE, <<"note">>) ELSE Ran(c)
  /\ UNCHANGED <<world, book, past>>

------------------------------------------------------------------------------
(* kwin: Screenshot, ScreenshotCrop, capture *)

\* KWin answers the call and closes its end of the pipe, when it does; what
\* it sent may be no picture.
Capture(c) ==
  /\ kind = "kwin"
  /\ call[c].at = "starting"
  /\ To(c, "asking")
  /\ UNCHANGED <<world, book, past>>

CaptureAnswered(c) ==
  /\ call[c].at = "asking"
  /\ \/ /\ link = "up"
        /\ Conclude(c, FALSE, IF call[c].op = "shot" THEN <<"size", "clear">> ELSE <<"clear">>)
     \/ Conclude(c, TRUE, <<"note">>)
  /\ UNCHANGED <<world, book, past>>

------------------------------------------------------------------------------
(* winlocal *)

\* A screenshot needs the bounds, the crop and the captured pixels; a key
\* one event or several; a button or the wheel moves the cursor, which is
\* a success of its own, and then needs an event.
Win32(c) ==
  /\ kind = "windows"
  /\ call[c].at = "starting"
  /\ \/ Conclude(c, TRUE, <<"note">>)
     \/ CASE call[c].op \in {"shot", "crop"} -> Conclude(c, FALSE, <<"ready">>)
          [] call[c].op \in {"key", "scancode"} -> Conclude(c, FALSE, <<"clear">>)
          [] call[c].op = "mouse" ->
               Conclude(c, FALSE, <<"ready", "clear">>) \/ Conclude(c, TRUE, <<"ready", "note">>)
  /\ UNCHANGED <<world, book, past>>

------------------------------------------------------------------------------
(* macoslocal *)

\* What a call cannot do without.  A pointer event is posted without a look
\* at the permissions.
Needs(op) ==
  CASE op \in {"shot", "crop"} -> {"display", "screen", "probe"}
    [] op \in {"key", "scancode"} -> {"input"}
    [] op = "mouse" -> {"display"}

CoreGraphics(c) ==
  LET op == call[c].op IN
  /\ kind = "macos"
  /\ call[c].at = "starting"
  /\ \/ Conclude(c, TRUE, <<"measure", "refresh">>)
     \/ /\ Needs(op) \subseteq granted
        /\ Conclude(c, FALSE, IF op = "mouse" THEN <<"ready">> ELSE <<"measure", "refresh">>)
  /\ UNCHANGED <<world, book, past>>

Side(up, ready, error) == [up |-> up, ready |-> ready, error |-> error]

\* refreshStatus: the sides made of a measurement and the call's failure.
Refreshed(seen, failed) ==
  LET output == {"display", "screen", "probe"} \subseteq seen
      input == "input" \in seen
      own == failed /\ output /\ input
      up == "display" \in seen
  IN [output |-> Side(up, output, own \/ ~output), input |-> Side(up, input, own \/ ~input)]

\* setReady: nothing is tried, the permissions are asked for.
Posted ==
  [output |-> Side(TRUE, "screen" \in granted, "screen" \notin granted),
   input  |-> Side(TRUE, "input" \in granted, "input" \notin granted)]

------------------------------------------------------------------------------
(* The marks: setErr, clearErr, setFrameSize, setReady, refreshStatus *)

Each(f(_)) == status' = [s \in Sides |-> f(status[s])]

\* kwin has its error in runErr alone.
Note ==
  /\ runErr' = TRUE
  /\ Each(LAMBDA s : [s EXCEPT !.error = kind # "kwin"])

Clear ==
  /\ runErr' = FALSE
  /\ Each(LAMBDA s : [s EXCEPT !.error = FALSE])

\* command and kwin; only the former clears the error.
Size ==
  /\ runErr' = (kind = "kwin" /\ runErr)
  /\ Each(LAMBDA s : [s EXCEPT !.ready = TRUE, !.error = FALSE])

\* Fault: the status is made anew, as that of macos is.
ReadyAnew ==
  /\ runErr' = FALSE
  /\ status' = IF kind = "macos" THEN Posted ELSE [s \in Sides |-> Side(TRUE, TRUE, FALSE)]

Ready ==
  /\ runErr' = FALSE
  /\ IF kind = "macos" THEN status' = Posted
     ELSE Each(LAMBDA s : [s EXCEPT !.ready = TRUE, !.error = FALSE])

Refresh(c) ==
  /\ runErr' = (call[c].failed \/ "display" \notin call[c].seen)
  /\ status' = Refreshed(call[c].seen, call[c].failed)

Mark(c) ==
  LET mark == Head(call[c].marks)
      rest == Tail(call[c].marks)
  IN /\ call[c].at = "marking"
     /\ call' = [call EXCEPT ![c] =
                   IF rest = <<>> THEN Idle
                   ELSE [@ EXCEPT !.marks = rest,
                                  !.seen = IF mark = "measure" THEN granted ELSE {}]]
     /\ CASE mark = "note" -> Note
          [] mark = "clear" -> Clear
          [] mark = "size" -> Size
          [] mark = "ready" -> Ready
          [] mark = "measure" -> UNCHANGED <<status, runErr>>
          [] mark = "refresh" -> Refresh(c)
     /\ told' = CASE rest # <<>> -> told
                  [] rest = <<>> /\ ~call[c].alone -> <<"mixed">>
                  [] OTHER -> <<IF call[c].failed THEN "failed" ELSE "ok", mark>>
     /\ late' = (late \/ (kind = "macos" /\ shut /\ mark # "measure"))
     /\ UNCHANGED <<world, shut, once, done>>

------------------------------------------------------------------------------
(* Close *)

CallClose(c) ==
  /\ call[c].at = "idle"
  /\ call' = [call EXCEPT ![c] = [Idle EXCEPT !.at = "entering", !.op = "close"]]
  /\ UNCHANGED <<world, book, past>>

\* Fault: a flag instead of closeOnce.
EnterFlag(c) ==
  /\ call[c].at = "entering"
  /\ IF once = "fresh" THEN once' = c /\ To(c, "closing")
     ELSE UNCHANGED once /\ To(c, "leaving")
  /\ UNCHANGED <<world, status, runErr, shut, done, past>>

Enter(c) ==
  /\ call[c].at = "entering"
  /\ \/ once = "fresh" /\ once' = c /\ To(c, "closing")
     \/ once = "spent" /\ UNCHANGED once /\ To(c, "leaving")
  /\ UNCHANGED <<world, status, runErr, shut, done, past>>

\* Ready is kept by command and kwin.
CloseStatus(c) ==
  /\ call[c].at = "closing"
  /\ To(c, "unlinking")
  /\ shut' = TRUE
  /\ Each(LAMBDA s : [s EXCEPT !.up = FALSE, !.ready = @ /\ kind \in {"command", "ssh", "kwin"}])
  /\ UNCHANGED <<world, runErr, once, done, past>>

CloseLink(c) ==
  /\ call[c].at = "unlinking"
  /\ To(c, "ending")
  /\ link' = IF link = "none" THEN "none" ELSE "closed"
  /\ UNCHANGED <<kind, opts, granted, book, past>>

CloseDone(c) ==
  /\ call[c].at = "ending"
  /\ To(c, "leaving")
  /\ done' = TRUE
  /\ once' = "spent"
  /\ UNCHANGED <<world, status, runErr, shut, past>>

Leave(c) ==
  /\ call[c].at = "leaving"
  /\ To(c, "closed")
  /\ UNCHANGED <<world, book, past>>

------------------------------------------------------------------------------
(* The world *)

\* The SSH server or the session bus goes away; an SSH server may also just
\* fall silent, and speak again.
Unlink(l) ==
  /\ link \in {"up", "silent"}
  /\ kind \in {"ssh", "kwin"}
  /\ l \in (IF kind = "ssh" THEN {"up", "silent", "dropped"} ELSE {"dropped"}) \ {link}
  /\ link' = l
  /\ UNCHANGED <<kind, opts, granted, book, call, past>>

\* A display is plugged in or out, a permission given or taken away.  The
\* last result no longer says anything of it.
Change(g) ==
  /\ kind = "macos"
  /\ granted' = IF g \in granted THEN granted \ {g} ELSE granted \cup {g}
  /\ Cardinality(Grants \ granted') <= MaxMissing
  /\ told' = <<"mixed">>
  /\ call' = [c \in Callers |-> [call[c] EXCEPT !.alone = @ /\ ~InCall(c)]]
  /\ UNCHANGED <<kind, opts, link, book, late>>

\* New.  commandBackendReady asks for a screenshot command or all of those
\* for input; requestPermissions has changed nothing yet.
Init ==
  /\ kind \in Kinds
  /\ opts \in IF kind \in {"command", "ssh"}
              THEN {{"screenshot"}, {"input", "scancode"}, {"screenshot", "input", "crop"}}
              ELSE {{}}
  /\ link = IF kind \in {"ssh", "kwin"} THEN "up" ELSE "none"
  /\ granted \in IF kind = "macos" THEN SUBSET Grants ELSE {Grants}
  /\ Cardinality(Grants \ granted) <= MaxMissing
  /\ status = IF kind = "macos" THEN Refreshed(granted, FALSE)
              ELSE [s \in Sides |-> Side(TRUE, TRUE, FALSE)]
  /\ runErr = (kind = "macos" /\ "display" \notin granted)
  /\ shut = FALSE
  /\ once = "fresh"
  /\ done = FALSE
  /\ call = [c \in Callers |-> Idle]
  /\ told = <<"mixed">>
  /\ late = FALSE

Work(c) ==
  \/ Decline(c)
  \/ Render(c)
  \/ OpenSession(c)
  \/ KilledReturns(c)
  \/ Capture(c)
  \/ Win32(c)
  \/ CoreGraphics(c)
  \/ Mark(c)
  \/ Enter(c)
  \/ CloseStatus(c)
  \/ CloseLink(c)
  \/ CloseDone(c)
  \/ Leave(c)

Outside(c) ==
  \/ Exit(c)
  \/ \E failed \in BOOLEAN : Orphan(c, failed)
  \/ LetGo(c)
  \/ CaptureAnswered(c)

Next ==
  \/ \E c \in Callers :
       \/ \E op \in Ops : Begin(c, op)
       \/ CallClose(c)
       \/ Work(c)
       \/ TimeOut(c)
       \/ Outside(c)
  \/ \E l \in {"up", "silent", "dropped"} : Unlink(l)
  \/ \E g \in Grants : Change(g)

\* The goroutines run and time passes.  Nothing obliges a command to end, a
\* child to let go, KWin to answer, or a silent peer to speak.
Fairness == \A c \in Callers : WF_vars(Work(c)) /\ WF_vars(TimeOut(c))

Spec == Init /\ [][Next]_vars /\ Fairness

------------------------------------------------------------------------------
(* What is read of the status *)

\* Status, OutputStatus, InputStatus: runErr stands in for a missing error.
Shown(s) == status[s].error \/ runErr

\* componentHealthy.
Healthy(s) == status[s].up /\ status[s].ready /\ ~Shown(s)

\* GET /healthz of a composite whose two parts are this backend.
Healthz == IF \A s \in Sides : Healthy(s) THEN 200 ELSE 503

------------------------------------------------------------------------------
(* Properties *)

\* The values the variables take; done is closed once.
TypeOK ==
  /\ kind \in Kinds
  /\ opts \subseteq {"screenshot", "input", "crop", "scancode"}
  /\ link \in {"none", "up", "silent", "dropped", "closed"}
  /\ granted \subseteq Grants
  /\ \A s \in Sides : status[s] \in [up : BOOLEAN, ready : BOOLEAN, error : BOOLEAN]
  /\ runErr \in BOOLEAN /\ shut \in BOOLEAN /\ done \in BOOLEAN /\ late \in BOOLEAN
  /\ once \in {"fresh", "spent"} \cup Callers
  /\ done <=> once = "spent"
  /\ \A c \in Callers :
       /\ call[c].at \in {"idle", "starting", "opening", "running", "killed", "held", "asking",
                          "marking", "entering", "closing", "unlinking", "ending", "leaving", "closed"}
       /\ call[c].op \in Ops \cup {"none", "close"}
       /\ call[c].marks # <<>> <=> call[c].at = "marking"
       /\ call[c].seen # {} => Head(call[c].marks) = "refresh"

\* ClosedShows: a backend that Close has marked is not healthy again,
\* whatever the calls still in flight record: a late setReady of Windows
\* makes it ready, but not connected.  On macOS only a call that records
\* after Close can make it healthy.
ClosedShows == shut /\ ~late => Healthz = 503

\* ErrorShows: after a call that ran by itself, health checks fail if the
\* call did, and after a call that succeeded they fail only for what macOS
\* lacks: the refresh of a screenshot or key tries a capture, setReady of a
\* pointer event takes the permission for it.
ErrorShows ==
  Quiet /\ told # <<"mixed">> =>
    IF told[1] = "failed"
    THEN \A s \in Sides : Shown(s)
    ELSE CASE kind # "macos" -> \A s \in Sides : ~Shown(s)
           [] kind = "macos" /\ (~shut \/ late) ->
                /\ Healthy("output") <=>
                     {"display", "screen"} \cup (IF told[2] = "ready" THEN {} ELSE {"probe"})
                       \subseteq granted
                /\ Healthy("input") <=> {"display", "input"} \subseteq granted
           [] OTHER -> TRUE

\* What no time-out covers: a child that keeps a command's output open, an
\* SSH server that does not answer, KWin.
Waits(c) ==
  \/ call[c].at = "held"
  \/ call[c].at \in {"opening", "killed"} /\ link = "silent"
  \/ call[c].at = "asking"

\* CallsEnd: every call and every Close ends, the configured time-out seeing
\* to commands, unless the call waits for what the time-out does not reach.
CallsEnd == \A c \in Callers : InFlight(c) ~> ~InFlight(c) \/ Waits(c)

\* KeepsPromise: the backend is a resource.  It ends by Close only, and
\* Close returns to nobody before that.  Its Err comes and goes and is left
\* out.
Promise ==
  INSTANCE Resource WITH
    failed  <- FALSE,
    calling <- {c \in Callers : call[c].op = "close" /\ InFlight(c)},
    closed  <- \E c \in Callers : call[c].at = "closed"

KeepsPromise == Promise!Spec

==============================================================================
