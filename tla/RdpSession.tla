------------------------------ MODULE RdpSession ------------------------------
(***************************************************************************)
(* The RDP session (src/internal/freerdp/client.go) and the buffer of its  *)
(* C bridge (client_bridge.c): StartSession tries one graphics mode after  *)
(* the other, each with a session of its own; run drives FreeRDP until the *)
(* connection ends; Status, Screenshot and Close come from any goroutine.  *)
(*                                                                         *)
(* FreeRDP's GDI buffer belongs to run's thread.  snapshot_update copies   *)
(* it into the snapshot under snapshot_mutex, but reads its size before    *)
(* and without a lock, also from the goroutines that call Status and       *)
(* Screenshot.  A copy made with a size that is no longer GDI's is "torn": *)
(* its pixels and dimensions are whatever the race leaves.                 *)
(*                                                                         *)
(* A size stands for width, height and stride together, and larger sizes   *)
(* need larger buffers.  FreeRDP is external: it connects, paints, resizes *)
(* and disconnects as it likes, and an abort makes it give up, also when   *)
(* it has not begun to connect.  Memory does not run out.                  *)
(***************************************************************************)
EXTENDS Naturals

CONSTANTS
  Attempts,   \* how many modes startupGraphicsModes answers
  BlankLimit, \* blankSnapshotLimit
  Sizes,      \* sizes of the remote desktop
  Callers,    \* goroutines that use the session StartSession returns
  Calls,      \* what each of them calls: "status", "shot", "close"
  Starter     \* the goroutine in StartSession

ASSUME AttemptAssumption == Attempts \in Nat \ {0} /\ BlankLimit \in Nat \ {0}
ASSUME SizeAssumption == Sizes # {} /\ Sizes \subseteq Nat \ {0}
ASSUME StarterAssumption == Starter \notin Callers
ASSUME CallAssumption == Calls \in [Callers -> SUBSET {"status", "shot", "close"}]

Threads == Callers \cup {Starter}
Looks == {"blank", "drawn"}

VARIABLES
  client,   \* per attempt, the C client: "none", "live", "freed"
  ptr,      \* s.client is not nil
  once,     \* closeOnce: "fresh", "busy", "spent"
  run,      \* where the goroutine in run stands; "ended" when done is closed
  broke,    \* gofreerdp_run_persistent has failed, until run notes it
  failed,   \* runErr is not nil
  aborted,  \* gofreerdp_abort has been called
  gdi,      \* FreeRDP's buffer: its size (0: there is none) and its look
  snapshot, \* the bridge's copy; size 0 when it is not ready
  start,    \* StartSession: where it stands, the attempt, blank pictures seen
  thread    \* the call each goroutine is in

lifeVars  == <<client, ptr, once, aborted>>
runVars   == <<run, broke, failed>>
frameVars == <<gdi, snapshot>>
vars == <<lifeVars, runVars, frameVars, start, thread>>

NoGdi == [size |-> 0, look |-> "blank"]
NoSnapshot == [size |-> 0, dims |-> 0, look |-> "blank", torn |-> FALSE]
Idle == [at |-> "idle", op |-> "none", read |-> 0, buf |-> 0,
         image |-> NoSnapshot, answer |-> "none"]

Call(op) == [Idle EXCEPT !.op = op, !.at = IF op = "close" THEN "enter" ELSE "get"]

Snapshot(size, dims, look) ==
  [size |-> size, dims |-> dims, look |-> look, torn |-> size # dims]

------------------------------------------------------------------------------
(* run, of the session of attempt a, and FreeRDP under it *)

\* getClient, and gofreerdp_start_client, which may fail.
RunBegin(a, starts) ==
  /\ run[a] = "new"
  /\ run' = [run EXCEPT ![a] = IF starts THEN "connecting" ELSE "unwound"]
  /\ broke' = [broke EXCEPT ![a] = ~starts]
  /\ UNCHANGED <<failed, lifeVars, frameVars, start, thread>>

\* freerdp_connect succeeds: gofreerdp_post_connect makes the buffer.
Connect(a, size, look) ==
  /\ run[a] = "connecting"
  /\ ~aborted[a]
  /\ run' = [run EXCEPT ![a] = "on"]
  /\ gdi' = [gdi EXCEPT ![a] = [size |-> size, look |-> look]]
  /\ snapshot' = [snapshot EXCEPT ![a] = NoSnapshot]
  /\ UNCHANGED <<broke, failed, lifeVars, start, thread>>

ConnectFails(a) ==
  /\ run[a] = "connecting"
  /\ run' = [run EXCEPT ![a] = "unwound"]
  /\ broke' = [broke EXCEPT ![a] = TRUE]
  /\ UNCHANGED <<failed, lifeVars, frameVars, start, thread>>

\* gofreerdp_end_paint
Paint(a, look) ==
  /\ run[a] = "on"
  /\ ~aborted[a]
  /\ gdi' = [gdi EXCEPT ![a].look = look]
  /\ snapshot' = [snapshot EXCEPT ![a] = Snapshot(gdi[a].size, gdi[a].size, look)]
  /\ UNCHANGED <<lifeVars, runVars, start, thread>>

\* gofreerdp_desktop_resize: first the buffer, then the snapshot.
Resize(a, size) ==
  /\ run[a] = "on"
  /\ ~aborted[a]
  /\ size # gdi[a].size
  /\ run' = [run EXCEPT ![a] = "resizing"]
  /\ gdi' = [gdi EXCEPT ![a].size = size]
  /\ UNCHANGED <<broke, failed, snapshot, lifeVars, start, thread>>

\* Fault: the snapshot is kept.
ResizedKept(a) ==
  /\ run[a] = "resizing"
  /\ run' = [run EXCEPT ![a] = "on"]
  /\ UNCHANGED <<broke, failed, frameVars, lifeVars, start, thread>>

Resized(a) ==
  /\ run[a] = "resizing"
  /\ run' = [run EXCEPT ![a] = "on"]
  /\ snapshot' = [snapshot EXCEPT ![a] = NoSnapshot]
  /\ UNCHANGED <<broke, failed, gdi, lifeVars, start, thread>>

\* The event loop is left, after an error or because FreeRDP wants to
\* disconnect, and gofreerdp_post_disconnect frees the buffer.
Drop(a, breaks) ==
  /\ run[a] = "on" \/ (run[a] = "resizing" /\ breaks)
  /\ run' = [run EXCEPT ![a] = "leaving"]
  /\ broke' = [broke EXCEPT ![a] = breaks]
  /\ gdi' = [gdi EXCEPT ![a] = NoGdi]
  /\ UNCHANGED <<failed, snapshot, lifeVars, start, thread>>

\* gofreerdp_post_disconnect: the snapshot goes too.
Unwind(a) ==
  /\ run[a] = "leaving"
  /\ run' = [run EXCEPT ![a] = "unwound"]
  /\ snapshot' = [snapshot EXCEPT ![a] = NoSnapshot]
  /\ UNCHANGED <<broke, failed, gdi, lifeVars, start, thread>>

RunSetErr(a) ==
  /\ run[a] = "unwound"
  /\ run' = [run EXCEPT ![a] = "noted"]
  /\ failed' = [failed EXCEPT ![a] = broke[a]]
  /\ broke' = [broke EXCEPT ![a] = FALSE]
  /\ UNCHANGED <<lifeVars, frameVars, start, thread>>

RunDone(a) ==
  /\ run[a] = "noted"
  /\ run' = [run EXCEPT ![a] = "ended"]
  /\ UNCHANGED <<broke, failed, lifeVars, frameVars, start, thread>>

------------------------------------------------------------------------------
(* Status and Screenshot, called by goroutine t: both begin with           *)
(* gofreerdp_snapshot_size, and gofreerdp_copy_snapshot follows in         *)
(* Screenshot                                                              *)

\* The session that is used: one at a time.
Current == start.attempt

Goto(t, at) == thread' = [thread EXCEPT ![t].at = at]

Answer(t, answer) ==
  thread' = [thread EXCEPT ![t] =
    IF t = Starter THEN [Idle EXCEPT !.answer = answer] ELSE Idle]

GetClient(t) ==
  /\ thread[t].at = "get"
  /\ IF ptr[Current] THEN Goto(t, "look") ELSE Answer(t, "error")
  /\ UNCHANGED <<lifeVars, runVars, frameVars, start>>

\* Using a client that has been freed has no meaning; nothing is said of the
\* goroutine from there on.
Wild(t) ==
  /\ thread[t].at \in {"look", "fill", "read", "look2", "fill2", "copy"}
  /\ client[Current] = "freed"
  /\ Goto(t, "wild")
  /\ UNCHANGED <<lifeVars, runVars, frameVars, start>>

\* gofreerdp_snapshot_update reads GDI's size, without a lock.
Look(t) ==
  /\ thread[t].at \in {"look", "look2"}
  /\ client[Current] = "live"
  /\ LET first == thread[t].at = "look" IN
     IF gdi[Current].size = 0
     THEN Goto(t, IF first THEN "read" ELSE "copy")
     ELSE thread' = [thread EXCEPT ![t].at = IF first THEN "fill" ELSE "fill2",
                                   ![t].read = gdi[Current].size]
  /\ UNCHANGED <<lifeVars, runVars, frameVars, start>>

\* It copies with that size under snapshot_mutex, and takes the dimensions
\* from GDI; both are anything when GDI has gone.
Fill(t, dims, look) ==
  /\ thread[t].at \in {"fill", "fill2"}
  /\ client[Current] = "live"
  /\ gdi[Current].size # 0 => dims = gdi[Current].size
  /\ thread[t].read = gdi[Current].size => look = gdi[Current].look
  /\ LET torn == thread[t].read # gdi[Current].size IN
     snapshot' = [snapshot EXCEPT ![Current] =
       [size |-> thread[t].read, dims |-> dims, look |-> look, torn |-> torn]]
  /\ thread' = [thread EXCEPT ![t].at = IF @ = "fill" THEN "read" ELSE "copy",
                              ![t].read = 0]
  /\ UNCHANGED <<lifeVars, runVars, gdi, start>>

\* gofreerdp_snapshot_size answers; Screenshot makes a buffer of that size.
ReadSize(t) ==
  /\ thread[t].at = "read"
  /\ client[Current] = "live"
  /\ IF thread[t].op = "status"
     THEN Answer(t, IF snapshot[Current].size > 0 THEN "ready" ELSE "not ready")
     ELSE IF snapshot[Current].size = 0
     THEN Answer(t, "error")
     ELSE thread' = [thread EXCEPT ![t].at = "look2", ![t].buf = snapshot[Current].size]
  /\ UNCHANGED <<lifeVars, runVars, frameVars, start>>

\* gofreerdp_copy_snapshot, under snapshot_mutex.
Copy(t) ==
  /\ thread[t].at = "copy"
  /\ client[Current] = "live"
  /\ IF snapshot[Current].size = 0 \/ thread[t].buf < snapshot[Current].size
     THEN Answer(t, "error")
     ELSE thread' = [thread EXCEPT ![t].at = "image", ![t].image = snapshot[Current]]
  /\ UNCHANGED <<lifeVars, runVars, frameVars, start>>

\* Screenshot turns the buffer into an image and returns it.
Shot(t) ==
  /\ thread[t].at = "image"
  /\ Answer(t, thread[t].image.look)
  /\ UNCHANGED <<lifeVars, runVars, frameVars, start>>

------------------------------------------------------------------------------
(* Close *)

\* Fault: only the first caller waits.
EnterFlag(t) ==
  /\ thread[t].at = "enter"
  /\ once' = [once EXCEPT ![Current] = IF @ = "fresh" THEN "busy" ELSE @]
  /\ Goto(t, IF once[Current] = "fresh" THEN "abort" ELSE "leave")
  /\ UNCHANGED <<client, ptr, aborted, runVars, frameVars, start>>

\* closeOnce.Do
Enter(t) ==
  /\ thread[t].at = "enter"
  /\ once[Current] # "busy"
  /\ once' = [once EXCEPT ![Current] = IF @ = "fresh" THEN "busy" ELSE @]
  /\ Goto(t, IF once[Current] = "fresh" THEN "abort" ELSE "leave")
  /\ UNCHANGED <<client, ptr, aborted, runVars, frameVars, start>>

\* Fault: the session is left to end by itself.
AbortNot(t) ==
  /\ thread[t].at = "abort"
  /\ Goto(t, "wait")
  /\ UNCHANGED <<lifeVars, runVars, frameVars, start>>

Abort(t) ==
  /\ thread[t].at = "abort"
  /\ aborted' = [aborted EXCEPT ![Current] = TRUE]
  /\ Goto(t, "wait")
  /\ UNCHANGED <<client, ptr, once, runVars, frameVars, start>>

\* Fault: the client is freed first and the pointer cleared after it.
ClearLate(t) ==
  /\ thread[t].at = "wait"
  /\ run[Current] = "ended"
  /\ client' = [client EXCEPT ![Current] = "freed"]
  /\ Goto(t, "free")
  /\ UNCHANGED <<ptr, once, aborted, runVars, frameVars, start>>

\* <-s.done, then clearClient.
Clear(t) ==
  /\ thread[t].at = "wait"
  /\ run[Current] = "ended"
  /\ ptr' = [ptr EXCEPT ![Current] = FALSE]
  /\ Goto(t, "free")
  /\ UNCHANGED <<client, once, aborted, runVars, frameVars, start>>

\* gofreerdp_client_free_instance, and closeOnce lets the others in.
Free(t) ==
  /\ thread[t].at = "free"
  /\ client' = [client EXCEPT ![Current] = "freed"]
  /\ ptr' = [ptr EXCEPT ![Current] = FALSE]
  /\ snapshot' = [snapshot EXCEPT ![Current] = NoSnapshot]
  /\ once' = [once EXCEPT ![Current] = "spent"]
  /\ Goto(t, "leave")
  /\ UNCHANGED <<aborted, runVars, gdi, start>>

\* Close answers Err.  A caller closes once.
Leave(t) ==
  /\ thread[t].at = "leave"
  /\ IF t = Starter THEN Answer(t, "closed") ELSE Goto(t, "gone")
  /\ UNCHANGED <<lifeVars, runVars, frameVars, start>>

\* A goroutine calls the session that StartSession has returned.
Begin(t, op) ==
  /\ op \in Calls[t]
  /\ start.at = "returned"
  /\ thread[t].at = "idle"
  /\ thread' = [thread EXCEPT ![t] = Call(op)]
  /\ UNCHANGED <<lifeVars, runVars, frameVars, start>>

InCall(t) ==
  \/ GetClient(t) \/ Wild(t) \/ Look(t)
  \/ \E dims \in Sizes, look \in Looks : Fill(t, dims, look)
  \/ ReadSize(t) \/ Copy(t) \/ Shot(t)
  \/ Enter(t) \/ Abort(t) \/ Clear(t) \/ Free(t) \/ Leave(t)

------------------------------------------------------------------------------
(* StartSession and waitForUsableStartupSnapshot *)

Last == start.attempt = Attempts

\* startSessionOnce: without a client the next mode is tried.
TryFails ==
  /\ start.at = "try"
  /\ start' = IF Last THEN [start EXCEPT !.at = "failed"]
                      ELSE [start EXCEPT !.attempt = @ + 1]
  /\ UNCHANGED <<lifeVars, runVars, frameVars, thread>>

\* The session of the last mode is returned as it is.
Try ==
  /\ start.at = "try"
  /\ client' = [client EXCEPT ![Current] = "live"]
  /\ ptr' = [ptr EXCEPT ![Current] = TRUE]
  /\ run' = [run EXCEPT ![Current] = "new"]
  /\ start' = [start EXCEPT !.at = IF Last THEN "returned" ELSE "poll", !.blanks = 0]
  /\ UNCHANGED <<once, aborted, broke, failed, frameVars, thread>>

Ask(op, at) ==
  /\ start' = [start EXCEPT !.at = at]
  /\ thread' = [thread EXCEPT ![Starter] = Call(op)]

\* The three cases of the select.
SelectDone ==
  /\ start.at = "poll"
  /\ run[Current] = "ended"
  /\ Ask("close", "closing")
  /\ UNCHANGED <<lifeVars, runVars, frameVars>>

\* The deadline: the status is asked for the error message.
SelectDeadline ==
  /\ start.at = "poll"
  /\ Ask("status", "late")
  /\ UNCHANGED <<lifeVars, runVars, frameVars>>

SelectTick ==
  /\ start.at = "poll"
  /\ Ask("status", "asked")
  /\ UNCHANGED <<lifeVars, runVars, frameVars>>

Answered == thread[Starter].at = "idle"

\* What the starter makes of the status and of the picture.
NotYet ==
  /\ start.at = "asked"
  /\ Answered
  /\ thread[Starter].answer \in {"not ready", "error"}
  /\ start' = [start EXCEPT !.at = "poll"]
  /\ thread' = [thread EXCEPT ![Starter] = Idle]
  /\ UNCHANGED <<lifeVars, runVars, frameVars>>

Ready ==
  /\ start.at = "asked"
  /\ Answered
  /\ thread[Starter].answer = "ready"
  /\ Ask("shot", "asked")
  /\ UNCHANGED <<lifeVars, runVars, frameVars>>

\* Fault: the blank pictures are counted but never too many.
BlankOnce ==
  /\ start.at = "asked"
  /\ Answered
  /\ thread[Starter].answer = "blank"
  /\ start' = [start EXCEPT !.at = "poll", !.blanks = @ + 1]
  /\ thread' = [thread EXCEPT ![Starter] = Idle]
  /\ UNCHANGED <<lifeVars, runVars, frameVars>>

Blank ==
  /\ start.at = "asked"
  /\ Answered
  /\ thread[Starter].answer = "blank"
  /\ LET last == start.blanks + 1 >= BlankLimit IN
     /\ start' = [start EXCEPT !.at = IF last THEN "closing" ELSE "poll",
                               !.blanks = @ + 1]
     /\ thread' = [thread EXCEPT ![Starter] = IF last THEN Call("close") ELSE Idle]
  /\ UNCHANGED <<lifeVars, runVars, frameVars>>

Usable ==
  /\ start.at = "asked"
  /\ Answered
  /\ thread[Starter].answer = "drawn"
  /\ start' = [start EXCEPT !.at = "returned"]
  /\ thread' = [thread EXCEPT ![Starter] = Idle]
  /\ UNCHANGED <<lifeVars, runVars, frameVars>>

TooLate ==
  /\ start.at = "late"
  /\ Answered
  /\ Ask("close", "closing")
  /\ UNCHANGED <<lifeVars, runVars, frameVars>>

\* The session of this mode is closed and nobody has it any more; the next
\* mode.
NextMode ==
  /\ start.at = "closing"
  /\ Answered
  /\ start' = [start EXCEPT !.at = "try", !.attempt = @ + 1, !.blanks = 0]
  /\ thread' = [thread EXCEPT ![Starter] = Idle]
  /\ failed' = [failed EXCEPT ![Current] = FALSE]
  /\ aborted' = [aborted EXCEPT ![Current] = FALSE]
  /\ UNCHANGED <<client, ptr, once, run, broke, frameVars>>

StartStep ==
  \/ TryFails \/ Try \/ SelectDone \/ SelectTick
  \/ NotYet \/ Ready \/ Blank \/ Usable \/ TooLate \/ NextMode

------------------------------------------------------------------------------
Init ==
  /\ client = [a \in 1..Attempts |-> "none"]
  /\ ptr = [a \in 1..Attempts |-> FALSE]
  /\ once = [a \in 1..Attempts |-> "fresh"]
  /\ run = [a \in 1..Attempts |-> "none"]
  /\ broke = [a \in 1..Attempts |-> FALSE]
  /\ failed = [a \in 1..Attempts |-> FALSE]
  /\ aborted = [a \in 1..Attempts |-> FALSE]
  /\ gdi = [a \in 1..Attempts |-> NoGdi]
  /\ snapshot = [a \in 1..Attempts |-> NoSnapshot]
  /\ start = [at |-> "try", attempt |-> 1, blanks |-> 0]
  /\ thread = [t \in Threads |-> Idle]

RunStep(a) == Resized(a) \/ Unwind(a) \/ RunSetErr(a) \/ RunDone(a)

Next ==
  \/ StartStep \/ SelectDeadline
  \/ \E t \in Threads : InCall(t)
  \/ \E t \in Callers, op \in {"status", "shot", "close"} : Begin(t, op)
  \/ \E a \in 1..Attempts :
       \/ RunStep(a) \/ ConnectFails(a)
       \/ \E x \in BOOLEAN : RunBegin(a, x) \/ Drop(a, x)
       \/ \E size \in Sizes : Resize(a, size)
       \/ \E look \in Looks : Paint(a, look)
       \/ \E size \in Sizes, look \in Looks : Connect(a, size, look)

\* Goroutines are scheduled and C calls return; a session that has been
\* aborted gives up.  The deadline's channel stays ready once it has fired
\* and select chooses among ready channels at random.  The server owes
\* nothing.
Fairness ==
  /\ WF_vars(StartStep)
  /\ SF_vars(SelectDeadline)
  /\ \A t \in Threads : WF_vars(InCall(t))
  /\ \A a \in 1..Attempts :
       /\ WF_vars(RunStep(a) \/ \E x \in BOOLEAN : RunBegin(a, x))
       /\ WF_vars(aborted[a] /\ (ConnectFails(a) \/ \E x \in BOOLEAN : Drop(a, x)))

Spec == Init /\ [][Next]_vars /\ Fairness

------------------------------------------------------------------------------
(* Properties *)

\* The values the variables take.
TypeOK ==
  /\ client \in [1..Attempts -> {"none", "live", "freed"}]
  /\ ptr \in [1..Attempts -> BOOLEAN]
  /\ once \in [1..Attempts -> {"fresh", "busy", "spent"}]
  /\ run \in [1..Attempts -> {"none", "new", "connecting", "on", "resizing",
                              "leaving", "unwound", "noted", "ended"}]
  /\ broke \in [1..Attempts -> BOOLEAN]
  /\ failed \in [1..Attempts -> BOOLEAN]
  /\ aborted \in [1..Attempts -> BOOLEAN]
  /\ gdi \in [1..Attempts -> [size : Sizes \cup {0}, look : Looks]]
  /\ LET Images == [size : Sizes \cup {0}, dims : Sizes \cup {0}, look : Looks, torn : BOOLEAN] IN
     /\ snapshot \in [1..Attempts -> Images]
     /\ thread \in [Threads ->
          [at : {"idle", "get", "look", "fill", "read", "look2", "fill2", "copy", "image",
                 "wild", "enter", "abort", "wait", "free", "leave", "gone"},
           op : {"none", "status", "shot", "close"},
           read : Sizes \cup {0}, buf : Sizes \cup {0}, image : Images,
           answer : {"none", "ready", "not ready", "blank", "drawn", "error", "closed"}]]
  /\ start \in [at : {"try", "poll", "asked", "late", "closing", "returned", "failed"},
                attempt : 1..Attempts, blanks : 0..BlankLimit]

\* AttemptsClosed: a mode StartSession has gone past leaves nothing behind,
\* neither a connection nor a client, so that there is never more than one
\* connection to the server (client.go, 123-149).
AttemptsClosed ==
  \A a \in 1..Attempts :
    a < start.attempt => run[a] \in {"none", "ended"} /\ client[a] # "live"

\* FreedUnused: the client is not freed under run, no call gets hold of it
\* after it has been freed, and StartSession's own calls never use a freed
\* one (client.go, 534-565).
FreedUnused ==
  /\ \A a \in 1..Attempts : client[a] = "freed" => run[a] = "ended" /\ ~ptr[a]
  /\ thread[Starter].at # "wild"

\* ClientsHandedBack: a client is freed when nothing is left that uses it,
\* and one that StartSession goes past is freed.
ClientsHandedBack == AttemptsClosed /\ FreedUnused

\* ImageWhole: although the size of a screenshot and its pixels are read in
\* two critical sections, with resizes and other updates in between, the
\* image has as many pixels as its dimensions say and they fit the buffer,
\* unless its snapshot was torn (client.go, 200-244; client_bridge.c, 48-75,
\* 587-645).
ImageWhole ==
  \A t \in Threads :
    LET image == thread[t].image IN
    thread[t].at = "image" /\ ~image.torn
      => image.dims = image.size /\ image.dims <= thread[t].buf

\* SnapshotCurrent: outside a resize or a disconnection, a snapshot that is
\* ready and not torn has the size of the desktop as it is now, and there is
\* none after the connection has ended.
SnapshotCurrent ==
  \A a \in 1..Attempts :
    snapshot[a].size > 0 /\ ~snapshot[a].torn /\ run[a] \notin {"resizing", "leaving"}
      => snapshot[a].size = gdi[a].size

\* PictureHonest: what a screenshot returns is one picture of the desktop as
\* it is, or was when it was read.
PictureHonest == ImageWhole /\ SnapshotCurrent

\* StartAnswers: StartSession returns, whatever the server does.
StartAnswers == <>(start.at \in {"returned", "failed"})

\* KeepsPromise: the session that StartSession returns is a resource.  Its
\* end and error are final, and Close returns to everyone, but to nobody
\* before run has ended.
Returned == start.at = "returned"

Promise ==
  INSTANCE Resource WITH
    done    <- Returned /\ run[Current] = "ended",
    failed  <- Returned /\ failed[Current],
    calling <- {c \in Callers : thread[c].op = "close" /\ thread[c].at # "gone"},
    closed  <- \E c \in Callers : thread[c].at = "gone"

KeepsPromise == Promise!Spec

==============================================================================
