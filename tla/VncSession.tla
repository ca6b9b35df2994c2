------------------------------ MODULE VncSession ------------------------------
(***************************************************************************)
(* The VNC session (src/internal/vnc/client.go, client_bridge.c): one      *)
(* goroutine requests frames and reads the server's messages, and copies   *)
(* each frame it is called back with; input calls send their events with   *)
(* inputMu held, which a frame request takes as well; Close shuts the      *)
(* socket under both of them, waits for the goroutine and frees the        *)
(* client.                                                                 *)
(*                                                                         *)
(* LibVNCClient and the server are external: a send or a read may fail at  *)
(* any time, and once the socket is shut every send fails and reading soon *)
(* does.                                                                   *)
(***************************************************************************)
EXTENDS Naturals

CONSTANTS
  Callers,   \* goroutines that use the session
  Free,      \* nobody holds inputMu
  Runner,    \* the goroutine in run, when it holds inputMu
  MaxEvents  \* bound: events that one input call sends

ASSUME CallerAssumption == Callers \cap {Free, Runner} = {} /\ Free # Runner
ASSUME EventAssumption == MaxEvents \in Nat \ {0}

VARIABLES
  client,  \* the rfbClient: "none", "live", "freed"
  handle,  \* the handle that callbacks find the session with is valid
  shut,    \* Close has shut the socket
  run,     \* where run stands; "ended" when done is closed
  failed,  \* runErr is not nil
  status,  \* connected, ready and state
  inputMu, \* who holds it
  once,    \* closeOnce: "fresh", "busy", "spent"
  caller   \* the call each goroutine is in, and the events it has to send

lifeVars == <<client, handle, shut, once>>
runVars  == <<run, failed, status>>
vars == <<lifeVars, runVars, inputMu, caller>>

Idle == [at |-> "idle", left |-> 0]
Goto(c, at) == caller' = [caller EXCEPT ![c].at = at]

------------------------------------------------------------------------------
(* StartSession *)

Start(connects) ==
  /\ run = "none"
  /\ handle
  /\ IF connects
     THEN /\ client' = "live"
          /\ run' = "select"
          /\ status' = [status EXCEPT !.state = "CONNECTED"]
          /\ UNCHANGED handle
     ELSE /\ handle' = FALSE
          /\ UNCHANGED <<client, run, status>>
  /\ UNCHANGED <<shut, once, failed, inputMu, caller>>

------------------------------------------------------------------------------
(* run *)

Goes(at) ==
  /\ run' = at
  /\ UNCHANGED <<failed, status, lifeVars, inputMu, caller>>

\* The ticker: requestFrame waits for inputMu.
Tick == run = "select" /\ Goes("request")

\* It sends the request with inputMu held.
RequestLock ==
  /\ run = "request"
  /\ inputMu = Free
  /\ inputMu' = Runner
  /\ run' = "requesting"
  /\ UNCHANGED <<failed, status, lifeVars, caller>>

Request(sent) ==
  /\ run = "requesting"
  /\ sent => ~shut
  /\ inputMu' = Free
  /\ run' = IF sent THEN "select" ELSE "broken"
  /\ UNCHANGED <<failed, status, lifeVars, caller>>

\* govnc_wait_for_message, also when no message has come.
Wait(well) == run = "select" /\ Goes(IF well THEN "handle" ELSE "broken")

\* goVNCFramebuffer, updateFramebuffer: once for every rectangle.
Frame ==
  /\ run = "handle"
  /\ status' = [status EXCEPT !.ready = TRUE, !.state = "ACTIVE"]
  /\ UNCHANGED <<run, failed, lifeVars, inputMu, caller>>

\* govnc_handle_server_message
Handle(well) == run = "handle" /\ Goes(IF well THEN "select" ELSE "broken")

\* setErr
RunSetErr ==
  /\ run = "broken"
  /\ run' = "noted"
  /\ failed' = TRUE
  /\ UNCHANGED <<status, lifeVars, inputMu, caller>>

\* Fault: the last frame's state is kept.
DisconnectKeeps ==
  /\ run = "noted"
  /\ run' = "leaving"
  /\ status' = [status EXCEPT !.connected = FALSE]
  /\ UNCHANGED <<failed, lifeVars, inputMu, caller>>

\* setDisconnected: ready stays, and the last frame with it.
Disconnect ==
  /\ run = "noted"
  /\ run' = "leaving"
  /\ status' = [status EXCEPT !.connected = FALSE,
                              !.state = IF failed THEN "ERROR" ELSE "CLOSED"]
  /\ UNCHANGED <<failed, lifeVars, inputMu, caller>>

RunDone == run = "leaving" /\ Goes("ended")

------------------------------------------------------------------------------
(* Input: a pointer or key event, a wheel event and its release, the two   *)
(* events of each character of a text                                      *)

Input(c, events) ==
  /\ client # "none"
  /\ caller[c].at = "idle"
  /\ caller' = [caller EXCEPT ![c] = [at |-> "lock", left |-> events]]
  /\ UNCHANGED <<lifeVars, runVars, inputMu>>

Lock(c) ==
  /\ caller[c].at = "lock"
  /\ inputMu = Free
  /\ inputMu' = c
  /\ Goto(c, "send")
  /\ UNCHANGED <<lifeVars, runVars>>

\* Fault: inputMu stays locked after an error.
SendLocked(c, sent) ==
  /\ caller[c].at = "send"
  /\ client = "live"
  /\ sent => ~shut
  /\ IF sent /\ caller[c].left > 1
     THEN /\ caller' = [caller EXCEPT ![c].left = @ - 1]
          /\ UNCHANGED inputMu
     ELSE /\ caller' = [caller EXCEPT ![c] = Idle]
          /\ inputMu' = IF sent THEN Free ELSE inputMu
  /\ UNCHANGED <<lifeVars, runVars>>

\* The next event; after the last one, or an error, inputMu is unlocked.
Send(c, sent) ==
  /\ caller[c].at = "send"
  /\ client = "live"
  /\ sent => ~shut
  /\ IF sent /\ caller[c].left > 1
     THEN /\ caller' = [caller EXCEPT ![c].left = @ - 1]
          /\ UNCHANGED inputMu
     ELSE /\ caller' = [caller EXCEPT ![c] = Idle]
          /\ inputMu' = Free
  /\ UNCHANGED <<lifeVars, runVars>>

\* Sending on a client that has been freed has no meaning; nothing is said of
\* the goroutine from there on.
Wild(c) ==
  /\ caller[c].at = "send"
  /\ client = "freed"
  /\ Goto(c, "wild")
  /\ UNCHANGED <<lifeVars, runVars, inputMu>>

------------------------------------------------------------------------------
(* Close *)

CallClose(c) ==
  /\ client # "none"
  /\ caller[c].at = "idle"
  /\ Goto(c, "enter")
  /\ UNCHANGED <<lifeVars, runVars, inputMu>>

\* closeOnce.Do
Enter(c) ==
  /\ caller[c].at = "enter"
  /\ once # "busy"
  /\ once' = IF once = "fresh" THEN "busy" ELSE once
  /\ Goto(c, IF once = "fresh" THEN "shut" ELSE "leave")
  /\ UNCHANGED <<client, handle, shut, runVars, inputMu>>

\* govnc_close_client
Shut(c) ==
  /\ caller[c].at = "shut"
  /\ shut' = TRUE
  /\ Goto(c, "wait")
  /\ UNCHANGED <<client, handle, once, runVars, inputMu>>

\* Fault: the client is freed as soon as its socket is shut.
CleanHasty(c) ==
  /\ caller[c].at = "wait"
  /\ client' = "freed"
  /\ Goto(c, "delete")
  /\ UNCHANGED <<handle, shut, once, runVars, inputMu>>

\* <-s.done, govnc_cleanup_client
Clean(c) ==
  /\ caller[c].at = "wait"
  /\ run = "ended"
  /\ client' = "freed"
  /\ Goto(c, "delete")
  /\ UNCHANGED <<handle, shut, once, runVars, inputMu>>

\* handle.Delete, and closeOnce lets the others in.
Delete(c) ==
  /\ caller[c].at = "delete"
  /\ handle' = FALSE
  /\ once' = "spent"
  /\ Goto(c, "leave")
  /\ UNCHANGED <<client, shut, runVars, inputMu>>

\* A caller closes once.
Leave(c) ==
  /\ caller[c].at = "leave"
  /\ Goto(c, "gone")
  /\ UNCHANGED <<lifeVars, runVars, inputMu>>

------------------------------------------------------------------------------
Init ==
  /\ client = "none"
  /\ handle = TRUE
  /\ shut = FALSE
  /\ run = "none"
  /\ failed = FALSE
  /\ status = [connected |-> TRUE, ready |-> FALSE, state |-> "CONNECTING"]
  /\ inputMu = Free
  /\ once = "fresh"
  /\ caller = [c \in Callers |-> Idle]

InCall(c) ==
  \/ Wild(c) \/ Enter(c) \/ Shut(c) \/ Clean(c) \/ Delete(c) \/ Leave(c)
  \/ \E sent \in BOOLEAN : Send(c, sent)

RunStep ==
  \/ RunSetErr \/ Disconnect \/ RunDone
  \/ \E sent \in BOOLEAN : Request(sent)

Next ==
  \/ RunStep \/ Tick \/ RequestLock \/ Frame
  \/ \E ok \in BOOLEAN : Start(ok) \/ Wait(ok) \/ Handle(ok)
  \/ \E c \in Callers :
       \/ InCall(c) \/ Lock(c) \/ CallClose(c)
       \/ \E events \in 1..MaxEvents : Input(c, events)

\* Goroutines are scheduled, sends return, and sync.Mutex hands itself over
\* to whoever waits long enough.  Once the socket is shut, waiting for
\* messages or reading one fails in the end.
Fairness ==
  /\ WF_vars(RunStep)
  /\ SF_vars(RequestLock)
  /\ SF_vars(shut /\ Wait(FALSE))
  /\ WF_vars(shut /\ Handle(FALSE))
  /\ \A c \in Callers : WF_vars(InCall(c)) /\ SF_vars(Lock(c))

Spec == Init /\ [][Next]_vars /\ Fairness

------------------------------------------------------------------------------
(* Properties *)

\* The values the variables take.
TypeOK ==
  /\ client \in {"none", "live", "freed"}
  /\ handle \in BOOLEAN
  /\ shut \in BOOLEAN
  /\ run \in {"none", "select", "request", "requesting", "handle", "broken",
              "noted", "leaving", "ended"}
  /\ failed \in BOOLEAN
  /\ status \in [connected : BOOLEAN, ready : BOOLEAN,
                 state : {"CONNECTING", "CONNECTED", "ACTIVE", "ERROR", "CLOSED"}]
  /\ inputMu \in Callers \cup {Free, Runner}
  /\ once \in {"fresh", "busy", "spent"}
  /\ caller \in [Callers ->
       [at : {"idle", "lock", "send", "wild", "enter", "shut", "wait", "delete",
              "leave", "gone"},
        left : 0..MaxEvents]]

\* EndShows: whoever sees the session end finds an error and a status that
\* is neither connected nor still active, also when it was closed while a
\* frame was coming in (client.go, 132-159, 373-400).
EndShows ==
  run = "ended" => failed /\ ~status.connected /\ status.state = "ERROR"

\* RunOutlived: while run can still touch the client, or be called back with
\* the handle, neither is freed, although Close begins at any moment
\* (client.go, 360-371).
RunOutlived ==
  run \notin {"none", "ended"} => client = "live" /\ handle

\* KeepsPromise: the session is a resource.  Its end and error are final;
\* every Close returns, although run may be waiting for inputMu and input
\* calls be in the middle of their events, but not before run has ended.
Promise ==
  INSTANCE Resource WITH
    done    <- run = "ended",
    calling <- {c \in Callers :
                  caller[c].at \in {"enter", "shut", "wait", "delete", "leave"}},
    closed  <- \E c \in Callers : caller[c].at = "gone"

KeepsPromise == Promise!Spec

==============================================================================
