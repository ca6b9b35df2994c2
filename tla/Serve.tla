-------------------------------- MODULE Serve ---------------------------------
(***************************************************************************)
(* The life of a process (src/internal/servercmd): start the backends,     *)
(* make the composite of them, serve requests until something ends the     *)
(* process, stop serving, close the composite.                             *)
(*                                                                         *)
(* Three commands do so, each with its own idea of what ends it:           *)
(*   serve   an HTTP server; Shutdown waits for handlers, five seconds at  *)
(*           most (command.go, 813-871)                                    *)
(*   mount   a FUSE server; Unmount refuses while the filesystem is in use *)
(*           (mount_linux.go, 52-92)                                       *)
(*   mcp     MCP over stdin and stdout, which goes on when the backends    *)
(*           have ended (command.go, 873-885)                              *)
(* The HTTP, FUSE and MCP servers are libraries: here is what the code     *)
(* relies on.                                                              *)
(***************************************************************************)
EXTENDS Composite

CONSTANTS
  Modes,    \* the commands to look at
  Requests, \* requests that may come in
  Main      \* the goroutine that closes the composite

ASSUME ModeAssumption == Modes \subseteq {"serve", "mount", "mcp"}
ASSUME MainAssumption == Callers = {Main}
\* An output backend, and an input backend if it is another one.
ASSUME PairAssumption == \A o \in Orders : Len(o) \in {1, 2}

VARIABLES
  mode,      \* the command
  main,      \* where the command stands
  started,   \* parts that have been started
  server,    \* the listening goroutine: "off", "on", "failed", "hungup", "down"
  handler,   \* what becomes of each request
  signalled, \* SIGINT or SIGTERM has arrived
  result,    \* what the command returns
  gaveUp     \* history: serving stopped with requests still in progress

procVars  == <<main, server, result, gaveUp>>
worldVars == <<handler, signalled>>
serveVars == <<mode, started, procVars, worldVars>>
allVars   == <<vars, serveVars>>

Busy == \E r \in Requests : handler[r] = "running"

\* The composite exists.
Made == main \notin {"output", "input", "undo", "failed"}

------------------------------------------------------------------------------
(* startBackends *)

\* The output backend, or the only one when one backend is both.
StartOutput(ok) ==
  /\ main = "output"
  /\ IF ok
     THEN /\ started' = {order[1]}
          /\ main' = IF Len(order) = 1 THEN "open" ELSE "input"
     ELSE main' = "failed" /\ UNCHANGED started
  /\ UNCHANGED <<vars, mode, server, result, gaveUp, worldVars>>

\* Fault: the output backend is forgotten when the input backend fails.
StartInputLeaks(ok) ==
  /\ main = "input"
  /\ IF ok
     THEN started' = started \cup {order[2]} /\ main' = "open"
     ELSE main' = "failed" /\ UNCHANGED started
  /\ UNCHANGED <<vars, mode, server, result, gaveUp, worldVars>>

StartInput(ok) ==
  /\ main = "input"
  /\ IF ok
     THEN started' = started \cup {order[2]} /\ main' = "open"
     ELSE main' = "undo" /\ UNCHANGED started
  /\ UNCHANGED <<vars, mode, server, result, gaveUp, worldVars>>

\* output.Close() when there is no input backend to go with it.
CloseOutput ==
  /\ main = "undo"
  /\ part' = [part EXCEPT ![order[1]] = "ended"]
  /\ partClosed' = [partClosed EXCEPT ![order[1]] = TRUE]
  /\ main' = "failed"
  /\ UNCHANGED <<partErr, innerVars, closeVars, mode, started, server, result,
                 gaveUp, worldVars>>

\* Fault: nothing is returned.
AbortSilent ==
  /\ main = "failed"
  /\ main' = "exited"
  /\ UNCHANGED <<vars, mode, started, server, result, gaveUp, worldVars>>

\* The command returns the error of startBackends.
Abort ==
  /\ main = "failed"
  /\ main' = "exited"
  /\ result' = "error"
  /\ UNCHANGED <<vars, mode, started, server, gaveUp, worldVars>>

------------------------------------------------------------------------------
(* Serving *)

\* The service and its server are set up; a mount may fail.
Open(ok) ==
  /\ main = "open"
  /\ ok \/ mode = "mount"
  /\ IF ok THEN main' = "select" /\ server' = "on" /\ UNCHANGED result
           ELSE main' = "closing" /\ result' = "error" /\ UNCHANGED server
  /\ UNCHANGED <<vars, mode, started, gaveUp, worldVars>>

Arrive(r) ==
  /\ server = "on"
  /\ main # "exited"
  /\ handler[r] = "none"
  /\ handler' = [handler EXCEPT ![r] = "running"]
  /\ UNCHANGED <<vars, mode, started, procVars, signalled>>

Answer(r) ==
  /\ handler[r] = "running"
  /\ main # "exited"
  /\ handler' = [handler EXCEPT ![r] = "answered"]
  /\ UNCHANGED <<vars, mode, started, procVars, signalled>>

Signal ==
  /\ main = "select"
  /\ ~signalled
  /\ signalled' = TRUE
  /\ UNCHANGED <<vars, mode, started, procVars, handler>>

\* ListenAndServe returns by itself: the port is taken, accepting fails.
ListenFails ==
  /\ mode = "serve"
  /\ server = "on"
  /\ server' = "failed"
  /\ UNCHANGED <<vars, mode, started, main, result, gaveUp, worldVars>>

\* Somebody unmounts the filesystem, or the MCP client closes stdin.  The
\* FUSE server's Wait waits for the requests it is working on.
HangUp ==
  /\ mode \in {"mount", "mcp"}
  /\ server = "on"
  /\ mode = "mount" => ~Busy
  /\ server' = "hungup"
  /\ UNCHANGED <<vars, mode, started, main, result, gaveUp, worldVars>>

------------------------------------------------------------------------------
(* The select of runServe and runFuseMount; RunStdio has none for Done *)

\* What RunStdio answers is up to the MCP library.
Answers(answer) == IF mode = "mcp" THEN {"ok", "error"} ELSE {answer}

\* serverErrCh, serverDone, or Run returning: straight to the deferred
\* closeComponent.
SelectServer ==
  /\ main = "select"
  /\ server \in {"failed", "hungup"}
  /\ main' = "closing"
  /\ result' \in Answers(IF server = "failed" THEN "error" ELSE "ok")
  /\ gaveUp' = Busy
  /\ UNCHANGED <<vars, mode, started, server, worldVars>>

SelectSignal ==
  /\ main = "select"
  /\ signalled
  /\ main' = "stopping"
  /\ result' \in Answers("ok")
  /\ UNCHANGED <<vars, mode, started, server, gaveUp, worldVars>>

\* Fault: the reason is not asked for.
SelectEndSilent ==
  /\ main = "select"
  /\ mode # "mcp"
  /\ done
  /\ main' = "stopping"
  /\ result' = "ok"
  /\ UNCHANGED <<vars, mode, started, server, gaveUp, worldVars>>

\* Fault: the command returns at once, without stopping its server.
SelectEndHasty ==
  /\ main = "select"
  /\ mode # "mcp"
  /\ done
  /\ main' = "closing"
  /\ result' = IF Err # {} THEN "error" ELSE "ok"
  /\ UNCHANGED <<vars, mode, started, server, gaveUp, worldVars>>

\* component.Done(): Err is asked for the reason.
SelectEnd ==
  /\ main = "select"
  /\ mode # "mcp"
  /\ done
  /\ main' = "stopping"
  /\ result' = IF Err # {} THEN "error" ELSE "ok"
  /\ UNCHANGED <<vars, mode, started, server, gaveUp, worldVars>>

\* The server takes no more requests once it is told to stop.  Shutdown
\* then waits for the handlers; Unmount succeeds only when nobody is using
\* the filesystem, RunStdio just returns.
StopServing ==
  /\ main = "stopping"
  /\ server # "down"
  /\ \/ mode = "serve"
     \/ mode = "mount" /\ ~Busy
     \/ mode = "mcp"
  /\ server' = "down"
  /\ UNCHANGED <<vars, mode, started, main, result, gaveUp, worldVars>>

Stopped ==
  /\ main = "stopping"
  /\ server = "down"
  /\ mode # "mcp" => ~Busy
  /\ main' = "closing"
  /\ gaveUp' = Busy
  /\ UNCHANGED <<vars, mode, started, server, result, worldVars>>

\* Fault: Shutdown is given no deadline.
NotStoppedEver ==
  /\ main = "stopping"
  /\ mode = "mount"
  /\ Busy
  /\ main' = "closing"
  /\ result' = "error"
  /\ gaveUp' = TRUE
  /\ UNCHANGED <<vars, mode, started, server, worldVars>>

\* The five seconds are over, or Unmount finds the filesystem busy.
NotStopped ==
  /\ main = "stopping"
  /\ Busy
  /\ mode = "serve" => server = "down"
  /\ mode # "mcp"
  /\ main' = "closing"
  /\ result' = "error"
  /\ gaveUp' = TRUE
  /\ UNCHANGED <<vars, mode, started, server, worldVars>>

\* closeComponent.
CloseComponent ==
  /\ main = "closing"
  /\ CallClose(Main)
  /\ UNCHANGED serveVars

Exit ==
  /\ main = "closing"
  /\ caller[Main] = "returned"
  /\ main' = "exited"
  /\ UNCHANGED <<vars, mode, started, server, result, gaveUp, worldVars>>

------------------------------------------------------------------------------
ServeInit ==
  /\ Init
  /\ mode \in Modes
  /\ main = "output"
  /\ started = {}
  /\ server = "off"
  /\ handler = [r \in Requests |-> "none"]
  /\ signalled = FALSE
  /\ result = "none"
  /\ gaveUp = FALSE

\* A started part lives by itself; the composite watches it once it exists.
Backends ==
  /\ main # "exited"
  /\ UNCHANGED serveVars
  /\ \E p \in started :
       PartFails(p) \/ PartRecovers(p) \/ PartEnds(p) \/ (Made /\ Watch(p))

Closing ==
  /\ InClose(Main)
  /\ UNCHANGED serveVars

Command ==
  \/ \E ok \in BOOLEAN : StartOutput(ok) \/ StartInput(ok) \/ Open(ok)
  \/ CloseOutput
  \/ Abort
  \/ SelectServer
  \/ SelectSignal
  \/ SelectEnd
  \/ StopServing
  \/ Stopped
  \/ NotStopped
  \/ CloseComponent
  \/ Closing
  \/ Exit

World ==
  \/ \E r \in Requests : Arrive(r) \/ Answer(r)
  \/ Signal
  \/ ListenFails
  \/ HangUp

ServeNext == (Command \/ Backends \/ World) /\ UNCHANGED order

------------------------------------------------------------------------------
(* Properties *)

\* The values the variables of this module take; a command that is over has
\* returned something.
ServeTypeOK ==
  /\ TypeOK
  /\ mode \in Modes
  /\ main \in {"output", "input", "undo", "failed", "open", "select",
               "stopping", "closing", "exited"}
  /\ started \subseteq Parts
  /\ server \in {"off", "on", "failed", "hungup", "down"}
  /\ handler \in [Requests -> {"none", "running", "answered"}]
  /\ signalled \in BOOLEAN
  /\ result \in {"none", "ok", "error"}
  /\ main = "exited" => result # "none"
  /\ gaveUp \in BOOLEAN

\* NoBackendLeft: on every way out of the process, failed starts included,
\* every backend that was started has been closed, and no other.
NoBackendLeft ==
  main = "exited" => \A p \in Parts : partClosed[p] <=> p \in started

\* ClosedWhileIdle: no backend is closed under a request that is still using
\* it, unless waiting for that request was given up (RDP and VNC sessions
\* free their client in Close).
ClosedWhileIdle ==
  (\E p \in Parts : partClosed[p]) /\ main # "exited" /\ Busy => gaveUp

\* GivingUpShows: a command that gives up on requests returns an error;
\* only the MCP command, whose client has gone, does not.
GivingUpShows == gaveUp /\ mode # "mcp" => result = "error"

\* SuccessExplained: a command succeeds only when it was told to stop, its
\* users went away, or a backend ended without an error.  Any other end of a
\* backend is an error, which is what the service manager restarts on.
SuccessExplained ==
  main \in {"stopping", "closing"} /\ once = "fresh" /\ result = "ok" =>
    signalled \/ server = "hungup" \/ \E p \in Parts : part[p] = "ended" /\ ~partErr[p]

\* ResultHonest: the command's result tells apart an orderly end from one
\* that gave something up or lost a backend.
ResultHonest == GivingUpShows /\ SuccessExplained

\* EndExits: the process does not outlive its backends, even when a request
\* never ends.
EndExits == done /\ mode # "mcp" ~> main = "exited"

==============================================================================
