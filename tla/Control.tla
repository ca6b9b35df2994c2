------------------------------- MODULE Control -------------------------------
(***************************************************************************)
(* The control service (src/internal/control/service.go) as concurrent     *)
(* requests see it.                                                        *)
(*                                                                         *)
(* HTTP handlers, MCP tools and FUSE writes call one shared Service, which *)
(* has no lock of its own: each request runs its gesture as a series of    *)
(* calls on the input backend, and the calls of different requests         *)
(* interleave.  A backend call is atomic (every backend serialises on its  *)
(* own mutex), except that a backend whose button and wheel events carry   *)
(* no coordinate moves the pointer in a critical section of its own first  *)
(* (AtomicButton = FALSE: src/internal/kwineis/backend.go, 238-264).       *)
(*                                                                         *)
(* A call ends in one of four ways: "ok"; "lost", an error and nothing was *)
(* delivered; "late", an error although the event was delivered (a command *)
(* that is killed by its timeout after it acted); "refused", the backend   *)
(* has no such button or key.                                              *)
(***************************************************************************)
EXTENDS Integers, Sequences

CONSTANTS
  Clients,       \* requests that may be in flight at the same time
  Points,        \* coordinates a request may name (output space)
  Spots,         \* coordinates of the input backend
  NoSpot,        \* the answer of MapInputPoint when it returns an error
  MapPoint,      \* what mapInputPoint makes of a point
  Buttons,       \* mouse buttons ParseMouseButtonName knows
  NoButton,      \* a name it does not know
  Left,          \* the button Drag uses
  Keys,          \* keys ParseKeyChord knows
  TypedKeys,     \* keys TypeText presses or releases on its way
  Requests,      \* commands the clients send
  NoRequest,     \* placeholder before the first request
  AtomicButton,  \* button and wheel events carry their coordinate
  Outcomes       \* how a call may end, by what it is about

OutcomeSet == {"ok", "lost", "late", "refused"}

CallKinds == {"move", "wheel", "type"}

Inputs == Buttons \cup Keys

\* The commands of service.go, 43-79.  An unparsable chord is <<>>, and
\* axes lists the non-zero deltas of a scroll in the order they are sent.
ClickCommand    == [kind : {"click"}, button : Buttons \cup {NoButton},
                    at : Points, rounds : {1, 2}]
DragCommand     == [kind : {"drag"}, path : Seq(Points)]
MoveCommand     == [kind : {"move"}, at : Points]
ScrollCommand   == [kind : {"scroll"}, at : Points, axes : Seq({"y", "x"})]
KeypressCommand == [kind : {"keypress"}, chord : Seq(Keys)]
TypeCommand     == [kind : {"type"}, empty : BOOLEAN]
WaitCommand     == [kind : {"wait"}, negative : BOOLEAN]

Commands == ClickCommand \cup DragCommand \cup MoveCommand \cup ScrollCommand
              \cup KeypressCommand \cup TypeCommand \cup WaitCommand

ASSUME SpotAssumption ==
  /\ NoSpot \notin Spots
  /\ MapPoint \in [Points -> Spots \cup {NoSpot}]
ASSUME InputAssumption ==
  /\ Left \in Buttons
  /\ NoButton \notin Buttons
  /\ TypedKeys \subseteq Keys
ASSUME RequestAssumption ==
  /\ Requests \subseteq Commands
  /\ NoRequest \notin Requests
ASSUME OutcomeAssumption ==
  /\ AtomicButton \in BOOLEAN
  /\ Outcomes \in [Inputs \cup CallKinds -> SUBSET OutcomeSet]
  /\ \A x \in Inputs \cup CallKinds : Outcomes[x] # {}

VARIABLES
  pc,       \* the call each client makes next, "idle" between requests
  req,      \* the command each client is executing
  n,        \* its loop variable: clicks done, path index, axis, keys down
  err,      \* releaseErr of releaseKeys is not nil
  aimed,    \* the pointer half of a split button or wheel call is done
  reply,    \* the answer to each client's last request
  held,     \* buttons and keys down on the remote desktop
  pointer,  \* where its pointer is
  failed,   \* history: some call of the current gesture returned an error
  spoilt,   \* history: inputs whose last call failed with them down
  stolen    \* history: owed inputs that another client's call released

clientVars  == <<pc, req, n, err, aimed, reply>>
desktopVars == <<held, pointer>>
historyVars == <<failed, spoilt, stolen>>
vars == <<clientVars, desktopVars, historyVars>>

------------------------------------------------------------------------------
(* What the current request is about *)

Kind(c) == req[c].kind

Button(c) == IF Kind(c) = "click" THEN req[c].button ELSE Left

\* The coordinate of the mouse call client c makes next.  Drag releases its
\* button at the point it has reached, or at the last one.
Target(c) ==
  IF Kind(c) = "drag"
  THEN MapPoint[req[c].path[n[c]]]
  ELSE MapPoint[req[c].at]

\* What client c has pressed and will still release, whatever happens.
Owed(c) ==
  {b \in Buttons : pc[c] \in {"up", "path", "undo"} /\ b = Button(c)}
    \cup {k \in Keys : /\ pc[c] \in {"press", "release", "unwind"}
                       /\ \E i \in 1..n[c] : req[c].chord[i] = k}

Delivered(o) == o \in {"ok", "late"}

------------------------------------------------------------------------------
(* Moving a client along.  An error ends the gesture at once unless the    *)
(* code still has something to release.                                    *)

Goto(c, label, i) ==
  /\ pc' = [pc EXCEPT ![c] = label]
  /\ n' = [n EXCEPT ![c] = i]
  /\ aimed' = [aimed EXCEPT ![c] = FALSE]
  /\ UNCHANGED <<req, reply>>

Finish(c, answer) ==
  /\ pc' = [pc EXCEPT ![c] = "idle"]
  /\ reply' = [reply EXCEPT ![c] = answer]
  /\ req' = [req EXCEPT ![c] = NoRequest]
  /\ n' = [n EXCEPT ![c] = 0]
  /\ aimed' = [aimed EXCEPT ![c] = FALSE]

Note(c, o) == failed' = [failed EXCEPT ![c] = @ \/ o # "ok"]

\* Client c calls the backend to press x (SendMouseButton or SendKey, down).
Press(c, x, o) ==
  /\ held' = IF Delivered(o) THEN held \cup {x} ELSE held
  /\ spoilt' = IF o = "late" THEN spoilt \cup {x} ELSE spoilt
  /\ stolen' = IF o = "ok" THEN [stolen EXCEPT ![c] = @ \ {x}] ELSE stolen

\* The mark that client c's delivered release of the inputs X leaves on the
\* other clients who owe them; c itself no longer does.
Steal(c, X) ==
  stolen' = [d \in Clients |-> IF d = c THEN stolen[d] \ X
                               ELSE stolen[d] \cup (X \cap Owed(d))]

\* Client c calls the backend to release x (SendMouseButton or SendKey, up).
Release(c, x, o) ==
  IF Delivered(o)
  THEN held' = held \ {x} /\ spoilt' = spoilt \ {x} /\ Steal(c, {x})
  ELSE spoilt' = spoilt \cup {x} /\ UNCHANGED <<held, stolen>>

\* A button or wheel event reaches the desktop where it says, or, when it
\* does not say, wherever the pointer happens to be.
Carry(c, o) ==
  pointer' = IF AtomicButton /\ Delivered(o) THEN Target(c) ELSE pointer

------------------------------------------------------------------------------
(* Requests *)

\* The validation at the head of each method, and the mapping of every
\* point, both before the first backend call.
Invalid(r) ==
  \/ r.kind = "click" /\ (r.button = NoButton \/ MapPoint[r.at] = NoSpot)
  \/ r.kind = "drag" /\ \/ Len(r.path) < 2
                        \/ \E i \in 1..Len(r.path) : MapPoint[r.path[i]] = NoSpot
  \/ r.kind = "move" /\ MapPoint[r.at] = NoSpot
  \/ r.kind = "scroll" /\ (r.axes = <<>> \/ MapPoint[r.at] = NoSpot)
  \/ r.kind = "keypress" /\ r.chord = <<>>
  \/ r.kind = "type" /\ r.empty
  \/ r.kind = "wait" /\ r.negative

\* The first call of a valid command.
Entry(r) ==
  CASE r.kind \in {"click", "move", "drag"} -> "move"
    [] r.kind = "scroll"   -> "wheel"
    [] r.kind = "keypress" -> "press"
    [] r.kind = "type"     -> "type"
    [] r.kind = "wait"     -> "wait"

\* A handler parses a request and calls the service.
Accept(c, r) ==
  /\ pc[c] = "idle"
  /\ err' = [err EXCEPT ![c] = FALSE]
  /\ failed' = [failed EXCEPT ![c] = FALSE]
  /\ stolen' = [stolen EXCEPT ![c] = {}]
  /\ IF Invalid(r)
     THEN reply' = [reply EXCEPT ![c] = "rejected"] /\ UNCHANGED <<pc, req, n>>
     ELSE /\ reply' = [reply EXCEPT ![c] = "none"]
          /\ pc' = [pc EXCEPT ![c] = Entry(r)]
          /\ req' = [req EXCEPT ![c] = r]
          /\ n' = [n EXCEPT ![c] = IF r.kind \in {"drag", "scroll"} THEN 1 ELSE 0]
  /\ UNCHANGED <<aimed, held, pointer, spoilt>>

\* Wait sleeps and returns nil.
WaitDone(c) ==
  /\ pc[c] = "wait"
  /\ Finish(c, "ok")
  /\ UNCHANGED <<err, desktopVars, historyVars>>

\* MoveMouse at the start of Click and Drag, or for Move.
MoveCall(c, o) ==
  /\ pc[c] = "move"
  /\ o \in Outcomes["move"]
  /\ pointer' = IF Delivered(o) THEN Target(c) ELSE pointer
  /\ IF o # "ok" THEN Finish(c, "error")
     ELSE IF Kind(c) = "move" THEN Finish(c, "ok")
     ELSE Goto(c, "down", n[c])
  /\ Note(c, o)
  /\ UNCHANGED <<err, held, spoilt, stolen>>

\* The pointer half of SendMouseButton and SendMouseWheel when the event
\* carries no coordinate.  Its failure is the failure of the whole call; a
\* button that was to be released then stays down.
Aim(c, o) ==
  /\ ~AtomicButton
  /\ pc[c] \in {"down", "up", "undo", "wheel"}
  /\ ~aimed[c]
  /\ o \in Outcomes["move"]
  /\ pointer' = IF Delivered(o) THEN Target(c) ELSE pointer
  /\ IF o = "ok"
     THEN aimed' = [aimed EXCEPT ![c] = TRUE] /\ UNCHANGED <<pc, req, n, reply>>
     ELSE Finish(c, "error")
  /\ spoilt' = IF o # "ok" /\ pc[c] \in {"up", "undo"}
               THEN spoilt \cup {Button(c)} ELSE spoilt
  /\ Note(c, o)
  /\ UNCHANGED <<err, held, stolen>>

Ready(c) == AtomicButton \/ aimed[c]

\* SendMouseButton(button, down): Click then sleeps, Drag walks its path.
ButtonDown(c, o) ==
  /\ pc[c] = "down"
  /\ Ready(c)
  /\ o \in Outcomes[Button(c)]
  /\ Press(c, Button(c), o)
  /\ Carry(c, o)
  /\ IF o # "ok" THEN Finish(c, "error")
     ELSE IF Kind(c) = "drag" THEN Goto(c, "path", 2)
     ELSE Goto(c, "up", n[c])
  /\ Note(c, o)
  /\ UNCHANGED err

\* MoveMouse to the next point of a drag.  When it fails the button is
\* released at that point and the move's error is returned.
PathCall(c, o) ==
  /\ pc[c] = "path"
  /\ o \in Outcomes["move"]
  /\ pointer' = IF Delivered(o) THEN Target(c) ELSE pointer
  /\ IF o # "ok" THEN Goto(c, "undo", n[c])
     ELSE IF n[c] < Len(req[c].path) THEN Goto(c, "path", n[c] + 1)
     ELSE Goto(c, "up", n[c])
  /\ Note(c, o)
  /\ UNCHANGED <<err, held, spoilt, stolen>>

\* SendMouseButton(button, up) at the end of Click and Drag, whose error is
\* the result; a double click then starts over.
ButtonUp(c, o) ==
  /\ pc[c] = "up"
  /\ Ready(c)
  /\ o \in Outcomes[Button(c)]
  /\ IF o # "ok" THEN Finish(c, "error")
     ELSE IF Kind(c) = "click" /\ n[c] + 1 < req[c].rounds
     THEN Goto(c, "move", n[c] + 1)
     ELSE Finish(c, "ok")
  /\ Release(c, Button(c), o)
  /\ Carry(c, o)
  /\ Note(c, o)
  /\ UNCHANGED err

\* Drag's release after a failed move: its own error is dropped.
UndoUp(c, o) ==
  /\ pc[c] = "undo"
  /\ Ready(c)
  /\ o \in Outcomes[Left]
  /\ Finish(c, "error")
  /\ Release(c, Left, o)
  /\ Carry(c, o)
  /\ Note(c, o)
  /\ UNCHANGED err

\* SendMouseWheel for one axis; the vertical one comes first.
WheelCall(c, o) ==
  /\ pc[c] = "wheel"
  /\ Ready(c)
  /\ o \in Outcomes["wheel"]
  /\ Carry(c, o)
  /\ IF o # "ok" THEN Finish(c, "error")
     ELSE IF n[c] < Len(req[c].axes) THEN Goto(c, "wheel", n[c] + 1)
     ELSE Finish(c, "ok")
  /\ Note(c, o)
  /\ UNCHANGED <<err, held, spoilt, stolen>>

\* Fault: a chord that cannot be completed is abandoned where it stands.
KeyDownAbandons(c, o) ==
  LET key == req[c].chord[n[c] + 1] IN
  /\ pc[c] = "press"
  /\ o \in Outcomes[key]
  /\ Press(c, key, o)
  /\ IF o # "ok" THEN Finish(c, "error")
     ELSE Goto(c, IF n[c] + 1 = Len(req[c].chord) THEN "release" ELSE "press",
               n[c] + 1)
  /\ Note(c, o)
  /\ UNCHANGED <<err, pointer>>

\* sendKeyChord presses the next key.  When that fails the keys pressed so
\* far are released; the failed key itself is not.
KeyDown(c, o) ==
  LET key == req[c].chord[n[c] + 1] IN
  /\ pc[c] = "press"
  /\ o \in Outcomes[key]
  /\ Press(c, key, o)
  /\ IF o # "ok"
     THEN IF n[c] = 0 THEN Finish(c, "error") ELSE Goto(c, "unwind", n[c])
     ELSE Goto(c, IF n[c] + 1 = Len(req[c].chord) THEN "release" ELSE "press",
               n[c] + 1)
  /\ Note(c, o)
  /\ UNCHANGED <<err, pointer>>

\* Fault: the keys are released in the order they were pressed.
KeyUpForward(c, o) ==
  LET key  == req[c].chord[Len(req[c].chord) + 1 - n[c]]
      bad  == err[c] \/ o # "ok"
  IN
  /\ pc[c] = "release"
  /\ o \in Outcomes[key]
  /\ err' = [err EXCEPT ![c] = bad]
  /\ IF n[c] > 1 THEN Goto(c, "release", n[c] - 1)
                 ELSE Finish(c, IF bad THEN "error" ELSE "ok")
  /\ Release(c, key, o)
  /\ Note(c, o)
  /\ UNCHANGED pointer

\* Fault: only the error of the last release is reported.
KeyUpForgets(c, o) ==
  LET key == req[c].chord[n[c]] IN
  /\ pc[c] = "release"
  /\ o \in Outcomes[key]
  /\ err' = [err EXCEPT ![c] = o # "ok"]
  /\ IF n[c] > 1 THEN Goto(c, "release", n[c] - 1)
                 ELSE Finish(c, IF o # "ok" THEN "error" ELSE "ok")
  /\ Release(c, key, o)
  /\ Note(c, o)
  /\ UNCHANGED pointer

\* Fault: a release that fails is tried again, for ever.
KeyUpRetries(c, o) ==
  LET key == req[c].chord[n[c]] IN
  /\ pc[c] = "release"
  /\ o \in Outcomes[key]
  /\ IF o # "ok" THEN Goto(c, "release", n[c])
     ELSE IF n[c] > 1 THEN Goto(c, "release", n[c] - 1)
     ELSE Finish(c, "ok")
  /\ Release(c, key, o)
  /\ Note(c, o)
  /\ UNCHANGED <<err, pointer>>

\* releaseKeys releases the last key still down and goes on after an error.
KeyUp(c, o) ==
  LET key  == req[c].chord[n[c]]
      bad  == err[c] \/ o # "ok"
  IN
  /\ pc[c] = "release"
  /\ o \in Outcomes[key]
  /\ err' = [err EXCEPT ![c] = bad]
  /\ IF n[c] > 1 THEN Goto(c, "release", n[c] - 1)
                 ELSE Finish(c, IF bad THEN "error" ELSE "ok")
  /\ Release(c, key, o)
  /\ Note(c, o)
  /\ UNCHANGED pointer

\* The same loop after a failed press: sendKeyChord drops what it returns.
UnwindUp(c, o) ==
  LET key == req[c].chord[n[c]] IN
  /\ pc[c] = "unwind"
  /\ o \in Outcomes[key]
  /\ IF n[c] > 1 THEN Goto(c, "unwind", n[c] - 1) ELSE Finish(c, "error")
  /\ Release(c, key, o)
  /\ Note(c, o)
  /\ UNCHANGED <<err, pointer>>

\* TypeText is one backend call.  It leaves the keys it uses up, unless it
\* stops half-way: then any of them may be down.
TypeCall(c, o, down) ==
  /\ pc[c] = "type"
  /\ o \in Outcomes["type"]
  /\ down \subseteq TypedKeys
  /\ o = "ok" => down = {}
  /\ Finish(c, IF o = "ok" THEN "ok" ELSE "error")
  /\ held' = (held \ TypedKeys) \cup down
  /\ spoilt' = (spoilt \ TypedKeys) \cup down
  /\ Steal(c, TypedKeys)
  /\ Note(c, o)
  /\ UNCHANGED <<err, pointer>>

------------------------------------------------------------------------------
Init ==
  /\ pc = [c \in Clients |-> "idle"]
  /\ req = [c \in Clients |-> NoRequest]
  /\ n = [c \in Clients |-> 0]
  /\ err = [c \in Clients |-> FALSE]
  /\ aimed = [c \in Clients |-> FALSE]
  /\ reply = [c \in Clients |-> "none"]
  /\ held = {}
  /\ pointer \in Spots
  /\ failed = [c \in Clients |-> FALSE]
  /\ spoilt = {}
  /\ stolen = [c \in Clients |-> {}]

\* One step of the gesture client c is executing.
Step(c) ==
  \/ WaitDone(c)
  \/ \E o \in OutcomeSet :
       \/ MoveCall(c, o)
       \/ Aim(c, o)
       \/ ButtonDown(c, o)
       \/ PathCall(c, o)
       \/ ButtonUp(c, o)
       \/ UndoUp(c, o)
       \/ WheelCall(c, o)
       \/ KeyDown(c, o)
       \/ KeyUp(c, o)
       \/ UnwindUp(c, o)
       \/ \E down \in SUBSET TypedKeys : TypeCall(c, o, down)

Next == \E c \in Clients : Step(c) \/ \E r \in Requests : Accept(c, r)

\* Every backend call returns, so a gesture that has begun goes on; nobody
\* has to send a request.
Fairness == \A c \in Clients : WF_vars(Step(c))

Spec == Init /\ [][Next]_vars /\ Fairness

------------------------------------------------------------------------------
(* Properties *)

Labels == {"idle", "move", "down", "path", "up", "undo", "wheel", "press",
           "release", "unwind", "type", "wait"}

\* The values the variables take.
TypeOK ==
  /\ pc \in [Clients -> Labels]
  /\ req \in [Clients -> Requests \cup {NoRequest}]
  /\ n \in [Clients -> Nat]
  /\ err \in [Clients -> BOOLEAN]
  /\ aimed \in [Clients -> BOOLEAN]
  /\ reply \in [Clients -> {"none", "ok", "error", "rejected"}]
  /\ held \subseteq Inputs
  /\ pointer \in Spots
  /\ failed \in [Clients -> BOOLEAN]
  /\ spoilt \subseteq Inputs
  /\ stolen \in [Clients -> SUBSET Inputs]

\* NothingStuck: whatever the interleaving of Click, Drag, Keypress and Type
\* calls and wherever one of them fails, a button or key that is down on the
\* desktop will be released by a gesture in flight, or the last call on it
\* returned an error (service.go, 127-131, 158-170, 213-221).
NothingStuck ==
  \A x \in held : x \in spoilt \/ \E c \in Clients : x \in Owed(c)

\* A key that a chord names twice is let go by the first of its releases.
Repeated(c) ==
  {k \in Keys : /\ pc[c] \in {"release", "unwind"}
                /\ \E i, j \in 1..Len(req[c].chord) :
                     i # j /\ req[c].chord[i] = k /\ req[c].chord[j] = k}

\* HeldWhileOwed: between the press and the release of a gesture its button
\* and keys are down, so that a drag drags, and a chord's modifiers outlast
\* the keys pressed after them, unless another request let them go.
HeldWhileOwed ==
  \A c \in Clients : Owed(c) \subseteq held \cup stolen[c] \cup Repeated(c)

\* HonestReply: a request is answered without an error exactly when every
\* backend call its gesture made succeeded, the releases whose errors are
\* collected or dropped on the way included (service.go, 163-165, 214-231).
HonestReply ==
  \A c \in Clients :
    /\ reply[c] = "ok" => ~failed[c]
    /\ reply[c] = "error" => failed[c]

\* ClickLands: a button event reaches the desktop at the coordinate its
\* request named ("POST /click moves to a coordinate and clicks a mouse
\* button", docs/api.md, 11).
ClickLands ==
  [][\A c \in Clients :
       (\E o \in {"ok", "late"} : ButtonDown(c, o) \/ ButtonUp(c, o))
         => pointer' = Target(c)]_vars

\* NeverRefused: the input backend takes every button and key that the
\* service's own parser accepts.
NeverRefused ==
  [][\A c \in Clients :
       /\ ~ButtonDown(c, "refused")
       /\ ~KeyDown(c, "refused")]_vars

\* EveryRequestAnswered: a gesture ends, its clean-up included.
EveryRequestAnswered == \A c \in Clients : (pc[c] # "idle") ~> (pc[c] = "idle")

==============================================================================
