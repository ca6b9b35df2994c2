---------------------------- MODULE ControlProofs ----------------------------
(***************************************************************************)
(* The safety properties of Control, for any number of clients, commands   *)
(* of any length and any backend.  What is down on the desktop is what the *)
(* gestures in flight owe, apart from what failed calls and other requests *)
(* account for.                                                            *)
(***************************************************************************)
EXTENDS Control, TLAPS

\* Where a client is in its gesture: what it executes is a valid command of
\* the right kind, and its loop variable is in range.
Place(c) ==
  /\ pc[c] # "idle" => req[c] \in Requests /\ ~Invalid(req[c])
  /\ pc[c] = "move" => Kind(c) \in {"click", "move", "drag"}
  /\ pc[c] = "down" => Kind(c) \in {"click", "drag"}
  /\ pc[c] \in {"move", "down"} /\ Kind(c) = "drag" => n[c] = 1
  /\ pc[c] \in {"path", "undo"} => Kind(c) = "drag"
  /\ pc[c] = "up" => Kind(c) \in {"click", "drag"}
  /\ pc[c] \in {"path", "undo", "up"} /\ Kind(c) = "drag"
       => n[c] \in 2..Len(req[c].path)
  /\ pc[c] = "wheel" => Kind(c) = "scroll" /\ n[c] \in 1..Len(req[c].axes)
  /\ pc[c] \in {"press", "release", "unwind"} => Kind(c) = "keypress"
  /\ pc[c] = "press" => n[c] \in 0..(Len(req[c].chord) - 1)
  /\ pc[c] \in {"release", "unwind"} => n[c] \in 1..Len(req[c].chord)

\* What the code's error variable and its control point say of the calls
\* made so far.
Books(c) ==
  /\ pc[c] \in {"undo", "unwind"} => failed[c]
  /\ pc[c] = "release" => (failed[c] <=> err[c])
  /\ pc[c] \notin {"idle", "undo", "unwind", "release"} => ~failed[c] /\ ~err[c]
  /\ pc[c] # "idle" => reply[c] = "none"
  /\ reply[c] = "ok" => ~failed[c]
  /\ reply[c] = "error" => failed[c]

IInv == TypeOK /\ \A c \in Clients : Place(c) /\ Books(c)

------------------------------------------------------------------------------
(* Commands *)

\* The kind of a command fixes the fields it has.
LEMMA CommandFields ==
  ASSUME NEW r \in Commands
  PROVE  /\ r.kind = "click" => /\ r.button \in Buttons \cup {NoButton}
                                /\ r.at \in Points
                                /\ r.rounds \in {1, 2}
         /\ r.kind = "drag" => r.path \in Seq(Points)
         /\ r.kind = "move" => r.at \in Points
         /\ r.kind = "scroll" => r.at \in Points /\ r.axes \in Seq({"y", "x"})
         /\ r.kind = "keypress" => r.chord \in Seq(Keys)
         /\ r.kind \in {"click", "drag", "move", "scroll", "keypress", "type",
                        "wait"}
BY DEF Commands, ClickCommand, DragCommand, MoveCommand, ScrollCommand,
       KeypressCommand, TypeCommand, WaitCommand

\* A mouse call has a coordinate to go to.
LEMMA TargetIsSpot ==
  ASSUME IInv, NEW c \in Clients,
         pc[c] \in {"move", "down", "path", "up", "undo", "wheel"}
  PROVE  Target(c) \in Spots
<1>1. req[c] \in Commands /\ ~Invalid(req[c]) /\ Place(c)
  BY RequestAssumption DEF IInv, Place
<1>2. Kind(c) \in {"click", "move", "drag", "scroll"}
  BY <1>1 DEF Place
<1>3. CASE Kind(c) = "drag"
  <2>1. n[c] \in 1..Len(req[c].path)
    BY <1>1, <1>3, CommandFields DEF Place, Kind, Invalid
  <2>2. req[c].path[n[c]] \in Points /\ MapPoint[req[c].path[n[c]]] # NoSpot
    BY <1>1, <1>3, <2>1, CommandFields DEF Kind, Invalid
  <2>3. QED
    BY <1>3, <2>2, SpotAssumption DEF Target
<1>4. CASE Kind(c) # "drag"
  <2>1. req[c].at \in Points /\ MapPoint[req[c].at] # NoSpot
    BY <1>1, <1>2, <1>4, CommandFields DEF Kind, Invalid
  <2>2. QED
    BY <1>4, <2>1, SpotAssumption DEF Target
<1>5. QED
  BY <1>3, <1>4

\* The button a gesture presses is a button.
LEMMA ButtonIsButton ==
  ASSUME IInv, NEW c \in Clients, pc[c] \in {"down", "path", "up", "undo"}
  PROVE  Button(c) \in Buttons
<1>1. req[c] \in Commands /\ ~Invalid(req[c])
  BY RequestAssumption DEF IInv, Place
<1>2. QED
  BY <1>1, CommandFields, InputAssumption DEF Button, Kind, Invalid

\* The key a chord has reached is a key.
LEMMA KeyIsKey ==
  ASSUME IInv, NEW c \in Clients
  PROVE  /\ pc[c] = "press" => req[c].chord[n[c] + 1] \in Keys
         /\ pc[c] \in {"release", "unwind"} => req[c].chord[n[c]] \in Keys
<1>1. SUFFICES ASSUME pc[c] \in {"press", "release", "unwind"}
               PROVE  /\ pc[c] = "press" => req[c].chord[n[c] + 1] \in Keys
                      /\ pc[c] # "press" => req[c].chord[n[c]] \in Keys
  OBVIOUS
<1>2. req[c] \in Commands /\ Place(c) /\ n[c] \in Nat
  BY <1>1, RequestAssumption DEF IInv, TypeOK, Place
<1>3. req[c].chord \in Seq(Keys)
  BY <1>1, <1>2, CommandFields DEF Place, Kind
<1>4. QED
  BY <1>1, <1>2, <1>3 DEF Place

\* Chords and paths have a length; a valid path has two points.
LEMMA Lengths ==
  ASSUME IInv, NEW c \in Clients, pc[c] # "idle"
  PROVE  /\ Kind(c) = "drag" => Len(req[c].path) \in Nat /\ Len(req[c].path) >= 2
         /\ Kind(c) = "keypress" => Len(req[c].chord) \in Nat
         /\ Kind(c) = "scroll" => Len(req[c].axes) \in Nat
<1>1. req[c] \in Commands /\ ~Invalid(req[c])
  BY RequestAssumption DEF IInv, Place
<1>2. QED
  BY <1>1, CommandFields DEF Kind, Invalid

------------------------------------------------------------------------------
(* What the pieces of an action do to the types *)

LEMMA GotoTypes ==
  ASSUME TypeOK, NEW c \in Clients, NEW label \in Labels, NEW i \in Nat,
         Goto(c, label, i)
  PROVE  /\ pc' \in [Clients -> Labels]
         /\ req' \in [Clients -> Requests \cup {NoRequest}]
         /\ n' \in [Clients -> Nat]
         /\ aimed' \in [Clients -> BOOLEAN]
         /\ reply' \in [Clients -> {"none", "ok", "error", "rejected"}]
BY DEF TypeOK, Goto

LEMMA FinishTypes ==
  ASSUME TypeOK, NEW c \in Clients, NEW answer \in {"ok", "error"},
         Finish(c, answer)
  PROVE  /\ pc' \in [Clients -> Labels]
         /\ req' \in [Clients -> Requests \cup {NoRequest}]
         /\ n' \in [Clients -> Nat]
         /\ aimed' \in [Clients -> BOOLEAN]
         /\ reply' \in [Clients -> {"none", "ok", "error", "rejected"}]
BY DEF TypeOK, Finish, Labels

LEMMA NoteTypes ==
  ASSUME TypeOK, NEW c \in Clients, NEW o, Note(c, o)
  PROVE  failed' \in [Clients -> BOOLEAN]
<1>1. (failed[c] \/ o # "ok") \in BOOLEAN
  OBVIOUS
<1>2. QED
  BY <1>1 DEF TypeOK, Note

LEMMA PressTypes ==
  ASSUME TypeOK, NEW c \in Clients, NEW x \in Inputs, NEW o, Press(c, x, o)
  PROVE  /\ held' \subseteq Inputs
         /\ spoilt' \subseteq Inputs
         /\ stolen' \in [Clients -> SUBSET Inputs]
BY DEF TypeOK, Press

LEMMA StealTypes ==
  ASSUME TypeOK, NEW c \in Clients, NEW X, X \subseteq Inputs, Steal(c, X)
  PROVE  stolen' \in [Clients -> SUBSET Inputs]
BY DEF TypeOK, Steal

LEMMA ReleaseTypes ==
  ASSUME TypeOK, NEW c \in Clients, NEW x \in Inputs, NEW o, Release(c, x, o)
  PROVE  /\ held' \subseteq Inputs
         /\ spoilt' \subseteq Inputs
         /\ stolen' \in [Clients -> SUBSET Inputs]
BY StealTypes DEF TypeOK, Release

LEMMA CarryTypes ==
  ASSUME TypeOK, NEW c \in Clients, NEW o, Carry(c, o), Target(c) \in Spots
  PROVE  pointer' \in Spots
BY DEF TypeOK, Carry

------------------------------------------------------------------------------
(* The inductive invariant *)

LEMMA MoveCallInv ==
  ASSUME IInv, NEW c \in Clients, NEW o \in OutcomeSet, MoveCall(c, o)
  PROVE  IInv'
<1>1. pc[c] \in {"move"} /\ TypeOK /\ n[c] \in Nat
  BY DEF IInv, TypeOK, MoveCall
<1>2. Target(c) \in Spots
  BY <1>1, TargetIsSpot
<1>3. TypeOK'
  <2>1. Goto(c, "down", n[c]) \/ Finish(c, "ok") \/ Finish(c, "error")
    BY <1>1 DEF MoveCall
  <2>2. /\ pc' \in [Clients -> Labels]
        /\ req' \in [Clients -> Requests \cup {NoRequest}]
        /\ n' \in [Clients -> Nat]
        /\ aimed' \in [Clients -> BOOLEAN]
        /\ reply' \in [Clients -> {"none", "ok", "error", "rejected"}]
    BY <1>1, <2>1, GotoTypes, FinishTypes DEF Labels
  <2>3. failed' \in [Clients -> BOOLEAN]
    BY <1>1, NoteTypes DEF MoveCall
  <2>4. /\ held' \subseteq Inputs
        /\ spoilt' \subseteq Inputs
        /\ stolen' \in [Clients -> SUBSET Inputs]
    BY <1>1 DEF TypeOK, MoveCall
  <2>5. pointer' \in Spots /\ err' \in [Clients -> BOOLEAN]
    BY <1>1, <1>2 DEF TypeOK, MoveCall
  <2>6. QED
    BY <2>2, <2>3, <2>4, <2>5 DEF TypeOK
<1>4. ASSUME NEW d \in Clients PROVE Place(d)' /\ Books(d)'
  <2>1. CASE d = c
    <3>1. Place(c)'
      BY <1>1 DEF IInv, TypeOK, Place, Kind, MoveCall, Goto, Finish
    <3>2. Books(c)'
      BY <1>1 DEF IInv, TypeOK, Books, MoveCall, Note, Goto, Finish
    <3>3. QED
      BY <2>1, <3>1, <3>2
  <2>2. CASE d # c
    BY <1>1, <2>2 DEF IInv, TypeOK, Place, Books, Kind, MoveCall, Note, Goto, Finish
  <2>3. QED
    BY <2>1, <2>2
<1>5. QED
  BY <1>3, <1>4 DEF IInv

LEMMA ButtonDownInv ==
  ASSUME IInv, NEW c \in Clients, NEW o \in OutcomeSet, ButtonDown(c, o)
  PROVE  IInv'
<1>1. pc[c] \in {"down"} /\ TypeOK /\ n[c] \in Nat
  BY DEF IInv, TypeOK, ButtonDown
<1>2. Target(c) \in Spots /\ Button(c) \in Inputs
  BY <1>1, TargetIsSpot, ButtonIsButton, InputAssumption DEF Inputs
<1>3. TypeOK'
  <2>1. Goto(c, "path", 2) \/ Goto(c, "up", n[c]) \/ Finish(c, "ok") \/ Finish(c, "error")
    BY <1>1 DEF ButtonDown
  <2>2. /\ pc' \in [Clients -> Labels]
        /\ req' \in [Clients -> Requests \cup {NoRequest}]
        /\ n' \in [Clients -> Nat]
        /\ aimed' \in [Clients -> BOOLEAN]
        /\ reply' \in [Clients -> {"none", "ok", "error", "rejected"}]
    BY <1>1, <2>1, GotoTypes, FinishTypes DEF Labels
  <2>3. failed' \in [Clients -> BOOLEAN]
    BY <1>1, NoteTypes DEF ButtonDown
  <2>4. /\ held' \subseteq Inputs
        /\ spoilt' \subseteq Inputs
        /\ stolen' \in [Clients -> SUBSET Inputs]
    BY <1>1, <1>2, PressTypes DEF TypeOK, ButtonDown
  <2>5. pointer' \in Spots /\ err' \in [Clients -> BOOLEAN]
    BY <1>1, <1>2, CarryTypes DEF TypeOK, ButtonDown
  <2>6. QED
    BY <2>2, <2>3, <2>4, <2>5 DEF TypeOK
<1>4. ASSUME NEW d \in Clients PROVE Place(d)' /\ Books(d)'
  <2>1. CASE d = c
    <3>1. Place(c)'
      BY <1>1, Lengths DEF IInv, TypeOK, Place, Kind, ButtonDown, Goto, Finish
    <3>2. Books(c)'
      BY <1>1 DEF IInv, TypeOK, Books, ButtonDown, Note, Goto, Finish
    <3>3. QED
      BY <2>1, <3>1, <3>2
  <2>2. CASE d # c
    BY <1>1, <2>2 DEF IInv, TypeOK, Place, Books, Kind, ButtonDown, Note, Goto, Finish
  <2>3. QED
    BY <2>1, <2>2
<1>5. QED
  BY <1>3, <1>4 DEF IInv

LEMMA PathCallInv ==
  ASSUME IInv, NEW c \in Clients, NEW o \in OutcomeSet, PathCall(c, o)
  PROVE  IInv'
<1>1. pc[c] \in {"path"} /\ TypeOK /\ n[c] \in Nat
  BY DEF IInv, TypeOK, PathCall
<1>2. Target(c) \in Spots
  BY <1>1, TargetIsSpot
<1>3. TypeOK'
  <2>1. Goto(c, "undo", n[c]) \/ Goto(c, "path", n[c] + 1) \/ Goto(c, "up", n[c]) \/ Finish(c, "ok") \/ Finish(c, "error")
    BY <1>1 DEF PathCall
  <2>2. /\ pc' \in [Clients -> Labels]
        /\ req' \in [Clients -> Requests \cup {NoRequest}]
        /\ n' \in [Clients -> Nat]
        /\ aimed' \in [Clients -> BOOLEAN]
        /\ reply' \in [Clients -> {"none", "ok", "error", "rejected"}]
    BY <1>1, <2>1, GotoTypes, FinishTypes DEF Labels
  <2>3. failed' \in [Clients -> BOOLEAN]
    BY <1>1, NoteTypes DEF PathCall
  <2>4. /\ held' \subseteq Inputs
        /\ spoilt' \subseteq Inputs
        /\ stolen' \in [Clients -> SUBSET Inputs]
    BY <1>1 DEF TypeOK, PathCall
  <2>5. pointer' \in Spots /\ err' \in [Clients -> BOOLEAN]
    BY <1>1, <1>2 DEF TypeOK, PathCall
  <2>6. QED
    BY <2>2, <2>3, <2>4, <2>5 DEF TypeOK
<1>4. ASSUME NEW d \in Clients PROVE Place(d)' /\ Books(d)'
  <2>1. CASE d = c
    <3>1. Place(c) /\ Books(c) /\ Len(req[c].path) \in Nat /\ n[c] \in 2..Len(req[c].path)
      BY <1>1, Lengths DEF IInv, Place
    <3>2. CASE Goto(c, "undo", n[c]) /\ o # "ok"
      BY <1>1, <2>1, <3>1, <3>2 DEF TypeOK, Place, Books, Kind, PathCall, Note, Goto, Finish
    <3>3. CASE Goto(c, "path", n[c] + 1) /\ o = "ok" /\ n[c] < Len(req[c].path)
      BY <1>1, <2>1, <3>1, <3>3 DEF TypeOK, Place, Books, Kind, PathCall, Note, Goto, Finish
    <3>4. CASE Goto(c, "up", n[c]) /\ o = "ok"
      BY <1>1, <2>1, <3>1, <3>4 DEF TypeOK, Place, Books, Kind, PathCall, Note, Goto, Finish
    <3>5. QED
      BY <3>1, <3>2, <3>3, <3>4, <2>1, <1>1 DEF PathCall
  <2>2. CASE d # c
    BY <1>1, <2>2 DEF IInv, TypeOK, Place, Books, Kind, PathCall, Note, Goto, Finish
  <2>3. QED
    BY <2>1, <2>2
<1>5. QED
  BY <1>3, <1>4 DEF IInv

LEMMA ButtonUpInv ==
  ASSUME IInv, NEW c \in Clients, NEW o \in OutcomeSet, ButtonUp(c, o)
  PROVE  IInv'
<1>1. pc[c] \in {"up"} /\ TypeOK /\ n[c] \in Nat
  BY DEF IInv, TypeOK, ButtonUp
<1>2. Target(c) \in Spots /\ Button(c) \in Inputs
  BY <1>1, TargetIsSpot, ButtonIsButton, InputAssumption DEF Inputs
<1>3. TypeOK'
  <2>1. Goto(c, "move", n[c] + 1) \/ Finish(c, "ok") \/ Finish(c, "error")
    BY <1>1 DEF ButtonUp
  <2>2. /\ pc' \in [Clients -> Labels]
        /\ req' \in [Clients -> Requests \cup {NoRequest}]
        /\ n' \in [Clients -> Nat]
        /\ aimed' \in [Clients -> BOOLEAN]
        /\ reply' \in [Clients -> {"none", "ok", "error", "rejected"}]
    BY <1>1, <2>1, GotoTypes, FinishTypes DEF Labels
  <2>3. failed' \in [Clients -> BOOLEAN]
    BY <1>1, NoteTypes DEF ButtonUp
  <2>4. /\ held' \subseteq Inputs
        /\ spoilt' \subseteq Inputs
        /\ stolen' \in [Clients -> SUBSET Inputs]
    BY <1>1, <1>2, ReleaseTypes DEF TypeOK, ButtonUp
  <2>5. pointer' \in Spots /\ err' \in [Clients -> BOOLEAN]
    BY <1>1, <1>2, CarryTypes DEF TypeOK, ButtonUp
  <2>6. QED
    BY <2>2, <2>3, <2>4, <2>5 DEF TypeOK
<1>4. ASSUME NEW d \in Clients PROVE Place(d)' /\ Books(d)'
  <2>1. CASE d = c
    <3>1. Place(c)'
      BY <1>1 DEF IInv, TypeOK, Place, Kind, ButtonUp, Goto, Finish
    <3>2. Books(c)'
      BY <1>1 DEF IInv, TypeOK, Books, ButtonUp, Note, Goto, Finish
    <3>3. QED
      BY <2>1, <3>1, <3>2
  <2>2. CASE d # c
    BY <1>1, <2>2 DEF IInv, TypeOK, Place, Books, Kind, ButtonUp, Note, Goto, Finish
  <2>3. QED
    BY <2>1, <2>2
<1>5. QED
  BY <1>3, <1>4 DEF IInv

LEMMA UndoUpInv ==
  ASSUME IInv, NEW c \in Clients, NEW o \in OutcomeSet, UndoUp(c, o)
  PROVE  IInv'
<1>1. pc[c] \in {"undo"} /\ TypeOK /\ n[c] \in Nat
  BY DEF IInv, TypeOK, UndoUp
<1>2. Target(c) \in Spots /\ Left \in Inputs
  BY <1>1, TargetIsSpot, ButtonIsButton, InputAssumption DEF Inputs
<1>3. TypeOK'
  <2>1. Finish(c, "ok") \/ Finish(c, "error")
    BY <1>1 DEF UndoUp
  <2>2. /\ pc' \in [Clients -> Labels]
        /\ req' \in [Clients -> Requests \cup {NoRequest}]
        /\ n' \in [Clients -> Nat]
        /\ aimed' \in [Clients -> BOOLEAN]
        /\ reply' \in [Clients -> {"none", "ok", "error", "rejected"}]
    BY <1>1, <2>1, GotoTypes, FinishTypes DEF Labels
  <2>3. failed' \in [Clients -> BOOLEAN]
    BY <1>1, NoteTypes DEF UndoUp
  <2>4. /\ held' \subseteq Inputs
        /\ spoilt' \subseteq Inputs
        /\ stolen' \in [Clients -> SUBSET Inputs]
    BY <1>1, <1>2, ReleaseTypes DEF TypeOK, UndoUp
  <2>5. pointer' \in Spots /\ err' \in [Clients -> BOOLEAN]
    BY <1>1, <1>2, CarryTypes DEF TypeOK, UndoUp
  <2>6. QED
    BY <2>2, <2>3, <2>4, <2>5 DEF TypeOK
<1>4. ASSUME NEW d \in Clients PROVE Place(d)' /\ Books(d)'
  <2>1. CASE d = c
    BY <1>1, <2>1 DEF IInv, TypeOK, Place, Books, Kind, UndoUp, Note, Goto, Finish
  <2>2. CASE d # c
    BY <1>1, <2>2 DEF IInv, TypeOK, Place, Books, Kind, UndoUp, Note, Goto, Finish
  <2>3. QED
    BY <2>1, <2>2
<1>5. QED
  BY <1>3, <1>4 DEF IInv

LEMMA WheelCallInv ==
  ASSUME IInv, NEW c \in Clients, NEW o \in OutcomeSet, WheelCall(c, o)
  PROVE  IInv'
<1>1. pc[c] \in {"wheel"} /\ TypeOK /\ n[c] \in Nat
  BY DEF IInv, TypeOK, WheelCall
<1>2. Target(c) \in Spots
  BY <1>1, TargetIsSpot
<1>3. TypeOK'
  <2>1. Goto(c, "wheel", n[c] + 1) \/ Finish(c, "ok") \/ Finish(c, "error")
    BY <1>1 DEF WheelCall
  <2>2. /\ pc' \in [Clients -> Labels]
        /\ req' \in [Clients -> Requests \cup {NoRequest}]
        /\ n' \in [Clients -> Nat]
        /\ aimed' \in [Clients -> BOOLEAN]
        /\ reply' \in [Clients -> {"none", "ok", "error", "rejected"}]
    BY <1>1, <2>1, GotoTypes, FinishTypes DEF Labels
  <2>3. failed' \in [Clients -> BOOLEAN]
    BY <1>1, NoteTypes DEF WheelCall
  <2>4. /\ held' \subseteq Inputs
        /\ spoilt' \subseteq Inputs
        /\ stolen' \in [Clients -> SUBSET Inputs]
    BY <1>1 DEF TypeOK, WheelCall
  <2>5. pointer' \in Spots /\ err' \in [Clients -> BOOLEAN]
    BY <1>1, <1>2, CarryTypes DEF TypeOK, WheelCall
  <2>6. QED
    BY <2>2, <2>3, <2>4, <2>5 DEF TypeOK
<1>4. ASSUME NEW d \in Clients PROVE Place(d)' /\ Books(d)'
  <2>1. CASE d = c
    <3>1. Place(c)'
      BY <1>1, Lengths DEF IInv, TypeOK, Place, Kind, WheelCall, Goto, Finish
    <3>2. Books(c)'
      BY <1>1 DEF IInv, TypeOK, Books, WheelCall, Note, Goto, Finish
    <3>3. QED
      BY <2>1, <3>1, <3>2
  <2>2. CASE d # c
    BY <1>1, <2>2 DEF IInv, TypeOK, Place, Books, Kind, WheelCall, Note, Goto, Finish
  <2>3. QED
    BY <2>1, <2>2
<1>5. QED
  BY <1>3, <1>4 DEF IInv

LEMMA KeyDownInv ==
  ASSUME IInv, NEW c \in Clients, NEW o \in OutcomeSet, KeyDown(c, o)
  PROVE  IInv'
<1>1. pc[c] \in {"press"} /\ TypeOK /\ n[c] \in Nat
  BY DEF IInv, TypeOK, KeyDown
<1>2. req[c].chord[n[c] + 1] \in Inputs
  BY <1>1, KeyIsKey DEF Inputs
<1>3. TypeOK'
  <2>1. Goto(c, "unwind", n[c]) \/ Goto(c, "release", n[c] + 1) \/ Goto(c, "press", n[c] + 1) \/ Finish(c, "ok") \/ Finish(c, "error")
    BY <1>1 DEF KeyDown
  <2>2. /\ pc' \in [Clients -> Labels]
        /\ req' \in [Clients -> Requests \cup {NoRequest}]
        /\ n' \in [Clients -> Nat]
        /\ aimed' \in [Clients -> BOOLEAN]
        /\ reply' \in [Clients -> {"none", "ok", "error", "rejected"}]
    BY <1>1, <2>1, GotoTypes, FinishTypes DEF Labels
  <2>3. failed' \in [Clients -> BOOLEAN]
    BY <1>1, NoteTypes DEF KeyDown
  <2>4. /\ held' \subseteq Inputs
        /\ spoilt' \subseteq Inputs
        /\ stolen' \in [Clients -> SUBSET Inputs]
    BY <1>1, <1>2, PressTypes DEF TypeOK, KeyDown
  <2>5. pointer' \in Spots /\ err' \in [Clients -> BOOLEAN]
    BY <1>1 DEF TypeOK, KeyDown
  <2>6. QED
    BY <2>2, <2>3, <2>4, <2>5 DEF TypeOK
<1>4. ASSUME NEW d \in Clients PROVE Place(d)' /\ Books(d)'
  <2>1. CASE d = c
    <3>1. Place(c) /\ Books(c) /\ Len(req[c].chord) \in Nat /\ n[c] \in 0..(Len(req[c].chord) - 1)
      BY <1>1, Lengths DEF IInv, Place
    <3>2. CASE Goto(c, "press", n[c] + 1) /\ o = "ok" /\ n[c] + 1 # Len(req[c].chord)
      BY <1>1, <2>1, <3>1, <3>2 DEF TypeOK, Place, Books, Kind, KeyDown, Note, Goto, Finish
    <3>3. CASE Goto(c, "release", n[c] + 1) /\ o = "ok" /\ n[c] + 1 = Len(req[c].chord)
      BY <1>1, <2>1, <3>1, <3>3 DEF TypeOK, Place, Books, Kind, KeyDown, Note, Goto, Finish
    <3>4. CASE Goto(c, "unwind", n[c]) /\ o # "ok" /\ n[c] # 0
      <4>1. Note(c, o) /\ err' = err
        BY DEF KeyDown
      <4>2. n[c] \in 1..Len(req[c].chord)
        BY <3>1, <3>4
      <4>3. QED
        BY <1>1, <2>1, <3>1, <3>4, <4>1, <4>2 DEF TypeOK, Place, Books, Kind, Note, Goto
    <3>5. CASE Finish(c, "error") /\ o # "ok"
      BY <1>1, <2>1, <3>1, <3>5 DEF TypeOK, Place, Books, Kind, KeyDown, Note, Goto, Finish
    <3>6. QED
      BY <3>1, <3>2, <3>3, <3>4, <3>5, <2>1, <1>1 DEF KeyDown
  <2>2. CASE d # c
    BY <1>1, <2>2 DEF IInv, TypeOK, Place, Books, Kind, KeyDown, Note, Goto, Finish
  <2>3. QED
    BY <2>1, <2>2
<1>5. QED
  BY <1>3, <1>4 DEF IInv

LEMMA KeyUpInv ==
  ASSUME IInv, NEW c \in Clients, NEW o \in OutcomeSet, KeyUp(c, o)
  PROVE  IInv'
<1>1. pc[c] \in {"release"} /\ TypeOK /\ n[c] \in Nat
  BY DEF IInv, TypeOK, KeyUp
<1>2. req[c].chord[n[c]] \in Inputs
  BY <1>1, KeyIsKey DEF Inputs
<1>3. TypeOK'
  <2>1. (n[c] - 1 \in Nat /\ Goto(c, "release", n[c] - 1)) \/ Finish(c, "ok") \/ Finish(c, "error")
    BY <1>1 DEF KeyUp
  <2>2. /\ pc' \in [Clients -> Labels]
        /\ req' \in [Clients -> Requests \cup {NoRequest}]
        /\ n' \in [Clients -> Nat]
        /\ aimed' \in [Clients -> BOOLEAN]
        /\ reply' \in [Clients -> {"none", "ok", "error", "rejected"}]
    BY <1>1, <2>1, GotoTypes, FinishTypes DEF Labels
  <2>3. failed' \in [Clients -> BOOLEAN]
    BY <1>1, NoteTypes DEF KeyUp
  <2>4. /\ held' \subseteq Inputs
        /\ spoilt' \subseteq Inputs
        /\ stolen' \in [Clients -> SUBSET Inputs]
    BY <1>1, <1>2, ReleaseTypes DEF TypeOK, KeyUp
  <2>5. pointer' \in Spots /\ err' \in [Clients -> BOOLEAN]
    BY <1>1 DEF TypeOK, KeyUp
  <2>6. QED
    BY <2>2, <2>3, <2>4, <2>5 DEF TypeOK
<1>4. ASSUME NEW d \in Clients PROVE Place(d)' /\ Books(d)'
  <2>1. CASE d = c
    <3>1. Place(c)'
      BY <1>1 DEF IInv, TypeOK, Place, Kind, KeyUp, Goto, Finish
    <3>2. Books(c)'
      BY <1>1 DEF IInv, TypeOK, Books, KeyUp, Note, Goto, Finish
    <3>3. QED
      BY <2>1, <3>1, <3>2
  <2>2. CASE d # c
    BY <1>1, <2>2 DEF IInv, TypeOK, Place, Books, Kind, KeyUp, Note, Goto, Finish
  <2>3. QED
    BY <2>1, <2>2
<1>5. QED
  BY <1>3, <1>4 DEF IInv

LEMMA UnwindUpInv ==
  ASSUME IInv, NEW c \in Clients, NEW o \in OutcomeSet, UnwindUp(c, o)
  PROVE  IInv'
<1>1. pc[c] \in {"unwind"} /\ TypeOK /\ n[c] \in Nat
  BY DEF IInv, TypeOK, UnwindUp
<1>2. req[c].chord[n[c]] \in Inputs
  BY <1>1, KeyIsKey DEF Inputs
<1>3. TypeOK'
  <2>1. (n[c] - 1 \in Nat /\ Goto(c, "unwind", n[c] - 1)) \/ Finish(c, "ok") \/ Finish(c, "error")
    BY <1>1 DEF UnwindUp
  <2>2. /\ pc' \in [Clients -> Labels]
        /\ req' \in [Clients -> Requests \cup {NoRequest}]
        /\ n' \in [Clients -> Nat]
        /\ aimed' \in [Clients -> BOOLEAN]
        /\ reply' \in [Clients -> {"none", "ok", "error", "rejected"}]
    BY <1>1, <2>1, GotoTypes, FinishTypes DEF Labels
  <2>3. failed' \in [Clients -> BOOLEAN]
    BY <1>1, NoteTypes DEF UnwindUp
  <2>4. /\ held' \subseteq Inputs
        /\ spoilt' \subseteq Inputs
        /\ stolen' \in [Clients -> SUBSET Inputs]
    BY <1>1, <1>2, ReleaseTypes DEF TypeOK, UnwindUp
  <2>5. pointer' \in Spots /\ err' \in [Clients -> BOOLEAN]
    BY <1>1 DEF TypeOK, UnwindUp
  <2>6. QED
    BY <2>2, <2>3, <2>4, <2>5 DEF TypeOK
<1>4. ASSUME NEW d \in Clients PROVE Place(d)' /\ Books(d)'
  <2>1. CASE d = c
    BY <1>1, <2>1 DEF IInv, TypeOK, Place, Books, Kind, UnwindUp, Note, Goto, Finish
  <2>2. CASE d # c
    BY <1>1, <2>2 DEF IInv, TypeOK, Place, Books, Kind, UnwindUp, Note, Goto, Finish
  <2>3. QED
    BY <2>1, <2>2
<1>5. QED
  BY <1>3, <1>4 DEF IInv

LEMMA AimInv ==
  ASSUME IInv, NEW c \in Clients, NEW o \in OutcomeSet, Aim(c, o)
  PROVE  IInv'
<1>1. pc[c] \in {"down", "up", "undo", "wheel"} /\ TypeOK
  BY DEF IInv, Aim
<1>2. Target(c) \in Spots
  BY <1>1, TargetIsSpot
<1>3. pc[c] \in {"up", "undo"} => Button(c) \in Inputs
  BY <1>1, ButtonIsButton DEF Inputs
<1>4. TypeOK'
  <2>1. \/ Finish(c, "error")
        \/ aimed' = [aimed EXCEPT ![c] = TRUE] /\ UNCHANGED <<pc, req, n, reply>>
    BY DEF Aim
  <2>2. /\ pc' \in [Clients -> Labels]
        /\ req' \in [Clients -> Requests \cup {NoRequest}]
        /\ n' \in [Clients -> Nat]
        /\ aimed' \in [Clients -> BOOLEAN]
        /\ reply' \in [Clients -> {"none", "ok", "error", "rejected"}]
    BY <1>1, <2>1, FinishTypes DEF TypeOK
  <2>3. failed' \in [Clients -> BOOLEAN]
    BY <1>1, NoteTypes DEF Aim
  <2>4. /\ held' \subseteq Inputs
        /\ spoilt' \subseteq Inputs
        /\ stolen' \in [Clients -> SUBSET Inputs]
    BY <1>1, <1>3 DEF TypeOK, Aim
  <2>5. pointer' \in Spots /\ err' \in [Clients -> BOOLEAN]
    BY <1>1, <1>2 DEF TypeOK, Aim
  <2>6. QED
    BY <2>2, <2>3, <2>4, <2>5 DEF TypeOK
<1>5. ASSUME NEW d \in Clients PROVE Place(d)' /\ Books(d)'
  <2>1. CASE d = c
    <3>1. Place(c)'
      BY <1>1 DEF IInv, TypeOK, Place, Kind, Aim, Finish
    <3>2. Books(c)'
      BY <1>1 DEF IInv, TypeOK, Books, Aim, Note, Finish
    <3>3. QED
      BY <2>1, <3>1, <3>2
  <2>2. CASE d # c
    BY <1>1, <2>2 DEF IInv, TypeOK, Place, Books, Kind, Aim, Note, Finish
  <2>3. QED
    BY <2>1, <2>2
<1>6. QED
  BY <1>4, <1>5 DEF IInv

LEMMA TypeCallInv ==
  ASSUME IInv, NEW c \in Clients, NEW o \in OutcomeSet,
         NEW down \in SUBSET TypedKeys, TypeCall(c, o, down)
  PROVE  IInv'
<1>1. pc[c] = "type" /\ TypeOK /\ TypedKeys \subseteq Inputs
  BY InputAssumption DEF IInv, TypeCall, Inputs
<1>2. TypeOK'
  <2>1. Finish(c, "ok") \/ Finish(c, "error")
    BY DEF TypeCall
  <2>2. /\ pc' \in [Clients -> Labels]
        /\ req' \in [Clients -> Requests \cup {NoRequest}]
        /\ n' \in [Clients -> Nat]
        /\ aimed' \in [Clients -> BOOLEAN]
        /\ reply' \in [Clients -> {"none", "ok", "error", "rejected"}]
    BY <1>1, <2>1, FinishTypes
  <2>3. failed' \in [Clients -> BOOLEAN]
    BY <1>1, NoteTypes DEF TypeCall
  <2>4. held' \subseteq Inputs /\ spoilt' \subseteq Inputs
    BY <1>1 DEF TypeOK, TypeCall
  <2>5. stolen' \in [Clients -> SUBSET Inputs]
    BY <1>1, StealTypes DEF TypeCall
  <2>6. pointer' \in Spots /\ err' \in [Clients -> BOOLEAN]
    BY <1>1 DEF TypeOK, TypeCall
  <2>7. QED
    BY <2>2, <2>3, <2>4, <2>5, <2>6 DEF TypeOK
<1>3. ASSUME NEW d \in Clients PROVE Place(d)' /\ Books(d)'
  <2>1. CASE d = c
    BY <1>1, <2>1 DEF IInv, TypeOK, Place, Books, Kind, TypeCall, Note, Finish
  <2>2. CASE d # c
    BY <1>1, <2>2 DEF IInv, TypeOK, Place, Books, Kind, TypeCall, Note, Finish
  <2>3. QED
    BY <2>1, <2>2
<1>4. QED
  BY <1>2, <1>3 DEF IInv

LEMMA WaitDoneInv ==
  ASSUME IInv, NEW c \in Clients, WaitDone(c)
  PROVE  IInv'
<1>1. pc[c] = "wait" /\ TypeOK
  BY DEF IInv, WaitDone
<1>2. TypeOK'
  BY <1>1, FinishTypes DEF TypeOK, WaitDone, desktopVars, historyVars
<1>3. ASSUME NEW d \in Clients PROVE Place(d)' /\ Books(d)'
  BY <1>1 DEF IInv, TypeOK, Place, Books, Kind, WaitDone, Finish, desktopVars,
              historyVars
<1>4. QED
  BY <1>2, <1>3 DEF IInv

\* The first call of a valid command is one its kind makes.
LEMMA EntryIsLabel ==
  ASSUME NEW r \in Requests
  PROVE  /\ Entry(r) \in {"move", "wheel", "press", "type", "wait"}
         /\ Entry(r) = "move" <=> r.kind \in {"click", "move", "drag"}
         /\ Entry(r) = "wheel" <=> r.kind = "scroll"
         /\ Entry(r) = "press" <=> r.kind = "keypress"
<1>1. r.kind \in {"click", "drag", "move", "scroll", "keypress", "type", "wait"}
  BY CommandFields, RequestAssumption
<1>2. QED
  BY <1>1 DEF Entry

LEMMA AcceptInv ==
  ASSUME IInv, NEW c \in Clients, NEW r \in Requests, Accept(c, r)
  PROVE  IInv'
<1>1. pc[c] = "idle" /\ TypeOK /\ r \in Commands
  BY RequestAssumption DEF IInv, Accept
<1>2. CASE Invalid(r)
  <2>1. TypeOK'
    BY <1>1, <1>2 DEF TypeOK, Accept
  <2>2. ASSUME NEW d \in Clients PROVE Place(d)' /\ Books(d)'
    BY <1>1, <1>2 DEF IInv, TypeOK, Place, Books, Kind, Accept
  <2>3. QED
    BY <2>1, <2>2 DEF IInv
<1>3. CASE ~Invalid(r)
  <2>1. TypeOK'
    BY <1>1, <1>3, EntryIsLabel DEF TypeOK, Accept, Labels
  <2>2. ASSUME NEW d \in Clients, d # c PROVE Place(d)' /\ Books(d)'
    BY <1>1, <1>3, <2>2 DEF IInv, TypeOK, Place, Books, Kind, Accept
  <2>3. /\ r.kind = "scroll" => 1 \in 1..Len(r.axes)
        /\ r.kind = "keypress" => 0 \in 0..(Len(r.chord) - 1)
    BY <1>1, <1>3, CommandFields DEF Invalid
  <2>4. Place(c)'
    BY <1>1, <1>3, <2>3, EntryIsLabel DEF TypeOK, Place, Kind, Accept
  <2>5. Books(c)'
    BY <1>1, <1>3, EntryIsLabel DEF TypeOK, Books, Accept
  <2>6. QED
    BY <2>1, <2>2, <2>4, <2>5 DEF IInv
<1>4. QED
  BY <1>2, <1>3

\* The invariant of the whole specification.
LEMMA InitInv == Init => IInv
BY DEF Init, IInv, TypeOK, Place, Books, Labels, Inputs

LEMMA StepInv == IInv /\ [Next]_vars => IInv'
<1> SUFFICES ASSUME IInv, [Next]_vars PROVE IInv'
  OBVIOUS
<1>1. CASE UNCHANGED vars
  <2>1. UNCHANGED <<pc, req, n, err, aimed, reply, held, pointer, failed,
                    spoilt, stolen>>
    BY <1>1 DEF vars, clientVars, desktopVars, historyVars
  <2>2. TypeOK'
    BY <2>1 DEF IInv, TypeOK
  <2>3. ASSUME NEW d \in Clients PROVE Place(d)' /\ Books(d)'
    BY <2>1 DEF IInv, Place, Books, Kind
  <2>4. QED
    BY <2>2, <2>3 DEF IInv
<1>2. ASSUME NEW c \in Clients, Step(c) PROVE IInv'
  BY <1>2, WaitDoneInv, MoveCallInv, AimInv, ButtonDownInv, PathCallInv,
     ButtonUpInv, UndoUpInv, WheelCallInv, KeyDownInv, KeyUpInv, UnwindUpInv,
     TypeCallInv DEF Step
<1>3. ASSUME NEW c \in Clients, NEW r \in Requests, Accept(c, r) PROVE IInv'
  BY <1>3, AcceptInv
<1>4. QED
  BY <1>1, <1>2, <1>3 DEF Next

LEMMA Invariant == Spec => []IInv
BY InitInv, StepInv, PTL DEF Spec

\* TypeCorrect: every variable keeps its type; in particular no call is made
\* for a coordinate that the mapper refused or a button that has no name.
THEOREM TypeCorrect == Spec => []TypeOK
<1>1. IInv => TypeOK
  BY DEF IInv
<1>2. QED
  BY Invariant, <1>1, PTL

\* RepliesHonest: an answer without an error means that every call of the
\* gesture succeeded, and an error that one of them did not.
THEOREM RepliesHonest == Spec => []HonestReply
<1>1. IInv => HonestReply
  BY DEF IInv, Books, HonestReply
<1>2. QED
  BY Invariant, <1>1, PTL

------------------------------------------------------------------------------
(* What is held *)

\* A client that does not move owes what it owed.
LEMMA SameOwed ==
  ASSUME NEW d, pc'[d] = pc[d], n'[d] = n[d], req'[d] = req[d]
  PROVE  Owed(d)' = Owed(d) /\ Repeated(d)' = Repeated(d)
BY DEF Owed, Button, Kind, Repeated

LEMMA OthersStay ==
  ASSUME TypeOK, NEW c \in Clients,
         \/ \E label, i : Goto(c, label, i)
         \/ \E answer : Finish(c, answer)
  PROVE  \A d \in Clients \ {c} : /\ Owed(d)' = Owed(d)
                                  /\ Repeated(d)' = Repeated(d)
<1> SUFFICES ASSUME NEW d \in Clients, d # c
             PROVE  Owed(d)' = Owed(d) /\ Repeated(d)' = Repeated(d)
  OBVIOUS
<1>1. pc'[d] = pc[d] /\ n'[d] = n[d] /\ req'[d] = req[d]
  BY DEF TypeOK, Goto, Finish
<1>2. QED
  BY <1>1, SameOwed

\* The two sides of the ledger.  X is what the step lets go on the desktop:
\* it is gone, or blamed on a failed call, or pressed again by c itself, and
\* every other client that owes it is told.
LEMMA LedgerStep ==
  ASSUME NothingStuck, HeldWhileOwed, NEW c \in Clients, NEW X,
         \A d \in Clients \ {c} : /\ Owed(d)' = Owed(d)
                                  /\ Repeated(d)' = Repeated(d)
                                  /\ stolen[d] \cup (X \cap Owed(d)) \subseteq stolen'[d],
         held \ X \subseteq held',
         spoilt \ X \subseteq spoilt',
         held' \subseteq held \cup Owed(c)' \cup spoilt',
         X \cap held' \subseteq spoilt' \cup Owed(c)',
         Owed(c) \subseteq Owed(c)' \cup X \cup spoilt',
         Owed(c)' \subseteq held' \cup stolen'[c] \cup Repeated(c)'
  PROVE  NothingStuck' /\ HeldWhileOwed'
<1>1. ASSUME NEW y \in held', y \notin spoilt'
      PROVE  \E d \in Clients : y \in Owed(d)'
  <2>1. CASE y \in Owed(c)'
    BY <2>1
  <2>2. CASE y \notin Owed(c)'
    <3>1. y \in held /\ y \notin X /\ y \notin spoilt
      BY <1>1, <2>2
    <3>2. PICK d \in Clients : y \in Owed(d)
      BY <3>1 DEF NothingStuck
    <3>3. d # c
      BY <1>1, <2>2, <3>1, <3>2
    <3>4. QED
      BY <3>2, <3>3
  <2>3. QED
    BY <2>1, <2>2
<1>2. NothingStuck'
  BY <1>1 DEF NothingStuck
<1>3. ASSUME NEW d \in Clients
      PROVE  Owed(d)' \subseteq held' \cup stolen'[d] \cup Repeated(d)'
  <2>1. CASE d = c
    BY <2>1
  <2>2. CASE d # c
    BY <2>2 DEF HeldWhileOwed
  <2>3. QED
    BY <2>1, <2>2
<1>4. HeldWhileOwed'
  BY <1>3 DEF HeldWhileOwed
<1>5. QED
  BY <1>2, <1>4

\* A step of c that changes nothing on the desktop and owes what it owed.
LEMMA LedgerIdle ==
  ASSUME TypeOK, NothingStuck, HeldWhileOwed, NEW c \in Clients,
         \/ \E label, i : Goto(c, label, i)
         \/ \E answer : Finish(c, answer),
         UNCHANGED <<held, spoilt, stolen>>,
         Owed(c)' = Owed(c), Repeated(c) \subseteq Repeated(c)'
  PROVE  NothingStuck' /\ HeldWhileOwed'
<1>1. Owed(c)' \subseteq held' \cup stolen'[c] \cup Repeated(c)'
  BY DEF HeldWhileOwed
<1>2. \A d \in Clients \ {c} : /\ Owed(d)' = Owed(d)
                               /\ Repeated(d)' = Repeated(d)
  BY OthersStay
<1>3. QED
  <2> DEFINE X == {}
  <2>1. /\ \A d \in Clients \ {c} : stolen[d] \cup (X \cap Owed(d)) \subseteq stolen'[d]
        /\ held \ X \subseteq held' /\ spoilt \ X \subseteq spoilt'
        /\ held' \subseteq held \cup Owed(c)' \cup spoilt'
        /\ X \cap held' \subseteq spoilt' \cup Owed(c)'
        /\ Owed(c) \subseteq Owed(c)' \cup X \cup spoilt'
    OBVIOUS
  <2> HIDE DEF X
  <2>2. QED
    BY <1>1, <1>2, <2>1, LedgerStep

\* Pressing x when c owes x from now on, or when the call fails and c owes
\* what it owed.
LEMMA LedgerPress ==
  ASSUME TypeOK, NothingStuck, HeldWhileOwed, NEW c \in Clients, NEW x, NEW o,
         \/ \E label, i : Goto(c, label, i)
         \/ \E answer : Finish(c, answer),
         Press(c, x, o), Repeated(c) = {},
         o = "ok" => Owed(c)' = Owed(c) \cup {x},
         o # "ok" => Owed(c)' = Owed(c)
  PROVE  NothingStuck' /\ HeldWhileOwed'
<1>1. \A d \in Clients \ {c} : /\ Owed(d)' = Owed(d)
                               /\ Repeated(d)' = Repeated(d)
                               /\ stolen'[d] = stolen[d]
  BY OthersStay DEF TypeOK, Press
<1>2. held \subseteq held' /\ spoilt \subseteq spoilt'
  BY DEF Press
<1>3. held' \subseteq held \cup Owed(c)' \cup spoilt'
  BY DEF Press, Delivered
<1>4. Owed(c) \subseteq held \cup stolen[c]
  BY DEF HeldWhileOwed
<1>5. Owed(c)' \subseteq held' \cup stolen'[c]
  <2>1. CASE o = "ok"
    BY <1>4, <2>1 DEF Press, Delivered, TypeOK
  <2>2. CASE o # "ok"
    BY <1>2, <1>4, <2>2 DEF Press
  <2>3. QED
    BY <2>1, <2>2
<1>6. QED
  <2> DEFINE X == {}
  <2>1. /\ \A d \in Clients \ {c} : stolen[d] \cup (X \cap Owed(d)) \subseteq stolen'[d]
        /\ held \ X \subseteq held' /\ spoilt \ X \subseteq spoilt'
        /\ X \cap held' \subseteq spoilt' \cup Owed(c)'
        /\ Owed(c) \subseteq Owed(c)' \cup X \cup spoilt'
    BY <1>1, <1>2
  <2> HIDE DEF X
  <2>2. QED
    BY <1>1, <1>3, <1>5, <2>1, LedgerStep

\* Releasing x, the last of what c owes that may differ.
LEMMA LedgerRelease ==
  ASSUME TypeOK, NothingStuck, HeldWhileOwed, NEW c \in Clients, NEW x, NEW o,
         \/ \E label, i : Goto(c, label, i)
         \/ \E answer : Finish(c, answer),
         Release(c, x, o),
         Owed(c)' \subseteq Owed(c), Owed(c) \subseteq Owed(c)' \cup {x},
         x \in Owed(c)' => x \in Repeated(c)',
         Owed(c)' # {} => Repeated(c)' = Repeated(c)
  PROVE  NothingStuck' /\ HeldWhileOwed'
<1>1. \A d \in Clients \ {c} : /\ Owed(d)' = Owed(d)
                               /\ Repeated(d)' = Repeated(d)
  BY OthersStay
<1>2. Owed(c) \subseteq held \cup stolen[c] \cup Repeated(c)
  BY DEF HeldWhileOwed
<1>3. CASE Delivered(o)
  <2>1. held' = held \ {x} /\ spoilt' = spoilt \ {x} /\ Steal(c, {x})
    BY <1>3 DEF Release
  <2>2. stolen'[c] = stolen[c] \ {x}
    BY <2>1 DEF Steal
  <2>3. Owed(c)' \subseteq held' \cup stolen'[c] \cup Repeated(c)'
    BY <1>2, <2>1, <2>2
  <2>4. \A d \in Clients \ {c} :
          stolen[d] \cup ({x} \cap Owed(d)) \subseteq stolen'[d]
    BY <2>1 DEF Steal
  <2> DEFINE X == {x}
  <2>5. /\ \A d \in Clients \ {c} : stolen[d] \cup (X \cap Owed(d)) \subseteq stolen'[d]
        /\ held \ X \subseteq held' /\ spoilt \ X \subseteq spoilt'
        /\ held' \subseteq held \cup Owed(c)' \cup spoilt'
        /\ X \cap held' \subseteq spoilt' \cup Owed(c)'
        /\ Owed(c) \subseteq Owed(c)' \cup X \cup spoilt'
    BY <2>1, <2>4
  <2> HIDE DEF X
  <2>6. QED
    BY <1>1, <2>3, <2>5, LedgerStep
<1>4. CASE ~Delivered(o)
  <2>1. spoilt' = spoilt \cup {x} /\ UNCHANGED <<held, stolen>>
    BY <1>4 DEF Release
  <2>2. Owed(c)' \subseteq held' \cup stolen'[c] \cup Repeated(c)'
    BY <1>2, <2>1
  <2> DEFINE X == {}
  <2>3. /\ \A d \in Clients \ {c} : stolen[d] \cup (X \cap Owed(d)) \subseteq stolen'[d]
        /\ held \ X \subseteq held' /\ spoilt \ X \subseteq spoilt'
        /\ held' \subseteq held \cup Owed(c)' \cup spoilt'
        /\ X \cap held' \subseteq spoilt' \cup Owed(c)'
        /\ Owed(c) \subseteq Owed(c)' \cup X \cup spoilt'
    BY <2>1
  <2> HIDE DEF X
  <2>4. QED
    BY <1>1, <2>2, <2>3, LedgerStep
<1>5. QED
  BY <1>3, <1>4

------------------------------------------------------------------------------
(* One lemma per action *)

LEMMA MoveCallLedger ==
  ASSUME IInv, NothingStuck, HeldWhileOwed, NEW c \in Clients,
         NEW o \in OutcomeSet, MoveCall(c, o)
  PROVE  NothingStuck' /\ HeldWhileOwed'
<1>1. TypeOK /\ UNCHANGED <<held, spoilt, stolen>>
  BY DEF IInv, MoveCall
<1>2. (\E label, i : Goto(c, label, i)) \/ (\E answer : Finish(c, answer))
  BY DEF MoveCall
<1>3. Owed(c) = {} /\ Owed(c)' = {} /\ Repeated(c) = {}
  BY <1>1 DEF TypeOK, MoveCall, Goto, Finish, Owed, Repeated
<1>4. QED
  BY <1>1, <1>2, <1>3, LedgerIdle

LEMMA WheelCallLedger ==
  ASSUME IInv, NothingStuck, HeldWhileOwed, NEW c \in Clients,
         NEW o \in OutcomeSet, WheelCall(c, o)
  PROVE  NothingStuck' /\ HeldWhileOwed'
<1>1. TypeOK /\ UNCHANGED <<held, spoilt, stolen>>
  BY DEF IInv, WheelCall
<1>2. (\E label, i : Goto(c, label, i)) \/ (\E answer : Finish(c, answer))
  BY DEF WheelCall
<1>3. Owed(c) = {} /\ Owed(c)' = {} /\ Repeated(c) = {}
  BY <1>1 DEF TypeOK, WheelCall, Goto, Finish, Owed, Repeated
<1>4. QED
  BY <1>1, <1>2, <1>3, LedgerIdle

LEMMA PathCallLedger ==
  ASSUME IInv, NothingStuck, HeldWhileOwed, NEW c \in Clients,
         NEW o \in OutcomeSet, PathCall(c, o)
  PROVE  NothingStuck' /\ HeldWhileOwed'
<1>1. TypeOK /\ UNCHANGED <<held, spoilt, stolen>>
  BY DEF IInv, PathCall
<1>2. \E label, i : Goto(c, label, i)
  BY DEF PathCall
<1>3. pc[c] = "path" /\ pc'[c] \in {"undo", "path", "up"} /\ req' = req
  BY <1>1 DEF TypeOK, PathCall, Goto
<1>4. Owed(c)' = Owed(c) /\ Repeated(c) = {}
  BY <1>3 DEF Owed, Button, Kind, Repeated
<1>5. QED
  BY <1>1, <1>2, <1>4, LedgerIdle

LEMMA ButtonDownLedger ==
  ASSUME IInv, NothingStuck, HeldWhileOwed, NEW c \in Clients,
         NEW o \in OutcomeSet, ButtonDown(c, o)
  PROVE  NothingStuck' /\ HeldWhileOwed'
<1>1. TypeOK /\ pc[c] = "down" /\ Press(c, Button(c), o)
  BY DEF IInv, ButtonDown
<1>2. (\E label, i : Goto(c, label, i)) \/ (\E answer : Finish(c, answer))
  BY DEF ButtonDown
<1>3. Button(c) \in Buttons
  BY <1>1, ButtonIsButton
<1>4. Owed(c) = {} /\ Repeated(c) = {}
  BY <1>1 DEF Owed, Repeated
<1>5. ASSUME o = "ok" PROVE Owed(c)' = {Button(c)}
  <2>1. pc'[c] \in {"path", "up"} /\ req' = req
    BY <1>1, <1>5 DEF TypeOK, ButtonDown, Goto
  <2>2. QED
    BY <1>3, <2>1 DEF Owed, Button, Kind
<1>6. ASSUME o # "ok" PROVE Owed(c)' = {}
  BY <1>1, <1>6 DEF TypeOK, ButtonDown, Finish, Owed
<1>7. QED
  BY <1>1, <1>2, <1>4, <1>5, <1>6, LedgerPress

LEMMA ButtonUpLedger ==
  ASSUME IInv, NothingStuck, HeldWhileOwed, NEW c \in Clients,
         NEW o \in OutcomeSet, ButtonUp(c, o)
  PROVE  NothingStuck' /\ HeldWhileOwed'
<1>1. TypeOK /\ pc[c] = "up" /\ Release(c, Button(c), o)
  BY DEF IInv, ButtonUp
<1>2. (\E label, i : Goto(c, label, i)) \/ (\E answer : Finish(c, answer))
  BY DEF ButtonUp
<1>3. Owed(c) \subseteq {Button(c)}
  BY <1>1 DEF IInv, Place, Owed, Button
<1>4. Owed(c)' = {}
  BY <1>1 DEF TypeOK, ButtonUp, Goto, Finish, Owed
<1>5. QED
  BY <1>1, <1>2, <1>3, <1>4, LedgerRelease

LEMMA UndoUpLedger ==
  ASSUME IInv, NothingStuck, HeldWhileOwed, NEW c \in Clients,
         NEW o \in OutcomeSet, UndoUp(c, o)
  PROVE  NothingStuck' /\ HeldWhileOwed'
<1>1. TypeOK /\ pc[c] = "undo" /\ Release(c, Left, o)
  BY DEF IInv, UndoUp
<1>2. (\E label, i : Goto(c, label, i)) \/ (\E answer : Finish(c, answer))
  BY DEF UndoUp
<1>3. Owed(c) \subseteq {Left}
  BY <1>1 DEF IInv, Place, Owed, Button
<1>4. Owed(c)' = {}
  BY <1>1 DEF TypeOK, UndoUp, Goto, Finish, Owed
<1>5. QED
  BY <1>1, <1>2, <1>3, <1>4, LedgerRelease

LEMMA KeyDownLedger ==
  ASSUME IInv, NothingStuck, HeldWhileOwed, NEW c \in Clients,
         NEW o \in OutcomeSet, KeyDown(c, o)
  PROVE  NothingStuck' /\ HeldWhileOwed'
<1> DEFINE key == req[c].chord[n[c] + 1]
<1>1. TypeOK /\ pc[c] = "press" /\ Press(c, key, o) /\ n[c] \in Nat
  BY DEF IInv, TypeOK, KeyDown
<1>2. (\E label, i : Goto(c, label, i)) \/ (\E answer : Finish(c, answer))
  BY DEF KeyDown
<1>3. key \in Keys
  BY <1>1, KeyIsKey
<1>4. Repeated(c) = {}
  BY <1>1 DEF Repeated
<1>5. ASSUME o = "ok" PROVE Owed(c)' = Owed(c) \cup {key}
  <2>1. /\ pc'[c] \in {"press", "release"}
        /\ req' = req /\ n'[c] = n[c] + 1
    BY <1>1, <1>5 DEF TypeOK, KeyDown, Goto
  <2>2. Owed(c) = {k \in Keys : \E i \in 1..n[c] : req[c].chord[i] = k}
    BY <1>1 DEF Owed
  <2>3. Owed(c)' = {k \in Keys : \E i \in 1..(n[c] + 1) : req[c].chord[i] = k}
    BY <2>1 DEF Owed
  <2>4. QED
    BY <1>1, <1>3, <2>2, <2>3
<1>6. ASSUME o # "ok" PROVE Owed(c)' = Owed(c)
  <2>1. CASE n[c] = 0
    BY <1>1, <1>6, <2>1 DEF TypeOK, KeyDown, Finish, Owed
  <2>2. CASE n[c] # 0
    <3>1. pc'[c] = "unwind" /\ req' = req /\ n'[c] = n[c]
      BY <1>1, <1>6, <2>2 DEF TypeOK, KeyDown, Goto
    <3>2. QED
      BY <1>1, <3>1 DEF Owed
  <2>3. QED
    BY <2>1, <2>2
<1> HIDE DEF key
<1>7. QED
  BY <1>1, <1>2, <1>4, <1>5, <1>6, LedgerPress

LEMMA KeyUpLedger ==
  ASSUME IInv, NothingStuck, HeldWhileOwed, NEW c \in Clients,
         NEW o \in OutcomeSet, KeyUp(c, o)
  PROVE  NothingStuck' /\ HeldWhileOwed'
<1> DEFINE key == req[c].chord[n[c]]
<1>1. TypeOK /\ pc[c] = "release" /\ Release(c, key, o)
  BY DEF IInv, KeyUp
<1>2. (\E label, i : Goto(c, label, i)) \/ (\E answer : Finish(c, answer))
  BY DEF KeyUp
<1>3. key \in Keys /\ n[c] \in 1..Len(req[c].chord) /\ Len(req[c].chord) \in Nat
  BY <1>1, KeyIsKey, Lengths DEF IInv, Place
<1>4. Owed(c) = {k \in Keys : \E i \in 1..n[c] : req[c].chord[i] = k}
  BY <1>1 DEF Owed
<1>5. CASE n[c] > 1
  <2>1. pc'[c] = "release" /\ req' = req /\ n'[c] = n[c] - 1
    BY <1>1, <1>3, <1>5 DEF TypeOK, KeyUp, Goto
  <2>2. Owed(c)' = {k \in Keys : \E i \in 1..(n[c] - 1) : req[c].chord[i] = k}
    BY <2>1 DEF Owed
  <2>3. Repeated(c)' = Repeated(c)
    BY <1>1, <2>1 DEF Repeated
  <2>4. key \in Owed(c)' => key \in Repeated(c)'
    <3>1. SUFFICES ASSUME NEW i \in 1..(n[c] - 1), req[c].chord[i] = key
                   PROVE  key \in Repeated(c)
      BY <2>2, <2>3
    <3>2. i \in 1..Len(req[c].chord) /\ i # n[c]
      BY <1>3, <3>1
    <3>3. QED
      BY <1>1, <1>3, <3>1, <3>2 DEF Repeated
  <2>5. Owed(c)' \subseteq Owed(c) /\ Owed(c) \subseteq Owed(c)' \cup {key}
    BY <1>3, <1>4, <2>2
  <2> HIDE DEF key
  <2>6. QED
    BY <1>1, <1>2, <2>3, <2>4, <2>5, LedgerRelease
<1>6. CASE ~(n[c] > 1)
  <2>1. n[c] = 1
    BY <1>3, <1>6
  <2>2. Owed(c) \subseteq {key}
    BY <1>4, <2>1
  <2>3. Owed(c)' = {}
    BY <1>1, <1>6 DEF TypeOK, KeyUp, Finish, Owed
  <2> HIDE DEF key
  <2>4. QED
    BY <1>1, <1>2, <2>2, <2>3, LedgerRelease
<1>7. QED
  BY <1>5, <1>6

LEMMA UnwindUpLedger ==
  ASSUME IInv, NothingStuck, HeldWhileOwed, NEW c \in Clients,
         NEW o \in OutcomeSet, UnwindUp(c, o)
  PROVE  NothingStuck' /\ HeldWhileOwed'
<1> DEFINE key == req[c].chord[n[c]]
<1>1. TypeOK /\ pc[c] = "unwind" /\ Release(c, key, o)
  BY DEF IInv, UnwindUp
<1>2. (\E label, i : Goto(c, label, i)) \/ (\E answer : Finish(c, answer))
  BY DEF UnwindUp
<1>3. key \in Keys /\ n[c] \in 1..Len(req[c].chord) /\ Len(req[c].chord) \in Nat
  BY <1>1, KeyIsKey, Lengths DEF IInv, Place
<1>4. Owed(c) = {k \in Keys : \E i \in 1..n[c] : req[c].chord[i] = k}
  BY <1>1 DEF Owed
<1>5. CASE n[c] > 1
  <2>1. pc'[c] = "unwind" /\ req' = req /\ n'[c] = n[c] - 1
    BY <1>1, <1>3, <1>5 DEF TypeOK, UnwindUp, Goto
  <2>2. Owed(c)' = {k \in Keys : \E i \in 1..(n[c] - 1) : req[c].chord[i] = k}
    BY <2>1 DEF Owed
  <2>3. Repeated(c)' = Repeated(c)
    BY <1>1, <2>1 DEF Repeated
  <2>4. key \in Owed(c)' => key \in Repeated(c)'
    <3>1. SUFFICES ASSUME NEW i \in 1..(n[c] - 1), req[c].chord[i] = key
                   PROVE  key \in Repeated(c)
      BY <2>2, <2>3
    <3>2. i \in 1..Len(req[c].chord) /\ i # n[c]
      BY <1>3, <3>1
    <3>3. QED
      BY <1>1, <1>3, <3>1, <3>2 DEF Repeated
  <2>5. Owed(c)' \subseteq Owed(c) /\ Owed(c) \subseteq Owed(c)' \cup {key}
    BY <1>3, <1>4, <2>2
  <2> HIDE DEF key
  <2>6. QED
    BY <1>1, <1>2, <2>3, <2>4, <2>5, LedgerRelease
<1>6. CASE ~(n[c] > 1)
  <2>1. n[c] = 1
    BY <1>3, <1>6
  <2>2. Owed(c) \subseteq {key}
    BY <1>4, <2>1
  <2>3. Owed(c)' = {}
    BY <1>1, <1>6 DEF TypeOK, UnwindUp, Finish, Owed
  <2> HIDE DEF key
  <2>4. QED
    BY <1>1, <1>2, <2>2, <2>3, LedgerRelease
<1>7. QED
  BY <1>5, <1>6

LEMMA AimLedger ==
  ASSUME IInv, NothingStuck, HeldWhileOwed, NEW c \in Clients,
         NEW o \in OutcomeSet, Aim(c, o)
  PROVE  NothingStuck' /\ HeldWhileOwed'
<1>1. TypeOK /\ pc[c] \in {"down", "up", "undo", "wheel"} /\ UNCHANGED <<held, stolen>>
  BY DEF IInv, Aim
<1>2. CASE o = "ok"
  <2>1. UNCHANGED <<pc, n, req, spoilt>>
    BY <1>2 DEF Aim
  <2>2. \A d \in Clients : Owed(d)' = Owed(d) /\ Repeated(d)' = Repeated(d)
    BY <2>1, SameOwed
  <2>3. QED
    BY <1>1, <2>1, <2>2 DEF NothingStuck, HeldWhileOwed
<1>3. CASE o # "ok"
  <2>1. /\ Finish(c, "error")
        /\ spoilt' = IF pc[c] \in {"up", "undo"} THEN spoilt \cup {Button(c)}
                                                 ELSE spoilt
    BY <1>3 DEF Aim
  <2>2. Owed(c) \subseteq spoilt' /\ Owed(c)' = {}
    BY <1>1, <2>1 DEF TypeOK, Finish, Owed
  <2> DEFINE X == {}
  <2>3. /\ \A d \in Clients \ {c} : stolen[d] \cup (X \cap Owed(d)) \subseteq stolen'[d]
        /\ held \ X \subseteq held' /\ spoilt \ X \subseteq spoilt'
        /\ held' \subseteq held \cup Owed(c)' \cup spoilt'
        /\ X \cap held' \subseteq spoilt' \cup Owed(c)'
        /\ Owed(c) \subseteq Owed(c)' \cup X \cup spoilt'
        /\ Owed(c)' \subseteq held' \cup stolen'[c] \cup Repeated(c)'
    BY <1>1, <2>1, <2>2
  <2>4. \A d \in Clients \ {c} : Owed(d)' = Owed(d) /\ Repeated(d)' = Repeated(d)
    BY <1>1, <2>1, OthersStay
  <2> HIDE DEF X
  <2>5. QED
    BY <2>3, <2>4, LedgerStep
<1>4. QED
  BY <1>2, <1>3

LEMMA TypeCallLedger ==
  ASSUME IInv, NothingStuck, HeldWhileOwed, NEW c \in Clients,
         NEW o \in OutcomeSet, NEW down \in SUBSET TypedKeys, TypeCall(c, o, down)
  PROVE  NothingStuck' /\ HeldWhileOwed'
<1>1. /\ TypeOK /\ pc[c] = "type"
      /\ \E answer : Finish(c, answer)
      /\ held' = (held \ TypedKeys) \cup down
      /\ spoilt' = (spoilt \ TypedKeys) \cup down
      /\ Steal(c, TypedKeys)
  BY DEF IInv, TypeCall
<1>2. Owed(c) = {} /\ Owed(c)' = {}
  BY <1>1 DEF TypeOK, Finish, Owed
<1>3. \A d \in Clients \ {c} :
        stolen[d] \cup (TypedKeys \cap Owed(d)) \subseteq stolen'[d]
  BY <1>1 DEF Steal
<1>4. \A d \in Clients \ {c} : Owed(d)' = Owed(d) /\ Repeated(d)' = Repeated(d)
  BY <1>1, OthersStay
<1>5. QED
  <2> DEFINE X == TypedKeys
  <2>1. /\ \A d \in Clients \ {c} : stolen[d] \cup (X \cap Owed(d)) \subseteq stolen'[d]
        /\ held \ X \subseteq held' /\ spoilt \ X \subseteq spoilt'
        /\ held' \subseteq held \cup Owed(c)' \cup spoilt'
        /\ X \cap held' \subseteq spoilt' \cup Owed(c)'
        /\ Owed(c) \subseteq Owed(c)' \cup X \cup spoilt'
        /\ Owed(c)' \subseteq held' \cup stolen'[c] \cup Repeated(c)'
    BY <1>1, <1>2, <1>3
  <2> HIDE DEF X
  <2>2. QED
    BY <1>4, <2>1, LedgerStep

LEMMA WaitDoneLedger ==
  ASSUME IInv, NothingStuck, HeldWhileOwed, NEW c \in Clients, WaitDone(c)
  PROVE  NothingStuck' /\ HeldWhileOwed'
<1>1. /\ TypeOK /\ pc[c] = "wait" /\ Finish(c, "ok")
      /\ UNCHANGED <<held, spoilt, stolen>>
  BY DEF IInv, WaitDone, desktopVars, historyVars
<1>2. Owed(c) = {} /\ Owed(c)' = {} /\ Repeated(c) = {}
  BY <1>1 DEF TypeOK, Finish, Owed, Repeated
<1>3. QED
  BY <1>1, <1>2, LedgerIdle

LEMMA AcceptLedger ==
  ASSUME IInv, NothingStuck, HeldWhileOwed, NEW c \in Clients,
         NEW r \in Requests, Accept(c, r)
  PROVE  NothingStuck' /\ HeldWhileOwed'
<1>1. TypeOK /\ pc[c] = "idle" /\ UNCHANGED <<held, spoilt>>
  BY DEF IInv, Accept
<1>2. \A d \in Clients \ {c} :
        pc'[d] = pc[d] /\ n'[d] = n[d] /\ req'[d] = req[d] /\ stolen'[d] = stolen[d]
  BY DEF IInv, TypeOK, Accept
<1>3. \A d \in Clients \ {c} : Owed(d)' = Owed(d) /\ Repeated(d)' = Repeated(d)
  BY <1>2, SameOwed
<1>4. Owed(c) = {}
  BY <1>1 DEF Owed
<1>5. Owed(c)' = {}
  <2>1. CASE Invalid(r)
    BY <1>1, <2>1 DEF Accept, Owed
  <2>2. CASE ~Invalid(r)
    <3>1. pc'[c] = Entry(r) /\ (r.kind = "keypress" => n'[c] = 0)
      BY <1>1, <2>2 DEF TypeOK, Accept
    <3>2. QED
      BY <3>1, EntryIsLabel DEF Owed
  <2>3. QED
    BY <2>1, <2>2
<1>6. QED
  <2> DEFINE X == {}
  <2>1. /\ \A d \in Clients \ {c} : stolen[d] \cup (X \cap Owed(d)) \subseteq stolen'[d]
        /\ held \ X \subseteq held' /\ spoilt \ X \subseteq spoilt'
        /\ held' \subseteq held \cup Owed(c)' \cup spoilt'
        /\ X \cap held' \subseteq spoilt' \cup Owed(c)'
        /\ Owed(c) \subseteq Owed(c)' \cup X \cup spoilt'
        /\ Owed(c)' \subseteq held' \cup stolen'[c] \cup Repeated(c)'
    BY <1>1, <1>2, <1>4, <1>5
  <2> HIDE DEF X
  <2>2. QED
    BY <1>3, <2>1, LedgerStep

------------------------------------------------------------------------------
(* The theorem *)

Ledger == IInv /\ NothingStuck /\ HeldWhileOwed

LEMMA InitLedger == Init => Ledger
<1> SUFFICES ASSUME Init PROVE Ledger
  OBVIOUS
<1>1. IInv
  BY InitInv
<1>2. NothingStuck
  BY DEF Init, NothingStuck
<1>3. \A c \in Clients : Owed(c) = {}
  BY DEF Init, Owed
<1>4. QED
  BY <1>1, <1>2, <1>3 DEF Ledger, HeldWhileOwed

LEMMA NextLedger == Ledger /\ [Next]_vars => Ledger'
<1> SUFFICES ASSUME Ledger, [Next]_vars PROVE Ledger'
  OBVIOUS
<1>1. IInv'
  BY StepInv DEF Ledger
<1>2. CASE UNCHANGED vars
  <2>1. UNCHANGED <<pc, req, n, held, spoilt, stolen>>
    BY <1>2 DEF vars, clientVars, desktopVars, historyVars
  <2>2. \A d \in Clients : Owed(d)' = Owed(d) /\ Repeated(d)' = Repeated(d)
    BY <2>1, SameOwed
  <2>3. QED
    BY <1>1, <2>1, <2>2 DEF Ledger, NothingStuck, HeldWhileOwed
<1>3. ASSUME NEW c \in Clients, Step(c) PROVE NothingStuck' /\ HeldWhileOwed'
  BY <1>3, WaitDoneLedger, MoveCallLedger, AimLedger, ButtonDownLedger,
     PathCallLedger, ButtonUpLedger, UndoUpLedger, WheelCallLedger,
     KeyDownLedger, KeyUpLedger, UnwindUpLedger, TypeCallLedger
     DEF Step, Ledger
<1>4. ASSUME NEW c \in Clients, NEW r \in Requests, Accept(c, r)
      PROVE  NothingStuck' /\ HeldWhileOwed'
  BY <1>4, AcceptLedger DEF Ledger
<1>5. QED
  BY <1>1, <1>2, <1>3, <1>4 DEF Next, Ledger

\* InputReleased: with any number of clients, gestures of any length and
\* failures anywhere, an input that is down is owed by a gesture in flight
\* or explained by a call that returned an error.
THEOREM InputReleased == Spec => []NothingStuck
<1>1. Ledger => NothingStuck
  BY DEF Ledger
<1>2. QED
  BY InitLedger, NextLedger, <1>1, PTL DEF Spec

\* GestureHolds: and what a gesture owes is down, unless another client let
\* it go or the chord names it twice.
THEOREM GestureHolds == Spec => []HeldWhileOwed
<1>1. Ledger => HeldWhileOwed
  BY DEF Ledger
<1>2. QED
  BY InitLedger, NextLedger, <1>1, PTL DEF Spec

==============================================================================
