------------------------------- MODULE DeskProofs ------------------------------
(***************************************************************************)
(* The types of LocalBackend, what Close and a failed call leave to be     *)
(* seen, and that the backend keeps Resource's promise, for any number of  *)
(* callers and for each of the three platforms, by itself and on the desk; *)
(* then what a request comes to on the desk, for any requests: who may do  *)
(* what, that the fronts agree, which area is shown and where a pointer    *)
(* lands.                                                                  *)
(***************************************************************************)
EXTENDS Desk, SequenceTheorems, WellFoundedInduction, TLAPS

\* What a call may still have to record: one mark or two, and a measurement
\* is followed by the status made of it.  Only macOS makes its status anew.
Singles == {<<"note">>, <<"clear">>, <<"ready">>, <<"size">>, <<"refresh">>}
Pairs == {<<"clear", "size">>, <<"clear", "note">>, <<"size", "clear">>, <<"ready", "clear">>,
          <<"ready", "note">>, <<"measure", "refresh">>}
Fresher == {<<"refresh">>, <<"measure", "refresh">>}
Marks(k) == IF k = "macos" THEN Singles \cup Pairs ELSE (Singles \cup Pairs) \ Fresher

Places == {"idle", "starting", "opening", "running", "killed", "held", "asking", "entering",
           "closing", "unlinking", "ending", "leaving", "closed"}

Calls(k) ==
  {x \in [at : Places \cup {"marking"}, op : Ops \cup {"none", "close"},
          marks : {<<>>} \cup Marks(k), failed : BOOLEAN, alone : BOOLEAN, seen : SUBSET Grants] :
     /\ x.marks # <<>> <=> x.at = "marking"
     /\ x.seen # {} => x.marks = <<"refresh">>
     /\ x.at = "starting" => x.op \in Ops}

SideType == [up : BOOLEAN, ready : BOOLEAN, error : BOOLEAN]

Typed ==
  /\ kind \in Kinds
  /\ opts \subseteq {"screenshot", "input", "crop", "scancode"}
  /\ link \in {"none", "up", "silent", "dropped", "closed"}
  /\ granted \subseteq Grants
  /\ status \in [Sides -> SideType]
  /\ runErr \in BOOLEAN /\ shut \in BOOLEAN /\ done \in BOOLEAN /\ late \in BOOLEAN
  /\ once \in {"fresh", "spent"} \cup Callers
  /\ done <=> once = "spent"
  /\ call \in [Callers -> Calls(kind)]

\* Nothing but a late call on macOS connects a closed backend again.
StaysDown == shut /\ ~late => \A s \in Sides : ~status[s].up

IInv == Typed /\ StaysDown

------------------------------------------------------------------------------
(* Calls *)

LEMMA OneMark == ASSUME NEW a PROVE Head(<<a>>) = a /\ Tail(<<a>>) = <<>>
OBVIOUS

LEMMA TwoMarks == ASSUME NEW a, NEW b PROVE Head(<<a, b>>) = a /\ Tail(<<a, b>>) = <<b>>
OBVIOUS

LEMMA MarksTaken ==
  ASSUME NEW k, NEW m \in Marks(k)
  PROVE  /\ m # <<>>
         /\ Head(m) \in {"note", "clear", "ready", "size", "measure", "refresh"}
         /\ Tail(m) \in {<<>>} \cup Marks(k)
         /\ Head(m) = "measure" => Tail(m) = <<"refresh">>
         /\ k # "macos" => Head(m) \notin {"measure", "refresh"}
<1>1. CASE m \in Singles
  <2>1. PICK a \in {"note", "clear", "ready", "size", "refresh"} : m = <<a>>
    BY <1>1 DEF Singles
  <2>2. Head(m) = a /\ Tail(m) = <<>> /\ m # <<>> /\ (a = "refresh" => m = <<"refresh">>)
    BY <2>1, OneMark
  <2>3. QED
    BY <2>1, <2>2 DEF Marks, Fresher
<1>2. CASE m \in Pairs
  <2>1. PICK a \in {"clear", "size", "ready", "measure"},
             b \in {"size", "note", "clear", "refresh"} :
          m = <<a, b>> /\ (a = "measure" <=> b = "refresh")
    BY <1>2 DEF Pairs
  <2>2. m # <<>> /\ Head(m) = a /\ Tail(m) = <<b>>
    BY <2>1, TwoMarks
  <2>3. <<b>> \in Singles /\ (m \in Fresher <=> a = "measure") /\ (<<b>> \in Fresher <=> b = "refresh")
    BY <2>1 DEF Singles, Fresher
  <2>4. QED
    BY <2>1, <2>2, <2>3 DEF Marks
<1>3. QED
  BY <1>1, <1>2 DEF Marks

LEMMA IdleIsCall == \A k : Idle \in Calls(k)
BY DEF Idle, Calls, Places

\* A call moves without having anything to record.
LEMMA MoveIsCall ==
  ASSUME NEW k, NEW x \in Calls(k), x.at # "marking", NEW at \in Places \ {"starting"}
  PROVE  [x EXCEPT !.at = at] \in Calls(k)
<1>1. DEFINE y == [x EXCEPT !.at = at]
<1>2. /\ y.at = at /\ y.op = x.op /\ y.marks = x.marks /\ y.failed = x.failed /\ y.alone = x.alone
      /\ y.seen = x.seen /\ at # "marking" /\ x.marks = <<>>
      /\ y \in [at : Places \cup {"marking"}, op : Ops \cup {"none", "close"},
                marks : {<<>>} \cup Marks(k), failed : BOOLEAN, alone : BOOLEAN, seen : SUBSET Grants]
  BY DEF Calls, Places
<1>3. QED
  BY <1>2 DEF Calls

\* Its outside effect is over.
LEMMA ConcludedIsCall ==
  ASSUME NEW k, NEW x \in Calls(k), x.at # "marking", NEW failed \in BOOLEAN, NEW marks \in Marks(k)
  PROVE  [x EXCEPT !.at = "marking", !.failed = failed, !.marks = marks] \in Calls(k)
<1>1. DEFINE y == [x EXCEPT !.at = "marking", !.failed = failed, !.marks = marks]
<1>2. /\ y.at = "marking" /\ y.marks = marks /\ y.seen = x.seen /\ x.marks = <<>> /\ marks # <<>>
      /\ y \in [at : Places \cup {"marking"}, op : Ops \cup {"none", "close"},
                marks : {<<>>} \cup Marks(k), failed : BOOLEAN, alone : BOOLEAN, seen : SUBSET Grants]
  BY MarksTaken DEF Calls
<1>3. <<>> # <<"refresh">>
  OBVIOUS
<1>4. x.seen = {}
  BY <1>2, <1>3 DEF Calls
<1>5. QED
  BY <1>2, <1>4 DEF Calls

\* Another call has begun or macOS has changed in the meantime.
LEMMA MixedIsCall ==
  ASSUME NEW k, NEW x \in Calls(k), NEW alone \in BOOLEAN
  PROVE  [x EXCEPT !.alone = alone] \in Calls(k)
BY DEF Calls

------------------------------------------------------------------------------
(* The initial state *)

LEMMA RefreshTyped ==
  ASSUME NEW seen, NEW failed \in BOOLEAN
  PROVE  Refreshed(seen, failed) \in [Sides -> SideType]
<1>1. \A up, ready, error \in BOOLEAN : Side(up, ready, error) \in SideType
  BY DEF Side, SideType
<1>2. \A x, y \in SideType : [output |-> x, input |-> y] \in [Sides -> SideType]
  BY DEF Sides
<1>3. DEFINE output == {"display", "screen", "probe"} \subseteq seen
             input == "input" \in seen
             own == failed /\ output /\ input
             up == "display" \in seen
<1>4. Refreshed(seen, failed) =
        [output |-> Side(up, output, own \/ ~output), input |-> Side(up, input, own \/ ~input)]
  BY DEF Refreshed
<1>5. /\ up \in BOOLEAN /\ output \in BOOLEAN /\ input \in BOOLEAN
      /\ (own \/ ~output) \in BOOLEAN /\ (own \/ ~input) \in BOOLEAN
  OBVIOUS
<1>6. HIDE DEF output, input, own, up
<1>7. Side(up, output, own \/ ~output) \in SideType /\ Side(up, input, own \/ ~input) \in SideType
  BY <1>1, <1>5
<1>8. QED
  BY <1>2, <1>4, <1>7

LEMMA InitInv == Init => IInv
<1>1. SUFFICES ASSUME Init PROVE IInv
  OBVIOUS
<1>2. /\ opts \subseteq {"screenshot", "input", "crop", "scancode"}
      /\ link \in {"none", "up"} /\ granted \subseteq Grants
  BY <1>1 DEF Init
<1>3. status \in [Sides -> SideType]
  <2>1. QED
    BY <1>1, RefreshTyped DEF Init, Side, SideType
<1>4. call \in [Callers -> Calls(kind)]
  BY <1>1, IdleIsCall DEF Init
<1>5. QED
  BY <1>1, <1>2, <1>3, <1>4 DEF Init, IInv, Typed, StaysDown

------------------------------------------------------------------------------
(* A call on its way: only the place it stands at and what it concluded *)

\* One call moves, or none.
Moves(c) == \E x \in Calls(kind) : call' = [call EXCEPT ![c] = x]

LEMMA ToMoves ==
  ASSUME Typed, NEW c \in Callers, call[c].at # "marking", NEW at \in Places \ {"starting"}, To(c, at)
  PROVE  Moves(c)
<1>1. [call[c] EXCEPT !.at = at] \in Calls(kind)
  BY MoveIsCall DEF Typed
<1>2. call' = [call EXCEPT ![c] = [call[c] EXCEPT !.at = at]]
  BY DEF To
<1>3. QED
  BY <1>1, <1>2 DEF Moves

LEMMA ConcludeMoves ==
  ASSUME Typed, NEW c \in Callers, call[c].at # "marking",
         NEW failed \in BOOLEAN, NEW marks \in Marks(kind), Conclude(c, failed, marks)
  PROVE  Moves(c)
<1>1. [call[c] EXCEPT !.at = "marking", !.failed = failed, !.marks = marks] \in Calls(kind)
  BY ConcludedIsCall DEF Typed
<1>2. call' = [call EXCEPT ![c] = [call[c] EXCEPT !.at = "marking", !.failed = failed, !.marks = marks]]
  BY DEF Conclude
<1>3. QED
  BY <1>1, <1>2 DEF Moves

\* A step that changes nothing but a call keeps everything.
LEMMA MovesKeep ==
  ASSUME IInv, NEW c \in Callers, Moves(c), UNCHANGED <<world, book, past>>
  PROVE  IInv'
<1>1. call' \in [Callers -> Calls(kind)]
  BY DEF IInv, Typed, Moves
<1>2. QED
  BY <1>1 DEF IInv, Typed, StaysDown, world, book, past

LEMMA RunMoves ==
  ASSUME Typed, NEW c \in Callers, call[c].at # "marking", Ran(c)
  PROVE  Moves(c)
<1>1. <<"clear", "size">> \in Marks(kind) /\ <<"clear">> \in Marks(kind) /\ <<"clear", "note">> \in Marks(kind)
  BY DEF Marks, Singles, Pairs, Fresher
<1>2. QED
  BY <1>1, ConcludeMoves DEF Ran

\* Everything between the beginning of a call and its marks.
Underway(c) ==
  \/ Decline(c) \/ Render(c) \/ OpenSession(c) \/ KilledReturns(c) \/ Capture(c)
  \/ Win32(c) \/ CoreGraphics(c) \/ TimeOut(c) \/ Outside(c)

LEMMA UnderwayMoves ==
  ASSUME Typed, NEW c \in Callers, Underway(c)
  PROVE  Moves(c)
<1>1. /\ <<"note">> \in Marks(kind) /\ <<"clear">> \in Marks(kind) /\ <<"ready">> \in Marks(kind)
      /\ <<"size", "clear">> \in Marks(kind) /\ <<"ready", "clear">> \in Marks(kind)
      /\ <<"ready", "note">> \in Marks(kind)
      /\ kind = "macos" => <<"measure", "refresh">> \in Marks(kind)
  BY DEF Marks, Singles, Pairs, Fresher
<1>2. CASE Decline(c)
  BY <1>2, IdleIsCall DEF Decline, Moves
<1>3. CASE Render(c) \/ OpenSession(c) \/ KilledReturns(c) \/ Capture(c)
  <2>1. call[c].at # "marking"
    BY <1>3 DEF Render, OpenSession, KilledReturns, Capture
  <2>2. Conclude(c, TRUE, <<"note">>) \/ \E at \in {"opening", "running", "asking"} : To(c, at)
    BY <1>3 DEF Render, OpenSession, KilledReturns, Capture
  <2>3. QED
    BY <1>1, <2>1, <2>2, ToMoves, ConcludeMoves DEF Places
<1>4. CASE Win32(c)
  <2>1. call[c].at # "marking"
    BY <1>4 DEF Win32
  <2>2. \E failed \in BOOLEAN, marks \in Marks(kind) : Conclude(c, failed, marks)
    <3>1. CASE Conclude(c, TRUE, <<"note">>)
      BY <1>1, <3>1
    <3>2. CASE \/ Conclude(c, FALSE, <<"ready">>) \/ Conclude(c, FALSE, <<"clear">>)
               \/ Conclude(c, FALSE, <<"ready", "clear">>) \/ Conclude(c, TRUE, <<"ready", "note">>)
      BY <1>1, <3>2
    <3>3. call[c].op \in {"shot", "crop"} \cup {"key", "scancode"} \cup {"mouse"}
      BY <1>4 DEF Typed, Calls, Ops, InputOps, Win32
    <3>4. QED
      BY <1>4, <3>1, <3>2, <3>3 DEF Win32
  <2>3. QED
    BY <2>1, <2>2, ConcludeMoves
<1>5. CASE CoreGraphics(c)
  <2>1. call[c].at # "marking"
    BY <1>5 DEF CoreGraphics
  <2>2. \E failed \in BOOLEAN, marks \in Marks(kind) : Conclude(c, failed, marks)
    BY <1>1, <1>5 DEF CoreGraphics
  <2>3. QED
    BY <2>1, <2>2, ConcludeMoves
<1>6. ASSUME NEW failed \in BOOLEAN, call[c].at # "marking",
             call' = [call EXCEPT ![c].at = "held", ![c].failed = failed]
      PROVE  Moves(c)
  <2>1. call[c] \in Calls(kind)
    BY DEF Typed
  <2>2. [call[c] EXCEPT !.at = "held"] \in Calls(kind)
    BY <1>6, <2>1, MoveIsCall DEF Places
  <2>3. [[call[c] EXCEPT !.at = "held"] EXCEPT !.failed = failed] \in Calls(kind)
    BY <2>2 DEF Calls
  <2>4. [[call[c] EXCEPT !.at = "held"] EXCEPT !.failed = failed]
          = [call[c] EXCEPT !.at = "held", !.failed = failed]
    OBVIOUS
  <2>5. QED
    BY <1>6, <2>3, <2>4 DEF Moves
<1>7. CASE TimeOut(c)
  <2>1. call[c].at # "marking"
    BY <1>7 DEF TimeOut
  <2>2. \/ To(c, "killed")
        \/ Conclude(c, TRUE, <<"note">>)
        \/ call' = [call EXCEPT ![c].at = "held", ![c].failed = TRUE]
    BY <1>7 DEF TimeOut
  <2>3. QED
    BY <1>1, <1>6, <2>1, <2>2, ToMoves, ConcludeMoves DEF Places
<1>8. CASE Outside(c)
  <2>1. call[c].at # "marking"
    BY <1>8 DEF Outside, Exit, Orphan, LetGo, CaptureAnswered
  <2>2. \/ Ran(c)
        \/ \E failed \in BOOLEAN : call' = [call EXCEPT ![c].at = "held", ![c].failed = failed]
        \/ \E failed \in BOOLEAN, marks \in Marks(kind) : Conclude(c, failed, marks)
    BY <1>1, <1>8 DEF Outside, Exit, Orphan, LetGo, CaptureAnswered
  <2>3. QED
    BY <1>6, <2>1, <2>2, RunMoves, ConcludeMoves
<1>9. QED
  BY <1>2, <1>3, <1>4, <1>5, <1>7, <1>8 DEF Underway

LEMMA UnderwayStep ==
  ASSUME IInv, NEW c \in Callers, Underway(c)
  PROVE  IInv'
<1>1. UNCHANGED <<world, book, past>>
  BY DEF Underway, Decline, Render, OpenSession, KilledReturns, Capture, Win32, CoreGraphics,
         TimeOut, Outside, Exit, Orphan, LetGo, CaptureAnswered
<1>2. QED
  BY <1>1, UnderwayMoves, MovesKeep DEF IInv

LEMMA BeginStep ==
  ASSUME IInv, NEW c \in Callers, NEW op \in Ops, Begin(c, op)
  PROVE  IInv'
<1>1. call[c] \in Calls(kind) /\ UNCHANGED <<world, book, past>>
  BY DEF IInv, Typed, Begin
<1>2. [Idle EXCEPT !.at = "starting", !.op = op, !.alone = Quiet] \in Calls(kind)
  <2>1. Quiet \in BOOLEAN
    BY DEF Quiet
  <2>2. <<>> # <<"refresh">>
    OBVIOUS
  <2>3. QED
    BY <2>1, <2>2 DEF Idle, Calls, Places
<1>3. \A d \in Callers : [call[d] EXCEPT !.alone = @ /\ ~InCall(d)] \in Calls(kind)
  <2>1. TAKE d \in Callers
  <2>2. (call[d].alone /\ ~InCall(d)) \in BOOLEAN
    OBVIOUS
  <2>3. QED
    BY <2>2, MixedIsCall DEF IInv, Typed
<1>4. call' \in [Callers -> Calls(kind)]
  BY <1>2, <1>3 DEF Begin
<1>5. QED
  BY <1>1, <1>4 DEF IInv, Typed, StaysDown, world, book, past

------------------------------------------------------------------------------
(* Marks *)

LEMMA SidesMarked ==
  ASSUME Typed, \/ Note \/ Clear \/ Size \/ Ready \/ (\E c \in Callers : Refresh(c))
                \/ UNCHANGED <<status, runErr>>
  PROVE  status' \in [Sides -> SideType] /\ runErr' \in BOOLEAN
<1>1. CASE Note
  BY <1>1 DEF Typed, Note, Each, SideType
<1>2. CASE Clear
  BY <1>2 DEF Typed, Clear, Each, SideType
<1>3. CASE Size
  BY <1>3 DEF Typed, Size, Each, SideType
<1>4. CASE Ready
  <2>1. Posted \in [Sides -> SideType]
    <3>1. \A up, ready, error \in BOOLEAN : Side(up, ready, error) \in SideType
      BY DEF Side, SideType
    <3>2. \A x, y \in SideType : [output |-> x, input |-> y] \in [Sides -> SideType]
      BY DEF Sides
    <3>3. DEFINE screen == "screen" \in granted
                 input == "input" \in granted
    <3>4. Posted = [output |-> Side(TRUE, screen, ~screen), input |-> Side(TRUE, input, ~input)]
      BY DEF Posted
    <3>5. screen \in BOOLEAN /\ (~screen) \in BOOLEAN /\ input \in BOOLEAN /\ (~input) \in BOOLEAN
      OBVIOUS
    <3>6. HIDE DEF screen, input
    <3>7. Side(TRUE, screen, ~screen) \in SideType /\ Side(TRUE, input, ~input) \in SideType
      BY <3>1, <3>5
    <3>8. QED
      BY <3>2, <3>4, <3>7
  <2>2. CASE kind = "macos"
    BY <1>4, <2>1, <2>2 DEF Ready
  <2>3. CASE kind # "macos"
    <3>1. /\ runErr' = FALSE
          /\ Each(LAMBDA s : [s EXCEPT !.ready = TRUE, !.error = FALSE])
      BY <1>4, <2>3, Zenon DEF Ready
    <3>2. \A s \in SideType : [s EXCEPT !.ready = TRUE, !.error = FALSE] \in SideType
      BY DEF SideType
    <3>3. status' = [s \in Sides |-> [status[s] EXCEPT !.ready = TRUE, !.error = FALSE]]
      BY <3>1 DEF Each
    <3>4. QED
      BY <3>1, <3>2, <3>3 DEF Typed
  <2>4. QED
    BY <1>4, <2>2, <2>3 DEF Ready
<1>5. ASSUME NEW c \in Callers, Refresh(c)
      PROVE  status' \in [Sides -> SideType] /\ runErr' \in BOOLEAN
  BY <1>5, RefreshTyped DEF Refresh, Typed, Calls
<1>6. QED
  BY <1>1, <1>2, <1>3, <1>4, <1>5 DEF Typed

\* Only what macOS records puts a side up again.
LEMMA SidesStayDown ==
  ASSUME Typed, \A s \in Sides : ~status[s].up,
         \/ Note \/ Clear \/ Size \/ (Ready /\ kind # "macos") \/ UNCHANGED <<status, runErr>>
  PROVE  \A s \in Sides : ~status'[s].up
BY DEF Typed, Note, Clear, Size, Ready, Each, SideType

LEMMA MarkStep ==
  ASSUME IInv, NEW c \in Callers, Mark(c)
  PROVE  IInv'
<1>1. DEFINE mark == Head(call[c].marks)
             rest == Tail(call[c].marks)
<1>2. /\ call[c] \in Calls(kind) /\ call[c].at = "marking"
      /\ UNCHANGED <<world, shut, once, done>>
  BY DEF IInv, Typed, Mark
<1>3. call[c].marks \in Marks(kind)
  BY <1>2 DEF Calls
<1>4. /\ mark \in {"note", "clear", "ready", "size", "measure", "refresh"}
      /\ rest \in {<<>>} \cup Marks(kind)
      /\ mark = "measure" => rest = <<"refresh">>
      /\ kind # "macos" => mark \notin {"measure", "refresh"}
  BY <1>3, MarksTaken
<1>5. /\ call' = [call EXCEPT ![c] =
                    IF rest = <<>> THEN Idle
                    ELSE [@ EXCEPT !.marks = rest, !.seen = IF mark = "measure" THEN granted ELSE {}]]
      /\ CASE mark = "note" -> Note
           [] mark = "clear" -> Clear
           [] mark = "size" -> Size
           [] mark = "ready" -> Ready
           [] mark = "measure" -> UNCHANGED <<status, runErr>>
           [] mark = "refresh" -> Refresh(c)
      /\ late' = (late \/ (kind = "macos" /\ shut /\ mark # "measure"))
  BY DEF Mark
<1>6. HIDE DEF mark, rest
<1>7. \/ Note \/ Clear \/ Size \/ (Ready /\ mark = "ready") \/ (Refresh(c) /\ mark = "refresh")
      \/ UNCHANGED <<status, runErr>>
  BY <1>4, <1>5
<1>8. call' \in [Callers -> Calls(kind)]
  <2>1. CASE rest = <<>>
    BY <1>5, <2>1, IdleIsCall DEF IInv, Typed
  <2>2. CASE rest # <<>>
    <3>1. DEFINE seen == IF mark = "measure" THEN granted ELSE {}
    <3>2. call' = [call EXCEPT ![c] = [call[c] EXCEPT !.marks = rest, !.seen = seen]]
      BY <1>5, <2>2 DEF IInv, Typed
    <3>3. seen \in SUBSET Grants /\ (seen # {} => rest = <<"refresh">>)
      BY <1>4 DEF IInv, Typed
    <3>4. HIDE DEF seen
    <3>5. [call[c] EXCEPT !.marks = rest, !.seen = seen] \in Calls(kind)
      BY <1>2, <1>4, <2>2, <3>3 DEF Calls
    <3>6. QED
      BY <3>2, <3>5 DEF IInv, Typed
  <2>3. QED
    BY <2>1, <2>2
<1>9. status' \in [Sides -> SideType] /\ runErr' \in BOOLEAN
  BY <1>7, SidesMarked DEF IInv
<1>10. StaysDown'
  <2>1. SUFFICES ASSUME shut, ~late' PROVE \A s \in Sides : ~status'[s].up
    BY <1>2 DEF StaysDown
  <2>2. ~late /\ \A s \in Sides : ~status[s].up
    BY <1>5, <2>1 DEF IInv, StaysDown
  <2>3. Note \/ Clear \/ Size \/ (Ready /\ kind # "macos") \/ UNCHANGED <<status, runErr>>
    BY <1>4, <1>5, <1>7, <2>1
  <2>4. QED
    BY <2>2, <2>3, SidesStayDown DEF IInv
<1>11. late' \in BOOLEAN
  BY <1>5
<1>12. QED
  BY <1>2, <1>8, <1>9, <1>10, <1>11 DEF IInv, Typed, world

------------------------------------------------------------------------------
(* Close, and the world *)

Closing(c) == Enter(c) \/ CloseStatus(c) \/ CloseLink(c) \/ CloseDone(c) \/ Leave(c)

LEMMA ClosingStep ==
  ASSUME IInv, NEW c \in Callers, Closing(c)
  PROVE  IInv'
<1>1. UNCHANGED <<kind, opts, granted, past, runErr>>
  BY DEF Closing, Enter, CloseStatus, CloseLink, CloseDone, Leave, world, book
<1>2. call[c].at # "marking" /\ \E at \in Places \ {"starting"} : To(c, at)
  BY DEF Closing, Enter, CloseStatus, CloseLink, CloseDone, Leave, Places
<1>3. Moves(c)
  BY <1>2, ToMoves DEF IInv
<1>4. call' \in [Callers -> Calls(kind)]
  BY <1>3 DEF IInv, Typed, Moves
<1>5. once' \in {"fresh", "spent"} \cup Callers /\ done' \in BOOLEAN /\ (done' <=> once' = "spent")
  <2>1. CASE Enter(c)
    <3>1. c # "spent" /\ done' = done
      BY <2>1, CallerAssumption DEF Enter
    <3>2. once' = c \/ once' = once
      BY <2>1 DEF Enter
    <3>3. once' = c => once # "spent" \/ once' = once
      BY <2>1 DEF Enter
    <3>4. QED
      BY <3>1, <3>2, <3>3 DEF IInv, Typed
  <2>2. CASE CloseDone(c)
    BY <2>2 DEF CloseDone
  <2>3. CASE CloseStatus(c) \/ CloseLink(c) \/ Leave(c)
    BY <2>3 DEF IInv, Typed, CloseStatus, CloseLink, Leave, book
  <2>4. QED
    BY <2>1, <2>2, <2>3 DEF Closing
<1>6. shut' \in BOOLEAN /\ link' \in {"none", "up", "silent", "dropped", "closed"}
  BY DEF IInv, Typed, Closing, Enter, CloseStatus, CloseLink, CloseDone, Leave, book, world
<1>7. status' \in [Sides -> SideType] /\ StaysDown'
  <2>1. CASE CloseStatus(c)
    <3>1. /\ status' = [s \in Sides |->
                         [status[s] EXCEPT !.up = FALSE,
                                           !.ready = @ /\ kind \in {"command", "ssh", "kwin"}]]
      BY <2>1 DEF CloseStatus, Each
    <3>2. \A s \in Sides : (status[s].ready /\ kind \in {"command", "ssh", "kwin"}) \in BOOLEAN
      OBVIOUS
    <3>3. \A x \in SideType, ready \in BOOLEAN :
            LET y == [x EXCEPT !.up = FALSE, !.ready = ready] IN y \in SideType /\ ~y.up
      BY DEF SideType
    <3>4. \A s \in Sides : status'[s] \in SideType /\ ~status'[s].up
      BY <3>1, <3>2, <3>3 DEF IInv, Typed
    <3>5. QED
      BY <3>1, <3>4 DEF StaysDown
  <2>2. CASE Enter(c) \/ CloseLink(c) \/ CloseDone(c) \/ Leave(c)
    <3>1. UNCHANGED <<status, shut, late>>
      BY <2>2 DEF Enter, CloseLink, CloseDone, Leave, book, past
    <3>2. QED
      BY <3>1 DEF IInv, Typed, StaysDown
  <2>3. QED
    BY <2>1, <2>2 DEF Closing
<1>8. QED
  BY <1>1, <1>4, <1>5, <1>6, <1>7 DEF IInv, Typed, past

LEMMA CallCloseStep ==
  ASSUME IInv, NEW c \in Callers, CallClose(c)
  PROVE  IInv'
<1>1. [Idle EXCEPT !.at = "entering", !.op = "close"] \in Calls(kind)
  BY DEF Idle, Calls, Places
<1>2. Moves(c) /\ UNCHANGED <<world, book, past>>
  BY <1>1 DEF CallClose, Moves
<1>3. QED
  BY <1>2, MovesKeep

LEMMA WorldStep ==
  ASSUME IInv, (\E l \in {"up", "silent", "dropped"} : Unlink(l)) \/ (\E g \in Grants : Change(g))
  PROVE  IInv'
<1>1. UNCHANGED <<kind, opts, book, late>>
  BY DEF Unlink, Change, past
<1>2. CASE \E l \in {"up", "silent", "dropped"} : Unlink(l)
  BY <1>2, <1>1 DEF IInv, Typed, StaysDown, Unlink, book
<1>3. CASE \E g \in Grants : Change(g)
  <2>1. granted' \subseteq Grants /\ UNCHANGED link
    BY <1>3 DEF IInv, Typed, Change
  <2>2. \A d \in Callers : [call[d] EXCEPT !.alone = @ /\ ~InCall(d)] \in Calls(kind)
    <3>1. TAKE d \in Callers
    <3>2. (call[d].alone /\ ~InCall(d)) \in BOOLEAN
      OBVIOUS
    <3>3. QED
      BY <3>2, MixedIsCall DEF IInv, Typed
  <2>3. call' \in [Callers -> Calls(kind)]
    BY <1>3, <2>2 DEF Change
  <2>4. QED
    BY <1>1, <2>1, <2>3 DEF IInv, Typed, StaysDown, book
<1>4. QED
  BY <1>2, <1>3

LEMMA NextInv == IInv /\ [Next]_vars => IInv'
<1>1. SUFFICES ASSUME IInv, [Next]_vars PROVE IInv'
  OBVIOUS
<1>2. CASE UNCHANGED vars
  BY <1>1, <1>2 DEF IInv, Typed, StaysDown, vars, world, book, past
<1>3. ASSUME NEW c \in Callers, Work(c) \/ TimeOut(c) \/ Outside(c) PROVE IInv'
  <2>1. Underway(c) \/ Mark(c) \/ Closing(c)
    BY <1>3 DEF Work, Underway, Closing
  <2>2. QED
    BY <1>1, <2>1, UnderwayStep, MarkStep, ClosingStep
<1>4. QED
  BY <1>1, <1>2, <1>3, BeginStep, CallCloseStep, WorldStep DEF Next

------------------------------------------------------------------------------
(* The backend is a resource, and shows what became of its calls *)

ClosePlaces == {"entering", "closing", "unlinking", "ending", "leaving", "closed"}

\* closeOnce: one caller at a time closes, and only once; the others wait
\* for what their kind of backend waits for.
Attended ==
  /\ \A c \in Callers :
       /\ call[c].op = "close" <=> call[c].at \in ClosePlaces
       /\ call[c].at = "leaving" => done
       /\ call[c].at \in {"closing", "unlinking", "ending"} => once = c
       /\ call[c].at = "closing" => ~shut
       /\ call[c].at \in {"opening", "running", "killed", "held"} => kind \in {"command", "ssh"}
       /\ call[c].at = "asking" => kind = "kwin"
  /\ shut => once # "fresh"
  /\ late => shut

\* A call that ran by itself had nobody in a call beside it.
Alone ==
  \A c, d \in Callers : InCall(c) /\ call[c].alone /\ c # d => ~InCall(d)

\* What a call that failed, or did not, has left to record.
Left(k, failed) ==
  CASE failed /\ k = "macos" -> Fresher
    [] failed /\ k # "macos" -> {<<"note">>, <<"clear", "note">>, <<"ready", "note">>}
    [] ~failed /\ k = "macos" -> Fresher \cup {<<"ready">>}
    [] ~failed /\ k = "kwin" -> {<<"clear">>, <<"size", "clear">>}
    [] OTHER -> {<<"clear">>, <<"ready">>, <<"size">>, <<"clear", "size">>, <<"ready", "clear">>}

\* One that ran by itself on macOS has what it needed, and measured what is.
Recording ==
  \A c \in Callers :
    call[c].at = "marking" =>
      /\ call[c].marks \in Left(kind, call[c].failed)
      /\ call[c].alone /\ kind = "macos" =>
           /\ call[c].marks = <<"refresh">> => call[c].seen = granted
           /\ call[c].marks = <<"ready">> => "display" \in granted

\* What ErrorShows says of the last result.
Claim ==
  IF told[1] = "failed"
  THEN \A s \in Sides : Shown(s)
  ELSE CASE kind # "macos" -> \A s \in Sides : ~Shown(s)
         [] kind = "macos" /\ (~shut \/ late) ->
              /\ Healthy("output") <=>
                   {"display", "screen"} \cup (IF told[2] = "ready" THEN {} ELSE {"probe"})
                     \subseteq granted
              /\ Healthy("input") <=> {"display", "input"} \subseteq granted
         [] OTHER -> TRUE

\* It holds until the next call records something, and again when that call
\* has recorded all.
Told == told # <<"mixed">> => Claim \/ \E c \in Callers : call[c].at = "marking"

Report == Attended /\ Alone /\ Recording /\ Told

\* A step of c moves nobody else.
Only(c) == \A d \in Callers : d # c => call'[d] = call[d]

LEMMA ToGoes ==
  ASSUME Typed, NEW c \in Callers, NEW at, To(c, at)
  PROVE  Only(c) /\ call'[c].at = at /\ call'[c].op = call[c].op /\ call'[c].alone = call[c].alone
<1>1. call[c] \in Calls(kind)
  BY DEF Typed
<1>2. call[c] = [at |-> call[c].at, op |-> call[c].op, marks |-> call[c].marks,
                 failed |-> call[c].failed, alone |-> call[c].alone, seen |-> call[c].seen]
  BY <1>1 DEF Calls
<1>3. call'[c] = [call[c] EXCEPT !.at = at]
  BY DEF To, Typed
<1>4. call'[c] = [at |-> at, op |-> call[c].op, marks |-> call[c].marks,
                  failed |-> call[c].failed, alone |-> call[c].alone, seen |-> call[c].seen]
  BY <1>2, <1>3
<1>5. QED
  BY <1>4 DEF Only, To, Typed

LEMMA ConcludeGoes ==
  ASSUME Typed, NEW c \in Callers, NEW failed, NEW marks, Conclude(c, failed, marks)
  PROVE  /\ Only(c) /\ call'[c].at = "marking" /\ call'[c].marks = marks
         /\ call'[c].failed = failed
         /\ call'[c].op = call[c].op /\ call'[c].alone = call[c].alone
<1>1. call[c] \in Calls(kind)
  BY DEF Typed
<1>2. call[c] = [at |-> call[c].at, op |-> call[c].op, marks |-> call[c].marks,
                 failed |-> call[c].failed, alone |-> call[c].alone, seen |-> call[c].seen]
  BY <1>1 DEF Calls
<1>3. call'[c] = [call[c] EXCEPT !.at = "marking", !.failed = failed, !.marks = marks]
  BY DEF Conclude, Typed
<1>4. call'[c] = [at |-> "marking", op |-> call[c].op, marks |-> marks,
                  failed |-> failed, alone |-> call[c].alone, seen |-> call[c].seen]
  BY <1>2, <1>3
<1>5. QED
  BY <1>4 DEF Only, Conclude, Typed

------------------------------------------------------------------------------
(* A call on its way *)

OnTheWay == {"starting", "opening", "running", "killed", "held", "asking"}

\* Where a step leaves a call: ended without a trace, still on its way, or
\* with what its kind of backend records.
Goes(c) ==
  \/ call'[c] = Idle
  \/ /\ call'[c].op = call[c].op
     /\ call'[c].alone = call[c].alone
     /\ \/ call'[c].at \in {"opening", "running", "killed", "held"} /\ kind \in {"command", "ssh"}
        \/ call'[c].at = "asking" /\ kind = "kwin"
        \/ /\ call'[c].at = "marking"
           /\ call'[c].marks \in Left(kind, call'[c].failed)
           /\ call'[c].marks # <<"refresh">>
           /\ kind = "macos" /\ call'[c].marks = <<"ready">> => "display" \in granted

LEMMA ConcludeLeft ==
  ASSUME Typed, NEW c \in Callers, NEW failed, NEW marks, Conclude(c, failed, marks),
         marks \in Left(kind, failed), marks # <<"refresh">>,
         kind = "macos" /\ marks = <<"ready">> => "display" \in granted
  PROVE  Only(c) /\ Goes(c)
BY ConcludeGoes DEF Goes

LEMMA LeftOthers ==
  ASSUME NEW k \in {"command", "ssh", "kwin", "windows"}
  PROVE  Left(k, TRUE) = {<<"note">>, <<"clear", "note">>, <<"ready", "note">>}
BY DEF Left

LEMMA LeftCommand ==
  ASSUME NEW k \in {"command", "ssh", "windows"}
  PROVE  Left(k, FALSE) = {<<"clear">>, <<"ready">>, <<"size">>, <<"clear", "size">>, <<"ready", "clear">>}
<1>1. k # "macos" /\ k # "kwin"
  OBVIOUS
<1>2. QED
  BY <1>1 DEF Left

LEMMA LeftKwin == Left("kwin", FALSE) = {<<"clear">>, <<"size", "clear">>}
BY DEF Left

LEMMA LeftMacos == Left("macos", TRUE) = Fresher /\ Left("macos", FALSE) = Fresher \cup {<<"ready">>}
BY DEF Left

LEMMA NotRefresh ==
  /\ <<"note">> # <<"refresh">> /\ <<"clear">> # <<"refresh">> /\ <<"ready">> # <<"refresh">>
  /\ \A a, b : <<a, b>> # <<"refresh">>
  /\ \A a, b : <<a, b>> # <<"ready">>
OBVIOUS

LEMMA RanGoes ==
  ASSUME Typed, NEW c \in Callers, kind \in {"command", "ssh"}, Ran(c)
  PROVE  Only(c) /\ Goes(c)
<1>1. \/ Conclude(c, FALSE, <<"clear", "size">>) \/ Conclude(c, FALSE, <<"clear">>)
      \/ Conclude(c, TRUE, <<"clear", "note">>)
  BY DEF Ran
<1>2. CASE Conclude(c, FALSE, <<"clear", "size">>)
  BY <1>2, LeftCommand, NotRefresh, ConcludeLeft
<1>3. CASE Conclude(c, FALSE, <<"clear">>)
  BY <1>3, LeftCommand, NotRefresh, ConcludeLeft
<1>4. CASE Conclude(c, TRUE, <<"clear", "note">>)
  BY <1>4, LeftOthers, NotRefresh, ConcludeLeft
<1>5. QED
  BY <1>1, <1>2, <1>3, <1>4

LEMMA NoteGoes ==
  ASSUME Typed, NEW c \in Callers, kind \in {"command", "ssh", "kwin", "windows"},
         Conclude(c, TRUE, <<"note">>)
  PROVE  Only(c) /\ Goes(c)
BY LeftOthers, NotRefresh, ConcludeLeft

\* A child has the output of a command open.
Hold(c, failed) == call' = [call EXCEPT ![c].at = "held", ![c].failed = failed]

LEMMA HoldGoes ==
  ASSUME Typed, NEW c \in Callers, NEW failed, kind \in {"command", "ssh"}, Hold(c, failed)
  PROVE  Only(c) /\ Goes(c)
<1>1. call[c] \in Calls(kind)
  BY DEF Typed
<1>2. call'[c] = [call[c] EXCEPT !.at = "held", !.failed = failed]
  BY DEF Typed, Hold
<1>3. call'[c].at = "held" /\ call'[c].op = call[c].op /\ call'[c].alone = call[c].alone
  BY <1>1, <1>2 DEF Calls
<1>4. QED
  BY <1>3 DEF Hold, Only, Goes, Typed

LEMMA UnderwayGoes ==
  ASSUME Typed, Attended, NEW c \in Callers, Underway(c)
  PROVE  call[c].at \in OnTheWay /\ Only(c) /\ Goes(c)
<1>1. call[c].at \in OnTheWay
  BY DEF Underway, OnTheWay, Decline, Render, OpenSession, KilledReturns, Capture, Win32,
         CoreGraphics, TimeOut, Outside, Exit, Orphan, LetGo, CaptureAnswered
<1> SUFFICES Only(c) /\ Goes(c)
  BY <1>1
<1>2. CASE Decline(c)
  BY <1>2 DEF Typed, Decline, Only, Goes
<1>3. CASE Render(c) \/ OpenSession(c) \/ KilledReturns(c)
  <2>1. kind \in {"command", "ssh"}
    BY <1>3 DEF Render, Command, OpenSession, KilledReturns, Attended
  <2>2. Conclude(c, TRUE, <<"note">>) \/ \E at \in {"opening", "running"} : To(c, at)
    BY <1>3 DEF Render, OpenSession, KilledReturns
  <2>3. QED
    BY <2>1, <2>2, NoteGoes, ToGoes DEF Goes
<1>4. CASE Capture(c)
  BY <1>4, ToGoes DEF Capture, Goes
<1>5. CASE CaptureAnswered(c)
  <2>1. kind = "kwin"
    BY <1>5 DEF CaptureAnswered, Attended
  <2>2. \/ Conclude(c, TRUE, <<"note">>)
        \/ Conclude(c, FALSE, <<"size", "clear">>) \/ Conclude(c, FALSE, <<"clear">>)
    BY <1>5 DEF CaptureAnswered
  <2>3. CASE Conclude(c, FALSE, <<"size", "clear">>)
    BY <2>1, <2>3, LeftKwin, NotRefresh, ConcludeLeft
  <2>4. CASE Conclude(c, FALSE, <<"clear">>)
    BY <2>1, <2>4, LeftKwin, NotRefresh, ConcludeLeft
  <2>5. QED
    BY <2>1, <2>2, <2>3, <2>4, NoteGoes
<1>6. CASE Win32(c)
  <2>1. kind = "windows"
    BY <1>6 DEF Win32
  <2>2. \/ Conclude(c, TRUE, <<"note">>) \/ Conclude(c, FALSE, <<"ready">>)
        \/ Conclude(c, FALSE, <<"clear">>) \/ Conclude(c, FALSE, <<"ready", "clear">>)
        \/ Conclude(c, TRUE, <<"ready", "note">>)
    <3>1. call[c].op \in {"shot", "crop"} \cup {"key", "scancode"} \cup {"mouse"}
      BY <1>6 DEF Typed, Calls, Ops, InputOps, Win32
    <3>2. QED
      BY <1>6, <3>1 DEF Win32
  <2>3. CASE Conclude(c, FALSE, <<"ready">>)
    BY <2>1, <2>3, LeftCommand, NotRefresh, ConcludeLeft
  <2>4. CASE Conclude(c, FALSE, <<"clear">>)
    BY <2>1, <2>4, LeftCommand, NotRefresh, ConcludeLeft
  <2>5. CASE Conclude(c, FALSE, <<"ready", "clear">>)
    BY <2>1, <2>5, LeftCommand, NotRefresh, ConcludeLeft
  <2>6. CASE Conclude(c, TRUE, <<"ready", "note">>)
    BY <2>1, <2>6, LeftOthers, NotRefresh, ConcludeLeft
  <2>7. QED
    BY <2>1, <2>2, <2>3, <2>4, <2>5, <2>6, NoteGoes
<1>7. CASE CoreGraphics(c)
  <2>1. kind = "macos"
    BY <1>7 DEF CoreGraphics
  <2>2. \/ Conclude(c, TRUE, <<"measure", "refresh">>)
        \/ Conclude(c, FALSE, <<"measure", "refresh">>)
        \/ Conclude(c, FALSE, <<"ready">>) /\ "display" \in granted
    BY <1>7 DEF CoreGraphics, Needs
  <2>3. CASE Conclude(c, TRUE, <<"measure", "refresh">>)
    BY <2>1, <2>3, LeftMacos, NotRefresh, ConcludeLeft DEF Fresher
  <2>4. CASE Conclude(c, FALSE, <<"measure", "refresh">>)
    BY <2>1, <2>4, LeftMacos, NotRefresh, ConcludeLeft DEF Fresher
  <2>5. CASE Conclude(c, FALSE, <<"ready">>) /\ "display" \in granted
    BY <2>1, <2>5, LeftMacos, NotRefresh, ConcludeLeft
  <2>6. QED
    BY <2>2, <2>3, <2>4, <2>5
<1>8. CASE TimeOut(c)
  <2>1. kind \in {"command", "ssh"}
    BY <1>8 DEF TimeOut, Command
  <2>2. \/ To(c, "killed") \/ Conclude(c, TRUE, <<"note">>)
        \/ \E failed \in BOOLEAN : Hold(c, failed)
    BY <1>8 DEF TimeOut, Hold
  <2>3. CASE To(c, "killed")
    BY <2>1, <2>3, ToGoes DEF Goes
  <2>4. CASE Conclude(c, TRUE, <<"note">>)
    BY <2>1, <2>4, NoteGoes
  <2>5. CASE \E failed \in BOOLEAN : Hold(c, failed)
    BY <2>1, <2>5, HoldGoes
  <2>6. QED
    BY <2>2, <2>3, <2>4, <2>5
<1>9. CASE Exit(c) \/ (\E failed \in BOOLEAN : Orphan(c, failed)) \/ LetGo(c)
  <2>1. kind \in {"command", "ssh"}
    BY <1>9 DEF Exit, Command, Orphan, LetGo, Attended
  <2>2. \/ Ran(c) \/ Conclude(c, TRUE, <<"note">>)
        \/ \E failed \in BOOLEAN : Hold(c, failed)
    BY <1>9 DEF Exit, Orphan, LetGo, Hold
  <2>3. CASE Ran(c)
    BY <2>1, <2>3, RanGoes
  <2>4. CASE Conclude(c, TRUE, <<"note">>)
    BY <2>1, <2>4, NoteGoes
  <2>5. CASE \E failed \in BOOLEAN : Hold(c, failed)
    BY <2>1, <2>5, HoldGoes
  <2>6. QED
    BY <2>2, <2>3, <2>4, <2>5
<1>10. QED
  BY <1>1, <1>2, <1>3, <1>4, <1>5, <1>6, <1>7, <1>8, <1>9 DEF Underway, Outside

LEMMA AloneKept ==
  ASSUME NEW c \in Callers, Alone, Only(c),
         InCall(c)' => InCall(c) /\ call'[c].alone = call[c].alone
  PROVE  Alone'
<1>1. \A d \in Callers : InCall(d)' => InCall(d) /\ call'[d].alone = call[d].alone
  BY DEF Only, InCall, InFlight
<1>2. QED
  BY <1>1 DEF Alone

LEMMA UnderwayReports ==
  ASSUME Typed, Report, NEW c \in Callers, Underway(c)
  PROVE  Report'
<1>1. UNCHANGED <<kind, opts, link, granted, status, runErr, shut, once, done, told, late>>
  BY DEF Underway, Decline, Render, OpenSession, KilledReturns, Capture, Win32, CoreGraphics,
         TimeOut, Outside, Exit, Orphan, LetGo, CaptureAnswered, world, book, past
<1>2. call[c].at \in OnTheWay /\ Only(c) /\ Goes(c)
  BY UnderwayGoes DEF Report
<1>3. call[c].op # "close"
  BY <1>2 DEF Report, Attended, OnTheWay, ClosePlaces
<1>4. Attended'
  <2>1. \A d \in Callers : d # c => call'[d] = call[d]
    BY <1>2 DEF Only
  <2>2. /\ call'[c].op # "close" /\ call'[c].at \notin ClosePlaces
        /\ call'[c].at \in {"opening", "running", "killed", "held"} => kind \in {"command", "ssh"}
        /\ call'[c].at = "asking" => kind = "kwin"
    BY <1>2, <1>3 DEF Goes, Idle, ClosePlaces
  <2>3. QED
    BY <1>1, <2>1, <2>2 DEF Report, Attended, ClosePlaces
<1>5. Alone'
  <2>1. InCall(c)' => call'[c].alone = call[c].alone
    BY <1>2 DEF Goes, Idle, InCall, InFlight
  <2>2. InCall(c)
    BY <1>2, <1>3 DEF InCall, InFlight, OnTheWay
  <2>3. QED
    BY <1>2, <2>1, <2>2, AloneKept DEF Report
<1>6. Recording'
  <2>1. \A d \in Callers : d # c => call'[d] = call[d]
    BY <1>2 DEF Only
  <2>2. call'[c].at = "marking" =>
          /\ call'[c].marks \in Left(kind, call'[c].failed)
          /\ call'[c].marks # <<"refresh">>
          /\ kind = "macos" /\ call'[c].marks = <<"ready">> => "display" \in granted
    BY <1>2 DEF Goes, Idle
  <2>3. QED
    BY <1>1, <2>1, <2>2 DEF Report, Recording
<1>7. Told'
  <2>1. (\E d \in Callers : call[d].at = "marking") => \E d \in Callers : call'[d].at = "marking"
    BY <1>2 DEF Only, OnTheWay
  <2>2. Claim' <=> Claim
    BY <1>1 DEF Claim, Healthy, Shown
  <2>3. QED
    BY <1>1, <2>1, <2>2 DEF Report, Told
<1>8. QED
  BY <1>4, <1>5, <1>6, <1>7 DEF Report

LEMMA BeginReports ==
  ASSUME Typed, Report, NEW c \in Callers, NEW op \in Ops, Begin(c, op)
  PROVE  Report'
<1>1. UNCHANGED <<kind, opts, link, granted, status, runErr, shut, once, done, told, late>>
      /\ call[c].at = "idle"
  BY DEF Begin, world, book, past
<1>2. /\ call'[c].at = "starting" /\ call'[c].op = op /\ call'[c].alone = Quiet
  BY DEF Begin, Idle
<1>3. op # "close"
  BY DEF Ops, InputOps
<1>4. ASSUME NEW d \in Callers, d # c
      PROVE  /\ call'[d].at = call[d].at /\ call'[d].op = call[d].op
             /\ call'[d].marks = call[d].marks /\ call'[d].failed = call[d].failed
             /\ call'[d].seen = call[d].seen
             /\ call'[d].alone = (call[d].alone /\ ~InCall(d))
  <2>1. call'[d] = [call[d] EXCEPT !.alone = @ /\ ~InCall(d)]
    BY <1>4 DEF Begin
  <2>2. call[d] \in Calls(kind)
    BY DEF Typed
  <2>3. QED
    BY <2>1, <2>2 DEF Calls
<1>5. Attended'
  <2>1. \A d \in Callers \ {c} : call'[d].at = call[d].at /\ call'[d].op = call[d].op
    BY <1>4
  <2>2. QED
    BY <1>1, <1>2, <1>3, <2>1 DEF Report, Attended, ClosePlaces
<1>6. Alone'
  <2>1. \A d \in Callers \ {c} : (InCall(d)' <=> InCall(d)) /\ (InCall(d) => ~call'[d].alone)
    BY <1>4 DEF InCall, InFlight
  <2>2. call'[c].alone => \A d \in Callers : ~InCall(d)
    BY <1>2 DEF Quiet
  <2>3. QED
    BY <2>1, <2>2 DEF Alone
<1>7. Recording'
  <2>1. ASSUME NEW d \in Callers, call'[d].at = "marking"
        PROVE  d # c /\ call[d].at = "marking" /\ (call'[d].alone => call[d].alone)
               /\ call'[d].marks = call[d].marks /\ call'[d].failed = call[d].failed
               /\ call'[d].seen = call[d].seen
    BY <1>2, <1>4, <2>1
  <2>2. QED
    BY <1>1, <2>1 DEF Report, Recording
<1>8. Told'
  <2>1. (\E d \in Callers : call[d].at = "marking") => \E d \in Callers : call'[d].at = "marking"
    BY <1>1, <1>4
  <2>2. Claim' <=> Claim
    BY <1>1 DEF Claim, Healthy, Shown
  <2>3. QED
    BY <1>1, <2>1, <2>2 DEF Report, Told
<1>9. QED
  BY <1>5, <1>6, <1>7, <1>8 DEF Report

LEMMA CallCloseReports ==
  ASSUME Typed, Report, NEW c \in Callers, CallClose(c)
  PROVE  Report'
<1>1. UNCHANGED <<kind, opts, link, granted, status, runErr, shut, once, done, told, late>>
      /\ call[c].at = "idle"
  BY DEF CallClose, world, book, past
<1>2. call'[c].at = "entering" /\ call'[c].op = "close" /\ Only(c)
  BY DEF CallClose, Typed, Idle, Only
<1>3. Attended'
  BY <1>1, <1>2 DEF Report, Attended, ClosePlaces, Only
<1>4. Alone'
  BY <1>2, AloneKept DEF Report, InCall
<1>5. Recording'
  BY <1>1, <1>2 DEF Report, Recording, Only
<1>6. Told'
  <2>1. (\E d \in Callers : call[d].at = "marking") => \E d \in Callers : call'[d].at = "marking"
    BY <1>1, <1>2 DEF Only
  <2>2. Claim' <=> Claim
    BY <1>1 DEF Claim, Healthy, Shown
  <2>3. QED
    BY <1>1, <2>1, <2>2 DEF Report, Told
<1>7. QED
  BY <1>3, <1>4, <1>5, <1>6 DEF Report

\* Closing disconnects; what a call has left as an error stays.
LEMMA ClosingReports ==
  ASSUME Typed, Report, NEW c \in Callers, Closing(c)
  PROVE  Report'
<1>1. UNCHANGED <<kind, opts, granted, runErr, told, late>>
  BY DEF Closing, Enter, CloseStatus, CloseLink, CloseDone, Leave, world, book, past
<1>2. \E at \in {"closing", "leaving", "unlinking", "ending", "closed"} : To(c, at)
  BY DEF Closing, Enter, CloseStatus, CloseLink, CloseDone, Leave
<1>3. Only(c) /\ call'[c].op = call[c].op /\ call'[c].alone = call[c].alone
      /\ call'[c].at \in ClosePlaces \ {"entering"}
  BY <1>2, ToGoes DEF ClosePlaces
<1>4. call[c].at \in ClosePlaces /\ call[c].op = "close"
  BY DEF Closing, Enter, CloseStatus, CloseLink, CloseDone, Leave, ClosePlaces, Report, Attended
<1>5. c # "fresh" /\ c # "spent" /\ (done <=> once = "spent")
  BY CallerAssumption DEF Typed
<1>6. Attended'
  <2>1. CASE Enter(c)
    <3>1. UNCHANGED <<shut, done>>
          /\ \/ once = "fresh" /\ once' = c /\ To(c, "closing")
             \/ once = "spent" /\ once' = once /\ To(c, "leaving")
      BY <2>1, CallerAssumption DEF Enter
    <3>2. CASE once = "fresh" /\ once' = c /\ To(c, "closing")
      <4>1. call'[c].at = "closing" /\ ~shut
        BY <3>2, ToGoes DEF Report, Attended
      <4>2. \A d \in Callers : call[d].at \notin {"closing", "unlinking", "ending"}
        BY <3>2, CallerAssumption DEF Report, Attended
      <4>3. QED
        BY <1>1, <1>3, <1>4, <1>5, <3>1, <3>2, <4>1, <4>2 DEF Report, Attended, Only
    <3>3. CASE once = "spent" /\ once' = once /\ To(c, "leaving")
      <4>1. call'[c].at = "leaving"
        BY <3>3, ToGoes
      <4>2. QED
        BY <1>1, <1>3, <1>4, <1>5, <3>1, <3>3, <4>1 DEF Report, Attended, Only
    <3>4. QED
      BY <3>1, <3>2, <3>3
  <2>2. CASE CloseStatus(c)
    <3>1. call'[c].at = "unlinking" /\ call[c].at = "closing" /\ shut' = TRUE
          /\ UNCHANGED <<once, done>>
      BY <2>2, ToGoes DEF CloseStatus
    <3>2. once = c /\ \A d \in Callers : d # c => call[d].at # "closing"
      BY <3>1 DEF Report, Attended
    <3>3. QED
      BY <1>1, <1>3, <1>4, <1>5, <3>1, <3>2 DEF Report, Attended, Only
  <2>3. CASE CloseLink(c)
    <3>1. call'[c].at = "ending" /\ call[c].at = "unlinking" /\ UNCHANGED <<shut, once, done>>
      BY <2>3, ToGoes DEF CloseLink, book
    <3>2. QED
      BY <1>1, <1>3, <1>4, <3>1 DEF Report, Attended, Only
  <2>4. CASE CloseDone(c)
    <3>1. call'[c].at = "leaving" /\ call[c].at = "ending" /\ UNCHANGED shut
          /\ once' = "spent" /\ done' = TRUE
      BY <2>4, ToGoes DEF CloseDone
    <3>2. \A d \in Callers : d # c => call[d].at \notin {"closing", "unlinking", "ending"}
      BY <3>1 DEF Report, Attended
    <3>3. QED
      BY <1>1, <1>3, <1>4, <3>1, <3>2 DEF Report, Attended, Only
  <2>5. CASE Leave(c)
    <3>1. call'[c].at = "closed" /\ UNCHANGED <<shut, once, done>>
      BY <2>5, ToGoes DEF Leave, book
    <3>2. QED
      BY <1>1, <1>3, <1>4, <3>1 DEF Report, Attended, Only
  <2>6. QED
    BY <2>1, <2>2, <2>3, <2>4, <2>5 DEF Closing
<1>7. Alone'
  BY <1>3, <1>4, AloneKept DEF Report, InCall
<1>8. Recording'
  BY <1>1, <1>3 DEF Report, Recording, Only, ClosePlaces
<1>9. Told'
  <2>1. (\E d \in Callers : call[d].at = "marking") => \E d \in Callers : call'[d].at = "marking"
    BY <1>3, <1>4 DEF Only, ClosePlaces
  <2>2. Claim => Claim'
    <3>1. CASE CloseStatus(c)
      <4>1. \A s \in Sides : status'[s].error = status[s].error
        <5>1. TAKE s \in Sides
        <5>2. status'[s] = [status[s] EXCEPT !.up = FALSE,
                                             !.ready = @ /\ kind \in {"command", "ssh", "kwin"}]
          BY <3>1 DEF CloseStatus, Each
        <5>3. status[s] \in SideType
          BY DEF Typed
        <5>4. QED
          BY <5>2, <5>3 DEF SideType
      <4>2. \A s \in Sides : Shown(s)' <=> Shown(s)
        BY <1>1, <4>1 DEF Shown
      <4>3. shut' /\ ~late'
        BY <1>1, <3>1 DEF CloseStatus, Report, Attended
      <4>4. QED
        BY <1>1, <4>2, <4>3 DEF Claim
    <3>2. CASE ~CloseStatus(c)
      <4>1. UNCHANGED <<status, shut>>
        BY <3>2 DEF Closing, Enter, CloseLink, CloseDone, Leave, book
      <4>2. QED
        BY <1>1, <4>1 DEF Claim, Healthy, Shown
    <3>3. QED
      BY <3>1, <3>2
  <2>3. QED
    BY <1>1, <2>1, <2>2 DEF Report, Told
<1>10. QED
  BY <1>6, <1>7, <1>8, <1>9 DEF Report

LEMMA WorldReports ==
  ASSUME Typed, Report,
         (\E l \in {"up", "silent", "dropped"} : Unlink(l)) \/ (\E g \in Grants : Change(g))
  PROVE  Report'
<1>1. CASE \E l \in {"up", "silent", "dropped"} : Unlink(l)
  <2>1. UNCHANGED <<kind, opts, granted, status, runErr, shut, once, done, call, told, late>>
    BY <1>1 DEF Unlink, book, past
  <2>2. Alone'
    BY <2>1 DEF Report, Alone, InCall, InFlight
  <2>3. Told'
    BY <2>1 DEF Report, Told, Claim, Healthy, Shown
  <2>4. QED
    BY <2>1, <2>2, <2>3 DEF Report, Attended, Recording
<1>2. CASE \E g \in Grants : Change(g)
  <2>1. UNCHANGED <<kind, opts, link, status, runErr, shut, once, done, late>> /\ told' = <<"mixed">>
    BY <1>2 DEF Change, book
  <2>2. ASSUME NEW d \in Callers
        PROVE  /\ call'[d].at = call[d].at /\ call'[d].op = call[d].op
               /\ call'[d].marks = call[d].marks /\ call'[d].failed = call[d].failed
               /\ call'[d].alone = (call[d].alone /\ ~InCall(d))
    <3>1. call'[d] = [call[d] EXCEPT !.alone = @ /\ ~InCall(d)]
      BY <1>2 DEF Change
    <3>2. call[d] \in Calls(kind)
      BY DEF Typed
    <3>3. QED
      BY <3>1, <3>2 DEF Calls
  <2>3. Attended'
    BY <2>1, <2>2 DEF Report, Attended
  <2>4. \A d \in Callers : (InCall(d)' <=> InCall(d)) /\ (InCall(d) => ~call'[d].alone)
    BY <2>2 DEF InCall, InFlight
  <2>5. Alone'
    BY <2>4 DEF Alone
  <2>6. Recording'
    <3>1. \A d \in Callers : call[d].at = "marking" => InCall(d)
      BY DEF InCall, InFlight, Report, Attended, ClosePlaces
    <3>2. QED
      BY <2>1, <2>2, <2>4, <3>1 DEF Report, Recording
  <2>7. Told'
    BY <2>1 DEF Told
  <2>8. QED
    BY <2>3, <2>5, <2>6, <2>7 DEF Report
<1>3. QED
  BY <1>1, <1>2

\* What is left once a mark is made, and what the last mark is.
LEMMA LeftTaken ==
  ASSUME NEW k \in {"command", "ssh", "kwin", "windows", "macos"}, NEW failed \in BOOLEAN,
         NEW m \in Left(k, failed)
  PROVE  /\ Tail(m) # <<>> => Tail(m) \in Left(k, failed)
         /\ Tail(m) # <<>> /\ k = "macos" => Head(m) = "measure" /\ Tail(m) = <<"refresh">>
         /\ Tail(m) = <<>> /\ failed => Head(m) = IF k = "macos" THEN "refresh" ELSE "note"
         /\ Tail(m) = <<>> /\ ~failed /\ k = "macos" =>
              \/ m = <<"refresh">> /\ Head(m) = "refresh"
              \/ m = <<"ready">> /\ Head(m) = "ready"
         /\ Tail(m) = <<>> /\ ~failed /\ k # "macos" =>
              Head(m) \in {"clear", "ready"} \/ (Head(m) = "size" /\ k # "kwin")
<1>1. ASSUME NEW a, m = <<a>> PROVE Head(m) = a /\ Tail(m) = <<>>
  BY <1>1, OneMark
<1>2. ASSUME NEW a, NEW b, m = <<a, b>>
      PROVE  Head(m) = a /\ Tail(m) = <<b>> /\ Tail(m) # <<>>
  <2>1. <<b>> # <<>>
    OBVIOUS
  <2>2. QED
    BY <1>2, <2>1, TwoMarks
<1>3. CASE k = "macos"
  <2>1. CASE m = <<"refresh">>
    BY <1>1, <1>3, <2>1
  <2>2. CASE m = <<"ready">> /\ ~failed
    BY <1>1, <1>3, <2>2
  <2>3. CASE m = <<"measure", "refresh">>
    <3>1. Head(m) = "measure" /\ Tail(m) = <<"refresh">> /\ Tail(m) # <<>>
      BY <1>2, <2>3
    <3>2. <<"refresh">> \in Left(k, failed)
      BY <1>3, LeftMacos DEF Fresher
    <3>3. QED
      BY <3>1, <3>2
  <2>4. QED
    BY <1>3, <2>1, <2>2, <2>3, LeftMacos DEF Fresher
<1>4. CASE k # "macos" /\ failed
  <2>1. CASE m = <<"note">>
    BY <1>1, <1>4, <2>1
  <2>2. CASE \E a : m = <<a, "note">>
    <3>1. Tail(m) = <<"note">> /\ Tail(m) # <<>>
      BY <1>2, <2>2
    <3>2. <<"note">> \in Left(k, failed)
      BY <1>4, LeftOthers
    <3>3. QED
      BY <1>4, <3>1, <3>2
  <2>3. QED
    BY <1>4, <2>1, <2>2, LeftOthers
<1>5. CASE k # "macos" /\ ~failed
  <2>1. CASE m = <<"clear">> \/ m = <<"ready">>
    BY <1>1, <1>5, <2>1
  <2>2. CASE m = <<"size">> /\ k # "kwin"
    BY <1>1, <1>5, <2>2
  <2>3. ASSUME NEW a, NEW b, m = <<a, b>>, <<b>> \in Left(k, failed)
        PROVE  Tail(m) # <<>> /\ Tail(m) \in Left(k, failed)
    BY <1>2, <2>3
  <2>4. CASE k = "kwin"
    <3>1. <<"clear">> \in Left(k, failed) /\ m \in {<<"clear">>, <<"size", "clear">>}
      BY <1>5, <2>4, LeftKwin
    <3>2. QED
      BY <1>5, <2>1, <2>3, <3>1
  <2>5. CASE k # "kwin"
    <3>1. /\ <<"clear">> \in Left(k, failed) /\ <<"size">> \in Left(k, failed)
          /\ m \in {<<"clear">>, <<"ready">>, <<"size">>, <<"clear", "size">>, <<"ready", "clear">>}
      BY <1>5, <2>5, LeftCommand
    <3>2. QED
      BY <1>5, <2>1, <2>2, <2>3, <2>5, <3>1
  <2>6. QED
    BY <2>4, <2>5
<1>6. QED
  BY <1>3, <1>4, <1>5

LEMMA SideFields ==
  ASSUME NEW up, NEW ready, NEW error
  PROVE  /\ Side(up, ready, error).up = up /\ Side(up, ready, error).ready = ready
         /\ Side(up, ready, error).error = error
BY DEF Side

\* The last mark of a call on a backend other than macOS.
LEMMA OthersTell ==
  ASSUME Typed, kind # "macos", UNCHANGED kind, NEW mark, NEW failed \in BOOLEAN,
         mark = "note" => Note, mark = "clear" => Clear,
         mark = "size" => Size, mark = "ready" => Ready,
         IF failed THEN mark = "note"
         ELSE mark \in {"clear", "ready"} \/ (mark = "size" /\ kind # "kwin")
  PROVE  IF failed THEN \A s \in Sides : Shown(s)' ELSE \A s \in Sides : ~Shown(s)'
<1>1. CASE failed
  BY <1>1 DEF Note, Shown
<1>2. CASE ~failed
  <2>1. \A s \in Sides : status[s] \in SideType
    BY DEF Typed
  <2>2. runErr' = FALSE
    BY <1>2 DEF Clear, Size, Ready
  <2>3. \A s \in Sides : status'[s].error = FALSE
    <3>1. CASE mark = "clear"
      BY <2>1, <3>1 DEF Clear, Each, SideType
    <3>2. CASE mark = "size"
      BY <2>1, <3>2 DEF Size, Each, SideType
    <3>3. CASE mark = "ready"
      <4>1. status' = [s \in Sides |-> [status[s] EXCEPT !.ready = TRUE, !.error = FALSE]]
        BY <3>3 DEF Ready, Each
      <4>2. QED
        BY <2>1, <4>1 DEF SideType
    <3>4. QED
      BY <1>2, <3>1, <3>2, <3>3
  <2>4. QED
    BY <1>2, <2>2, <2>3 DEF Shown
<1>3. QED
  BY <1>1, <1>2

\* A success on macOS: the status is made of what is granted.
LEMMA PostedTells ==
  ASSUME kind = "macos", Ready, "display" \in granted, UNCHANGED granted
  PROVE  /\ Healthy("output")' <=> {"display", "screen"} \cup {} \subseteq granted'
         /\ Healthy("input")' <=> {"display", "input"} \subseteq granted'
<1>1. runErr' = FALSE /\ status' = Posted
  BY DEF Ready
<1>2. /\ status'["output"] = Side(TRUE, "screen" \in granted, "screen" \notin granted)
      /\ status'["input"] = Side(TRUE, "input" \in granted, "input" \notin granted)
  BY <1>1 DEF Posted
<1>3. /\ status'["output"].up /\ (status'["output"].ready <=> "screen" \in granted)
      /\ (status'["output"].error <=> "screen" \notin granted)
      /\ status'["input"].up /\ (status'["input"].ready <=> "input" \in granted)
      /\ (status'["input"].error <=> "input" \notin granted)
  <2>1. DEFINE up == TRUE
               screen == "screen" \in granted
               blind == "screen" \notin granted
               input == "input" \in granted
               deaf == "input" \notin granted
  <2>2. /\ status'["output"] = Side(up, screen, blind)
        /\ status'["input"] = Side(up, input, deaf)
    BY <1>2
  <2>3. HIDE DEF up, screen, blind, input, deaf
  <2>4. /\ status'["output"].up = up /\ status'["output"].ready = screen
        /\ status'["output"].error = blind
        /\ status'["input"].up = up /\ status'["input"].ready = input
        /\ status'["input"].error = deaf
    BY <2>2, SideFields
  <2>5. QED
    BY <2>4 DEF up, screen, blind, input, deaf
<1>4. Healthy("output")' <=> "screen" \in granted
  BY <1>1, <1>3 DEF Healthy, Shown
<1>5. Healthy("input")' <=> "input" \in granted
  BY <1>1, <1>3 DEF Healthy, Shown
<1>6. QED
  BY <1>4, <1>5

LEMMA RefreshTells ==
  ASSUME NEW c \in Callers, Refresh(c), call[c].seen = granted, call[c].failed = FALSE,
         UNCHANGED granted
  PROVE  /\ Healthy("output")' <=> {"display", "screen"} \cup {"probe"} \subseteq granted'
         /\ Healthy("input")' <=> {"display", "input"} \subseteq granted'
<1>1. /\ runErr' <=> "display" \notin granted
      /\ status' = Refreshed(granted, FALSE)
  BY DEF Refresh
<1>2. DEFINE output == {"display", "screen", "probe"} \subseteq granted
             input == "input" \in granted
             up == "display" \in granted
<1>3. /\ status'["output"] = Side(up, output, (FALSE /\ output /\ input) \/ ~output)
      /\ status'["input"] = Side(up, input, (FALSE /\ output /\ input) \/ ~input)
  BY <1>1 DEF Refreshed
<1>4. /\ (status'["output"].up <=> up) /\ (status'["output"].ready <=> output)
      /\ (status'["output"].error <=> ~output)
      /\ (status'["input"].up <=> up) /\ (status'["input"].ready <=> input)
      /\ (status'["input"].error <=> ~input)
  <2>1. DEFINE dark == (FALSE /\ output /\ input) \/ ~output
               deaf == (FALSE /\ output /\ input) \/ ~input
  <2>2. /\ status'["output"] = Side(up, output, dark)
        /\ status'["input"] = Side(up, input, deaf)
    BY <1>3
  <2>3. HIDE DEF up, output, input, dark, deaf
  <2>4. /\ status'["output"].up = up /\ status'["output"].ready = output
        /\ status'["output"].error = dark
        /\ status'["input"].up = up /\ status'["input"].ready = input
        /\ status'["input"].error = deaf
    BY <2>2, SideFields
  <2>5. QED
    BY <2>4 DEF up, output, input, dark, deaf
<1>5. Healthy("output")' <=> up /\ output
  BY <1>1, <1>4 DEF Healthy, Shown
<1>6. Healthy("input")' <=> up /\ input
  BY <1>1, <1>4 DEF Healthy, Shown
<1>7. QED
  BY <1>5, <1>6

LEMMA MarkReports ==
  ASSUME Typed, Report, NEW c \in Callers, Mark(c)
  PROVE  Report'
<1>1. DEFINE mark == Head(call[c].marks)
             rest == Tail(call[c].marks)
             failed == call[c].failed
<1>2. /\ UNCHANGED <<kind, opts, link, granted, shut, once, done>>
      /\ call[c].at = "marking" /\ call[c] \in Calls(kind)
  BY DEF Mark, Typed, world
<1>3. call[c].marks \in Left(kind, failed) /\ failed \in BOOLEAN
  BY <1>2 DEF Report, Recording, Calls
<1>4. kind \in {"command", "ssh", "kwin", "windows", "macos"}
  BY KindAssumption DEF Typed
<1>5. /\ rest # <<>> => rest \in Left(kind, failed)
      /\ rest # <<>> /\ kind = "macos" => mark = "measure" /\ rest = <<"refresh">>
      /\ rest = <<>> /\ failed => mark = IF kind = "macos" THEN "refresh" ELSE "note"
      /\ rest = <<>> /\ ~failed /\ kind = "macos" =>
           \/ call[c].marks = <<"refresh">> /\ mark = "refresh"
           \/ call[c].marks = <<"ready">> /\ mark = "ready"
      /\ rest = <<>> /\ ~failed /\ kind # "macos" =>
           mark \in {"clear", "ready"} \/ (mark = "size" /\ kind # "kwin")
  BY <1>3, <1>4, LeftTaken
<1>6. /\ call' = [call EXCEPT ![c] =
                    IF rest = <<>> THEN Idle
                    ELSE [@ EXCEPT !.marks = rest, !.seen = IF mark = "measure" THEN granted ELSE {}]]
      /\ mark = "note" => Note
      /\ mark = "clear" => Clear
      /\ mark = "size" => Size
      /\ mark = "ready" => Ready
      /\ mark = "refresh" => Refresh(c)
      /\ late' = (late \/ (kind = "macos" /\ shut /\ mark # "measure"))
      /\ told' = CASE rest # <<>> -> told
                   [] rest = <<>> /\ ~call[c].alone -> <<"mixed">>
                   [] OTHER -> <<IF failed THEN "failed" ELSE "ok", mark>>
  BY DEF Mark
<1>7. HIDE DEF mark, rest, failed
<1>8. Only(c) /\ call[c].op # "close" /\ InCall(c)
  BY <1>2, <1>6 DEF Only, Report, Attended, ClosePlaces, InCall, InFlight, Typed
<1>9. \/ rest = <<>> /\ call'[c] = Idle
      \/ /\ rest # <<>> /\ call'[c].at = "marking" /\ call'[c].op = call[c].op
         /\ call'[c].alone = call[c].alone /\ call'[c].failed = call[c].failed
         /\ call'[c].marks = rest /\ (mark = "measure" => call'[c].seen = granted)
  <2>1. CASE rest = <<>>
    BY <1>6, <2>1 DEF Typed
  <2>2. CASE rest # <<>>
    <3>1. DEFINE seen == IF mark = "measure" THEN granted ELSE {}
    <3>2. call'[c] = [call[c] EXCEPT !.marks = rest, !.seen = seen]
      BY <1>6, <2>2 DEF Typed
    <3>3. mark = "measure" => seen = granted
      OBVIOUS
    <3>4. HIDE DEF seen
    <3>5. QED
      BY <1>2, <2>2, <3>2, <3>3 DEF Calls
  <2>3. QED
    BY <2>1, <2>2
<1>10. Attended'
  <2>1. call'[c].op # "close" /\ call'[c].at \in {"idle", "marking"}
    BY <1>8, <1>9 DEF Idle
  <2>2. late' => shut
    BY <1>6 DEF Report, Attended
  <2>3. QED
    BY <1>2, <1>8, <2>1, <2>2 DEF Report, Attended, Only, ClosePlaces
<1>11. Alone'
  <2>1. InCall(c)' => call'[c].alone = call[c].alone
    BY <1>9 DEF Idle, InCall, InFlight
  <2>2. QED
    BY <1>8, <2>1, AloneKept DEF Report
<1>12. Recording'
  <2>1. call'[c].at = "marking" =>
          /\ call'[c].marks \in Left(kind, call'[c].failed)
          /\ call'[c].alone /\ kind = "macos" =>
               /\ call'[c].marks = <<"refresh">> => call'[c].seen = granted
               /\ call'[c].marks = <<"ready">> => "display" \in granted
    <3>1. <<"refresh">> # <<"ready">>
      OBVIOUS
    <3>2. call'[c].at = "marking" => rest # <<>>
      BY <1>9 DEF Idle
    <3>3. QED
      BY <1>5, <1>9, <3>1, <3>2 DEF failed
  <2>2. QED
    BY <1>2, <1>8, <2>1 DEF Report, Recording, Only
<1>13. Told'
  <2>1. CASE rest # <<>>
    BY <1>9, <2>1 DEF Told
  <2>2. CASE rest = <<>> /\ ~call[c].alone
    BY <1>6, <2>2 DEF Told
  <2>3. CASE rest = <<>> /\ call[c].alone
    <3>1. told' = <<IF failed THEN "failed" ELSE "ok", mark>>
      BY <1>6, <2>3
    <3>2. told'[1] = (IF failed THEN "failed" ELSE "ok") /\ told'[2] = mark
      BY <3>1
    <3>3. CASE kind # "macos"
      <4>1. IF failed THEN \A s \in Sides : Shown(s)' ELSE \A s \in Sides : ~Shown(s)'
        BY <1>2, <1>3, <1>5, <1>6, <2>3, <3>3, OthersTell DEF failed
      <4>2. QED
        BY <1>2, <3>2, <3>3, <4>1 DEF Told, Claim
    <3>4. CASE kind = "macos" /\ failed
      <4>1. runErr'
        BY <1>5, <1>6, <2>3, <3>4 DEF Refresh, failed
      <4>2. QED
        BY <3>2, <3>4, <4>1 DEF Told, Claim, Shown
    <3>5. CASE kind = "macos" /\ ~failed
      <4>1. /\ Healthy("output")' <=>
                 {"display", "screen"} \cup (IF mark = "ready" THEN {} ELSE {"probe"}) \subseteq granted'
            /\ Healthy("input")' <=> {"display", "input"} \subseteq granted'
        <5>1. CASE call[c].marks = <<"refresh">> /\ mark = "refresh"
          <6>1. call[c].seen = granted /\ call[c].failed = FALSE /\ Refresh(c)
            BY <1>2, <1>3, <1>6, <2>3, <3>5, <5>1 DEF Report, Recording, failed
          <6>2. QED
            BY <1>2, <5>1, <6>1, RefreshTells
        <5>2. CASE call[c].marks = <<"ready">> /\ mark = "ready"
          <6>1. "display" \in granted /\ Ready
            BY <1>2, <1>6, <2>3, <3>5, <5>2 DEF Report, Recording
          <6>2. QED
            BY <1>2, <3>5, <5>2, <6>1, PostedTells
        <5>3. QED
          BY <1>5, <2>3, <3>5, <5>1, <5>2
      <4>2. kind' = "macos" /\ told'[1] # "failed"
        BY <1>2, <3>2, <3>5
      <4>3. Claim'
        BY <3>2, <4>1, <4>2 DEF Claim
      <4>4. QED
        BY <4>3 DEF Told
    <3>6. QED
      BY <3>3, <3>4, <3>5
  <2>4. QED
    BY <2>1, <2>2, <2>3
<1>14. QED
  BY <1>10, <1>11, <1>12, <1>13 DEF Report

------------------------------------------------------------------------------
(* The theorems *)

\* Requests come to the backend as any call does.
LEMMA DeskSteps == DeskNext => [Next]_vars
<1>1. SUFFICES ASSUME DeskNext PROVE [Next]_vars
  OBVIOUS
<1>2. CASE Receive
  BY <1>2 DEF Receive
<1>3. CASE \E c \in Callers : Examine(c)
  <2>1. PICK c \in Callers : Examine(c)
    BY <1>3
  <2>2. CASE UNCHANGED vars
    BY <2>2
  <2>3. ASSUME NEW op, op \in Asked, Begin(c, op)
        PROVE  Next
    <3>1. op \in Ops
      BY <2>3 DEF Asked, Ops, InputOps
    <3>2. QED
      BY <2>3, <3>1 DEF Next
  <2>4. QED
    BY <2>1, <2>2, <2>3 DEF Examine
<1>4. CASE asked = None /\ Next /\ UNCHANGED asked
  BY <1>4
<1>5. QED
  BY <1>1, <1>2, <1>3, <1>4 DEF DeskNext

\* The backend by itself and with requests in front of it.
LEMMA Steps == Spec \/ DeskSpec => Init /\ [][Next]_vars
<1>1. [DeskNext]_deskVars => [Next]_vars
  BY DeskSteps DEF deskVars
<1>2. DeskInit => Init
  BY DEF DeskInit
<1>3. QED
  BY <1>1, <1>2, PTL DEF Spec, DeskSpec

LEMMA ReportInit == Init => Report
<1>1. SUFFICES ASSUME Init PROVE Report
  OBVIOUS
<1>2. \A c \in Callers : call[c].at = "idle" /\ call[c].op = "none"
  BY <1>1 DEF Init, Idle
<1>3. Attended
  BY <1>1, <1>2 DEF Init, Attended, ClosePlaces
<1>4. Alone
  BY <1>2 DEF Alone, InCall, InFlight
<1>5. QED
  BY <1>1, <1>2, <1>3, <1>4 DEF Report, Recording, Told, Init

LEMMA ReportNext ==
  ASSUME IInv, Report, [Next]_vars
  PROVE  Report'
<1>1. Typed
  BY DEF IInv
<1>2. CASE UNCHANGED vars
  <2>1. UNCHANGED <<kind, opts, link, granted, status, runErr, shut, once, done, call, told, late>>
    BY <1>2 DEF vars, world, book, past
  <2>2. Alone' /\ Told'
    BY <2>1 DEF Report, Alone, InCall, InFlight, Told, Claim, Healthy, Shown
  <2>3. QED
    BY <2>1, <2>2 DEF Report, Attended, Recording
<1>3. ASSUME NEW c \in Callers, Work(c) \/ TimeOut(c) \/ Outside(c) PROVE Report'
  <2>1. Underway(c) \/ Mark(c) \/ Closing(c)
    BY <1>3 DEF Work, Underway, Closing
  <2>2. QED
    BY <1>1, <2>1, UnderwayReports, MarkReports, ClosingReports
<1>4. QED
  BY <1>1, <1>2, <1>3, BeginReports, CallCloseReports, WorldReports DEF Next

\* The invariant holds throughout: a call records what is of its backend's
\* kind, and of a closed backend no side is connected again unless macOS
\* refreshes it.
THEOREM Inductive == Spec \/ DeskSpec => []IInv
BY InitInv, NextInv, Steps, PTL

\* What a call leaves to record is what its kind of backend records of its
\* success or failure, and the last result is shown until another call has
\* recorded something.
THEOREM Reported == Spec \/ DeskSpec => []Report
<1>1. IInv /\ Report /\ [Next]_vars => Report'
  BY ReportNext
<1>2. QED
  BY <1>1, ReportInit, Inductive, Steps, PTL

\* The types of the variables, and that done is closed by the first Close and
\* at its end (commandbackend/backend.go, 176-191, and its like).
THEOREM BackendTyped == Spec \/ DeskSpec => []TypeOK
<1>1. IInv => TypeOK
  <2>1. SUFFICES ASSUME IInv PROVE TypeOK
    OBVIOUS
  <2>2. ASSUME NEW c \in Callers
        PROVE  /\ call[c].at \in Places \cup {"marking"}
               /\ call[c].op \in Ops \cup {"none", "close"}
               /\ call[c].marks # <<>> <=> call[c].at = "marking"
               /\ call[c].seen # {} => Head(call[c].marks) = "refresh"
    <3>1. call[c] \in Calls(kind)
      BY <2>1 DEF IInv, Typed
    <3>2. Head(<<"refresh">>) = "refresh"
      OBVIOUS
    <3>3. QED
      BY <3>1, <3>2 DEF Calls
  <2>3. QED
    BY <2>1, <2>2 DEF IInv, Typed, TypeOK, SideType, Places
<1>2. QED
  BY <1>1, Inductive, PTL

\* Health checks fail for a backend that Close has marked, whatever calls are
\* still in flight, unless macOS refreshes the status late
\* (commandbackend/backend.go, 176-191; winlocal/backend_windows.go, setReady).
THEOREM ClosedIsSeen == Spec \/ DeskSpec => []ClosedShows
<1>1. IInv => ClosedShows
  <2>1. "output" \in Sides
    BY DEF Sides
  <2>2. QED
    BY <2>1 DEF IInv, StaysDown, ClosedShows, Healthz, Healthy
<1>2. QED
  BY <1>1, Inductive, PTL

\* After a call that ran by itself, health checks fail if the call did, and
\* after a call that succeeded they fail only for what macOS lacks: whatever
\* the kind of backend, in however many critical sections the call recorded
\* its result, and whoever closed the backend in between
\* (commandbackend/backend.go, run and decodeScreenshot; kwin/backend.go,
\* 66-106; winlocal and macoslocal, setReady, setErr, refreshStatus).
THEOREM ErrorIsSeen == Spec \/ DeskSpec => []ErrorShows
<1>1. Report => ErrorShows
  <2>1. SUFFICES ASSUME Report, Quiet, told # <<"mixed">> PROVE Claim
    BY DEF ErrorShows, Claim
  <2>2. \A c \in Callers : call[c].at # "marking"
    BY <2>1 DEF Report, Attended, ClosePlaces, Quiet, InCall, InFlight
  <2>3. QED
    BY <2>1, <2>2 DEF Report, Told
<1>2. QED
  BY <1>1, Reported, PTL

------------------------------------------------------------------------------
(* The backend is a resource *)

Inside == {c \in Callers : call[c].op = "close" /\ InFlight(c)}
Gone == \E c \in Callers : call[c].at = "closed"

\* Calls that are not of Close leave the resource alone.
LEMMA OtherCalls ==
  ASSUME UNCHANGED done,
         \A c \in Callers :
           \/ call'[c].at = call[c].at /\ call'[c].op = call[c].op
           \/ call[c].op # "close" /\ call'[c].op # "close"
              /\ call[c].at # "closed" /\ call'[c].at # "closed"
  PROVE  UNCHANGED Promise!vars
<1>1. \A c \in Callers : (c \in Inside' <=> c \in Inside) /\ (call'[c].at = "closed" <=> call[c].at = "closed")
  BY DEF Inside, InFlight
<1>2. Inside' = Inside /\ Gone' = Gone
  BY <1>1 DEF Inside, Gone
<1>3. QED
  BY <1>2 DEF Promise!vars, Inside, Gone

LEMMA ClosePromise ==
  ASSUME Typed, Report, NEW c \in Callers, Closing(c)
  PROVE  [Promise!Next]_Promise!vars
<1>1. done => done'
  BY DEF Closing, Enter, CloseStatus, CloseLink, CloseDone, Leave, book
<1>2. \E at \in {"closing", "leaving", "unlinking", "ending", "closed"} : To(c, at)
  BY DEF Closing, Enter, CloseStatus, CloseLink, CloseDone, Leave
<1>3. Only(c) /\ call'[c].op = call[c].op
      /\ call'[c].at \in {"closing", "leaving", "unlinking", "ending", "closed"}
  BY <1>2, ToGoes
<1>4. call[c].at \in ClosePlaces \ {"closed"} /\ call[c].op = "close"
  BY DEF Closing, Enter, CloseStatus, CloseLink, CloseDone, Leave, ClosePlaces, Report, Attended
<1>5. c \in Inside
  BY <1>4 DEF Inside, InFlight, ClosePlaces
<1>6. CASE Leave(c)
  <2>1. done /\ UNCHANGED done /\ call'[c].at = "closed"
    BY <1>6, ToGoes DEF Leave, book, Report, Attended
  <2>2. Inside' = Inside \ {c} /\ Gone' = TRUE
    BY <1>3, <2>1 DEF Inside, Gone, InFlight, Only
  <2>3. Promise!ReturnClose(c)
    BY <1>5, <2>1, <2>2 DEF Promise!ReturnClose, Inside, Gone
  <2>4. QED
    BY <2>3 DEF Promise!Next
<1>7. CASE ~Leave(c)
  <2>1. call'[c].at # "closed"
    BY <1>7, ToGoes DEF Closing, Enter, CloseStatus, CloseLink, CloseDone
  <2>2. \A d \in Callers : (d \in Inside' <=> d \in Inside) /\ (call'[d].at = "closed" <=> call[d].at = "closed")
    BY <1>3, <1>4, <2>1 DEF Inside, InFlight, Only, ClosePlaces
  <2>3. Inside' = Inside /\ Gone' = Gone
    BY <2>2 DEF Inside, Gone
  <2>4. done' = TRUE \/ UNCHANGED done
    BY <1>7 DEF Closing, Enter, CloseStatus, CloseLink, CloseDone, book
  <2>5. QED
    BY <2>3, <2>4 DEF Promise!Next, Promise!End, Promise!vars, Inside, Gone
<1>8. QED
  BY <1>6, <1>7

LEMMA StepPromise ==
  ASSUME Typed, Report, [Next]_vars
  PROVE  [Promise!Next]_Promise!vars
<1>1. ASSUME NEW c \in Callers, Underway(c) PROVE UNCHANGED Promise!vars
  <2>1. UNCHANGED done /\ call[c].at \in OnTheWay /\ Only(c) /\ Goes(c)
    BY <1>1, UnderwayGoes DEF Report, Underway, Decline, Render, OpenSession, KilledReturns, Capture,
       Win32, CoreGraphics, TimeOut, Outside, Exit, Orphan, LetGo, CaptureAnswered, book
  <2>2. call[c].op # "close" /\ call[c].at # "closed"
    BY <2>1 DEF Report, Attended, OnTheWay, ClosePlaces
  <2>3. call'[c].op # "close" /\ call'[c].at # "closed"
    BY <2>1, <2>2 DEF Goes, Idle
  <2>4. QED
    BY <2>1, <2>2, <2>3, OtherCalls DEF Only
<1>2. ASSUME NEW c \in Callers, Mark(c) PROVE UNCHANGED Promise!vars
  <2>1. /\ UNCHANGED done /\ call[c].at = "marking" /\ call[c] \in Calls(kind)
        /\ call' = [call EXCEPT ![c] =
                      IF Tail(call[c].marks) = <<>> THEN Idle
                      ELSE [@ EXCEPT !.marks = Tail(call[c].marks),
                                     !.seen = IF Head(call[c].marks) = "measure" THEN granted ELSE {}]]
    BY <1>2 DEF Mark, Typed
  <2>2. \A d \in Callers : d # c => call'[d] = call[d]
    BY <2>1 DEF Typed
  <2>3. call'[c] = Idle \/ (call'[c].at = call[c].at /\ call'[c].op = call[c].op)
    BY <2>1 DEF Typed, Calls
  <2>4. call[c].op # "close"
    BY <2>1 DEF Report, Attended, ClosePlaces
  <2>5. QED
    BY <2>1, <2>2, <2>3, <2>4, OtherCalls DEF Idle
<1>3. ASSUME NEW c \in Callers, NEW op \in Ops, Begin(c, op) PROVE UNCHANGED Promise!vars
  <2>1. UNCHANGED done /\ call[c].at = "idle" /\ call'[c].at = "starting" /\ call'[c].op = op
    BY <1>3 DEF Begin, book, Idle
  <2>2. ASSUME NEW d \in Callers, d # c
        PROVE  call'[d].at = call[d].at /\ call'[d].op = call[d].op
    <3>1. call'[d] = [call[d] EXCEPT !.alone = @ /\ ~InCall(d)]
      BY <1>3, <2>2 DEF Begin
    <3>2. call[d] \in Calls(kind)
      BY DEF Typed
    <3>3. QED
      BY <3>1, <3>2 DEF Calls
  <2>3. call[c].op # "close" /\ op # "close"
    BY <2>1 DEF Report, Attended, ClosePlaces, Ops, InputOps
  <2>4. QED
    BY <2>1, <2>2, <2>3, OtherCalls
<1>4. ASSUME NEW c \in Callers, CallClose(c) PROVE [Promise!Next]_Promise!vars
  <2>1. UNCHANGED done /\ call[c].at = "idle" /\ call'[c].at = "entering" /\ call'[c].op = "close"
        /\ Only(c)
    BY <1>4 DEF CallClose, book, Idle, Typed, Only
  <2>2. Inside' = Inside \cup {c} /\ Gone' = Gone
    BY <2>1 DEF Inside, Gone, InFlight, Only
  <2>3. Promise!CallClose(c)
    BY <2>1, <2>2 DEF Promise!CallClose, Inside, Gone
  <2>4. QED
    BY <2>3 DEF Promise!Next
<1>5. CASE (\E l \in {"up", "silent", "dropped"} : Unlink(l)) \/ (\E g \in Grants : Change(g))
  <2>1. UNCHANGED done
    BY <1>5 DEF Unlink, Change, book
  <2>2. ASSUME NEW d \in Callers
        PROVE  call'[d].at = call[d].at /\ call'[d].op = call[d].op
    <3>1. call'[d] = call[d] \/ call'[d] = [call[d] EXCEPT !.alone = @ /\ ~InCall(d)]
      BY <1>5 DEF Unlink, Change
    <3>2. call[d] \in Calls(kind)
      BY DEF Typed
    <3>3. QED
      BY <3>1, <3>2 DEF Calls
  <2>3. QED
    BY <2>1, <2>2, OtherCalls
<1>6. CASE UNCHANGED vars
  BY <1>6, OtherCalls DEF vars, book
<1>7. ASSUME NEW c \in Callers, Work(c) \/ TimeOut(c) \/ Outside(c)
      PROVE  [Promise!Next]_Promise!vars
  <2>1. Underway(c) \/ Mark(c) \/ Closing(c)
    BY <1>7 DEF Work, Underway, Closing
  <2>2. QED
    BY <1>1, <1>2, <2>1, ClosePromise
<1>8. QED
  BY <1>3, <1>4, <1>5, <1>6, <1>7 DEF Next

\* Apart from what must happen in the end, a backend keeps the promise of a
\* resource: it ends by Close only, once, and Close returns to nobody before
\* that, however many close it (commandbackend/backend.go, 176-191, and its
\* like).
THEOREM BackendIsResource == Spec \/ DeskSpec => Promise!Safety
<1>1. Init => Promise!Init
  BY DEF Init, Promise!Init, Idle, InFlight
<1>2. IInv /\ Report /\ [Next]_vars => [Promise!Next]_Promise!vars
  BY StepPromise DEF IInv
<1>3. QED
  BY <1>1, <1>2, Inductive, Reported, Steps, PTL DEF Promise!Safety

------------------------------------------------------------------------------
(* The request looked at *)

\* A request that comes is one of Requests.
LEMMA AskedIs == DeskSpec => [](asked # None => asked \in Requests)
<1>1. DeskInit => (asked # None => asked \in Requests)
  BY DEF DeskInit
<1>2. (asked # None => asked \in Requests) /\ [DeskNext]_deskVars
        => (asked # None => asked \in Requests)'
  BY DEF DeskNext, Receive, Examine, deskVars
<1>3. QED
  BY <1>1, <1>2, PTL DEF DeskSpec

------------------------------------------------------------------------------
(* The command a front makes is of the operation asked for *)

IsOf(command, op) == command = Refused \/ command[1] = op

LEMMA PairOf == ASSUME NEW op, NEW a PROVE IsOf(<<op, a>>, op)
BY DEF IsOf

LEMMA TripleOf == ASSUME NEW op, NEW a, NEW b PROVE IsOf(<<op, a, b>>, op)
BY DEF IsOf

LEMMA MadeOf ==
  ASSUME NEW values, NEW command, NEW op, IsOf(command, op)
  PROVE  IsOf(Made(values, command), op)
BY Zenon DEF IsOf, Made

LEMMA MadePair ==
  ASSUME NEW values, NEW op, NEW a
  PROVE  IsOf(Made(values, <<op, a>>), op)
<1>1. IsOf(<<op, a>>, op)
  BY PairOf
<1>2. QED
  BY <1>1, MadeOf

LEMMA MadeTriple ==
  ASSUME NEW values, NEW op, NEW a, NEW b
  PROVE  IsOf(Made(values, <<op, a, b>>), op)
<1>1. IsOf(<<op, a, b>>, op)
  BY TripleOf
<1>2. QED
  BY <1>1, MadeOf

LEMMA CropOf ==
  ASSUME NEW crop
  PROVE  IsOf(Cropped(crop), "screenshot")
BY MadePair DEF Cropped

LEMMA DragOf ==
  ASSUME NEW path
  PROVE  IsOf(Drag(path), "drag")
<1>1. Drag(path) \in {Refused, <<"drag", PathPoints(path)>>}
  BY Zenon DEF Drag
<1>2. QED
  BY <1>1, PairOf, Zenon DEF IsOf

LEMMA HttpOf ==
  ASSUME NEW d, IsDocument(d)
  PROVE  IsOf(Http(d), d.op)
<1>1. d.op \in Commands
  BY DEF IsDocument
<1>2. CASE d.op = "screenshot"
  <2>1. Http(d) = HttpScreenshot(d)
    BY <1>2 DEF Http, MouseOps, KeyOps
  <2>2. HttpScreenshot(d) \in {<<"screenshot", Nil>>, Cropped(Crop(d.crop))}
    BY Zenon DEF HttpScreenshot
  <2>3. QED
    BY <1>2, <2>1, <2>2, CropOf, PairOf
<1>3. CASE d.op \in MouseOps
  <2>1. Http(d) = HttpPointer(d)
    BY <1>3 DEF Http, MouseOps, KeyOps
  <2>2. CASE d.op \in {"click", "double_click"}
    <3>1. HttpPointer(d) \in {Refused, Made(HttpPoint(d), <<d.op, HttpPoint(d), d.text>>)}
      BY <2>2 DEF HttpPointer
    <3>2. QED
      BY <2>1, <3>1, MadeTriple DEF IsOf
  <2>3. CASE d.op = "move"
    <3>1. HttpPointer(d) = Made(HttpPoint(d), <<d.op, HttpPoint(d)>>)
      BY <2>3 DEF HttpPointer
    <3>2. QED
      BY <2>1, <3>1, MadePair
  <2>4. CASE d.op = "scroll"
    <3> DEFINE by == <<IntOf(d.scrollX), IntOf(d.scrollY)>>
    <3>1. HttpPointer(d) = Made(HttpPoint(d) \o by, <<d.op, HttpPoint(d), by>>)
      BY <2>4 DEF HttpPointer
    <3> HIDE DEF by
    <3>2. QED
      BY <2>1, <3>1, MadeTriple
  <2>5. CASE d.op = "drag"
    <3>1. HttpPointer(d) \in {Drag(d.path), Refused}
      BY <2>5 DEF HttpPointer
    <3>2. QED
      BY <2>1, <2>5, <3>1, DragOf DEF IsOf
  <2>6. QED
    BY <1>3, <2>2, <2>3, <2>4, <2>5 DEF MouseOps
<1>4. CASE d.op \in KeyOps
  <2>1. Http(d) = HttpKeyboard(d)
    BY <1>4 DEF Http, KeyOps, MouseOps
  <2>2. HttpKeyboard(d) \in {Refused, <<d.op, d.text>>}
    BY Zenon DEF HttpKeyboard
  <2>3. QED
    BY <2>1, <2>2, PairOf, Zenon DEF IsOf
<1>5. CASE d.op = "status"
  BY <1>5 DEF Http, KeyOps, MouseOps, IsOf
<1>6. CASE d.op = "wait"
  BY <1>6 DEF Http, KeyOps, MouseOps, IsOf
<1>7. QED
  BY <1>1, <1>2, <1>3, <1>4, <1>5, <1>6 DEF Commands

\* The same of the tools.
LEMMA McpOf ==
  ASSUME NEW d, IsDocument(d)
  PROVE  IsOf(Mcp(d), d.op)
<1>1. d.op \in Commands
  BY DEF IsDocument
<1>2. CASE ~Schema(d)
  <2>1. Mcp(d) = Refused
    BY <1>2 DEF Mcp
  <2>2. QED
    BY <2>1 DEF IsOf
<1>3. CASE Schema(d) /\ d.op = "screenshot"
  <2>1. Mcp(d) = McpScreenshot(d)
    BY <1>3 DEF Mcp, MouseOps, KeyOps
  <2>2. McpScreenshot(d) \in {<<"screenshot", Nil>>, Cropped(Crop(d.crop))}
    BY Zenon DEF McpScreenshot
  <2>3. QED
    BY <1>3, <2>1, <2>2, CropOf, PairOf
<1>4. CASE Schema(d) /\ d.op \in MouseOps
  <2>1. Mcp(d) = McpPointer(d)
    BY <1>4 DEF Mcp, MouseOps, KeyOps
  <2>2. CASE d.op \in {"click", "double_click"}
    <3>1. McpPointer(d) = Made(McpPoint(d), <<d.op, McpPoint(d), d.text>>)
      BY <2>2 DEF McpPointer
    <3>2. QED
      BY <2>1, <3>1, MadeTriple
  <2>3. CASE d.op = "move"
    <3>1. McpPointer(d) = Made(McpPoint(d), <<d.op, McpPoint(d)>>)
      BY <2>3 DEF McpPointer
    <3>2. QED
      BY <2>1, <3>1, MadePair
  <2>4. CASE d.op = "scroll"
    <3> DEFINE by == <<IntOf(d.scrollX), IntOf(d.scrollY)>>
    <3>1. McpPointer(d) = Made(McpPoint(d) \o by, <<d.op, McpPoint(d), by>>)
      BY <2>4 DEF McpPointer
    <3> HIDE DEF by
    <3>2. QED
      BY <2>1, <3>1, MadeTriple
  <2>5. CASE d.op = "drag"
    <3>1. McpPointer(d) = Drag(d.path)
      BY <2>5 DEF McpPointer
    <3>2. QED
      BY <2>1, <2>5, <3>1, DragOf
  <2>6. QED
    BY <1>4, <2>2, <2>3, <2>4, <2>5 DEF MouseOps
<1>5. CASE Schema(d) /\ d.op \in KeyOps
  <2>1. Mcp(d) = <<d.op, d.text>>
    BY <1>5 DEF Mcp, KeyOps, MouseOps
  <2>2. QED
    BY <2>1, PairOf
<1>6. CASE Schema(d) /\ d.op = "wait"
  <2>1. Mcp(d) = <<"wait", d.ms>>
    BY <1>6 DEF Mcp, KeyOps, MouseOps
  <2>2. QED
    BY <1>6, <2>1, PairOf
<1>7. CASE Schema(d) /\ d.op = "status"
  <2>1. Mcp(d) = <<"status">>
    BY <1>7 DEF Mcp, KeyOps, MouseOps
  <2>2. QED
    BY <1>7, <2>1 DEF IsOf
<1>8. QED
  BY <1>1, <1>2, <1>3, <1>4, <1>5, <1>6, <1>7 DEF Commands

------------------------------------------------------------------------------
(* What authorization comes to *)

\* Naturals have a least one.
LEMMA LeastNatural ==
  ASSUME NEW T, T \subseteq Nat, T # {}
  PROVE  \E n \in T : \A m \in T : n <= m
<1>1. DEFINE Less == OpToRel(<, Nat)
<1>2. \A m, n \in Nat : m < n => <<m, n>> \in Less
  BY DEF OpToRel
<1>3. IsWellFoundedOn(Less, Nat)
  BY NatLessThanWellFounded
<1>4. HIDE DEF Less
<1>5. PICK n \in T : \A m \in T : ~(<<m, n>> \in Less)
  BY <1>3, WFMin
<1>6. ASSUME NEW m \in T PROVE n <= m
  <2>1. m \in Nat /\ n \in Nat /\ ~(<<m, n>> \in Less)
    BY <1>5, <1>6
  <2>2. ~(m < n)
    BY <2>1, <1>2
  <2>3. QED
    BY <2>1, <2>2
<1>7. QED
  BY <1>6

LEMMA MatchingFirst ==
  ASSUME NEW tokens, tokens \in Tokens, NEW audience, NEW bearer, Matching(tokens, audience, bearer) # {}
  PROVE  First(Matching(tokens, audience, bearer)) \in Matching(tokens, audience, bearer)
<1> DEFINE found == Matching(tokens, audience, bearer)
<1>1. found \subseteq Nat
  <2>1. Len(tokens) \in Nat
    BY DEF Tokens
  <2>2. QED
    BY <2>1 DEF Matching
<1>2. \E n \in found : \A m \in found : n <= m
  BY <1>1, LeastNatural
<1>3. QED
  BY <1>2 DEF First

LEMMA AuthorizeIs ==
  ASSUME NEW tokens, tokens \in Tokens, tokens # <<>>, NEW bearer, NEW audience, NEW required
  PROVE  Authorize(tokens, bearer, audience, required) = 200 <=>
           /\ bearer # NoBearer
           /\ Matching(tokens, audience, bearer) # {}
           /\ ScopesAllow(tokens[First(Matching(tokens, audience, bearer))].scopes, required)
<1> DEFINE found == Matching(tokens, audience, bearer)
           allowed == ScopesAllow(tokens[First(found)].scopes, required)
<1> SUFFICES Authorize(tokens, bearer, audience, required) = 200 <=> bearer # NoBearer /\ found # {} /\ allowed
  OBVIOUS
<1>1. CASE bearer = NoBearer \/ found = {}
  <2>1. Authorize(tokens, bearer, audience, required) = 401
    BY <1>1, Zenon DEF Authorize
  <2>2. ~(Authorize(tokens, bearer, audience, required) = 200)
    BY <2>1
  <2> HIDE DEF found, allowed
  <2>3. QED
    BY <1>1, <2>2, Zenon
<1>2. CASE ~(bearer = NoBearer \/ found = {})
  <2>1. Authorize(tokens, bearer, audience, required) = IF allowed THEN 200 ELSE 403
    BY <1>2, Zenon DEF Authorize
  <2> HIDE DEF found, allowed
  <2>2. 403 # 200
    OBVIOUS
  <2>3. Authorize(tokens, bearer, audience, required) = 200 <=> allowed
    <3>1. CASE allowed
      BY <2>1, <3>1
    <3>2. CASE ~allowed
      BY <2>1, <2>2, <3>2
    <3>3. QED
      BY <3>1, <3>2
  <2>4. QED
    BY <1>2, <2>3, Zenon
<1>3. QED
  BY <1>1, <1>2

\* The scopes that let an operation through are those the documentation
\* names for it.
LEMMA ScopeIsDocumented ==
  ASSUME NEW command, NEW op \in Commands, command[1] = op,
         NEW scopes, scopes \in Seq(Seq(STRING))
  PROVE  ScopesAllow(scopes, ScopeOf(op)) <=> (Documented(command) \cup {<<"*">>}) \cap ToSet(scopes) # {}
<1>1. PICK verb, resource : /\ ScopeOf(op) = <<verb, resource>>
                            /\ Documented(command) = {<<verb, resource>>, <<verb, "*">>}
  <2>1. CASE op \in MouseOps
    <3>1. ScopeOf(op) = <<"write", "mouse">>
      BY <2>1 DEF ScopeOf, MouseOps, KeyOps
    <3>2. Documented(command) = {<<"write", "mouse">>, <<"write", "*">>}
      BY <2>1 DEF Documented, MouseOps
    <3>3. QED
      BY <3>1, <3>2, Zenon
  <2>2. CASE op \in KeyOps
    <3>1. ScopeOf(op) = <<"write", "keyboard">>
      BY <2>2 DEF ScopeOf, MouseOps, KeyOps
    <3>2. Documented(command) = {<<"write", "keyboard">>, <<"write", "*">>}
      BY <2>2 DEF Documented, KeyOps
    <3>3. QED
      BY <3>1, <3>2, Zenon
  <2>3. CASE op \in {"screenshot", "status", "wait"}
    <3>1. ScopeOf(op) = <<"read", op>>
      BY <2>3 DEF ScopeOf, MouseOps, KeyOps
    <3>2. Documented(command) = {<<"read", op>>, <<"read", "*">>}
      BY <2>3 DEF Documented
    <3>3. QED
      BY <3>1, <3>2, Zenon
  <2>4. QED
    BY <2>1, <2>2, <2>3 DEF Commands
<1>2. \A i \in 1..Len(scopes) :
        ScopeAllows(scopes[i], ScopeOf(op)) <=> scopes[i] \in Documented(command) \cup {<<"*">>}
  <2>1. SUFFICES ASSUME NEW i \in 1..Len(scopes)
                 PROVE  ScopeAllows(scopes[i], ScopeOf(op)) <=> scopes[i] \in Documented(command) \cup {<<"*">>}
    OBVIOUS
  <2>2. PICK grant : grant = scopes[i] /\ grant \in Seq(STRING)
    BY <2>1
  <2>3. ScopeAllows(grant, ScopeOf(op)) <=>
          \/ grant = <<"*">>
          \/ grant = <<verb, resource>>
          \/ Len(grant) = 2 /\ grant[2] = "*" /\ grant[1] = verb
    BY <1>1 DEF ScopeAllows, ScopeAll
  <2>4. Len(grant) = 2 /\ grant[2] = "*" /\ grant[1] = verb <=> grant = <<verb, "*">>
    <3>1. ASSUME Len(grant) = 2, grant[2] = "*", grant[1] = verb
          PROVE  grant = <<verb, "*">>
      <4>1. grant = <<grant[1], grant[2]>>
        BY <2>2, <3>1
      <4>2. QED
        BY <3>1, <4>1
    <3>2. QED
      BY <3>1
  <2>5. QED
    BY <1>1, <2>2, <2>3, <2>4
<1>3. ToSet(scopes) = {scopes[i] : i \in 1..Len(scopes)}
  BY DEF ToSet
<1>4. QED
  BY <1>2, <1>3 DEF ScopesAllow

\* What lets a request through is a grant for what it does.
LEMMA AuthorizeGrants ==
  ASSUME NEW r \in Requests, r.account.tokens # <<>>,
         NEW front, NEW command, NEW op \in Commands, command[1] = op
  PROVE  /\ Authorize(r.account.tokens, r.account.bearer, front, ScopeOf(op)) = 200
              => HasGrant(r, front, command)
         /\ ~Ambiguous(r.account.tokens) /\ HasGrant(r, front, command)
              => Authorize(r.account.tokens, r.account.bearer, front, ScopeOf(op)) = 200
<1> DEFINE tokens == r.account.tokens
           bearer == r.account.bearer
           found == Matching(tokens, front, bearer)
           reply == Authorize(tokens, bearer, front, ScopeOf(op))
           Allowed(i) == ScopesAllow(tokens[i].scopes, ScopeOf(op))
<1>1. tokens \in Tokens /\ tokens # <<>>
  BY RequestAssumption
<1> HIDE DEF tokens, bearer
<1>2. reply = 200 <=> bearer # NoBearer /\ found # {} /\ Allowed(First(found))
  <2>1. Authorize(tokens, bearer, front, ScopeOf(op)) = 200 <=>
          /\ bearer # NoBearer
          /\ Matching(tokens, front, bearer) # {}
          /\ ScopesAllow(tokens[First(Matching(tokens, front, bearer))].scopes, ScopeOf(op))
    BY <1>1, AuthorizeIs
  <2>2. QED
    BY <2>1
<1>3. found # {} => First(found) \in found
  BY <1>1, MatchingFirst
<1>4. HasGrant(r, front, command) <=> bearer # NoBearer /\ \E i \in found : Allowed(i)
  <2>1. DOMAIN tokens = 1..Len(tokens)
    BY <1>1 DEF Tokens
  <2>2. ASSUME NEW i \in DOMAIN tokens
        PROVE  /\ i \in found <=> /\ tokens[i].audiences = <<>> \/ Contains(tokens[i].audiences, front)
                                  /\ Trimmed(tokens[i].value) = bearer
               /\ Allowed(i) <=> (Documented(command) \cup {<<"*">>}) \cap ToSet(tokens[i].scopes) # {}
    <3>1. tokens[i].scopes \in Seq(Seq(STRING))
      <4>1. tokens[i] \in [value : STRING, audiences : Seq(STRING), scopes : Seq(Seq(STRING))]
        BY <1>1, <2>1, <2>2, ElementOfSeq DEF Tokens
      <4>2. QED
        BY <4>1
    <3>2. Allowed(i) <=> (Documented(command) \cup {<<"*">>}) \cap ToSet(tokens[i].scopes) # {}
      BY <3>1, ScopeIsDocumented
    <3>3. i \in found <=> /\ tokens[i].audiences = <<>> \/ Contains(tokens[i].audiences, front)
                          /\ Trimmed(tokens[i].value) = bearer
      BY <2>1, <2>2 DEF Matching, HasAudience, Contains
    <3>4. QED
      BY <3>2, <3>3
  <2>3. found \subseteq DOMAIN tokens
    BY <2>1 DEF Matching
  <2> HIDE DEF found, Allowed
  <2>4. QED
    BY <2>2, <2>3 DEF HasGrant, NoBearer, tokens, bearer
<1>5. ~Ambiguous(tokens) => \A i, j \in found : i = j
  <2>1. DOMAIN tokens = 1..Len(tokens)
    BY <1>1 DEF Tokens
  <2>2. \A i \in found : i \in DOMAIN tokens /\ Trimmed(tokens[i].value) = bearer
    BY <2>1 DEF Matching
  <2> HIDE DEF found
  <2>3. QED
    BY <2>2 DEF Ambiguous
<1> HIDE DEF found, Allowed, reply
<1>6. reply = 200 => HasGrant(r, front, command)
  <2>1. SUFFICES ASSUME reply = 200 PROVE HasGrant(r, front, command)
    OBVIOUS
  <2>2. bearer # NoBearer /\ found # {} /\ Allowed(First(found))
    BY <1>2, <2>1
  <2>3. QED
    BY <1>3, <1>4, <2>2
<1>7. ~Ambiguous(tokens) /\ HasGrant(r, front, command) => reply = 200
  BY <1>2, <1>3, <1>4, <1>5
<1>8. QED
  BY <1>6, <1>7 DEF reply, tokens, bearer

\* What is executed was granted, and what was granted is executed.
LEMMA RequestAuthorized ==
  ASSUME NEW r \in Requests, r.account.tokens # <<>>,
         Guarded(r.front, Of(r.front, r.document))
  PROVE  ExecutedAsGranted(r, r.account.tokens, Of(r.front, r.document), CommandOf(r))
<1> DEFINE d == r.document
           front == r.front
           made == Of(front, d)
           reply == Authorize(r.account.tokens, r.account.bearer, front, ScopeOf(d.op))
           passes == Passes(front, r.account.tokens, r.account.bearer, d.op)
<1>1. IsDocument(d) /\ d.op \in Commands
  BY RequestAssumption DEF IsDocument
<1>2. front \in {"http", "mcp"}
  BY DEF Guarded
<1>3. made = Refused \/ made[1] = d.op
  <2>1. CASE front = "http"
    <3>1. made = Http(d)
      BY <2>1 DEF Of
    <3>2. QED
      BY <1>1, <3>1, HttpOf DEF IsOf
  <2>2. CASE front = "mcp"
    <3>1. made = Mcp(d)
      BY <2>2 DEF Of
    <3>2. QED
      BY <1>1, <3>1, McpOf DEF IsOf
  <2>3. QED
    BY <1>2, <2>1, <2>2
<1>4. passes <=> reply = 200
  <2>1. CASE front = "mcp"
    BY <2>1 DEF Passes
  <2>2. CASE front = "http"
    <3>1. d.op # "status"
      <4>1. SUFFICES ASSUME d.op = "status" PROVE FALSE
        OBVIOUS
      <4>2. Http(d) = <<"status">>
        BY <4>1 DEF Http, MouseOps, KeyOps
      <4>3. made = <<"status">>
        BY <2>2, <4>2 DEF Of
      <4>4. QED
        BY <2>2, <4>3 DEF Guarded
    <3>2. QED
      BY <2>2, <3>1 DEF Passes
  <2>3. QED
    BY <1>2, <2>1, <2>2
<1>5. CommandOf(r) = IF passes THEN (IF Sound(made) THEN made ELSE Refused) ELSE Refused
  BY DEF CommandOf, Executed, IfSound
<1>6. ~Sound(Refused)
  BY DEF Sound, Refused
<1> HIDE DEF passes, made, reply
<1>7. CASE Sound(made)
  <2>1. made # Refused /\ made[1] = d.op
    BY <1>3, <1>6, <1>7
  <2>2. /\ reply = 200 => HasGrant(r, front, made)
        /\ ~Ambiguous(r.account.tokens) /\ HasGrant(r, front, made) => reply = 200
    BY <1>1, <2>1, AuthorizeGrants DEF reply
  <2>3. CommandOf(r) = IF passes THEN made ELSE Refused
    BY <1>5, <1>7
  <2>4. QED
    BY <1>4, <2>1, <2>2, <2>3 DEF ExecutedAsGranted, made
<1>8. CASE ~Sound(made)
  <2>1. CommandOf(r) = Refused
    BY <1>5, <1>8
  <2>2. QED
    BY <1>8, <2>1 DEF ExecutedAsGranted, made
<1>9. QED
  BY <1>7, <1>8

\* A command that is executed was granted: a token that authz.go finds for
\* the bearer has the audience of the front and one of the scopes that the
\* documentation gives for what the command does; and a grant that is not
\* ambiguous is honoured (authz.go, 87-145, requireScope of httpapi and
\* requireToolScope of mcpapi), whatever tokens there are.
THEOREM AuthorizedByScope == DeskSpec => []AuthorizedOnly
<1>1. (asked # None => asked \in Requests) => AuthorizedOnly
  BY RequestAuthorized DEF AuthorizedOnly
<1>2. QED
  BY AskedIs, <1>1, PTL

------------------------------------------------------------------------------
(* What the fronts make of one document *)

LEMMA RefusedUnsound == IfSound(Refused) = Refused
BY Zenon DEF IfSound

LEMMA NamelessUnsound ==
  ASSUME NEW op \in {"click", "double_click"}, NEW values, NEW at, NEW text, text # "left"
  PROVE  IfSound(Made(values, <<op, at, text>>)) = Refused
<1>1. ~Sound(<<op, at, text>>)
  BY DEF Sound
<1>2. Made(values, <<op, at, text>>) \in {Refused, <<op, at, text>>}
  BY Zenon DEF Made
<1>3. QED
  BY <1>1, <1>2, Zenon DEF IfSound

LEMMA ExecutedIs ==
  ASSUME NEW front, NEW d
  PROVE  Anyone(front, d) = IfSound(Of(front, d))
<1>1. Authorize(<<>>, NoBearer, front, ScopeOf(d.op)) = 200
  BY Zenon DEF Authorize
<1>2. Passes(front, <<>>, NoBearer, d.op)
  <2>1. CASE front = "mcp"
    BY <1>1, <2>1 DEF Passes
  <2>2. CASE front = "http" /\ d.op # "status"
    BY <1>1, <2>2 DEF Passes
  <2>3. CASE front # "mcp" /\ ~(front = "http" /\ d.op # "status")
    BY <2>3 DEF Passes
  <2>4. QED
    BY <2>1, <2>2, <2>3
<1>3. QED
  BY <1>2, Zenon DEF Anyone, Executed

\* What each of the pointer operations comes to, by front.
Textless(d) == d.text \in {Missing, ""}
Pressing(d) == Made(HttpPoint(d), <<d.op, HttpPoint(d), d.text>>)

LEMMA PressedBy ==
  ASSUME NEW d, d.op \in {"click", "double_click"}
  PROVE  /\ Textless(d) => Http(d) = Refused /\ IfSound(Fuse(d)) = Refused
         /\ ~Textless(d) => Http(d) = Pressing(d) /\ Fuse(d) = Pressing(d)
         /\ Schema(d) => Mcp(d) = Pressing(d)
<1> DEFINE at == HttpPoint(d)
           text == IF d.text = Missing THEN "" ELSE d.text
<1>1. Http(d) = IF Textless(d) THEN Refused ELSE Pressing(d)
  BY DEF Http, HttpPointer, MouseOps, KeyOps, Pressing, Textless
<1>2. Fuse(d) = Made(at, <<d.op, at, text>>)
  BY DEF Fuse, FuseInput, HttpPoint, FusePoint, MouseOps, KeyOps
<1>3. Schema(d) => Mcp(d) = Pressing(d)
  BY DEF Mcp, McpPointer, HttpPoint, McpPoint, MouseOps, KeyOps, Pressing
<1>4. ASSUME Textless(d)
      PROVE  IfSound(Fuse(d)) = Refused
  <2>1. text # "left"
    BY <1>4 DEF Missing, Textless
  <2> HIDE DEF text, at
  <2>2. QED
    BY <1>2, <2>1, NamelessUnsound
<1>5. ASSUME ~Textless(d)
      PROVE  Fuse(d) = Pressing(d)
  <2>1. text = d.text
    BY <1>5 DEF Textless
  <2> HIDE DEF text
  <2>2. QED
    BY <1>2, <2>1, Zenon DEF Pressing
<1>6. QED
  BY <1>1, <1>3, <1>4, <1>5, Zenon

LEMMA MovedBy ==
  ASSUME NEW d, d.op = "move"
  PROVE  Fuse(d) = Http(d) /\ (Schema(d) => Mcp(d) = Http(d))
BY DEF Http, Mcp, Fuse, HttpPointer, McpPointer, FuseInput, HttpPoint, McpPoint, FusePoint, MouseOps, KeyOps

LEMMA ScrolledBy ==
  ASSUME NEW d, d.op = "scroll"
  PROVE  Fuse(d) = Http(d) /\ (Schema(d) => Mcp(d) = Http(d))
BY DEF Http, Mcp, Fuse, HttpPointer, McpPointer, FuseInput, HttpPoint, McpPoint, FusePoint, MouseOps, KeyOps

LEMMA DraggedBy ==
  ASSUME NEW d, d.op = "drag"
  PROVE  /\ Http(d) = IF d.hasPath THEN Drag(d.path) ELSE Refused
         /\ Fuse(d) = Drag(d.path)
         /\ Schema(d) => d.hasPath /\ Mcp(d) = Drag(d.path)
<1>1. Http(d) = IF d.hasPath THEN Drag(d.path) ELSE Refused
  BY DEF Http, HttpPointer, MouseOps, KeyOps
<1>2. Fuse(d) = Drag(d.path)
  BY DEF Fuse, FuseInput, MouseOps, KeyOps
<1>3. Schema(d) => d.hasPath
  BY DEF Schema
<1>4. Schema(d) => Mcp(d) = Drag(d.path)
  BY DEF Mcp, McpPointer, MouseOps, KeyOps
<1>5. QED
  BY <1>1, <1>2, <1>3, <1>4

LEMMA TypedBy ==
  ASSUME NEW d, d.op \in KeyOps
  PROVE  /\ Http(d) = IF Textless(d) THEN Refused ELSE <<d.op, d.text>>
         /\ Fuse(d) = LET text == IF d.text = Missing THEN "" ELSE d.text
                      IN IF text = "" THEN Refused ELSE <<d.op, text>>
         /\ Schema(d) => Mcp(d) = <<d.op, d.text>>
BY DEF Http, HttpKeyboard, Mcp, Fuse, FuseInput, MouseOps, KeyOps, Textless

LEMMA ShotBy ==
  ASSUME NEW d, d.op = "screenshot"
  PROVE  /\ Http(d) = IF d.crop.is # "set" THEN <<"screenshot", Nil>> ELSE Cropped(Crop(d.crop))
         /\ Fuse(d) = IF d.crop.is = "set" THEN CropName(d.crop) ELSE <<"screenshot", Nil>>
         /\ Schema(d) => Mcp(d) = IF d.crop.is = "unset" THEN <<"screenshot", Nil>> ELSE Cropped(Crop(d.crop))
BY DEF Http, HttpScreenshot, Mcp, McpScreenshot, Fuse, MouseOps, KeyOps

LEMMA NoPathUnsound == IfSound(Drag(<<>>)) = Refused
<1>1. Drag(<<>>) \in {Refused, <<"drag", PathPoints(<<>>)>>}
  BY Zenon DEF Drag
<1>2. ~Sound(<<"drag", PathPoints(<<>>)>>)
  <2>1. Len(PathPoints(<<>>)) = 0
    BY DEF PathPoints
  <2>2. QED
    BY <2>1 DEF Sound
<1>3. QED
  BY <1>1, <1>2, RefusedUnsound, Zenon DEF IfSound

LEMMA EmptyUnsound ==
  ASSUME NEW op \in KeyOps
  PROVE  IfSound(<<op, "">>) = Refused
BY DEF IfSound, Sound, KeyOps

\* HTTP and a file differ only in a crop that the name of a file cannot
\* give.
LEMMA FuseLikeHttp ==
  ASSUME NEW d, IsDocument(d), d.op # "wait", IfSound(Fuse(d)) # IfSound(Http(d))
  PROVE  IfSound(Fuse(d)) = Refused /\ d.crop.is = "set" /\ ~Complete(Crop(d.crop))
<1>1. d.op \in Commands
  BY DEF IsDocument
<1>2. CASE d.op \in {"click", "double_click"}
  <2>1. CASE Textless(d)
    BY <1>2, <2>1, PressedBy, RefusedUnsound
  <2>2. CASE ~Textless(d)
    BY <1>2, <2>2, PressedBy
  <2>3. QED
    BY <2>1, <2>2
<1>3. CASE d.op \in {"move", "scroll"}
  BY <1>3, MovedBy, ScrolledBy
<1>4. CASE d.op = "drag"
  <2>1. CASE d.hasPath
    BY <1>4, <2>1, DraggedBy
  <2>2. CASE ~d.hasPath
    <3>1. d.path = <<>>
      BY <2>2 DEF IsDocument
    <3>2. Http(d) = Refused /\ Fuse(d) = Drag(<<>>)
      BY <1>4, <2>2, <3>1, DraggedBy
    <3>3. QED
      BY <3>2, NoPathUnsound, RefusedUnsound
  <2>3. QED
    BY <2>1, <2>2
<1>5. CASE d.op \in KeyOps
  <2>1. CASE Textless(d)
    BY <1>5, <2>1, TypedBy DEF Textless
  <2>2. CASE ~Textless(d)
    BY <1>5, <2>2, TypedBy DEF Textless
  <2>3. QED
    BY <2>1, <2>2
<1>6. CASE d.op = "screenshot"
  <2>1. CASE d.crop.is # "set"
    BY <1>6, <2>1, ShotBy
  <2>2. CASE d.crop.is = "set" /\ \A f \in {"x", "y", "w", "h"} : Set(d.crop[f])
    <3>1. Fuse(d) = CropName(d.crop) /\ Http(d) = Cropped(Crop(d.crop))
      BY <1>6, <2>2, ShotBy
    <3>2. CropName(d.crop) = Cropped(Crop(d.crop))
      BY <2>2, Zenon DEF CropName
    <3>3. QED
      BY <3>1, <3>2
  <2>3. CASE d.crop.is = "set" /\ \E f \in {"x", "y", "w", "h"} : ~Set(d.crop[f])
    <3>1. Fuse(d) = Refused
      <4>1. Fuse(d) = CropName(d.crop)
        BY <1>6, <2>3, ShotBy
      <4>2. QED
        BY <2>3, <4>1, Zenon DEF CropName
    <3>2. \E i \in 1..4 : Crop(d.crop)[i] = Nil
      <4>1. CASE ~Set(d.crop.x) \/ ~Set(d.crop.y)
        BY <4>1 DEF Crop, OptionalInt
      <4>2. CASE ~Set(d.crop.w) \/ ~Set(d.crop.h)
        BY <4>2 DEF Crop, OptionalInt
      <4>3. QED
        BY <2>3, <4>1, <4>2
    <3>3. QED
      BY <2>3, <3>1, <3>2, RefusedUnsound DEF Complete
  <2>4. QED
    BY <2>1, <2>2, <2>3
<1>7. CASE d.op = "status"
  BY <1>7 DEF Http, Fuse, MouseOps, KeyOps
<1>8. QED
  BY <1>1, <1>2, <1>3, <1>4, <1>5, <1>6, <1>7 DEF Commands, MouseOps

\* The values a command is made of must be there.
LEMMA MissingRefused ==
  ASSUME NEW values, NEW command, NEW i \in DOMAIN values, values[i] = Bad
  PROVE  Made(values, command) = Refused
BY Zenon DEF Made

LEMMA PairsJoined ==
  ASSUME NEW a, NEW b, NEW c, NEW e
  PROVE  LET all == <<a, b>> \o <<c, e>> IN DOMAIN all = 1..4 /\ all[1] = a /\ all[2] = b /\ all[3] = c /\ all[4] = e
<1> DEFINE S == {a, b, c, e}
           s == <<a, b>>
           t == <<c, e>>
<1>1. s \in Seq(S) /\ t \in Seq(S) /\ Len(s) = 2 /\ Len(t) = 2 /\ s[1] = a /\ s[2] = b /\ t[1] = c /\ t[2] = e
  OBVIOUS
<1> HIDE DEF S, s, t
<1>2. /\ s \o t \in Seq(S)
      /\ Len(s \o t) = Len(s) + Len(t)
      /\ \A i \in 1..(Len(s) + Len(t)) : (s \o t)[i] = IF i <= Len(s) THEN s[i] ELSE t[i - Len(s)]
  BY <1>1, ConcatProperties, Zenon
<1>3. /\ DOMAIN (s \o t) = 1..4
      /\ (s \o t)[1] = s[1] /\ (s \o t)[2] = s[2] /\ (s \o t)[3] = t[1] /\ (s \o t)[4] = t[2]
  <2> DEFINE u == s \o t
  <2> HIDE DEF u
  <2>1. u \in Seq(S) /\ Len(u) = 4 /\ u[1] = s[1] /\ u[2] = s[2] /\ u[3] = t[1] /\ u[4] = t[2]
    BY <1>1, <1>2 DEF u
  <2>2. DOMAIN u = 1..4
    BY <2>1
  <2>3. QED
    BY <2>1, <2>2 DEF u
<1>4. QED
  BY <1>1, <1>3 DEF s, t

LEMMA NoPointRefused ==
  ASSUME NEW d, d.op \in MouseOps \ {"drag"}, Unset \in {d.x, d.y}
  PROVE  Http(d) = Refused
<1> DEFINE at == HttpPoint(d)
<1>1. at = <<RequiredFloat64(d.x), RequiredFloat64(d.y)>> /\ RequiredFloat64(Unset) = Bad
  BY DEF HttpPoint, RequiredFloat64, Set
<1>2. PICK i \in {1, 2} : at[i] = Bad
  BY <1>1
<1>3. CASE d.op \in {"click", "double_click"}
  <2>1. i \in DOMAIN at
    BY <1>1, <1>2
  <2>2. Pressing(d) = Refused
    <3> HIDE DEF at
    <3>1. QED
      BY <1>2, <2>1, MissingRefused DEF Pressing, at
  <2>3. QED
    BY <1>3, <2>2, PressedBy
<1>4. CASE d.op = "move"
  <2>1. i \in DOMAIN at
    BY <1>1, <1>2
  <2>2. Made(at, <<d.op, at>>) = Refused
    BY <1>2, <2>1, MissingRefused
  <2>3. QED
    BY <1>4, <2>2 DEF Http, HttpPointer, MouseOps, KeyOps
<1>5. CASE d.op = "scroll"
  <2> DEFINE by == <<IntOf(d.scrollX), IntOf(d.scrollY)>>
             values == at \o by
  <2>1. values = <<RequiredFloat64(d.x), RequiredFloat64(d.y)>> \o <<IntOf(d.scrollX), IntOf(d.scrollY)>>
    BY <1>1
  <2>2. i \in DOMAIN values /\ values[i] = Bad
    <3>1. DOMAIN values = 1..4 /\ values[1] = RequiredFloat64(d.x) /\ values[2] = RequiredFloat64(d.y)
      BY <2>1, PairsJoined
    <3>2. at[1] = RequiredFloat64(d.x) /\ at[2] = RequiredFloat64(d.y)
      BY <1>1
    <3> HIDE DEF at, by, values
    <3>3. QED
      BY <1>2, <3>1, <3>2
  <2>3. Made(values, <<d.op, at, by>>) = Refused
    <3> HIDE DEF values, at, by
    <3>1. QED
      BY <2>2, MissingRefused
  <2>4. Http(d) = Made(values, <<d.op, at, by>>)
    BY <1>5 DEF Http, HttpPointer, MouseOps, KeyOps
  <2>5. QED
    BY <2>3, <2>4
<1>6. QED
  BY <1>3, <1>4, <1>5 DEF MouseOps

LEMMA HoleRefused ==
  ASSUME NEW d, d.op = "drag", NEW i \in DOMAIN d.path, {d.path[i].x, d.path[i].y} \cap {Unset, Null} # {}
  PROVE  Http(d) = Refused
<1> DEFINE points == PathPoints(d.path)
<1>1. RequiredFloat64(Unset) = Bad /\ RequiredFloat64(Null) = Bad
  BY DEF RequiredFloat64, Set
<1>2. points[i] = <<RequiredFloat64(d.path[i].x), RequiredFloat64(d.path[i].y)>> /\ i \in DOMAIN points
  BY DEF PathPoints
<1>3. Bad \in {points[i][1], points[i][2]}
  BY <1>1, <1>2
<1>4. Drag(d.path) = Refused
  BY <1>2, <1>3, Zenon DEF Drag
<1>5. QED
  BY <1>4, DraggedBy

\* HTTP and MCP differ only in a document that the schema refuses.
LEMMA McpLikeHttp ==
  ASSUME NEW d, IsDocument(d), d.op # "wait", IfSound(Mcp(d)) # IfSound(Http(d))
  PROVE  IfSound(Mcp(d)) = Refused /\ Strange(d)
<1>1. d.op \in Commands
  BY DEF IsDocument
<1>2. CASE ~Schema(d)
  <2>1. IfSound(Mcp(d)) = Refused
    <3>1. Mcp(d) = Refused
      BY <1>2 DEF Mcp
    <3>2. QED
      BY <3>1, RefusedUnsound
  <2>2. Http(d) # Refused
    BY <2>1, RefusedUnsound
  <2>3. ~(d.op \in MouseOps \ {"drag"} /\ Unset \in {d.x, d.y})
    BY <2>2, NoPointRefused
  <2>4. ~(d.op \in {"click", "double_click"} \cup KeyOps /\ d.text = Missing)
    <3>1. SUFFICES ASSUME d.op \in {"click", "double_click"} \cup KeyOps, Textless(d) PROVE FALSE
      BY DEF Textless
    <3>2. CASE d.op \in {"click", "double_click"}
      BY <2>2, <3>1, <3>2, PressedBy
    <3>3. CASE d.op \in KeyOps
      BY <2>2, <3>1, <3>3, TypedBy
    <3>4. QED
      BY <3>1, <3>2, <3>3
  <2>5. d.op = "drag" => /\ d.hasPath
                         /\ \A i \in DOMAIN d.path : {d.path[i].x, d.path[i].y} \cap {Unset, Null} = {}
    BY <2>2, HoleRefused, DraggedBy
  <2>6. Strange(d)
    BY <1>2, <2>3, <2>4, <2>5 DEF Schema, Strange
  <2>7. QED
    BY <2>1, <2>6
<1>3. CASE Schema(d)
  <2>1. SUFFICES IfSound(Mcp(d)) = IfSound(Http(d))
    OBVIOUS
  <2>2. CASE d.op \in {"click", "double_click"}
    <3>1. CASE Textless(d)
      <4>1. d.text # "left"
        BY <3>1 DEF Missing, Textless
      <4>2. IfSound(Pressing(d)) = Refused
        BY <2>2, <4>1, NamelessUnsound DEF Pressing
      <4>3. QED
        BY <1>3, <2>2, <3>1, <4>2, PressedBy, RefusedUnsound
    <3>2. CASE ~Textless(d)
      BY <1>3, <2>2, <3>2, PressedBy
    <3>3. QED
      BY <3>1, <3>2
  <2>3. CASE d.op \in {"move", "scroll"}
    BY <1>3, <2>3, MovedBy, ScrolledBy
  <2>4. CASE d.op = "drag"
    BY <1>3, <2>4, DraggedBy
  <2>5. CASE d.op \in KeyOps
    <3>1. Mcp(d) = <<d.op, d.text>> /\ d.text # Missing
      BY <1>3, <2>5, TypedBy DEF Schema
    <3>2. CASE d.text = ""
      BY <2>5, <3>1, <3>2, TypedBy, EmptyUnsound, RefusedUnsound DEF Textless
    <3>3. CASE d.text # ""
      BY <2>5, <3>1, <3>3, TypedBy DEF Textless
    <3>4. QED
      BY <3>2, <3>3
  <2>6. CASE d.op = "screenshot"
    <3>1. d.crop.is \in {"unset", "set"}
      BY <1>3 DEF Schema, IsDocument
    <3>2. QED
      BY <1>3, <2>6, <3>1, ShotBy
  <2>7. CASE d.op = "status"
    BY <1>3, <2>7 DEF Http, Mcp, MouseOps, KeyOps
  <2>8. QED
    BY <1>1, <2>2, <2>3, <2>4, <2>5, <2>6, <2>7 DEF Commands, MouseOps
<1>4. QED
  BY <1>2, <1>3

\* What HTTP, MCP and the mounted files make of a document is one command,
\* except where one of them refuses it for a reason that is its own: the
\* schema of a tool, a crop without a name (httpapi/routes.go,
\* mcpapi/server.go, fusefs/filesystem.go), whatever the document holds.
THEOREM FrontsMeanTheSame == DeskSpec => []FrontsAgree
<1>1. ASSUME asked \in Requests, asked.document.op # "wait"
      PROVE  AllAgree(asked.document, Anyone("http", asked.document), Anyone("fuse", asked.document),
                      Anyone("mcp", asked.document), Anyone("stdio", asked.document))
  <2> DEFINE d == asked.document
  <2>1. IsDocument(d)
    BY <1>1, RequestAssumption
  <2>2. /\ Of("http", d) = Http(d)
        /\ Of("fuse", d) = Fuse(d)
        /\ Of("mcp", d) = Mcp(d)
        /\ Of("stdio", d) = Mcp(d)
    BY DEF Of
  <2>3. /\ Anyone("http", d) = IfSound(Http(d))
        /\ Anyone("fuse", d) = IfSound(Fuse(d))
        /\ Anyone("mcp", d) = IfSound(Mcp(d))
        /\ Anyone("stdio", d) = IfSound(Mcp(d))
    BY <2>2, ExecutedIs, Zenon
  <2>4. IfSound(Fuse(d)) # IfSound(Http(d))
          => IfSound(Fuse(d)) = Refused /\ d.crop.is = "set" /\ ~Complete(Crop(d.crop))
    BY <1>1, <2>1, FuseLikeHttp
  <2>5. IfSound(Mcp(d)) # IfSound(Http(d)) => IfSound(Mcp(d)) = Refused /\ Strange(d)
    BY <1>1, <2>1, McpLikeHttp
  <2>6. QED
    BY <2>3, <2>4, <2>5, Zenon DEF AllAgree
<1>2. (asked # None => asked \in Requests) => FrontsAgree
  BY <1>1 DEF FrontsAgree
<1>3. QED
  BY AskedIs, <1>2, PTL

\* The same of the files.
LEMMA FuseOf ==
  ASSUME NEW d, IsDocument(d)
  PROVE  IsOf(Fuse(d), d.op)
<1>1. d.op \in Commands
  BY DEF IsDocument
<1>2. CASE d.op = "screenshot"
  <2>1. Fuse(d) \in {<<"screenshot", Nil>>, CropName(d.crop)}
    BY <1>2, ShotBy, Zenon
  <2>2. CropName(d.crop) \in {Refused, Cropped(Crop(d.crop))}
    BY Zenon DEF CropName
  <2>3. QED
    BY <1>2, <2>1, <2>2, CropOf, PairOf DEF IsOf
<1>3. CASE d.op \in {"click", "double_click"}
  <2> DEFINE at == HttpPoint(d)
             text == IF d.text = Missing THEN "" ELSE d.text
  <2>1. Fuse(d) = Made(at, <<d.op, at, text>>)
    BY <1>3 DEF Fuse, FuseInput, HttpPoint, FusePoint, MouseOps, KeyOps
  <2> HIDE DEF at, text
  <2>2. QED
    BY <2>1, MadeTriple
<1>4. CASE d.op \in {"move", "scroll"}
  <2>1. Fuse(d) = Http(d)
    BY <1>4, MovedBy, ScrolledBy
  <2>2. QED
    BY <2>1, HttpOf
<1>5. CASE d.op = "drag"
  BY <1>5, DraggedBy, DragOf
<1>6. CASE d.op \in KeyOps
  <2>1. PICK text : Fuse(d) \in {Refused, <<d.op, text>>}
    BY <1>6, TypedBy
  <2>2. QED
    BY <2>1, PairOf, Zenon DEF IsOf
<1>7. CASE d.op = "status"
  BY <1>7 DEF Fuse, KeyOps, MouseOps, IsOf
<1>8. CASE d.op = "wait"
  BY <1>8 DEF Fuse, KeyOps, MouseOps, IsOf
<1>9. QED
  BY <1>1, <1>2, <1>3, <1>4, <1>5, <1>6, <1>7, <1>8 DEF Commands, MouseOps

\* A command that is executed is what the front has made of the document.
LEMMA CommandIs ==
  ASSUME NEW r \in Requests, CommandOf(r) # Refused
  PROVE  /\ CommandOf(r) \in {Http(r.document), Fuse(r.document), Mcp(r.document)}
         /\ CommandOf(r)[1] = r.document.op
         /\ Sound(CommandOf(r))
         /\ CommandOf(r) = Mcp(r.document) => Schema(r.document)
<1> DEFINE d == r.document
           made == Of(r.front, d)
<1>1. CommandOf(r) = made /\ Sound(made)
  BY Zenon DEF CommandOf, Executed, IfSound
<1>2. made \in {Http(d), Fuse(d), Mcp(d)}
  <2>1. r.front \in {"http", "mcp", "stdio", "fuse"}
    BY RequestAssumption
  <2>2. QED
    BY <2>1 DEF Of
<1>3. IsDocument(d)
  BY RequestAssumption
<1>4. IsOf(made, d.op)
  <2>1. IsOf(Http(d), d.op) /\ IsOf(Fuse(d), d.op) /\ IsOf(Mcp(d), d.op)
    BY <1>3, HttpOf, FuseOf, McpOf
  <2> HIDE DEF made, d
  <2>2. QED
    BY <1>2, <2>1
<1>5. Mcp(d) # Refused => Schema(d)
  BY Zenon DEF Mcp
<1>6. QED
  BY <1>1, <1>2, <1>4, <1>5 DEF IsOf

------------------------------------------------------------------------------
(* Numbers *)

Ints == (-Top)..(Top - 1)
Halves == {Bad} \cup {<<h>> : h \in Int}

\* There is an int.
LEMMA TopIs == Top \in Nat \ {0}
BY WidthAssumption, PowerAssumption DEF Top

\* What numbers come to.
LEMMA QuotientIs ==
  ASSUME NEW a \in Int, NEW b \in Int, b # 0
  PROVE  Quotient(a, b) \in Int
<1>1. Abs(a) \in Nat /\ Abs(b) \in Nat \ {0}
  BY DEF Abs
<1>2. Abs(a) \div Abs(b) \in Int
  BY <1>1
<1>3. QED
  BY <1>2 DEF Quotient

LEMMA ValueIs ==
  ASSUME NEW n \in Numerals, Set(n)
  PROVE  Value(n) \in Halves
<1>1. CASE n = Text
  BY <1>1 DEF Text, Value, Halves
<1>2. CASE n \in {"num"} \X Int
  BY <1>2 DEF Value, Halves
<1>3. CASE n \in {"calc"} \X {"+", "-", "*", "/"} \X (BOOLEAN \X Int) \X (BOOLEAN \X Int)
  <2>1. PICK o \in {"+", "-", "*", "/"}, a \in BOOLEAN \X Int, b \in BOOLEAN \X Int : n = <<"calc", o, a, b>>
    BY <1>3
  <2>2. a[2] \in Int /\ b[2] \in Int
    BY <2>1
  <2>3. Value(n) = Evaluated(o, a, b)
    BY <2>1 DEF Value
  <2>4. CASE o = "+"
    BY <2>2, <2>3, <2>4 DEF Evaluated, Halves
  <2>5. CASE o = "-"
    BY <2>2, <2>3, <2>5 DEF Evaluated, Halves
  <2>6. CASE o = "*"
    <3>1. Quotient(a[2] * b[2], 2) \in Int
      BY <2>2, QuotientIs
    <3>2. Evaluated(o, a, b) = <<Quotient(a[2] * b[2], 2)>>
      BY <2>6 DEF Evaluated
    <3>3. QED
      BY <2>3, <3>1, <3>2 DEF Halves
  <2>7. CASE o = "/" /\ b[2] = 0
    BY <2>3, <2>7 DEF Evaluated, Halves
  <2>8. CASE o = "/" /\ b[2] # 0
    <3>1. Quotient(a[2], b[2]) \in Int /\ Quotient(2 * a[2], b[2]) \in Int
      BY <2>2, <2>8, QuotientIs
    <3>2. Evaluated(o, a, b) \in {<<2 * Quotient(a[2], b[2])>>, <<Quotient(2 * a[2], b[2])>>}
      BY <2>8 DEF Evaluated
    <3>3. QED
      BY <2>3, <3>1, <3>2 DEF Halves
  <2>9. QED
    BY <2>4, <2>5, <2>6, <2>7, <2>8
<1>4. QED
  BY <1>1, <1>2, <1>3 DEF Numerals, Set

\* A number rounded is half a unit away at most.
LEMMA RoundedIs ==
  ASSUME NEW h \in Int
  PROVE  Rounded(h) \in Int /\ Abs(2 * Rounded(h) - h) <= 1
<1>1. CASE h >= 0
  <2>1. Rounded(h) = (h + 1) \div 2
    BY <1>1 DEF Rounded
  <2>2. QED
    BY <2>1 DEF Abs
<1>2. CASE ~(h >= 0)
  <2>1. Rounded(h) = -((1 - h) \div 2)
    BY <1>2 DEF Rounded
  <2>2. QED
    BY <2>1 DEF Abs
<1>3. QED
  BY <1>1, <1>2

\* An int that a number is rounded to, if it is one.
LEMMA RoundIntIs ==
  ASSUME NEW h \in Int
  PROVE  \/ RoundInt(h) = Bad
         \/ /\ RoundInt(h)[1] \in Ints /\ RoundInt(h) = <<RoundInt(h)[1]>>
            /\ Abs(2 * RoundInt(h)[1] - h) <= 1 \/ RoundInt(h)[1] \in {-Top, Top - 1}
<1> DEFINE k == Rounded(h)
<1>1. k \in Int /\ Abs(2 * k - h) <= 1 /\ Top \in Nat \ {0}
  BY RoundedIs, TopIs
<1>2. CASE k < -Top \/ k > Top
  BY <1>1, <1>2 DEF RoundInt
<1>3. CASE k = Top
  <2>1. RoundInt(h) = <<Beyond>>
    BY <1>1, <1>3 DEF RoundInt
  <2>2. RoundInt(h)[1] = Beyond
    BY <2>1
  <2>3. Beyond \in Ints /\ Beyond \in {-Top, Top - 1}
    BY <1>1, BeyondAssumption DEF Ints
  <2> HIDE DEF k
  <2>4. QED
    BY <2>1, <2>2, <2>3
<1>4. CASE k \in Ints
  <2>1. RoundInt(h) = <<k>>
    BY <1>1, <1>4 DEF RoundInt, Ints
  <2> HIDE DEF k
  <2>2. QED
    BY <1>1, <1>4, <2>1
<1>5. QED
  BY <1>1, <1>2, <1>3, <1>4 DEF Ints

LEMMA IntOfIs ==
  ASSUME NEW n \in Numerals
  PROVE  IntOf(n) = Bad \/ (IntOf(n)[1] \in Ints /\ IntOf(n) = <<IntOf(n)[1]>>)
<1>1. Float64(n) \in Halves
  BY ValueIs DEF Float64, Halves
<1>2. CASE Float64(n) = Bad
  BY <1>2 DEF IntOf
<1>3. CASE Float64(n) # Bad
  <2>1. Float64(n)[1] \in Int
    BY <1>1, <1>3 DEF Halves
  <2>2. IntOf(n) = RoundInt(Float64(n)[1])
    BY <1>3 DEF IntOf
  <2>3. QED
    BY <2>1, <2>2, RoundIntIs
<1>4. QED
  BY <1>2, <1>3

------------------------------------------------------------------------------
(* Which area a crop is *)

\* The parts of a crop that was made a command.
Part == {Nil} \cup {<<k>> : k \in Ints}

\* A crop that is executed has four parts, each an int or left out.
LEMMA CropIs ==
  ASSUME NEW r \in Requests, HasCrop(CommandOf(r))
  PROVE  \E a, b, c, e \in Part : CommandOf(r)[2] = <<a, b, c, e>>
<1> DEFINE d == r.document
           crop == Crop(d.crop)
           command == CommandOf(r)
<1>1. command[1] = "screenshot" /\ command[2] # Nil
  BY DEF HasCrop
<1>2. command # Refused
  BY <1>1 DEF Refused
<1>3. d.op = "screenshot" /\ command \in {Http(d), Fuse(d), Mcp(d)} /\ (command = Mcp(d) => Schema(d))
  BY <1>1, <1>2, CommandIs
<1>4. command \in {<<"screenshot", Nil>>, Cropped(crop), CropName(d.crop)}
  BY <1>3, ShotBy
<1>5. command \in {<<"screenshot", Nil>>, <<"screenshot", crop>>} /\ Cropped(crop) # Refused
  <2>1. Cropped(crop) \in {Refused, <<"screenshot", crop>>}
    BY Zenon DEF Cropped, Made
  <2>2. CropName(d.crop) \in {Refused, Cropped(crop)}
    BY Zenon DEF CropName
  <2> HIDE DEF command, crop
  <2>3. command \in {<<"screenshot", Nil>>, Cropped(crop)}
    BY <1>2, <1>4, <2>2
  <2>4. CASE command = <<"screenshot", Nil>>
    BY <1>1, <2>4
  <2>5. CASE command = Cropped(crop)
    BY <1>2, <2>1, <2>5
  <2>6. QED
    BY <2>3, <2>4, <2>5
<1>6. \A i \in DOMAIN crop : crop[i] # Bad
  BY <1>5, Zenon DEF Cropped, Made
<1>7. command[2] = crop
  BY <1>1, <1>5
<1>8. \A n \in Numerals : OptionalInt(n) \in Part \cup {Bad}
  BY IntOfIs DEF OptionalInt, Part
<1>9. crop = <<OptionalInt(d.crop.x), OptionalInt(d.crop.y), OptionalInt(d.crop.w), OptionalInt(d.crop.h)>>
  BY DEF Crop
<1>10. {d.crop.x, d.crop.y, d.crop.w, d.crop.h} \subseteq Numerals
  BY RequestAssumption DEF IsDocument
<1>11. DOMAIN crop = 1..4 /\ crop[1] = OptionalInt(d.crop.x) /\ crop[2] = OptionalInt(d.crop.y)
                          /\ crop[3] = OptionalInt(d.crop.w) /\ crop[4] = OptionalInt(d.crop.h)
  BY <1>9
<1>12. {crop[1], crop[2], crop[3], crop[4]} \subseteq Part
  <2> HIDE DEF crop
  <2>1. Bad \notin {crop[1], crop[2], crop[3], crop[4]}
    BY <1>6, <1>11
  <2>2. QED
    BY <1>8, <1>10, <1>11, <2>1
<1>13. QED
  BY <1>7, <1>9, <1>11, <1>12

\* A sum of two ints wraps at most once.
LEMMA WrappedIs ==
  ASSUME NEW n \in (-2 * Top)..(2 * Top)
  PROVE  \/ n \in Ints /\ Wrapped(n) = n
         \/ n >= Top /\ Wrapped(n) = n - 2 * Top
         \/ n < -Top /\ Wrapped(n) = n + 2 * Top
<1> DEFINE m == 2 * Top
<1>1. Top \in Nat \ {0} /\ m \in Nat \ {0} /\ m = 2 * Top
  BY TopIs
<1>2. Wrapped(n) = ((n + Top) % m) - Top
  BY DEF Wrapped
<1> HIDE DEF m
<1>3. CASE n \in Ints
  <2>1. n + Top \in 0..(m - 1)
    BY <1>1, <1>3 DEF Ints
  <2>2. (n + Top) % m = n + Top
    BY <1>1, <2>1
  <2>3. QED
    BY <1>1, <1>2, <1>3, <2>2
<1>4. CASE n >= Top
  <2>1. n + Top - m \in 0..(m - 1) /\ n + Top = (n + Top - m) + m
    BY <1>1, <1>4
  <2>2. (n + Top) % m = n + Top - m
    BY <1>1, <2>1
  <2>3. QED
    BY <1>1, <1>2, <1>4, <2>2
<1>5. CASE n < -Top
  <2>1. n + Top + m \in 0..(m - 1) /\ n + Top = (n + Top + m) - m
    BY <1>1, <1>5
  <2>2. (n + Top) % m = n + Top + m
    BY <1>1, <2>1
  <2>3. QED
    BY <1>1, <1>2, <1>5, <2>2
<1>6. QED
  BY <1>1, <1>3, <1>4, <1>5 DEF Ints

\* The edge a crop names and the one it means, on one axis: past the end of
\* the ints the first is on the other side of the corner.
Edge(near, named, meant) ==
  /\ near \in Ints /\ named \in Ints /\ meant \in Int
  /\ \/ named = meant
     \/ meant >= Top /\ named < near /\ named < 0
     \/ meant < -Top /\ near < 0

\* The far edge of a crop on one axis.
LEMMA AxisIs ==
  ASSUME NEW near \in Ints, NEW part \in Part, NEW size \in 1..(Top - 1)
  PROVE  Edge(near,
               IF part = Nil THEN size ELSE Wrapped(near + part[1]),
               IF part = Nil THEN size ELSE near + part[1])
<1>1. Top \in Nat \ {0}
  BY TopIs
<1>2. CASE part = Nil
  BY <1>1, <1>2 DEF Edge, Ints
<1>3. CASE part # Nil
  <2>1. PICK w \in Ints : part = <<w>>
    BY <1>3 DEF Part
  <2>2. near \in Int /\ w \in Int /\ near >= -Top /\ near < Top /\ w >= -Top /\ w < Top
    BY <1>1 DEF Ints
  <2>3. near + w \in (-2 * Top)..(2 * Top)
    BY <1>1, <2>2
  <2>4. Edge(near, Wrapped(near + w), near + w)
    BY <1>1, <2>2, <2>3, WrappedIs DEF Edge, Ints
  <2>5. part[1] = w
    BY <2>1
  <2>6. QED
    BY <1>3, <2>4, <2>5
<1>4. QED
  BY <1>2, <1>3

LEMMA CropEdges ==
  ASSUME NEW a \in Part, NEW b \in Part, NEW c \in Part, NEW e \in Part
  PROVE  \E left, top, right, bottom, right2, bottom2 \in Int :
           /\ Named(Picture, <<a, b, c, e>>) = Edges(left, top, right, bottom)
           /\ Meant(<<a, b, c, e>>) = Edges(left, top, right2, bottom2)
           /\ Edge(left, right, right2) /\ Edge(top, bottom, bottom2)
<1> DEFINE left == Or(a, 0)
           top == Or(b, 0)
           right == IF c = Nil THEN Picture[1] ELSE Wrapped(left + c[1])
           bottom == IF e = Nil THEN Picture[2] ELSE Wrapped(top + e[1])
           right2 == IF c = Nil THEN Picture[1] ELSE left + c[1]
           bottom2 == IF e = Nil THEN Picture[2] ELSE top + e[1]
<1>1. Picture[1] \in 1..(Top - 1) /\ Picture[2] \in 1..(Top - 1) /\ Top \in Nat \ {0}
  BY PictureAssumption, TopIs
<1>2. left \in Ints /\ top \in Ints
  BY <1>1 DEF Or, Part, Ints
<1>3. /\ Named(Picture, <<a, b, c, e>>) = Edges(left, top, right, bottom)
      /\ Meant(<<a, b, c, e>>) = Edges(left, top, right2, bottom2)
  BY DEF Named, Meant
<1> HIDE DEF left, top
<1>4. Edge(left, right, right2) /\ Edge(top, bottom, bottom2)
  BY <1>1, <1>2, AxisIs
<1> HIDE DEF right, bottom, right2, bottom2
<1>5. left \in Int /\ top \in Int /\ right \in Int /\ bottom \in Int /\ right2 \in Int /\ bottom2 \in Int
  BY <1>1, <1>2, <1>4 DEF Edge, Ints
<1>6. QED
  BY <1>3, <1>4, <1>5

\* What is cut out of a picture of everything.
LEMMA CutServed ==
  ASSUME NEW left \in Int, NEW top \in Int, NEW right \in Int, NEW bottom \in Int,
         NEW right2 \in Int, NEW bottom2 \in Int, NEW crop,
         Named(Picture, crop) = Edges(left, top, right, bottom),
         Edge(left, right, right2), Edge(top, bottom, bottom2)
  PROVE  Served(Edges(left, top, right2, bottom2), CropBounds(Picture, crop))
<1> DEFINE area == Edges(left, top, right, bottom)
           meant == Edges(left, top, right2, bottom2)
<1>1. /\ area.left = left /\ area.top = top /\ area.right = right /\ area.bottom = bottom
      /\ meant.left = left /\ meant.top = top /\ meant.right = right2 /\ meant.bottom = bottom2
  BY DEF Edges
<1>2. Picture[1] \in 1..(Top - 1) /\ Picture[2] \in 1..(Top - 1) /\ Top \in Nat \ {0}
  BY PictureAssumption, TopIs
<1>3. CropBounds(Picture, crop) = IF ~Within(area, Picture) \/ Empty(area) THEN None ELSE area
  BY Zenon DEF CropBounds
<1>4. CASE right = right2 /\ bottom = bottom2
  BY <1>3, <1>4 DEF Served
<1>5. CASE right # right2 \/ bottom # bottom2
  <2> HIDE DEF area, meant
  <2>1. ~Within(area, Picture) \/ Empty(area)
    BY <1>1, <1>2, <1>5 DEF Within, Empty, Edge
  <2>2. ~Within(meant, Picture)
    BY <1>1, <1>2, <1>5 DEF Within, Edge
  <2>3. QED
    BY <1>3, <2>1, <2>2 DEF Served, meant
<1>6. QED
  BY <1>4, <1>5

\* The same with the corners swapped.
LEMMA SwappedServed ==
  ASSUME NEW left \in Int, NEW top \in Int, NEW right \in Int, NEW bottom \in Int,
         NEW right2 \in Int, NEW bottom2 \in Int, NEW crop,
         Named(Picture, crop) = Edges(left, top, right, bottom),
         Edge(left, right, right2), Edge(top, bottom, bottom2)
  PROVE  Served(Swapped(Edges(left, top, right2, bottom2)), CropRect(Picture, crop))
<1> DEFINE area == Swapped(Edges(left, top, right, bottom))
           meant == Swapped(Edges(left, top, right2, bottom2))
<1>1. /\ area.left <= left /\ area.left <= right /\ area.top <= top /\ area.top <= bottom
      /\ area.left \in Int /\ area.top \in Int /\ area.right \in Int /\ area.bottom \in Int
  BY DEF Swapped, Edges
<1>2. /\ meant.left <= left /\ meant.right >= right2 /\ meant.top <= top /\ meant.bottom >= bottom2
      /\ meant.left \in Int /\ meant.top \in Int /\ meant.right \in Int /\ meant.bottom \in Int
  BY DEF Swapped, Edges
<1>3. Picture[1] \in 1..(Top - 1) /\ Picture[2] \in 1..(Top - 1) /\ Top \in Nat \ {0}
  BY PictureAssumption, TopIs
<1>4. CropRect(Picture, crop) = IF Empty(area) \/ ~Within(area, Picture) THEN None ELSE area
  BY Zenon DEF CropRect
<1>5. CASE right = right2 /\ bottom = bottom2
  BY <1>4, <1>5 DEF Served
<1>6. CASE right # right2 \/ bottom # bottom2
  <2> HIDE DEF area, meant
  <2>1. ~Within(area, Picture)
    BY <1>1, <1>3, <1>6 DEF Within, Edge
  <2>2. ~Within(meant, Picture)
    BY <1>2, <1>3, <1>6 DEF Within, Edge
  <2>3. QED
    BY <1>4, <2>1, <2>2 DEF Served, meant
<1>7. QED
  BY <1>5, <1>6

\* What an int32 makes of an integer: one of its own, and the same only if
\* it holds it.
LEMMA NarrowedIs ==
  ASSUME NEW n \in Int
  PROVE  /\ Narrowed(n) = n <=> Fits(n)
         /\ Fits(n) /\ n >= 0 => n % 2^Narrow = n
<1> DEFINE m == 2^Narrow
           half == 2^(Narrow - 1)
           cut == (n + half) % m
<1>1. m \in Nat \ {0} /\ half \in Nat \ {0} /\ m = 2 * half
  BY WidthAssumption, NarrowAssumption, PowerAssumption
<1>2. Narrowed(n) = cut - half
  BY DEF Narrowed
<1>3. Fits(n) <=> n >= -half /\ n < half
  BY <1>1 DEF Fits
<1> HIDE DEF m, half
<1>4. cut \in 0..(m - 1)
  BY <1>1
<1>5. n >= -half /\ n < half => cut = n + half
  <2>1. ASSUME n >= -half, n < half PROVE n + half \in 0..(m - 1)
    BY <1>1, <2>1
  <2>2. QED
    BY <1>1, <2>1
<1>6. n >= 0 /\ n < half => n % m = n
  BY <1>1
<1> HIDE DEF cut
<1>7. Narrowed(n) = n <=> n >= -half /\ n < half
  BY <1>1, <1>2, <1>4, <1>5
<1>8. QED
  BY <1>3, <1>6, <1>7 DEF m

LEMMA CaptureServed ==
  ASSUME NEW x \in Int, NEW y \in Int, NEW w \in Int, NEW h \in Int,
         Fits(x), Fits(y), Fits(w), Fits(h)
  PROVE  LET area == Edges(x, y, x + w, y + h)
         IN CaptureArea(<<<<x>>, <<y>>, <<w>>, <<h>>>>) = IF Empty(area) THEN None ELSE area
<1> DEFINE area == Edges(x, y, x + w, y + h)
           crop == <<<<x>>, <<y>>, <<w>>, <<h>>>>
<1>1. Empty(area) <=> w <= 0 \/ h <= 0
  BY DEF Empty, Edges
<1>2. crop[1][1] = x /\ crop[2][1] = y /\ crop[3][1] = w /\ crop[4][1] = h
  OBVIOUS
<1>3. Narrowed(x) = x /\ Narrowed(y) = y
  BY NarrowedIs
<1>4. w > 0 => w % 2^Narrow = w
  BY NarrowedIs
<1>5. h > 0 => h % 2^Narrow = h
  BY NarrowedIs
<1> HIDE DEF crop
<1>6. CASE w <= 0 \/ h <= 0
  BY <1>1, <1>2, <1>6 DEF CaptureArea
<1>7. CASE w > 0 /\ h > 0
  <2>1. CaptureArea(crop) = Edges(Narrowed(x), Narrowed(y), Narrowed(x) + (w % 2^Narrow), Narrowed(y) + (h % 2^Narrow))
    BY <1>2, <1>7 DEF CaptureArea
  <2>2. CaptureArea(crop) = area
    BY <1>3, <1>4, <1>5, <1>7, <2>1
  <2>3. ~Empty(area)
    BY <1>1, <1>7
  <2>4. QED
    BY <2>2, <2>3 DEF crop
<1>8. QED
  BY <1>6, <1>7 DEF crop

\* The crop that a backend takes, or the service cuts.
LEMMA ShotServed ==
  ASSUME NEW a \in Part, NEW b \in Part, NEW c \in Part, NEW e \in Part
  PROVE  CropIsServed(<<a, b, c, e>>)
<1> DEFINE crop == <<a, b, c, e>>
           cropped == "crop" \in opts
           meant == Meant(crop)
           shown == Shows(kind, cropped, Picture, crop)
<1>1. PICK left \in Int, top \in Int, right \in Int, bottom \in Int, right2 \in Int, bottom2 \in Int :
           /\ Named(Picture, crop) = Edges(left, top, right, bottom)
           /\ meant = Edges(left, top, right2, bottom2)
           /\ Edge(left, right, right2) /\ Edge(top, bottom, bottom2)
  BY CropEdges
<1>2. crop[1] = a /\ crop[2] = b /\ crop[3] = c /\ crop[4] = e
  OBVIOUS
<1>3. Complete(crop) => \E x, y, w, h \in Int : crop = <<<<x>>, <<y>>, <<w>>, <<h>>>>
  <2>1. SUFFICES ASSUME Complete(crop) PROVE \E x, y, w, h \in Int : crop = <<<<x>>, <<y>>, <<w>>, <<h>>>>
    OBVIOUS
  <2>2. a # Nil /\ b # Nil /\ c # Nil /\ e # Nil
    BY <1>2, <2>1 DEF Complete
  <2>3. Ints \subseteq Int
    BY TopIs DEF Ints
  <2>4. QED
    BY <2>2, <2>3 DEF Part
<1>4. SUFFICES CropServed(crop, AreaOf(meant), shown)
  BY DEF CropIsServed
<1> HIDE DEF crop, meant, cropped
<1>5. CASE kind \in {"windows", "macos"}
  <2>1. AreaOf(meant) = Swapped(meant)
    BY <1>5 DEF AreaOf
  <2>2. shown = CropRect(Picture, crop)
    BY <1>5 DEF Shows, Direct
  <2>3. CropServed(crop, AreaOf(meant), shown) = Served(AreaOf(meant), shown)
    BY <1>5 DEF CropServed
  <2>4. QED
    BY <1>1, <2>1, <2>2, <2>3, SwappedServed
<1>6. CASE kind = "kwin" /\ Complete(crop)
  <2>1. AreaOf(meant) = meant
    BY <1>6 DEF AreaOf
  <2>2. shown = CaptureArea(crop)
    BY <1>6 DEF Shows, Direct
  <2>3. CropServed(crop, meant, shown)
          = ((\A i \in 1..4 : Fits(crop[i][1])) => shown = (IF Empty(meant) THEN None ELSE meant))
    BY <1>6 DEF CropServed
  <2>4. PICK x, y, w, h \in Int : crop = <<<<x>>, <<y>>, <<w>>, <<h>>>>
    BY <1>3, <1>6
  <2>5. meant = Edges(x, y, x + w, y + h)
    BY <2>4 DEF Meant, Or, Nil, meant
  <2>6. ASSUME \A i \in 1..4 : Fits(crop[i][1])
        PROVE  CaptureArea(crop) = IF Empty(meant) THEN None ELSE meant
    <3>1. Fits(x) /\ Fits(y) /\ Fits(w) /\ Fits(h)
      BY <2>4, <2>6
    <3>2. QED
      BY <2>4, <2>5, <3>1, CaptureServed
  <2>7. QED
    BY <2>1, <2>2, <2>3, <2>6
<1>7. CASE kind \in {"command", "ssh"} /\ Direct(kind, cropped, crop)
  BY <1>7 DEF CropServed, cropped
<1>8. CASE /\ kind \notin {"windows", "macos"}
           /\ ~(kind = "kwin" /\ Complete(crop))
           /\ ~(kind \in {"command", "ssh"} /\ Direct(kind, cropped, crop))
  <2>1. AreaOf(meant) = meant
    BY <1>8 DEF AreaOf
  <2>2. ~Direct(kind, cropped, crop)
    BY <1>8 DEF Direct
  <2>3. shown = CropBounds(Picture, crop)
    BY <1>8, <2>2 DEF Shows
  <2>4. CropServed(crop, meant, shown) = Served(meant, shown)
    BY <1>8 DEF CropServed, cropped
  <2>5. QED
    BY <1>1, <2>1, <2>3, <2>4, CutServed
<1>9. QED
  BY <1>5, <1>6, <1>7, <1>8

\* The area a screenshot shows is the one asked for and in the picture, or
\* there is none, for any width of an int, any numbers and expressions, and
\* any picture: a sum that wraps never makes an area pass that is not in the
\* picture (control/service.go cropBounds; cropRect of the backends).
THEOREM CropsAreServed == DeskSpec => []CropsServed
<1>1. ASSUME NEW r \in Requests
      PROVE  ShotIsServed(CommandOf(r))
  <2>1. HasCrop(CommandOf(r)) => CropIsServed(CommandOf(r)[2])
    BY CropIs, ShotServed
  <2>2. QED
    BY <2>1 DEF ShotIsServed
<1>2. (asked # None => asked \in Requests) => CropsServed
  BY <1>1 DEF CropsServed
<1>3. QED
  BY AskedIs, <1>2, PTL

------------------------------------------------------------------------------
(* The union of the regions *)

\* Induction over the naturals, for a set.
LEMMA SetInduction ==
  ASSUME NEW S, 0 \in S, \A n \in Nat : n \in S => n + 1 \in S
  PROVE  Nat \subseteq S
<1>1. SUFFICES ASSUME Nat \ S # {} PROVE FALSE
  OBVIOUS
<1>2. PICK n \in Nat \ S : \A m \in Nat \ S : n <= m
  <2>1. Nat \ S \subseteq Nat
    OBVIOUS
  <2>2. QED
    BY <1>1, <2>1, LeastNatural
<1>3. n # 0 /\ n - 1 \in Nat
  BY <1>2
<1>4. n - 1 \in S
  BY <1>2, <1>3
<1>5. QED
  BY <1>2, <1>3, <1>4

\* Numbers that can be counted have a least one.
LEMMA LeastOfSequence ==
  ASSUME NEW n \in Nat, NEW g \in [1..(n + 1) -> Int]
  PROVE  \E i \in 1..(n + 1) : \A j \in 1..(n + 1) : g[i] <= g[j]
<1> DEFINE Has(m) == \A f \in [1..(m + 1) -> Int] : \E i \in 1..(m + 1) : \A j \in 1..(m + 1) : f[i] <= f[j]
           S == {m \in Nat : Has(m)}
<1>1. 0 \in S
  <2>1. ASSUME NEW f \in [1..(0 + 1) -> Int]
        PROVE  \E i \in 1..(0 + 1) : \A j \in 1..(0 + 1) : f[i] <= f[j]
    <3>1. 1 \in 1..(0 + 1) /\ (\A j \in 1..(0 + 1) : j = 1) /\ f[1] \in Int
      OBVIOUS
    <3>2. QED
      BY <3>1
  <2>2. QED
    BY <2>1
<1>2. ASSUME NEW m \in Nat, m \in S PROVE m + 1 \in S
  <2>0. 1..((m + 1) + 1) = 1..(m + 2)
    BY <1>2
  <2>1. SUFFICES ASSUME NEW f \in [1..(m + 2) -> Int]
                 PROVE  \E i \in 1..(m + 2) : \A j \in 1..(m + 2) : f[i] <= f[j]
    <3>1. m + 1 \in Nat
      BY <1>2
    <3>2. SUFFICES Has(m + 1)
      BY <3>1
    <3>3. QED
      BY <2>0
  <2> DEFINE first == [i \in 1..(m + 1) |-> f[i]]
  <2>2. first \in [1..(m + 1) -> Int]
    BY <2>1, <1>2
  <2>3. PICK i \in 1..(m + 1) : \A j \in 1..(m + 1) : first[i] <= first[j]
    BY <1>2, <2>2
  <2>4. \A j \in 1..(m + 1) : f[i] <= f[j]
    BY <2>3
  <2>5. i \in 1..(m + 2) /\ m + 2 \in 1..(m + 2) /\ f[i] \in Int /\ f[m + 2] \in Int
    BY <1>2, <2>1, <2>3
  <2>6. \A j \in 1..(m + 2) : j \in 1..(m + 1) \/ j = m + 2
    BY <1>2
  <2>7. CASE f[i] <= f[m + 2]
    <3>1. \A j \in 1..(m + 2) : f[i] <= f[j]
      BY <2>4, <2>6, <2>7
    <3>2. QED
      BY <2>5, <3>1
  <2>8. CASE f[m + 2] <= f[i]
    <3>1. \A j \in 1..(m + 2) : f[m + 2] <= f[j]
      BY <2>1, <2>4, <2>5, <2>6, <2>8
    <3>2. QED
      BY <2>5, <3>1
  <2>9. QED
    BY <2>5, <2>7, <2>8
<1> HIDE DEF S
<1>3. Nat \subseteq S
  BY <1>1, <1>2, SetInduction
<1>4. QED
  BY <1>3 DEF S

\* The least and the greatest of numbers that regions give.
LEMMA MinIs ==
  ASSUME NEW T, T \subseteq Int, NEW n \in Nat, NEW g \in [1..(n + 1) -> Int],
         T = {g[i] : i \in 1..(n + 1)}
  PROVE  Min(T) \in T /\ \A t \in T : Min(T) <= t
<1>1. \E s \in T : \A t \in T : s <= t
  BY LeastOfSequence
<1>2. QED
  BY <1>1 DEF Min

LEMMA MaxIs ==
  ASSUME NEW T, T \subseteq Int, NEW n \in Nat, NEW g \in [1..(n + 1) -> Int],
         T = {g[i] : i \in 1..(n + 1)}
  PROVE  Max(T) \in T /\ \A t \in T : Max(T) >= t
<1> DEFINE f == [i \in 1..(n + 1) |-> -g[i]]
<1>1. f \in [1..(n + 1) -> Int]
  OBVIOUS
<1>2. PICK i \in 1..(n + 1) : \A j \in 1..(n + 1) : f[i] <= f[j]
  BY <1>1, LeastOfSequence
<1>3. \A j \in 1..(n + 1) : g[i] >= g[j]
  BY <1>2
<1>4. \E s \in T : \A t \in T : s >= t
  BY <1>3
<1>5. QED
  BY <1>4 DEF Max

\* The regions of a layout, counted.
LEMMA RegionsIn ==
  ASSUME NEW regions \in Layouts, regions # {}
  PROVE  \E n \in Nat : \E s \in [1..(n + 1) -> regions] : regions = {s[i] : i \in 1..(n + 1)}
<1>1. IsFiniteSet(regions)
  BY LayoutAssumption
<1>2. PICK seq \in Seq(regions) : \A r \in regions : \E k \in 1..Len(seq) : seq[k] = r
  BY <1>1 DEF IsFiniteSet
<1>3. Len(seq) \in Nat \ {0}
  BY <1>2
<1>4. Len(seq) - 1 \in Nat /\ (Len(seq) - 1) + 1 = Len(seq)
  BY <1>3
<1>5. seq \in [1..Len(seq) -> regions]
  BY <1>2
<1>6. regions = {seq[i] : i \in 1..Len(seq)}
  BY <1>2, <1>5
<1>7. QED
  BY <1>4, <1>5, <1>6

\* What the regions cover has a corner and a size.
LEMMA RegionUnionIs ==
  ASSUME NEW regions \in Layouts, RegionUnion(regions) # None
  PROVE  \E x, y \in Int : \E w, h \in Nat \ {0} : RegionUnion(regions) = Region(x, y, w, h)
<1>1. regions # {}
  BY DEF RegionUnion
<1>2. PICK n \in Nat : \E s \in [1..(n + 1) -> regions] : regions = {s[i] : i \in 1..(n + 1)}
  BY <1>1, RegionsIn
<1>3. PICK s \in [1..(n + 1) -> regions] : regions = {s[i] : i \in 1..(n + 1)}
  BY <1>2
<1>4. regions \subseteq [x : Int, y : Int, w : Nat, h : Nat]
  BY LayoutAssumption
<1> DEFINE lefts == {r.x : r \in regions}
           tops == {r.y : r \in regions}
           rights == {r.x + r.w : r \in regions}
           bottoms == {r.y + r.h : r \in regions}
<1>5. Min(lefts) \in Int
  <2> DEFINE g == [i \in 1..(n + 1) |-> s[i].x]
  <2>1. g \in [1..(n + 1) -> Int] /\ lefts = {g[i] : i \in 1..(n + 1)} /\ lefts \subseteq Int
    BY <1>3, <1>4
  <2> HIDE DEF g, lefts
  <2>2. QED
    BY <2>1, MinIs
<1>6. Min(tops) \in Int
  <2> DEFINE g == [i \in 1..(n + 1) |-> s[i].y]
  <2>1. g \in [1..(n + 1) -> Int] /\ tops = {g[i] : i \in 1..(n + 1)} /\ tops \subseteq Int
    BY <1>3, <1>4
  <2> HIDE DEF g, tops
  <2>2. QED
    BY <2>1, MinIs
<1>7. Max(rights) \in Int
  <2> DEFINE g == [i \in 1..(n + 1) |-> s[i].x + s[i].w]
  <2>1. g \in [1..(n + 1) -> Int] /\ rights = {g[i] : i \in 1..(n + 1)} /\ rights \subseteq Int
    <3>1. ASSUME NEW i \in 1..(n + 1) PROVE s[i].x + s[i].w \in Int
      <4>1. s[i] \in [x : Int, y : Int, w : Nat, h : Nat]
        BY <1>3, <1>4
      <4>2. s[i].x \in Int /\ s[i].w \in Nat
        BY <4>1
      <4>3. QED
        BY <4>2
    <3>2. g \in [1..(n + 1) -> Int]
      BY <3>1
    <3>3. rights = {g[i] : i \in 1..(n + 1)}
      BY <1>3
    <3> HIDE DEF g, rights
    <3>4. QED
      BY <3>2, <3>3
  <2> HIDE DEF g, rights
  <2>2. QED
    BY <2>1, MaxIs
<1>8. Max(bottoms) \in Int
  <2> DEFINE g == [i \in 1..(n + 1) |-> s[i].y + s[i].h]
  <2>1. g \in [1..(n + 1) -> Int] /\ bottoms = {g[i] : i \in 1..(n + 1)} /\ bottoms \subseteq Int
    <3>1. ASSUME NEW i \in 1..(n + 1) PROVE s[i].y + s[i].h \in Int
      <4>1. s[i] \in [x : Int, y : Int, w : Nat, h : Nat]
        BY <1>3, <1>4
      <4>2. s[i].y \in Int /\ s[i].h \in Nat
        BY <4>1
      <4>3. QED
        BY <4>2
    <3>2. g \in [1..(n + 1) -> Int]
      BY <3>1
    <3>3. bottoms = {g[i] : i \in 1..(n + 1)}
      BY <1>3
    <3> HIDE DEF g, bottoms
    <3>4. QED
      BY <3>2, <3>3
  <2> HIDE DEF g, bottoms
  <2>2. QED
    BY <2>1, MaxIs
<1> HIDE DEF lefts, tops, rights, bottoms
<1>9. RegionUnion(regions) =
        IF regions = {} THEN None
        ELSE IF Max(rights) <= Min(lefts) \/ Max(bottoms) <= Min(tops) THEN None
        ELSE Region(Min(lefts), Min(tops), Max(rights) - Min(lefts), Max(bottoms) - Min(tops))
  BY Zenon DEF RegionUnion, lefts, tops, rights, bottoms
<1>10. ~(Max(rights) <= Min(lefts) \/ Max(bottoms) <= Min(tops))
  BY <1>9
<1>11. RegionUnion(regions) = Region(Min(lefts), Min(tops), Max(rights) - Min(lefts), Max(bottoms) - Min(tops))
  BY <1>1, <1>9, <1>10
<1>12. Max(rights) - Min(lefts) \in Nat \ {0} /\ Max(bottoms) - Min(tops) \in Nat \ {0}
  BY <1>5, <1>6, <1>7, <1>8, <1>10
<1>13. QED
  BY <1>5, <1>6, <1>11, <1>12

------------------------------------------------------------------------------
(* Where a point lands *)

\* A pixel of the stretch, the one that keeps the place between the others.
ShareLands(h, from, length, out) ==
  LET s == Share(h, from, length, out) IN
  /\ s \div (2 * out) \in from..(from + length - 1)
  /\ Share(0, from, length, out) <= s
  /\ from = 0 /\ length = out /\ h <= 2 * out - 2 => s * 2 = h * (2 * out)

LEMMA ShareIs ==
  \A h \in Nat, from \in Int, length \in Nat \ {0}, out \in Nat \ {0} : ShareLands(h, from, length, out)
<1> SUFFICES ASSUME NEW h \in Nat, NEW from \in Int, NEW length \in Nat \ {0}, NEW out \in Nat \ {0}
    PROVE  ShareLands(h, from, length, out)
  OBVIOUS
<1> DEFINE unit == 2 * out
           low == unit * from
           high == unit * (from + length - 1)
           exact == low + h * length
           s == Share(h, from, length, out)
<1>1. unit \in Nat \ {0} /\ low \in Int /\ high \in Int /\ exact \in Int
  OBVIOUS
<1>2. low <= high
  <2>1. high = low + unit * (length - 1)
    OBVIOUS
  <2>2. unit * (length - 1) >= 0
    OBVIOUS
  <2> HIDE DEF low, high, unit
  <2>3. QED
    BY <1>1, <2>1, <2>2
<1>3. low <= exact
  OBVIOUS
<1>4. s = IF exact < low THEN low ELSE IF exact > high THEN high ELSE exact
  BY DEF Share, Clamp
<1>5. Share(0, from, length, out) = low
  <2>1. 2 * out * from + 0 * length = low
    OBVIOUS
  <2> HIDE DEF low, high
  <2>2. Share(0, from, length, out) = IF low < low THEN low ELSE IF low > high THEN high ELSE low
    BY <2>1 DEF Share, Clamp, low, high
  <2>3. QED
    BY <1>1, <1>2, <2>2
<1>6. s \in Int /\ s >= low /\ s <= high
  <2> HIDE DEF low, high, exact, s
  <2>1. QED
    BY <1>1, <1>2, <1>3, <1>4
<1>7. s \div unit \in from..(from + length - 1)
  <2> DEFINE last == from + length - 1
  <2>1. last \in Int /\ high = unit * last
    OBVIOUS
  <2>2. s >= unit * from /\ s < unit * (last + 1)
    <3>1. unit * (last + 1) = unit * last + unit
      BY <1>1, <2>1
    <3> HIDE DEF s, unit, last, high
    <3>2. QED
      BY <1>1, <1>6, <2>1, <3>1
  <2> HIDE DEF s, unit, last
  <2>3. s \div unit >= from
    BY <1>1, <1>6, <2>2
  <2>4. s \div unit < last + 1
    BY <1>1, <1>6, <2>1, <2>2
  <2>5. s \div unit \in Int
    BY <1>1, <1>6
  <2>6. QED
    BY <2>1, <2>3, <2>4, <2>5 DEF last
<1>8. ASSUME from = 0, length = out, h <= 2 * out - 2
      PROVE  s * 2 = h * unit
  <2>1. exact = h * out /\ low = 0 /\ high = (2 * out - 2) * out
    BY <1>8
  <2>2. h * out <= (2 * out - 2) * out
    BY <1>8
  <2>3. h * out >= 0
    OBVIOUS
  <2>4. s = h * out
    BY <1>4, <2>1, <2>2, <2>3
  <2>5. QED
    BY <2>4
<1>9. QED
  BY <1>5, <1>6, <1>7, <1>8 DEF ShareLands

\* What is right of the origin stays there.
LEMMA ShareNatural ==
  \A h \in Nat, from \in Int, length \in Nat \ {0}, out \in Nat \ {0} :
    from >= 0 => Share(h, from, length, out) \in Nat
<1> SUFFICES ASSUME NEW h \in Nat, NEW from \in Int, NEW length \in Nat \ {0}, NEW out \in Nat \ {0}, from >= 0
    PROVE  Share(h, from, length, out) \in Nat
  OBVIOUS
<1> DEFINE low == 2 * out * from
           exact == low + h * length
           high == 2 * out * (from + length - 1)
<1>1. low \in Int /\ exact \in Int /\ high \in Int /\ low >= 0 /\ exact >= 0
  OBVIOUS
<1>2. high >= 0
  <2>1. from + length - 1 \in Nat
    OBVIOUS
  <2>2. QED
    BY <2>1
<1>3. Share(h, from, length, out) = IF exact < low THEN low ELSE IF exact > high THEN high ELSE exact
  BY DEF Share, Clamp
<1> HIDE DEF low, exact, high
<1>4. QED
  BY <1>1, <1>2, <1>3

\* MapInputPoint.
LEMMA RegionsServed ==
  ASSUME NEW at \in Int \X Int
  PROVE  LandsOnRegions(at)
<1> SUFFICES ASSUME NEW regions \in Layouts, RegionUnion(regions) # None
    PROVE  LET m == EisPoint(at, Picture, regions)
               union == RegionUnion(regions)
               corner == EisPoint(<<0, 0>>, Picture, regions)
           IN /\ m # None =>
                   /\ m.x \div m.unit[1] \in union.x..(union.x + union.w - 1)
                   /\ m.y \div m.unit[2] \in union.y..(union.y + union.h - 1)
                   /\ corner # None => corner.x <= m.x /\ corner.y <= m.y
                   /\ union = Region(0, 0, Picture[1], Picture[2]) /\ OnOutput(at) =>
                        m.x * 2 = at[1] * m.unit[1] /\ m.y * 2 = at[2] * m.unit[2]
              /\ OnOutput(at) => m # None \/ union.x < 0 \/ union.y < 0
  BY Zenon DEF LandsOnRegions
<1>1. PICK x \in Int, y \in Int, w \in Nat \ {0}, h \in Nat \ {0} : RegionUnion(regions) = Region(x, y, w, h)
  BY RegionUnionIs
<1>2. Picture[1] \in Nat \ {0} /\ Picture[2] \in Nat \ {0}
  BY PictureAssumption, TopIs
<1> DEFINE Mapped(p) == [x |-> Share(p[1], x, w, Picture[1]), y |-> Share(p[2], y, h, Picture[2]),
                         unit |-> <<2 * Picture[1], 2 * Picture[2]>>]
<1>3. RegionUnion(regions).x = x /\ RegionUnion(regions).y = y
      /\ RegionUnion(regions).w = w /\ RegionUnion(regions).h = h
  BY <1>1 DEF Region
<1>0. ASSUME NEW p, ~(p[1] < 0), ~(p[2] < 0)
      PROVE  MapInputPoint(p, Picture, regions) = Mapped(p)
  <2>1. ~(p[1] < 0 \/ p[2] < 0)
    BY <1>0
  <2>2. ~(Picture[1] <= 0 \/ Picture[2] <= 0 \/ RegionUnion(regions) = None)
    BY <1>2
  <2>3. QED
    BY <1>3, <2>1, <2>2 DEF MapInputPoint
<1>4. ASSUME NEW p, EisPoint(p, Picture, regions) # None
      PROVE  EisPoint(p, Picture, regions) = Mapped(p) /\ ~(p[1] < 0) /\ ~(p[2] < 0)
  <2>1. MapInputPoint(p, Picture, regions) # None /\ EisPoint(p, Picture, regions) = MapInputPoint(p, Picture, regions)
    BY <1>4, Zenon DEF EisPoint
  <2>2. ~(p[1] < 0 \/ p[2] < 0)
    BY <2>1, Zenon DEF MapInputPoint
  <2>3. MapInputPoint(p, Picture, regions) = Mapped(p)
    BY <1>0, <2>2
  <2>4. QED
    BY <2>1, <2>2, <2>3
<1> DEFINE m == EisPoint(at, Picture, regions)
           corner == EisPoint(<<0, 0>>, Picture, regions)
           sx == Share(at[1], x, w, Picture[1])
           sy == Share(at[2], y, h, Picture[2])
<1>20. OnOutput(at) => at[1] \in Nat /\ at[2] \in Nat /\ at[1] <= 2 * Picture[1] - 2 /\ at[2] <= 2 * Picture[2] - 2
  BY <1>2 DEF OnOutput
<1>21. ASSUME at[1] \in Nat, at[2] \in Nat
       PROVE  m # None \/ x < 0 \/ y < 0
  <2>1. ~(at[1] < 0) /\ ~(at[2] < 0)
    BY <1>21
  <2>2. MapInputPoint(at, Picture, regions) = Mapped(at)
    BY <1>0, <2>1
  <2>3. Mapped(at) # None /\ Mapped(at).x = sx /\ Mapped(at).y = sy
    BY DEF None
  <2>4. (x >= 0 => sx \in Nat) /\ (y >= 0 => sy \in Nat)
    BY <1>1, <1>2, <1>21, ShareNatural, Zenon
  <2>5. ASSUME x >= 0, y >= 0 PROVE m = Mapped(at)
    <3>1. ~(Mapped(at).x < 0 \/ Mapped(at).y < 0)
      <4>1. Mapped(at).x \in Nat /\ Mapped(at).y \in Nat
        BY <2>3, <2>4, <2>5, Zenon
      <4> HIDE DEF Mapped
      <4>2. QED
        BY <4>1
    <3> HIDE DEF Mapped
    <3>2. QED
      BY <2>2, <2>3, <3>1, Zenon DEF EisPoint
  <2>6. QED
    BY <1>1, <2>3, <2>5
<1> SUFFICES ASSUME m # None
    PROVE  LET union == RegionUnion(regions)
           IN /\ m.x \div m.unit[1] \in union.x..(union.x + union.w - 1)
              /\ m.y \div m.unit[2] \in union.y..(union.y + union.h - 1)
              /\ corner # None => corner.x <= m.x /\ corner.y <= m.y
              /\ union = Region(0, 0, Picture[1], Picture[2]) /\ OnOutput(at) =>
                   m.x * 2 = at[1] * m.unit[1] /\ m.y * 2 = at[2] * m.unit[2]
  BY <1>3, <1>20, <1>21, Zenon
<1>5. m = Mapped(at) /\ at[1] \in Nat /\ at[2] \in Nat
  BY <1>4
<1>6. m.x = sx /\ m.y = sy /\ m.unit[1] = 2 * Picture[1] /\ m.unit[2] = 2 * Picture[2]
  BY <1>5
<1>7. corner # None => corner.x = Share(0, x, w, Picture[1]) /\ corner.y = Share(0, y, h, Picture[2])
  BY <1>4
<1>8. /\ sx \div (2 * Picture[1]) \in x..(x + w - 1)
      /\ Share(0, x, w, Picture[1]) <= sx
      /\ x = 0 /\ w = Picture[1] /\ at[1] <= 2 * Picture[1] - 2 => sx * 2 = at[1] * (2 * Picture[1])
  <2>1. ShareLands(at[1], x, w, Picture[1])
    BY <1>1, <1>2, <1>5, ShareIs, Zenon
  <2>2. QED
    BY <2>1, Zenon DEF ShareLands
<1>9. /\ sy \div (2 * Picture[2]) \in y..(y + h - 1)
      /\ Share(0, y, h, Picture[2]) <= sy
      /\ y = 0 /\ h = Picture[2] /\ at[2] <= 2 * Picture[2] - 2 => sy * 2 = at[2] * (2 * Picture[2])
  <2>1. ShareLands(at[2], y, h, Picture[2])
    BY <1>1, <1>2, <1>5, ShareIs, Zenon
  <2>2. QED
    BY <2>1, Zenon DEF ShareLands
<1>10. RegionUnion(regions) = Region(0, 0, Picture[1], Picture[2]) => x = 0 /\ y = 0 /\ w = Picture[1] /\ h = Picture[2]
  BY <1>3 DEF Region
<1> HIDE DEF m, corner, sx, sy
<1>11. /\ m.x \div m.unit[1] \in x..(x + w - 1)
       /\ m.y \div m.unit[2] \in y..(y + h - 1)
  BY <1>6, <1>8, <1>9
<1>12. corner # None => corner.x <= m.x /\ corner.y <= m.y
  BY <1>6, <1>7, <1>8, <1>9
<1>13. RegionUnion(regions) = Region(0, 0, Picture[1], Picture[2]) /\ OnOutput(at) =>
         m.x * 2 = at[1] * m.unit[1] /\ m.y * 2 = at[2] * m.unit[2]
  BY <1>6, <1>8, <1>9, <1>10, <1>20
<1>14. QED
  BY <1>3, <1>11, <1>12, <1>13 DEF m, corner

------------------------------------------------------------------------------
\* A coordinate that is an int below the greatest one was rounded to it.
LEMMA RoundNear ==
  ASSUME NEW h \in Int, RoundInt(h) # Bad, RoundInt(h)[1] >= 0, RoundInt(h)[1] < Top - 1
  PROVE  RoundInt(h)[1] \in Nat /\ Abs(2 * RoundInt(h)[1] - h) <= 1
<1> DEFINE k == RoundInt(h)[1]
<1>1. k \in Ints /\ (Abs(2 * k - h) <= 1 \/ k \in {-Top, Top - 1})
  BY RoundIntIs
<1>2. Top \in Nat \ {0}
  BY TopIs
<1> HIDE DEF k
<1>3. k >= 0 /\ k < Top - 1
  BY DEF k
<1>4. k \in Nat /\ Abs(2 * k - h) <= 1
  BY <1>1, <1>2, <1>3 DEF Ints
<1>5. QED
  BY <1>4 DEF k

\* What lies between the first pixel and the last is rounded to one of them.
LEMMA PixelRounds ==
  ASSUME NEW n \in 1..(Top - 1), NEW h \in 0..(2 * (n - 1))
  PROVE  RoundInt(h) # Bad /\ RoundInt(h)[1] \in 0..(n - 1)
<1> DEFINE k == Rounded(h)
<1>1. Top \in Nat \ {0} /\ n \in Nat /\ n < Top /\ h \in Nat /\ h <= 2 * (n - 1)
  BY TopIs
<1>2. k \in 0..(n - 1)
  <2>1. k = (h + 1) \div 2
    BY <1>1 DEF Rounded
  <2>2. QED
    BY <1>1, <2>1
<1> HIDE DEF k
<1>3. k \in Int /\ ~(k < -Top \/ k > Top) /\ k # Top
  BY <1>1, <1>2
<1>4. RoundInt(h) = <<k>>
  BY <1>3 DEF RoundInt, k
<1>5. QED
  BY <1>2, <1>4 DEF Bad

\* normalizedAbsoluteMouseCoordinate stays in its range.
LEMMA AbsoluteIs ==
  ASSUME NEW n \in Nat, NEW size \in Nat \ {0}, n < size
  PROVE  NormalizedAbsolute(n, size) \in 0..Finest
<1>1. Finest \in Nat
  BY PointerAssumption
<1>2. CASE size <= 1
  BY <1>1, <1>2 DEF NormalizedAbsolute
<1>3. CASE size > 1
  <2> DEFINE d == size - 1
             p == n * Finest
  <2>1. d \in Nat \ {0} /\ n <= d
    BY <1>3
  <2>2. p \in Int /\ p >= 0 /\ p <= Finest * d
    <3>1. p = Finest * n
      BY <1>1
    <3>2. Finest * n <= Finest * d /\ Finest * n >= 0 /\ Finest * n \in Int
      <4>1. Finest * (d - n) >= 0 /\ Finest * (d - n) \in Int
        BY <1>1, <2>1
      <4>2. Finest * d = Finest * n + Finest * (d - n)
        BY <1>1, <2>1
      <4>3. Finest * n >= 0 /\ Finest * n \in Int
        BY <1>1
      <4> HIDE DEF d
      <4>4. QED
        BY <4>1, <4>2, <4>3
    <3>3. QED
      BY <3>1, <3>2
  <2>3. NormalizedAbsolute(n, size) = p \div d
    BY <1>3 DEF NormalizedAbsolute
  <2> HIDE DEF d, p
  <2>4. p \div d >= 0 /\ p \div d <= Finest /\ p \div d \in Int
    <3>1. p < d * (Finest + 1)
      BY <1>1, <2>1, <2>2
    <3>2. p \div d < Finest + 1
      BY <1>1, <2>1, <2>2, <3>1
    <3>3. p >= d * 0
      BY <1>1, <2>1, <2>2, <3>1
    <3>4. p \div d >= 0
      BY <1>1, <2>1, <2>2, <3>3
    <3>5. p \div d \in Int
      BY <2>1, <2>2
    <3>6. QED
      BY <1>1, <3>2, <3>4, <3>5
  <2>5. QED
    BY <1>1, <2>3, <2>4
<1>4. QED
  BY <1>2, <1>3

\* setCursorPos, displayPoint, and the points of VNC and RDP.
LEMMA ScreenServed ==
  ASSUME NEW at \in Int \X Int
  PROVE  LandsOnScreen(at)
<1> DEFINE win == WindowsPoint(at, Picture)
           display == DisplayPoint(at, Picture)
           protocol == ProtocolPoint(at)
           x == RoundInt(at[1])
           y == RoundInt(at[2])
<1>1. at[1] \in Int /\ at[2] \in Int
  OBVIOUS
<1>2. /\ Picture[1] \in Nat \ {0} /\ Picture[2] \in Nat \ {0}
      /\ Picture[1] <= Top - 1 /\ Picture[2] <= Top - 1
      /\ Top \in Nat \ {0} /\ Far \in Nat /\ Far < Top - 1
  BY PictureAssumption, TopIs, PointerAssumption
<1>3. ASSUME x # Bad
      PROVE  x[1] \in Int
  BY <1>1, <1>2, <1>3, RoundIntIs DEF Ints
<1>4. ASSUME y # Bad
      PROVE  y[1] \in Int
  BY <1>1, <1>2, <1>4, RoundIntIs DEF Ints
<1>5. ASSUME x # Bad, x[1] >= 0, x[1] < Top - 1
      PROVE  x[1] \in Nat /\ Abs(2 * x[1] - at[1]) <= 1
  BY <1>1, <1>5, RoundNear
<1>6. ASSUME y # Bad, y[1] >= 0, y[1] < Top - 1
      PROVE  y[1] \in Nat /\ Abs(2 * y[1] - at[2]) <= 1
  BY <1>1, <1>6, RoundNear
<1>7. ASSUME win # None
      PROVE  \A i \in 1..2 : /\ win.at[i] \in 0..(Picture[i] - 1)
                             /\ Abs(2 * win.at[i] - at[i]) <= 1
                             /\ win.absolute[i] \in 0..Finest
  <2>1. /\ Bad \notin {x, y}
        /\ ~(x[1] < 0 \/ y[1] < 0 \/ x[1] >= Picture[1] \/ y[1] >= Picture[2])
        /\ win = [at |-> <<x[1], y[1]>>,
                  absolute |-> <<NormalizedAbsolute(x[1], Picture[1]), NormalizedAbsolute(y[1], Picture[2])>>]
    BY <1>7, Zenon DEF WindowsPoint
  <2> HIDE DEF win, x, y
  <2>2. x # Bad /\ y # Bad
    BY <2>1
  <2>3. x[1] \in 0..(Picture[1] - 1) /\ y[1] \in 0..(Picture[2] - 1)
    BY <1>2, <1>3, <1>4, <2>1, <2>2
  <2>4. Abs(2 * x[1] - at[1]) <= 1 /\ Abs(2 * y[1] - at[2]) <= 1
    BY <1>2, <1>5, <1>6, <2>2, <2>3
  <2>5. NormalizedAbsolute(x[1], Picture[1]) \in 0..Finest /\ NormalizedAbsolute(y[1], Picture[2]) \in 0..Finest
    BY <1>2, <2>3, AbsoluteIs
  <2>6. /\ win.at[1] = x[1] /\ win.at[2] = y[1]
        /\ win.absolute[1] = NormalizedAbsolute(x[1], Picture[1])
        /\ win.absolute[2] = NormalizedAbsolute(y[1], Picture[2])
    BY <2>1
  <2>7. \A i \in 1..2 : i = 1 \/ i = 2
    OBVIOUS
  <2>8. QED
    BY <2>3, <2>4, <2>5, <2>6, <2>7
<1>8. ASSUME display # None
      PROVE  \A i \in 1..2 : display[i] \div 2 \in 0..(Picture[i] - 1)
  <2>1. display = at /\ ~(at[1] < 0 \/ at[2] < 0 \/ at[1] >= 2 * Picture[1] \/ at[2] >= 2 * Picture[2])
    BY <1>8, Zenon DEF DisplayPoint
  <2>2. at[1] \div 2 \in 0..(Picture[1] - 1) /\ at[2] \div 2 \in 0..(Picture[2] - 1)
    BY <1>1, <1>2, <2>1
  <2>3. QED
    BY <2>1, <2>2
<1>9. ASSUME protocol # None
      PROVE  \A i \in 1..2 : protocol[i] \in 0..Far /\ Abs(2 * protocol[i] - at[i]) <= 1
  <2>1. /\ Bad \notin {x, y} /\ ~(x[1] \notin 0..Far \/ y[1] \notin 0..Far)
        /\ protocol = <<x[1], y[1]>>
    BY <1>9, Zenon DEF ProtocolPoint
  <2> HIDE DEF protocol, x, y
  <2>2. x # Bad /\ y # Bad /\ x[1] \in 0..Far /\ y[1] \in 0..Far
    BY <2>1
  <2>3. Abs(2 * x[1] - at[1]) <= 1 /\ Abs(2 * y[1] - at[2]) <= 1
    BY <1>2, <1>5, <1>6, <2>2
  <2>4. protocol[1] = x[1] /\ protocol[2] = y[1]
    BY <2>1
  <2>5. \A i \in 1..2 : i = 1 \/ i = 2
    OBVIOUS
  <2>6. QED
    BY <2>2, <2>3, <2>4, <2>5
<1>10. ASSUME OnOutput(at)
       PROVE  win # None /\ display # None /\ ((\A i \in 1..2 : Picture[i] <= Far) => protocol # None)
  <2>1. at[1] \in 0..(2 * (Picture[1] - 1)) /\ at[2] \in 0..(2 * (Picture[2] - 1))
    BY <1>10 DEF OnOutput
  <2>2. Picture[1] \in 1..(Top - 1) /\ Picture[2] \in 1..(Top - 1)
    BY PictureAssumption
  <2>3. x # Bad /\ x[1] \in 0..(Picture[1] - 1)
    BY <2>1, <2>2, PixelRounds
  <2>4. y # Bad /\ y[1] \in 0..(Picture[2] - 1)
    BY <2>1, <2>2, PixelRounds
  <2>5. Bad \notin {x, y}
    BY <2>3, <2>4
  <2> HIDE DEF x, y
  <2>6. ~(x[1] < 0 \/ y[1] < 0 \/ x[1] >= Picture[1] \/ y[1] >= Picture[2])
    BY <1>2, <2>3, <2>4
  <2>7. win # None
    <3>1. win = [at |-> <<x[1], y[1]>>,
                 absolute |-> <<NormalizedAbsolute(x[1], Picture[1]), NormalizedAbsolute(y[1], Picture[2])>>]
      BY <2>5, <2>6, Zenon DEF WindowsPoint, x, y
    <3>2. win.at = <<x[1], y[1]>>
      BY <3>1
    <3>3. DOMAIN win # {}
      BY <3>1
    <3> HIDE DEF win
    <3>4. QED
      BY <3>3 DEF None
  <2>8. display # None
    <3>1. ~(at[1] < 0 \/ at[2] < 0 \/ at[1] >= 2 * Picture[1] \/ at[2] >= 2 * Picture[2])
      BY <1>2, <2>1
    <3>2. display = at
      BY <3>1, Zenon DEF DisplayPoint
    <3>3. at # None
      BY DEF None
    <3>4. QED
      BY <3>2, <3>3
  <2>9. ASSUME \A i \in 1..2 : Picture[i] <= Far
        PROVE  protocol # None
    <3>1. Picture[1] <= Far /\ Picture[2] <= Far
      BY <2>9
    <3>2. ~(x[1] \notin 0..Far \/ y[1] \notin 0..Far)
      BY <1>2, <2>3, <2>4, <3>1
    <3>3. protocol = <<x[1], y[1]>>
      BY <2>5, <3>2, Zenon DEF ProtocolPoint, x, y
    <3> HIDE DEF protocol
    <3>4. QED
      BY <3>3 DEF None
  <2>10. QED
    BY <2>7, <2>8, <2>9
<1> HIDE DEF win, display, protocol
<1>11. QED
  BY <1>7, <1>8, <1>9, <1>10, Zenon DEF LandsOnScreen, win, display, protocol

\* SendMouseWheel.
LEMMA TurnServed ==
  ASSUME NEW delta \in Ints
  PROVE  TurnsAsAsked(delta)
<1> DEFINE turn == RdpTurn(delta)
           amount == IF delta < 0 THEN Wrapped(-delta) ELSE delta
           low == IF amount < 0 THEN 0 ELSE amount
<1>1. /\ Top \in Nat \ {0} /\ delta \in Int /\ delta >= -Top /\ delta < Top
      /\ MaxTurn \in Nat /\ MaxTurn < Top
  BY TopIs, PointerAssumption DEF Ints
<1>2. TurnSign \in Nat /\ (TurnSign > 0 => TurnSign <= MaxTurn)
  BY <1>1 DEF TurnSign
<1>3. delta # -Top => amount = Abs(delta) /\ low = Abs(delta)
  <2>1. CASE delta < 0 /\ delta # -Top
    <3>1. -delta \in (-2 * Top)..(2 * Top) /\ -delta \in Ints
      BY <1>1, <2>1 DEF Ints
    <3>2. Wrapped(-delta) = -delta
      BY <1>1, <3>1, WrappedIs DEF Ints
    <3>3. amount = -delta
      BY <2>1, <3>2
    <3>4. Abs(delta) = -delta /\ ~(-delta < 0)
      BY <1>1, <2>1 DEF Abs
    <3>5. QED
      BY <3>3, <3>4, Zenon
  <2>2. CASE ~(delta < 0)
    BY <2>2 DEF Abs
  <2>3. QED
    BY <2>1, <2>2
<1>4. turn = IF amount > MaxTurn THEN None
             ELSE <<IF delta < 0 /\ low < TurnSign THEN low + TurnSign ELSE low>>
  BY Zenon DEF RdpTurn
<1>5. delta = -Top => Abs(delta) >= TurnSign
  BY <1>1, <1>2 DEF Abs
<1>6. Abs(delta) \in Nat /\ (delta < 0 => Abs(delta) = -delta) /\ (delta >= 0 => Abs(delta) = delta)
  BY <1>1 DEF Abs
<1> HIDE DEF turn, amount, low
<1>7. ASSUME delta # 0, Abs(delta) < TurnSign
      PROVE  turn # None /\ TurnOf(turn[1]) = delta
  <2>1. delta # -Top /\ amount = Abs(delta) /\ low = Abs(delta)
    BY <1>2, <1>3, <1>5, <1>6, <1>7
  <2>2. ~(amount > MaxTurn) /\ low < TurnSign
    BY <1>1, <1>2, <1>6, <1>7, <2>1
  <2> DEFINE bits == IF delta < 0 THEN low + TurnSign ELSE low
  <2>3. turn = <<bits>>
    BY <1>4, <2>2
  <2>4. TurnOf(bits) = delta
    <3>1. CASE delta < 0
      BY <1>1, <1>2, <1>6, <1>7, <2>1, <3>1 DEF TurnOf
    <3>2. CASE ~(delta < 0)
      BY <1>1, <1>2, <1>6, <1>7, <2>1, <3>2 DEF TurnOf
    <3>3. QED
      BY <3>1, <3>2
  <2> HIDE DEF bits
  <2>5. turn # None /\ turn[1] = bits
    BY <2>3 DEF None
  <2>6. QED
    BY <2>4, <2>5
<1>8. Abs(delta) > MaxTurn /\ delta # -Top => turn = None
  BY <1>3, <1>4
<1>9. delta # 0 => VncTurn(delta) = (IF delta > 0 THEN 1 ELSE -1)
  BY <1>1 DEF VncTurn
<1>10. NarrowTurn(delta) = delta <=> Fits(delta)
  BY <1>1, NarrowedIs DEF NarrowTurn
<1>11. QED
  BY <1>7, <1>8, <1>9, <1>10, Zenon DEF TurnsAsAsked, turn

------------------------------------------------------------------------------
(* What a pointer command is made of *)

\* A number that could be had.
LEMMA RequiredIs ==
  ASSUME NEW n \in Numerals, RequiredFloat64(n) # Bad
  PROVE  RequiredFloat64(n)[1] \in Int
<1>1. Set(n) /\ RequiredFloat64(n) = Value(n)
  BY Zenon DEF RequiredFloat64
<1>2. Value(n) \in Halves
  BY <1>1, ValueIs
<1>3. QED
  BY <1>1, <1>2 DEF Halves

LEMMA MadeIs ==
  ASSUME NEW values, NEW command, Made(values, command) # Refused
  PROVE  Made(values, command) = command /\ \A i \in DOMAIN values : values[i] # Bad
BY Zenon DEF Made

\* Two numbers that make a point.
IsPoint(at) == at[1] # Bad /\ at[2] # Bad /\ <<at[1][1], at[2][1]>> \in Int \X Int

LEMMA PointIs ==
  ASSUME NEW x \in Numerals, NEW y \in Numerals, RequiredFloat64(x) # Bad, RequiredFloat64(y) # Bad
  PROVE  IsPoint(<<RequiredFloat64(x), RequiredFloat64(y)>>)
<1> DEFINE a == RequiredFloat64(x)
           b == RequiredFloat64(y)
<1>1. a[1] \in Int /\ b[1] \in Int /\ a # Bad /\ b # Bad
  BY RequiredIs
<1> HIDE DEF a, b
<1>2. IsPoint(<<a, b>>)
  BY <1>1 DEF IsPoint
<1>3. QED
  BY <1>2 DEF a, b

\* What the numbers of a command are that has one point.
LEMMA PointOf ==
  ASSUME NEW r \in Requests, CommandOf(r) # Refused, CommandOf(r)[1] \in MouseOps \ {"drag"}
  PROVE  /\ IsPoint(CommandOf(r)[2])
         /\ CommandOf(r)[1] = "scroll" => CommandOf(r)[3][1][1] \in Ints /\ CommandOf(r)[3][2][1] \in Ints
<1> DEFINE d == r.document
           command == CommandOf(r)
           at == HttpPoint(d)
           by == <<IntOf(d.scrollX), IntOf(d.scrollY)>>
<1>1. /\ command \in {Http(d), Fuse(d), Mcp(d)} /\ command[1] = d.op /\ Sound(command)
      /\ command = Mcp(d) => Schema(d)
  BY CommandIs
<1>2. d.x \in Numerals /\ d.y \in Numerals /\ d.scrollX \in Numerals /\ d.scrollY \in Numerals
  BY RequestAssumption DEF IsDocument
<1>3. at = <<RequiredFloat64(d.x), RequiredFloat64(d.y)>>
  BY DEF HttpPoint
<1>4. ASSUME at[1] # Bad, at[2] # Bad
      PROVE  IsPoint(at)
  <2>1. RequiredFloat64(d.x) # Bad /\ RequiredFloat64(d.y) # Bad
    BY <1>3, <1>4
  <2>2. QED
    BY <1>2, <1>3, <2>1, PointIs
<1>5. DOMAIN at = 1..2
  BY <1>3
<1>6. CASE d.op \in {"click", "double_click"}
  <2>1. command = Pressing(d)
    <3>1. command \in {Http(d), Fuse(d)} => IfSound(command) = command
      BY <1>1, Zenon DEF IfSound
    <3> HIDE DEF command, at
    <3>2. CASE command = Mcp(d)
      BY <1>1, <1>6, <3>2, PressedBy
    <3>3. CASE command = Http(d)
      BY <1>6, <3>3, PressedBy DEF command
    <3>4. CASE command = Fuse(d)
      BY <1>6, <3>1, <3>4, PressedBy DEF command
    <3>5. QED
      BY <1>1, <3>2, <3>3, <3>4
  <2>2. command = <<d.op, at, d.text>> /\ \A i \in DOMAIN at : at[i] # Bad
    <3>1. Made(at, <<d.op, at, d.text>>) # Refused /\ command = Made(at, <<d.op, at, d.text>>)
      BY <2>1, Zenon DEF Pressing
    <3> HIDE DEF command, at
    <3>2. QED
      BY <3>1, MadeIs
  <2>3. at[1] # Bad /\ at[2] # Bad
    BY <1>5, <2>2
  <2>4. command[2] = at
    <3> HIDE DEF at, command
    <3>1. QED
      BY <2>2
  <2> HIDE DEF at, command
  <2>5. command[1] # "scroll" /\ IsPoint(command[2])
    BY <1>1, <1>4, <1>6, <2>3, <2>4
  <2>6. QED
    BY <2>5 DEF command
<1>7. CASE d.op = "move"
  <2>1. command = Made(at, <<d.op, at>>)
    <3>1. command = Http(d)
      BY <1>1, <1>7, MovedBy
    <3>2. Http(d) = Made(at, <<d.op, at>>)
      BY <1>7 DEF Http, HttpPointer, MouseOps, KeyOps
    <3>3. QED
      BY <3>1, <3>2
  <2> HIDE DEF at, command
  <2>2. command = <<d.op, at>> /\ \A i \in DOMAIN at : at[i] # Bad
    <3>1. Made(at, <<d.op, at>>) # Refused
      BY <2>1 DEF command
    <3>2. QED
      BY <2>1, <3>1, MadeIs
  <2>3. at[1] # Bad /\ at[2] # Bad
    BY <1>5, <2>2
  <2>4. command[2] = at
    BY <2>2
  <2>5. command[1] # "scroll" /\ IsPoint(command[2])
    BY <1>1, <1>4, <1>7, <2>3, <2>4
  <2>6. QED
    BY <2>5 DEF command
<1>8. CASE d.op = "scroll"
  <2> DEFINE values == at \o by
  <2>1. command = Made(values, <<d.op, at, by>>)
    <3>1. command = Http(d)
      BY <1>1, <1>8, ScrolledBy
    <3>2. Http(d) = Made(values, <<d.op, at, by>>)
      BY <1>8 DEF Http, HttpPointer, MouseOps, KeyOps
    <3>3. QED
      BY <3>1, <3>2
  <2>2. DOMAIN values = 1..4 /\ values[1] = RequiredFloat64(d.x) /\ values[2] = RequiredFloat64(d.y)
        /\ values[3] = IntOf(d.scrollX) /\ values[4] = IntOf(d.scrollY)
    <3>1. values = <<RequiredFloat64(d.x), RequiredFloat64(d.y)>> \o <<IntOf(d.scrollX), IntOf(d.scrollY)>>
      BY <1>3
    <3>2. QED
      BY <3>1, PairsJoined
  <2>3. at[1] = RequiredFloat64(d.x) /\ at[2] = RequiredFloat64(d.y)
    BY <1>3
  <2>4. by[1] = IntOf(d.scrollX) /\ by[2] = IntOf(d.scrollY)
    OBVIOUS
  <2> HIDE DEF values, at, by, command
  <2>5. command = <<d.op, at, by>> /\ \A i \in DOMAIN values : values[i] # Bad
    <3>1. Made(values, <<d.op, at, by>>) # Refused
      BY <2>1 DEF command
    <3>2. QED
      BY <2>1, <3>1, MadeIs
  <2>6. at[1] # Bad /\ at[2] # Bad /\ IntOf(d.scrollX) # Bad /\ IntOf(d.scrollY) # Bad
    BY <2>2, <2>3, <2>5
  <2>7. by[1][1] \in Ints /\ by[2][1] \in Ints
    BY <1>2, <2>4, <2>6, IntOfIs
  <2>8. command[2] = at /\ command[3] = by
    BY <2>5
  <2>9. IsPoint(command[2]) /\ command[3][1][1] \in Ints /\ command[3][2][1] \in Ints
    BY <1>4, <2>6, <2>7, <2>8
  <2>10. QED
    BY <2>9 DEF command
<1>9. QED
  BY <1>1, <1>6, <1>7, <1>8 DEF MouseOps

\* Every point of a path.
LEMMA PathOf ==
  ASSUME NEW r \in Requests, CommandOf(r) # Refused, CommandOf(r)[1] = "drag"
  PROVE  \A p \in ToSet(CommandOf(r)[2]) : IsPoint(p)
<1> DEFINE d == r.document
           command == CommandOf(r)
           points == PathPoints(d.path)
<1>1. /\ command \in {Http(d), Fuse(d), Mcp(d)} /\ d.op = "drag"
      /\ command = Mcp(d) => Schema(d)
  BY CommandIs
<1>2. command = Drag(d.path)
  BY <1>1, DraggedBy
<1>3. command = <<"drag", points>> /\ \A i \in DOMAIN points : Bad \notin {points[i][1], points[i][2]}
  BY <1>2, Zenon DEF Drag
<1>4. DOMAIN points = DOMAIN d.path
      /\ \A i \in DOMAIN d.path : points[i] = <<RequiredFloat64(d.path[i].x), RequiredFloat64(d.path[i].y)>>
  BY DEF PathPoints
<1>5. \A i \in DOMAIN d.path : d.path[i].x \in Numerals /\ d.path[i].y \in Numerals
  BY RequestAssumption DEF IsDocument
<1>6. command[2] = points
  <2> HIDE DEF points, command
  <2>1. QED
    BY <1>3
<1> HIDE DEF points
<1>7. ASSUME NEW i \in DOMAIN d.path
      PROVE  IsPoint(points[i])
  <2> DEFINE a == RequiredFloat64(d.path[i].x)
             b == RequiredFloat64(d.path[i].y)
  <2>1. points[i] = <<a, b>>
    BY <1>4
  <2> HIDE DEF a, b
  <2>2. a # Bad /\ b # Bad
    BY <1>3, <1>4, <2>1
  <2>3. QED
    BY <1>5, <2>1, <2>2, PointIs DEF a, b
<1>8. QED
  BY <1>4, <1>6, <1>7 DEF ToSet

LEMMA PointerIsServed ==
  ASSUME NEW r \in Requests
  PROVE  PointerServed(CommandOf(r))
<1> DEFINE command == CommandOf(r)
<1>1. ASSUME command[1] \in MouseOps
      PROVE  command # Refused
  BY <1>1 DEF MouseOps, Refused
<1>2. \A at \in Points(command) : at \in Int \X Int
  <2>1. CASE command[1] = "drag"
    <3>1. command[1] \in MouseOps
      BY <2>1 DEF MouseOps
    <3>2. \A p \in ToSet(command[2]) : IsPoint(p)
      BY <1>1, <2>1, <3>1, PathOf
    <3>3. Points(command) = {<<p[1][1], p[2][1]>> : p \in ToSet(command[2])}
      BY <2>1 DEF Points
    <3> HIDE DEF command
    <3>4. QED
      BY <3>2, <3>3 DEF IsPoint
  <2>2. CASE command[1] \in MouseOps \ {"drag"}
    <3>1. IsPoint(command[2])
      BY <1>1, <2>2, PointOf
    <3>2. Points(command) = {<<command[2][1][1], command[2][2][1]>>}
      BY <2>2 DEF Points
    <3> HIDE DEF command
    <3>3. QED
      BY <3>1, <3>2 DEF IsPoint
  <2>3. CASE command[1] \notin MouseOps
    <3>1. Points(command) = {}
      BY <2>3 DEF Points, MouseOps
    <3> HIDE DEF command
    <3>2. QED
      BY <3>1
  <2>4. QED
    BY <2>1, <2>2, <2>3
<1>3. \A at \in Points(command) : LandsOnRegions(at) /\ LandsOnScreen(at)
  BY <1>2, RegionsServed, ScreenServed, Zenon
<1>4. ASSUME command[1] = "scroll"
      PROVE  \A i \in 1..2 : TurnsAsAsked(command[3][i][1])
  <2>1. command[1] \in MouseOps \ {"drag"}
    BY <1>4 DEF MouseOps
  <2>2. command[3][1][1] \in Ints /\ command[3][2][1] \in Ints
    BY <1>1, <1>4, <2>1, PointOf
  <2>3. TurnsAsAsked(command[3][1][1]) /\ TurnsAsAsked(command[3][2][1])
    BY <2>2, TurnServed
  <2>4. \A i \in 1..2 : i = 1 \/ i = 2
    OBVIOUS
  <2> HIDE DEF command
  <2>5. QED
    BY <2>3, <2>4
<1>5. QED
  BY <1>3, <1>4, Zenon DEF PointerServed

\* For any picture, regions and numbers: a pointer event lands on the output
\* on Windows and macOS and on the union of the regions that the EIS server
\* announced, however they lie, and over RDP and VNC goes to the pixel that
\* is nearest to what was asked for, on the output or not; a point of the
\* output is refused only where PointsLand says; and a wheel turns as asked
\* but for the deltas that PointsLand names (MapInputPoint, setCursorPos,
\* displayPoint, validateMousePosition, SendMouseWheel).
THEOREM PointersLand == DeskSpec => []PointsLand
<1>1. (asked # None => asked \in Requests) => PointsLand
  BY PointerIsServed, Zenon DEF PointsLand
<1>2. QED
  BY AskedIs, <1>1, PTL

==============================================================================
