------------------------------ MODULE Composite ------------------------------
(***************************************************************************)
(* desktop.Composite (src/internal/desktop/session.go, 104-227): the one   *)
(* component the servers own, made of the output backend and, when it is   *)
(* another one, the input backend.                                         *)
(*                                                                         *)
(* One goroutine per part waits for the part to end, joins its error into  *)
(* err and closes done.  Close runs once; whoever calls it meanwhile waits *)
(* in closeOnce.Do.  Err answers err or, while err is still nil, asks the  *)
(* parts, so between two calls the composite may end, or be told an error, *)
(* by any of three goroutines.                                             *)
(*                                                                         *)
(* A session (RDP, VNC, EIS) reports an error before it ends, and keeps    *)
(* it.  A local backend (Windows, macOS) never ends by itself, and its     *)
(* error comes and goes with the last call made on it.                     *)
(***************************************************************************)
EXTENDS Integers, Sequences, Functions

CONSTANTS
  Orders,   \* the lists of parts NewComposite may make
  Local,    \* the parts that are local backends
  Callers   \* goroutines that may call Close

AllParts == UNION {Range(o) : o \in Orders}

ASSUME OrderAssumption ==
  \A o \in Orders : o \in Seq(Range(o)) /\ o # <<>> /\ IsInjective(o)
ASSUME LocalAssumption == Local \subseteq AllParts
ASSUME CallerAssumption == Callers \cap {"fresh", "spent"} = {}

VARIABLES
  order,      \* the parts, in the order NewComposite lists them
  part,       \* "up" until the part's Done is closed, then "ended"
  partErr,    \* the part's Err is not nil
  partClosed, \* a Close of the part has returned
  watch,      \* where each part's watch goroutine stands
  done,       \* the composite's done is closed
  err,        \* c.err: the parts whose errors have been joined into it
  once,       \* closeOnce: "fresh", the caller inside it, or "spent"
  at,         \* the position of the part Close comes to next
  caller      \* where each caller of Close stands

partVars  == <<part, partErr, partClosed>>
innerVars == <<watch, done, err>>
closeVars == <<once, at, caller>>
vars == <<order, partVars, innerVars, closeVars>>

Parts == Range(order)

------------------------------------------------------------------------------
(* The parts, by themselves *)

PartFails(p) ==
  /\ part[p] = "up" \/ p \in Local
  /\ ~partErr[p]
  /\ partErr' = [partErr EXCEPT ![p] = TRUE]
  /\ UNCHANGED <<part, partClosed, innerVars, closeVars>>

\* clearErr of a local backend, after a call that succeeded.
PartRecovers(p) ==
  /\ p \in Local
  /\ partErr[p]
  /\ partErr' = [partErr EXCEPT ![p] = FALSE]
  /\ UNCHANGED <<part, partClosed, innerVars, closeVars>>

PartEnds(p) ==
  /\ part[p] = "up"
  /\ p \notin Local
  /\ part' = [part EXCEPT ![p] = "ended"]
  /\ UNCHANGED <<partErr, partClosed, innerVars, closeVars>>

------------------------------------------------------------------------------
(* watch: wait for Done; join Err; close done *)

\* Fault: the error of the part replaces the one already there.
Replaced(p) == IF partErr[p] THEN {p} ELSE {}

\* What setErr makes of err when part p's error is joined.
Joined(p) == IF partErr[p] THEN err \cup {p} ELSE err

WatchErr(p) ==
  /\ watch[p] = "waiting"
  /\ part[p] = "ended"
  /\ watch' = [watch EXCEPT ![p] = "noted"]
  /\ err' = Joined(p)
  /\ UNCHANGED <<done, partVars, closeVars>>

WatchDone(p) ==
  /\ watch[p] = "noted"
  /\ watch' = [watch EXCEPT ![p] = "gone"]
  /\ done' = TRUE
  /\ UNCHANGED <<err, partVars, closeVars>>

------------------------------------------------------------------------------
(* Close *)

CallClose(c) ==
  /\ caller[c] = "idle"
  /\ caller' = [caller EXCEPT ![c] = "entering"]
  /\ UNCHANGED <<partVars, innerVars, once, at>>

\* Fault: a flag instead of closeOnce, so that only the first caller waits
\* for the parts.
EnterFlag(c) ==
  /\ caller[c] = "entering"
  /\ IF once = "fresh"
     THEN once' = c /\ caller' = [caller EXCEPT ![c] = "closing"]
     ELSE UNCHANGED once /\ caller' = [caller EXCEPT ![c] = "leaving"]
  /\ UNCHANGED <<partVars, innerVars, at>>

\* closeOnce.Do: the first caller goes in, the others wait until it is out.
Enter(c) ==
  /\ caller[c] = "entering"
  /\ \/ /\ once = "fresh"
        /\ once' = c
        /\ caller' = [caller EXCEPT ![c] = "closing"]
     \/ /\ once = "spent"
        /\ caller' = [caller EXCEPT ![c] = "leaving"]
        /\ UNCHANGED once
  /\ UNCHANGED <<partVars, innerVars, at>>

\* Fault: an error ends the loop.
ClosePartStops(c, breaks) ==
  LET p == order[at] IN
  /\ caller[c] = "closing"
  /\ at <= Len(order)
  /\ breaks => part[p] = "up"
  /\ part' = [part EXCEPT ![p] = "ended"]
  /\ partErr' = [partErr EXCEPT ![p] = @ \/ breaks]
  /\ partClosed' = [partClosed EXCEPT ![p] = TRUE]
  /\ err' = IF partErr'[p] THEN err \cup {p} ELSE err
  /\ at' = IF partErr'[p] THEN Len(order) + 1 ELSE at + 1
  /\ UNCHANGED <<watch, done, once, caller>>

\* resource.Close for the next part: it ends the part, which may break on
\* the way, and answers the part's Err.  That error is joined here and,
\* by the part's watch goroutine, a second time.
ClosePart(c, breaks) ==
  LET p == order[at] IN
  /\ caller[c] = "closing"
  /\ at <= Len(order)
  /\ breaks => part[p] = "up"
  /\ part' = [part EXCEPT ![p] = "ended"]
  /\ partErr' = [partErr EXCEPT ![p] = @ \/ breaks]
  /\ partClosed' = [partClosed EXCEPT ![p] = TRUE]
  /\ err' = IF partErr'[p] THEN err \cup {p} ELSE err
  /\ at' = at + 1
  /\ UNCHANGED <<watch, done, once, caller>>

\* closeDone, and closeOnce lets the others in.
CloseDone(c) ==
  /\ caller[c] = "closing"
  /\ at > Len(order)
  /\ done' = TRUE
  /\ once' = "spent"
  /\ caller' = [caller EXCEPT ![c] = "leaving"]
  /\ UNCHANGED <<partVars, watch, err, at>>

Leave(c) ==
  /\ caller[c] = "leaving"
  /\ caller' = [caller EXCEPT ![c] = "returned"]
  /\ UNCHANGED <<partVars, innerVars, once, at>>

\* What Err answers: err, or the errors of the parts while err is nil.
Err == IF err # {} THEN err ELSE {p \in Parts : partErr[p]}

------------------------------------------------------------------------------
\* NewComposite: one resource when the output backend is the input backend.
Init ==
  /\ order \in Orders
  /\ part = [p \in Parts |-> "up"]
  /\ partErr = [p \in Parts |-> FALSE]
  /\ partClosed = [p \in Parts |-> FALSE]
  /\ watch = [p \in Parts |-> "waiting"]
  /\ done = FALSE
  /\ err = {}
  /\ once = "fresh"
  /\ at = 1
  /\ caller = [c \in Callers |-> "idle"]

Watch(p) == WatchErr(p) \/ WatchDone(p)

InClose(c) ==
  Enter(c) \/ (\E breaks \in BOOLEAN : ClosePart(c, breaks)) \/ CloseDone(c) \/ Leave(c)

Next ==
  /\ \/ \E p \in Parts : PartFails(p) \/ PartRecovers(p) \/ PartEnds(p) \/ Watch(p)
     \/ \E c \in Callers : CallClose(c) \/ InClose(c)
  /\ UNCHANGED order

\* The goroutines are scheduled and a part's Close returns; a part may stay
\* up for ever and nobody has to call Close.
Fairness ==
  /\ \A p \in AllParts : WF_vars(p \in Parts /\ Watch(p) /\ UNCHANGED order)
  /\ \A c \in Callers : WF_vars(InClose(c) /\ UNCHANGED order)

Spec == Init /\ [][Next]_vars /\ Fairness

------------------------------------------------------------------------------
(* Properties *)

\* The values the variables take.
TypeOK ==
  /\ order \in Orders
  /\ part \in [Parts -> {"up", "ended"}]
  /\ partErr \in [Parts -> BOOLEAN]
  /\ partClosed \in [Parts -> BOOLEAN]
  /\ watch \in [Parts -> {"waiting", "noted", "gone"}]
  /\ done \in BOOLEAN
  /\ err \subseteq Parts
  /\ once \in {"fresh", "spent"} \cup Callers
  /\ at \in 1..(Len(order) + 1)
  /\ caller \in [Callers -> {"idle", "entering", "closing", "leaving", "returned"}]

\* CloseComplete: Close returns to no caller, however many call it at the
\* same time, before every part has been closed and done is closed.
CloseComplete ==
  \A c \in Callers :
    caller[c] = "returned" => done /\ \A p \in Parts : partClosed[p]

\* NothingForgotten: once every watch goroutine is through, c.err holds the
\* errors of all the sessions, in whatever order they and Close joined them.
NothingForgotten ==
  (\A p \in Parts : watch[p] = "gone")
    => {p \in Parts \ Local : partErr[p]} \subseteq err

\* KeepsPromise: the composite is a resource itself.  done and a recorded
\* error never go back, and Close returns to everyone who called it, but to
\* nobody before the composite has ended.
Promise ==
  INSTANCE Resource WITH
    failed  <- err # {},
    calling <- {c \in Callers : caller[c] \notin {"idle", "returned"}},
    closed  <- \E c \in Callers : caller[c] = "returned"

KeepsPromise == Promise!Spec

==============================================================================
