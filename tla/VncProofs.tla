------------------------------ MODULE VncProofs -------------------------------
(***************************************************************************)
(* The safety properties of VncSession, for any number of goroutines and   *)
(* events.                                                                 *)
(***************************************************************************)
EXTENDS VncSession, TLAPS

\* The client lives from StartSession until somebody has seen run end, and
\* the handle, which outlives the client, as long.
Ownership ==
  /\ run = "none" <=> client = "none"
  /\ client = "freed" => run = "ended"
  /\ ~handle => run \in {"none", "ended"}
  /\ \A c \in Callers :
       /\ caller[c].at # "idle" => client # "none"
       /\ caller[c].at = "delete" => run = "ended"

\* run leaves with an error, which is shown before done is closed.
Farewell ==
  /\ run \in {"noted", "leaving", "ended"} => failed
  /\ run \in {"leaving", "ended"} => ~status.connected /\ status.state = "ERROR"

IInv == TypeOK /\ Ownership /\ Farewell

Calls ==
  [at : {"idle", "lock", "send", "wild", "enter", "shut", "wait", "delete", "leave", "gone"},
   left : 0..MaxEvents]

LEMMA InitInv == Init => IInv
<1>1. SUFFICES ASSUME Init PROVE IInv
  OBVIOUS
<1>2. Idle \in Calls
  BY EventAssumption DEF Idle, Calls
<1>3. caller \in [Callers -> Calls]
  BY <1>1, <1>2 DEF Init
<1>4. TypeOK
  BY <1>1, <1>3 DEF Init, TypeOK, Calls
<1>5. Ownership /\ Farewell
  BY <1>1 DEF Init, Ownership, Farewell, Idle
<1>6. QED
  BY <1>4, <1>5 DEF IInv

\* A step of run, or of StartSession: no goroutine's call moves.
LEMMA RunTyped ==
  ASSUME IInv, RunStep \/ Tick \/ RequestLock \/ Frame
               \/ \E ok \in BOOLEAN : Start(ok) \/ Wait(ok) \/ Handle(ok)
  PROVE  TypeOK'
<1>1. CASE RunStep
  BY <1>1 DEF IInv, TypeOK, RunStep, RunSetErr, Disconnect, RunDone, Request, Goes, lifeVars
<1>2. CASE Tick \/ RequestLock \/ Frame
  BY <1>2 DEF IInv, TypeOK, Tick, RequestLock, Frame, Goes, lifeVars
<1>3. CASE \E ok \in BOOLEAN : Start(ok) \/ Wait(ok) \/ Handle(ok)
  BY <1>3 DEF IInv, TypeOK, Start, Wait, Handle, Goes, lifeVars
<1>4. QED
  BY <1>1, <1>2, <1>3

LEMMA RunOwns ==
  ASSUME IInv, RunStep \/ Tick \/ RequestLock \/ Frame
               \/ \E ok \in BOOLEAN : Start(ok) \/ Wait(ok) \/ Handle(ok)
  PROVE  Ownership'
<1>1. caller' = caller
  BY DEF RunStep, RunSetErr, Disconnect, RunDone, Request, Tick, RequestLock, Frame, Start,
         Wait, Handle, Goes
<1>2. CASE \E ok \in BOOLEAN : Start(ok)
  BY <1>1, <1>2 DEF IInv, Ownership, Start, TypeOK
<1>3. CASE RunStep \/ Tick \/ RequestLock \/ Frame
           \/ \E ok \in BOOLEAN : Wait(ok) \/ Handle(ok)
  <2>1. UNCHANGED <<client, handle>>
    BY <1>3 DEF RunStep, RunSetErr, Disconnect, RunDone, Request, Tick, RequestLock, Frame,
                Wait, Handle, Goes, lifeVars
  <2>2. run \notin {"none", "ended"} /\ run' # "none"
    BY <1>3 DEF RunStep, RunSetErr, Disconnect, RunDone, Request, Tick, RequestLock, Frame,
                Wait, Handle, Goes
  <2>3. QED
    BY <1>1, <2>1, <2>2 DEF IInv, Ownership
<1>4. QED
  BY <1>2, <1>3

LEMMA RunLeaves ==
  ASSUME IInv, RunStep \/ Tick \/ RequestLock \/ Frame
               \/ \E ok \in BOOLEAN : Start(ok) \/ Wait(ok) \/ Handle(ok)
  PROVE  Farewell'
<1>1. CASE RunStep
  BY <1>1 DEF IInv, TypeOK, Farewell, RunStep, RunSetErr, Disconnect, RunDone, Request, Goes
<1>2. CASE Tick \/ RequestLock \/ Frame
  BY <1>2 DEF IInv, TypeOK, Farewell, Tick, RequestLock, Frame, Goes
<1>3. CASE \E ok \in BOOLEAN : Start(ok) \/ Wait(ok) \/ Handle(ok)
  BY <1>3 DEF IInv, TypeOK, Farewell, Start, Wait, Handle, Goes
<1>4. QED
  BY <1>1, <1>2, <1>3

------------------------------------------------------------------------------
(* A step of a goroutine's call: run and what it has left do not move *)

LEMMA CallFrame ==
  ASSUME NEW c \in Callers,
         InCall(c) \/ Lock(c) \/ CallClose(c) \/ \E events \in 1..MaxEvents : Input(c, events)
  PROVE  UNCHANGED runVars
BY DEF InCall, Wild, Enter, Shut, Clean, Delete, Leave, Send, Lock, CallClose, Input

LEMMA CallTyped ==
  ASSUME IInv, NEW c \in Callers,
         InCall(c) \/ Lock(c) \/ CallClose(c) \/ \E events \in 1..MaxEvents : Input(c, events)
  PROVE  TypeOK'
<1>1. UNCHANGED runVars
  BY CallFrame
<1>2. CASE Wild(c) \/ Enter(c) \/ Shut(c) \/ Clean(c) \/ Delete(c) \/ Leave(c) \/ CallClose(c)
  <2>1. UNCHANGED inputMu /\ client' \in {"none", "live", "freed"} /\ handle' \in BOOLEAN
        /\ shut' \in BOOLEAN /\ once' \in {"fresh", "busy", "spent"}
    BY <1>2 DEF IInv, TypeOK, lifeVars, Wild, Enter, Shut, Clean, Delete, Leave, CallClose
  <2>2. PICK at \in {"wild", "enter", "shut", "wait", "delete", "leave", "gone"} :
          caller' = [caller EXCEPT ![c] = [caller[c] EXCEPT !.at = at]]
    BY <1>2 DEF IInv, TypeOK, Goto, Wild, Enter, Shut, Clean, Delete, Leave, CallClose
  <2>3. [caller[c] EXCEPT !.at = at] \in Calls
    BY DEF IInv, TypeOK, Calls
  <2>4. caller' \in [Callers -> Calls]
    BY <2>2, <2>3 DEF IInv, TypeOK, Calls
  <2>5. QED
    BY <1>1, <2>1, <2>4 DEF IInv, TypeOK, runVars, Calls
<1>3. CASE \E sent \in BOOLEAN : Send(c, sent)
  <2>1. PICK sent \in BOOLEAN : Send(c, sent)
    BY <1>3
  <2>2. caller[c].left > 1 => caller[c].left - 1 \in 0..MaxEvents
    BY EventAssumption DEF IInv, TypeOK
  <2>3. QED
    BY <1>1, <2>1, <2>2, EventAssumption DEF IInv, TypeOK, runVars, lifeVars, Send, Idle
<1>4. CASE Lock(c) \/ \E events \in 1..MaxEvents : Input(c, events)
  BY <1>1, <1>4, EventAssumption DEF IInv, TypeOK, runVars, lifeVars, Goto, Lock, Input
<1>5. QED
  BY <1>2, <1>3, <1>4 DEF InCall

LEMMA CallOwns ==
  ASSUME IInv, NEW c \in Callers,
         InCall(c) \/ Lock(c) \/ CallClose(c) \/ \E events \in 1..MaxEvents : Input(c, events)
  PROVE  Ownership'
<1>1. UNCHANGED run
  BY CallFrame DEF runVars
<1>2. \A d \in Callers : d # c => caller'[d] = caller[d]
  BY DEF IInv, TypeOK, Goto, InCall, Wild, Enter, Shut, Clean, Delete, Leave, Send, Lock,
         CallClose, Input
<1>3. CASE Clean(c)
  BY <1>1, <1>2, <1>3 DEF IInv, Ownership, TypeOK, Clean, Goto
<1>4. CASE Delete(c)
  BY <1>1, <1>2, <1>4 DEF IInv, Ownership, TypeOK, Delete, Goto
<1>5. CASE Wild(c) \/ Enter(c) \/ Shut(c) \/ Leave(c) \/ Lock(c) \/ CallClose(c)
           \/ (\E sent \in BOOLEAN : Send(c, sent))
           \/ \E events \in 1..MaxEvents : Input(c, events)
  <2>1. UNCHANGED <<client, handle>>
    BY <1>5 DEF Wild, Enter, Shut, Leave, Lock, CallClose, Send, Input, lifeVars
  <2>2. caller'[c].at # "delete" /\ (caller'[c].at # "idle" => client # "none")
    BY <1>5 DEF IInv, Ownership, TypeOK, Goto, Idle, Wild, Enter, Shut, Leave, Lock, CallClose,
                Send, Input
  <2>3. QED
    BY <1>1, <1>2, <2>1, <2>2 DEF IInv, Ownership
<1>6. QED
  BY <1>3, <1>4, <1>5 DEF InCall

LEMMA NextInv == IInv /\ [Next]_vars => IInv'
<1>1. SUFFICES ASSUME IInv, [Next]_vars PROVE IInv'
  OBVIOUS
<1>2. CASE RunStep \/ Tick \/ RequestLock \/ Frame
           \/ \E ok \in BOOLEAN : Start(ok) \/ Wait(ok) \/ Handle(ok)
  BY <1>1, <1>2, RunTyped, RunOwns, RunLeaves DEF IInv
<1>3. CASE \E c \in Callers :
             InCall(c) \/ Lock(c) \/ CallClose(c) \/ \E events \in 1..MaxEvents : Input(c, events)
  <2>1. PICK c \in Callers :
          InCall(c) \/ Lock(c) \/ CallClose(c) \/ \E events \in 1..MaxEvents : Input(c, events)
    BY <1>3
  <2>2. Farewell'
    BY <1>1, <2>1, CallFrame DEF IInv, Farewell, runVars
  <2>3. QED
    BY <1>1, <2>1, <2>2, CallTyped, CallOwns DEF IInv
<1>4. CASE UNCHANGED vars
  BY <1>1, <1>4 DEF IInv, TypeOK, Ownership, Farewell, vars, lifeVars, runVars
<1>5. QED
  BY <1>1, <1>2, <1>3, <1>4 DEF Next

\* The invariant holds throughout: nobody frees what run still uses, and run
\* leaves with its error (client.go, 132-159, 360-400).
THEOREM Inductive == Spec => []IInv
BY InitInv, NextInv, PTL DEF Spec

\* The types of the session's variables.
THEOREM SessionTyped == Spec => []TypeOK
<1>1. IInv => TypeOK
  BY DEF IInv
<1>2. QED
  BY <1>1, Inductive, PTL

\* Whoever sees the end of the session finds its error and a status that is
\* no longer connected (client.go, 132-159, 373-400).
THEOREM EndIsShown == Spec => []EndShows
<1>1. IInv => EndShows
  BY DEF IInv, Farewell, EndShows
<1>2. QED
  BY <1>1, Inductive, PTL

\* Close frees the client and the handle only after run has ended, whichever
\* of the goroutines closes (client.go, 360-371).
THEOREM ClientOutlivesRun == Spec => []RunOutlived
<1>1. IInv => RunOutlived
  BY DEF IInv, TypeOK, Ownership, RunOutlived
<1>2. QED
  BY <1>1, Inductive, PTL

------------------------------------------------------------------------------
(* The session is a resource *)

\* Whoever is through with Close, and whoever finds that somebody else is,
\* comes after the end of run.
Closing ==
  /\ once = "spent" => run = "ended"
  /\ \A c \in Callers : caller[c].at \in {"delete", "leave"} => run = "ended"

Inside == {c \in Callers : caller[c].at \in {"enter", "shut", "wait", "delete", "leave"}}
Gone == \E c \in Callers : caller[c].at = "gone"

\* A step of run neither reopens a session nor takes its error back.
LEMMA RunPromise ==
  ASSUME IInv, RunStep \/ Tick \/ RequestLock \/ Frame
               \/ \E ok \in BOOLEAN : Start(ok) \/ Wait(ok) \/ Handle(ok)
  PROVE  /\ run # "ended"
         /\ failed' \in {failed, TRUE}
         /\ run' = "ended" => failed' = failed
         /\ UNCHANGED <<caller, once>>
<1>1. CASE RunStep
  BY <1>1 DEF RunStep, RunSetErr, Disconnect, RunDone, Request, Goes, lifeVars
<1>2. CASE Tick \/ RequestLock
  BY <1>2 DEF Tick, RequestLock, Goes, lifeVars
<1>3. CASE Frame
  BY <1>3 DEF Frame, lifeVars
<1>4. CASE \E ok \in BOOLEAN : Start(ok) \/ Wait(ok) \/ Handle(ok)
  BY <1>4 DEF Start, Wait, Handle, Goes, lifeVars
<1>5. QED
  BY <1>1, <1>2, <1>3, <1>4

\* How a step of a goroutine's call moves it.
LEMMA CallMoves ==
  ASSUME IInv, NEW c \in Callers,
         InCall(c) \/ Lock(c) \/ CallClose(c) \/ \E events \in 1..MaxEvents : Input(c, events)
  PROVE  /\ \A d \in Callers \ {c} : caller'[d] = caller[d]
         /\ \/ /\ caller[c].at \notin {"enter", "shut", "wait", "delete", "leave", "gone"}
               /\ caller'[c].at \in {"enter", "idle", "lock", "send", "wild"}
               /\ once' = once
            \/ /\ caller[c].at = "enter"
               /\ \/ once = "spent" /\ caller'[c].at = "leave" /\ once' = once
                  \/ once = "fresh" /\ caller'[c].at = "shut" /\ once' = "busy"
            \/ caller[c].at = "shut" /\ caller'[c].at = "wait" /\ once' = once
            \/ caller[c].at = "wait" /\ caller'[c].at = "delete" /\ once' = once /\ run = "ended"
            \/ caller[c].at = "delete" /\ caller'[c].at = "leave" /\ once' = "spent"
            \/ caller[c].at = "leave" /\ caller'[c].at = "gone" /\ once' = once
<1>1. \A d \in Callers \ {c} : caller'[d] = caller[d]
  BY DEF IInv, TypeOK, Goto, InCall, Wild, Enter, Shut, Clean, Delete, Leave, Send, Lock,
         CallClose, Input
<1>2. CASE Enter(c)
  BY <1>1, <1>2 DEF IInv, TypeOK, Goto, Enter
<1>3. CASE Shut(c) \/ Clean(c) \/ Delete(c) \/ Leave(c)
  BY <1>1, <1>3 DEF IInv, TypeOK, Goto, Shut, Clean, Delete, Leave, lifeVars
<1>4. CASE Wild(c) \/ Lock(c) \/ CallClose(c) \/ (\E sent \in BOOLEAN : Send(c, sent))
           \/ \E events \in 1..MaxEvents : Input(c, events)
  BY <1>1, <1>4 DEF IInv, TypeOK, Goto, Idle, Wild, Lock, CallClose, Send, Input, lifeVars
<1>5. QED
  BY <1>2, <1>3, <1>4 DEF InCall

LEMMA ClosingNext ==
  ASSUME IInv, Closing, [Next]_vars
  PROVE  Closing'
<1>1. CASE RunStep \/ Tick \/ RequestLock \/ Frame
           \/ \E ok \in BOOLEAN : Start(ok) \/ Wait(ok) \/ Handle(ok)
  BY <1>1, RunPromise DEF Closing
<1>2. CASE \E c \in Callers :
             InCall(c) \/ Lock(c) \/ CallClose(c) \/ \E events \in 1..MaxEvents : Input(c, events)
  <2>1. PICK c \in Callers :
          InCall(c) \/ Lock(c) \/ CallClose(c) \/ \E events \in 1..MaxEvents : Input(c, events)
    BY <1>2
  <2>2. run' = run
    BY <2>1, CallFrame DEF runVars
  <2>3. QED
    BY <2>1, <2>2, CallMoves DEF Closing
<1>3. CASE UNCHANGED vars
  BY <1>3 DEF Closing, vars, lifeVars, runVars
<1>4. QED
  BY <1>1, <1>2, <1>3 DEF Next

LEMMA StepPromise ==
  ASSUME IInv, Closing, [Next]_vars
  PROVE  [Promise!Next]_Promise!vars
<1>1. CASE RunStep \/ Tick \/ RequestLock \/ Frame
           \/ \E ok \in BOOLEAN : Start(ok) \/ Wait(ok) \/ Handle(ok)
  <2>1. run # "ended" /\ failed' \in {failed, TRUE} /\ UNCHANGED caller
        /\ (run' = "ended" => failed' = failed)
    BY <1>1, RunPromise
  <2>2. CASE run' = "ended"
    BY <2>1, <2>2 DEF Promise!Next, Promise!End
  <2>3. CASE run' # "ended"
    BY <2>1, <2>3 DEF Promise!Next, Promise!Fail, Promise!vars
  <2>4. QED
    BY <2>2, <2>3
<1>2. CASE \E c \in Callers :
             InCall(c) \/ Lock(c) \/ CallClose(c) \/ \E events \in 1..MaxEvents : Input(c, events)
  <2>1. PICK c \in Callers :
          InCall(c) \/ Lock(c) \/ CallClose(c) \/ \E events \in 1..MaxEvents : Input(c, events)
    BY <1>2
  <2>2. UNCHANGED <<run, failed>>
    BY <2>1, CallFrame DEF runVars
  <2>3. \A d \in Callers \ {c} : caller'[d] = caller[d]
    BY <2>1, CallMoves
  <2>4. CASE caller[c].at = "leave"
    <3>1. run = "ended" /\ caller'[c].at = "gone"
      BY <2>1, <2>4, CallMoves DEF Closing
    <3>2. Inside' = Inside \ {c} /\ Gone' = TRUE /\ c \in Inside
      BY <2>3, <2>4, <3>1 DEF Inside, Gone
    <3>3. Promise!ReturnClose(c)
      BY <2>2, <3>1, <3>2 DEF Promise!ReturnClose, Inside, Gone
    <3>4. QED
      BY <3>3 DEF Promise!Next
  <2>5. CASE caller[c].at # "leave"
    <3>1. caller[c].at # "gone" /\ caller'[c].at # "gone"
      BY <2>1, <2>5, CallMoves
    <3>2. Gone' = Gone
      BY <2>3, <3>1 DEF Gone
    <3>3. c \in Inside => c \in Inside'
      BY <2>1, <2>5, CallMoves DEF Inside
    <3>4. Inside' = Inside \/ Inside' = Inside \cup {c}
      BY <2>3, <3>3 DEF Inside
    <3>5. QED
      BY <2>2, <3>2, <3>4 DEF Promise!Next, Promise!CallClose, Promise!vars, Inside, Gone
  <2>6. QED
    BY <2>4, <2>5
<1>3. CASE UNCHANGED vars
  BY <1>3 DEF vars, lifeVars, runVars, Promise!vars
<1>4. QED
  BY <1>1, <1>2, <1>3 DEF Next

\* SessionIsResource: apart from what must happen in the end, the session
\* keeps the promise of a resource, whichever of the goroutines closes it:
\* its end and error are final and Close returns to nobody before run has
\* ended (client.go, 132-159, 360-371).
THEOREM SessionIsResource == Spec => Promise!Safety
<1>1. Init => Closing /\ Promise!Init
  BY DEF Init, Closing, Idle, Promise!Init
<1>2. IInv /\ Closing /\ [Next]_vars => Closing'
  BY ClosingNext
<1>3. IInv /\ Closing /\ [Next]_vars => [Promise!Next]_Promise!vars
  BY StepPromise
<1>4. QED
  BY <1>1, <1>2, <1>3, Inductive, PTL DEF Spec, Promise!Safety

==============================================================================
