------------------------------ MODULE LaunchProofs ------------------------------
(***************************************************************************)
(* A process from its command line to its end, for any configuration, any  *)
(* number of requests and whatever befalls the backends.  First the        *)
(* composite by itself, for any number of parts and of goroutines that     *)
(* close it, and that it keeps Resource's promise; then the commands that  *)
(* own it; then the configuration they start from.                         *)
(***************************************************************************)
EXTENDS Launch, SequenceTheorems, WellFoundedInduction, TLAPS

------------------------------------------------------------------------------
(* The composite *)

\* What Close has come past is closed, and it is out when it has come past
\* all.
Passed ==
  /\ \A i \in 1..Len(order) : i < at => partClosed[order[i]]
  /\ once = "spent" => at > Len(order) /\ done
  /\ \A c \in Callers : caller[c] \in {"leaving", "returned"} => once = "spent"

\* A watch goroutine looks at the error of a part that has ended, and a
\* session gets no other after that.
Noted ==
  \A p \in Parts :
    watch[p] # "waiting" =>
      /\ part[p] = "ended"
      /\ p \notin Local /\ partErr[p] => p \in err

IInv == TypeOK /\ Passed /\ Noted

LEMMA OrderIsSeq ==
  ASSUME order \in Orders
  PROVE  /\ Len(order) \in Nat \ {0}
         /\ Parts = {order[i] : i \in 1..Len(order)}
<1>1. order \in Seq(Range(order)) /\ order # <<>>
  BY OrderAssumption
<1>2. DOMAIN order = 1..Len(order) /\ Len(order) \in Nat \ {0}
  BY <1>1
<1>3. QED
  BY <1>2 DEF Parts, Range

LEMMA InitInv == Init => IInv
<1>1. SUFFICES ASSUME Init PROVE IInv
  OBVIOUS
<1>2. Len(order) \in Nat \ {0}
  BY <1>1, OrderIsSeq DEF Init
<1>3. TypeOK
  <2>1. at \in 1..(Len(order) + 1) /\ err \subseteq Parts /\ once \in {"fresh", "spent"}
    BY <1>1, <1>2 DEF Init
  <2>2. /\ part \in [Parts -> {"up", "ended"}] /\ partErr \in [Parts -> BOOLEAN]
        /\ partClosed \in [Parts -> BOOLEAN] /\ watch \in [Parts -> {"waiting", "noted", "gone"}]
        /\ caller \in [Callers -> {"idle", "entering", "closing", "leaving", "returned"}]
    BY <1>1 DEF Init
  <2>3. QED
    BY <1>1, <2>1, <2>2 DEF Init, TypeOK
<1>4. Passed
  BY <1>1, <1>2 DEF Init, Passed
<1>5. Noted
  BY <1>1 DEF Init, Noted
<1>6. QED
  BY <1>3, <1>4, <1>5 DEF IInv

------------------------------------------------------------------------------
(* The parts and those that watch them *)

LEMMA PartStep ==
  ASSUME IInv, UNCHANGED order, NEW p \in Parts, PartFails(p) \/ PartRecovers(p) \/ PartEnds(p)
  PROVE  IInv'
<1>1. UNCHANGED <<partClosed, innerVars, closeVars, Parts>>
  BY DEF PartFails, PartRecovers, PartEnds, Parts
<1>2. part' \in [Parts -> {"up", "ended"}] /\ partErr' \in [Parts -> BOOLEAN]
  BY DEF IInv, TypeOK, PartFails, PartRecovers, PartEnds
<1>3. TypeOK'
  BY <1>1, <1>2 DEF IInv, TypeOK, innerVars, closeVars
<1>4. Passed'
  BY <1>1 DEF IInv, Passed, innerVars, closeVars
<1>5. Noted'
  <2>1. SUFFICES ASSUME NEW q \in Parts, watch[q] # "waiting"
                 PROVE  /\ part'[q] = "ended"
                        /\ q \notin Local /\ partErr'[q] => q \in err
    BY <1>1 DEF Noted, innerVars
  <2>2. part[q] = "ended" /\ (q \notin Local /\ partErr[q] => q \in err)
    BY <2>1 DEF IInv, Noted
  <2>3. part'[q] = "ended"
    BY <2>2 DEF IInv, TypeOK, PartFails, PartRecovers, PartEnds
  <2>4. q \notin Local => partErr'[q] = partErr[q]
    BY <2>2 DEF IInv, TypeOK, PartFails, PartRecovers, PartEnds
  <2>5. QED
    BY <2>2, <2>3, <2>4
<1>6. QED
  BY <1>3, <1>4, <1>5 DEF IInv

LEMMA WatchStep ==
  ASSUME IInv, UNCHANGED order, NEW p \in Parts, Watch(p)
  PROVE  IInv'
<1>1. UNCHANGED <<partVars, closeVars, Parts>>
  BY DEF Watch, WatchErr, WatchDone, Parts
<1>2. watch' \in [Parts -> {"waiting", "noted", "gone"}] /\ done' \in BOOLEAN /\ (done => done')
  BY DEF IInv, TypeOK, Watch, WatchErr, WatchDone
<1>3. err' \subseteq Parts /\ err \subseteq err'
  BY DEF IInv, TypeOK, Watch, WatchErr, WatchDone, Joined
<1>4. TypeOK'
  BY <1>1, <1>2, <1>3 DEF IInv, TypeOK, partVars, closeVars
<1>5. Passed'
  BY <1>1, <1>2 DEF IInv, Passed, partVars, closeVars
<1>6. Noted'
  <2>1. CASE WatchErr(p)
    <3>1. \A q \in Parts : q # p => watch'[q] = watch[q]
      BY <2>1 DEF IInv, TypeOK, WatchErr
    <3>2. part[p] = "ended" /\ (partErr[p] => p \in err')
      BY <2>1 DEF WatchErr, Joined
    <3>3. QED
      BY <1>1, <1>3, <3>1, <3>2 DEF IInv, Noted, partVars
  <2>2. CASE WatchDone(p)
    <3>1. \A q \in Parts : watch'[q] # "waiting" => watch[q] # "waiting"
      BY <2>2 DEF IInv, TypeOK, WatchDone
    <3>2. QED
      BY <1>1, <1>3, <3>1 DEF IInv, Noted, partVars
  <2>3. QED
    BY <2>1, <2>2 DEF Watch
<1>7. QED
  BY <1>4, <1>5, <1>6 DEF IInv

------------------------------------------------------------------------------
(* Close *)

LEMMA CallStep ==
  ASSUME IInv, UNCHANGED order, NEW c \in Callers, CallClose(c) \/ Enter(c) \/ CloseDone(c) \/ Leave(c)
  PROVE  IInv'
<1>1. UNCHANGED <<partVars, watch, err, at, Parts>>
  BY DEF CallClose, Enter, CloseDone, Leave, innerVars, Parts
<1>2. /\ caller' \in [Callers -> {"idle", "entering", "closing", "leaving", "returned"}]
      /\ once' \in {"fresh", "spent"} \cup Callers /\ done' \in BOOLEAN
  BY DEF IInv, TypeOK, CallClose, Enter, CloseDone, Leave, innerVars
<1>3. TypeOK'
  BY <1>1, <1>2 DEF IInv, TypeOK, partVars
<1>4. Noted'
  BY <1>1 DEF IInv, Noted, partVars
<1>5. Passed'
  <2>1. once' = "spent" => at > Len(order) /\ done'
    BY CallerAssumption DEF IInv, Passed, CallClose, Enter, CloseDone, Leave, innerVars
  <2>2. once = "spent" => once' = "spent"
    BY DEF CallClose, Enter, CloseDone, Leave
  <2>3. \A d \in Callers : d # c => caller'[d] = caller[d]
    BY DEF IInv, TypeOK, CallClose, Enter, CloseDone, Leave
  <2>4. caller'[c] \in {"leaving", "returned"} => once' = "spent"
    BY DEF IInv, TypeOK, Passed, CallClose, Enter, CloseDone, Leave
  <2>5. QED
    BY <1>1, <2>1, <2>2, <2>3, <2>4 DEF IInv, Passed, partVars
<1>6. QED
  BY <1>3, <1>4, <1>5 DEF IInv

LEMMA ClosePartStep ==
  ASSUME IInv, UNCHANGED order, NEW c \in Callers, NEW breaks \in BOOLEAN, ClosePart(c, breaks)
  PROVE  IInv'
<1>1. UNCHANGED <<watch, done, once, caller, Parts>>
  BY DEF ClosePart, Parts
<1>2. Len(order) \in Nat /\ at \in 1..Len(order) /\ at' = at + 1
  BY OrderIsSeq DEF IInv, TypeOK, ClosePart
<1>3. PICK p \in Parts : p = order[at]
  BY <1>2, OrderIsSeq DEF IInv, TypeOK
<1>4. /\ part' = [part EXCEPT ![p] = "ended"]
      /\ partErr' = [partErr EXCEPT ![p] = partErr[p] \/ breaks]
      /\ partClosed' = [partClosed EXCEPT ![p] = TRUE]
      /\ err' = IF partErr'[p] THEN err \cup {p} ELSE err
      /\ breaks => part[p] = "up"
  BY <1>3 DEF ClosePart
<1>5. (partErr[p] \/ breaks) \in BOOLEAN
  OBVIOUS
<1>6. partErr' \in [Parts -> BOOLEAN]
  BY <1>4, <1>5 DEF IInv, TypeOK
<1>7. TypeOK'
  BY <1>1, <1>2, <1>4, <1>6 DEF IInv, TypeOK
<1>8. Passed'
  <2>1. \A i \in 1..Len(order) : i < at' => partClosed'[order[i]]
    <3>1. TAKE i \in 1..Len(order)
    <3>2. order[i] \in Parts
      BY OrderIsSeq DEF IInv, TypeOK
    <3>3. i < at' => i < at \/ i = at
      BY <1>2
    <3>4. QED
      BY <1>3, <1>4, <3>2, <3>3 DEF IInv, TypeOK, Passed
  <2>2. once # "spent"
    BY <1>2 DEF IInv, Passed
  <2>3. QED
    BY <1>1, <2>1, <2>2 DEF IInv, Passed
<1>9. Noted'
  <2>1. SUFFICES ASSUME NEW q \in Parts, watch[q] # "waiting"
                 PROVE  /\ part'[q] = "ended"
                        /\ q \notin Local /\ partErr'[q] => q \in err'
    BY <1>1 DEF Noted
  <2>2. part[q] = "ended" /\ (q \notin Local /\ partErr[q] => q \in err)
    BY <2>1 DEF IInv, Noted
  <2>3. part'[q] = "ended"
    BY <1>4, <2>2 DEF IInv, TypeOK
  <2>4. CASE q = p
    BY <1>4, <2>3, <2>4
  <2>5. CASE q # p
    BY <1>4, <2>2, <2>3, <2>5 DEF IInv, TypeOK
  <2>6. QED
    BY <2>4, <2>5
<1>10. QED
  BY <1>7, <1>8, <1>9 DEF IInv

LEMMA NextInv == IInv /\ [Next]_vars => IInv'
<1>1. SUFFICES ASSUME IInv, [Next]_vars PROVE IInv'
  OBVIOUS
<1>2. CASE UNCHANGED vars
  BY <1>1, <1>2 DEF IInv, TypeOK, Passed, Noted, Parts, vars, partVars, innerVars, closeVars
<1>3. CASE Next
  BY <1>1, <1>3, PartStep, WatchStep, CallStep, ClosePartStep DEF Next, InClose
<1>4. QED
  BY <1>1, <1>2, <1>3

\* The invariant holds throughout: Close comes past one part after the other,
\* and what a watch goroutine has noted of a session is all there will be
\* (desktop/session.go, 164-227).
THEOREM Inductive == Spec => []IInv
BY InitInv, NextInv, PTL DEF Spec

\* The types of the composite's variables.
THEOREM CompositeTyped == Spec => []TypeOK
<1>1. IInv => TypeOK
  BY DEF IInv
<1>2. QED
  BY <1>1, Inductive, PTL

\* Close returns to nobody before all parts are closed, whoever calls it and
\* however many (desktop/session.go, 186-203).
THEOREM CloseIsComplete == Spec => []CloseComplete
<1>1. IInv => CloseComplete
  <2>1. SUFFICES ASSUME IInv, NEW c \in Callers, caller[c] = "returned"
                 PROVE  done /\ \A p \in Parts : partClosed[p]
    BY DEF CloseComplete
  <2>2. at > Len(order) /\ done
    BY <2>1 DEF IInv, Passed
  <2>3. ASSUME NEW p \in Parts PROVE partClosed[p]
    <3>1. PICK i \in 1..Len(order) : p = order[i]
      BY <2>1, OrderIsSeq DEF IInv, TypeOK
    <3>2. i < at
      BY <2>1, <2>2, OrderIsSeq DEF IInv, TypeOK
    <3>3. QED
      BY <2>1, <3>1, <3>2 DEF IInv, Passed
  <2>4. QED
    BY <2>2, <2>3
<1>2. QED
  BY <1>1, Inductive, PTL

\* The errors of all sessions are in the composite's error in the end, in
\* whatever order the watch goroutines and Close join them
\* (desktop/session.go, 164-227).
THEOREM ErrorsAreKept == Spec => []NothingForgotten
<1>1. IInv => NothingForgotten
  BY DEF IInv, Noted, NothingForgotten
<1>2. QED
  BY <1>1, Inductive, PTL

------------------------------------------------------------------------------
(* The composite is a resource *)

Calling == {c \in Callers : caller[c] \notin {"idle", "returned"}}
Closed  == \E c \in Callers : caller[c] = "returned"

\* A step that takes nobody in or out of Close.
LEMMA SameCalling ==
  ASSUME \A c \in Callers : /\ caller'[c] \in {"idle", "returned"} <=> caller[c] \in {"idle", "returned"}
                            /\ caller'[c] = "returned" <=> caller[c] = "returned"
  PROVE  Calling' = Calling /\ Closed' = Closed
<1>1. Calling' = {c \in Callers : caller'[c] \notin {"idle", "returned"}}
  BY DEF Calling
<1>2. Calling' = Calling
  BY <1>1 DEF Calling
<1>3. Closed' = Closed
  BY DEF Closed
<1>4. QED
  BY <1>2, <1>3

LEMMA StepPromise ==
  ASSUME IInv, [Next]_vars
  PROVE  [Promise!Next]_Promise!vars
<1>1. caller \in [Callers -> {"idle", "entering", "closing", "leaving", "returned"}] /\ err \subseteq Parts
  BY DEF IInv, TypeOK
<1>2. ASSUME NEW p \in Parts, PartFails(p) \/ PartRecovers(p) \/ PartEnds(p)
      PROVE  [Promise!Next]_Promise!vars
  <2>1. UNCHANGED <<done, err, caller>>
    BY <1>2 DEF PartFails, PartRecovers, PartEnds, innerVars, closeVars
  <2>2. UNCHANGED Promise!vars
    BY <2>1 DEF Promise!vars
  <2>3. QED
    BY <2>2
<1>3. ASSUME NEW p \in Parts, Watch(p)
      PROVE  [Promise!Next]_Promise!vars
  <2>1. UNCHANGED caller
    BY <1>3 DEF Watch, WatchErr, WatchDone, closeVars
  <2>2. UNCHANGED <<Calling, Closed>>
    BY <2>1 DEF Calling, Closed
  <2>3. CASE WatchErr(p)
    <3>1. UNCHANGED done /\ err \subseteq err'
      BY <2>3 DEF WatchErr, Joined
    <3>2. QED
      BY <2>2, <3>1 DEF Promise!Next, Promise!Fail, Promise!vars, Calling, Closed
  <2>4. CASE WatchDone(p)
    <3>1. done' = TRUE /\ UNCHANGED err
      BY <2>4 DEF WatchDone
    <3>2. QED
      BY <2>2, <3>1 DEF Promise!Next, Promise!End, Calling, Closed
  <2>5. QED
    BY <1>3, <2>3, <2>4 DEF Watch
<1>4. ASSUME NEW c \in Callers, CallClose(c)
      PROVE  [Promise!Next]_Promise!vars
  <2>1. caller[c] = "idle" /\ caller' = [caller EXCEPT ![c] = "entering"] /\ UNCHANGED <<done, err>>
    BY <1>4 DEF CallClose, innerVars
  <2>2. Calling' = Calling \cup {c} /\ Closed' = Closed
    <3>1. Calling' = {d \in Callers : caller'[d] \notin {"idle", "returned"}}
      BY DEF Calling
    <3>2. QED
      BY <1>1, <2>1, <3>1 DEF Calling, Closed
  <2>3. QED
    BY <2>1, <2>2 DEF Promise!Next, Promise!CallClose, Calling, Closed
<1>5. ASSUME NEW c \in Callers, Enter(c)
      PROVE  [Promise!Next]_Promise!vars
  <2>1. UNCHANGED <<done, err>>
    BY <1>5 DEF Enter, innerVars
  <2>2. UNCHANGED <<Calling, Closed>>
    BY <1>1, <1>5, SameCalling DEF Enter
  <2>3. QED
    BY <2>1, <2>2 DEF Promise!vars, Calling, Closed
<1>6. ASSUME NEW c \in Callers, NEW breaks \in BOOLEAN, ClosePart(c, breaks)
      PROVE  [Promise!Next]_Promise!vars
  <2>1. UNCHANGED <<done, caller>> /\ err \subseteq err'
    BY <1>6 DEF ClosePart
  <2>2. UNCHANGED <<Calling, Closed>>
    BY <2>1 DEF Calling, Closed
  <2>3. QED
    BY <2>1, <2>2 DEF Promise!Next, Promise!Fail, Promise!vars, Calling, Closed
<1>7. ASSUME NEW c \in Callers, CloseDone(c)
      PROVE  [Promise!Next]_Promise!vars
  <2>1. done' = TRUE /\ UNCHANGED err
    BY <1>7 DEF CloseDone
  <2>2. UNCHANGED <<Calling, Closed>>
    BY <1>1, <1>7, SameCalling DEF CloseDone
  <2>3. QED
    BY <2>1, <2>2 DEF Promise!Next, Promise!End, Calling, Closed
<1>8. ASSUME NEW c \in Callers, Leave(c)
      PROVE  [Promise!Next]_Promise!vars
  <2>1. caller[c] = "leaving" /\ caller' = [caller EXCEPT ![c] = "returned"] /\ UNCHANGED <<done, err>>
    BY <1>8 DEF Leave, innerVars
  <2>2. done
    BY <2>1 DEF IInv, Passed
  <2>3. c \in Calling /\ Calling' = Calling \ {c} /\ Closed' = TRUE
    <3>1. Calling' = {d \in Callers : caller'[d] \notin {"idle", "returned"}}
      BY DEF Calling
    <3>2. QED
      BY <1>1, <2>1, <3>1 DEF Calling, Closed
  <2>4. QED
    BY <2>1, <2>2, <2>3 DEF Promise!Next, Promise!ReturnClose, Calling, Closed
<1>9. CASE UNCHANGED vars
  BY <1>9 DEF vars, innerVars, closeVars, Promise!vars
<1>10. QED
  BY <1>2, <1>3, <1>4, <1>5, <1>6, <1>7, <1>8, <1>9 DEF Next, InClose

\* CompositeIsResource: apart from what must happen in the end, the composite
\* keeps the promise of a resource: done and a recorded error never go back,
\* and Close returns to nobody before done is closed
\* (desktop/session.go, 155-227).
THEOREM CompositeIsResource == Spec => Promise!Safety
<1>1. Init => Promise!Init
  BY DEF Init, Promise!Init
<1>2. QED
  BY <1>1, Inductive, StepPromise, PTL DEF Spec, Promise!Safety

------------------------------------------------------------------------------
(* The invariant *)

\* How far the command is when it is still, or no longer, working on its
\* configuration.
Configuring ==
  /\ stage \in {"given", "loaded", "resolved", "valid", "refused", "running"}
  /\ stage \notin {"refused", "running"} => main = "output"

\* What has been started, and what has been closed, up to where the command
\* stands.
Starting ==
  /\ main = "output" => started = {}
  /\ main \in {"input", "undo"} => Len(order) = 2 /\ started = {order[1]}
  /\ main \in {"open", "select", "stopping", "closing"} => started = Parts
  /\ main \notin {"failed", "closing", "exited"} => \A p \in Parts : ~partClosed[p]
  /\ main \in {"failed", "exited"} => \A p \in Parts : partClosed[p] <=> p \in started

\* Who closes the composite, and when.
ClosingTurn ==
  /\ caller[Main] # "idle" => main \in {"closing", "exited"}
  /\ caller[Main] \in {"idle", "entering"} => once = "fresh"
  /\ caller[Main] = "closing" => once = Main
  /\ main = "exited" => caller[Main] \in {"idle", "returned"}

\* Who may still be working on a request.
Serving ==
  /\ main \notin {"select", "stopping", "closing", "exited"} => server = "off" /\ ~Busy
  /\ main = "closing" => gaveUp \/ (~Busy /\ server # "on")
  /\ gaveUp => main \in {"closing", "exited"}
  /\ server = "failed" => mode = "serve"
  /\ server = "hungup" => mode \in {"mount", "mcp"} /\ (mode = "mount" => ~Busy)

\* A part that ended before it was closed has ended by itself.
Ended ==
  once = "fresh" =>
    /\ main \notin {"failed", "exited"} => \A p \in Parts : part[p] = "ended" => p \notin Local
    /\ done => \E p \in Parts : part[p] = "ended"

\* The result tells what the command has come across.
Told ==
  /\ main \in {"stopping", "closing"} => result # "none"
  /\ main = "stopping" /\ result = "ok" =>
       signalled \/ \E p \in Parts : part[p] = "ended" /\ ~partErr[p]
  /\ ResultHonest

LInv ==
  /\ IInv
  /\ ServeTypeOK
  /\ Configuring
  /\ Starting
  /\ ClosingTurn
  /\ Serving
  /\ Ended
  /\ Told

------------------------------------------------------------------------------
(* What the steps leave alone *)

LEMMA PartsAre ==
  ASSUME order \in Orders
  PROVE  /\ Len(order) \in {1, 2} /\ order[1] \in Parts
         /\ Len(order) = 1 => Parts = {order[1]}
         /\ Len(order) = 2 => Parts = {order[1], order[2]} /\ order[2] \in Parts /\ order[1] # order[2]
<1>1. Len(order) \in {1, 2}
  BY PairAssumption
<1>2. Parts = {order[i] : i \in 1..Len(order)}
  BY OrderIsSeq
<1>3. Len(order) = 2 => order[1] # order[2]
  <2>1. IsInjective(order) /\ DOMAIN order = 1..Len(order)
    BY OrderAssumption
  <2>2. Len(order) = 2 => 1 \in DOMAIN order /\ 2 \in DOMAIN order
    BY <2>1
  <2>3. QED
    BY <2>1, <2>2 DEF IsInjective
<1>4. CASE Len(order) = 1
  BY <1>2, <1>4
<1>5. CASE Len(order) = 2
  BY <1>2, <1>3, <1>5
<1>6. QED
  BY <1>1, <1>4, <1>5

LEMMA LaunchInitInv == LaunchInit => LInv
<1>1. SUFFICES ASSUME LaunchInit PROVE LInv
  OBVIOUS
<1>2. IInv
  BY <1>1, InitInv DEF LaunchInit, ServeInit
<1>3. ServeTypeOK
  BY <1>1, <1>2 DEF LaunchInit, ServeInit, ServeTypeOK, IInv
<1>4. \A p \in Parts : ~partClosed[p] /\ part[p] = "up"
  BY <1>1 DEF LaunchInit, ServeInit, Init
<1>5. ~Busy
  BY <1>1 DEF LaunchInit, ServeInit, Busy
<1>6. caller[Main] = "idle" /\ once = "fresh" /\ ~done
  BY <1>1, MainAssumption DEF LaunchInit, ServeInit, Init
<1>7. Configuring /\ Starting /\ ClosingTurn /\ Serving /\ Ended /\ Told
  BY <1>1, <1>4, <1>5, <1>6 DEF LaunchInit, ServeInit, Configuring, Starting, ClosingTurn, Serving, Ended,
     Told, ResultHonest, GivingUpShows, SuccessExplained
<1>8. QED
  BY <1>2, <1>3, <1>7 DEF LInv

------------------------------------------------------------------------------
(* The configuration *)

LEMMA ConfigureInv ==
  ASSUME LInv, Configure
  PROVE  LInv'
<1>1. Untouched /\ Parts' = Parts
  BY DEF Configure, LoadConfig, ResolveBackendExtends, ValidateConfig, Run, Untouched, vars, Parts
<1>2. /\ main = "output" /\ stage \notin {"refused", "running"} /\ result \in {"none", "ok", "error"}
  BY DEF LInv, ServeTypeOK, Configuring, Configure, LoadConfig, ResolveBackendExtends, ValidateConfig, Run
<1>3. \/ stage' = "refused" /\ main' = "exited" /\ result' = "error"
      \/ stage' \in {"loaded", "resolved", "valid", "running"} /\ UNCHANGED <<main, result>>
  BY DEF Configure, LoadConfig, ResolveBackendExtends, ValidateConfig, Run, Proceed, Refuse
<1>4. UNCHANGED <<vars, mode, started, server, gaveUp, handler, signalled>>
  BY <1>1 DEF Untouched, worldVars
<1>5. UNCHANGED <<order, part, partErr, partClosed, watch, done, err, once, at, caller>>
  BY <1>4 DEF vars, partVars, innerVars, closeVars
<1>6. IInv'
  BY <1>5, NextInv DEF LInv, vars, partVars, innerVars, closeVars
<1>7. ServeTypeOK'
  BY <1>1, <1>2, <1>3, <1>4, <1>6 DEF LInv, ServeTypeOK, IInv
<1>8. Configuring'
  BY <1>2, <1>3 DEF Configuring
<1>9. Starting' /\ ClosingTurn'
  BY <1>1, <1>2, <1>3, <1>4, <1>5 DEF LInv, Starting, ClosingTurn
<1>10. Busy' = Busy
  BY <1>4 DEF Busy
<1>11. Serving'
  BY <1>2, <1>3, <1>4, <1>10 DEF LInv, Serving
<1>12. Ended'
  BY <1>1, <1>2, <1>3, <1>5 DEF LInv, Ended
<1>13. Told'
  BY <1>2, <1>3, <1>4, <1>5 DEF LInv, Told, Serving, ResultHonest, GivingUpShows, SuccessExplained
<1>14. QED
  BY <1>6, <1>7, <1>8, <1>9, <1>11, <1>12, <1>13 DEF LInv

------------------------------------------------------------------------------
(* Starting the backends *)

\* A step that leaves the composite alone.
LEMMA StillComposite ==
  ASSUME LInv, UNCHANGED vars
  PROVE  /\ IInv' /\ Parts' = Parts /\ order \in Orders
         /\ UNCHANGED <<order, part, partErr, partClosed, watch, done, err, once, at, caller>>
<1>1. UNCHANGED <<order, part, partErr, partClosed, watch, done, err, once, at, caller>>
  BY DEF vars, partVars, innerVars, closeVars
<1>2. IInv' /\ order \in Orders
  BY NextInv DEF LInv, IInv, TypeOK
<1>3. QED
  BY <1>1, <1>2 DEF Parts

LEMMA StartInv ==
  ASSUME LInv, NEW ok \in BOOLEAN, StartOutput(ok) \/ StartInput(ok), stage' = "running"
  PROVE  LInv'
<1>1. UNCHANGED <<vars, mode, server, result, gaveUp, handler, signalled>>
  BY DEF StartOutput, StartInput, worldVars
<1>2. /\ IInv' /\ Parts' = Parts /\ order \in Orders
      /\ UNCHANGED <<order, part, partErr, partClosed, watch, done, err, once, at, caller>>
  BY <1>1, StillComposite
<1>3. Len(order) \in {1, 2} /\ order[1] \in Parts
  BY <1>2, PartsAre
<1>4. /\ main \in {"output", "input"} /\ main' \in {"input", "open", "failed", "undo"}
      /\ \A p \in Parts : ~partClosed[p]
  BY DEF LInv, Starting, StartOutput, StartInput
<1>5. Starting'
  <2>1. CASE StartOutput(ok)
    <3>1. main = "output" /\ started = {}
      BY <2>1 DEF LInv, Starting, StartOutput
    <3>2. CASE ok
      <4>1. started' = {order[1]} /\ main' = IF Len(order) = 1 THEN "open" ELSE "input"
        BY <2>1, <3>2 DEF StartOutput
      <4>2. QED
        BY <1>2, <1>3, <1>4, <4>1, PartsAre DEF Starting
    <3>3. CASE ~ok
      BY <1>2, <1>4, <2>1, <3>1, <3>3 DEF Starting, StartOutput
    <3>4. QED
      BY <3>2, <3>3
  <2>2. CASE StartInput(ok)
    <3>1. main = "input" /\ Len(order) = 2 /\ started = {order[1]}
      BY <2>2 DEF LInv, Starting, StartInput
    <3>2. Parts = {order[1], order[2]}
      BY <1>2, <3>1, PartsAre
    <3>3. CASE ok
      <4>1. started' = Parts /\ main' = "open"
        BY <2>2, <3>1, <3>2, <3>3 DEF StartInput
      <4>2. QED
        BY <1>2, <1>4, <4>1 DEF Starting
    <3>4. CASE ~ok
      BY <1>2, <1>4, <2>2, <3>1, <3>4 DEF Starting, StartInput
    <3>5. QED
      BY <3>3, <3>4
  <2>3. QED
    BY <2>1, <2>2
<1>6. started' \subseteq Parts
  <2>1. started' \in {started, {order[1]}, started \cup {order[2]}}
    BY DEF StartOutput, StartInput
  <2>2. main = "input" => order[2] \in Parts
    BY <1>2, PartsAre DEF LInv, Starting
  <2>3. QED
    BY <1>2, <1>3, <2>2 DEF LInv, ServeTypeOK, StartOutput, StartInput
<1>7. ServeTypeOK'
  BY <1>1, <1>2, <1>4, <1>6 DEF LInv, ServeTypeOK, IInv
<1>8. Configuring' /\ ClosingTurn'
  BY <1>2, <1>4 DEF LInv, Configuring, ClosingTurn
<1>9. Busy' = Busy
  BY <1>1 DEF Busy
<1>10. Serving'
  BY <1>1, <1>4, <1>9 DEF LInv, Serving
<1>11. Ended'
  BY <1>2, <1>4 DEF LInv, Ended
<1>12. Told'
  BY <1>1, <1>2, <1>4 DEF LInv, Told, ResultHonest, GivingUpShows, SuccessExplained
<1>13. QED
  BY <1>2, <1>5, <1>7, <1>8, <1>10, <1>11, <1>12 DEF LInv

LEMMA CloseOutputInv ==
  ASSUME LInv, CloseOutput, UNCHANGED order, stage' = "running"
  PROVE  LInv'
<1>1. /\ part' = [part EXCEPT ![order[1]] = "ended"]
      /\ partClosed' = [partClosed EXCEPT ![order[1]] = TRUE]
      /\ main = "undo" /\ main' = "failed"
      /\ UNCHANGED <<order, partErr, watch, done, err, once, at, caller>>
      /\ UNCHANGED <<mode, started, server, result, gaveUp, handler, signalled>>
      /\ Parts' = Parts
  BY DEF CloseOutput, innerVars, closeVars, worldVars, Parts
<1>2. /\ order \in Orders /\ part \in [Parts -> {"up", "ended"}] /\ partClosed \in [Parts -> BOOLEAN]
  BY DEF LInv, IInv, TypeOK
<1>3. order[1] \in Parts /\ started = {order[1]} /\ \A p \in Parts : ~partClosed[p]
  BY <1>1, <1>2, PartsAre DEF LInv, Starting
<1>4. part' \in [Parts -> {"up", "ended"}] /\ partClosed' \in [Parts -> BOOLEAN]
  BY <1>1, <1>2
<1>5. \A p \in Parts : /\ part[p] = "ended" => part'[p] = "ended"
                       /\ partClosed[p] => partClosed'[p]
                       /\ partClosed'[p] <=> p \in started
  BY <1>1, <1>2, <1>3
<1>6. IInv'
  <2>1. TypeOK'
    BY <1>1, <1>4 DEF LInv, IInv, TypeOK
  <2>2. Passed'
    <3>1. \A i \in 1..Len(order) : i < at => partClosed'[order[i]]
      <4>1. TAKE i \in 1..Len(order)
      <4>2. order[i] \in Parts
        BY <1>2, OrderIsSeq
      <4>3. QED
        BY <1>5, <4>2 DEF LInv, IInv, Passed
    <3>2. QED
      BY <1>1, <3>1 DEF LInv, IInv, Passed
  <2>3. Noted'
    BY <1>1, <1>5 DEF LInv, IInv, Noted
  <2>4. QED
    BY <2>1, <2>2, <2>3 DEF IInv
<1>7. ServeTypeOK'
  BY <1>1, <1>6 DEF LInv, ServeTypeOK, IInv
<1>8. Configuring' /\ Starting' /\ ClosingTurn'
  BY <1>1, <1>5 DEF LInv, Configuring, Starting, ClosingTurn
<1>9. Busy' = Busy
  BY <1>1 DEF Busy
<1>10. Serving'
  BY <1>1, <1>9 DEF LInv, Serving
<1>11. Ended'
  BY <1>1, <1>5 DEF LInv, Ended
<1>12. Told'
  BY <1>1 DEF LInv, Told, ResultHonest, GivingUpShows, SuccessExplained
<1>13. QED
  BY <1>6, <1>7, <1>8, <1>10, <1>11, <1>12 DEF LInv

LEMMA AbortOpenInv ==
  ASSUME LInv, Abort \/ (\E ok \in BOOLEAN : Open(ok)), stage' = "running"
  PROVE  LInv'
<1>1. UNCHANGED <<vars, mode, started, gaveUp, handler, signalled>>
  BY DEF Abort, Open, worldVars
<1>2. /\ IInv' /\ Parts' = Parts /\ order \in Orders
      /\ UNCHANGED <<order, part, partErr, partClosed, watch, done, err, once, at, caller>>
  BY <1>1, StillComposite
<1>3. \/ main = "failed" /\ main' = "exited" /\ result' = "error" /\ UNCHANGED server
      \/ main = "open" /\ main' = "select" /\ server' = "on" /\ UNCHANGED result
      \/ main = "open" /\ main' = "closing" /\ result' = "error" /\ UNCHANGED server
  BY DEF Abort, Open
<1>4. ServeTypeOK'
  BY <1>1, <1>2, <1>3 DEF LInv, ServeTypeOK, IInv
<1>5. Configuring' /\ Starting' /\ ClosingTurn'
  BY <1>1, <1>2, <1>3 DEF LInv, Configuring, Starting, ClosingTurn
<1>6. Busy' = Busy
  BY <1>1 DEF Busy
<1>7. Serving'
  BY <1>1, <1>3, <1>6 DEF LInv, Serving
<1>8. Ended'
  BY <1>2, <1>3 DEF LInv, Ended
<1>9. Told'
  BY <1>1, <1>2, <1>3 DEF LInv, Told, Serving, ResultHonest, GivingUpShows, SuccessExplained
<1>10. QED
  BY <1>2, <1>4, <1>5, <1>7, <1>8, <1>9 DEF LInv

------------------------------------------------------------------------------
(* The world *)

LEMMA RequestInv ==
  ASSUME LInv, NEW r \in Requests, Arrive(r) \/ Answer(r), stage' = "running"
  PROVE  LInv'
<1>1. UNCHANGED <<vars, mode, started, main, server, result, gaveUp, signalled>>
  BY DEF Arrive, Answer, procVars
<1>2. /\ IInv' /\ Parts' = Parts
      /\ UNCHANGED <<order, part, partErr, partClosed, watch, done, err, once, at, caller>>
  BY <1>1, StillComposite
<1>3. handler' \in [Requests -> {"none", "running", "answered"}] /\ main # "exited"
  BY DEF LInv, ServeTypeOK, Arrive, Answer
<1>4. ServeTypeOK'
  BY <1>1, <1>2, <1>3 DEF LInv, ServeTypeOK, IInv
<1>5. Configuring' /\ Starting' /\ ClosingTurn'
  <2>1. stage \in {"refused", "running"} \/ main = "output"
    BY DEF LInv, Configuring
  <2>2. QED
    BY <1>1, <1>2, <1>3, <2>1 DEF LInv, Configuring, Starting, ClosingTurn
<1>6. Busy' => Busy \/ server = "on"
  <2>1. CASE Arrive(r)
    BY <2>1 DEF Arrive
  <2>2. CASE Answer(r)
    <3>1. \A q \in Requests : handler'[q] = "running" => handler[q] = "running"
      BY <2>2 DEF LInv, ServeTypeOK, Answer
    <3>2. QED
      BY <3>1 DEF Busy
  <2>3. QED
    BY <2>1, <2>2
<1>7. Serving'
  BY <1>1, <1>6 DEF LInv, Serving
<1>8. Ended'
  BY <1>1, <1>2 DEF LInv, Ended
<1>9. Told'
  BY <1>1, <1>2 DEF LInv, Told, ResultHonest, GivingUpShows, SuccessExplained
<1>10. QED
  BY <1>2, <1>4, <1>5, <1>7, <1>8, <1>9 DEF LInv

LEMMA WorldInv ==
  ASSUME LInv, Signal \/ ListenFails \/ HangUp, stage' = "running"
  PROVE  LInv'
<1>1. UNCHANGED <<vars, mode, started, main, result, gaveUp, handler>>
  BY DEF Signal, ListenFails, HangUp, procVars, worldVars
<1>2. /\ IInv' /\ Parts' = Parts
      /\ UNCHANGED <<order, part, partErr, partClosed, watch, done, err, once, at, caller>>
  BY <1>1, StillComposite
<1>3. /\ signalled' \in BOOLEAN /\ (signalled => signalled')
      /\ \/ UNCHANGED server
         \/ server = "on" /\ mode = "serve" /\ server' = "failed"
         \/ server = "on" /\ mode \in {"mount", "mcp"} /\ (mode = "mount" => ~Busy) /\ server' = "hungup"
  BY DEF LInv, ServeTypeOK, Signal, ListenFails, HangUp, procVars, worldVars
<1>4. ServeTypeOK'
  BY <1>1, <1>2, <1>3 DEF LInv, ServeTypeOK, IInv
<1>5. Configuring' /\ Starting' /\ ClosingTurn'
  BY <1>1, <1>2 DEF LInv, Configuring, Starting, ClosingTurn
<1>6. Busy' = Busy
  BY <1>1 DEF Busy
<1>7. Serving'
  BY <1>1, <1>3, <1>6 DEF LInv, Serving
<1>8. Ended'
  BY <1>1, <1>2 DEF LInv, Ended
<1>9. Told'
  BY <1>1, <1>2, <1>3 DEF LInv, Told, ResultHonest, GivingUpShows, SuccessExplained
<1>10. QED
  BY <1>2, <1>4, <1>5, <1>7, <1>8, <1>9 DEF LInv

------------------------------------------------------------------------------
(* What ends serving *)

\* Who is told to end finds the composite as nobody has closed it.
LEMMA NotClosedYet ==
  ASSUME LInv, main \in {"select", "stopping"}
  PROVE  once = "fresh" /\ caller[Main] = "idle"
BY DEF LInv, ClosingTurn

\* A composite that has ended and has no error has lost a part that had none.
LEMMA EndedWithout ==
  ASSUME LInv, main = "select", done, Err = {}
  PROVE  \E p \in Parts : part[p] = "ended" /\ ~partErr[p]
<1>1. PICK p \in Parts : part[p] = "ended"
  BY NotClosedYet DEF LInv, Ended
<1>2. {q \in Parts : partErr[q]} = {}
  BY DEF Err
<1>3. QED
  BY <1>1, <1>2

LEMMA SelectInv ==
  ASSUME LInv, SelectServer \/ SelectSignal \/ SelectEnd, stage' = "running"
  PROVE  LInv'
<1>1. UNCHANGED <<vars, mode, started, server, handler, signalled>> /\ main = "select"
  BY DEF SelectServer, SelectSignal, SelectEnd, worldVars
<1>2. /\ IInv' /\ Parts' = Parts
      /\ UNCHANGED <<order, part, partErr, partClosed, watch, done, err, once, at, caller>>
  BY <1>1, StillComposite
<1>3. /\ result' \in {"ok", "error"} /\ gaveUp' \in BOOLEAN
      /\ \/ main' = "closing" /\ gaveUp' = Busy /\ server \in {"failed", "hungup"}
         \/ main' = "stopping" /\ UNCHANGED gaveUp
  BY DEF SelectServer, SelectSignal, SelectEnd, Answers, Busy, LInv, ServeTypeOK
<1>4. ~gaveUp /\ once = "fresh" /\ mode \in {"serve", "mount", "mcp"}
  BY <1>1, NotClosedYet, ModeAssumption DEF LInv, Serving, ServeTypeOK
<1>5. ServeTypeOK'
  BY <1>1, <1>2, <1>3 DEF LInv, ServeTypeOK, IInv
<1>6. Configuring' /\ Starting' /\ ClosingTurn'
  BY <1>1, <1>2, <1>3 DEF LInv, Configuring, Starting, ClosingTurn
<1>7. Busy' = Busy
  BY <1>1 DEF Busy
<1>8. Serving'
  BY <1>1, <1>3, <1>7 DEF LInv, Serving
<1>9. Ended'
  BY <1>1, <1>2, <1>3 DEF LInv, Ended
<1>10. main' = "stopping" /\ result' = "ok"
         => signalled \/ \E p \in Parts : part[p] = "ended" /\ ~partErr[p]
  <2>1. CASE SelectSignal
    BY <2>1 DEF SelectSignal
  <2>2. CASE SelectEnd
    BY <2>2, EndedWithout DEF SelectEnd
  <2>3. CASE SelectServer
    BY <2>3 DEF SelectServer
  <2>4. QED
    BY <2>1, <2>2, <2>3
<1>11. GivingUpShows'
  <2>1. CASE SelectServer
    <3>1. Busy /\ mode # "mcp" => server = "failed"
      BY <1>4, <2>1 DEF LInv, Serving, SelectServer
    <3>2. server = "failed" /\ mode # "mcp" => result' = "error"
      BY <2>1 DEF SelectServer, Answers
    <3>3. QED
      BY <1>1, <2>1, <3>1, <3>2 DEF GivingUpShows, SelectServer
  <2>2. CASE UNCHANGED gaveUp
    BY <1>4, <2>2 DEF GivingUpShows
  <2>3. QED
    BY <2>1, <2>2 DEF SelectSignal, SelectEnd
<1>12. SuccessExplained'
  <2>1. CASE SelectServer
    <3>1. result' = "ok" => server = "hungup"
      <4>1. server = "failed" => result' = "error"
        BY <1>4, <2>1 DEF LInv, Serving, SelectServer, Answers
      <4>2. QED
        BY <2>1, <4>1 DEF SelectServer
    <3>2. QED
      BY <1>1, <2>1, <3>1 DEF SuccessExplained
  <2>2. CASE main' = "stopping"
    BY <1>1, <1>2, <1>10, <2>2 DEF SuccessExplained
  <2>3. QED
    BY <2>1, <2>2 DEF SelectSignal, SelectEnd
<1>13. Told'
  BY <1>1, <1>2, <1>3, <1>10, <1>11, <1>12 DEF Told, ResultHonest
<1>14. QED
  BY <1>2, <1>5, <1>6, <1>8, <1>9, <1>13 DEF LInv

LEMMA StopInv ==
  ASSUME LInv, StopServing \/ Stopped \/ NotStopped, stage' = "running"
  PROVE  LInv'
<1>1. UNCHANGED <<vars, mode, started, handler, signalled>> /\ main = "stopping"
  BY DEF StopServing, Stopped, NotStopped, worldVars
<1>2. /\ IInv' /\ Parts' = Parts
      /\ UNCHANGED <<order, part, partErr, partClosed, watch, done, err, once, at, caller>>
  BY <1>1, StillComposite
<1>3. ~gaveUp /\ once = "fresh"
  BY <1>1, NotClosedYet DEF LInv, Serving
<1>4. \/ main' = "stopping" /\ server' = "down" /\ UNCHANGED <<result, gaveUp>>
      \/ /\ main' = "closing" /\ server = "down" /\ gaveUp' = Busy /\ (mode # "mcp" => ~Busy)
         /\ UNCHANGED <<server, result>>
      \/ main' = "closing" /\ gaveUp' = TRUE /\ result' = "error" /\ UNCHANGED server
  BY <1>1 DEF StopServing, Stopped, NotStopped
<1>5. gaveUp' \in BOOLEAN /\ server' \in {"off", "on", "failed", "hungup", "down"}
  BY <1>4 DEF LInv, ServeTypeOK, Busy
<1>6. ServeTypeOK'
  BY <1>1, <1>2, <1>4, <1>5 DEF LInv, ServeTypeOK, IInv
<1>7. Configuring' /\ Starting' /\ ClosingTurn'
  BY <1>1, <1>2, <1>4 DEF LInv, Configuring, Starting, ClosingTurn
<1>8. Busy' = Busy
  BY <1>1 DEF Busy
<1>9. Serving'
  BY <1>1, <1>3, <1>4, <1>8 DEF LInv, Serving
<1>10. Ended'
  BY <1>1, <1>2, <1>4 DEF LInv, Ended
<1>11. Told'
  <2>1. main' \in {"stopping", "closing"} /\ result' = "ok"
          => signalled \/ \E p \in Parts : part[p] = "ended" /\ ~partErr[p]
    BY <1>1, <1>4 DEF LInv, Told
  <2>2. GivingUpShows'
    BY <1>1, <1>3, <1>4 DEF GivingUpShows
  <2>3. result' # "none"
    BY <1>1, <1>4 DEF LInv, Told
  <2>4. QED
    BY <1>1, <1>2, <2>1, <2>2, <2>3 DEF Told, ResultHonest, SuccessExplained
<1>12. QED
  BY <1>2, <1>6, <1>7, <1>9, <1>10, <1>11 DEF LInv

------------------------------------------------------------------------------
(* Closing the composite *)

\* What Told says of the parts goes on holding as long as Close has not begun.
LEMMA CloseInv ==
  ASSUME LInv, CloseComponent \/ Closing, UNCHANGED order, stage' = "running"
  PROVE  LInv'
<1>1. UNCHANGED <<mode, main, started, server, result, gaveUp, handler, signalled, order>> /\ Parts' = Parts
  BY DEF CloseComponent, Closing, serveVars, procVars, worldVars, Parts
<1>2. /\ TypeOK /\ Main \in Callers /\ \A c \in Callers : c = Main
      /\ caller \in [Callers -> {"idle", "entering", "closing", "leaving", "returned"}]
      /\ Main \notin {"fresh", "spent"}
  BY MainAssumption, CallerAssumption DEF LInv, IInv, TypeOK
<1>3. IInv'
  <2>1. CallClose(Main) \/ InClose(Main)
    BY DEF CloseComponent, Closing
  <2>2. Next
    BY <1>1, <1>2, <2>1 DEF Next
  <2>3. QED
    BY <2>2, NextInv DEF LInv
<1>4. main = "closing"
  <2>1. CASE CloseComponent
    BY <2>1 DEF CloseComponent
  <2>2. CASE Closing
    <3>1. caller[Main] \in {"entering", "closing", "leaving"}
      BY <2>2 DEF Closing, InClose, Enter, ClosePart, CloseDone, Leave
    <3>2. QED
      BY <3>1 DEF LInv, ClosingTurn
  <2>3. QED
    BY <2>1, <2>2
<1>5. ServeTypeOK'
  BY <1>1, <1>3 DEF LInv, ServeTypeOK, IInv
<1>6. Configuring' /\ Starting'
  BY <1>1, <1>4 DEF LInv, Configuring, Starting
<1>7. ClosingTurn'
  <2>1. /\ caller'[Main] \in {"idle", "entering"} => caller[Main] \in {"idle", "entering"} /\ UNCHANGED once
        /\ caller'[Main] = "closing" => once' = Main \/ (caller[Main] = "closing" /\ UNCHANGED once)
    BY <1>2 DEF CloseComponent, Closing, CallClose, InClose, Enter, ClosePart, CloseDone, Leave
  <2>2. QED
    BY <1>1, <1>4, <2>1 DEF LInv, ClosingTurn
<1>8. Busy' = Busy
  BY <1>1 DEF Busy
<1>9. Serving'
  BY <1>1, <1>8 DEF LInv, Serving
<1>10. once' = "fresh" => once = "fresh" /\ UNCHANGED <<part, partErr, done>>
  <2>1. once = "fresh" => caller[Main] # "closing"
    <3>1. caller[Main] = "closing" => once # "fresh"
      BY <1>2 DEF LInv, ClosingTurn
    <3>2. QED
      BY <3>1
  <2>2. QED
    BY <1>2, <2>1 DEF CloseComponent, Closing, CallClose, InClose, Enter, ClosePart, CloseDone, Leave,
       partVars, innerVars
<1>11. Ended'
  BY <1>1, <1>10 DEF LInv, Ended
<1>12. Told'
  BY <1>1, <1>4, <1>10 DEF LInv, Told, ResultHonest, GivingUpShows, SuccessExplained
<1>13. QED
  BY <1>3, <1>5, <1>6, <1>7, <1>9, <1>11, <1>12 DEF LInv

LEMMA ExitInv ==
  ASSUME LInv, Exit, stage' = "running"
  PROVE  LInv'
<1>1. /\ UNCHANGED <<vars, mode, started, server, result, gaveUp, handler, signalled>>
      /\ main = "closing" /\ caller[Main] = "returned" /\ main' = "exited"
  BY DEF Exit, worldVars
<1>2. /\ IInv' /\ Parts' = Parts /\ order \in Orders
      /\ UNCHANGED <<order, part, partErr, partClosed, watch, done, err, once, at, caller>>
  BY <1>1, StillComposite
<1>3. \A p \in Parts : partClosed[p]
  <2>1. at > Len(order) /\ \A i \in 1..Len(order) : i < at => partClosed[order[i]]
    BY <1>1, MainAssumption DEF LInv, IInv, Passed
  <2>2. at \in 1..Len(order) + 1 /\ Len(order) \in Nat /\ Parts = {order[i] : i \in 1..Len(order)}
    BY <1>2, OrderIsSeq DEF LInv, IInv, TypeOK
  <2>3. QED
    BY <2>1, <2>2
<1>4. ServeTypeOK'
  BY <1>1, <1>2 DEF LInv, ServeTypeOK, IInv, Told
<1>5. Configuring' /\ Starting' /\ ClosingTurn'
  BY <1>1, <1>2, <1>3 DEF LInv, Configuring, Starting, ClosingTurn
<1>6. Busy' = Busy
  BY <1>1 DEF Busy
<1>7. Serving'
  BY <1>1, <1>6 DEF LInv, Serving
<1>8. Ended'
  BY <1>1, <1>2 DEF LInv, Ended
<1>9. Told'
  BY <1>1, <1>2 DEF LInv, Told, ResultHonest, GivingUpShows, SuccessExplained
<1>10. QED
  BY <1>2, <1>4, <1>5, <1>7, <1>8, <1>9 DEF LInv

------------------------------------------------------------------------------
(* The backends *)

LEMMA BackendsInv ==
  ASSUME LInv, Backends, UNCHANGED order, stage' = "running"
  PROVE  LInv'
<1>1. /\ UNCHANGED <<mode, main, started, server, result, gaveUp, handler, signalled, order>>
      /\ Parts' = Parts /\ main # "exited"
  BY DEF Backends, serveVars, procVars, worldVars, Parts
<1>2. PICK p \in Parts : PartFails(p) \/ PartRecovers(p) \/ PartEnds(p) \/ (Made /\ Watch(p))
  BY DEF Backends, LInv, ServeTypeOK
<1>3. /\ part \in [Parts -> {"up", "ended"}] /\ partErr \in [Parts -> BOOLEAN]
      /\ watch \in [Parts -> {"waiting", "noted", "gone"}]
  BY DEF LInv, IInv, TypeOK
<1>4. IInv'
  BY <1>1, <1>2, PartStep, WatchStep DEF LInv
<1>5. UNCHANGED <<partClosed, once, at, caller>>
  BY <1>2 DEF PartFails, PartRecovers, PartEnds, Watch, WatchErr, WatchDone, partVars, closeVars
<1>6. /\ \A q \in Parts : part[q] = "ended" => part'[q] = "ended"
      /\ \A q \in Parts : part'[q] = "ended" => part[q] = "ended" \/ q \notin Local
      /\ done' => done \/ \E q \in Parts : part[q] = "ended"
  <2>1. CASE PartFails(p) \/ PartRecovers(p)
    BY <2>1 DEF PartFails, PartRecovers, innerVars
  <2>2. CASE PartEnds(p)
    BY <1>3, <2>2 DEF PartEnds, innerVars
  <2>3. CASE Watch(p)
    <3>1. UNCHANGED part
      BY <2>3 DEF Watch, WatchErr, WatchDone, partVars
    <3>2. WatchDone(p) => part[p] = "ended"
      BY DEF LInv, IInv, Noted, WatchDone
    <3>3. WatchErr(p) => UNCHANGED done
      BY DEF WatchErr
    <3>4. QED
      BY <2>3, <3>1, <3>2, <3>3 DEF Watch
  <2>4. QED
    BY <1>2, <2>1, <2>2, <2>3
<1>7. \A q \in Parts : part[q] = "ended" /\ q \notin Local /\ ~partErr[q] => ~partErr'[q]
  <2>1. CASE PartFails(p)
    BY <1>3, <2>1 DEF PartFails
  <2>2. CASE PartRecovers(p)
    BY <1>3, <2>2 DEF PartRecovers
  <2>3. CASE PartEnds(p) \/ Watch(p)
    BY <2>3 DEF PartEnds, Watch, WatchErr, WatchDone, partVars
  <2>4. QED
    BY <1>2, <2>1, <2>2, <2>3
<1>8. ServeTypeOK'
  BY <1>1, <1>4 DEF LInv, ServeTypeOK, IInv
<1>9. Configuring' /\ Starting' /\ ClosingTurn'
  BY <1>1, <1>5 DEF LInv, Configuring, Starting, ClosingTurn
<1>10. Busy' = Busy
  BY <1>1 DEF Busy
<1>11. Serving'
  BY <1>1, <1>10 DEF LInv, Serving
<1>12. Ended'
  BY <1>1, <1>5, <1>6 DEF LInv, Ended
<1>13. Told'
  <2>1. once = "fresh" /\ main \in {"stopping", "closing"}
          /\ (\E q \in Parts : part[q] = "ended" /\ ~partErr[q])
          => \E q \in Parts : part'[q] = "ended" /\ ~partErr'[q]
    <3>1. HAVE once = "fresh" /\ main \in {"stopping", "closing"}
               /\ \E q \in Parts : part[q] = "ended" /\ ~partErr[q]
    <3>2. PICK q \in Parts : part[q] = "ended" /\ ~partErr[q]
      BY <3>1
    <3>3. q \notin Local
      BY <3>1, <3>2 DEF LInv, Ended
    <3>4. QED
      BY <1>6, <1>7, <3>2, <3>3
  <2>2. main = "stopping" => once = "fresh"
    BY NotClosedYet
  <2>3. QED
    BY <1>1, <1>5, <2>1, <2>2 DEF LInv, Told, ResultHonest, GivingUpShows, SuccessExplained
<1>14. QED
  BY <1>4, <1>8, <1>9, <1>11, <1>12, <1>13 DEF LInv

------------------------------------------------------------------------------
LEMMA LaunchNextInv == LInv /\ [LaunchNext]_launchVars => LInv'
<1>1. SUFFICES ASSUME LInv, [LaunchNext]_launchVars PROVE LInv'
  OBVIOUS
<1>2. CASE Configure
  BY <1>1, <1>2, ConfigureInv
<1>3. CASE stage = "running" /\ ServeNext /\ UNCHANGED configVars
  <2>1. stage' = "running" /\ UNCHANGED order
    BY <1>3 DEF configVars, ServeNext
  <2>2. CASE Command
    BY <1>1, <2>1, <2>2, StartInv, CloseOutputInv, AbortOpenInv, SelectInv, StopInv, CloseInv, ExitInv
       DEF Command
  <2>3. CASE Backends
    BY <1>1, <2>1, <2>3, BackendsInv
  <2>4. CASE World
    BY <1>1, <2>1, <2>4, RequestInv, WorldInv DEF World
  <2>5. QED
    BY <1>3, <2>2, <2>3, <2>4 DEF ServeNext
<1>4. CASE UNCHANGED launchVars
  <2>1. UNCHANGED <<vars, mode, started, main, server, result, gaveUp, handler, signalled, stage>>
    BY <1>4 DEF launchVars, allVars, serveVars, procVars, worldVars, configVars
  <2>2. /\ IInv' /\ Parts' = Parts
        /\ UNCHANGED <<order, part, partErr, partClosed, watch, done, err, once, at, caller>>
    BY <1>1, <2>1, StillComposite
  <2>3. ServeTypeOK' /\ Configuring' /\ Starting' /\ ClosingTurn'
    BY <1>1, <2>1, <2>2 DEF LInv, IInv, ServeTypeOK, Configuring, Starting, ClosingTurn
  <2>4. Serving' /\ Ended'
    BY <1>1, <2>1, <2>2 DEF LInv, Serving, Ended, Busy
  <2>5. Told'
    BY <1>1, <2>1, <2>2 DEF LInv, Told, ResultHonest, GivingUpShows, SuccessExplained
  <2>6. QED
    BY <2>2, <2>3, <2>4, <2>5 DEF LInv
<1>5. QED
  BY <1>1, <1>2, <1>3, <1>4 DEF LaunchNext

\* LaunchInductive: how far the command has come tells what has been started,
\* who may close the composite, and who may still be working on a request
\* (servercmd/command.go, 220-871).
THEOREM LaunchInductive == LaunchSpec => []LInv
<1>1. QED
  BY LaunchInitInv, LaunchNextInv, PTL DEF LaunchSpec

\* ServeTyped: the variables have their types, and no command is over without
\* a result (servercmd/command.go, 813-885).
THEOREM ServeTyped == LaunchSpec => []ServeTypeOK
<1>1. LInv => ServeTypeOK
  BY DEF LInv
<1>2. QED
  BY <1>1, LaunchInductive, PTL

\* EveryBackendClosed: on every way out of the process just the backends that
\* were started have been closed (servercmd/command.go, 887-956).
THEOREM EveryBackendClosed == LaunchSpec => []NoBackendLeft
<1>1. LInv => NoBackendLeft
  BY DEF LInv, Starting, NoBackendLeft
<1>2. QED
  BY <1>1, LaunchInductive, PTL

\* ClosedUnderNoRequest: a backend is closed under a request only when
\* waiting for that request has been given up (servercmd/command.go, 813-871).
THEOREM ClosedUnderNoRequest == LaunchSpec => []ClosedWhileIdle
<1>1. LInv => ClosedWhileIdle
  <2>1. SUFFICES ASSUME LInv, NEW p \in Parts, partClosed[p], main # "exited", Busy PROVE gaveUp
    BY DEF ClosedWhileIdle
  <2>2. main \in {"failed", "closing"}
    BY <2>1 DEF LInv, Starting
  <2>3. QED
    BY <2>1, <2>2 DEF LInv, Serving
<1>2. QED
  BY <1>1, LaunchInductive, PTL

\* ResultsHonest: a command that gives something up says so, and one that
\* succeeds was told to stop, was left by its users, or lost a backend that
\* had no error (servercmd/command.go, 813-885).
THEOREM ResultsHonest == LaunchSpec => []ResultHonest
<1>1. LInv => ResultHonest
  BY DEF LInv, Told
<1>2. QED
  BY <1>1, LaunchInductive, PTL

------------------------------------------------------------------------------
(* The induction that the natural numbers give *)

LEMMA LeastNatural ==
  ASSUME NEW T, T \subseteq Nat, T # {}
  PROVE  \E n \in T : \A m \in T : n <= m
<1>1. DEFINE Less == OpToRel(<, Nat)
<1>2. \A m, n \in Nat : m < n => <<m, n>> \in Less
  BY DEF OpToRel
<1>3. IsWellFoundedOn(Less, Nat)
  BY NatLessThanWellFounded
<1>4. HIDE DEF Less
<1>5. PICK n \in T : \A m \in T : ~(<<m, n>> \in Less)
  BY <1>3, WFMin
<1>6. ASSUME NEW m \in T PROVE n <= m
  <2>1. m \in Nat /\ n \in Nat /\ ~(<<m, n>> \in Less)
    BY <1>5, <1>6
  <2>2. ~(m < n)
    BY <2>1, <1>2
  <2>3. QED
    BY <2>1, <2>2
<1>7. QED
  BY <1>6

LEMMA SetInduction ==
  ASSUME NEW S, 0 \in S, \A n \in Nat : n \in S => n + 1 \in S
  PROVE  Nat \subseteq S
<1>1. SUFFICES ASSUME Nat \ S # {} PROVE FALSE
  OBVIOUS
<1>2. PICK n \in Nat \ S : \A m \in Nat \ S : n <= m
  <2>1. Nat \ S \subseteq Nat
    OBVIOUS
  <2>2. QED
    BY <1>1, <2>1, LeastNatural
<1>3. n # 0 /\ n - 1 \in Nat
  BY <1>2
<1>4. n - 1 \in S
  BY <1>2, <1>3
<1>5. QED
  BY <1>2, <1>3, <1>4

\* A bounded set of positive numbers has a greatest one.
LEMMA MaxIsGreatest ==
  ASSUME NEW n \in Nat, NEW T \in SUBSET (1..n), T # {}
  PROVE  Max(T) \in T /\ \A i \in T : Max(T) >= i
<1>1. DEFINE Gaps == {n - i : i \in T}
<1>2. Gaps \subseteq Nat /\ Gaps # {}
  <2>1. \A i \in T : i \in 1..n /\ n - i \in Nat
    OBVIOUS
  <2>2. QED
    BY <2>1
<1>3. PICK gap \in Gaps : \A g \in Gaps : gap <= g
  <2>1. HIDE DEF Gaps
  <2>2. QED
    BY <1>2, LeastNatural
<1>4. PICK i \in T : gap = n - i
  OBVIOUS
<1>5. \A j \in T : i >= j
  <2>1. TAKE j \in T
  <2>2. n - i <= n - j
    BY <1>3, <1>4
  <2>3. QED
    BY <2>2
<1>6. QED
  BY <1>5 DEF Max

------------------------------------------------------------------------------
(* The last source that sets a value *)

\* One source more.
LEMMA LastSetNext ==
  ASSUME NEW n \in Nat, NEW s, NEW t, NEW unset,
         DOMAIN s = 1..n, Len(s) = n, DOMAIN t = 1..n + 1, Len(t) = n + 1,
         \A i \in 1..n : t[i] = s[i]
  PROVE  LastSet(t, unset) = IF t[n + 1] # unset THEN t[n + 1] ELSE LastSet(s, unset)
<1>1. DEFINE sets == {i \in 1..n : s[i] # unset}
             sett == {i \in 1..n + 1 : t[i] # unset}
<1>2. /\ LastSet(s, unset) = IF sets = {} THEN unset ELSE s[Max(sets)]
      /\ LastSet(t, unset) = IF sett = {} THEN unset ELSE t[Max(sett)]
  BY DEF LastSet
<1>3. CASE t[n + 1] # unset
  <2>1. n + 1 \in sett /\ sett \in SUBSET (1..n + 1)
    BY <1>3
  <2>2. Max(sett) \in 1..n + 1 /\ Max(sett) >= n + 1
    <3>1. HIDE DEF sett
    <3>2. n + 1 \in Nat /\ sett # {}
      BY <2>1
    <3>3. QED
      BY <2>1, <3>2, MaxIsGreatest
  <2>3. Max(sett) = n + 1 /\ sett # {}
    BY <2>1, <2>2
  <2>4. QED
    BY <1>2, <1>3, <2>3
<1>4. CASE t[n + 1] = unset
  <2>1. sett = sets
    <3>1. \A i \in 1..n + 1 : i \in 1..n \/ i = n + 1
      OBVIOUS
    <3>2. QED
      BY <1>4, <3>1
  <2>2. CASE sets = {}
    BY <1>2, <1>4, <2>1, <2>2
  <2>3. CASE sets # {}
    <3>1. Max(sets) \in sets
      <4>1. sets \in SUBSET (1..n)
        OBVIOUS
      <4>2. HIDE DEF sets
      <4>3. QED
        BY <2>3, <4>1, MaxIsGreatest
    <3>2. t[Max(sets)] = s[Max(sets)]
      BY <3>1
    <3>3. HIDE DEF sets, sett
    <3>4. QED
      BY <1>2, <1>4, <2>1, <2>3, <3>2
  <2>4. QED
    BY <2>2, <2>3
<1>5. QED
  BY <1>3, <1>4

\* No source.
LEMMA LastSetNone ==
  ASSUME NEW s, NEW unset, Len(s) = 0
  PROVE  LastSet(s, unset) = unset
BY DEF LastSet

------------------------------------------------------------------------------
(* What Extension computes *)

\* A function with the equation of Extension, for the first n presets of b.
Extends(b, n, f) ==
  f = [i \in 0..n |-> IF i = 0 THEN Backend(<<>>, <<>>, <<>>)
                      ELSE Merge(f[i - 1], Preset[PresetName(b.extends[i])])]

LEMMA ExtensionExists ==
  ASSUME NEW b, NEW n \in Nat
  PROVE  \E f : Extends(b, n, f)
<1>1. DEFINE S == {m \in Nat : \E f : Extends(b, m, f)}
<1>2. 0 \in S
  <2>1. Extends(b, 0, [i \in 0..0 |-> Backend(<<>>, <<>>, <<>>)])
    <3>1. \A i \in 0..0 : i = 0
      OBVIOUS
    <3>2. QED
      BY <3>1 DEF Extends
  <2>2. QED
    BY <2>1
<1>3. ASSUME NEW m \in Nat, m \in S PROVE m + 1 \in S
  <2>1. PICK f : Extends(b, m, f)
    BY <1>3
  <2>2. DEFINE P(i) == Preset[PresetName(b.extends[i])]
               B0   == Backend(<<>>, <<>>, <<>>)
               g    == [i \in 0..m + 1 |-> IF i = m + 1 THEN Merge(f[m], P(m + 1)) ELSE f[i]]
  <2>3. f = [i \in 0..m |-> IF i = 0 THEN B0 ELSE Merge(f[i - 1], P(i))]
    BY <2>1 DEF Extends
  <2>4. HIDE DEF P, B0
  <2>5. \A i \in 0..m + 1 : g[i] = IF i = 0 THEN B0 ELSE Merge(g[i - 1], P(i))
    <3>1. TAKE i \in 0..m + 1
    <3>2. CASE i = m + 1
      <4>1. i # 0 /\ i - 1 = m /\ m \in 0..m + 1 /\ m # m + 1
        BY <3>2
      <4>2. g[i - 1] = f[m] /\ g[i] = Merge(f[m], P(m + 1))
        BY <3>2, <4>1
      <4>3. QED
        BY <3>2, <4>1, <4>2
    <3>3. CASE i = 0
      <4>1. g[0] = f[0] /\ f[0] = B0
        BY <2>3
      <4>2. QED
        BY <3>3, <4>1
    <3>4. CASE i # m + 1 /\ i # 0
      <4>1. i \in 0..m /\ i - 1 \in 0..m
        BY <3>4
      <4>2. g[i] = f[i] /\ g[i - 1] = f[i - 1]
        BY <4>1
      <4>3. f[i] = Merge(f[i - 1], P(i))
        BY <2>3, <3>4, <4>1
      <4>4. HIDE DEF g
      <4>5. QED
        BY <3>4, <4>2, <4>3
    <3>5. QED
      BY <3>2, <3>3, <3>4
  <2>6. g = [i \in 0..m + 1 |-> IF i = 0 THEN B0 ELSE Merge(g[i - 1], P(i))]
    <3>1. g = [i \in 0..m + 1 |-> g[i]]
      OBVIOUS
    <3>2. HIDE DEF g
    <3>3. QED
      BY <2>5, <3>1
  <2>7. Extends(b, m + 1, g)
    <3>1. HIDE DEF g
    <3>2. QED
      BY <2>6 DEF Extends, P, B0
  <2>8. QED
    BY <2>7
<1>4. Nat \subseteq S
  <2>1. HIDE DEF S
  <2>2. QED
    BY <1>2, <1>3, SetInduction
<1>5. QED
  BY <1>4

\* Extension begins with nothing and takes one preset after the other.
LEMMA ExtensionEquation ==
  ASSUME NEW b, Len(b.extends) \in Nat
  PROVE  Extends(b, Len(b.extends), Extension(b))
<1>1. Extension(b) = CHOOSE f : Extends(b, Len(b.extends), f)
  BY DEF Extension, Extends
<1>2. QED
  BY <1>1, ExtensionExists

LEMMA NothingSet ==
  LET none == Backend(<<>>, <<>>, <<>>)
  IN /\ \A f \in Fields : none.field[f] = NotSet(f)
     /\ \A s \in Specs : none.spec[s] = NoSpec
<1>1. DOMAIN <<>> = {}
  OBVIOUS
<1>2. \A f \in Fields : Backend(<<>>, <<>>, <<>>).field[f] = NotSet(f)
  BY <1>1 DEF Backend, Over
<1>3. Over(<<>>, NoSpec) = NoSpec
  <2>1. Over(<<>>, NoSpec) = [k \in DOMAIN NoSpec |-> NoSpec[k]]
    BY <1>1 DEF Over
  <2>2. NoSpec = [k \in DOMAIN NoSpec |-> NoSpec[k]]
    BY DEF NoSpec
  <2>3. QED
    BY <2>1, <2>2
<1>4. \A s \in Specs : Backend(<<>>, <<>>, <<>>).spec[s] = NoSpec
  <2>1. \A s \in Specs : Backend(<<>>, <<>>, <<>>).spec[s] = Over(Saying(<<>>, s), NoSpec)
    BY DEF Backend
  <2>2. \A s : Saying(<<>>, s) = <<>>
    BY <1>1 DEF Saying
  <2>3. QED
    BY <1>3, <2>1, <2>2
<1>5. QED
  BY <1>2, <1>4

\* The equation of Extension, value by value.
LEMMA ExtensionStep ==
  ASSUME NEW b, Len(b.extends) \in Nat
  PROVE  LET merged == Extension(b)
             preset(i) == Preset[PresetName(b.extends[i])]
         IN /\ merged[0] = Backend(<<>>, <<>>, <<>>)
            /\ \A i \in Nat : i + 1 <= Len(b.extends) =>
                 merged[i + 1] = Merge(merged[i], preset(i + 1))
<1>1. DEFINE n == Len(b.extends)
             g == Extension(b)
             P(i) == Preset[PresetName(b.extends[i])]
             B0   == Backend(<<>>, <<>>, <<>>)
<1>2. g = [i \in 0..n |-> IF i = 0 THEN B0 ELSE Merge(g[i - 1], P(i))]
  BY ExtensionEquation DEF Extends
<1>3. HIDE DEF g, P, B0
<1>4. g[0] = B0
  BY <1>2
<1>5. ASSUME NEW i \in Nat, i + 1 <= n PROVE g[i + 1] = Merge(g[i], P(i + 1))
  <2>1. i + 1 \in 0..n /\ i + 1 # 0 /\ (i + 1) - 1 = i
    BY <1>5
  <2>2. QED
    BY <1>2, <2>1
<1>6. QED
  BY <1>4, <1>5 DEF g, P, B0

LEMMA MergeTakes ==
  ASSUME NEW base, NEW over
  PROVE  /\ \A f \in Fields :
              Merge(base, over).field[f] =
                IF over.field[f] # NotSet(f) THEN over.field[f] ELSE base.field[f]
         /\ \A s \in Specs : Merge(base, over).spec[s] = MergeSpec(base.spec[s], over.spec[s])
BY DEF Merge

\* A field, after some presets, is that of the last of them that sets it.
LEMMA ExtensionFields ==
  ASSUME NEW b, Len(b.extends) \in Nat, NEW f \in Fields
  PROVE  \A i \in 0..Len(b.extends) :
           Extension(b)[i].field[f] =
             LastSet([j \in 1..i |-> Preset[PresetName(b.extends[j])].field[f]], NotSet(f))
<1>1. DEFINE n == Len(b.extends)
             g == Extension(b)
             P(j) == Preset[PresetName(b.extends[j])]
             vals(i) == [j \in 1..i |-> P(j).field[f]]
             S == {i \in Nat : i <= n => g[i].field[f] = LastSet(vals(i), NotSet(f))}
<1>2. g[0] = Backend(<<>>, <<>>, <<>>)
  BY ExtensionStep
<1>3. \A i \in Nat : i + 1 <= n => g[i + 1] = Merge(g[i], P(i + 1))
  BY ExtensionStep
<1>4. HIDE DEF g, P
<1>5. 0 \in S
  <2>1. LastSet(vals(0), NotSet(f)) = NotSet(f)
    <3>1. Len(vals(0)) = 0
      OBVIOUS
    <3>2. QED
      BY <3>1, LastSetNone
  <2>2. g[0].field[f] = NotSet(f)
    BY <1>2, NothingSet
  <2>3. QED
    BY <2>1, <2>2
<1>6. ASSUME NEW i \in Nat, i \in S PROVE i + 1 \in S
  <2>1. SUFFICES ASSUME i + 1 <= n PROVE g[i + 1].field[f] = LastSet(vals(i + 1), NotSet(f))
    OBVIOUS
  <2>2. g[i].field[f] = LastSet(vals(i), NotSet(f))
    BY <1>6, <2>1
  <2>3. g[i + 1].field[f] = IF P(i + 1).field[f] # NotSet(f) THEN P(i + 1).field[f] ELSE g[i].field[f]
    <3>1. g[i + 1] = Merge(g[i], P(i + 1))
      BY <1>3, <1>6, <2>1
    <3>2. Merge(g[i], P(i + 1)).field[f]
            = IF P(i + 1).field[f] # NotSet(f) THEN P(i + 1).field[f] ELSE g[i].field[f]
      BY MergeTakes, Zenon
    <3>3. QED
      BY <3>1, <3>2
  <2>4. LastSet(vals(i + 1), NotSet(f)) =
          IF vals(i + 1)[i + 1] # NotSet(f) THEN vals(i + 1)[i + 1] ELSE LastSet(vals(i), NotSet(f))
    <3>1. /\ DOMAIN vals(i) = 1..i /\ Len(vals(i)) = i
          /\ DOMAIN vals(i + 1) = 1..i + 1 /\ Len(vals(i + 1)) = i + 1
          /\ \A j \in 1..i : vals(i + 1)[j] = vals(i)[j]
      OBVIOUS
    <3>2. HIDE DEF vals
    <3>3. QED
      BY <3>1, LastSetNext
  <2>5. vals(i + 1)[i + 1] = P(i + 1).field[f]
    OBVIOUS
  <2>6. HIDE DEF vals
  <2>7. QED
    BY <2>2, <2>3, <2>4, <2>5
<1>7. Nat \subseteq S
  <2>1. HIDE DEF S
  <2>2. QED
    BY <1>5, <1>6, SetInduction
<1>8. QED
  <2>1. \A i \in 0..n : g[i].field[f] = LastSet(vals(i), NotSet(f))
    BY <1>7
  <2>2. QED
    BY <2>1 DEF g, P

\* The command that spec configures, if it does.
CommandOf(spec) == IF Configured(spec) THEN <<spec.argv, spec.script>> ELSE <<<<>>, "">>

LEMMA MergeSpecTakes ==
  ASSUME NEW base, NEW over, NEW r, r = MergeSpec(base, over)
  PROVE  /\ <<r.argv, r.script>> =
              IF CommandOf(over) # <<<<>>, "">> THEN CommandOf(over) ELSE <<base.argv, base.script>>
         /\ r.timeout = IF over.timeout # "" THEN over.timeout ELSE base.timeout
<1>1. /\ r.argv = IF Configured(over) THEN over.argv ELSE base.argv
      /\ r.script = IF Configured(over) THEN over.script ELSE base.script
      /\ r.timeout = IF over.timeout # "" THEN over.timeout ELSE base.timeout
  BY DEF MergeSpec
<1>2. Configured(over) => <<over.argv, over.script>> # <<<<>>, "">>
  BY DEF Configured, Trimmed
<1>3. QED
  BY <1>1, <1>2 DEF CommandOf

\* A command, after some presets, is that of the last of them that has one.
LEMMA ExtensionSpecs ==
  ASSUME NEW b, Len(b.extends) \in Nat, NEW s \in Specs
  PROVE  \A i \in 0..Len(b.extends) :
           LET spec == Extension(b)[i].spec[s]
               source(j) == Preset[PresetName(b.extends[j])].spec[s]
           IN /\ <<spec.argv, spec.script>> =
                   LastSet([j \in 1..i |-> CommandOf(source(j))], <<<<>>, "">>)
              /\ spec.timeout = LastSet([j \in 1..i |-> source(j).timeout], "")
<1>1. DEFINE n == Len(b.extends)
             g == Extension(b)
             P(j) == Preset[PresetName(b.extends[j])]
             no == <<<<>>, "">>
             unset == ""
             coms(i) == [j \in 1..i |-> CommandOf(P(j).spec[s])]
             times(i) == [j \in 1..i |-> P(j).spec[s].timeout]
             pair(i) == <<g[i].spec[s].argv, g[i].spec[s].script>>
             Done(i) == pair(i) = LastSet(coms(i), no) /\ g[i].spec[s].timeout = LastSet(times(i), unset)
             S == {i \in Nat : i <= n => Done(i)}
<1>2. g[0] = Backend(<<>>, <<>>, <<>>)
  BY ExtensionStep
<1>3. \A i \in Nat : i + 1 <= n => g[i + 1] = Merge(g[i], P(i + 1))
  BY ExtensionStep
<1>4. HIDE DEF g, P, no, unset
<1>5. Done(0)
  <2>1. LastSet(coms(0), no) = no /\ LastSet(times(0), unset) = unset
    <3>1. Len(coms(0)) = 0 /\ Len(times(0)) = 0
      OBVIOUS
    <3>2. HIDE DEF coms, times
    <3>3. QED
      BY <3>1, LastSetNone
  <2>2. g[0].spec[s] = NoSpec
    BY <1>2, NothingSet
  <2>3. NoSpec.argv = <<>> /\ NoSpec.script = "" /\ NoSpec.timeout = unset
    BY DEF NoSpec, unset
  <2>4. g[0].spec[s].timeout = unset
    BY <2>2, <2>3
  <2>5. pair(0) = no
    BY <2>2, <2>3, Zenon DEF no
  <2>6. HIDE DEF coms, times, pair
  <2>7. QED
    BY <2>1, <2>4, <2>5
<1>6. ASSUME NEW i \in Nat, i + 1 <= n, Done(i) PROVE Done(i + 1)
  <2>0. HIDE DEF Done
  <2>1. g[i + 1].spec[s] = MergeSpec(g[i].spec[s], P(i + 1).spec[s])
    <3>1. g[i + 1] = Merge(g[i], P(i + 1))
      BY <1>3, <1>6
    <3>2. QED
      BY <3>1, MergeTakes
  <2>2. /\ pair(i + 1) = IF CommandOf(P(i + 1).spec[s]) # no THEN CommandOf(P(i + 1).spec[s]) ELSE pair(i)
        /\ g[i + 1].spec[s].timeout =
             IF P(i + 1).spec[s].timeout # unset THEN P(i + 1).spec[s].timeout ELSE g[i].spec[s].timeout
    <3>1. DEFINE over == P(i + 1).spec[s]
                 base == g[i].spec[s]
                 r == g[i + 1].spec[s]
    <3>2. r = MergeSpec(base, over)
      BY <2>1
    <3>3. HIDE DEF over, base, r
    <3>4. /\ <<r.argv, r.script>> = IF CommandOf(over) # no THEN CommandOf(over) ELSE <<base.argv, base.script>>
          /\ r.timeout = IF over.timeout # unset THEN over.timeout ELSE base.timeout
      BY <3>2, MergeSpecTakes DEF no, unset
    <3>5. QED
      BY <3>4 DEF over, base, r
  <2>3. LastSet(coms(i + 1), no) =
          IF CommandOf(P(i + 1).spec[s]) # no THEN CommandOf(P(i + 1).spec[s]) ELSE LastSet(coms(i), no)
    <3>1. /\ DOMAIN coms(i) = 1..i /\ Len(coms(i)) = i
          /\ DOMAIN coms(i + 1) = 1..i + 1 /\ Len(coms(i + 1)) = i + 1
          /\ \A j \in 1..i : coms(i + 1)[j] = coms(i)[j]
          /\ coms(i + 1)[i + 1] = CommandOf(P(i + 1).spec[s])
      OBVIOUS
    <3>2. HIDE DEF coms
    <3>3. QED
      BY <3>1, LastSetNext
  <2>4. LastSet(times(i + 1), unset) =
          IF P(i + 1).spec[s].timeout # unset THEN P(i + 1).spec[s].timeout ELSE LastSet(times(i), unset)
    <3>1. /\ DOMAIN times(i) = 1..i /\ Len(times(i)) = i
          /\ DOMAIN times(i + 1) = 1..i + 1 /\ Len(times(i + 1)) = i + 1
          /\ \A j \in 1..i : times(i + 1)[j] = times(i)[j]
          /\ times(i + 1)[i + 1] = P(i + 1).spec[s].timeout
      OBVIOUS
    <3>2. HIDE DEF times
    <3>3. QED
      BY <3>1, LastSetNext
  <2>5. HIDE DEF coms, times, pair
  <2>6. pair(i) = LastSet(coms(i), no) /\ g[i].spec[s].timeout = LastSet(times(i), unset)
    BY <1>6 DEF Done
  <2>7. pair(i + 1) = LastSet(coms(i + 1), no)
    BY <2>2, <2>3, <2>6
  <2>8. g[i + 1].spec[s].timeout = LastSet(times(i + 1), unset)
    BY <2>2, <2>4, <2>6
  <2>9. QED
    BY <2>7, <2>8 DEF Done
<1>7. HIDE DEF Done
<1>8. 0 \in S /\ \A i \in Nat : i \in S => i + 1 \in S
  <2>1. ASSUME NEW i \in Nat, i \in S, i + 1 <= n PROVE Done(i + 1)
    BY <1>6, <2>1
  <2>2. QED
    BY <1>5, <2>1
<1>9. Nat \subseteq S
  <2>1. HIDE DEF S
  <2>2. QED
    BY <1>8, SetInduction
<1>10. \A i \in 0..n : Done(i)
  BY <1>9
<1>11. QED
  BY <1>10, Zenon DEF Done, g, P, no, unset

------------------------------------------------------------------------------
(* What Load computes *)

LEMMA MaxIs ==
  ASSUME NEW T, NEW m \in T, T \subseteq Nat, \A i \in T : i <= m
  PROVE  Max(T) = m
<1>1. \A x \in T : (\A y \in T : x >= y) => x = m
  <2>1. TAKE x \in T
  <2>2. x \in Nat /\ m \in Nat
    OBVIOUS
  <2>3. HAVE \A y \in T : x >= y
  <2>4. x >= m /\ x <= m
    BY <2>3
  <2>5. QED
    BY <2>2, <2>4
<1>2. \A y \in T : m >= y
  OBVIOUS
<1>3. QED
  BY <1>1, <1>2 DEF Max

\* One layer more.
LEMMA StrongestNext ==
  ASSUME NEW n \in Nat, NEW s, NEW t, NEW f,
         DOMAIN s = 1..n, Len(s) = n, DOMAIN t = 1..n + 1, Len(t) = n + 1,
         \A i \in 1..n : t[i] = s[i]
  PROVE  Strongest(t, f) = IF f \in DOMAIN t[n + 1] THEN t[n + 1][f] ELSE Strongest(s, f)
<1>1. DEFINE ns == {i \in 1..n : f \in DOMAIN s[i]}
             nt == {i \in 1..n + 1 : f \in DOMAIN t[i]}
<1>2. /\ Strongest(s, f) = IF ns = {} THEN NotSet(f) ELSE s[Max(ns)][f]
      /\ Strongest(t, f) = IF nt = {} THEN NotSet(f) ELSE t[Max(nt)][f]
  BY DEF Strongest
<1>3. CASE f \in DOMAIN t[n + 1]
  <2>1. n + 1 \in nt /\ nt \subseteq Nat /\ \A i \in nt : i <= n + 1
    BY <1>3
  <2>2. Max(nt) = n + 1 /\ nt # {}
    <3>1. HIDE DEF nt
    <3>2. QED
      BY <2>1, MaxIs
  <2>3. QED
    BY <1>2, <1>3, <2>2
<1>4. CASE f \notin DOMAIN t[n + 1]
  <2>1. nt = ns
    <3>1. \A i \in 1..n + 1 : i \in 1..n \/ i = n + 1
      OBVIOUS
    <3>2. QED
      BY <1>4, <3>1
  <2>2. CASE ns = {}
    BY <1>2, <1>4, <2>1, <2>2
  <2>3. CASE ns # {}
    <3>1. Max(ns) \in ns
      <4>1. ns \in SUBSET (1..n)
        OBVIOUS
      <4>2. HIDE DEF ns
      <4>3. QED
        BY <2>3, <4>1, MaxIsGreatest
    <3>2. t[Max(ns)] = s[Max(ns)]
      BY <3>1
    <3>3. HIDE DEF ns, nt
    <3>4. QED
      BY <1>2, <1>4, <2>1, <2>3, <3>2
  <2>4. QED
    BY <2>2, <2>3
<1>5. QED
  BY <1>3, <1>4

LEMMA StrongestOfThree ==
  ASSUME NEW a, NEW b, NEW c, NEW f
  PROVE  Strongest(<<a, b, c>>, f) =
           IF f \in DOMAIN c THEN c[f]
           ELSE IF f \in DOMAIN b THEN b[f]
           ELSE IF f \in DOMAIN a THEN a[f] ELSE NotSet(f)
<1>1. Strongest(<<>>, f) = NotSet(f)
  BY DEF Strongest
<1>2. Strongest(<<a>>, f) = IF f \in DOMAIN a THEN a[f] ELSE NotSet(f)
  <2>1. DEFINE n == 0
              s == <<>>
              t == <<a>>
  <2>2. /\ n \in Nat /\ DOMAIN s = 1..n /\ Len(s) = n /\ DOMAIN t = 1..n + 1 /\ Len(t) = n + 1
         /\ \A i \in 1..n : t[i] = s[i]
         /\ t[n + 1] = a
    OBVIOUS
  <2>3. HIDE DEF n, s, t
  <2>4. Strongest(t, f) = IF f \in DOMAIN t[n + 1] THEN t[n + 1][f] ELSE Strongest(s, f)
    BY <2>2, StrongestNext
  <2>5. QED
    BY <1>1, <2>2, <2>4 DEF s, t
<1>3. Strongest(<<a, b>>, f) = IF f \in DOMAIN b THEN b[f] ELSE Strongest(<<a>>, f)
  <2>1. DEFINE n == 1
              s == <<a>>
              t == <<a, b>>
  <2>2. /\ n \in Nat /\ DOMAIN s = 1..n /\ Len(s) = n /\ DOMAIN t = 1..n + 1 /\ Len(t) = n + 1
         /\ \A i \in 1..n : t[i] = s[i]
         /\ t[n + 1] = b
    OBVIOUS
  <2>3. HIDE DEF n, s, t
  <2>4. Strongest(t, f) = IF f \in DOMAIN t[n + 1] THEN t[n + 1][f] ELSE Strongest(s, f)
    BY <2>2, StrongestNext
  <2>5. QED
    BY <2>2, <2>4 DEF s, t
<1>4. Strongest(<<a, b, c>>, f) = IF f \in DOMAIN c THEN c[f] ELSE Strongest(<<a, b>>, f)
  <2>1. DEFINE n == 2
              s == <<a, b>>
              t == <<a, b, c>>
  <2>2. /\ n \in Nat /\ DOMAIN s = 1..n /\ Len(s) = n /\ DOMAIN t = 1..n + 1 /\ Len(t) = n + 1
         /\ \A i \in 1..n : t[i] = s[i]
         /\ t[n + 1] = c
    OBVIOUS
  <2>3. HIDE DEF n, s, t
  <2>4. Strongest(t, f) = IF f \in DOMAIN t[n + 1] THEN t[n + 1][f] ELSE Strongest(s, f)
    BY <2>2, StrongestNext
  <2>5. QED
    BY <2>2, <2>4 DEF s, t
<1>5. QED
  BY <1>2, <1>3, <1>4

LEMMA StrongestOfFour ==
  ASSUME NEW a, NEW b, NEW c, NEW d, NEW f
  PROVE  Strongest(<<a, b, c, d>>, f) = IF f \in DOMAIN d THEN d[f] ELSE Strongest(<<a, b, c>>, f)
<1>1. DEFINE n == 3
            s == <<a, b, c>>
            t == <<a, b, c, d>>
<1>2. /\ n \in Nat /\ DOMAIN s = 1..n /\ Len(s) = n /\ DOMAIN t = 1..n + 1 /\ Len(t) = n + 1
       /\ \A i \in 1..n : t[i] = s[i]
       /\ t[n + 1] = d
  OBVIOUS
<1>3. HIDE DEF n, s, t
<1>4. Strongest(t, f) = IF f \in DOMAIN t[n + 1] THEN t[n + 1][f] ELSE Strongest(s, f)
  BY <1>2, StrongestNext
<1>5. QED
  BY <1>2, <1>4 DEF s, t

LEMMA LastOfTwo ==
  ASSUME NEW a, NEW b, NEW unset
  PROVE  LastSet(<<a, b>>, unset) = IF b # unset THEN b ELSE a
<1>1. LastSet(<<>>, unset) = unset
  BY DEF LastSet
<1>2. LastSet(<<a>>, unset) = a
  <2>1. DEFINE n == 0
              s == <<>>
              t == <<a>>
  <2>2. /\ n \in Nat /\ DOMAIN s = 1..n /\ Len(s) = n /\ DOMAIN t = 1..n + 1 /\ Len(t) = n + 1
         /\ \A i \in 1..n : t[i] = s[i]
         /\ t[n + 1] = a
    OBVIOUS
  <2>3. HIDE DEF n, s, t
  <2>4. LastSet(t, unset) = IF t[n + 1] # unset THEN t[n + 1] ELSE LastSet(s, unset)
    BY <2>2, LastSetNext
  <2>5. QED
    BY <1>1, <2>2, <2>4 DEF s, t
<1>3. LastSet(<<a, b>>, unset) = IF b # unset THEN b ELSE LastSet(<<a>>, unset)
  <2>1. DEFINE n == 1
              s == <<a>>
              t == <<a, b>>
  <2>2. /\ n \in Nat /\ DOMAIN s = 1..n /\ Len(s) = n /\ DOMAIN t = 1..n + 1 /\ Len(t) = n + 1
         /\ \A i \in 1..n : t[i] = s[i]
         /\ t[n + 1] = b
    OBVIOUS
  <2>3. HIDE DEF n, s, t
  <2>4. LastSet(t, unset) = IF t[n + 1] # unset THEN t[n + 1] ELSE LastSet(s, unset)
    BY <2>2, LastSetNext
  <2>5. QED
    BY <2>2, <2>4 DEF s, t
<1>4. QED
  BY <1>2, <1>3

\* Loading takes the environment for what is known, then what is known.
LEMMA LoadedIs ==
  ASSUME NEW defaults, NEW file, NEW env
  PROVE  /\ DOMAIN Loaded(defaults, file, env) = DOMAIN defaults \cup DOMAIN file
         /\ \A k \in DOMAIN defaults \cup DOMAIN file :
              Loaded(defaults, file, env)[k] =
                IF k \in DOMAIN env THEN env[k]
                ELSE IF k \in DOMAIN file THEN file[k] ELSE defaults[k]
<1>1. /\ DOMAIN Loaded(defaults, file, env) = DOMAIN defaults \cup DOMAIN file
      /\ \A k \in DOMAIN defaults \cup DOMAIN file :
           Loaded(defaults, file, env)[k] = Over(env, Over(file, defaults))[k]
  BY DEF Loaded
<1>2. \A k \in DOMAIN defaults \cup DOMAIN file :
        Over(env, Over(file, defaults))[k] =
          IF k \in DOMAIN env THEN env[k] ELSE IF k \in DOMAIN file THEN file[k] ELSE defaults[k]
  BY DEF Over
<1>3. QED
  BY <1>1, <1>2

LEMMA KnownIs ==
  ASSUME NEW env, NEW known
  PROVE  /\ DOMAIN Known(env, known) = DOMAIN env \cap known
         /\ \A k \in DOMAIN env \cap known : Known(env, known)[k] = env[k]
BY DEF Known

\* loaded has the keys of defaults and file, and the value of the strongest
\* of these and of what the environment was asked for.
Layered(defaults, file, asked, loaded) ==
  /\ DOMAIN loaded = DOMAIN defaults \cup DOMAIN file
  /\ DOMAIN asked \subseteq DOMAIN loaded
  /\ \A k \in DOMAIN loaded :
       loaded[k] = IF k \in DOMAIN asked THEN asked[k]
                   ELSE IF k \in DOMAIN file THEN file[k] ELSE defaults[k]

LEMMA LoadedKnown ==
  ASSUME NEW defaults, NEW file, NEW env, NEW loaded, NEW asked,
         loaded = Loaded(defaults, file, env),
         asked = Known(env, DOMAIN file \cup DOMAIN defaults)
  PROVE  Layered(defaults, file, asked, loaded)
<1>1. /\ DOMAIN asked = DOMAIN env \cap (DOMAIN defaults \cup DOMAIN file)
      /\ \A k \in DOMAIN asked : asked[k] = env[k]
  BY KnownIs
<1>2. DOMAIN loaded = DOMAIN defaults \cup DOMAIN file
  BY LoadedIs
<1>3. ASSUME NEW k \in DOMAIN loaded
      PROVE  loaded[k] = IF k \in DOMAIN asked THEN asked[k]
                         ELSE IF k \in DOMAIN file THEN file[k] ELSE defaults[k]
  <2>1. loaded[k] = IF k \in DOMAIN env THEN env[k]
                    ELSE IF k \in DOMAIN file THEN file[k] ELSE defaults[k]
    BY <1>2, <1>3, LoadedIs
  <2>2. QED
    BY <1>1, <1>2, <1>3, <2>1
<1>4. QED
  BY <1>1, <1>2, <1>3 DEF Layered

LEMMA OverIs ==
  ASSUME NEW over, NEW base, NEW k, k \in DOMAIN over \/ k \in DOMAIN base
  PROVE  Over(over, base)[k] = IF k \in DOMAIN over THEN over[k] ELSE base[k]
BY DEF Over

\* A field of a loaded backend is that of the strongest of its layers.
LEMMA LoadFields ==
  ASSUME NEW name, NEW f \in Fields
  PROVE  LoadBackend(given, name).field[f] = OwnField(name, f)
<1>1. DEFINE file == Says(given.file, name).field
             env == Says(given.env, name).field
             flags == FlagsOf(given, name)
             defaults == DefaultsOf(name)
             loaded == Loaded(defaults, file, env)
             asked == Known(env, DOMAIN file \cup DOMAIN defaults)
             none == [k \in Fields |-> NotSet(k)]
<1>2. LoadBackend(given, name).field[f] = Over(Over(flags, loaded), none)[f]
  BY DEF LoadBackend, Backend
<1>3. FieldLayers(name) = <<defaults, file, asked, flags>>
  BY Zenon DEF FieldLayers, DefaultsOf, FlagsOf
<1>4. f \in DOMAIN none /\ none[f] = NotSet(f)
  OBVIOUS
<1>5. Layered(defaults, file, asked, loaded)
  BY LoadedKnown
<1>6. HIDE DEF file, env, flags, defaults, loaded, asked, none
<1>7. Over(Over(flags, loaded), none)[f] =
        IF f \in DOMAIN flags THEN flags[f] ELSE IF f \in DOMAIN loaded THEN loaded[f] ELSE NotSet(f)
  <2>1. DEFINE top == Over(flags, loaded)
  <2>2. /\ DOMAIN top = DOMAIN flags \cup DOMAIN loaded
        /\ \A k \in DOMAIN top : top[k] = IF k \in DOMAIN flags THEN flags[k] ELSE loaded[k]
    BY DEF Over
  <2>3. HIDE DEF top
  <2>4. Over(top, none)[f] = IF f \in DOMAIN top THEN top[f] ELSE NotSet(f)
    BY <1>4, OverIs
  <2>5. QED
    BY <2>2, <2>4 DEF top
<1>8. OwnField(name, f) =
        IF f \in DOMAIN flags THEN flags[f]
        ELSE IF f \in DOMAIN asked THEN asked[f]
        ELSE IF f \in DOMAIN file THEN file[f]
        ELSE IF f \in DOMAIN defaults THEN defaults[f] ELSE NotSet(f)
  <2>1. OwnField(name, f) = Strongest(<<defaults, file, asked, flags>>, f)
    BY <1>3, Zenon DEF OwnField
  <2>2. Strongest(<<defaults, file, asked, flags>>, f) =
          IF f \in DOMAIN flags THEN flags[f] ELSE Strongest(<<defaults, file, asked>>, f)
    BY StrongestOfFour, Zenon
  <2>3. Strongest(<<defaults, file, asked>>, f) =
          IF f \in DOMAIN asked THEN asked[f]
          ELSE IF f \in DOMAIN file THEN file[f]
          ELSE IF f \in DOMAIN defaults THEN defaults[f] ELSE NotSet(f)
    BY StrongestOfThree, Zenon
  <2>4. QED
    BY <2>1, <2>2, <2>3
<1>9. QED
  BY <1>2, <1>5, <1>7, <1>8 DEF Layered

SameSpec(a, b) == a.argv = b.argv /\ a.script = b.script /\ a.timeout = b.timeout

LEMMA LoadSpecs ==
  ASSUME NEW name, NEW s \in Specs
  PROVE  SameSpec(LoadBackend(given, name).spec[s], OwnSpec(name, s))
<1>1. DEFINE specs == Says(given.file, name).spec
             file == Saying(specs, s)
             env == Saying(Says(given.env, name).spec, s)
             mapped == [x \in DOMAIN specs |-> Loaded(<<>>, specs[x], Saying(Says(given.env, name).spec, x))]
             loaded == Loaded(<<>>, file, env)
             asked == Known(env, DOMAIN file)
             K == {"argv", "script", "timeout"}
<1>2. LoadBackend(given, name).spec[s] = Over(Saying(mapped, s), NoSpec)
  BY Zenon DEF LoadBackend, Backend
<1>3. DOMAIN <<>> = {} /\ DOMAIN NoSpec = K
  BY DEF NoSpec
<1>4. DOMAIN file \cup DOMAIN <<>> = DOMAIN file /\ DOMAIN <<>> \cup DOMAIN file = DOMAIN file
  BY <1>3
<1>5. /\ DOMAIN loaded = DOMAIN file
      /\ DOMAIN asked = DOMAIN env \cap DOMAIN file
      /\ \A k \in DOMAIN file : loaded[k] = IF k \in DOMAIN asked THEN asked[k] ELSE file[k]
  <2>1. HIDE DEF file, env
  <2>2. /\ DOMAIN loaded = DOMAIN file
        /\ \A k \in DOMAIN file : loaded[k] = IF k \in DOMAIN env THEN env[k] ELSE file[k]
    BY <1>4, LoadedIs
  <2>3. /\ DOMAIN asked = DOMAIN env \cap DOMAIN file
        /\ \A k \in DOMAIN env \cap DOMAIN file : asked[k] = env[k]
    BY KnownIs
  <2>4. HIDE DEF loaded, asked
  <2>5. QED
    BY <2>2, <2>3
<1>6. /\ DOMAIN Saying(mapped, s) = DOMAIN file
      /\ \A k \in DOMAIN file : Saying(mapped, s)[k] = loaded[k]
  <2>1. CASE s \in DOMAIN specs
    <3>1. Saying(mapped, s) = loaded
      BY <2>1 DEF Saying
    <3>2. QED
      BY <1>5, <3>1
  <2>2. CASE s \notin DOMAIN specs
    BY <2>2 DEF Saying
  <2>3. QED
    BY <2>1, <2>2
<1>7. OwnSpec(name, s) = [k \in K |-> Strongest(<<NoSpec, file, asked>>, k)]
  BY Zenon DEF OwnSpec
<1>8. DEFINE made == Saying(mapped, s)
<1>9. HIDE DEF file, env, asked, loaded, made, specs, mapped
<1>10. ASSUME NEW k \in K PROVE Over(made, NoSpec)[k] = OwnSpec(name, s)[k]
  <2>1. Over(made, NoSpec)[k] = IF k \in DOMAIN made THEN made[k] ELSE NoSpec[k]
    BY <1>3, OverIs
  <2>2. OwnSpec(name, s)[k] = IF k \in DOMAIN asked THEN asked[k]
                              ELSE IF k \in DOMAIN file THEN file[k] ELSE NoSpec[k]
    BY <1>3, <1>7, StrongestOfThree
  <2>3. QED
    BY <1>5, <1>6, <2>1, <2>2 DEF made
<1>11. QED
  <2>1. \A k \in {"argv", "script", "timeout"} :
          LoadBackend(given, name).spec[s][k] = OwnSpec(name, s)[k]
    BY <1>2, <1>10 DEF made
  <2>2. HIDE DEF K
  <2>3. QED
    BY <2>1 DEF SameSpec

\* What the file, the environment and the flags say of a backend, and of its
\* commands.
LEMMA LoadSays ==
  ASSUME NEW name \in DOMAIN Load(given).backend
  PROVE  LET own == Load(given).backend[name]
         IN /\ own.extends = Entries(name)
            /\ \A f \in Fields : own.field[f] = OwnField(name, f)
            /\ \A s \in Specs : SameSpec(own.spec[s], OwnSpec(name, s))
<1>1. Load(given).backend[name] = LoadBackend(given, name)
  BY DEF Load
<1>2. LoadBackend(given, name).extends = Entries(name)
  <2>1. DEFINE file == Says(given.file, name).extends
               env == Says(given.env, name).extends
  <2>2. LoadBackend(given, name).extends = IF file # <<>> /\ env # <<>> THEN env ELSE file
    BY DEF LoadBackend, Backend
  <2>3. Entries(name) = IF file = <<>> THEN <<>> ELSE LastSet(<<file, env>>, <<>>)
    BY DEF Entries
  <2>4. HIDE DEF file, env
  <2>5. QED
    BY <2>2, <2>3, LastOfTwo
<1>3. QED
  BY <1>1, <1>2, LoadFields, LoadSpecs

LEMMA EntriesAre ==
  ASSUME given \in Givens, NEW name
  PROVE  Entries(name) \in Seq(STRING)
<1>1. DEFINE file == Says(given.file, name).extends
             env == Says(given.env, name).extends
<1>2. file \in Seq(STRING) /\ env \in Seq(STRING)
  <2>1. <<>> \in Seq(STRING)
    OBVIOUS
  <2>2. QED
    BY <2>1, GivenAssumption DEF Says
<1>3. Entries(name) = IF file = <<>> THEN <<>> ELSE LastSet(<<file, env>>, <<>>)
  BY DEF Entries
<1>4. HIDE DEF file, env
<1>5. QED
  BY <1>2, <1>3, LastOfTwo

------------------------------------------------------------------------------
(* What Resolve computes *)

LEMMA AppendIs ==
  ASSUME NEW n \in Nat, NEW s, DOMAIN s = 1..n, s = [i \in 1..n |-> s[i]], NEW v
  PROVE  LET t == Append(s, v)
         IN /\ DOMAIN t = 1..n + 1 /\ Len(t) = n + 1 /\ Len(s) = n
            /\ \A i \in 1..n : t[i] = s[i]
            /\ t[n + 1] = v
<1>1. DEFINE A == {s[i] : i \in 1..n} \cup {v}
<1>2. s \in [1..n -> A]
  <2>1. \A i \in 1..n : s[i] \in A
    OBVIOUS
  <2>2. HIDE DEF A
  <2>3. QED
    BY <2>1
<1>3. s \in Seq(A) /\ v \in A
  <2>1. v \in A
    OBVIOUS
  <2>2. HIDE DEF A
  <2>3. QED
    BY <1>2, <2>1, SeqDef
<1>4. Len(s) = n
  <2>1. HIDE DEF A
  <2>2. QED
    BY <1>3, LenProperties
<1>5. HIDE DEF A
<1>6. QED
  BY <1>3, <1>4, AppendProperties, LenProperties

\* The last of the values and one more.
LEMMA LastOfAppend ==
  ASSUME NEW n \in Nat, NEW s, DOMAIN s = 1..n, s = [i \in 1..n |-> s[i]], NEW v, NEW unset
  PROVE  LastSet(Append(s, v), unset) = IF v # unset THEN v ELSE LastSet(s, unset)
<1>1. DEFINE t == Append(s, v)
<1>2. /\ DOMAIN t = 1..n + 1 /\ Len(t) = n + 1 /\ Len(s) = n
      /\ \A i \in 1..n : t[i] = s[i]
      /\ t[n + 1] = v
  BY AppendIs
<1>3. HIDE DEF t
<1>4. LastSet(t, unset) = IF t[n + 1] # unset THEN t[n + 1] ELSE LastSet(s, unset)
  BY <1>2, LastSetNext
<1>5. QED
  BY <1>2, <1>4 DEF t

LEMMA ResolveFields ==
  ASSUME NEW name \in DOMAIN Load(given).backend, NEW f \in Fields,
         Entries(name) \in Seq(STRING)
  PROVE  LET es == Entries(name)
             presets == [i \in 1..Len(es) |-> Preset[PresetName(es[i])]]
             values == [i \in 1..Len(presets) |-> presets[i].field[f]]
         IN Resolve(Load(given).backend[name]).field[f] =
              LastSet(Append(values, OwnField(name, f)), NotSet(f))
<1>1. DEFINE own == Load(given).backend[name]
             es == Entries(name)
             n == Len(es)
             presets == [i \in 1..n |-> Preset[PresetName(es[i])]]
             values == [i \in 1..n |-> Preset[PresetName(es[i])].field[f]]
             source == OwnField(name, f)
             unset == NotSet(f)
<1>2. own.extends = es /\ own.field[f] = source
  BY LoadSays
<1>3. n \in Nat
  BY LenProperties
<1>4. HIDE DEF own, source, unset, es
<1>5. Resolve(own).field[f] = IF source # unset THEN source ELSE Extension(own)[n].field[f]
  <2>1. Resolve(own) = Merge(Extension(own)[n], own)
    BY <1>2 DEF Resolve
  <2>2. QED
    BY <1>2, <2>1, MergeTakes DEF unset
<1>6. Extension(own)[n].field[f] = LastSet(values, unset)
  <2>1. n \in 0..n /\ Len(own.extends) = n
    BY <1>2, <1>3
  <2>2. Extension(own)[n].field[f]
          = LastSet([j \in 1..n |-> Preset[PresetName(own.extends[j])].field[f]], NotSet(f))
    BY <1>3, <2>1, ExtensionFields
  <2>3. QED
    BY <1>2, <2>2 DEF unset
<1>7. LastSet(Append(values, source), unset) = IF source # unset THEN source ELSE LastSet(values, unset)
  <2>1. DOMAIN values = 1..n /\ values = [i \in 1..n |-> values[i]]
    OBVIOUS
  <2>2. HIDE DEF values
  <2>3. QED
    BY <1>3, <2>1, LastOfAppend
<1>8. Resolve(own).field[f] = LastSet(Append(values, source), unset)
  BY <1>5, <1>6, <1>7
<1>9. [i \in 1..Len(presets) |-> presets[i].field[f]] = values
  <2>1. Len(presets) = n
    BY <1>3
  <2>2. QED
    BY <2>1
<1>10. QED
  BY <1>8, <1>9 DEF own, es, source, unset

LEMMA ResolveSpecs ==
  ASSUME NEW name \in DOMAIN Load(given).backend, NEW s \in Specs,
         Entries(name) \in Seq(STRING)
  PROVE  LET es == Entries(name)
             presets == [i \in 1..Len(es) |-> Preset[PresetName(es[i])]]
             spec == Resolve(Load(given).backend[name]).spec[s]
             specs == Append([i \in 1..Len(presets) |-> presets[i].spec[s]],
                             OwnSpec(name, s))
         IN /\ <<spec.argv, spec.script>> =
                 LastSet([i \in 1..Len(specs) |-> CommandOf(specs[i])], <<<<>>, "">>)
            /\ spec.timeout = LastSet([i \in 1..Len(specs) |-> specs[i].timeout], "")
<1>1. DEFINE own == Load(given).backend[name]
             es == Entries(name)
             n == Len(es)
             P(i) == Preset[PresetName(es[i])].spec[s]
             presets == [i \in 1..n |-> Preset[PresetName(es[i])]]
             first == [i \in 1..n |-> P(i)]
             source == OwnSpec(name, s)
             specs == Append(first, source)
             no == <<<<>>, "">>
             unset == ""
             spec == Resolve(own).spec[s]
             base == Extension(own)[n].spec[s]
             coms(t, m) == [i \in 1..m |-> CommandOf(t[i])]
             times(t, m) == [i \in 1..m |-> t[i].timeout]
<1>2. own.extends = es /\ SameSpec(own.spec[s], source)
  BY LoadSays
<1>3. n \in Nat
  BY LenProperties
<1>4. HIDE DEF own, source, es
<1>5. spec = MergeSpec(base, source)
  <2>1. Resolve(own) = Merge(Extension(own)[n], own)
    BY <1>2 DEF Resolve
  <2>2. spec = MergeSpec(base, own.spec[s])
    BY <2>1, MergeTakes
  <2>3. HIDE DEF base, spec
  <2>4. QED
    BY <1>2, <2>2 DEF SameSpec, MergeSpec, Configured
<1>6. HIDE DEF spec, base, P, no, unset
<1>7. /\ <<spec.argv, spec.script>> =
           IF CommandOf(source) # no THEN CommandOf(source) ELSE <<base.argv, base.script>>
      /\ spec.timeout = IF source.timeout # unset THEN source.timeout ELSE base.timeout
  BY <1>5, MergeSpecTakes DEF no, unset
<1>8. /\ <<base.argv, base.script>> = LastSet(coms(first, n), no)
      /\ base.timeout = LastSet(times(first, n), unset)
  <2>1. n \in 0..n /\ Len(own.extends) = n
    BY <1>2, <1>3
  <2>2. /\ <<base.argv, base.script>> =
             LastSet([j \in 1..n |-> CommandOf(Preset[PresetName(own.extends[j])].spec[s])], <<<<>>, "">>)
        /\ base.timeout = LastSet([j \in 1..n |-> Preset[PresetName(own.extends[j])].spec[s].timeout], "")
    BY <1>3, <2>1, ExtensionSpecs, Zenon DEF base
  <2>3. /\ coms(first, n) = [j \in 1..n |-> CommandOf(P(j))]
        /\ times(first, n) = [j \in 1..n |-> P(j).timeout]
    OBVIOUS
  <2>4. HIDE DEF first, coms, times
  <2>5. QED
    BY <1>2, <2>2, <2>3, Zenon DEF P, no, unset
<1>9. /\ Len(specs) = n + 1 /\ specs[n + 1] = source
      /\ \A i \in 1..n : specs[i] = first[i]
  <2>1. DOMAIN first = 1..n /\ first = [i \in 1..n |-> first[i]]
    OBVIOUS
  <2>2. HIDE DEF first
  <2>3. QED
    BY <1>3, <2>1, AppendIs
<1>10. HIDE DEF specs, first
<1>11. LastSet(coms(specs, n + 1), no) =
         IF CommandOf(source) # no THEN CommandOf(source) ELSE LastSet(coms(first, n), no)
  <2>1. /\ DOMAIN coms(first, n) = 1..n /\ Len(coms(first, n)) = n
        /\ DOMAIN coms(specs, n + 1) = 1..n + 1 /\ Len(coms(specs, n + 1)) = n + 1
        /\ \A j \in 1..n : coms(specs, n + 1)[j] = coms(first, n)[j]
        /\ coms(specs, n + 1)[n + 1] = CommandOf(source)
    BY <1>3, <1>9
  <2>2. HIDE DEF coms
  <2>3. QED
    BY <1>3, <2>1, LastSetNext
<1>12. LastSet(times(specs, n + 1), unset) =
         IF source.timeout # unset THEN source.timeout ELSE LastSet(times(first, n), unset)
  <2>1. /\ DOMAIN times(first, n) = 1..n /\ Len(times(first, n)) = n
        /\ DOMAIN times(specs, n + 1) = 1..n + 1 /\ Len(times(specs, n + 1)) = n + 1
        /\ \A j \in 1..n : times(specs, n + 1)[j] = times(first, n)[j]
        /\ times(specs, n + 1)[n + 1] = source.timeout
    BY <1>3, <1>9
  <2>2. HIDE DEF times
  <2>3. LastSet(times(specs, n + 1), unset) =
          IF times(specs, n + 1)[n + 1] # unset THEN times(specs, n + 1)[n + 1]
          ELSE LastSet(times(first, n), unset)
    BY <1>3, <2>1, LastSetNext
  <2>4. QED
    BY <2>1, <2>3
<1>13. /\ <<spec.argv, spec.script>> = LastSet(coms(specs, n + 1), no)
       /\ spec.timeout = LastSet(times(specs, n + 1), unset)
  <2>1. HIDE DEF coms, times
  <2>2. QED
    BY <1>7, <1>8, <1>11, <1>12
<1>14. [i \in 1..Len(presets) |-> presets[i].spec[s]] = first
  <2>1. Len(presets) = n
    BY <1>3
  <2>2. QED
    BY <2>1 DEF first, P
<1>15. HIDE DEF presets
<1>16. QED
  BY <1>9, <1>13, <1>14, Zenon DEF own, es, source, no, unset, spec, specs, presets

------------------------------------------------------------------------------
(* The configuration on its way *)

\* The configuration once it is loaded, and once its presets are merged in.
Completed ==
  [Load(given) EXCEPT !.backend = [name \in DOMAIN @ |-> Resolve(@[name])]]

CfgInv ==
  /\ stage \in {"given", "loaded", "resolved", "valid"} => given \in Givens
  /\ stage = "loaded" => cfg = Load(given)
  /\ stage \in {"resolved", "valid"} =>
       /\ cfg = Completed
       /\ \A name \in DOMAIN Load(given).backend : Extendable(Load(given).backend[name])
  /\ stage = "valid" => Valid(given.build, cfg) /\ (mode = "serve" => ValidServer(cfg.server))

LEMMA CfgInitInv == LaunchInit => CfgInv
BY DEF LaunchInit, CfgInv

LEMMA CfgNextInv == CfgInv /\ [LaunchNext]_launchVars => CfgInv'
<1>1. SUFFICES ASSUME CfgInv, [LaunchNext]_launchVars PROVE CfgInv'
  OBVIOUS
<1>2. CASE Configure
  <2>1. mode' = mode
    BY <1>2 DEF Configure, LoadConfig, ResolveBackendExtends, ValidateConfig, Run, Untouched
  <2>2. ASSUME NEW ok \in BOOLEAN, LoadConfig(ok) PROVE CfgInv'
    BY <1>1, <2>2 DEF CfgInv, LoadConfig, Proceed, Refuse
  <2>3. ASSUME NEW ok \in BOOLEAN, Run(ok) PROVE CfgInv'
    BY <2>3 DEF CfgInv, Run, Refuse
  <2>4. CASE ResolveBackendExtends
    <3>1. cfg = Load(given) /\ given \in Givens
      BY <1>1, <2>4 DEF CfgInv, ResolveBackendExtends
    <3>2. CASE \A name \in DOMAIN cfg.backend : Extendable(cfg.backend[name])
      <4>1. stage' = "resolved" /\ given' = given
        BY <2>4, <3>2 DEF ResolveBackendExtends, Proceed
      <4>2. cfg' = [cfg EXCEPT !.backend = [name \in DOMAIN cfg.backend |-> Resolve(cfg.backend[name])]]
        BY <2>4, <3>2 DEF ResolveBackendExtends
      <4>3. Completed = [Load(given) EXCEPT !.backend =
                           [name \in DOMAIN Load(given).backend |-> Resolve(Load(given).backend[name])]]
        BY DEF Completed
      <4>4. cfg' = Completed /\ Completed' = Completed
        BY <3>1, <4>1, <4>2, <4>3 DEF Completed
      <4>5. QED
        BY <3>1, <3>2, <4>1, <4>4 DEF CfgInv
    <3>3. CASE ~\A name \in DOMAIN cfg.backend : Extendable(cfg.backend[name])
      BY <2>4, <3>3 DEF ResolveBackendExtends, Refuse, CfgInv
    <3>4. QED
      BY <3>2, <3>3
  <2>5. CASE ValidateConfig
    <3>1. CASE stage' = "valid"
      <4>1. stage = "resolved" /\ UNCHANGED <<given, cfg>>
        BY <2>5, <3>1 DEF ValidateConfig, Proceed, Refuse
      <4>2. Valid(given.build, cfg) /\ (mode = "serve" => ValidServer(cfg.server))
        BY <2>5, <3>1 DEF ValidateConfig, Refuse
      <4>3. Completed' = Completed
        BY <4>1 DEF Completed
      <4>4. QED
        BY <1>1, <2>1, <3>1, <4>1, <4>2, <4>3 DEF CfgInv
    <3>2. CASE stage' = "refused"
      BY <3>2 DEF CfgInv
    <3>3. QED
      BY <2>5, <3>1, <3>2 DEF ValidateConfig, Proceed, Refuse
  <2>6. QED
    BY <1>2, <2>2, <2>3, <2>4, <2>5 DEF Configure
<1>3. CASE stage = "running" /\ ServeNext /\ UNCHANGED configVars
  BY <1>3 DEF CfgInv, configVars
<1>4. CASE UNCHANGED launchVars
  <2>1. UNCHANGED <<stage, given, cfg, mode>>
    BY <1>4 DEF launchVars, configVars, allVars, serveVars, procVars
  <2>2. Completed' = Completed
    BY <2>1 DEF Completed
  <2>3. QED
    BY <1>1, <2>1, <2>2 DEF CfgInv
<1>5. QED
  BY <1>1, <1>2, <1>3, <1>4 DEF LaunchNext

\* What a loaded configuration holds.
LEMMA Loads ==
  ASSUME CfgInv, stage \in {"resolved", "valid"}
  PROVE  /\ DOMAIN cfg.backend = DOMAIN Load(given).backend
         /\ \A name \in DOMAIN cfg.backend :
              /\ cfg.backend[name] = Resolve(Load(given).backend[name])
              /\ Entries(name) \in Seq(STRING)
<1>1. cfg = Completed /\ given \in Givens
  BY DEF CfgInv
<1>2. Completed.backend = [name \in DOMAIN Load(given).backend |-> Resolve(Load(given).backend[name])]
  BY DEF Load, Completed
<1>3. \A name : Entries(name) \in Seq(STRING)
  BY <1>1, EntriesAre
<1>4. QED
  BY <1>1, <1>2, <1>3

LEMMA CfgResolved == CfgInv => Resolved
<1>1. SUFFICES ASSUME CfgInv, stage \in {"resolved", "valid"} PROVE Resolved
  BY DEF Resolved
<1>2. DEFINE es(name) == Entries(name)
             presets(name) == [i \in 1..Len(es(name)) |-> Preset[PresetName(es(name)[i])]]
             source(name, s) == OwnSpec(name, s)
             specs(name, s) == Append([i \in 1..Len(presets(name)) |-> presets(name)[i].spec[s]],
                                      source(name, s))
             values(name, f) == [i \in 1..Len(presets(name)) |-> presets(name)[i].field[f]]
<1>3. ASSUME NEW name \in DOMAIN cfg.backend, NEW f \in Fields
      PROVE  cfg.backend[name].field[f] = LastSet(Append(values(name, f), OwnField(name, f)), NotSet(f))
  <2>1. /\ name \in DOMAIN Load(given).backend
        /\ cfg.backend[name] = Resolve(Load(given).backend[name])
        /\ Entries(name) \in Seq(STRING)
    BY <1>1, <1>3, Loads
  <2>2. QED
    BY <2>1, ResolveFields
<1>4. ASSUME NEW name \in DOMAIN cfg.backend, NEW s \in Specs
      PROVE  LET spec == cfg.backend[name].spec[s]
                 ss == specs(name, s)
             IN /\ <<spec.argv, spec.script>> =
                     LastSet([i \in 1..Len(ss) |-> IF Configured(ss[i]) THEN <<ss[i].argv, ss[i].script>>
                                                   ELSE <<<<>>, "">>], <<<<>>, "">>)
                /\ spec.timeout = LastSet([i \in 1..Len(ss) |-> ss[i].timeout], "")
  <2>1. /\ name \in DOMAIN Load(given).backend
        /\ cfg.backend[name] = Resolve(Load(given).backend[name])
        /\ Entries(name) \in Seq(STRING)
    BY <1>1, <1>4, Loads
  <2>2. QED
    BY <2>1, ResolveSpecs, Zenon DEF CommandOf
<1>5. HIDE DEF values, specs
<1>6. QED
  BY <1>3, <1>4, Zenon DEF Resolved, values, specs

------------------------------------------------------------------------------
(* Numbers *)

LEMMA NumberUnset ==
  ASSUME NEW f \in NumberFields
  PROVE  NotSet(f) = 0 /\ f \in Fields
<1>1. f \in {"port", "width", "height", "keyboard_layout", "ssh.port"}
  BY DEF NumberFields
<1>2. f \notin TextFields
  BY <1>1 DEF TextFields
<1>3. NotSet(f) = CASE f \in TextFields -> "" [] f \in NumberFields -> 0 [] f \in Switches -> FALSE
  BY DEF NotSet
<1>4. f \notin Switches
  BY <1>1 DEF Switches
<1>5. HIDE DEF NumberFields
<1>6. NotSet(f) = 0
  BY <1>2, <1>3, <1>4
<1>7. QED
  BY <1>6 DEF Fields

LEMMA OwnNumbers ==
  ASSUME given \in Givens, NEW name, NEW f \in NumberFields
  PROVE  OwnField(name, f) \in Nat
<1>1. DEFINE file == Says(given.file, name).field
             env == Says(given.env, name).field
             flags == FlagsOf(given, name)
             defaults == DefaultsOf(name)
             asked == Known(env, DOMAIN file \cup DOMAIN defaults)
<1>2. /\ f \in DOMAIN env => env[f] \in Nat
      /\ f \in DOMAIN flags => flags[f] \in Nat
      /\ f \in DOMAIN file => file[f] \in Nat
  <2>1. DOMAIN <<>> = {}
    OBVIOUS
  <2>2. QED
    BY <2>1, GivenAssumption DEF Says, FlagsOf
<1>3. NotSet(f) = 0
  BY NumberUnset
<1>4. f \in DOMAIN defaults => defaults[f] \in Nat
  BY DEF DefaultsOf, Defaults, NumberFields
<1>5. f \in DOMAIN asked => asked[f] \in Nat
  BY <1>2 DEF Known
<1>6. FieldLayers(name) = <<defaults, file, asked, flags>>
  BY Zenon DEF FieldLayers, DefaultsOf, FlagsOf
<1>7. HIDE DEF file, env, flags, asked, defaults
<1>8. OwnField(name, f) = Strongest(<<defaults, file, asked, flags>>, f)
  BY <1>6, Zenon DEF OwnField
<1>9. Strongest(<<defaults, file, asked, flags>>, f) =
        IF f \in DOMAIN flags THEN flags[f] ELSE Strongest(<<defaults, file, asked>>, f)
  BY StrongestOfFour, Zenon
<1>10. Strongest(<<defaults, file, asked>>, f) =
         IF f \in DOMAIN asked THEN asked[f]
         ELSE IF f \in DOMAIN file THEN file[f]
         ELSE IF f \in DOMAIN defaults THEN defaults[f] ELSE NotSet(f)
  BY StrongestOfThree, Zenon
<1>11. QED
  BY <1>2, <1>3, <1>4, <1>5, <1>8, <1>9, <1>10

\* No preset has a number.
LEMMA PresetNumbers ==
  ASSUME NEW name \in DOMAIN Preset, NEW f \in NumberFields
  PROVE  Preset[name].field[f] = 0
<1>1. /\ NotSet(f) = 0 /\ f \in Fields
      /\ f \notin DOMAIN [type |-> "command", timeout |-> "30s"] /\ f \notin DOMAIN <<>>
  <2>1. DOMAIN [type |-> "command", timeout |-> "30s"] = {"type", "timeout"} /\ DOMAIN <<>> = {}
    OBVIOUS
  <2>2. f \notin {"type", "timeout"}
    BY DEF NumberFields
  <2>3. QED
    BY <2>1, <2>2, NumberUnset
<1>2. \A fields, specs : f \notin DOMAIN fields => Backend(<<>>, fields, specs).field[f] = 0
  BY <1>1 DEF Backend, Over
<1>3. \E fields, specs : f \notin DOMAIN fields /\ Preset[name] = Backend(<<>>, fields, specs)
  <2>1. name \in {"command-base", "input-ydotool", "screenshot-spectacle"}
    BY DEF Preset
  <2>2. CASE name = "command-base"
    <3>1. Preset[name] = Backend(<<>>, [type |-> "command", timeout |-> "30s"], <<>>)
      BY <2>2 DEF Preset
    <3>2. QED
      BY <1>1, <3>1, Zenon
  <2>3. CASE name = "input-ydotool"
    <3>1. Preset[name] = Backend(<<>>, <<>>,
                           [s \in InputSpecs |-> [argv |-> <<"ydotool", s>>]])
      BY <2>3 DEF Preset
    <3>2. QED
      BY <1>1, <3>1, Zenon
  <2>4. CASE name = "screenshot-spectacle"
    <3>1. Preset[name] = Backend(<<>>, <<>>, [screenshot |-> [script |-> "spectacle"]])
      BY <2>4 DEF Preset
    <3>2. QED
      BY <1>1, <3>1, Zenon
  <2>5. QED
    BY <2>1, <2>2, <2>3, <2>4
<1>4. QED
  BY <1>2, <1>3, Zenon

LEMMA ExtensionNumbers ==
  ASSUME NEW b, Len(b.extends) \in Nat, Extendable(b), NEW f \in NumberFields
  PROVE  \A i \in 0..Len(b.extends) : Extension(b)[i].field[f] = 0
<1>1. DEFINE n == Len(b.extends)
             g == Extension(b)
             P(i) == Preset[PresetName(b.extends[i])]
             S == {i \in Nat : i <= n => g[i].field[f] = 0}
<1>2. NotSet(f) = 0 /\ f \in Fields
  BY NumberUnset
<1>3. g[0].field[f] = 0
  BY <1>2, ExtensionStep, NothingSet
<1>4. \A i \in Nat : i + 1 <= n => g[i + 1] = Merge(g[i], P(i + 1))
  BY ExtensionStep
<1>5. \A i \in 1..n : P(i).field[f] = 0
  BY PresetNumbers DEF Extendable
<1>6. HIDE DEF g, P
<1>7. ASSUME NEW i \in Nat, i \in S PROVE i + 1 \in S
  <2>1. SUFFICES ASSUME i + 1 <= n PROVE g[i + 1].field[f] = 0
    OBVIOUS
  <2>2. i + 1 \in 1..n /\ g[i].field[f] = 0
    BY <1>7, <2>1
  <2>3. g[i + 1] = Merge(g[i], P(i + 1)) /\ P(i + 1).field[f] = 0
    BY <1>4, <1>5, <2>1, <2>2
  <2>4. QED
    BY <1>2, <2>2, <2>3, MergeTakes
<1>8. 0 \in S
  BY <1>3
<1>9. Nat \subseteq S
  <2>1. HIDE DEF S
  <2>2. QED
    BY <1>7, <1>8, SetInduction
<1>10. \A i \in 0..n : g[i].field[f] = 0
  BY <1>9
<1>11. QED
  BY <1>10 DEF g

LEMMA CfgNumbers ==
  ASSUME CfgInv, stage \in {"resolved", "valid"}, NEW name \in DOMAIN cfg.backend, NEW f \in NumberFields
  PROVE  cfg.backend[name].field[f] \in Nat
<1>1. DEFINE own == Load(given).backend[name]
<1>2. /\ name \in DOMAIN Load(given).backend /\ given \in Givens
      /\ cfg.backend[name] = Resolve(own)
      /\ Entries(name) \in Seq(STRING)
  BY Loads DEF CfgInv
<1>3. own.extends = Entries(name) /\ own.field[f] = OwnField(name, f) /\ f \in Fields
  BY <1>2, LoadSays DEF Fields
<1>4. own.field[f] \in Nat
  BY <1>2, <1>3, OwnNumbers
<1>5. Extendable(own)
  BY <1>2 DEF CfgInv
<1>6. HIDE DEF own
<1>7. Len(own.extends) \in Nat
  BY <1>2, <1>3, LenProperties
<1>8. Extension(own)[Len(own.extends)].field[f] = 0
  <2>1. Len(own.extends) \in 0..Len(own.extends)
    BY <1>7
  <2>2. QED
    BY <1>5, <1>7, <2>1, ExtensionNumbers
<1>9. QED
  BY <1>2, <1>3, <1>4, <1>8, MergeTakes DEF Resolve

------------------------------------------------------------------------------
(* What validation has accepted *)

\* The start functions ask for less than validation does.
LEMMA ValidBackendStarts ==
  ASSUME NEW build, NEW b, NEW roles \in SUBSET {"input", "output"}, roles # {},
         ValidBackend(build, b, roles)
  PROVE  Starts(build, b, roles)
<1>1. Supported(build, Type(b)) /\ Type(b) \in BackendTypes
  BY DEF ValidBackend, Supported
<1>2. CASE Type(b) = "rdp"
  <2>1. \A f \in {"host", "username", "password"} : b.field[f] # ""
    BY <1>2 DEF ValidBackend, Trimmed
  <2>2. QED
    BY <1>1, <1>2, <2>1 DEF Starts, Supported
<1>3. CASE Type(b) = "vnc"
  BY <1>1, <1>3 DEF ValidBackend, Starts, Supported
<1>4. CASE Type(b) = "command"
  <2>1. ValidCommand(b, roles)
    BY <1>4 DEF ValidBackend
  <2>2. QED
    BY <1>4, <2>1 DEF Starts, ValidCommand, ValidSSH, DialsSSH
<1>5. CASE Type(b) = "kwin"
  BY <1>1, <1>5 DEF ValidBackend, Starts, Supported
<1>6. CASE Type(b) = "eis"
  BY <1>1, <1>6 DEF ValidBackend, Starts, Supported
<1>7. CASE Type(b) \in {"windows", "macos"}
  BY <1>1, <1>7 DEF Starts, Supported
<1>8. QED
  BY <1>1, <1>2, <1>3, <1>4, <1>5, <1>6, <1>7 DEF BackendTypes

LEMMA ValidCommandRenders ==
  ASSUME NEW build, NEW b, NEW roles, ValidBackend(build, b, roles), Type(b) = "command",
         NEW s \in Runs(b, roles), WellTemplated(b.spec[s])
  PROVE  Renders(b.spec[s])
<1>1. ValidCommand(b, roles)
  BY DEF ValidBackend
<1>2. s \in Specs
  BY DEF Runs, Specs, InputSpecs
<1>3. b.spec[s].argv = <<>> \/ Trimmed(b.spec[s].script) = ""
  BY <1>1, <1>2 DEF ValidCommand
<1>4. Configured(b.spec[s])
  BY <1>1 DEF Runs, ValidCommand
<1>5. QED
  BY <1>3, <1>4 DEF Renders

LEMMA ValidPorts ==
  ASSUME NEW build, NEW b, NEW roles, ValidBackend(build, b, roles),
         b.field["port"] \in Nat, b.field["ssh.port"] \in Nat
  PROVE  /\ Port(b, "port", 3389) \in {b.field["port"], 3389}
         /\ Type(b) = "command" => Port(b, "ssh.port", 22) \in {b.field["ssh.port"], 22}
<1>1. \A p \in Nat : p < 65536 => p % 65536 = p
  OBVIOUS
<1>2. b.field["port"] < 65536
  <2>1. PortOK(b.field["port"])
    BY DEF ValidBackend
  <2>2. QED
    BY <2>1 DEF PortOK
<1>3. Type(b) = "command" => b.field["ssh.port"] < 65536
  <2>1. SUFFICES ASSUME Type(b) = "command" PROVE b.field["ssh.port"] < 65536
    OBVIOUS
  <2>2. ValidSSH(b)
    BY <2>1 DEF ValidBackend, ValidCommand
  <2>3. CASE HasSSH(b)
    <3>1. PortOK(b.field["ssh.port"])
      BY <2>2, <2>3 DEF ValidSSH
    <3>2. QED
      BY <3>1 DEF PortOK
  <2>4. CASE ~HasSSH(b)
    <3>1. b.field["ssh.port"] = NotSet("ssh.port")
      BY <2>4 DEF HasSSH
    <3>2. NotSet("ssh.port") = 0
      BY NumberUnset DEF NumberFields
    <3>3. QED
      BY <3>1, <3>2
  <2>5. QED
    BY <2>3, <2>4
<1>4. QED
  BY <1>1, <1>2, <1>3 DEF Port

LEMMA ValidModes ==
  ASSUME NEW build, NEW b, NEW roles, ValidBackend(build, b, roles),
         Type(b) = "rdp", GraphicsMode(b) = "auto"
  PROVE  Lowered(Trimmed(b.field["graphics_mode"])) \in {"", "auto"}
<1>1. DEFINE m == Lowered(Trimmed(b.field["graphics_mode"]))
<1>2. m \in {"", "auto", "avc", "h264", "gfx", "graphics", "bitmap", "legacy"}
  BY DEF ValidBackend
<1>3. GraphicsMode(b) = CASE m \in {"avc", "h264"} -> "avc"
                          [] m \in {"gfx", "graphics"} -> "gfx"
                          [] m \in {"bitmap", "legacy"} -> "bitmap"
                          [] OTHER -> "auto"
  BY DEF GraphicsMode
<1>4. HIDE DEF m
<1>5. m \notin {"avc", "h264", "gfx", "graphics", "bitmap", "legacy"}
  BY <1>3
<1>6. QED
  BY <1>2, <1>5 DEF m

LEMMA CfgValidated == CfgInv => ValidatedStarts
<1>1. SUFFICES ASSUME CfgInv, stage = "valid" PROVE ValidatedStarts
  BY DEF ValidatedStarts
<1>2. Valid(given.build, cfg) /\ (mode = "serve" => Accepted(cfg.server.tokens))
  BY <1>1 DEF CfgInv, ValidServer
<1>3. DEFINE Commands(b, roles) ==
               \A s \in Runs(b, roles) : WellTemplated(b.spec[s]) => Renders(b.spec[s])
             SSHPort(b) == Port(b, "ssh.port", 22) \in {b.field["ssh.port"], 22}
             OwnPort(b) == Port(b, "port", 3389) \in {b.field["port"], 3389}
             Named(b) == Lowered(Trimmed(b.field["graphics_mode"])) \in {"", "auto"}
             Good(b, roles) ==
               /\ Starts(given.build, b, roles)
               /\ Type(b) = "command" => Commands(b, roles) /\ SSHPort(b)
               /\ OwnPort(b)
               /\ Type(b) = "rdp" /\ GraphicsMode(b) = "auto" => Named(b)
<1>4. ASSUME NEW b, NEW roles \in SUBSET {"input", "output"}, roles # {},
             ValidBackend(given.build, b, roles),
             b.field["port"] \in Nat, b.field["ssh.port"] \in Nat
      PROVE  Good(b, roles)
  <2>1. Starts(given.build, b, roles)
    BY <1>4, ValidBackendStarts
  <2>2. Type(b) = "command" => Commands(b, roles)
    BY <1>4, ValidCommandRenders
  <2>3. OwnPort(b) /\ (Type(b) = "command" => SSHPort(b))
    BY <1>4, ValidPorts
  <2>4. Type(b) = "rdp" /\ GraphicsMode(b) = "auto" => Named(b)
    BY <1>4, ValidModes
  <2>5. HIDE DEF Commands, SSHPort, OwnPort, Named
  <2>6. QED
    BY <2>1, <2>2, <2>3, <2>4
<1>5. ASSUME NEW name \in {InputName(cfg), OutputName(cfg)}
      PROVE  Good(cfg.backend[name], RolesOf(cfg, name))
  <2>1. DEFINE b == cfg.backend[name]
               roles == RolesOf(cfg, name)
  <2>2. ValidBackend(given.build, b, roles) /\ name \in DOMAIN cfg.backend
    BY <1>2, <1>5 DEF Valid
  <2>3. roles \in SUBSET {"input", "output"} /\ roles # {}
    BY <1>5 DEF RolesOf
  <2>4. b.field["port"] \in Nat /\ b.field["ssh.port"] \in Nat
    BY <1>1, <2>2, CfgNumbers DEF NumberFields
  <2>5. HIDE DEF b, roles, Good
  <2>6. Good(b, roles)
    BY <1>4, <2>2, <2>3, <2>4
  <2>7. QED
    BY <2>6 DEF b, roles
<1>6. ValidatedStarts <=>
        (stage = "valid" =>
          /\ \A name \in {InputName(cfg), OutputName(cfg)} : Good(cfg.backend[name], RolesOf(cfg, name))
          /\ mode = "serve" => Accepted(cfg.server.tokens))
  BY Zenon DEF ValidatedStarts
<1>7. HIDE DEF Good
<1>8. QED
  BY <1>2, <1>5, <1>6

------------------------------------------------------------------------------
\* ConfigurationInductive: the configuration is, at each stage, what was
\* given and what has been done with it (servercmd/command.go, 202-220).
THEOREM ConfigurationInductive == LaunchSpec => []CfgInv
<1>1. QED
  BY CfgInitInv, CfgNextInv, PTL DEF LaunchSpec

\* PresetsResolved: whatever presets a backend extends, and however many,
\* each of its fields and commands is that of the last source that sets it
\* (servercmd/command.go, 380-546).
THEOREM PresetsResolved == LaunchSpec => []Resolved
<1>1. QED
  BY ConfigurationInductive, CfgResolved, PTL

\* AcceptedStarts: no configuration that validation accepts is refused for
\* what it says by a start function, the SSH client, the authorizer or the
\* command of a request (servercmd/command.go, 582-811 and 930-1055).
THEOREM AcceptedStarts == LaunchSpec => []ValidatedStarts
<1>1. QED
  BY ConfigurationInductive, CfgValidated, PTL

================================================================================
