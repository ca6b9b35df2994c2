------------------------------- MODULE EisProofs -------------------------------
(***************************************************************************)
(* The safety properties of EisBackend, for any devices with any           *)
(* capabilities and any number of events.                                  *)
(***************************************************************************)
EXTENDS EisBackend, FiniteSetTheorems, SequenceTheorems, TLAPS

Event == [kind : {"resumed", "paused", "disconnect"}, device : Devices \cup {NoDevice}]

\* A device event names a device, and nothing follows the end of the
\* connection.
Orderly(q) ==
  \A i \in 1..Len(q) : IF q[i].kind = "disconnect" THEN i = Len(q) ELSE q[i].device \in Devices

Endless(q) == \A i \in 1..Len(q) : q[i].kind # "disconnect"

Queued ==
  /\ queue \in Seq(Event)
  /\ Orderly(queue)
  /\ link \in {"none", "up"} => Endless(queue)
  /\ IsFiniteSet(offered)

\* Once done is closed, or run is about to clean up, no event is left that
\* would make the backend ready again; and Close waits for run to be gone.
Ending ==
  /\ done => run \in {"dispatch", "cleanup", "gone"}
  /\ done /\ run = "dispatch" => queue = <<>> /\ link # "up" /\ ~ready
  /\ run \in {"cleanup", "gone"} => ~ready \/ closing
  /\ run \notin {"none", "gone"} => ei
  /\ closer \in {"telling", "told", "returned"} => run = "gone"
  /\ closer = "returned" => ~ready
  /\ new = "calling" => run = "none" /\ link = "none" /\ closer = "idle" /\ ~done

Shown ==
  /\ ready /\ ~closing => \A s \in Slots : slot[s] # NoDevice
  /\ regions = slot["pointer"]

IInv == TypeOK /\ Queued /\ Ending /\ DevicesOwned /\ Shown

------------------------------------------------------------------------------
(* References *)

LEMMA SlotsFinite ==
  ASSUME NEW T \in SUBSET Slots
  PROVE  IsFiniteSet(T) /\ Cardinality(T) \in Nat
<1>1. IsFiniteSet({"pointer", "button", "scroll", "keyboard"})
  <2>1. Slots = ((({} \cup {"pointer"}) \cup {"button"}) \cup {"scroll"}) \cup {"keyboard"}
    BY DEF Slots
  <2>2. IsFiniteSet((({} \cup {"pointer"}) \cup {"button"}) \cup {"scroll"})
    BY FS_EmptySet, FS_AddElement
  <2>3. QED
    BY <2>1, <2>2, FS_AddElement DEF Slots
<1>2. QED
  BY <1>1, FS_Subset, FS_CardinalityType DEF Slots

LEMMA Difference ==
  ASSUME NEW A \in SUBSET Slots, NEW B \in SUBSET Slots
  PROVE  Cardinality(B) = Cardinality(A) + Cardinality(B \ A) - Cardinality(A \ B)
<1>1. PICK C \in SUBSET Slots : A \cap B = C /\ B \cap A = C
  OBVIOUS
<1>2. /\ IsFiniteSet(A) /\ IsFiniteSet(B)
      /\ Cardinality(A) \in Nat /\ Cardinality(B) \in Nat /\ Cardinality(C) \in Nat
  BY SlotsFinite
<1>3. Cardinality(B \ A) = Cardinality(B) - Cardinality(C)
  BY <1>1, <1>2, FS_Difference
<1>4. Cardinality(A \ B) = Cardinality(A) - Cardinality(C)
  BY <1>1, <1>2, FS_Difference
<1>5. QED
  BY <1>2, <1>3, <1>4

\* Taking the references that come and dropping those that go keeps one for
\* each slot.
LEMMA RerefBalances ==
  ASSUME RefsBalanced, Reref
  PROVE  RefsBalanced' /\ refs' \in [Devices -> Nat]
<1>1. ASSUME NEW d \in Devices
      PROVE  refs'[d] = Cardinality({s \in Slots : slot'[s] = d}) /\ refs'[d] \in Nat
  <2>1. PICK A \in SUBSET Slots : A = {s \in Slots : slot[s] = d}
    OBVIOUS
  <2>2. PICK B \in SUBSET Slots : B = {s \in Slots : slot'[s] = d}
    OBVIOUS
  <2>3. /\ {s \in Slots : slot[s] # d /\ slot'[s] = d} = B \ A
        /\ {s \in Slots : slot[s] = d /\ slot'[s] # d} = A \ B
    BY <2>1, <2>2
  <2>4. refs'[d] = refs[d] + Cardinality({s \in Slots : slot[s] # d /\ slot'[s] = d})
                           - Cardinality({s \in Slots : slot[s] = d /\ slot'[s] # d})
    BY DEF Reref
  <2>5. refs'[d] = Cardinality(A) + Cardinality(B \ A) - Cardinality(A \ B)
    BY <2>1, <2>3, <2>4 DEF RefsBalanced
  <2>6. refs'[d] = Cardinality(B) /\ Cardinality(B) \in Nat
    BY <2>5, Difference, SlotsFinite
  <2>7. QED
    BY <2>2, <2>6
<1>2. refs' \in [Devices -> Nat]
  BY <1>1 DEF Reref
<1>3. QED
  BY <1>1, <1>2 DEF RefsBalanced

------------------------------------------------------------------------------
(* Events *)

LEMMA EventsQueued ==
  ASSUME NEW q \in Seq(Event), Orderly(q), Endless(q), NEW e \in Event,
         e.kind # "disconnect" => e.device \in Devices
  PROVE  LET r == Append(q, e)
         IN  /\ r \in Seq(Event)
             /\ Orderly(r)
             /\ e.kind # "disconnect" => Endless(r)
<1>1. DEFINE r == Append(q, e)
<1>2. /\ r \in Seq(Event) /\ Len(r) = Len(q) + 1 /\ r[Len(q) + 1] = e
      /\ \A i \in 1..Len(q) : r[i] = q[i]
      /\ Len(q) \in Nat
  BY AppendProperties, LenProperties
<1>3. \A i \in 1..Len(r) : i \in 1..Len(q) \/ i = Len(r)
  BY <1>2
<1>4. HIDE DEF r
<1>5. Orderly(r)
  <2>1. ASSUME NEW i \in 1..Len(r)
        PROVE  IF r[i].kind = "disconnect" THEN i = Len(r) ELSE r[i].device \in Devices
    <3>1. CASE i \in 1..Len(q)
      BY <1>2, <3>1 DEF Orderly, Endless
    <3>2. CASE i = Len(r)
      BY <1>2, <3>2
    <3>3. QED
      BY <1>3, <2>1, <3>1, <3>2
  <2>2. QED
    BY <2>1 DEF Orderly
<1>6. e.kind # "disconnect" => Endless(r)
  BY <1>2, <1>3 DEF Endless
<1>7. QED
  BY <1>2, <1>5, <1>6 DEF r

\* What KWin sends when it goes: every device, and then the end.
LEMMA FarewellQueued ==
  ASSUME NEW q \in Seq(Event), Orderly(q), Endless(q),
         NEW n \in Nat, NEW order \in [1..n -> Devices]
  PROVE  LET r == q \o [i \in DOMAIN order |-> [kind |-> "paused", device |-> order[i]]]
                    \o <<[kind |-> "disconnect", device |-> NoDevice]>>
         IN  r \in Seq(Event) /\ Orderly(r)
<1>1. DEFINE f == [i \in DOMAIN order |-> [kind |-> "paused", device |-> order[i]]]
             e == [kind |-> "disconnect", device |-> NoDevice]
             p == q \o f
<1>2. f \in [1..n -> Event] /\ \A i \in 1..n : f[i].kind = "paused" /\ f[i].device \in Devices
  BY DEF Event
<1>3. e \in Event /\ e.kind = "disconnect"
  BY DEF Event
<1>4. HIDE DEF f, e
<1>5. f \in Seq(Event)
  BY <1>2, SeqDef
<1>6. Len(f) = n
  BY <1>2, <1>5, LenProperties
<1>7. /\ p \in Seq(Event) /\ Len(p) = Len(q) + n /\ Len(q) \in Nat
      /\ \A i \in 1..Len(q) + n : p[i] = IF i <= Len(q) THEN q[i] ELSE f[i - Len(q)]
  BY <1>5, <1>6, ConcatProperties, LenProperties
<1>8. \A i \in 1..Len(p) : p[i].kind # "disconnect" /\ p[i].device \in Devices
  <2>1. TAKE i \in 1..Len(p)
  <2>2. CASE i <= Len(q)
    BY <1>7, <2>2 DEF Orderly, Endless
  <2>3. CASE ~(i <= Len(q))
    <3>1. i - Len(q) \in 1..n
      BY <1>7, <2>3
    <3>2. QED
      BY <1>2, <1>7, <2>3, <3>1
  <2>4. QED
    BY <2>2, <2>3
<1>9. Orderly(p) /\ Endless(p)
  BY <1>8 DEF Orderly, Endless
<1>10. p \o <<e>> = Append(p, e)
  BY <1>3, <1>7, AppendIsConcat
<1>11. HIDE DEF p
<1>12. Append(p, e) \in Seq(Event) /\ Orderly(Append(p, e))
  BY <1>3, <1>7, <1>9, EventsQueued
<1>13. QED
  BY <1>10, <1>12 DEF p, f, e

LEMMA TailQueued ==
  ASSUME NEW q \in Seq(Event), q # <<>>, Orderly(q)
  PROVE  /\ Tail(q) \in Seq(Event)
         /\ Orderly(Tail(q))
         /\ Endless(q) => Endless(Tail(q)) /\ Head(q).kind # "disconnect"
         /\ Head(q) \in Event
         /\ IF Head(q).kind = "disconnect" THEN Tail(q) = <<>> ELSE Head(q).device \in Devices
<1>1. DEFINE r == Tail(q)
<1>2. /\ r \in Seq(Event) /\ Len(r) = Len(q) - 1 /\ Head(q) \in Event /\ Len(q) \in Nat \ {0}
      /\ \A i \in 1..Len(r) : r[i] = q[i + 1]
  BY HeadTailProperties, EmptySeq
<1>3. Head(q) = q[1] /\ 1 \in 1..Len(q)
  BY <1>2
<1>4. r = <<>> <=> Len(q) = 1
  BY <1>2, EmptySeq
<1>5. HIDE DEF r
<1>6. Orderly(r) /\ (Endless(q) => Endless(r))
  BY <1>2 DEF Orderly, Endless
<1>7. IF Head(q).kind = "disconnect" THEN r = <<>> ELSE Head(q).device \in Devices
  BY <1>3, <1>4 DEF Orderly
<1>8. Endless(q) => Head(q).kind # "disconnect"
  BY <1>3 DEF Endless
<1>9. QED
  BY <1>2, <1>6, <1>7, <1>8 DEF r

------------------------------------------------------------------------------
(* The initial state *)

LEMMA InitInv == Init => IInv
<1>1. SUFFICES ASSUME Init PROVE IInv
  OBVIOUS
<1>2. queue \in Seq(Event) /\ Len(queue) = 0
  BY <1>1 DEF Init
<1>3. TypeOK
  <2>1. sent \in 0..MaxEvents /\ refs \in [Devices -> Nat]
        /\ slot \in [Slots -> Devices \cup {NoDevice}]
    BY <1>1, EventAssumption DEF Init
  <2>2. QED
    BY <1>1, <1>2, <2>1 DEF Init, TypeOK, ThreadsOK, Event
<1>4. Queued
  BY <1>1, <1>2, FS_EmptySet DEF Init, Queued, Orderly, Endless
<1>5. Ending
  BY <1>1 DEF Init, Ending
<1>6. DevicesOwned
  <2>1. OnlyLive
    BY <1>1 DEF Init, OnlyLive
  <2>2. ASSUME NEW d \in Devices
        PROVE  refs[d] = Cardinality({s \in Slots : slot[s] = d})
    <3>1. {s \in Slots : slot[s] = d} = {}
      BY <1>1, DeviceAssumption DEF Init
    <3>2. QED
      BY <1>1, <3>1, FS_EmptySet DEF Init
  <2>3. QED
    BY <2>1, <2>2 DEF DevicesOwned, RefsBalanced
<1>7. Shown
  BY <1>1 DEF Init, Shown, Slots
<1>8. QED
  BY <1>3, <1>4, <1>5, <1>6, <1>7 DEF IInv

------------------------------------------------------------------------------
(* KWin *)

LEMMA KWinStep ==
  ASSUME IInv, KWin
  PROVE  IInv'
<1>1. UNCHANGED <<deviceVars, statusVars, threadVars>>
  BY DEF KWin, Offer, Disconnect, Break
<1>2. DevicesOwned' /\ Shown'
  BY <1>1 DEF IInv, DevicesOwned, OnlyLive, RefsBalanced, Shown, deviceVars, statusVars, threadVars
<1>3. ASSUME NEW d \in Devices, NEW kind \in {"resumed", "paused"}, Offer(kind, d)
      PROVE  Queued' /\ sent' \in 0..MaxEvents /\ offered' \subseteq Devices /\ link' = "up"
             /\ link = "up"
  <2>1. [kind |-> kind, device |-> d] \in Event
    BY DEF Event
  <2>2. queue' \in Seq(Event) /\ Orderly(queue)' /\ Endless(queue)'
    BY <1>3, <2>1, EventsQueued DEF IInv, Queued, Offer
  <2>3. IsFiniteSet(offered')
    BY <1>3, FS_AddElement, FS_RemoveElement DEF IInv, Queued, Offer
  <2>4. QED
    BY <1>3, <2>2, <2>3, EventAssumption DEF IInv, TypeOK, Queued, Offer
<1>4. ASSUME Disconnect
      PROVE  Queued' /\ sent' = sent /\ offered' \subseteq Devices /\ link' = "left" /\ link = "up"
  <2>1. Cardinality(offered) \in Nat
    BY FS_CardinalityType DEF IInv, Queued
  <2>2. PICK order \in [1..Cardinality(offered) -> offered] :
          queue' = queue
                   \o [i \in DOMAIN order |-> [kind |-> "paused", device |-> order[i]]]
                   \o <<[kind |-> "disconnect", device |-> NoDevice]>>
    BY <1>4 DEF Disconnect
  <2>3. order \in [1..Cardinality(offered) -> Devices]
    BY DEF IInv, TypeOK
  <2>4. queue' \in Seq(Event) /\ Orderly(queue)'
    BY <1>4, <2>1, <2>2, <2>3, FarewellQueued DEF IInv, Queued, Disconnect
  <2>5. QED
    BY <1>4, <2>4, FS_EmptySet DEF Queued, Disconnect
<1>5. ASSUME Break
      PROVE  Queued' /\ sent' = sent /\ offered' \subseteq Devices /\ link' = "broken"
             /\ queue' = queue /\ link \in {"up", "left"}
  BY <1>5 DEF IInv, TypeOK, Queued, Break
<1>6. Queued' /\ sent' \in 0..MaxEvents /\ offered' \subseteq Devices
      /\ link' \in {"up", "left", "broken"} /\ link # "none"
  BY <1>3, <1>4, <1>5 DEF KWin, IInv, TypeOK
<1>7. TypeOK'
  <2>1. queue' \in Seq(Event)
    BY <1>6 DEF Queued
  <2>2. ThreadsOK'
    BY <1>1 DEF IInv, TypeOK, ThreadsOK, threadVars
  <2>3. QED
    BY <1>1, <1>6, <2>1, <2>2 DEF IInv, TypeOK, Event, deviceVars, statusVars
<1>8. Ending'
  <2>1. done /\ run = "dispatch" => queue' = <<>> /\ link' # "up"
    BY <1>3, <1>4, <1>5 DEF KWin, IInv, Ending
  <2>2. QED
    BY <1>1, <1>6, <2>1 DEF IInv, Ending, deviceVars, statusVars, threadVars
<1>9. QED
  BY <1>2, <1>6, <1>7, <1>8 DEF IInv

------------------------------------------------------------------------------
(* Events *)

LEMMA AddStep ==
  ASSUME IInv, run = "dispatch", NEW d \in Devices, AddDevice(d), UNCHANGED closing
  PROVE  DevicesOwned' /\ Shown' /\ refs' \in [Devices -> Nat]
<1>1. slot' = [s \in Slots |-> IF s \in Caps[d] THEN d ELSE slot[s]] /\ live' = live \cup {d} /\ ei'
  BY DEF IInv, Ending, AddDevice, Filled
<1>2. OnlyLive'
  BY <1>1 DEF IInv, DevicesOwned, OnlyLive
<1>3. RefsBalanced' /\ refs' \in [Devices -> Nat]
  BY RerefBalances DEF IInv, DevicesOwned, AddDevice
<1>4. regions' = slot'["pointer"]
  <2>1. "pointer" \in Slots
    BY DEF Slots
  <2>2. QED
    BY <1>1, <2>1 DEF IInv, Shown, AddDevice
<1>5. ready' /\ ~closing => \A s \in Slots : slot'[s] # NoDevice
  BY <1>1, DeviceAssumption DEF IInv, Shown, AddDevice
<1>6. QED
  BY <1>2, <1>3, <1>4, <1>5 DEF DevicesOwned, Shown

LEMMA RemoveStep ==
  ASSUME IInv, run = "dispatch", NEW d \in Devices, RemoveDevice(d)
  PROVE  DevicesOwned' /\ Shown' /\ refs' \in [Devices -> Nat]
<1>1. slot' = [s \in Slots |-> IF slot[s] = d THEN NoDevice ELSE slot[s]]
      /\ live' = live \ {d} /\ ei' /\ ~ready'
  BY DEF IInv, Ending, RemoveDevice, Cleared
<1>2. OnlyLive'
  BY <1>1, DeviceAssumption DEF IInv, DevicesOwned, OnlyLive
<1>3. RefsBalanced' /\ refs' \in [Devices -> Nat]
  BY RerefBalances DEF IInv, DevicesOwned, RemoveDevice
<1>4. regions' = slot'["pointer"]
  <2>1. "pointer" \in Slots
    BY DEF Slots
  <2>2. slot'["pointer"] # NoDevice => slot'["pointer"] = slot["pointer"]
    BY <1>1, <2>1
  <2>3. QED
    BY <2>2 DEF IInv, Shown, RemoveDevice
<1>5. QED
  BY <1>1, <1>2, <1>3, <1>4 DEF DevicesOwned, Shown

LEMMA EventStep ==
  ASSUME IInv, HandleEvent
  PROVE  IInv'
<1>1. run = "dispatch" /\ queue # <<>> /\ queue' = Tail(queue)
      /\ UNCHANGED <<offered, sent, link, closing, run, hup, new, closer>>
  BY DEF HandleEvent, threadVars
<1>2. ~done /\ ei
  BY <1>1 DEF IInv, Ending
<1>3. /\ Queued'
      /\ link \in {"none", "up"} => Head(queue).kind # "disconnect"
      /\ IF Head(queue).kind = "disconnect" THEN Tail(queue) = <<>> ELSE Head(queue).device \in Devices
  BY <1>1, TailQueued DEF IInv, Queued
<1>4. ThreadsOK'
  BY <1>1 DEF IInv, TypeOK, ThreadsOK
<1>5. CASE Head(queue).kind = "resumed" /\ AddDevice(Head(queue).device)
  <2>1. PICK d \in Devices : d = Head(queue).device /\ AddDevice(d)
    BY <1>3, <1>5
  <2>2. DevicesOwned' /\ Shown' /\ refs' \in [Devices -> Nat]
    BY <1>1, <2>1, AddStep
  <2>3. TypeOK'
    <3>1. slot' \in [Slots -> Devices \cup {NoDevice}] /\ live' \subseteq Devices
      BY <2>1 DEF IInv, TypeOK, AddDevice, Filled
    <3>2. queue' \in Seq(Event)
      BY <1>3 DEF Queued
    <3>3. regions' \in Devices \cup {NoDevice} /\ UNCHANGED <<ei, done>>
          /\ ready' \in BOOLEAN /\ runErr' \in BOOLEAN /\ readied' \in BOOLEAN
      BY <2>1 DEF IInv, TypeOK, AddDevice
    <3>4. QED
      BY <1>1, <1>4, <2>2, <3>1, <3>2, <3>3 DEF IInv, TypeOK, Event
  <2>4. Ending'
    BY <1>1, <1>2, <2>1 DEF IInv, Ending, AddDevice
  <2>5. QED
    BY <1>3, <2>2, <2>3, <2>4 DEF IInv
<1>6. CASE Head(queue).kind = "paused" /\ RemoveDevice(Head(queue).device)
  <2>1. PICK d \in Devices : d = Head(queue).device /\ RemoveDevice(d)
    BY <1>3, <1>6
  <2>2. DevicesOwned' /\ Shown' /\ refs' \in [Devices -> Nat]
    BY <1>1, <2>1, RemoveStep
  <2>3. TypeOK'
    <3>1. slot' \in [Slots -> Devices \cup {NoDevice}] /\ live' \subseteq Devices
      BY <2>1 DEF IInv, TypeOK, RemoveDevice, Cleared
    <3>2. queue' \in Seq(Event)
      BY <1>3 DEF Queued
    <3>3. QED
      BY <1>1, <1>4, <2>1, <2>2, <3>1, <3>2 DEF IInv, TypeOK, RemoveDevice, Event
  <2>4. Ending'
    BY <1>1, <1>2, <2>1 DEF IInv, Ending, RemoveDevice
  <2>5. QED
    BY <1>3, <2>2, <2>3, <2>4 DEF IInv
<1>7. CASE Head(queue).kind = "disconnect" /\ Finish(~closing) /\ UNCHANGED <<deviceVars, readied>>
  <2>1. UNCHANGED <<live, slot, refs, regions, ei, readied>> /\ runErr' = ~closing /\ ~ready' /\ done'
    BY <1>7 DEF Finish, deviceVars
  <2>2. DevicesOwned' /\ Shown'
    BY <1>1, <2>1 DEF IInv, DevicesOwned, OnlyLive, RefsBalanced, Shown
  <2>3. TypeOK'
    <3>1. queue' \in Seq(Event)
      BY <1>3 DEF Queued
    <3>2. runErr' \in BOOLEAN /\ ready' = FALSE /\ done' = TRUE
      BY <1>7 DEF Finish, IInv, TypeOK
    <3>3. QED
      BY <1>1, <1>4, <2>1, <3>1, <3>2 DEF IInv, TypeOK, Event
  <2>4. Ending'
    BY <1>1, <1>2, <1>3, <1>7, <2>1 DEF IInv, Ending
  <2>5. QED
    BY <1>3, <2>2, <2>3, <2>4 DEF IInv
<1>8. QED
  BY <1>5, <1>6, <1>7 DEF HandleEvent

------------------------------------------------------------------------------
(* The rest of run, New and Close: the devices change in Cleanup only *)

LEMMA LoopStep ==
  ASSUME IInv, RunTop \/ Poll \/ PollFails \/ RunAfter
  PROVE  IInv'
<1>1. UNCHANGED <<kwinVars, deviceVars, closing, new, closer, readied>>
  BY DEF RunTop, Poll, PollFails, RunAfter, Goto, Finish, statusVars
<1>2. Queued'
  BY <1>1 DEF IInv, Queued, kwinVars, Orderly, Endless
<1>3. DevicesOwned'
  BY <1>1 DEF IInv, DevicesOwned, OnlyLive, RefsBalanced, deviceVars
<1>4. ready' => ready
  BY DEF RunTop, Poll, PollFails, RunAfter, Finish, statusVars
<1>5. Shown'
  BY <1>1, <1>4 DEF IInv, Shown, deviceVars
<1>6. /\ run' \in {"top", "poll", "dispatch", "cleanup"} /\ hup' \in BOOLEAN
      /\ runErr' \in BOOLEAN /\ ready' \in BOOLEAN /\ done' \in BOOLEAN
  BY DEF IInv, TypeOK, ThreadsOK, RunTop, Poll, PollFails, RunAfter, Goto, Finish, statusVars
<1>7. TypeOK'
  <2>1. ThreadsOK'
    BY <1>1, <1>6 DEF IInv, TypeOK, ThreadsOK
  <2>2. QED
    BY <1>1, <1>6, <2>1 DEF IInv, TypeOK, kwinVars, deviceVars
<1>8. Ending'
  BY <1>1 DEF IInv, Ending, RunTop, Poll, PollFails, RunAfter, Goto, Finish, statusVars,
              kwinVars, deviceVars
<1>9. QED
  BY <1>2, <1>3, <1>5, <1>7, <1>8 DEF IInv

LEMMA CleanupStep ==
  ASSUME IInv, Cleanup
  PROVE  IInv'
<1>1. /\ slot' = [s \in Slots |-> NoDevice] /\ regions' = NoDevice /\ ei' = FALSE
      /\ done' = TRUE /\ run' = "gone"
      /\ UNCHANGED <<live, hup, kwinVars, ready, runErr, readied, closing, new, closer>>
  BY DEF Cleanup, Goto
<1>2. \A d \in Devices : refs'[d] = 0 /\ {s \in Slots : slot'[s] = d} = {}
  <2>1. TAKE d \in Devices
  <2>2. {s \in Slots : slot'[s] = d} = {}
    BY <1>1, DeviceAssumption
  <2>3. refs'[d] = refs[d] - Cardinality({s \in Slots : slot[s] = d})
    BY DEF Cleanup
  <2>4. refs[d] = Cardinality({s \in Slots : slot[s] = d}) /\ refs[d] \in Nat
    BY DEF IInv, TypeOK, DevicesOwned, RefsBalanced
  <2>5. QED
    BY <2>2, <2>3, <2>4
<1>3. DevicesOwned'
  <2>1. OnlyLive'
    BY <1>1 DEF OnlyLive
  <2>2. RefsBalanced'
    BY <1>2, FS_EmptySet DEF RefsBalanced
  <2>3. QED
    BY <2>1, <2>2 DEF DevicesOwned
<1>4. refs' \in [Devices -> Nat]
  BY <1>2 DEF Cleanup
<1>5. TypeOK'
  <2>1. ThreadsOK'
    BY <1>1 DEF IInv, TypeOK, ThreadsOK
  <2>2. QED
    BY <1>1, <1>4, <2>1 DEF IInv, TypeOK, kwinVars
<1>6. Queued'
  BY <1>1 DEF IInv, Queued, kwinVars, Orderly, Endless
<1>7. (~ready \/ closing) /\ new # "calling" /\ (closer = "returned" => ~ready)
  BY DEF IInv, Ending, Cleanup
<1>8. Ending'
  BY <1>1, <1>7 DEF Ending
<1>9. Shown'
  BY <1>1, <1>7 DEF Shown, Slots
<1>10. QED
  BY <1>3, <1>5, <1>6, <1>8, <1>9 DEF IInv

LEMMA OwnerStep ==
  ASSUME IInv, Owner \/ CloseIsTold
  PROVE  IInv'
<1>1. UNCHANGED <<kwinVars, deviceVars, runErr, readied, run, hup>>
  BY DEF Owner, NewSelects, NewTimesOut, CloseBegin, CloseTells, CloseIsTold, CloseGoes, CloseEnd,
         statusVars
<1>2. Queued' /\ DevicesOwned'
  BY <1>1 DEF IInv, Queued, kwinVars, Orderly, Endless, DevicesOwned, OnlyLive, RefsBalanced,
              deviceVars
<1>3. /\ ready' \in BOOLEAN /\ done' \in BOOLEAN /\ closing' \in BOOLEAN
      /\ new' \in {"calling", "waiting", "expired", "usable", "failed", "timeout"}
      /\ closer' \in {"idle", "waiting", "telling", "told", "returned"}
  BY DEF IInv, TypeOK, ThreadsOK, Owner, NewSelects, NewTimesOut, CloseBegin, CloseTells, CloseIsTold,
         CloseGoes, CloseEnd, statusVars
<1>4. TypeOK'
  <2>1. ThreadsOK'
    BY <1>1, <1>3 DEF IInv, TypeOK, ThreadsOK
  <2>2. QED
    BY <1>1, <1>3, <2>1 DEF IInv, TypeOK, kwinVars, deviceVars
<1>5. (ready' => ready) /\ (closing => closing')
  BY DEF Owner, NewSelects, NewTimesOut, CloseBegin, CloseTells, CloseIsTold, CloseGoes, CloseEnd,
         statusVars
<1>6. Shown'
  BY <1>1, <1>5 DEF IInv, Shown, deviceVars
<1>7. done' => done \/ run = "gone"
  BY DEF Owner, NewSelects, NewTimesOut, CloseBegin, CloseTells, CloseIsTold, CloseGoes, CloseEnd,
         statusVars, IInv, Ending
<1>8. /\ closer' \in {"telling", "told", "returned"} => run = "gone"
      /\ closer' = "returned" => ~ready'
      /\ new' = "calling" => new = "calling" /\ closer' = closer /\ done' = done
  BY DEF Owner, NewSelects, NewTimesOut, CloseBegin, CloseTells, CloseIsTold, CloseGoes, CloseEnd,
         statusVars, IInv, Ending
<1>9. Ending'
  BY <1>1, <1>5, <1>7, <1>8 DEF IInv, Ending, deviceVars, kwinVars
<1>10. QED
  BY <1>2, <1>4, <1>6, <1>9 DEF IInv

LEMMA ConnectStep ==
  ASSUME IInv, NEW ok \in BOOLEAN, ConnectToEIS(ok)
  PROVE  IInv'
<1>1. /\ UNCHANGED <<offered, queue, sent, live, slot, refs, regions, statusVars, closing, hup, closer>>
      /\ new = "calling" /\ run = "none" /\ link = "none" /\ closer = "idle" /\ ~done
      /\ \/ new' = "waiting" /\ link' = "up" /\ ei' = TRUE /\ run' = "top"
         \/ new' = "failed" /\ UNCHANGED <<link, ei, run>>
  BY DEF ConnectToEIS, IInv, Ending
<1>2. Queued'
  BY <1>1 DEF IInv, Queued, Orderly, Endless
<1>3. DevicesOwned' /\ Shown'
  BY <1>1 DEF IInv, DevicesOwned, OnlyLive, RefsBalanced, Shown, statusVars
<1>4. TypeOK'
  <2>1. ThreadsOK'
    BY <1>1 DEF IInv, TypeOK, ThreadsOK
  <2>2. QED
    BY <1>1, <2>1 DEF IInv, TypeOK, statusVars
<1>5. Ending'
  BY <1>1 DEF IInv, Ending, statusVars
<1>6. QED
  BY <1>2, <1>3, <1>4, <1>5 DEF IInv

LEMMA NextInv == IInv /\ [Next]_vars => IInv'
<1>1. SUFFICES ASSUME IInv, [Next]_vars PROVE IInv'
  OBVIOUS
<1>2. CASE UNCHANGED vars
  BY <1>1, <1>2 DEF IInv, TypeOK, ThreadsOK, Queued, Orderly, Endless, Ending, DevicesOwned, OnlyLive,
                    RefsBalanced, Shown, vars, kwinVars, deviceVars, statusVars, threadVars
<1>3. QED
  BY <1>1, <1>2, KWinStep, EventStep, LoopStep, CleanupStep, OwnerStep, ConnectStep
     DEF Next, Run, Answer

\* The invariant holds throughout: events come in the order KWin sends them,
\* and after the end of the connection nothing makes the backend ready again
\* (backend.go, 242-345).
THEOREM Inductive == Spec => []IInv
BY InitInv, NextInv, PTL DEF Spec

\* The types of the backend's variables; a reference count is never negative.
THEOREM BackendTyped == Spec => []TypeOK
<1>1. IInv => TypeOK
  BY DEF IInv
<1>2. QED
  BY <1>1, Inductive, PTL

\* Input goes to devices that KWin has not taken back and that have the
\* capability, and each is referenced once per slot it fills, in whatever
\* order devices come and go (backend.go, 352-446).
THEOREM SlotsOwnDevices == Spec => []DevicesOwned
<1>1. IInv => DevicesOwned
  BY DEF IInv
<1>2. QED
  BY <1>1, Inductive, PTL

\* A backend that shows itself ready has a live device for each kind of input
\* until it is closed, is never ready again after that, and maps coordinates with the regions of the one that
\* moves the pointer (backend.go, 352-391, 493-512).
THEOREM ReadyHasDevices == Spec => []StatusFollows
<1>1. IInv => StatusFollows
  <2>1. SUFFICES ASSUME IInv PROVE StatusFollows
    OBVIOUS
  <2>2. ASSUME ready, ~closing PROVE ei /\ \A s \in Slots : slot[s] \in live
    <3>1. \A s \in Slots : slot[s] # NoDevice
      BY <2>1, <2>2 DEF IInv, Shown
    <3>2. "pointer" \in Slots
      BY DEF Slots
    <3>3. QED
      BY <2>1, <3>1, <3>2 DEF IInv, DevicesOwned, OnlyLive
  <2>3. QED
    BY <2>1, <2>2 DEF IInv, Ending, Shown, StatusFollows, ReadyIsUsable, RegionsFollow
<1>2. QED
  BY <1>1, Inductive, PTL

------------------------------------------------------------------------------
(* The backend is a resource *)

\* An error is there only when the backend has ended, and so it has when its
\* goroutine is gone.
Final ==
  /\ runErr => done
  /\ run = "gone" => done

LEMMA FinalNext ==
  ASSUME IInv, Final, [Next]_vars
  PROVE  Final'
<1>1. CASE KWin \/ Owner \/ CloseIsTold
  <2>1. run' = run /\ runErr' = runErr /\ done' \in {done, TRUE}
    BY <1>1 DEF KWin, Offer, Disconnect, Break, Owner, NewSelects, NewTimesOut, CloseBegin,
                CloseTells, CloseIsTold, CloseGoes, CloseEnd, statusVars, threadVars
  <2>2. QED
    BY <2>1 DEF Final
<1>2. CASE \E ok \in BOOLEAN : ConnectToEIS(ok)
  BY <1>2 DEF Final, ConnectToEIS, IInv, Ending, statusVars
<1>3. CASE HandleEvent
  BY <1>3 DEF Final, HandleEvent, AddDevice, RemoveDevice, Finish, threadVars
<1>4. CASE RunTop \/ Poll \/ PollFails \/ RunAfter \/ Cleanup
  BY <1>4 DEF Final, RunTop, Poll, PollFails, RunAfter, Cleanup, Goto, Finish, statusVars
<1>5. CASE UNCHANGED vars
  BY <1>5 DEF Final, vars, statusVars, threadVars
<1>6. QED
  BY <1>1, <1>2, <1>3, <1>4, <1>5 DEF Next, Run, Answer

LEMMA StepPromise ==
  ASSUME IInv, Final, [Next]_vars
  PROVE  [Promise!Next]_Promise!vars
<1>1. CASE KWin \/ NewSelects \/ NewTimesOut \/ CloseTells \/ CloseIsTold
  <2>1. UNCHANGED <<done, run, runErr>> /\ UNCHANGED (closer = "returned")
        /\ (closer \in {"waiting", "telling", "told"} <=> closer' \in {"waiting", "telling", "told"})
    BY <1>1 DEF KWin, Offer, Disconnect, Break, NewSelects, NewTimesOut, CloseTells, CloseIsTold,
                CloseGoes, statusVars, threadVars
  <2>2. QED
    BY <2>1 DEF Promise!vars
<1>2. CASE \E ok \in BOOLEAN : ConnectToEIS(ok)
  <2>1. UNCHANGED <<done, runErr, closer>> /\ ~done
    BY <1>2 DEF ConnectToEIS, IInv, Ending, statusVars
  <2>2. QED
    BY <2>1 DEF Promise!vars
<1>3. CASE HandleEvent
  <2>1. ~done /\ ~runErr /\ runErr \in BOOLEAN /\ run = "dispatch"
    BY <1>3 DEF HandleEvent, IInv, TypeOK, Ending, Final
  <2>2. UNCHANGED <<closer, run>>
    BY <1>3 DEF HandleEvent, threadVars
  <2>3. runErr' \in {runErr, FALSE} \/ runErr' = ~closing
    BY <1>3 DEF HandleEvent, AddDevice, RemoveDevice, Finish
  <2>4. runErr' \in {runErr, TRUE}
    BY <2>1, <2>3 DEF IInv, TypeOK
  <2>5. QED
    BY <2>1, <2>2, <2>4 DEF Promise!vars, Promise!Next, Promise!Fail
<1>4. CASE RunTop \/ Poll \/ PollFails \/ RunAfter
  <2>1. UNCHANGED closer /\ run # "gone" /\ run' # "gone"
    BY <1>4 DEF RunTop, Poll, PollFails, RunAfter, Goto
  <2>2. runErr' \in {runErr, TRUE}
    BY <1>4 DEF RunTop, Poll, PollFails, RunAfter, Finish, statusVars
  <2>3. QED
    BY <2>1, <2>2 DEF Promise!vars, Promise!Next, Promise!Fail
<1>5. CASE Cleanup
  <2>1. UNCHANGED <<closer, runErr>> /\ done' /\ run' = "gone"
    BY <1>5 DEF Cleanup, Goto
  <2>2. QED
    BY <2>1 DEF Promise!Next, Promise!End
<1>6. CASE CloseBegin
  <2>1. closer = "idle" /\ closer' = "waiting" /\ UNCHANGED <<done, run, runErr>>
    BY <1>6 DEF CloseBegin, statusVars
  <2>2. QED
    BY <2>1 DEF Promise!Next, Promise!CallClose
<1>7. CASE CloseEnd
  <2>1. closer = "told" /\ closer' = "returned" /\ done = TRUE /\ run = "gone"
        /\ UNCHANGED <<done, run, runErr>>
    BY <1>7 DEF CloseEnd, Final, IInv, TypeOK, Ending
  <2>2. QED
    BY <2>1 DEF Promise!Next, Promise!ReturnClose
<1>8. CASE UNCHANGED vars
  BY <1>8 DEF vars, statusVars, threadVars, Promise!vars
<1>9. QED
  BY <1>1, <1>2, <1>3, <1>4, <1>5, <1>6, <1>7, <1>8 DEF Next, Run, Answer, Owner

\* BackendIsResource: apart from what must happen in the end, the backend
\* keeps the promise of a resource: no later event takes its error back, and
\* Close returns only when the goroutine, which frees the devices, is gone and
\* Done is closed (backend.go, 164-185, 266-316, 420-477).
THEOREM BackendIsResource == Spec => Promise!Safety
<1>1. Init => Final /\ Promise!Init
  BY DEF Init, Final, Promise!Init
<1>2. IInv /\ Final /\ [Next]_vars => Final'
  BY FinalNext
<1>3. IInv /\ Final /\ [Next]_vars => [Promise!Next]_Promise!vars
  BY StepPromise
<1>4. QED
  BY <1>1, <1>2, <1>3, Inductive, PTL DEF Spec, Promise!Safety

==============================================================================
