------------------------------ MODULE EisBackend ------------------------------
(***************************************************************************)
(* The KWin EIS input backend (src/internal/kwineis/backend.go): one       *)
(* goroutine reads libei's events and fills four device slots, New waits   *)
(* for them, input calls pick a slot under the mutex, Close stops it all.  *)
(*                                                                         *)
(* KWin answers the two calls made of it, connectToEIS and disconnect,     *)
(* when it likes or never.  It offers devices with some capabilities each  *)
(* and resumes, pauses and removes them as it likes.  Before it disconnects*)
(* it removes them, and it sends nothing afterwards; or the connection just*)
(* breaks.  That side and libei are external.                              *)
(***************************************************************************)
EXTENDS Naturals, Sequences, FiniteSets

CONSTANTS
  Devices,   \* devices KWin may offer
  Caps,      \* the slots each device can fill
  NoDevice,  \* an empty slot
  MaxEvents  \* bound: device events KWin sends

Slots == {"pointer", "button", "scroll", "keyboard"}

ASSUME DeviceAssumption ==
  /\ NoDevice \notin Devices
  /\ Caps \in [Devices -> SUBSET Slots]
ASSUME EventAssumption == MaxEvents \in Nat

VARIABLES
  offered,  \* devices that KWin has resumed, for KWin
  queue,    \* events on their way
  sent,     \* how many device events KWin has sent
  link,     \* the connection: "none" yet, "up", "left" (by KWin), "broken"
  live,     \* devices that are resumed, for who has read the events so far
  slot,     \* pointerAbs, button, scroll and keyboard
  refs,     \* references to each device that the backend owns
  regions,  \* the device whose regions map coordinates
  ei,       \* the libei context exists
  ready,    \* status.Ready
  runErr,   \* runErr is not nil
  done,     \* Done is closed
  readied,  \* the channel New waits for is closed
  closing,  \* Close has begun: closing is set and stop closed
  run,      \* where the reading goroutine stands
  hup,      \* poll has reported that the connection is broken
  new,      \* where New stands, or how it ended
  closer    \* where Close stands

kwinVars   == <<offered, queue, sent, link>>
deviceVars == <<live, slot, refs, regions, ei>>
statusVars == <<ready, runErr, done, readied>>
threadVars == <<closing, run, hup, new, closer>>
vars == <<kwinVars, deviceVars, statusVars, threadVars>>

------------------------------------------------------------------------------
(* KWin *)

Offer(kind, d) ==
  /\ link = "up"
  /\ sent < MaxEvents
  /\ sent' = sent + 1
  /\ kind = "resumed" <=> d \notin offered
  /\ offered' = IF kind = "resumed" THEN offered \cup {d} ELSE offered \ {d}
  /\ queue' = Append(queue, [kind |-> kind, device |-> d])
  /\ UNCHANGED <<link, deviceVars, statusVars, threadVars>>

\* The devices go first, in any order, then the connection.
Disconnect ==
  /\ link = "up"
  /\ link' = "left"
  /\ offered' = {}
  /\ \E order \in [1..Cardinality(offered) -> offered] :
       /\ \A d \in offered : \E i \in DOMAIN order : order[i] = d
       /\ queue' = queue
                   \o [i \in DOMAIN order |-> [kind |-> "paused", device |-> order[i]]]
                   \o <<[kind |-> "disconnect", device |-> NoDevice]>>
  /\ UNCHANGED <<sent, deviceVars, statusVars, threadVars>>

Break ==
  /\ link \in {"up", "left"}
  /\ link' = "broken"
  /\ UNCHANGED <<offered, queue, sent, deviceVars, statusVars, threadVars>>

------------------------------------------------------------------------------
(* Events; run holds mu while it handles what it has read *)

\* The slots once d has filled those it can.
Filled(d) == [s \in Slots |-> IF s \in Caps[d] THEN d ELSE slot[s]]

\* The slots once d is gone.
Cleared(d) == [s \in Slots |-> IF slot[s] = d THEN NoDevice ELSE slot[s]]

\* Fault: the device that is replaced is not unreferenced.
RerefLeaks ==
  refs' = [e \in Devices |->
             refs[e] + Cardinality({s \in Slots : slot[s] # e /\ slot'[s] = e})
                     - Cardinality({s \in Slots : slot[s] = e /\ slot'[s] = NoDevice})]

\* References are taken for slots that change to d and dropped for the
\* devices that were there.
Reref ==
  refs' = [e \in Devices |->
             refs[e] + Cardinality({s \in Slots : slot[s] # e /\ slot'[s] = e})
                     - Cardinality({s \in Slots : slot[s] = e /\ slot'[s] # e})]

\* addDeviceLocked.
AddDevice(d) ==
  /\ live' = live \cup {d}
  /\ slot' = Filled(d)
  /\ Reref
  /\ regions' = IF "pointer" \in Caps[d] THEN d ELSE regions
  /\ IF \A s \in Slots : slot'[s] # NoDevice
     THEN ready' = TRUE /\ runErr' = FALSE /\ readied' = TRUE
     ELSE UNCHANGED <<ready, runErr, readied>>
  /\ UNCHANGED <<ei, done>>

\* Fault: the backend stays ready, and the regions stay.
RemoveDeviceQuietly(d) ==
  /\ live' = live \ {d}
  /\ slot' = Cleared(d)
  /\ Reref
  /\ UNCHANGED <<regions, ei, ready, runErr, done, readied>>

\* removeDeviceLocked, for a device that is paused or removed, whether or
\* not it is in a slot.
RemoveDevice(d) ==
  /\ live' = live \ {d}
  /\ slot' = Cleared(d)
  /\ Reref
  /\ regions' = IF slot'["pointer"] = NoDevice THEN NoDevice ELSE regions
  /\ ready' = FALSE
  /\ UNCHANGED <<ei, runErr, done, readied>>

\* finish: the error and the status first, then done.
Finish(failed) ==
  /\ runErr' = failed
  /\ ready' = FALSE
  /\ done' = TRUE

HandleEvent ==
  /\ run = "dispatch"
  /\ queue # <<>>
  /\ LET event == Head(queue) IN
       \/ event.kind = "resumed" /\ AddDevice(event.device)
       \/ event.kind = "paused" /\ RemoveDevice(event.device)
       \/ event.kind = "disconnect" /\ Finish(~closing) /\ UNCHANGED <<deviceVars, readied>>
  /\ queue' = Tail(queue)
  /\ UNCHANGED <<offered, sent, link, threadVars>>

------------------------------------------------------------------------------
(* run *)

Goto(label) == run' = label /\ UNCHANGED <<closing, new, closer>>

\* Fault: nobody looks at stop.
RunTopDeaf ==
  /\ run = "top"
  /\ Goto("poll")
  /\ UNCHANGED <<hup, kwinVars, deviceVars, statusVars>>

RunTop ==
  /\ run = "top"
  /\ Goto(IF closing THEN "cleanup" ELSE "poll")
  /\ UNCHANGED <<hup, kwinVars, deviceVars, statusVars>>

\* poll returns after 100 milliseconds, or when there is something to read.
Poll ==
  /\ run = "poll"
  /\ hup' = (link = "broken")
  /\ Goto(IF queue = <<>> /\ link # "broken" THEN "top" ELSE "dispatch")
  /\ UNCHANGED <<kwinVars, deviceVars, statusVars>>

PollFails ==
  /\ run = "poll"
  /\ Finish(TRUE)
  /\ Goto("cleanup")
  /\ UNCHANGED <<hup, kwinVars, deviceVars, readied>>

\* All events are handled: has one of them, or poll, ended the connection?
RunAfter ==
  /\ run = "dispatch"
  /\ queue = <<>>
  /\ IF done THEN Goto("cleanup") /\ UNCHANGED statusVars
     ELSE IF hup THEN Goto("cleanup") /\ Finish(TRUE) /\ UNCHANGED readied
     ELSE Goto("top") /\ UNCHANGED statusVars
  /\ UNCHANGED <<hup, kwinVars, deviceVars>>

\* cleanup, with mu held.
Cleanup ==
  /\ run = "cleanup"
  /\ slot' = [s \in Slots |-> NoDevice]
  /\ refs' = [d \in Devices |-> refs[d] - Cardinality({s \in Slots : slot[s] = d})]
  /\ regions' = NoDevice
  /\ ei' = FALSE
  /\ done' = TRUE
  /\ Goto("gone")
  /\ UNCHANGED <<live, hup, kwinVars, ready, runErr, readied>>

------------------------------------------------------------------------------
(* New and Close *)

\* KWin answers connectToEIS.  If there is a libei context to be had for what
\* it answers, run starts and New waits; New fails otherwise.
ConnectToEIS(ok) ==
  /\ new = "calling"
  /\ IF ok
     THEN new' = "waiting" /\ link' = "up" /\ ei' = TRUE /\ run' = "top"
     ELSE new' = "failed" /\ UNCHANGED <<link, ei, run>>
  /\ UNCHANGED <<offered, queue, sent, live, slot, refs, regions, statusVars, closing, hup, closer>>

\* New's select: any of the cases that are ready may be taken.  When the
\* timer has fired it closes the backend before it returns.
NewSelects ==
  /\ new = "waiting"
  /\ \/ readied /\ new' = "usable"
     \/ done /\ new' = "failed"
     \/ new' = "expired"
  /\ UNCHANGED <<kwinVars, deviceVars, statusVars, closing, run, hup, closer>>

NewTimesOut ==
  /\ new = "expired"
  /\ closer = "returned"
  /\ new' = "timeout"
  /\ UNCHANGED <<kwinVars, deviceVars, statusVars, closing, run, hup, closer>>

\* Close, by the owner or by New when it has waited long enough.
CloseBegin ==
  /\ closer = "idle"
  /\ new \in {"usable", "expired"}
  /\ closing' = TRUE
  /\ closer' = "waiting"
  /\ UNCHANGED <<kwinVars, deviceVars, statusVars, run, hup, new>>

CloseGoes(from, to) ==
  /\ closer = from
  /\ closer' = to
  /\ UNCHANGED <<kwinVars, deviceVars, statusVars, closing, run, hup, new>>

\* Fault: the goroutine is not waited for.
CloseTellsHasty == CloseGoes("waiting", "telling")

\* wg.Wait is over, and KWin is told to disconnect.
CloseTells == run = "gone" /\ CloseGoes("waiting", "telling")

\* KWin answers, or the call fails, or there was none to make (cookie is 0).
CloseIsTold == CloseGoes("telling", "told")

\* The bus connection and the status close.
CloseEnd ==
  /\ closer = "told"
  /\ ready' = FALSE
  /\ done' = TRUE
  /\ closer' = "returned"
  /\ UNCHANGED <<kwinVars, deviceVars, runErr, readied, closing, run, hup, new>>

------------------------------------------------------------------------------
Init ==
  /\ offered = {}
  /\ queue = <<>>
  /\ sent = 0
  /\ link = "none"
  /\ live = {}
  /\ slot = [s \in Slots |-> NoDevice]
  /\ refs = [d \in Devices |-> 0]
  /\ regions = NoDevice
  /\ ei = FALSE
  /\ ready = FALSE
  /\ runErr = FALSE
  /\ done = FALSE
  /\ readied = FALSE
  /\ closing = FALSE
  /\ run = "none"
  /\ hup = FALSE
  /\ new = "calling"
  /\ closer = "idle"

KWin ==
  \/ \E d \in Devices, kind \in {"resumed", "paused"} : Offer(kind, d)
  \/ Disconnect
  \/ Break

Run == RunTop \/ Poll \/ PollFails \/ HandleEvent \/ RunAfter \/ Cleanup

Answer == CloseIsTold \/ \E ok \in BOOLEAN : ConnectToEIS(ok)

Owner == NewSelects \/ NewTimesOut \/ CloseBegin \/ CloseTells \/ CloseEnd

Next == KWin \/ Run \/ Answer \/ Owner

\* The goroutines run and New's timer fires; KWin need not do anything, not
\* even answer, and only New is sure to close a backend.
Fairness ==
  /\ WF_vars(Run)
  /\ WF_vars(NewSelects)
  /\ WF_vars(NewTimesOut)
  /\ WF_vars(new = "expired" /\ CloseBegin)
  /\ WF_vars(CloseTells)
  /\ WF_vars(CloseEnd)

Spec == Init /\ [][Next]_vars /\ Fairness

------------------------------------------------------------------------------
(* Properties *)

\* Where the goroutines stand.
ThreadsOK ==
  /\ closing \in BOOLEAN
  /\ run \in {"none", "top", "poll", "dispatch", "cleanup", "gone"}
  /\ hup \in BOOLEAN
  /\ new \in {"calling", "waiting", "expired", "usable", "failed", "timeout"}
  /\ closer \in {"idle", "waiting", "telling", "told", "returned"}

\* The values the variables take.
TypeOK ==
  /\ offered \subseteq Devices
  /\ queue \in Seq([kind : {"resumed", "paused", "disconnect"},
                    device : Devices \cup {NoDevice}])
  /\ sent \in 0..MaxEvents
  /\ link \in {"none", "up", "left", "broken"}
  /\ live \subseteq Devices
  /\ slot \in [Slots -> Devices \cup {NoDevice}]
  /\ refs \in [Devices -> Nat]
  /\ regions \in Devices \cup {NoDevice}
  /\ ei \in BOOLEAN
  /\ ready \in BOOLEAN
  /\ runErr \in BOOLEAN
  /\ done \in BOOLEAN
  /\ readied \in BOOLEAN
  /\ ThreadsOK

\* ReadyIsUsable: while the status says ready an input call finds its
\* device, and the device is one that KWin has not taken back, as far as the
\* backend can know; until Close, which resets the status last, and for good.
ReadyIsUsable ==
  /\ ready /\ ~closing => ei /\ \A s \in Slots : slot[s] \in live
  /\ closer = "returned" => ~ready

\* OnlyLive: input is never sent to a device that was paused or removed, nor
\* to one without the capability, whatever order devices come and go in.
OnlyLive ==
  \A s \in Slots : slot[s] # NoDevice => ei /\ slot[s] \in live /\ s \in Caps[slot[s]]

\* RefsBalanced: each device is referenced once per slot it fills, through
\* replacements, removals and the cleanup at the end, so that none is freed
\* under an input call and none is leaked.
RefsBalanced ==
  \A d \in Devices : refs[d] = Cardinality({s \in Slots : slot[s] = d})

\* RegionsFollow: coordinates are mapped with the regions of the device that
\* pointer events go to (backend.go, 352-391, 493-512).
RegionsFollow == regions = slot["pointer"]

\* DevicesOwned: the devices the slots name are live, able and referenced
\* once for every slot, together.
DevicesOwned == OnlyLive /\ RefsBalanced

\* StatusFollows: what is shown and mapped with follows the slots.
StatusFollows == ReadyIsUsable /\ RegionsFollow

NewAtWork == new \in {"calling", "waiting", "expired"}

\* NewAnswers: New returns, also when its timer has fired and it closes the
\* backend first, unless KWin never answers one of the two calls that are
\* made of it then: they have no deadline, and the five seconds of New begin
\* after the first and end before the second.  When New has timed out the
\* goroutine is gone, and when it fails otherwise the goroutine ends.
NewAnswers ==
  /\ NewAtWork ~> (~NewAtWork \/ [](new = "calling" \/ closer = "telling"))
  /\ [](new = "timeout" => run = "gone")
  /\ (new = "failed") ~> (run \in {"none", "gone"})

\* KeepsPromise: the backend is a resource.  Its error is not taken back by
\* a later event, and Close returns only after it has ended, which is when
\* the goroutine has freed the devices and is gone; and Close does return,
\* if KWin answers.
Promise ==
  INSTANCE Resource WITH
    Callers <- {"owner"},
    done    <- done /\ run = "gone",
    failed  <- runErr,
    calling <- IF closer \in {"waiting", "telling", "told"} THEN {"owner"} ELSE {},
    closed  <- closer = "returned"

KeepsPromise ==
  /\ Promise!Safety
  /\ []<>(closer # "telling") => Promise!Fairness

==============================================================================
