------------------------------- MODULE MCNames -------------------------------
(***************************************************************************)
(* One client clicks every button a user can name, through the RDP or the  *)
(* VNC session.  The connection never fails: a call is refused only when   *)
(* neither session finds the button in its table.                          *)
(***************************************************************************)
EXTENDS Control, InputNames

MCMapPoint == [p \in Points |-> "A"]

MCRequests ==
  {[kind |-> "click", button |-> ParseMouseButton(name), at |-> "a",
    rounds |-> 1] : name \in UserNames}

MCButtonOutcome(b) == IF SessionsTaking(b) = {} THEN {"refused"} ELSE {"ok"}

MCOutcomes == [x \in Inputs \cup CallKinds |->
                 IF x \in Buttons THEN MCButtonOutcome(x) ELSE {"ok"}]

==============================================================================
