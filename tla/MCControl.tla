------------------------------ MODULE MCControl ------------------------------
(***************************************************************************)
(* Two requests in flight on one service: every kind of command, sharing   *)
(* the left button, the Ctrl key and the pointer.  Any call may fail, with *)
(* or without its effect.                                                  *)
(***************************************************************************)
EXTENDS Control

MCMapPoint == [p \in Points |-> CASE p = "a" -> "A" [] p = "b" -> "B"
                                  [] p = "off" -> NoSpot]

\* "a" is on screen for every point the gestures walk over; "off" is a point
\* that the coordinate mapper refuses.
MCRequests == {
  [kind |-> "click", button |-> "left", at |-> "a", rounds |-> 2],
  [kind |-> "click", button |-> "none", at |-> "a", rounds |-> 1],
  [kind |-> "drag", path |-> <<"a", "b", "a">>],
  [kind |-> "drag", path |-> <<"a", "off">>],
  [kind |-> "scroll", at |-> "b", axes |-> <<"y", "x">>],
  [kind |-> "move", at |-> "b"],
  [kind |-> "keypress", chord |-> <<"ctrl", "l">>],
  [kind |-> "keypress", chord |-> <<"l", "l">>],
  [kind |-> "type", empty |-> FALSE],
  [kind |-> "wait", negative |-> FALSE] }

\* Every call may fail; a press or a release also after it was delivered.
MCOutcomes == [x \in Inputs \cup CallKinds |->
                 IF x \in Inputs THEN {"ok", "lost", "late"} ELSE {"ok", "lost"}]

\* Two clicks at different points and nothing that fails.
MCRaceRequests == {
  [kind |-> "click", button |-> "left", at |-> p, rounds |-> 1] : p \in Points}

MCNoFailures == [x \in Inputs \cup CallKinds |-> {"ok"}]

==============================================================================
