------------------------------ MODULE MCRdpText -------------------------------
(***************************************************************************)
(* Two texts typed while other requests press and release keys: a letter   *)
(* in both cases, a line break, a character beyond ASCII and one that is a *)
(* surrogate pair; two of the eight modifiers.                             *)
(***************************************************************************)
EXTENDS RdpText

MCChars == {"a", "A", "enter", "eacute", "emoji"}
MCKeyOf == [ch \in MCChars |->
  CASE ch \in {"a", "A"} -> "KeyA" [] ch = "enter" -> "KeyReturn" [] OTHER -> "no key"]
MCShifted == {"A"}
MCBreaks == {"enter"}
MCUnits == [ch \in MCChars |-> IF ch = "emoji" THEN <<"high", "low">> ELSE <<ch>>]
MCModifiers == <<"LSHIFT", "LCONTROL">>
MCTexts == {<<"A", "a">>, <<"enter", "eacute">>, <<"emoji">>, <<"a">>}

==============================================================================
