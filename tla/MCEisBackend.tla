----------------------------- MODULE MCEisBackend -----------------------------
(***************************************************************************)
(* Three devices: a full pointer, a keyboard, and a second pointer without *)
(* a wheel that may replace the first in some of its slots.                *)
(***************************************************************************)
EXTENDS EisBackend

MCCaps == [d \in Devices |->
             CASE d = "mouse"  -> {"pointer", "button", "scroll"}
               [] d = "tablet" -> {"pointer", "button"}
               [] d = "keys"   -> {"keyboard"}]

==============================================================================
