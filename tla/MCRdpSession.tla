---------------------------- MODULE MCRdpSession ------------------------------
(***************************************************************************)
(* Two graphics modes, two sizes of the desktop, two goroutines that both  *)
(* close: one takes screenshots and one asks for the status before.        *)
(***************************************************************************)
EXTENDS RdpSession

MCSizes == {1, 2}
MCCallers == {"a", "b"}
MCCalls == [c \in MCCallers |-> {"close", IF c = "a" THEN "shot" ELSE "status"}]

==============================================================================
