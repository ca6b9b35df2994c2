----------------------------- MODULE MCComposite ------------------------------
(***************************************************************************)
(* Two parts, or one that is both, and two goroutines that close the       *)
(* composite.                                                              *)
(***************************************************************************)
EXTENDS Composite

MCOrders == {<<"output", "input">>, <<"both">>}

==============================================================================
