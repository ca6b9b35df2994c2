---------------------------- MODULE MCVncSession ------------------------------
(***************************************************************************)
(* Three goroutines that send input, of one event or of two, and close.    *)
(***************************************************************************)
EXTENDS VncSession

==============================================================================
