---------------------------- MODULE MCWriteHandle -----------------------------
(***************************************************************************)
(* An input file held by up to three processes, and its two runs: what     *)
(* closing it guarantees, and what it does not.                            *)
(***************************************************************************)
EXTENDS WriteHandle

==============================================================================
