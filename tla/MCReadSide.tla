---------------------------- MODULE MCReadSide ----------------------------
(***************************************************************************)
(* ReadSide for TLC: messages, callbacks and clients are interchangeable.   *)
(* Its run checks safety only.                                             *)
(***************************************************************************)
EXTENDS ReadSide, TLC

Symmetry == Permutations(Messages) \cup Permutations(Workers) \cup Permutations(Clients)

=============================================================================
