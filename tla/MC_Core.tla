------------------------------- MODULE MC_Core -------------------------------
(***************************************************************************)
(* Instances of Core for TLC.                                              *)
(***************************************************************************)
EXTENDS CoreProps

\* Direct-mode exceptions enter at 3, each interrupt at an entry of its own.
MCVector == [c \in Causes |->
  CASE c = "ext" -> 1 % N [] c = "soft" -> 2 % N [] c = "timer" -> 2 % N
    [] OTHER -> 3 % N]
=============================================================================
