---------------------------- MODULE MC_SystemBus ----------------------------
(***************************************************************************)
(* Instances of SystemBus for TLC.                                         *)
(***************************************************************************)
EXTENDS SystemBus

MCTags == Masters \X {0, 1}
MCData == truncated_xt_hb
=============================================================================
