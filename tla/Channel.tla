------------------------------ MODULE Channel -------------------------------
(***************************************************************************)
(* What a clock domain crossing promises: a channel for one message, which *)
(* the sender may fill again only when it has been told that the receiver  *)
(* took the last one.  Each message is delivered once, unchanged.          *)
(***************************************************************************)
CONSTANT Data

VARIABLES phase, msg, out

Send(d)  == phase = "idle" /\ phase' = "carried" /\ msg' = d /\ UNCHANGED out
Deliver  == phase = "carried" /\ phase' = "delivered" /\ out' = msg /\ UNCHANGED msg
Take     == phase = "delivered" /\ phase' = "taken" /\ UNCHANGED <<msg, out>>
Confirm  == phase = "taken" /\ phase' = "idle" /\ UNCHANGED <<msg, out>>
Reset    == phase' = "idle" /\ UNCHANGED <<msg, out>>

Init == phase = "idle" /\ msg \in Data /\ out \in Data
Next == (\E d \in Data : Send(d)) \/ Deliver \/ Take \/ Confirm \/ Reset
Spec == Init /\ [][Next]_<<phase, msg, out>>
=============================================================================
