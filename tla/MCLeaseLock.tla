---------------------------- MODULE MCLeaseLock ----------------------------
(* LeaseLock on a small instance: lease lengths of one and two ticks, so    *)
(* that leases requested at the same time lapse at different times.         *)
EXTENDS LeaseLock

MCLeases == 1 .. 2
=============================================================================
