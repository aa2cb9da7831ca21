----------------------------- MODULE CurrentLease -----------------------------
(***************************************************************************)
(* What App/Control/Src/app_foc.c promises whoever drives the motor through *)
(* the motion source: a lease on the motor current.  Every accepted request *)
(* renews it; it ends when the authority is revoked or when Limit beats of  *)
(* the current loop have passed without a renewal; the current follows the  *)
(* request only under a running lease, whatever the counter that measures   *)
(* its age does.                                                            *)
(***************************************************************************)
EXTENDS Integers

CONSTANT Limit      \* beats a request may drive (500 us, 15 beats of 30 kHz)

VARIABLES
    held,           \* a request is in force
    age,            \* beats since it was accepted, one past Limit when more
    load            \* the last beat drove current for it

vars == <<held, age, load>>

TypeOK == held \in BOOLEAN /\ age \in 0 .. Limit + 1 /\ load \in BOOLEAN

Older(a) == IF a > Limit THEN a ELSE a + 1

Init == held = FALSE /\ age = Limit + 1 /\ load = FALSE

Renew == held' = TRUE /\ age' = 0 /\ UNCHANGED load

Revoke == held' = FALSE /\ age' = Limit + 1 /\ UNCHANGED load

(* A beat of the loop: it may drive for the request only under the lease.  *)
Beat ==
    /\ age' = Older(age)
    /\ load' \in BOOLEAN
    /\ load' => held /\ age' <= Limit
    /\ UNCHANGED held

Next == Renew \/ Revoke \/ Beat

Spec == Init /\ [][Next]_vars
===============================================================================
