------------------------------- MODULE ScanJob -------------------------------
(***************************************************************************)
(* What the durable scan queue promises of one scan, without leases,       *)
(* tokens, clocks or executors: it is worked on at most MaxAttempts times, *)
(* ends once, and a completed scan carries the result of its last attempt. *)
(***************************************************************************)
EXTENDS Naturals

CONSTANT MaxAttempts

VARIABLES status, attempt, result

vars == <<status, attempt, result>>

Init == status = "pending" /\ attempt = 0 /\ result = 0

Start ==
    /\ status = "pending" /\ attempt < MaxAttempts
    /\ status' = "running" /\ attempt' = attempt + 1
    /\ UNCHANGED result

\* The worker of the current attempt is given up.
Lose ==
    /\ status = "running"
    /\ status' = IF attempt < MaxAttempts THEN "pending" ELSE "failed"
    /\ UNCHANGED <<attempt, result>>

Complete ==
    /\ status = "running"
    /\ status' = "completed" /\ result' = attempt
    /\ UNCHANGED attempt

Fail ==
    /\ status = "running"
    /\ status' = "failed"
    /\ UNCHANGED <<attempt, result>>

Cancel ==
    /\ status \in {"pending", "running"}
    /\ status' = "cancelled"
    /\ UNCHANGED <<attempt, result>>

Next == Start \/ Lose \/ Complete \/ Fail \/ Cancel

Spec == Init /\ [][Next]_vars
=============================================================================
