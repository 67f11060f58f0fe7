---------------------------- MODULE MCLeasedJobs ---------------------------
(* Instance of LeasedJobs: two workers are a stale one and its successor,  *)
(* a third meets a second expiry.                                          *)
EXTENDS LeasedJobs

CONSTANTS w1, w2, w3

MCWorkers == {w1, w2, w3}

=============================================================================
