--------------------------- MODULE MCToolAdmission ---------------------------
(* A small instance of ToolAdmission: two scans on one daemon, with tools of   *)
(* every class.                                                              *)
EXTENDS ToolAdmission, TLC

CONSTANTS s1, s2, image, site, lock, lint, fast, daemon

MCScans  == {s1, s2}
MCTools  == {image, site, lock, lint, fast}
MCScanOf == (image :> s1) @@ (site :> s1) @@ (lock :> s1)
               @@ (lint :> s2) @@ (fast :> s2)
MCHeavy     == {image, lock, lint, fast}
MCNetwork   == {site, fast}
MCExclusive == {lock, lint, fast}

\* s1 may run two tools at once, one of them heavy; s2 caps no tool's CPUs.
MCPlan   == (s1 :> [concurrency |-> 2, heavy |-> 1, network |-> 1, cpus |-> 2])
         @@ (s2 :> [concurrency |-> 2, heavy |-> 2, network |-> 1,
                    cpus |-> Unlimited])
MCMemory == (image :> 2) @@ (site :> 1) @@ (lock :> 1) @@ (lint :> 2)
               @@ (fast :> 4)

\* Every scan detected the daemon.
Both     == {s1, s2}
=============================================================================
