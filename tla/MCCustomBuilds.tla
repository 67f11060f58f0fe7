--------------------------- MODULE MCCustomBuilds --------------------------
(***************************************************************************)
(* A small instance of CustomBuilds: two variants, two workers.            *)
(***************************************************************************)
EXTENDS CustomBuilds

CONSTANTS w1, w2, v1, v2

MCWorkers == {w1, w2}
MCVariants == {v1, v2}
=============================================================================
