--------------------------- MODULE MCScanEvidence ---------------------------
(* Small instances of ScanEvidence: two slots, two tools, two or three      *)
(* attempts.                                                                *)
EXTENDS ScanEvidence, TLC

CONSTANTS w1, w2, t1, t2

MCWorkers == {w1, w2}
MCTools   == {t1, t2}
OneTool   == {t1}
Nothing   == {}
Symmetric == Permutations(MCWorkers)

\* Statements that fail: the inserts and reads of findings, whose errors the
\* executor handles; the ownership reads; the record writes.
EvidenceErrors == {"evidence"}
OwnedErrors    == {"owned"}
RecordErrors   == {"record"}
AnyErrors      == {"evidence", "owned", "record"}
=============================================================================
