----------------------- MODULE MCIncidentCorrelation -----------------------
(***************************************************************************)
(* IncidentCorrelation for TLC: two alerts of one fingerprint, firing and  *)
(* resolved, and one of another fingerprint.                               *)
(***************************************************************************)
EXTENDS IncidentCorrelation

CONSTANTS j1, j2, j3, f1, f2

MCJobs == {j1, j2, j3}
MCFingerprints == {f1, f2}
MCFingerprint == [j \in MCJobs |-> IF j = j3 THEN f2 ELSE f1]
MCContent == [j \in MCJobs |-> j]
=============================================================================
