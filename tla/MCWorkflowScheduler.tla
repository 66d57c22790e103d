------------------------ MODULE MCWorkflowScheduler ------------------------
(***************************************************************************)
(* WorkflowScheduler for TLC: r1 and r2 are events with the same           *)
(* fingerprint for one workflow, r3 belongs to a second workflow.          *)
(***************************************************************************)
EXTENDS WorkflowScheduler, TLC

CONSTANTS r1, r2, r3

MCRequests == {r1, r2, r3}
MCKey == [r \in MCRequests |-> IF r = r3 THEN "other" ELSE "shared"]

\* The workflow of r1 and r2 retries, the other one is parallel;
MCRetry == [r \in MCRequests |->
              IF r = r3 THEN "parallel" ELSE "nonparallel_with_retry"]

Symmetry == Permutations(Instances) \union Permutations({r1, r2})

\* or it skips, and the other one retries.
MCSkip == [r \in MCRequests |->
             IF r = r3 THEN "nonparallel_with_retry" ELSE "nonparallel"]
=============================================================================
