----------------------------- MODULE RcaReport -----------------------------
(***************************************************************************)
(* What keep-aiops promises of the incidents it is told of, with no events,*)
(* no receiver, no gate, no background tasks and no restarts: an incident  *)
(* is investigated once; a finished investigation has its draft before     *)
(* Keep hears of it; Keep gets one comment and, only then, the enrichment; *)
(* and an investigation that was given up stays so.  What Keep was told of *)
(* it before is not taken back.  Investigation is shown to implement this. *)
(***************************************************************************)
EXTENDS Naturals

CONSTANTS Incidents

VARIABLES
  phase,    \* phase[i]: how far the investigation of incident i is
  drafted,  \* incidents that have an RCA draft
  comments, \* comments[i]: how many RCA comments Keep was given on i
  enriched  \* incidents Keep shows as rca_ready

vars == <<phase, drafted, comments, enriched>>

Phases == {"none", "open", "ready", "failed"}

Init ==
  /\ phase = [i \in Incidents |-> "none"]
  /\ drafted = {}
  /\ comments = [i \in Incidents |-> 0]
  /\ enriched = {}

Begin(i) ==
  /\ phase[i] = "none"
  /\ phase' = [phase EXCEPT ![i] = "open"]
  /\ UNCHANGED <<drafted, comments, enriched>>

Finish(i) ==
  /\ phase[i] = "open"
  /\ phase' = [phase EXCEPT ![i] = "ready"]
  /\ drafted' = drafted \union {i}
  /\ UNCHANGED <<comments, enriched>>

Comment(i) ==
  /\ phase[i] = "ready" /\ i \in drafted /\ comments[i] = 0
  /\ comments' = [comments EXCEPT ![i] = 1]
  /\ UNCHANGED <<phase, drafted, enriched>>

Enrich(i) ==
  /\ phase[i] = "ready" /\ comments[i] = 1
  /\ enriched' = enriched \union {i}
  /\ UNCHANGED <<phase, drafted, comments>>

\* A failure of one run, or a sweep over those a dead process left behind.
GiveUp(lost) ==
  /\ \A i \in lost : phase[i] = "open"
  /\ phase' = [i \in Incidents |-> IF i \in lost THEN "failed" ELSE phase[i]]
  /\ UNCHANGED <<drafted, comments, enriched>>

\* The draft is there, but a call to Keep failed, or seemed to.
Withdraw(i) ==
  /\ phase[i] = "ready"
  /\ phase' = [phase EXCEPT ![i] = "failed"]
  /\ UNCHANGED <<drafted, comments, enriched>>

Next ==
  \/ \E i \in Incidents :
       Begin(i) \/ Finish(i) \/ Comment(i) \/ Enrich(i) \/ Withdraw(i)
  \/ \E lost \in SUBSET Incidents : GiveUp(lost)

Spec == Init /\ [][Next]_vars
=============================================================================
