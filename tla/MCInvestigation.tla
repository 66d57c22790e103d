-------------------------- MODULE MCInvestigation --------------------------
(***************************************************************************)
(* Investigation for TLC: two incidents for one slot of the gate.  The     *)
(* first has two incident.created events with different ids (Keep emits    *)
(* one when the incident is created and one when it becomes visible), an   *)
(* update and a resolution; the second is eligible, then resolved, and its *)
(* second incident.created is below the severity threshold.                *)
(***************************************************************************)
EXTENDS Investigation

CONSTANTS i1, i2

MCIncidents == {i1, i2}

Event(id, type, i, severe) ==
  [id |-> id, type |-> type, subject |-> i, severe |-> severe]

MCEvents ==
  {Event(1, "incident.created", i1, TRUE),
   Event(2, "incident.created", i1, TRUE),
   Event(3, "incident.updated", i1, TRUE),
   Event(4, "incident.resolved", i1, TRUE),
   Event(5, "incident.created", i2, TRUE),
   Event(6, "incident.created", i2, FALSE),
   Event(7, "incident.resolved", i2, TRUE)}
=============================================================================
