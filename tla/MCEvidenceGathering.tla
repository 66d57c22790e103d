------------------------ MODULE MCEvidenceGathering ------------------------
(***************************************************************************)
(* EvidenceGathering for TLC: one investigation and one dry run of a       *)
(* tenant, and two writes by any replica, which may overlap.  The roster   *)
(* is not in the order of the stages, and one specialist may want more     *)
(* than the budget allows.                                                 *)
(***************************************************************************)
EXTENDS EvidenceGathering, TLC

CONSTANTS run, request

MCScopesOf == (run :> <<"*">>) @@ (request :> <<"tenant", "*">>)
MCChanges == [put |-> {"*"}, move |-> {"tenant", "*"}]
MCContents == {[read |-> "allow", mutate |-> "none"]}

MCRoster == <<"late", "early">>
MCStage == [late |-> 5, early |-> 1]
MCCallsOf == [late |-> {1}, early |-> {1, 4}]
MCClass == [late |-> "mutate", early |-> "read"]
=============================================================================
