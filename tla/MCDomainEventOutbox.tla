------------------------ MODULE MCDomainEventOutbox ------------------------
(***************************************************************************)
(* DomainEventOutbox for TLC: its configurations give every constant a     *)
(* value.                                                                  *)
(***************************************************************************)
EXTENDS DomainEventOutbox
=============================================================================
