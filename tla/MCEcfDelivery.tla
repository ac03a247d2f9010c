---------------------------- MODULE MCEcfDelivery ----------------------------
(* EcfDelivery for TLC: the documents, users, requests and faults of a run   *)
(* are model values and sets written in its configuration.                   *)
EXTENDS EcfDelivery

=============================================================================
