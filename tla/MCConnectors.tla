---------------------------- MODULE MCConnectors ----------------------------
(* An instance of Connectors: two mails to one domain. *)
EXTENDS Connectors

MCDomainOf == [p \in Payloads |-> "d"]
=============================================================================
