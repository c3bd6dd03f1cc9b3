------------------------------ MODULE MCBroker ------------------------------
(* Instances of Broker for TLC: the configurations give every constant its
   value. *)
EXTENDS Broker
=============================================================================
