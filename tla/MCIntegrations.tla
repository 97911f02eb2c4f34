------------------------------ MODULE MCIntegrations ------------------------------
(***************************************************************************)
(* What the platform does with services that are not its own, one part per *)
(* behaviour: a provider through its adapter, the choice of the provider,  *)
(* the reconciliation of its records with ours, the delivery of events to  *)
(* a receiver, or the secret and the address of its endpoint. The parts    *)
(* share no state; the ones that a behaviour is not about stay in one      *)
(* initial state of theirs.                                                *)
(***************************************************************************)
EXTENDS Deliveries, Endpoints, Providers, ProviderChoice, Reconciliation

VARIABLE part

IntegrationsInit ==
  /\ part \in {"deliveries", "endpoints", "providers", "choice", "reconciliation"}
  /\ DeliveriesInit /\ EndpointsInit /\ ProvidersInit /\ ChoiceInit /\ ReconciliationInit
  /\ part # "endpoints" => policy = FALSE
  /\ part # "providers" => adapter = "mock"
  /\ part # "reconciliation" =>
       /\ subject = "payment"
       /\ listing = [theirs |-> TRUE, ours |-> TRUE, known |-> TRUE, equal |-> TRUE]

IntegrationsNext ==
  /\ UNCHANGED part
  /\ \/ /\ part = "deliveries" /\ DeliveriesNext
        /\ UNCHANGED <<endpointVars, providerVars, choiceVars, reconciliationVars>>
     \/ /\ part = "endpoints" /\ EndpointsNext
        /\ UNCHANGED <<deliveryVars, providerVars, choiceVars, reconciliationVars>>
     \/ /\ part = "providers" /\ ProvidersNext
        /\ UNCHANGED <<deliveryVars, endpointVars, choiceVars, reconciliationVars>>
     \/ /\ part = "choice" /\ ChoiceNext
        /\ UNCHANGED <<deliveryVars, endpointVars, providerVars, reconciliationVars>>
     \/ /\ part = "reconciliation" /\ ReconciliationNext
        /\ UNCHANGED <<deliveryVars, endpointVars, providerVars, choiceVars>>

IntegrationsSpec ==
  /\ IntegrationsInit
  /\ [][IntegrationsNext]_<<part, deliveryVars, endpointVars, providerVars, choiceVars, reconciliationVars>>
=================================================================================
