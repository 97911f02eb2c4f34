--------------------------------- MODULE MCAsync ---------------------------------
(***************************************************************************)
(* The work that goes on after a request, one part of it per behaviour: a  *)
(* payment from its initialisation to the announcement of its credit       *)
(* (PaymentIntake), the handling of such an announcement (DomainEvents),   *)
(* and the decision of payout proposals (Proposals).  The parts share no   *)
(* state; each one's steps and fairness are its module's.                  *)
(***************************************************************************)
EXTENDS PaymentIntake, DomainEvents, Proposals

VARIABLE part

\* To nobody, to the sender and the recipient, to two of an organization's three admins.
MCAdminsOf == [org |-> <<"ada", "ben", "cem">>]
Happened(type, user, organization, counterparty) ==
  [type |-> type, user |-> user, organization |-> organization, counterparty |-> counterparty,
   active |-> {"ada", "cem"}]
MCOccurrences ==
  {Happened("payment.successful", Nobody, "org", Nobody),
   Happened("transfer.completed", "ada", Nobody, "cem"),
   Happened("payout.failed", Nobody, "org", Nobody)}

AsyncInit ==
  /\ part \in {"intake", "events", "proposals"}
  /\ Init /\ EventsInit /\ ProposalsInit
  /\ part # "events" => occurred.type = "payment.successful"

AsyncNext ==
  /\ UNCHANGED part
  /\ \/ part = "intake" /\ Next /\ UNCHANGED <<eventVars, proposalVars>>
     \/ part = "events" /\ EventsNext /\ UNCHANGED <<vars, proposalVars>>
     \/ part = "proposals" /\ ProposalsNext /\ UNCHANGED <<vars, eventVars>>

AsyncFairness ==
  /\ \A e \in Events : WF_vars(part = "intake" /\ Receive(e))
  /\ \A r \in Relays :
       WF_vars(/\ part = "intake"
               /\ RelayProgress(r)
               /\ UNCHANGED <<payment, charge, event, replays, client, worker>>)
  /\ \A o \in Commands : WF_vars(part = "intake" /\ WorkerProgress(o))
  /\ WF_eventVars(part = "events" /\ (TakeEvent \/ EventJobDone \/ EventJobFails))
  /\ \A a \in Attempts :
       WF_eventVars(part = "events" /\ FanStep(a)) /\ WF_eventVars(part = "events" /\ MailStep(a))
  /\ \A d \in Deciders : WF_proposalVars(part = "proposals" /\ DeciderStep(d))

AsyncSpec ==
  AsyncInit /\ [][AsyncNext]_<<part, vars, eventVars, proposalVars>> /\ AsyncFairness

\* The variables of each part have their types.
AsyncTypeOK == TypeOK /\ EventsTypeOK /\ ProposalsTypeOK
=================================================================================
