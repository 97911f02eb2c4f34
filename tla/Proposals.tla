-------------------------------- MODULE Proposals --------------------------------
(***************************************************************************)
(* Payout proposals and the people who decide them.  approve keeps the     *)
(* proposal's row locked while PayoutsService.request commits the payout   *)
(* in a transaction of its own, so each approval holds up to three         *)
(* connections of the pool at once: its own, the payout's, and the one     *)
(* with which LimitsService reads the rule.                                *)
(***************************************************************************)
EXTENDS Sums

CONSTANTS
  ProposalIds,
  Deciders,      \* requests to approve or to reject, each served once
  PoolMax,       \* connections of the pool (DATABASE_POOL_MAX)
  MaxOutages     \* bound on outages and crashes

\* The pool serves every decider that is served at one time; with fewer connections
\* they can all wait for one that none of them gives back.
ASSUME PoolAssumption ==
  IsFiniteSet(Deciders) /\ PoolMax \in Nat /\ PoolMax > 2 * Cardinality(Deciders) /\ MaxOutages \in Nat

VARIABLES
  proposal,   \* action_proposals: the status of each
  due,        \* proposals whose 24 hours have passed
  paid,       \* proposals whose payout exists (by its idempotency key)
  decider,    \* where each decider is
  outages,
  cutShort    \* proposals of which an approval was cut short after its payout committed

proposalVars == <<proposal, due, paid, decider, outages, cutShort>>

ProposalsInit ==
  /\ proposal = [p \in ProposalIds |-> "none"]
  /\ due = {}
  /\ paid = {}
  /\ decider = [d \in Deciders |-> [at |-> "idle"]]
  /\ outages = 0
  /\ cutShort = {}

Decided(p, outcome) == [at |-> "done", for |-> p, outcome |-> outcome]
Move(d, next) == decider' = [decider EXCEPT ![d] = next]

Locking_AfterError(p) ==
  {d \in Deciders : /\ decider[d].at \in {"locked", "paying", "save", "done"} /\ decider[d].for = p
                    /\ decider[d].at = "done" => decider[d].outcome = "error"}

\* Who has the row of a proposal locked.
Locking(p) == {d \in Deciders : decider[d].at \in {"locked", "paying", "save"} /\ decider[d].for = p}

\* The connections that a decider holds.
Held(d) ==
  CASE decider[d].at \in {"open", "locked", "save"} -> 1
    [] decider[d].at = "paying" -> 2
    [] OTHER -> 0

FreeConnections == PoolMax - SumOver([d \in Deciders |-> Held(d)], Deciders)

-----------------------------------------------------------------------------

Propose(p) ==
  /\ proposal[p] = "none"
  /\ proposal' = [proposal EXCEPT ![p] = "pending"]
  /\ UNCHANGED <<due, paid, decider, outages, cutShort>>

DayPasses(p) ==
  /\ proposal[p] # "none" /\ p \notin due
  /\ due' = due \union {p}
  /\ UNCHANGED <<proposal, paid, decider, outages, cutShort>>

\* expireIfDue: an UPDATE that commits alone and waits for a locked row.
ExpireIfDue(d, p) ==
  /\ decider[d].at = "idle" /\ proposal[p] # "none" /\ FreeConnections > 0
  /\ IF p \in due /\ proposal[p] = "pending"
     THEN /\ Locking(p) = {}
          /\ proposal' = [proposal EXCEPT ![p] = "expired"]
          /\ Move(d, Decided(p, "refused"))
     ELSE /\ Move(d, [at |-> "connect", for |-> p, verb |-> "approve"])
          /\ UNCHANGED proposal
  /\ UNCHANGED <<due, paid, outages, cutShort>>

RejectProposal(d, p) ==
  /\ decider[d].at = "idle" /\ proposal[p] # "none"
  /\ Move(d, [at |-> "connect", for |-> p, verb |-> "reject"])
  /\ UNCHANGED <<proposal, due, paid, outages, cutShort>>

\* dataSource.transaction takes a connection for as long as it lasts.
Connect(d) ==
  /\ decider[d].at = "connect" /\ FreeConnections > 0
  /\ Move(d, [decider[d] EXCEPT !.at = "open"])
  /\ UNCHANGED <<proposal, due, paid, outages, cutShort>>

LockPending_AnyStatus(d) ==
  /\ decider[d].at = "open" /\ Locking(decider[d].for) = {}
  /\ Move(d, [decider[d] EXCEPT !.at = "locked"])
  /\ UNCHANGED <<proposal, due, paid, outages, cutShort>>

\* SELECT ... FOR UPDATE, then the status under the lock.
LockPending(d) ==
  /\ decider[d].at = "open" /\ Locking(decider[d].for) = {}
  /\ Move(d, IF proposal[decider[d].for] = "pending" THEN [decider[d] EXCEPT !.at = "locked"] ELSE Decided(decider[d].for, "refused"))
  /\ UNCHANGED <<proposal, due, paid, outages, cutShort>>

\* PayoutsService.request opens its own transaction.
OpenPayout(d) ==
  /\ decider[d].at = "locked" /\ decider[d].verb = "approve" /\ FreeConnections > 0
  /\ Move(d, [decider[d] EXCEPT !.at = "paying"])
  /\ UNCHANGED <<proposal, due, paid, outages, cutShort>>

ToSave_Outcome(d, status) ==
  [at |-> "save", for |-> decider[d].for, status |-> IF status = "failed" THEN "refused" ELSE status]

ToSave(d, status) == [at |-> "save", for |-> decider[d].for, status |-> status]

Payout_NotLookedFor(d) ==
  /\ decider[d].at = "paying" /\ FreeConnections > 0
  /\ \/ /\ Move(d, ToSave(d, "executed"))
        /\ paid' = paid \union {decider[d].for}
     \/ /\ Move(d, ToSave(d, "failed"))
        /\ UNCHANGED paid
  /\ UNCHANGED <<proposal, due, outages, cutShort>>

\* The payout of this key is found or made, or refused for good (a 4xx).
Payout(d) ==
  /\ decider[d].at = "paying" /\ FreeConnections > 0
  /\ \/ /\ Move(d, ToSave(d, "executed"))
        /\ paid' = paid \union {decider[d].for}
     \/ /\ decider[d].for \notin paid
        /\ Move(d, ToSave(d, "failed"))
        /\ UNCHANGED paid
  /\ UNCHANGED <<proposal, due, outages, cutShort>>

\* A 5xx, before or after the payout committed: the approval rolls back and the
\* proposal stays pending.
PayoutOutage(d) ==
  /\ decider[d].at = "paying" /\ outages < MaxOutages
  /\ outages' = outages + 1
  /\ \E committed \in BOOLEAN :
       /\ paid' = IF committed THEN paid \union {decider[d].for} ELSE paid
       /\ cutShort' = IF decider[d].for \in paid' THEN cutShort \union {decider[d].for} ELSE cutShort
  /\ Move(d, Decided(decider[d].for, "error"))
  /\ UNCHANGED <<proposal, due>>

SaveReject(d) ==
  /\ decider[d].at = "locked" /\ decider[d].verb = "reject"
  /\ proposal' = [proposal EXCEPT ![decider[d].for] = "rejected"]
  /\ Move(d, Decided(decider[d].for, "ok"))
  /\ UNCHANGED <<due, paid, outages, cutShort>>

SaveApproval(d) ==
  /\ decider[d].at = "save"
  /\ proposal' = [proposal EXCEPT ![decider[d].for] = decider[d].status]
  /\ Move(d, Decided(decider[d].for, "ok"))
  /\ UNCHANGED <<due, paid, outages, cutShort>>

\* The server stops, or saving fails: the lock and the connections are given back.
CutShort(d) ==
  /\ decider[d].at \in {"open", "locked", "save"} /\ outages < MaxOutages
  /\ outages' = outages + 1
  /\ cutShort' = IF decider[d].for \in paid THEN cutShort \union {decider[d].for} ELSE cutShort
  /\ Move(d, Decided(decider[d].for, "error"))
  /\ UNCHANGED <<proposal, due, paid>>

DeciderStep(d) ==
  Connect(d) \/ LockPending(d) \/ OpenPayout(d) \/ Payout(d) \/ SaveReject(d) \/ SaveApproval(d)

ProposalsNext ==
  \/ \E p \in ProposalIds : Propose(p) \/ DayPasses(p)
  \/ \E d \in Deciders, p \in ProposalIds : ExpireIfDue(d, p) \/ RejectProposal(d, p)
  \/ \E d \in Deciders : DeciderStep(d) \/ PayoutOutage(d) \/ CutShort(d)

ProposalsSpec == ProposalsInit /\ [][ProposalsNext]_proposalVars

\* A request that has begun goes on; who sends requests, and when, is open.
ProposalsFairness == \A d \in Deciders : WF_proposalVars(DeciderStep(d))

-----------------------------------------------------------------------------
(* Properties *)

\* Every proposal has a status; what is paid was proposed.
ProposalsTypeOK ==
  /\ proposal \in [ProposalIds -> {"none", "pending", "executed", "failed", "rejected", "expired"}]
  /\ \A p \in paid : proposal[p] # "none"
  /\ FreeConnections \in 0..PoolMax

\* The decision on record tells what happened to the money: executed means paid, failed
\* means not paid, and a rejected or expired proposal was paid only if an earlier
\* approval was cut short after its payout had committed.
OutcomeMatchesPayout ==
  \A p \in ProposalIds :
    /\ proposal[p] = "executed" => p \in paid
    /\ proposal[p] = "failed" => p \notin paid
    /\ proposal[p] \in {"rejected", "expired"} => p \notin paid \/ p \in cutShort

\* Whoever decides first decides: no later approval, rejection or expiry overwrites it.
DecidedStays ==
  \A p \in ProposalIds : proposal[p] \notin {"none", "pending"} => proposal'[p] = proposal[p]

DecisionsStick == [][DecidedStays]_proposalVars

\* A decider that has begun ends: no connection is kept, no two wait for each other.
DecisionsEnd == <>[](\A d \in Deciders : decider[d].at \in {"idle", "done"})

\* Deciding a proposal comes to an end, and what was decided first stays decided.
DecisionsAreFinal == DecisionsStick /\ DecisionsEnd
=================================================================================
