------------------------------- MODULE AsyncProofs -------------------------------
(***************************************************************************)
(* Proofs about the work that goes on after a request: the decisions of    *)
(* payout proposals, and the e-mails of domain events, for any numbers of  *)
(* proposals, deciders, attempts, e-mails and failures.                    *)
(***************************************************************************)
EXTENDS MCAsync, PaymentIntakeProofs, SumsProofs

-----------------------------------------------------------------------------
(* Proposals *)

DeciderStates ==
  {[at |-> "idle"]}
  \cup [at : {"connect", "open", "locked", "paying"}, for : ProposalIds, verb : {"approve", "reject"}]
  \cup [at : {"save"}, for : ProposalIds, status : {"executed", "failed"}]
  \cup [at : {"done"}, for : ProposalIds, outcome : {"refused", "error", "ok"}]

ProposalsTyped ==
  /\ proposal \in [ProposalIds -> {"none", "pending", "executed", "failed", "rejected", "expired"}]
  /\ paid \in SUBSET ProposalIds
  /\ decider \in [Deciders -> DeciderStates]

Locks(x, p) == x.at \in {"locked", "paying", "save"} /\ x.for = p

\* Whoever has a row locked has it alone, and it is still to be decided.
RowsAreLocked ==
  /\ \A p \in ProposalIds, d \in Deciders : Locks(decider[d], p) => proposal[p] = "pending"
  /\ \A p \in ProposalIds, d, e \in Deciders : Locks(decider[d], p) /\ Locks(decider[e], p) => d = e

Saves(x, p) == x.at = "save" /\ x.for = p

\* What is about to be saved is what became of the payout.
SavesTheOutcome ==
  \A d \in Deciders, p \in ProposalIds : Saves(decider[d], p) =>
    /\ decider[d].status = "executed" => p \in paid
    /\ decider[d].status = "failed" => p \notin paid

\* A payout whose proposal does not say so is about to be saved, or an approval was cut short.
PaidIsKnown ==
  \A p \in ProposalIds :
    /\ proposal[p] = "executed" => p \in paid
    /\ proposal[p] \in {"none", "failed"} => p \notin paid
    /\ proposal[p] \in {"rejected", "expired"} /\ p \in paid => p \in cutShort
    /\ proposal[p] = "pending" /\ p \in paid => p \in cutShort \/ \E d \in Deciders : Saves(decider[d], p)

ProposalsInv == ProposalsTyped /\ RowsAreLocked /\ SavesTheOutcome /\ PaidIsKnown

LEMMA DeciderMoves ==
  ASSUME ProposalsTyped, NEW d \in Deciders, NEW x \in DeciderStates, Move(d, x)
  PROVE  /\ decider' \in [Deciders -> DeciderStates] /\ decider'[d] = x
         /\ \A e \in Deciders : e # d => decider'[e] = decider[e]
  BY DEF ProposalsTyped, Move

\* The records of the deciders' states.
LEMMA ConnectState ==
  ASSUME NEW p \in ProposalIds, NEW v \in {"approve", "reject"}
  PROVE  LET x == [at |-> "connect", for |-> p, verb |-> v]
         IN  x \in DeciderStates /\ x.at = "connect"
  BY DEF DeciderStates

LEMMA DecidedState ==
  ASSUME NEW p \in ProposalIds, NEW outcome \in {"refused", "error", "ok"}
  PROVE  Decided(p, outcome) \in DeciderStates /\ Decided(p, outcome).at = "done"
  BY DEF DeciderStates, Decided

LEMMA SaveState ==
  ASSUME NEW d \in Deciders, decider[d].for \in ProposalIds, NEW s \in {"executed", "failed"}
  PROVE  LET x == ToSave(d, s)
         IN  x \in DeciderStates /\ x.at = "save" /\ x.for = decider[d].for /\ x.status = s
  BY DEF DeciderStates, ToSave

LEMMA ForIsProposal ==
  ASSUME NEW x \in DeciderStates, x.at # "idle"
  PROVE  x.for \in ProposalIds
  BY DEF DeciderStates

LEMMA SaveStatus ==
  ASSUME NEW x \in DeciderStates, x.at = "save"
  PROVE  x.status \in {"executed", "failed"}
  BY DEF DeciderStates

LEMMA AtState ==
  ASSUME NEW x \in DeciderStates, x.at \in {"connect", "open", "locked", "paying"},
         NEW place \in {"connect", "open", "locked", "paying"}
  PROVE  LET y == [x EXCEPT !.at = place]
         IN  y \in DeciderStates /\ y.at = place /\ y.for = x.for
<1>1. x \in [at : {"connect", "open", "locked", "paying"}, for : ProposalIds, verb : {"approve", "reject"}]
  BY DEF DeciderStates
<1>. QED
  BY <1>1 DEF DeciderStates

\* A decider that neither has nor takes a lock moves, and no proposal changes.
LEMMA MovesUnlocked ==
  ASSUME ProposalsInv, NEW d \in Deciders, NEW x \in DeciderStates, Move(d, x),
         decider[d].at \notin {"save"}, x.at \notin {"locked", "paying", "save"},
         UNCHANGED <<proposal, paid>>, cutShort \subseteq cutShort'
  PROVE  ProposalsInv'
<1>1. ProposalsTyped
  BY DEF ProposalsInv
<1>2. /\ decider' \in [Deciders -> DeciderStates] /\ decider'[d] = x
      /\ \A e \in Deciders : e # d => decider'[e] = decider[e]
  BY <1>1, DeciderMoves
<1>3. \A e \in Deciders, p \in ProposalIds :
        /\ Locks(decider'[e], p) => e # d /\ Locks(decider[e], p)
        /\ Saves(decider'[e], p) <=> (e # d /\ Saves(decider[e], p))
        /\ Saves(decider[e], p) => e # d
  BY <1>2 DEF Locks, Saves
<1>4. ProposalsTyped'
  BY <1>1, <1>2 DEF ProposalsTyped
<1>5. RowsAreLocked'
  BY <1>2, <1>3 DEF ProposalsInv, RowsAreLocked
<1>6. SavesTheOutcome'
  BY <1>2, <1>3 DEF ProposalsInv, SavesTheOutcome
<1>7. PaidIsKnown'
  BY <1>2, <1>3 DEF ProposalsInv, PaidIsKnown
<1>. QED
  BY <1>4, <1>5, <1>6, <1>7 DEF ProposalsInv

\* The decider that has the lock, or takes it when nobody has, moves on with it.
LEMMA MovesLocked ==
  ASSUME ProposalsInv, NEW d \in Deciders, NEW x \in DeciderStates, Move(d, x),
         decider[d].at \in {"open", "locked", "paying"}, x.at \in {"locked", "paying", "save"},
         x.for = decider[d].for, proposal[x.for] = "pending",
         Locks(decider[d], x.for) \/ Locking(x.for) = {},
         UNCHANGED <<proposal, cutShort>>,
         x.at = "save" => \/ x.status = "executed" /\ paid' = paid \cup {x.for}
                          \/ x.status = "failed" /\ x.for \notin paid /\ paid' = paid,
         x.at # "save" => paid' = paid
  PROVE  ProposalsInv'
<1>1. ProposalsTyped
  BY DEF ProposalsInv
<1>2. /\ decider' \in [Deciders -> DeciderStates] /\ decider'[d] = x
      /\ \A e \in Deciders : e # d => decider'[e] = decider[e]
  BY <1>1, DeciderMoves
<1>3. PICK q \in ProposalIds : q = x.for
  BY ForIsProposal
<1>4. \A e \in Deciders : Locks(decider[e], q) => e = d
  BY <1>3 DEF Locking, Locks, ProposalsInv, RowsAreLocked
<1>5. \A p \in ProposalIds : Locks(decider'[d], p) => p = q
  BY <1>2, <1>3 DEF Locks
<1>6. \A e \in Deciders, p \in ProposalIds : Saves(decider[e], p) => e # d /\ Saves(decider'[e], p)
  BY <1>2 DEF Saves
<1>7. \A e \in Deciders, p \in ProposalIds : Saves(decider'[e], p) => (e = d /\ p = q) \/ (p # q /\ e # d /\ Saves(decider[e], p))
  BY <1>2, <1>3, <1>4 DEF Saves, Locks
<1>8. ProposalsTyped'
  BY <1>1, <1>2, <1>3 DEF ProposalsTyped
<1>9. RowsAreLocked'
  <2>1. \A p \in ProposalIds, e \in Deciders : Locks(decider'[e], p) => (e = d /\ p = q) \/ (p # q /\ e # d /\ Locks(decider[e], p))
    BY <1>2, <1>4, <1>5
  <2>. QED
    BY <1>3, <2>1 DEF ProposalsInv, RowsAreLocked
<1>10. \A p \in ProposalIds : p # q => (p \in paid' <=> p \in paid)
  BY <1>3
<1>11. SavesTheOutcome'
  <2>1. SUFFICES ASSUME NEW e \in Deciders, NEW p \in ProposalIds, Saves(decider'[e], p)
                 PROVE  /\ decider'[e].status = "executed" => p \in paid'
                        /\ decider'[e].status = "failed" => p \notin paid'
    BY DEF SavesTheOutcome
  <2>2. CASE e = d /\ p = q
    BY <1>2, <1>3, <2>1, <2>2 DEF Saves
  <2>3. CASE p # q /\ e # d /\ Saves(decider[e], p)
    BY <1>2, <1>10, <2>3 DEF ProposalsInv, SavesTheOutcome
  <2>. QED
    BY <1>7, <2>1, <2>2, <2>3
<1>12. PaidIsKnown'
  <2>1. SUFFICES ASSUME NEW p \in ProposalIds
                 PROVE  /\ proposal[p] = "executed" => p \in paid'
                        /\ proposal[p] \in {"none", "failed"} => p \notin paid'
                        /\ proposal[p] \in {"rejected", "expired"} /\ p \in paid' => p \in cutShort
                        /\ proposal[p] = "pending" /\ p \in paid' => p \in cutShort \/ \E e \in Deciders : Saves(decider'[e], p)
    BY DEF PaidIsKnown
  <2>2. CASE p # q
    BY <1>6, <1>10, <2>2 DEF ProposalsInv, PaidIsKnown
  <2>3. CASE p = q /\ x.at = "save"
    BY <1>2, <1>3, <1>6, <2>3 DEF ProposalsInv, PaidIsKnown, Saves
  <2>4. CASE p = q /\ x.at # "save"
    BY <1>3, <1>6, <2>4 DEF ProposalsInv, PaidIsKnown
  <2>. QED
    BY <2>2, <2>3, <2>4
<1>. QED
  BY <1>8, <1>9, <1>11, <1>12 DEF ProposalsInv

\* The decider that has the row, or nobody has, ends; its proposal is decided or stays.
LEMMA MovesDone ==
  ASSUME ProposalsInv, NEW d \in Deciders, NEW x \in DeciderStates, Move(d, x), x.at = "done",
         NEW q \in ProposalIds, Locks(decider[d], q) \/ (Locking(q) = {} /\ decider[d].at = "idle"),
         NEW s \in {"pending", "executed", "failed", "rejected", "expired"},
         proposal[q] = "pending", proposal' = [proposal EXCEPT ![q] = s],
         \A p \in ProposalIds : p # q => (p \in paid' <=> p \in paid),
         paid' \in SUBSET ProposalIds, cutShort \subseteq cutShort',
         s = "executed" => q \in paid',
         s = "failed" => q \notin paid',
         s \in {"pending", "rejected", "expired"} /\ q \in paid' => q \in cutShort'
  PROVE  ProposalsInv'
<1>1. ProposalsTyped
  BY DEF ProposalsInv
<1>2. /\ decider' \in [Deciders -> DeciderStates] /\ decider'[d] = x
      /\ \A e \in Deciders : e # d => decider'[e] = decider[e]
  BY <1>1, DeciderMoves
<1>3. \A e \in Deciders : Locks(decider[e], q) => e = d
  BY DEF Locking, Locks, ProposalsInv, RowsAreLocked
<1>4. \A e \in Deciders, p \in ProposalIds : Locks(decider'[e], p) => e # d /\ p # q /\ Locks(decider[e], p)
  BY <1>2, <1>3 DEF Locks
<1>5. \A e \in Deciders, p \in ProposalIds :
        /\ Saves(decider'[e], p) => e # d /\ p # q /\ Saves(decider[e], p)
        /\ Saves(decider[e], p) /\ p # q => e # d /\ Saves(decider'[e], p)
  BY <1>2, <1>3 DEF Locks, Saves
<1>6. \A p \in ProposalIds : p # q => proposal'[p] = proposal[p]
  BY <1>1 DEF ProposalsTyped
<1>7. proposal'[q] = s
  BY <1>1 DEF ProposalsTyped
<1>8. ProposalsTyped'
  BY <1>1, <1>2 DEF ProposalsTyped
<1>9. RowsAreLocked'
  BY <1>4, <1>6 DEF ProposalsInv, RowsAreLocked
<1>10. SavesTheOutcome'
  BY <1>2, <1>5 DEF ProposalsInv, SavesTheOutcome
<1>11. PaidIsKnown'
  BY <1>5, <1>6, <1>7 DEF ProposalsInv, PaidIsKnown
<1>. QED
  BY <1>8, <1>9, <1>10, <1>11 DEF ProposalsInv

LEMMA ProposeInv ==
  ASSUME ProposalsInv, NEW p \in ProposalIds, Propose(p)
  PROVE  ProposalsInv' /\ DecidedStays
<1>1. UNCHANGED <<paid, decider, cutShort>> /\ proposal[p] = "none" /\ ProposalsTyped
  BY DEF Propose, ProposalsInv
<1>2. /\ \A q \in ProposalIds : q # p => proposal'[q] = proposal[q]
      /\ proposal'[p] = "pending" /\ p \notin paid /\ ProposalsTyped'
  BY <1>1 DEF Propose, ProposalsTyped, ProposalsInv, PaidIsKnown
<1>. QED
  BY <1>1, <1>2 DEF ProposalsInv, RowsAreLocked, SavesTheOutcome, PaidIsKnown, DecidedStays

LEMMA ExpireIfDueInv ==
  ASSUME ProposalsInv, NEW d \in Deciders, NEW p \in ProposalIds, ExpireIfDue(d, p)
  PROVE  ProposalsInv' /\ DecidedStays
<1>1. UNCHANGED <<paid, cutShort>> /\ decider[d].at = "idle" /\ ProposalsTyped
  BY DEF ExpireIfDue, ProposalsInv
<1>2. CASE p \in due /\ proposal[p] = "pending"
  <2>1. /\ Locking(p) = {} /\ proposal' = [proposal EXCEPT ![p] = "expired"]
        /\ Move(d, Decided(p, "refused"))
    BY <1>2 DEF ExpireIfDue
  <2>2. p \in paid => p \in cutShort
    BY <1>2, <2>1 DEF ProposalsInv, PaidIsKnown, Locking, Saves
  <2>3. ProposalsInv'
    BY <1>1, <1>2, <2>1, <2>2, DecidedState, MovesDone DEF ProposalsTyped
  <2>. QED
    BY <1>1, <1>2, <2>1, <2>3 DEF DecidedStays, ProposalsTyped
<1>3. CASE ~(p \in due /\ proposal[p] = "pending")
  <2>1. Move(d, [at |-> "connect", for |-> p, verb |-> "approve"]) /\ UNCHANGED proposal
    BY <1>3 DEF ExpireIfDue
  <2>. QED
    BY <1>1, <2>1, ConnectState, MovesUnlocked DEF DecidedStays
<1>. QED
  BY <1>2, <1>3

LEMMA RejectProposalInv ==
  ASSUME ProposalsInv, NEW d \in Deciders, NEW p \in ProposalIds, RejectProposal(d, p)
  PROVE  ProposalsInv' /\ DecidedStays
  BY ConnectState, MovesUnlocked DEF RejectProposal, DecidedStays

LEMMA DeciderType ==
  ASSUME ProposalsInv, NEW d \in Deciders
  PROVE  /\ decider[d] \in DeciderStates
         /\ decider[d].at # "idle" => decider[d].for \in ProposalIds
  BY ForIsProposal DEF ProposalsInv, ProposalsTyped

LEMMA ConnectInv ==
  ASSUME ProposalsInv, NEW d \in Deciders, Connect(d)
  PROVE  ProposalsInv' /\ DecidedStays
  BY DeciderType, AtState, MovesUnlocked DEF Connect, DecidedStays

LEMMA LockPendingInv ==
  ASSUME ProposalsInv, NEW d \in Deciders, LockPending(d)
  PROVE  ProposalsInv' /\ DecidedStays
<1>1. UNCHANGED <<proposal, paid, cutShort>> /\ decider[d].at = "open" /\ Locking(decider[d].for) = {}
  BY DEF LockPending
<1>2. decider[d] \in DeciderStates /\ decider[d].for \in ProposalIds
  BY <1>1, DeciderType
<1>3. CASE proposal[decider[d].for] = "pending"
  <2>. DEFINE x == [decider[d] EXCEPT !.at = "locked"]
  <2>1. Move(d, x)
    BY <1>3 DEF LockPending
  <2>2. x \in DeciderStates /\ x.at = "locked" /\ x.for = decider[d].for
    BY <1>1, <1>2, AtState
  <2>. HIDE DEF x
  <2>. QED
    BY <1>1, <1>3, <2>1, <2>2, MovesLocked DEF DecidedStays
<1>4. CASE proposal[decider[d].for] # "pending"
  <2>1. Move(d, Decided(decider[d].for, "refused"))
    BY <1>4 DEF LockPending
  <2>. QED
    BY <1>1, <1>2, <2>1, DecidedState, MovesUnlocked DEF DecidedStays
<1>. QED
  BY <1>3, <1>4

LEMMA OpenPayoutInv ==
  ASSUME ProposalsInv, NEW d \in Deciders, OpenPayout(d)
  PROVE  ProposalsInv' /\ DecidedStays
<1>1. UNCHANGED <<proposal, paid, cutShort>> /\ decider[d].at = "locked"
  BY DEF OpenPayout
<1>2. decider[d] \in DeciderStates /\ decider[d].for \in ProposalIds
  BY <1>1, DeciderType
<1>. DEFINE x == [decider[d] EXCEPT !.at = "paying"]
<1>3. Move(d, x)
  BY DEF OpenPayout
<1>4. x \in DeciderStates /\ x.at = "paying" /\ x.for = decider[d].for
  BY <1>1, <1>2, AtState
<1>. HIDE DEF x
<1>5. Locks(decider[d], x.for) /\ proposal[x.for] = "pending"
  BY <1>1, <1>2, <1>4 DEF Locks, ProposalsInv, RowsAreLocked
<1>. QED
  BY <1>1, <1>3, <1>4, <1>5, MovesLocked DEF DecidedStays

LEMMA PayoutInv ==
  ASSUME ProposalsInv, NEW d \in Deciders, Payout(d)
  PROVE  ProposalsInv' /\ DecidedStays
<1>1. UNCHANGED <<proposal, cutShort>> /\ decider[d].at = "paying"
  BY DEF Payout
<1>2. decider[d] \in DeciderStates /\ decider[d].for \in ProposalIds
  BY <1>1, DeciderType
<1>3. PICK s \in {"executed", "failed"} :
        /\ Move(d, ToSave(d, s))
        /\ \/ s = "executed" /\ paid' = paid \cup {decider[d].for}
           \/ s = "failed" /\ decider[d].for \notin paid /\ paid' = paid
  BY DEF Payout
<1>. DEFINE x == ToSave(d, s)
<1>4. x \in DeciderStates /\ x.at = "save" /\ x.for = decider[d].for /\ x.status = s
  BY <1>2, SaveState
<1>5. Move(d, x)
  BY <1>3
<1>. HIDE DEF x
<1>6. Locks(decider[d], x.for) /\ proposal[x.for] = "pending"
  BY <1>1, <1>2, <1>4 DEF Locks, ProposalsInv, RowsAreLocked
<1>. QED
  BY <1>1, <1>3, <1>4, <1>5, <1>6, MovesLocked DEF DecidedStays

LEMMA PayoutOutageInv ==
  ASSUME ProposalsInv, NEW d \in Deciders, PayoutOutage(d)
  PROVE  ProposalsInv' /\ DecidedStays
<1>1. UNCHANGED proposal /\ decider[d].at = "paying" /\ Move(d, Decided(decider[d].for, "error"))
  BY DEF PayoutOutage
<1>2. PICK q \in ProposalIds : q = decider[d].for
  BY <1>1, DeciderType
<1>3. Locks(decider[d], q) /\ proposal[q] = "pending"
  BY <1>1, <1>2 DEF Locks, ProposalsInv, RowsAreLocked
<1>4. /\ paid' = paid \/ paid' = paid \cup {q}
      /\ cutShort' = IF q \in paid' THEN cutShort \cup {q} ELSE cutShort
  BY <1>2 DEF PayoutOutage
<1>5. proposal' = [proposal EXCEPT ![q] = "pending"] /\ paid \in SUBSET ProposalIds
  BY <1>1, <1>3 DEF ProposalsInv, ProposalsTyped
<1>6. ProposalsInv'
  BY <1>1, <1>2, <1>3, <1>4, <1>5, DecidedState, MovesDone
<1>. QED
  BY <1>1, <1>6 DEF DecidedStays

LEMMA SaveRejectInv ==
  ASSUME ProposalsInv, NEW d \in Deciders, SaveReject(d)
  PROVE  ProposalsInv' /\ DecidedStays
<1>1. UNCHANGED <<paid, cutShort>> /\ decider[d].at = "locked" /\ Move(d, Decided(decider[d].for, "ok"))
  BY DEF SaveReject
<1>2. PICK q \in ProposalIds : q = decider[d].for
  BY <1>1, DeciderType
<1>3. Locks(decider[d], q) /\ proposal[q] = "pending" /\ proposal' = [proposal EXCEPT ![q] = "rejected"]
  BY <1>1, <1>2 DEF Locks, ProposalsInv, RowsAreLocked, SaveReject
<1>4. q \in paid => q \in cutShort
  BY <1>1, <1>3 DEF ProposalsInv, PaidIsKnown, RowsAreLocked, Saves, Locks
<1>5. ProposalsInv'
  BY <1>1, <1>2, <1>3, <1>4, DecidedState, MovesDone DEF ProposalsInv, ProposalsTyped
<1>. QED
  BY <1>3, <1>5 DEF DecidedStays, ProposalsInv, ProposalsTyped

LEMMA SaveApprovalInv ==
  ASSUME ProposalsInv, NEW d \in Deciders, SaveApproval(d)
  PROVE  ProposalsInv' /\ DecidedStays
<1>1. UNCHANGED <<paid, cutShort>> /\ decider[d].at = "save" /\ Move(d, Decided(decider[d].for, "ok"))
  BY DEF SaveApproval
<1>2. PICK q \in ProposalIds : q = decider[d].for
  BY <1>1, DeciderType
<1>3. PICK s \in {"executed", "failed"} : s = decider[d].status
  BY <1>1, DeciderType, SaveStatus
<1>4. Locks(decider[d], q) /\ Saves(decider[d], q) /\ proposal[q] = "pending" /\ proposal' = [proposal EXCEPT ![q] = s]
  BY <1>1, <1>2, <1>3 DEF Locks, Saves, ProposalsInv, RowsAreLocked, SaveApproval
<1>5. (s = "executed" => q \in paid) /\ (s = "failed" => q \notin paid)
  BY <1>3, <1>4 DEF ProposalsInv, SavesTheOutcome
<1>6. ProposalsInv'
  BY <1>1, <1>2, <1>4, <1>5, DecidedState, MovesDone DEF ProposalsInv, ProposalsTyped
<1>. QED
  BY <1>4, <1>6 DEF DecidedStays, ProposalsInv, ProposalsTyped

LEMMA CutShortInv ==
  ASSUME ProposalsInv, NEW d \in Deciders, CutShort(d)
  PROVE  ProposalsInv' /\ DecidedStays
<1>1. UNCHANGED <<proposal, paid>> /\ Move(d, Decided(decider[d].for, "error"))
  BY DEF CutShort
<1>2. PICK q \in ProposalIds : q = decider[d].for
  BY DeciderType DEF CutShort
<1>3. cutShort' = IF q \in paid THEN cutShort \cup {q} ELSE cutShort
  BY <1>2 DEF CutShort
<1>4. CASE decider[d].at = "save"
  <2>1. Locks(decider[d], q) /\ proposal[q] = "pending"
    BY <1>2, <1>4 DEF Locks, ProposalsInv, RowsAreLocked
  <2>2. proposal' = [proposal EXCEPT ![q] = "pending"] /\ paid \in SUBSET ProposalIds
    BY <1>1, <2>1 DEF ProposalsInv, ProposalsTyped
  <2>3. ProposalsInv'
    BY <1>1, <1>2, <1>3, <2>1, <2>2, DecidedState, MovesDone
  <2>. QED
    BY <1>1, <2>3 DEF DecidedStays
<1>5. CASE decider[d].at # "save"
  BY <1>1, <1>2, <1>3, <1>5, DecidedState, MovesUnlocked DEF DecidedStays
<1>. QED
  BY <1>4, <1>5

LEMMA ProposalsStep ==
  ASSUME ProposalsInv, [ProposalsNext]_proposalVars
  PROVE  ProposalsInv' /\ DecidedStays
<1>1. CASE UNCHANGED proposalVars \/ \E p \in ProposalIds : DayPasses(p)
  <2>1. UNCHANGED <<proposal, paid, decider, cutShort>>
    BY <1>1 DEF proposalVars, DayPasses
  <2>. QED
    BY <2>1 DEF ProposalsInv, ProposalsTyped, RowsAreLocked, SavesTheOutcome, PaidIsKnown, DecidedStays
<1>. QED
  BY <1>1, ProposeInv, ExpireIfDueInv, RejectProposalInv, ConnectInv, LockPendingInv, OpenPayoutInv, PayoutInv,
     PayoutOutageInv, SaveRejectInv, SaveApprovalInv, CutShortInv DEF ProposalsNext, DeciderStep

LEMMA ProposalsStart == ProposalsInit => ProposalsInv
<1>. SUFFICES ASSUME ProposalsInit PROVE ProposalsInv
  OBVIOUS
<1>1. ProposalsTyped
  BY DEF ProposalsInit, ProposalsTyped, DeciderStates
<1>2. \A d \in Deciders, p \in ProposalIds : ~Locks(decider[d], p) /\ ~Saves(decider[d], p)
  BY DEF ProposalsInit, Locks, Saves
<1>. QED
  BY <1>1, <1>2 DEF ProposalsInv, RowsAreLocked, SavesTheOutcome, PaidIsKnown, ProposalsInit

\* Payout proposals: for any number of proposals, deciders, outages and crashes between the
\* payout's transaction and the approval's, the decision on record is what became of the money.
THEOREM ProposalsMatchPayouts == ProposalsSpec => []OutcomeMatchesPayout
<1>1. ProposalsInv => OutcomeMatchesPayout
  BY DEF ProposalsInv, PaidIsKnown, OutcomeMatchesPayout
<1>. QED
  BY <1>1, ProposalsStart, ProposalsStep, PTL DEF ProposalsSpec

\* Payout proposals: whoever decides first decides, however approvals, rejections and the
\* expiry of a proposal race for its row.
THEOREM ProposalsDecidedOnce == ProposalsSpec => DecisionsStick
<1>1. ProposalsInv /\ [ProposalsNext]_proposalVars => [DecidedStays]_proposalVars
  BY ProposalsStep
<1>. QED
  BY <1>1, ProposalsStart, ProposalsStep, PTL DEF ProposalsSpec, DecisionsStick

\* At most two connections are held by each decider at one time, so one is always free.
LEMMA ConnectionIsFree ==
  FreeConnections \in 1..PoolMax
<1>. DEFINE held == [d \in Deciders |-> Held(d)]
<1>1. \A d \in Deciders : held[d] \in Nat /\ held[d] <= 2
  BY DEF Held
<1>2. IsFiniteSet(Deciders) /\ Cardinality(Deciders) \in Nat
  BY PoolAssumption, FS_CardinalityType
<1>. HIDE DEF held
<1>3. SumOver(held, Deciders) \in Nat /\ SumOver(held, Deciders) <= Cardinality(Deciders) * 2
  BY <1>1, <1>2, SumBound
<1>4. FreeConnections = PoolMax - SumOver(held, Deciders)
  BY DEF FreeConnections, held
<1>. QED
  BY <1>2, <1>3, <1>4, PoolAssumption

LEMMA ProposalsTypeCorrect == ProposalsSpec => []ProposalsTypeOK
<1>1. ProposalsInv => ProposalsTypeOK
  BY ConnectionIsFree DEF ProposalsInv, ProposalsTyped, PaidIsKnown, ProposalsTypeOK
<1>. QED
  BY <1>1, ProposalsStart, ProposalsStep, PTL DEF ProposalsSpec

-----------------------------------------------------------------------------
(* Domain events *)

MailStates == [at : {"off", "record", "send", "mark", "failed", "done"}, n : 0..Len(Mails)]
EmailRows == [row : {"none", "pending", "sent", "failed"}, sent : Nat]

\* The e-mails that are to be sent.
ToBeSent == {m \in 1..Len(Mails) : Active(m)}

JobStates == [at : {"none", "queued", "running", "done", "dead"}, tries : 0..EventTries]

EventsTyped ==
  /\ occurred \in Occurrences
  /\ eventJob \in JobStates
  /\ mail \in [Attempts -> MailStates]
  /\ email \in [ToBeSent -> EmailRows]

\* An attempt is left for a job that waits, and what comes after the last one has not begun.
AttemptsInOrder ==
  /\ eventJob.at \in {"none", "queued"} => eventJob.tries < EventTries
  /\ \A a \in Attempts : a > eventJob.tries => mail[a].at = "off" /\ mail[a].n = 0

\* The attempts that may have sent an e-mail.
Passed(m, n) == {a \in Attempts : m[a].n > n \/ (m[a].n = n /\ m[a].at \notin {"record", "send"})}

\* Each attempt sends an e-mail at most once, and marks what it has sent.
EmailsSent ==
  /\ \A a \in Attempts :
       /\ mail[a].at = "record" => mail[a].n >= 1
       /\ mail[a].at \in {"send", "mark"} => mail[a].n \in ToBeSent
       /\ mail[a].at = "mark" => email[mail[a].n].sent > 0
  /\ \A n \in ToBeSent :
       /\ email[n].row = "sent" => email[n].sent > 0
       /\ email[n].sent <= Cardinality(Passed(mail, n))

EventsInv == EventsTyped /\ AttemptsInOrder /\ EmailsSent

LEMMA ToType ==
  ASSUME NEW S, NEW template, NEW user, <<template, user>> \in S
  PROVE  To(template, user) \in Seq(S)
<1>1. <<<<template, user>>>> \in Seq(S) /\ <<>> \in Seq(S)
  OBVIOUS
<1>2. To(template, user) = <<>> \/ To(template, user) = <<<<template, user>>>>
  BY DEF To
<1>. QED
  BY <1>1, <1>2, Zenon

\* The e-mails of an event are a sequence, and one that does not change.
LEMMA MailsType ==
  ASSUME occurred \in Occurrences
  PROVE  Len(Mails) \in Nat
<1>1. ASSUME NEW template, NEW user PROVE Len(To(template, user)) \in Nat
  <2>. DEFINE S == {<<template, user>>}
  <2>1. To(template, user) \in Seq(S)
    <3>1. <<template, user>> \in S
      OBVIOUS
    <3>. HIDE DEF S
    <3>. QED
      BY <3>1, ToType
  <2>. HIDE DEF S
  <2>. QED
    BY <2>1
<1>2. ASSUME NEW template PROVE Len(ToOwner(template, occurred)) \in Nat
  <2>1. CASE occurred.user # Nobody \/ occurred.organization = Nobody
    BY <1>1, <2>1 DEF ToOwner
  <2>2. CASE ~(occurred.user # Nobody \/ occurred.organization = Nobody)
    <3>1. AdminsOf[occurred.organization] \in Seq(STRING)
      BY <2>2, DomainEventsAssumption DEF Nobody
    <3>. QED
      BY <2>2, <3>1 DEF ToOwner
  <2>. QED
    BY <2>1, <2>2
<1>3. Len(To("transfer_sent", occurred.user) \o To("transfer_received", occurred.counterparty)) \in Nat
  <2>. DEFINE S == {<<"transfer_sent", occurred.user>>, <<"transfer_received", occurred.counterparty>>}
  <2>1. To("transfer_sent", occurred.user) \in Seq(S) /\ To("transfer_received", occurred.counterparty) \in Seq(S)
    <3>1. <<"transfer_sent", occurred.user>> \in S /\ <<"transfer_received", occurred.counterparty>> \in S
      OBVIOUS
    <3>. HIDE DEF S
    <3>. QED
      BY <3>1, ToType
  <2>. HIDE DEF S
  <2>. QED
    BY <2>1
<1>4. /\ \A template, user : Len(To(template, user)) \in Nat
      /\ Len(<<>>) \in Nat
  BY <1>1
<1>. QED
  BY <1>2, <1>3, <1>4 DEF Mails, NotificationRules

LEMMA MailsKept ==
  ASSUME UNCHANGED occurred
  PROVE  Mails' = Mails /\ MailStates' = MailStates /\ ToBeSent' = ToBeSent
  BY DEF Mails, MailStates, ToBeSent, Active

LEMMA AttemptsFinite ==
  ASSUME NEW m, NEW n
  PROVE  /\ IsFiniteSet(Attempts) /\ IsFiniteSet(Passed(m, n)) /\ Cardinality(Passed(m, n)) \in Nat
         /\ Cardinality(Passed(m, n)) <= EventTries
<1>1. IsFiniteSet(Attempts) /\ Cardinality(Attempts) = EventTries
  BY DomainEventsAssumption, FS_Interval DEF Attempts
<1>2. Passed(m, n) \subseteq Attempts
  BY DEF Passed
<1>. QED
  BY <1>1, <1>2, FS_Subset, FS_CardinalityType

\* An attempt goes on, and no e-mail is sent.
Onward(x, y) == y.n > x.n \/ (y.n = x.n /\ (x.at \notin {"record", "send"} => y.at \notin {"record", "send"}))

LEMMA PassedGrows ==
  ASSUME EventsTyped, NEW a \in Attempts, NEW y \in MailStates, mail' = [mail EXCEPT ![a] = y],
         Onward(mail[a], y), UNCHANGED occurred, NEW n \in ToBeSent
  PROVE  /\ Passed(mail, n) \subseteq Passed(mail', n)
         /\ Cardinality(Passed(mail, n)) <= Cardinality(Passed(mail', n))
<1>1. Len(Mails) \in Nat /\ n \in Nat
  BY MailsType DEF EventsTyped, ToBeSent
<1>2. mail[a].n \in Nat /\ y.n \in Nat
  BY <1>1 DEF EventsTyped, MailStates
<1>3. \A b \in Attempts : b # a => mail'[b] = mail[b]
  BY DEF EventsTyped
<1>4. mail'[a] = y
  BY DEF EventsTyped
<1>5. Passed(mail, n) \subseteq Passed(mail', n)
  BY <1>1, <1>2, <1>3, <1>4 DEF Passed, Onward
<1>. QED
  BY <1>5, AttemptsFinite, FS_Subset

\* One attempt moves; what it does to the e-mails keeps the counts.
LEMMA AttemptMoves ==
  ASSUME EventsInv, NEW a \in Attempts, NEW y \in MailStates, mail' = [mail EXCEPT ![a] = y],
         UNCHANGED occurred, eventJob' \in JobStates, AttemptsInOrder',
         email' \in [ToBeSent -> EmailRows],
         \A n \in ToBeSent :
           /\ email'[n].sent >= email[n].sent
           /\ email'[n].row = "sent" => email'[n].sent > 0
           /\ email'[n].sent <= Cardinality(Passed(mail', n)),
         y.at = "record" => y.n >= 1,
         y.at \in {"send", "mark"} => y.n \in ToBeSent,
         y.at = "mark" => email'[y.n].sent > 0
  PROVE  EventsInv'
<1>1. Mails' = Mails /\ MailStates' = MailStates /\ ToBeSent' = ToBeSent
  BY MailsKept
<1>2. \A b \in Attempts : mail'[b] = IF b = a THEN y ELSE mail[b]
  BY DEF EventsInv, EventsTyped
<1>3. EventsTyped'
  BY <1>1 DEF EventsInv, EventsTyped
<1>5. \A n \in ToBeSent : email[n].sent \in Nat /\ email'[n].sent \in Nat
  BY DEF EventsInv, EventsTyped, EmailRows
<1>6. EmailsSent'
  <2>1. ASSUME NEW b \in Attempts
        PROVE  /\ mail'[b].at = "record" => mail'[b].n >= 1
               /\ mail'[b].at \in {"send", "mark"} => mail'[b].n \in ToBeSent
               /\ mail'[b].at = "mark" => email'[mail'[b].n].sent > 0
    BY <1>2, <1>5 DEF EventsInv, EmailsSent
  <2>. QED
    BY <1>1, <2>1 DEF EmailsSent
<1>. QED
  BY <1>3, <1>6 DEF EventsInv

LEMMA OrderKept ==
  ASSUME EventsInv, NEW a \in Attempts, mail[a].at # "off", NEW y \in MailStates,
         mail' = [mail EXCEPT ![a] = y], UNCHANGED eventJob
  PROVE  eventJob' \in JobStates /\ AttemptsInOrder'
  BY DEF EventsInv, EventsTyped, AttemptsInOrder

\* An attempt goes on without sending.
LEMMA AttemptGoesOn ==
  ASSUME EventsInv, NEW a \in Attempts, NEW y \in MailStates, mail' = [mail EXCEPT ![a] = y],
         Onward(mail[a], y), UNCHANGED occurred, eventJob' \in JobStates, AttemptsInOrder',
         email' \in [ToBeSent -> EmailRows],
         \A n \in ToBeSent : email'[n].sent = email[n].sent /\ (email'[n].row = "sent" => email[n].sent > 0),
         y.at = "record" => y.n >= 1,
         y.at \in {"send", "mark"} => y.n \in ToBeSent,
         y.at = "mark" => email[y.n].sent > 0
  PROVE  EventsInv'
<1>1. ASSUME NEW n \in ToBeSent
      PROVE  /\ email'[n].sent >= email[n].sent
             /\ email'[n].row = "sent" => email'[n].sent > 0
             /\ email'[n].sent <= Cardinality(Passed(mail', n))
  <2>1. email[n].sent \in Nat
    BY DEF EventsInv, EventsTyped, EmailRows
  <2>2. Cardinality(Passed(mail, n)) <= Cardinality(Passed(mail', n))
    BY PassedGrows DEF EventsInv
  <2>3. Cardinality(Passed(mail, n)) \in Nat /\ Cardinality(Passed(mail', n)) \in Nat
    BY AttemptsFinite
  <2>4. email[n].sent <= Cardinality(Passed(mail, n))
    BY DEF EventsInv, EmailsSent
  <2>. QED
    BY <2>1, <2>2, <2>3, <2>4
<1>. QED
  BY <1>1, AttemptMoves

\* The states an attempt goes to.
LEMMA NextMailState ==
  ASSUME EventsInv, NEW n \in 0..Len(Mails)
  PROVE  /\ NextMail(n) \in MailStates /\ NextMail(n).at \in {"record", "done"}
         /\ NextMail(n).at = "record" => NextMail(n).n = n + 1
         /\ NextMail(n).at = "done" => NextMail(n).n = n
         /\ Len(Mails) \in Nat
<1>1. Len(Mails) \in Nat
  BY MailsType DEF EventsInv, EventsTyped
<1>. QED
  BY <1>1 DEF NextMail, MailStates

LEMMA MailState ==
  ASSUME EventsInv, NEW a \in Attempts
  PROVE  mail[a] \in MailStates /\ mail[a].n \in 0..Len(Mails) /\ mail[a].n \in Nat
<1>1. Len(Mails) \in Nat
  BY MailsType DEF EventsInv, EventsTyped
<1>. QED
  BY <1>1 DEF EventsInv, EventsTyped, MailStates

LEMMA PlaceState ==
  ASSUME EventsInv, NEW a \in Attempts, NEW place \in {"off", "record", "send", "mark", "failed", "done"}
  PROVE  LET y == [mail[a] EXCEPT !.at = place]
         IN  y \in MailStates /\ y.at = place /\ y.n = mail[a].n
  BY MailState DEF MailStates

LEMMA GoingOn ==
  ASSUME EventsInv, NEW a \in Attempts, GoesOn(a), mail[a].at # "off", mail[a].at # "done" /\ mail[a].at # "failed",
         mail[a].at = "record" \/ mail[a].at = "mark",
         UNCHANGED <<occurred, eventJob>>, email' \in [ToBeSent -> EmailRows],
         \A n \in ToBeSent : email'[n].sent = email[n].sent /\ (email'[n].row = "sent" => email[n].sent > 0)
  PROVE  EventsInv'
<1>. DEFINE y == NextMail(mail[a].n)
<1>1. mail' = [mail EXCEPT ![a] = y]
  BY DEF GoesOn
<1>2. /\ y \in MailStates /\ y.at \in {"record", "done"}
      /\ y.at = "record" => y.n = mail[a].n + 1
      /\ y.at = "done" => y.n = mail[a].n
  BY MailState, NextMailState
<1>3. mail[a].n \in Nat
  BY MailState
<1>. HIDE DEF y
<1>4. Onward(mail[a], y) /\ (y.at = "record" => y.n >= 1)
  BY <1>2, <1>3 DEF Onward
<1>. QED
  BY <1>1, <1>2, <1>4, AttemptGoesOn, OrderKept

LEMMA GoingTo ==
  ASSUME EventsInv, NEW a \in Attempts, NEW place \in {"send", "mark", "failed"}, GoesTo(a, place),
         mail[a].at \in {"record", "send", "mark"}, place = "mark" => mail[a].at = "mark",
         place = "send" => mail[a].at \in {"record", "send"} /\ mail[a].n \in ToBeSent,
         UNCHANGED <<occurred, eventJob>>, email' \in [ToBeSent -> EmailRows],
         \A n \in ToBeSent : email'[n].sent = email[n].sent /\ (email'[n].row = "sent" => email[n].sent > 0)
  PROVE  EventsInv'
<1>. DEFINE y == [mail[a] EXCEPT !.at = place]
<1>1. mail' = [mail EXCEPT ![a] = y]
  BY DEF GoesTo
<1>2. y \in MailStates /\ y.at = place /\ y.n = mail[a].n
  <2>1. place \in {"off", "record", "send", "mark", "failed", "done"}
    OBVIOUS
  <2>2. mail[a] \in MailStates
    BY MailState
  <2>. QED
    BY <2>1, <2>2 DEF MailStates
<1>3. mail[a].n \in Nat
  BY MailState
<1>. HIDE DEF y
<1>4. Onward(mail[a], y)
  BY <1>2, <1>3 DEF Onward
<1>5. y.at = "mark" => y.n \in ToBeSent /\ email[y.n].sent > 0
  BY <1>2 DEF EventsInv, EmailsSent
<1>. QED
  BY <1>1, <1>2, <1>4, <1>5, AttemptGoesOn, OrderKept

\* A row changes, and no e-mail is sent.
LEMMA RowChanges ==
  ASSUME EventsInv, NEW n \in ToBeSent, NEW r \in {"none", "pending", "sent", "failed"},
         email' = [email EXCEPT ![n].row = r], r = "sent" => email[n].sent > 0
  PROVE  /\ email' \in [ToBeSent -> EmailRows]
         /\ \A k \in ToBeSent : email'[k].sent = email[k].sent /\ (email'[k].row = "sent" => email[k].sent > 0)
<1>. DEFINE z == [email[n] EXCEPT !.row = r]
<1>1. email[n] \in EmailRows /\ email \in [ToBeSent -> EmailRows]
  BY DEF EventsInv, EventsTyped
<1>2. z \in EmailRows /\ z.row = r /\ z.sent = email[n].sent
  BY <1>1 DEF EmailRows
<1>3. email' = [email EXCEPT ![n] = z]
  OBVIOUS
<1>. HIDE DEF z
<1>4. email' \in [ToBeSent -> EmailRows]
  BY <1>1, <1>2, <1>3
<1>5. \A k \in ToBeSent : email'[k] = IF k = n THEN z ELSE email[k]
  BY <1>1, <1>3
<1>. QED
  BY <1>2, <1>4, <1>5 DEF EventsInv, EmailsSent

LEMMA RowsKept ==
  ASSUME EventsInv, UNCHANGED email
  PROVE  /\ email' \in [ToBeSent -> EmailRows]
         /\ \A k \in ToBeSent : email'[k].sent = email[k].sent /\ (email'[k].row = "sent" => email[k].sent > 0)
  BY DEF EventsInv, EventsTyped, EmailsSent

LEMMA PassedOverInv ==
  ASSUME EventsInv, NEW a \in Attempts, PassedOver(a)
  PROVE  EventsInv' /\ NoneIsRepeated
<1>1. mail[a].at = "record" /\ GoesOn(a) /\ UNCHANGED <<occurred, eventJob, email>>
  BY DEF PassedOver, MailAt
<1>2. EventsInv'
  BY <1>1, GoingOn, RowsKept
<1>. QED
  BY <1>1, <1>2, MailState, NextMailState DEF NoneIsRepeated, GoesOn, EventsInv, EventsTyped

LEMMA RecordEmailInv ==
  ASSUME EventsInv, NEW a \in Attempts, RecordEmail(a)
  PROVE  EventsInv' /\ NoneIsRepeated
<1>1. mail[a].at = "record" /\ Active(mail[a].n) /\ UNCHANGED <<occurred, eventJob>>
  BY DEF RecordEmail, MailAt
<1>2. PICK n \in ToBeSent : n = mail[a].n
  <2>1. mail[a].n \in 1..Len(Mails)
    BY <1>1, MailState, NextMailState DEF EventsInv, EmailsSent
  <2>. QED
    BY <1>1, <2>1 DEF ToBeSent
<1>3. email[n].row \in {"none", "pending", "sent", "failed"} /\ (email[n].row = "sent" => email[n].sent > 0)
  BY DEF EventsInv, EventsTyped, EmailRows, EmailsSent
<1>4. PICK r \in {"none", "pending", "sent", "failed"} : r = IF email[n].row = "none" THEN "pending" ELSE email[n].row
  BY <1>3
<1>5. email' = [email EXCEPT ![n].row = r]
  BY <1>2, <1>4 DEF RecordEmail
<1>6. /\ email' \in [ToBeSent -> EmailRows]
      /\ \A k \in ToBeSent : email'[k].sent = email[k].sent /\ (email'[k].row = "sent" => email[k].sent > 0)
  BY <1>3, <1>4, <1>5, RowChanges
<1>7. CASE email[n].row = "sent"
  <2>1. GoesOn(a)
    BY <1>2, <1>7 DEF RecordEmail, Row
  <2>2. EventsInv'
    BY <1>1, <1>6, <2>1, GoingOn
  <2>. QED
    BY <1>1, <2>1, <2>2, MailState, NextMailState DEF NoneIsRepeated, GoesOn, EventsInv, EventsTyped
<1>8. CASE email[n].row # "sent"
  <2>1. GoesTo(a, "send")
    BY <1>2, <1>8 DEF RecordEmail, Row
  <2>2. EventsInv'
    BY <1>1, <1>2, <1>6, <2>1, GoingTo
  <2>3. mail' = [mail EXCEPT ![a] = [mail[a] EXCEPT !.at = "send"]]
    BY <2>1 DEF GoesTo
  <2>4. \A b \in Attempts : b # a => mail'[b] = mail[b]
    BY <2>3 DEF EventsInv, EventsTyped
  <2>5. mail'[a].n = n
    BY <1>2, <2>3, PlaceState DEF EventsInv, EventsTyped
  <2>. QED
    BY <1>8, <2>2, <2>4, <2>5 DEF NoneIsRepeated
<1>. QED
  BY <1>7, <1>8

LEMMA SendEmailInv ==
  ASSUME EventsInv, NEW a \in Attempts, SendEmail(a)
  PROVE  EventsInv' /\ NoneIsRepeated
<1>1. mail[a].at = "send" /\ GoesTo(a, "mark") /\ UNCHANGED <<occurred, eventJob>>
  BY DEF SendEmail, MailAt
<1>2. PICK n \in ToBeSent : n = mail[a].n
  BY <1>1 DEF EventsInv, EmailsSent
<1>. DEFINE y == [mail[a] EXCEPT !.at = "mark"]
            z == [email[n] EXCEPT !.sent = email[n].sent + 1]
<1>3. mail' = [mail EXCEPT ![a] = y] /\ email' = [email EXCEPT ![n] = z]
  BY <1>1, <1>2 DEF GoesTo, SendEmail
<1>4. y \in MailStates /\ y.at = "mark" /\ y.n = n
  BY <1>2, PlaceState
<1>5. email[n] \in EmailRows /\ email \in [ToBeSent -> EmailRows]
  BY DEF EventsInv, EventsTyped
<1>6. z \in EmailRows /\ z.row = email[n].row /\ z.sent = email[n].sent + 1 /\ email[n].sent \in Nat
  BY <1>5 DEF EmailRows
<1>. HIDE DEF y, z
<1>7. email' \in [ToBeSent -> EmailRows] /\ \A k \in ToBeSent : email'[k] = IF k = n THEN z ELSE email[k]
  BY <1>3, <1>5, <1>6
<1>8. \A b \in Attempts : mail'[b] = IF b = a THEN y ELSE mail[b]
  BY <1>3 DEF EventsInv, EventsTyped
<1>9. Onward(mail[a], y)
  BY <1>1, <1>2, <1>4 DEF Onward
<1>10. ASSUME NEW k \in ToBeSent
       PROVE  /\ email'[k].sent >= email[k].sent
              /\ email'[k].row = "sent" => email'[k].sent > 0
              /\ email'[k].sent <= Cardinality(Passed(mail', k))
  <2>1. email[k].sent \in Nat /\ (email[k].row = "sent" => email[k].sent > 0)
    BY DEF EventsInv, EventsTyped, EmailRows, EmailsSent
  <2>2. /\ Passed(mail, k) \subseteq Passed(mail', k)
        /\ Cardinality(Passed(mail, k)) <= Cardinality(Passed(mail', k))
        /\ Cardinality(Passed(mail, k)) \in Nat /\ Cardinality(Passed(mail', k)) \in Nat
        /\ IsFiniteSet(Passed(mail, k)) /\ IsFiniteSet(Passed(mail', k))
    BY <1>3, <1>4, <1>9, <1>1, PassedGrows, AttemptsFinite DEF EventsInv
  <2>3. email[k].sent <= Cardinality(Passed(mail, k))
    BY DEF EventsInv, EmailsSent
  <2>4. CASE k # n
    BY <1>7, <2>1, <2>2, <2>3, <2>4
  <2>5. CASE k = n
    <3>1. a \notin Passed(mail, k) /\ a \in Passed(mail', k)
      <4>1. n \in Nat
        BY <1>2, MailState
      <4>. QED
        BY <1>1, <1>2, <1>4, <1>8, <2>5, <4>1 DEF Passed
    <3>2. Passed(mail, k) \cup {a} \subseteq Passed(mail', k)
      BY <2>2, <3>1
    <3>3. IsFiniteSet(Passed(mail, k) \cup {a}) /\ Cardinality(Passed(mail, k) \cup {a}) = Cardinality(Passed(mail, k)) + 1
      BY <2>2, <3>1, FS_AddElement
    <3>4. Cardinality(Passed(mail, k)) + 1 <= Cardinality(Passed(mail', k))
      BY <2>2, <3>2, <3>3, FS_Subset
    <3>. QED
      BY <1>6, <1>7, <2>1, <2>2, <2>3, <2>5, <3>4
  <2>. QED
    BY <2>4, <2>5
<1>11. y.at = "mark" => email'[y.n].sent > 0
  BY <1>4, <1>6, <1>7
<1>12. eventJob' \in JobStates /\ AttemptsInOrder'
  BY <1>1, <1>3, <1>4, OrderKept
<1>13. EventsInv'
  BY <1>1, <1>3, <1>4, <1>7, <1>10, <1>11, <1>12, AttemptMoves
<1>. QED
  BY <1>4, <1>8, <1>13 DEF NoneIsRepeated

LEMMA MarkSentInv ==
  ASSUME EventsInv, NEW a \in Attempts, MarkSent(a)
  PROVE  EventsInv' /\ NoneIsRepeated
<1>1. mail[a].at = "mark" /\ GoesOn(a) /\ UNCHANGED <<occurred, eventJob>>
  BY DEF MarkSent, MailAt
<1>2. PICK n \in ToBeSent : n = mail[a].n /\ email[n].sent > 0
  BY <1>1 DEF EventsInv, EmailsSent
<1>3. email' = [email EXCEPT ![n].row = "sent"]
  BY <1>2 DEF MarkSent
<1>4. EventsInv'
  BY <1>1, <1>2, <1>3, RowChanges, GoingOn
<1>. QED
  BY <1>1, <1>4, MailState, NextMailState DEF NoneIsRepeated, GoesOn, EventsInv, EventsTyped

LEMMA MailFailsInv ==
  ASSUME EventsInv, NEW a \in Attempts, SendEmailFails(a) \/ MailStatementFails(a)
  PROVE  EventsInv' /\ NoneIsRepeated
<1>1. mail[a].at \in {"record", "send", "mark"} /\ GoesTo(a, "failed") /\ UNCHANGED <<occurred, eventJob>>
  BY DEF SendEmailFails, MailStatementFails, MailAt
<1>2. /\ email' \in [ToBeSent -> EmailRows]
      /\ \A k \in ToBeSent : email'[k].sent = email[k].sent /\ (email'[k].row = "sent" => email[k].sent > 0)
  <2>1. CASE SendEmailFails(a)
    <3>1. PICK n \in ToBeSent : n = mail[a].n
      BY <2>1 DEF SendEmailFails, MailAt, EventsInv, EmailsSent
    <3>2. email' = [email EXCEPT ![n].row = "failed"]
      BY <2>1, <3>1 DEF SendEmailFails
    <3>. QED
      BY <3>2, RowChanges
  <2>2. CASE MailStatementFails(a)
    BY <2>2, RowsKept DEF MailStatementFails
  <2>. QED
    BY <2>1, <2>2
<1>3. EventsInv'
  BY <1>1, <1>2, GoingTo
<1>4. mail' = [mail EXCEPT ![a] = [mail[a] EXCEPT !.at = "failed"]]
  BY <1>1 DEF GoesTo
<1>5. mail'[a].at = "failed"
  BY <1>4, PlaceState DEF EventsInv, EventsTyped
<1>6. \A b \in Attempts : b # a => mail'[b] = mail[b]
  BY <1>4 DEF EventsInv, EventsTyped
<1>. QED
  BY <1>3, <1>5, <1>6 DEF NoneIsRepeated

LEMMA TakeEventInv ==
  ASSUME EventsInv, TakeEvent
  PROVE  EventsInv' /\ NoneIsRepeated
<1>1. eventJob \in JobStates /\ eventJob.at = "queued" /\ eventJob.tries < EventTries
  BY DEF TakeEvent, EventsInv, EventsTyped, AttemptsInOrder
<1>2. PICK a \in Attempts : a = eventJob.tries + 1
  BY <1>1, DomainEventsAssumption DEF JobStates, Attempts
<1>. DEFINE y == NextMail(0)
<1>3. eventJob' = [at |-> "running", tries |-> a] /\ mail' = [mail EXCEPT ![a] = y] /\ UNCHANGED <<occurred, email>>
  BY <1>2 DEF TakeEvent
<1>4. mail[a].at = "off" /\ mail[a].n = 0
  BY <1>1, <1>2, DomainEventsAssumption DEF EventsInv, AttemptsInOrder, JobStates
<1>5. /\ y \in MailStates /\ y.at \in {"record", "done"}
      /\ y.at = "record" => y.n = 1
      /\ y.at = "done" => y.n = 0
  <2>1. 0 \in 0..Len(Mails)
    BY <1>4, MailState
  <2>. QED
    BY <2>1, NextMailState
<1>. HIDE DEF y
<1>6. Onward(mail[a], y)
  BY <1>4, <1>5 DEF Onward
<1>7. \A b \in Attempts : mail'[b] = IF b = a THEN y ELSE mail[b]
  BY <1>3 DEF EventsInv, EventsTyped
<1>8. eventJob' \in JobStates /\ AttemptsInOrder'
  <2>1. eventJob'.tries = a /\ eventJob'.at = "running" /\ eventJob' \in JobStates
    BY <1>1, <1>2, <1>3, DomainEventsAssumption DEF JobStates, Attempts
  <2>2. \A b \in Attempts : b > a => b > eventJob.tries /\ b # a
    BY <1>1, <1>2, DomainEventsAssumption DEF JobStates, Attempts
  <2>. QED
    BY <1>7, <2>1, <2>2 DEF AttemptsInOrder, EventsInv
<1>9. EventsInv'
  <2>1. /\ email' \in [ToBeSent -> EmailRows]
        /\ \A k \in ToBeSent : email'[k].sent = email[k].sent /\ (email'[k].row = "sent" => email[k].sent > 0)
    BY <1>3, RowsKept
  <2>2. (y.at = "record" => y.n >= 1) /\ y.at \notin {"send", "mark"}
    BY <1>5
  <2>. QED
    BY <1>3, <1>5, <1>6, <1>8, <2>1, <2>2, AttemptGoesOn
<1>. QED
  BY <1>5, <1>7, <1>9 DEF NoneIsRepeated

LEMMA EventWorkerDiesInv ==
  ASSUME EventsInv, EventWorkerDies
  PROVE  EventsInv' /\ NoneIsRepeated
<1>1. eventJob \in JobStates /\ eventJob.at = "running" /\ eventJob.tries < EventTries
  BY DEF EventWorkerDies, EventsInv, EventsTyped
<1>2. UNCHANGED <<occurred, email>> /\ eventJob' = [eventJob EXCEPT !.at = "queued"] /\ mail' = [mail EXCEPT ![eventJob.tries].at = "off"]
  BY DEF EventWorkerDies
<1>3. eventJob' \in JobStates /\ eventJob'.at = "queued" /\ eventJob'.tries = eventJob.tries
  BY <1>1, <1>2 DEF JobStates
<1>4. CASE eventJob.tries \in Attempts
  <2>. DEFINE y == [mail[eventJob.tries] EXCEPT !.at = "off"]
  <2>1. y \in MailStates /\ y.at = "off" /\ y.n = mail[eventJob.tries].n /\ y.n \in Nat
    BY <1>4, PlaceState, MailState
  <2>2. mail' = [mail EXCEPT ![eventJob.tries] = y]
    BY <1>2
  <2>. HIDE DEF y
  <2>3. \A b \in Attempts : mail'[b] = IF b = eventJob.tries THEN y ELSE mail[b]
    BY <2>2 DEF EventsInv, EventsTyped
  <2>4. Onward(mail[eventJob.tries], y)
    BY <2>1 DEF Onward
  <2>5. AttemptsInOrder'
    <3>1. \A b \in Attempts : b > eventJob.tries => b # eventJob.tries
      BY <1>1, DomainEventsAssumption DEF JobStates, Attempts
    <3>. QED
      BY <1>1, <1>3, <2>3, <3>1 DEF AttemptsInOrder, EventsInv
  <2>6. EventsInv'
    BY <1>2, <1>3, <1>4, <2>1, <2>2, <2>4, <2>5, RowsKept, AttemptGoesOn
  <2>. QED
    BY <2>1, <2>3, <2>6 DEF NoneIsRepeated
<1>5. CASE eventJob.tries \notin Attempts
  <2>1. mail' = mail
    BY <1>2, <1>5 DEF EventsInv, EventsTyped
  <2>2. AttemptsInOrder'
    BY <1>1, <1>3, <2>1 DEF AttemptsInOrder, EventsInv
  <2>3. Mails' = Mails /\ MailStates' = MailStates /\ ToBeSent' = ToBeSent
    BY <1>2, MailsKept
  <2>. QED
    BY <1>2, <1>3, <2>1, <2>2, <2>3 DEF EventsInv, EventsTyped, EmailsSent, NoneIsRepeated
<1>. QED
  BY <1>4, <1>5

\* A step that leaves the e-mails and the attempts to send them as they are.
LEMMA EventsKept ==
  ASSUME EventsInv, UNCHANGED <<occurred, mail, email>>, eventJob' \in JobStates,
         eventJob'.tries = eventJob.tries,
         eventJob'.at \in {"none", "queued"} => eventJob.tries < EventTries
  PROVE  EventsInv' /\ NoneIsRepeated
<1>1. Mails' = Mails /\ MailStates' = MailStates /\ ToBeSent' = ToBeSent
  BY MailsKept
<1>. QED
  BY <1>1 DEF EventsInv, EventsTyped, AttemptsInOrder, EmailsSent, NoneIsRepeated

LEMMA EventsStep ==
  ASSUME EventsInv, [EventsNext]_eventVars
  PROVE  EventsInv' /\ NoneIsRepeated
<1>0. eventJob \in JobStates /\ (eventJob.at \in {"none", "queued"} => eventJob.tries < EventTries)
  BY DEF EventsInv, EventsTyped, AttemptsInOrder
<1>1. CASE UNCHANGED eventVars \/ Toggle \/ \E a \in Attempts : FanStep(a) \/ FanOutFails(a)
  <2>1. UNCHANGED <<occurred, mail, email, eventJob>>
    BY <1>1 DEF eventVars, Toggle, FanStep, FindSubscribed, InsertDelivery, EnqueueDelivery, FanOutFails
  <2>. QED
    BY <1>0, <2>1, EventsKept
<1>2. CASE PublishEvent \/ EventJobDone \/ EventJobFails
  <2>1. UNCHANGED <<occurred, mail, email>>
    BY <1>2 DEF PublishEvent, EventJobDone, EventJobFails
  <2>2. PICK at \in {"queued", "done", "dead"} :
          eventJob' = [eventJob EXCEPT !.at = at] /\ (at = "queued" => eventJob.tries < EventTries)
    BY <1>0, <1>2 DEF PublishEvent, EventJobDone, EventJobFails
  <2>3. eventJob' \in JobStates /\ eventJob'.tries = eventJob.tries /\ eventJob'.at = at
    BY <1>0, <2>2 DEF JobStates
  <2>. QED
    BY <2>1, <2>2, <2>3, EventsKept
<1>. QED
  BY <1>1, <1>2, PassedOverInv, RecordEmailInv, SendEmailInv, MarkSentInv, MailFailsInv, TakeEventInv,
     EventWorkerDiesInv DEF EventsNext, MailStep

LEMMA EventsStart == EventsInit => EventsInv
<1>. SUFFICES ASSUME EventsInit PROVE EventsInv
  OBVIOUS
<1>1. Len(Mails) \in Nat
  BY MailsType DEF EventsInit
<1>2. \A a \in Attempts : mail[a].at = "off" /\ mail[a].n = 0
  BY DEF EventsInit
<1>3. email = [n \in ToBeSent |-> [row |-> "none", sent |-> 0]]
  BY DEF EventsInit, ToBeSent
<1>4. EventsTyped
  BY <1>1, <1>3, DomainEventsAssumption DEF EventsInit, EventsTyped, JobStates, MailStates, EmailRows
<1>5. AttemptsInOrder
  BY <1>2, DomainEventsAssumption DEF EventsInit, AttemptsInOrder
<1>6. ASSUME NEW n \in ToBeSent PROVE email[n].row # "sent" /\ email[n].sent <= Cardinality(Passed(mail, n))
  <2>1. Cardinality(Passed(mail, n)) \in Nat /\ email[n].row = "none" /\ email[n].sent = 0
    BY <1>3, AttemptsFinite
  <2>. QED
    BY <2>1
<1>7. EmailsSent
  BY <1>2, <1>6 DEF EmailsSent
<1>. QED
  BY <1>4, <1>5, <1>7 DEF EventsInv

LEMMA EventsTypeCorrect == EventsSpec => []EventsTypeOK
<1>1. EventsInv => EventsTypeOK
  <2>. SUFFICES ASSUME EventsInv PROVE EventsTypeOK
    OBVIOUS
  <2>1. eventJob.at \in {"none", "queued", "running", "done", "dead"} /\ eventJob.tries \in 0..EventTries
    BY DEF EventsInv, EventsTyped, JobStates
  <2>2. ASSUME NEW n \in ToBeSent
        PROVE  /\ email[n].row \in {"none", "pending", "sent", "failed"} /\ email[n].sent \in 0..EventTries
               /\ email[n].row = "sent" => email[n].sent > 0
    <3>1. email[n] \in EmailRows
      BY DEF EventsInv, EventsTyped
    <3>2. email[n].row \in {"none", "pending", "sent", "failed"} /\ email[n].sent \in Nat
      BY <3>1 DEF EmailRows
    <3>3. email[n].sent <= Cardinality(Passed(mail, n)) /\ (email[n].row = "sent" => email[n].sent > 0)
      BY DEF EventsInv, EmailsSent
    <3>4. Cardinality(Passed(mail, n)) \in Nat /\ Cardinality(Passed(mail, n)) <= EventTries
      BY AttemptsFinite
    <3>. QED
      BY <3>2, <3>3, <3>4, DomainEventsAssumption
  <2>3. DOMAIN email = ToBeSent
    BY DEF EventsInv, EventsTyped
  <2>. QED
    BY <2>1, <2>2, <2>3 DEF EventsTypeOK
<1>. QED
  BY <1>1, EventsStart, EventsStep, PTL DEF EventsSpec

\* Domain events: however many attempts overlap and wherever each of them fails, none sets out
\* to send an e-mail that is recorded as sent.
THEOREM SentOnceIsNotRepeated == EventsSpec => SentIsNotRepeated
<1>1. EventsInv /\ [EventsNext]_eventVars => [NoneIsRepeated]_eventVars
  BY EventsStep
<1>. QED
  BY <1>1, EventsStart, EventsStep, PTL DEF EventsSpec, SentIsNotRepeated

-----------------------------------------------------------------------------
(* The parts together *)

asyncVars == <<part, vars, eventVars, proposalVars>>

\* In a behaviour that TLC checks, every part behaves as its specification says.
LEMMA AsyncAreParts == AsyncSpec => Spec /\ EventsSpec /\ ProposalsSpec
<1>1. AsyncInit => Init /\ EventsInit /\ ProposalsInit
  BY DEF AsyncInit
<1>2. [AsyncNext]_asyncVars => [Next]_vars /\ [EventsNext]_eventVars /\ [ProposalsNext]_proposalVars
  BY DEF AsyncNext, asyncVars
<1>. QED
  BY <1>1, <1>2, PTL DEF AsyncSpec, asyncVars, Spec, EventsSpec, ProposalsSpec

\* What goes on after a request: for any numbers of requests, workers, attempts, e-mails,
\* proposals, deciders and failures, the variables have their types. In particular each
\* attempt of an event sends an e-mail at most once, and a connection is always free.
THEOREM AsyncTypeCorrect == AsyncSpec => []AsyncTypeOK
<1>1. TypeOK /\ EventsTypeOK /\ ProposalsTypeOK => AsyncTypeOK
  BY DEF AsyncTypeOK
<1>. QED
  BY <1>1, AsyncAreParts, IntakeTypeCorrect, EventsTypeCorrect, ProposalsTypeCorrect, PTL

\* Moreover a payment is settled as charged, a published row has its job, a decision on record
\* tells what became of the payout and is never taken back, and no e-mail that is recorded as
\* sent goes out again.
THEOREM AsyncIsSafe ==
  AsyncSpec => /\ [](SettledAsCharged /\ PublishedIsQueued /\ OutcomeMatchesPayout)
               /\ SentIsNotRepeated /\ DecisionsStick
  BY AsyncAreParts, IntakeSettledAsCharged, OutboxPublishesWhatItMarks, ProposalsMatchPayouts,
     ProposalsDecidedOnce, SentOnceIsNotRepeated, PTL

=================================================================================
