------------------------------ MODULE LedgerProofs ------------------------------
(***************************************************************************)
(* Proofs about Ledger, for every set of accounts, callers and programs.   *)
(***************************************************************************)
EXTENDS Ledger, SumsProofs

\* A call that is under way has a posting in hand, and one that is not in a
\* database transaction holds nothing.
TxInv ==
  \A c \in Callers :
    /\ pc[c] # "idle" => leg[c] \in 1..Len(program[c])
    /\ pc[c] \in {"idle", "replay"} =>
         written[c] = {} /\ delta[c] = NoChange /\ \A a \in Accounts : lock[a] # c
    /\ pc[c] = "lock" =>
         \A t \in written[c] :
           /\ t.reference # Input(c).reference
           /\ Input(c).reversalOf # NoReference => t.reversalOf # Input(c).reversalOf
    /\ pc[c] = "commit" => leg[c] = Len(program[c])

\* Uncommitted balance changes are on locked rows, and leave them covered.
LockInv ==
  \A c \in Callers : \A a \in Accounts :
    /\ delta[c][a] # 0 => lock[a] = c
    /\ lock[a] = c /\ a \notin AllowNegative => balance[a] + delta[c][a] >= 0

\* Two postings that a unique index tells apart.
Distinct(t, u) ==
  /\ t.reference # u.reference
  /\ t.reversalOf # NoReference => t.reversalOf # u.reversalOf

\* The unique indexes, over what is committed and what open transactions wrote.
KeysInv ==
  /\ \A t, u \in posted : t # u => Distinct(t, u)
  /\ \A c \in Callers : \A t \in written[c] : \A u \in posted : Distinct(t, u)
  /\ \A c \in Callers : \A t, u \in written[c] : t # u => Distinct(t, u)
  /\ \A c, d \in Callers : c # d => \A t \in written[c] : \A u \in written[d] : Distinct(t, u)

\* The posting p is there for a reader who sees the postings of S.
Found(p, S) == \E t \in S : t.reference = p.reference /\ SameContent(t, p)

\* A transaction has made, or found, the postings it has left behind.
AckInv ==
  /\ AcknowledgedIsPosted
  /\ \A c \in Callers : \A i \in 1..Len(program[c]) :
       /\ pc[c] \in {"check", "lock"} /\ i < leg[c] => Found(program[c][i], Visible(c))
       /\ pc[c] = "commit" => Found(program[c][i], Visible(c))
  /\ \A c \in Callers : pc[c] = "replay" => Len(program[c]) = 1

IInv == TypeOK /\ TxInv /\ LockInv /\ NoOverdraft /\ KeysInv /\ AckInv

-----------------------------------------------------------------------------
(* The posting in hand. *)

\* The posting a caller has in hand is a posting.
LEMMA InputType ==
  ASSUME TypeOK, TxInv, NEW c \in Callers, pc[c] # "idle"
  PROVE  Input(c) \in Posting
  BY DEF TypeOK, TxInv, Input

\* What a posting changes is an integer, and nothing outside its accounts.
LEMMA ChangeType ==
  ASSUME NEW p \in Posting, NEW a \in Accounts
  PROVE  /\ Change(p, a) \in Int
         /\ a \notin AccountsOf(p) => Change(p, a) = 0
  BY DEF Posting, Change, AccountsOf

\* The mirror image of a posting is a posting.
LEMMA MirrorType ==
  ASSUME NEW p \in Posting, NEW reference \in References
  PROVE  Mirror(p, reference) \in Posting
  BY DEF Posting, Mirror

-----------------------------------------------------------------------------
(* Initial states. *)

\* The invariant holds before anything is posted.
LEMMA InitInv == Init => IInv
  <1> SUFFICES ASSUME Init PROVE IInv
    OBVIOUS
  <1> USE ConstantsAssumption
  <1>1. TypeOK
    BY DEF Init, TypeOK, NoChange
  <1>2. TxInv
    BY DEF Init, TxInv, NoChange
  <1>3. LockInv /\ NoOverdraft
    BY DEF Init, LockInv, NoOverdraft, NoChange
  <1>4. KeysInv
    BY DEF Init, KeysInv
  <1>5. AckInv
    BY DEF Init, AckInv, AcknowledgedIsPosted
  <1>6. QED
    BY <1>1, <1>2, <1>3, <1>4, <1>5 DEF IInv

-----------------------------------------------------------------------------
(* Rolling back, which several actions do. *)

\* A rollback preserves the invariant: nothing it undoes was visible to others.
LEMMA RollbackInv ==
  ASSUME IInv, NEW c \in Callers, Rollback(c)
  PROVE  IInv'
  <1> USE ConstantsAssumption DEF IInv, Rollback, EndTransaction, Return
  <1>1. TypeOK'
    BY DEF TypeOK, Released, NoChange
  <1>2. TxInv'
    BY DEF TypeOK, TxInv, Released, NoChange, Input
  <1>3. LockInv' /\ NoOverdraft'
    BY DEF TypeOK, LockInv, Released, NoChange, NoOverdraft
  <1>4. KeysInv'
    BY DEF TypeOK, KeysInv
  <1>5. AckInv'
    BY DEF TypeOK, AckInv, AcknowledgedIsPosted, Visible, Found, SameContent
  <1>6. QED
    BY <1>1, <1>2, <1>3, <1>4, <1>5

-----------------------------------------------------------------------------
(* One lemma per kind of step. *)

\* Opening an account touches nothing the invariant speaks of.
LEMMA OpenAccountInv ==
  ASSUME IInv, NEW a \in Accounts, OpenAccount(a)
  PROVE  IInv'
  <1> USE DEF IInv, OpenAccount, txVars
  <1>1. TypeOK' /\ TxInv'
    BY DEF TypeOK, TxInv, Input
  <1>2. LockInv' /\ NoOverdraft' /\ KeysInv'
    BY DEF LockInv, NoOverdraft, KeysInv
  <1>3. AckInv'
    BY DEF AckInv, AcknowledgedIsPosted, Visible
  <1>4. QED
    BY <1>1, <1>2, <1>3

\* A call starts with no lock, nothing written and its first posting in hand.
LEMMA StartInv ==
  ASSUME IInv, NEW c \in Callers, NEW postings \in Seq(Posting), postings # << >>,
         Start(c, postings)
  PROVE  IInv'
  <1> USE DEF IInv, Start
  <1>1. TypeOK' /\ TxInv'
    BY DEF TypeOK, TxInv, Input
  <1>2. LockInv' /\ NoOverdraft' /\ KeysInv'
    BY DEF TypeOK, LockInv, NoOverdraft, KeysInv
  <1>3. AckInv'
    <2>1. AcknowledgedIsPosted'
      BY DEF AckInv, AcknowledgedIsPosted
    <2>2. \A d \in Callers \ {c} :
            /\ pc'[d] = pc[d] /\ leg'[d] = leg[d] /\ program'[d] = program[d]
            /\ Visible(d)' = Visible(d)
      BY DEF TypeOK, Visible
    <2>3. pc'[c] = "check" /\ leg'[c] = 1
      BY DEF TypeOK
    <2>4. QED
      BY <2>1, <2>2, <2>3 DEF AckInv
  <1>4. QED
    BY <1>1, <1>2, <1>3

\* Going on to the next posting once the one in hand is found: Visible is as
\* it was, or has gained the posting.
LEMMA NextLegAck ==
  ASSUME IInv, NEW c \in Callers, pc[c] \in {"check", "lock"}, NextLeg(c),
         UNCHANGED <<program, posted, acked>>,
         \A d \in Callers \ {c} : written'[d] = written[d],
         Visible(c) \subseteq Visible(c)',
         Found(Input(c), Visible(c)')
  PROVE  AckInv'
  <1> USE DEF IInv
  <1>1. AcknowledgedIsPosted'
    BY DEF AckInv, AcknowledgedIsPosted
  <1>2. ASSUME NEW d \in Callers, NEW i \in 1..Len(program[d])
        PROVE  /\ pc'[d] \in {"check", "lock"} /\ i < leg'[d] => Found(program[d][i], Visible(d)')
               /\ pc'[d] = "commit" => Found(program[d][i], Visible(d)')
    <2>1. CASE d # c
      BY <2>1 DEF TypeOK, AckInv, NextLeg, Visible
    <2>2. CASE d = c
      <3>1. leg[c] \in 1..Len(program[c])
        BY DEF TxInv
      <3>2. ASSUME i < leg[c] PROVE Found(program[c][i], Visible(c)')
        BY <3>2, <2>2 DEF AckInv, Found
      <3>3. i = leg[c] => Found(program[c][i], Visible(c)')
        BY DEF Input
      <3>4. CASE leg[c] < Len(program[c])
        BY <2>2, <3>1, <3>2, <3>3, <3>4 DEF TypeOK, NextLeg
      <3>5. CASE ~(leg[c] < Len(program[c]))
        BY <2>2, <3>1, <3>2, <3>3, <3>5 DEF TypeOK, NextLeg
      <3>6. QED
        BY <3>4, <3>5
    <2>3. QED
      BY <2>1, <2>2
  <1>3. \A d \in Callers : pc'[d] = "replay" => Len(program'[d]) = 1
    BY DEF TypeOK, AckInv, NextLeg
  <1>4. QED
    BY <1>1, <1>2, <1>3 DEF AckInv

\* Going on to the next posting keeps every caller's bookkeeping in order.
LEMMA NextLegTx ==
  ASSUME TypeOK, TxInv, NEW c \in Callers, pc[c] \in {"check", "lock"}, NextLeg(c),
         UNCHANGED <<program, lock>>,
         \A d \in Callers \ {c} : written'[d] = written[d] /\ delta'[d] = delta[d]
  PROVE  /\ TxInv'
         /\ pc' \in [Callers -> {"idle", "check", "lock", "commit", "replay"}]
         /\ leg' \in [Callers -> Nat]
  <1>0. leg[c] \in 1..Len(program[c]) /\ Len(program[c]) \in Nat
    BY DEF TxInv, TypeOK
  <1>1. \/ leg' = [leg EXCEPT ![c] = leg[c] + 1] /\ pc' = [pc EXCEPT ![c] = "check"]
           /\ leg[c] + 1 \in 1..Len(program[c])
        \/ leg' = leg /\ pc' = [pc EXCEPT ![c] = "commit"] /\ leg[c] = Len(program[c])
    BY <1>0 DEF NextLeg
  <1>2. /\ pc' \in [Callers -> {"idle", "check", "lock", "commit", "replay"}]
        /\ leg' \in [Callers -> Nat]
    <2>1. leg[c] \in Nat /\ leg[c] + 1 \in Nat
      BY DEF TypeOK
    <2>2. QED
      BY <1>1, <2>1 DEF TypeOK
  <1>3. /\ pc'[c] \in {"check", "commit"} /\ leg'[c] \in 1..Len(program[c])
        /\ pc'[c] = "commit" => leg'[c] = Len(program[c])
    BY <1>0, <1>1 DEF TypeOK
  <1>4. \A d \in Callers \ {c} :
          pc'[d] = pc[d] /\ leg'[d] = leg[d] /\ Input(d)' = Input(d)
    BY <1>1 DEF TypeOK, Input
  <1>5. TxInv'
    BY <1>3, <1>4 DEF TxInv
  <1>6. QED
    BY <1>2, <1>5

\* A check that refuses rolls back; one that finds its posting goes on.
LEMMA CheckInv ==
  ASSUME IInv, NEW c \in Callers, Check(c)
  PROVE  IInv'
  <1> DEFINE input == Input(c)
             existing == {t \in Visible(c) : t.reference = input.reference}
             reversals == {t \in Visible(c) : t.reversalOf = input.reversalOf}
  <1>0. pc[c] = "check" /\ input \in Posting
    BY InputType DEF Check, IInv
  <1>1. CASE Rollback(c)
    BY <1>1, RollbackInv
  <1>2. CASE /\ existing # {}
             /\ \A t \in existing : SameContent(t, input)
             /\ NextLeg(c)
             /\ UNCHANGED <<opened, balance, posted, lock, program, written, delta, acked>>
    <2>1. TypeOK' /\ TxInv'
      BY <1>0, <1>2, NextLegTx DEF IInv, TypeOK
    <2>2. LockInv' /\ NoOverdraft' /\ KeysInv'
      BY <1>2 DEF IInv, LockInv, NoOverdraft, KeysInv
    <2>3. Visible(c)' = Visible(c) /\ Found(Input(c), Visible(c)')
      BY <1>2 DEF Visible, Found
    <2>4. AckInv'
      BY <1>0, <1>2, <2>3, NextLegAck
    <2>5. QED
      BY <2>1, <2>2, <2>4 DEF IInv
  <1>3. CASE /\ existing = {}
             /\ input.reversalOf = NoReference \/ reversals = {}
             /\ pc' = [pc EXCEPT ![c] = "lock"]
             /\ UNCHANGED <<opened, balance, posted, lock, txVars, acked>>
    <2> USE <1>3 DEF IInv, txVars
    <2>1. TypeOK'
      BY DEF TypeOK
    <2>2. TxInv'
      BY <1>0 DEF TypeOK, TxInv, Input, Visible
    <2>3. LockInv' /\ NoOverdraft' /\ KeysInv'
      BY DEF LockInv, NoOverdraft, KeysInv
    <2>4. AckInv'
      BY <1>0 DEF TypeOK, AckInv, AcknowledgedIsPosted, Visible
    <2>5. QED
      BY <2>1, <2>2, <2>3, <2>4
  <1>4. QED
    BY <1>1, <1>2, <1>3 DEF Check

\* A lock is taken on a row nobody holds, whose committed balance is covered.
LEMMA LockAccountInv ==
  ASSUME IInv, NEW c \in Callers, LockAccount(c)
  PROVE  IInv'
  <1> USE ConstantsAssumption DEF IInv, txVars
  <1>0. PICK a \in Accounts : lock[a] = Nobody /\ lock' = [lock EXCEPT ![a] = c]
    BY DEF LockAccount, ToLock, AccountsOf
  <1>00. pc[c] = "lock" /\ UNCHANGED <<opened, balance, posted, pc, txVars, acked>>
    BY DEF LockAccount
  <1>1. TypeOK'
    BY <1>0, <1>00 DEF TypeOK
  <1>2. TxInv'
    BY <1>0, <1>00 DEF TypeOK, TxInv, Input
  <1>3. LockInv' /\ NoOverdraft'
    BY <1>0, <1>00 DEF TypeOK, LockInv, NoOverdraft
  <1>4. KeysInv' /\ AckInv'
    BY <1>00 DEF KeysInv, AckInv, AcknowledgedIsPosted, Visible
  <1>5. QED
    BY <1>1, <1>2, <1>3, <1>4

\* An insert that goes through has its rows locked, its balances covered and
\* its keys to itself.
LEMMA InsertInv ==
  ASSUME IInv, NEW c \in Callers, Insert(c)
  PROVE  IInv'
  <1> DEFINE input == Input(c)
  <1>0. pc[c] = "lock" /\ input \in Posting /\ ToLock(c) = {}
    BY InputType DEF Insert, IInv
  <1>1. CASE Rollback(c)
    BY <1>1, RollbackInv
  <1>2. CASE /\ Len(program[c]) = 1
             /\ EndTransaction(c)
             /\ pc' = [pc EXCEPT ![c] = "replay"]
             /\ UNCHANGED <<opened, balance, posted, program, leg, acked>>
    <2> USE <1>2, ConstantsAssumption DEF IInv, EndTransaction
    <2>1. TypeOK'
      BY DEF TypeOK, Released, NoChange
    <2>2. TxInv'
      BY <1>0 DEF TypeOK, TxInv, Released, NoChange, Input
    <2>3. LockInv' /\ NoOverdraft'
      BY DEF TypeOK, LockInv, Released, NoChange, NoOverdraft
    <2>4. KeysInv'
      BY DEF TypeOK, KeysInv
    <2>5. AckInv'
      BY DEF TypeOK, AckInv, AcknowledgedIsPosted, Visible
    <2>6. QED
      BY <2>1, <2>2, <2>3, <2>4, <2>5
  <1>3. CASE /\ AssertSufficientFunds(c, input)
             /\ ~KeyTaken(c, input)
             /\ ~ReferenceCommitted(input) /\ ~ReversalCommitted(input)
             /\ written' = [written EXCEPT ![c] = @ \cup {input}]
             /\ delta' = [delta EXCEPT ![c] = [a \in Accounts |-> @[a] + Change(input, a)]]
             /\ NextLeg(c)
             /\ UNCHANGED <<opened, balance, posted, lock, program, acked>>
    <2>0. /\ TypeOK /\ TxInv /\ LockInv /\ NoOverdraft /\ KeysInv
          /\ \A a \in Accounts : Change(input, a) \in Int
          /\ \A a \in Accounts : a \notin AccountsOf(input) => Change(input, a) = 0
          /\ \A a \in AccountsOf(input) : lock[a] = c
      BY <1>0, ChangeType DEF IInv, ToLock, Held, AccountsOf
    <2>1. /\ TxInv'
          /\ pc' \in [Callers -> {"idle", "check", "lock", "commit", "replay"}]
          /\ leg' \in [Callers -> Nat]
      BY <1>0, <1>3, <2>0, NextLegTx DEF TypeOK
    <2>2. delta' \in [Callers -> [Accounts -> Int]] /\ written' \in [Callers -> SUBSET Posting]
      BY <1>0, <1>3, <2>0 DEF TypeOK
    <2>3. TypeOK'
      BY <1>3, <2>0, <2>1, <2>2 DEF TypeOK
    <2>4. LockInv'
      <3>1. ASSUME NEW d \in Callers, NEW a \in Accounts
            PROVE  /\ delta'[d][a] # 0 => lock[a] = d
                   /\ lock[a] = d /\ a \notin AllowNegative => balance[a] + delta'[d][a] >= 0
        <4>1. CASE d # c
          BY <4>1, <1>3, <2>0 DEF TypeOK, LockInv
        <4>2. CASE d = c
          <5>1. delta'[c][a] = delta[c][a] + Change(input, a)
            BY <1>3, <2>0 DEF TypeOK
          <5>2. CASE a \in AccountsOf(input)
            BY <4>2, <5>1, <5>2, <1>3, <2>0 DEF AssertSufficientFunds, TypeOK
          <5>3. CASE a \notin AccountsOf(input)
            BY <4>2, <5>1, <5>3, <2>0 DEF LockInv, TypeOK
          <5>4. QED
            BY <5>2, <5>3
        <4>3. QED
          BY <4>1, <4>2
      <3>2. QED
        BY <1>3, <3>1 DEF LockInv
    <2>5. NoOverdraft'
      BY <1>3, <2>0 DEF NoOverdraft
    <2>6. KeysInv'
      <3>1. \A u \in posted : Distinct(input, u) /\ Distinct(u, input)
        BY <1>3 DEF Distinct, ReferenceCommitted, ReversalCommitted
      <3>2. \A d \in Callers \ {c} : \A u \in written[d] : Distinct(input, u) /\ Distinct(u, input)
        BY <1>3 DEF KeyTaken, Distinct
      <3>3. \A u \in written[c] : Distinct(input, u) /\ Distinct(u, input)
        BY <1>0, <2>0 DEF TxInv, Distinct
      <3>4. \A d \in Callers : written'[d] = IF d = c THEN written[c] \cup {input} ELSE written[d]
        BY <1>3, <2>0 DEF TypeOK
      <3>5. posted' = posted
        BY <1>3
      <3>6. QED
        BY <3>1, <3>2, <3>3, <3>4, <3>5, <2>0 DEF KeysInv
    <2>7. AckInv'
      <3>1. Visible(c) \subseteq Visible(c)' /\ Found(Input(c), Visible(c)')
        BY <1>3, <2>0 DEF Visible, Found, SameContent, TypeOK
      <3>2. \A d \in Callers \ {c} : written'[d] = written[d]
        BY <1>3, <2>0 DEF TypeOK
      <3>3. QED
        BY <1>0, <1>3, <3>1, <3>2, NextLegAck
    <2>8. QED
      BY <2>1, <2>3, <2>4, <2>5, <2>6, <2>7 DEF IInv
  <1>4. QED
    BY <1>1, <1>2, <1>3 DEF Insert

\* A commit changes only balances its caller has locked and covered.
LEMMA CommitInv ==
  ASSUME IInv, NEW c \in Callers, Commit(c)
  PROVE  IInv'
  <1> USE ConstantsAssumption DEF IInv
  <1>0. /\ pc[c] = "commit"
        /\ balance' = [a \in Accounts |-> balance[a] + delta[c][a]]
        /\ posted' = posted \cup written[c]
        /\ acked' = acked \cup {program[c][i] : i \in 1..Len(program[c])}
        /\ EndTransaction(c) /\ Return(c) /\ opened' = opened
    BY DEF Commit, Acknowledge
  <1>1. TypeOK'
    <2>1. \A i \in 1..Len(program[c]) : program[c][i] \in Posting
      BY DEF TypeOK
    <2>2. QED
      BY <1>0, <2>1 DEF TypeOK, EndTransaction, Return, Released, NoChange
  <1>2. TxInv'
    BY <1>0 DEF TypeOK, TxInv, EndTransaction, Return, Released, NoChange, Input
  <1>3. LockInv' /\ NoOverdraft'
    <2>1. ASSUME NEW a \in Accounts
          PROVE  /\ lock[a] # c => balance'[a] = balance[a]
                 /\ a \notin AllowNegative => balance'[a] >= 0
      BY <1>0 DEF TypeOK, LockInv, NoOverdraft
    <2>2. QED
      BY <1>0, <2>1 DEF TypeOK, LockInv, NoOverdraft, EndTransaction, Released, NoChange
  <1>4. KeysInv'
    <2>1. \A d \in Callers : written'[d] = IF d = c THEN {} ELSE written[d]
      BY <1>0 DEF TypeOK, EndTransaction
    <2>2. \A t \in written[c] : \A u \in posted : Distinct(t, u) /\ Distinct(u, t)
      BY DEF KeysInv, Distinct
    <2>3. \A t, u \in posted' : t # u => Distinct(t, u)
      BY <1>0, <2>2 DEF KeysInv
    <2>4. \A d \in Callers : \A t \in written'[d] : \A u \in posted' : Distinct(t, u)
      BY <1>0, <2>1 DEF KeysInv
    <2>5. QED
      BY <2>1, <2>3, <2>4 DEF KeysInv
  <1>5. AckInv'
    <2>1. AcknowledgedIsPosted'
      BY <1>0 DEF AckInv, AcknowledgedIsPosted, Found, Visible
    <2>2. ASSUME NEW d \in Callers \ {c}
          PROVE  /\ pc'[d] = pc[d] /\ leg'[d] = leg[d] /\ program'[d] = program[d]
                 /\ Visible(d) \subseteq Visible(d)'
      BY <1>0 DEF TypeOK, Visible, EndTransaction, Return
    <2>3. pc'[c] = "idle"
      BY <1>0 DEF TypeOK, Return
    <2>4. QED
      BY <2>1, <2>2, <2>3 DEF AckInv, Found
  <1>6. QED
    BY <1>1, <1>2, <1>3, <1>4, <1>5

\* A replay answers with a posting that has the same content.
LEMMA ReplayInv ==
  ASSUME IInv, NEW c \in Callers, Replay(c)
  PROVE  IInv'
  <1> USE DEF IInv
  <1>0. /\ pc[c] = "replay" /\ Return(c)
        /\ UNCHANGED <<opened, balance, posted, lock, written, delta>>
    BY DEF Replay
  <1>1. Input(c) \in Posting /\ Len(program[c]) = 1 /\ program[c][1] = Input(c)
    BY <1>0, InputType DEF TxInv, AckInv, Input
  <1>2. acked' = acked \/ (acked' = acked \cup {Input(c)} /\ Found(Input(c), posted))
    <2>1. {program[c][i] : i \in 1..Len(program[c])} = {Input(c)}
      BY <1>1
    <2>2. QED
      BY <2>1 DEF Replay, Acknowledge, Found
  <1>3. TypeOK'
    BY <1>0, <1>1, <1>2 DEF TypeOK, Return
  <1>4. TxInv'
    BY <1>0 DEF TypeOK, TxInv, Return, Input
  <1>5. LockInv' /\ NoOverdraft' /\ KeysInv'
    BY <1>0 DEF LockInv, NoOverdraft, KeysInv
  <1>6. AckInv'
    <2>1. AcknowledgedIsPosted'
      BY <1>0, <1>2 DEF AckInv, AcknowledgedIsPosted, Found
    <2>2. QED
      BY <1>0, <2>1 DEF TypeOK, AckInv, Visible, Return
  <1>7. QED
    BY <1>3, <1>4, <1>5, <1>6

-----------------------------------------------------------------------------
(* Theorems. *)

\* Every step preserves the invariant.
LEMMA NextInv == IInv /\ [Next]_vars => IInv'
  <1> SUFFICES ASSUME IInv, [Next]_vars PROVE IInv'
    OBVIOUS
  <1>1. ASSUME NEW a \in Accounts, OpenAccount(a) PROVE IInv'
    BY <1>1, OpenAccountInv
  <1>2. ASSUME NEW c \in Callers, Post(c) PROVE IInv'
    BY <1>2, StartInv, ProgramsAssumption DEF Post
  <1>3. ASSUME NEW c \in Callers, Reverse(c) PROVE IInv'
    <2>1. PICK original \in posted, reference \in ReversalReferences :
            Start(c, <<Mirror(original, reference)>>)
      BY <1>3 DEF Reverse
    <2>2. Mirror(original, reference) \in Posting
      BY MirrorType, ConstantsAssumption DEF IInv, TypeOK
    <2>3. /\ <<Mirror(original, reference)>> \in Seq(Posting)
          /\ <<Mirror(original, reference)>> # << >>
      BY <2>2
    <2>4. QED
      BY <2>1, <2>3, StartInv
  <1>4. ASSUME NEW c \in Callers, Step(c) PROVE IInv'
    BY <1>4, CheckInv, LockAccountInv, InsertInv, CommitInv, ReplayInv DEF Step
  <1>5. ASSUME NEW c \in Callers, Abort(c) PROVE IInv'
    BY <1>5, RollbackInv DEF Abort
  <1>6. CASE UNCHANGED vars
    <2>1. TypeOK' /\ TxInv'
      BY <1>6 DEF vars, IInv, TypeOK, TxInv, Input
    <2>2. LockInv' /\ NoOverdraft' /\ KeysInv'
      BY <1>6 DEF vars, IInv, LockInv, NoOverdraft, KeysInv
    <2>3. AckInv'
      BY <1>6 DEF vars, IInv, AckInv, AcknowledgedIsPosted, Visible
    <2>4. QED
      BY <2>1, <2>2, <2>3 DEF IInv
  <1>7. QED
    BY <1>1, <1>2, <1>3, <1>4, <1>5, <1>6 DEF Next

\* The inductive invariant holds in every behaviour of the ledger.
THEOREM LedgerInvariant == Spec => []IInv
  BY InitInv, NextInv, PTL DEF Spec

\* The ledger is type-correct.
THEOREM LedgerTypeCorrect == Spec => []TypeOK
  <1>1. IInv => TypeOK
    BY DEF IInv
  <1>2. QED
    BY <1>1, LedgerInvariant, PTL

\* No interleaving of postings, reversals, aborts and retries overdraws an
\* account that may not be negative.
THEOREM LedgerNoOverdraft == Spec => []NoOverdraft
  <1>1. IInv => NoOverdraft
    BY DEF IInv
  <1>2. QED
    BY <1>1, LedgerInvariant, PTL

\* A reference is posted at most once.
THEOREM LedgerIdempotent == Spec => []OnePostingPerReference
  <1>1. IInv => OnePostingPerReference
    BY DEF IInv, KeysInv, Distinct, OnePostingPerReference
  <1>2. QED
    BY <1>1, LedgerInvariant, PTL

\* A transaction is reversed at most once.
THEOREM LedgerReversesOnce == Spec => []ReversedAtMostOnce
  <1>1. IInv => ReversedAtMostOnce
    BY DEF IInv, KeysInv, Distinct, ReversedAtMostOnce
  <1>2. QED
    BY <1>1, LedgerInvariant, PTL

\* A caller that is told its posting is there finds one with its content.
THEOREM LedgerAcknowledgements == Spec => []AcknowledgedIsPosted
  <1>1. IInv => AcknowledgedIsPosted
    BY DEF IInv, AckInv
  <1>2. QED
    BY <1>1, LedgerInvariant, PTL

-----------------------------------------------------------------------------
(* The books: what the entries add up to. *)

\* The entries of a posting that was validated are not negative.
Positive(t) == \A a \in Accounts : t.debit[a] \in Nat /\ t.credit[a] \in Nat

\* In every currency the amounts on the two sides are equal.
Sides(f) ==
  \A currency \in {Currency[a] : a \in Accounts} :
    NetOver(f, DebitSide(currency)) = NetOver(f, CreditSide(currency))

\* The cached balances and the uncommitted changes are what the entries give,
\* both are balanced, and what is about to be inserted has been validated.
BooksInv ==
  /\ IsFiniteSet(posted) /\ \A t \in posted : Positive(t)
  /\ \A c \in Callers : IsFiniteSet(written[c]) /\ \A t \in written[c] : Positive(t)
  /\ NoBalanceDiscrepancies
  /\ \A c \in Callers : \A a \in Accounts : delta[c][a] = EntriesOf(a, written[c])
  /\ Sides(balance)
  /\ \A c \in Callers : Sides(delta[c])
  /\ \A c \in Callers : pc[c] = "lock" => ValidPosting(Input(c))

\* No postings, no entries.
LEMMA EntriesNone ==
  ASSUME NEW a \in Accounts
  PROVE  EntriesOf(a, {}) = 0
  <1>1. DebitsOf(a, {}) = 0 /\ CreditsOf(a, {}) = 0
    BY SumEmpty DEF DebitsOf, CreditsOf
  <1>2. QED
    BY <1>1 DEF EntriesOf

\* The entries of two sets of postings that share none add up.
LEMMA EntriesUnion ==
  ASSUME NEW S, IsFiniteSet(S), NEW T, IsFiniteSet(T), S \cap T = {},
         \A t \in S \cup T : Positive(t), NEW a \in Accounts
  PROVE  /\ EntriesOf(a, S \cup T) = EntriesOf(a, S) + EntriesOf(a, T)
         /\ EntriesOf(a, S) \in Int /\ EntriesOf(a, T) \in Int
  <1> DEFINE d == [t \in S \cup T |-> t.debit[a]]
             k == [t \in S \cup T |-> t.credit[a]]
  <1>1. \A t \in S \cup T : d[t] \in Nat /\ k[t] \in Nat
    BY DEF Positive
  <1>2. DebitsOf(a, S \cup T) = SumOver(d, S \cup T) /\ CreditsOf(a, S \cup T) = SumOver(k, S \cup T)
    BY DEF DebitsOf, CreditsOf
  <1>3. DebitsOf(a, S) = SumOver(d, S) /\ CreditsOf(a, S) = SumOver(k, S)
    <2>1. \A t \in S : [u \in S |-> u.debit[a]][t] = d[t] /\ [u \in S |-> u.credit[a]][t] = k[t]
      OBVIOUS
    <2> HIDE DEF d, k
    <2>2. QED
      BY <2>1, SumEqual DEF DebitsOf, CreditsOf
  <1>4. DebitsOf(a, T) = SumOver(d, T) /\ CreditsOf(a, T) = SumOver(k, T)
    <2>1. \A t \in T : [u \in T |-> u.debit[a]][t] = d[t] /\ [u \in T |-> u.credit[a]][t] = k[t]
      OBVIOUS
    <2> HIDE DEF d, k
    <2>2. QED
      BY <2>1, SumEqual DEF DebitsOf, CreditsOf
  <1> HIDE DEF d, k
  <1>5. /\ SumOver(d, S \cup T) = SumOver(d, S) + SumOver(d, T)
        /\ SumOver(k, S \cup T) = SumOver(k, S) + SumOver(k, T)
    BY <1>1, SumUnion
  <1>6. /\ SumOver(d, S) \in Nat /\ SumOver(d, T) \in Nat
        /\ SumOver(k, S) \in Nat /\ SumOver(k, T) \in Nat
    BY <1>1, SumType
  <1>7. QED
    BY <1>2, <1>3, <1>4, <1>5, <1>6 DEF EntriesOf

\* One more posting adds what it changes.
LEMMA EntriesAdd ==
  ASSUME NEW S, IsFiniteSet(S), \A t \in S : Positive(t), NEW p \in Posting, p \notin S, Positive(p),
         NEW a \in Accounts
  PROVE  EntriesOf(a, S \cup {p}) = EntriesOf(a, S) + Change(p, a)
  <1> DEFINE d == [t \in {p} |-> t.debit[a]]
             k == [t \in {p} |-> t.credit[a]]
  <1>1. d[p] = p.debit[a] /\ k[p] = p.credit[a] /\ p.debit[a] \in Nat /\ p.credit[a] \in Nat
    BY DEF Positive
  <1>2. DebitsOf(a, {p}) = SumOver(d, {p}) /\ CreditsOf(a, {p}) = SumOver(k, {p})
    BY DEF DebitsOf, CreditsOf
  <1> HIDE DEF d, k
  <1>3. DebitsOf(a, {p}) = p.debit[a] /\ CreditsOf(a, {p}) = p.credit[a]
    BY <1>1, <1>2, SumOne
  <1>4. EntriesOf(a, {p}) = Change(p, a)
    BY <1>3 DEF EntriesOf, Change
  <1>5. PICK T : T = {p}
    OBVIOUS
  <1>6. IsFiniteSet(T) /\ S \cap T = {} /\ \A t \in S \cup T : Positive(t)
    BY <1>5, FS_Singleton
  <1>7. EntriesOf(a, S \cup T) = EntriesOf(a, S) + EntriesOf(a, T)
    BY <1>6, EntriesUnion
  <1>8. QED
    BY <1>4, <1>5, <1>7

\* Balances that are balanced, and balanced changes to them.
LEMMA SidesPlus ==
  ASSUME NEW f \in [Accounts -> Int], NEW g \in [Accounts -> Int], Sides(f), Sides(g),
         NEW h, \A a \in Accounts : h[a] = f[a] + g[a]
  PROVE  Sides(h)
  <1> SUFFICES ASSUME NEW currency \in {Currency[a] : a \in Accounts}
               PROVE  NetOver(h, DebitSide(currency)) = NetOver(h, CreditSide(currency))
    BY DEF Sides
  <1>1. /\ IsFiniteSet(DebitSide(currency)) /\ IsFiniteSet(CreditSide(currency))
        /\ DebitSide(currency) \subseteq Accounts /\ CreditSide(currency) \subseteq Accounts
    BY ConstantsAssumption, FS_Subset DEF DebitSide, CreditSide
  <1>2. NetOver(h, DebitSide(currency)) = NetOver(f, DebitSide(currency)) + NetOver(g, DebitSide(currency))
    <2>1. \A a \in DebitSide(currency) : f[a] \in Int /\ g[a] \in Int /\ h[a] = f[a] + g[a]
      BY <1>1
    <2>2. QED
      BY <1>1, <2>1, NetPlus
  <1>3. NetOver(h, CreditSide(currency)) = NetOver(f, CreditSide(currency)) + NetOver(g, CreditSide(currency))
    <2>1. \A a \in CreditSide(currency) : f[a] \in Int /\ g[a] \in Int /\ h[a] = f[a] + g[a]
      BY <1>1
    <2>2. QED
      BY <1>1, <2>1, NetPlus
  <1>4. QED
    BY <1>2, <1>3 DEF Sides

\* No change is balanced.
LEMMA SidesNone == Sides(NoChange)
  <1> SUFFICES ASSUME NEW currency \in {Currency[a] : a \in Accounts}
               PROVE  NetOver(NoChange, DebitSide(currency)) = NetOver(NoChange, CreditSide(currency))
    BY DEF Sides
  <1>1. /\ \A a \in DebitSide(currency) : NoChange[a] = 0
        /\ \A a \in CreditSide(currency) : NoChange[a] = 0
    BY ConstantsAssumption DEF DebitSide, CreditSide, NoChange
  <1>2. QED
    BY <1>1, NetZero

\* A posting that is valid and in one currency changes both sides alike.
LEMMA SidesChange ==
  ASSUME NEW p \in Posting, ValidPosting(p), AssertCurrency(p)
  PROVE  Sides([a \in Accounts |-> Change(p, a)])
  <1> DEFINE change == [a \in Accounts |-> Change(p, a)]
  <1> SUFFICES ASSUME NEW currency \in {Currency[a] : a \in Accounts}
               PROVE  NetOver(change, DebitSide(currency)) = NetOver(change, CreditSide(currency))
    BY DEF Sides
  <1> DEFINE ds == DebitSide(currency)
             cs == CreditSide(currency)
             other == {a \in Accounts : Currency[a] # currency}
  <1>1. /\ IsFiniteSet(ds) /\ IsFiniteSet(cs) /\ IsFiniteSet(other) /\ IsFiniteSet(ds \cup cs)
        /\ ds \subseteq DebitNormal /\ DebitNormal \subseteq Accounts /\ cs \subseteq Accounts \ DebitNormal
        /\ ds \cap cs = {} /\ (ds \cup cs) \cap other = {} /\ (ds \cup cs) \cup other = Accounts
    BY ConstantsAssumption, FS_Subset DEF DebitSide, CreditSide
  <1>2. \A a \in Accounts : p.debit[a] \in Nat /\ p.credit[a] \in Nat
    BY DEF ValidPosting, Posting
  <1>3. SumOver(p.debit, Accounts) = SumOver(p.credit, Accounts)
    BY DEF ValidPosting, SumOf
  <1>4. SumOver(p.debit, ds \cup cs) = SumOver(p.credit, ds \cup cs)
    <2>1. \A a \in Accounts : Currency[a] # p.currency => p.debit[a] = 0 /\ p.credit[a] = 0
      BY DEF AssertCurrency, AccountsOf
    <2>2. CASE currency = p.currency
      <3>1. SumOver(p.debit, other) = 0 /\ SumOver(p.credit, other) = 0
        BY <2>1, <2>2, SumZero
      <3> HIDE DEF ds, cs, other
      <3>2. /\ SumOver(p.debit, (ds \cup cs) \cup other) = SumOver(p.debit, ds \cup cs) + SumOver(p.debit, other)
            /\ SumOver(p.credit, (ds \cup cs) \cup other) = SumOver(p.credit, ds \cup cs) + SumOver(p.credit, other)
        BY <1>1, <1>2, SumUnion
      <3>3. SumOver(p.debit, ds \cup cs) \in Nat /\ SumOver(p.credit, ds \cup cs) \in Nat
        BY <1>1, <1>2, SumType
      <3>4. QED
        BY <1>1, <1>3, <3>1, <3>2, <3>3
    <2>3. CASE currency # p.currency
      <3>1. \A a \in ds \cup cs : p.debit[a] = 0 /\ p.credit[a] = 0
        BY <1>1, <2>1, <2>3 DEF DebitSide, CreditSide
      <3>2. QED
        BY <3>1, SumZero
    <2>4. QED
      BY <2>2, <2>3
  <1> HIDE DEF ds, cs, other
  <1>5. /\ SumOver(p.debit, ds \cup cs) = SumOver(p.debit, ds) + SumOver(p.debit, cs)
        /\ SumOver(p.credit, ds \cup cs) = SumOver(p.credit, ds) + SumOver(p.credit, cs)
    BY <1>1, <1>2, SumUnion
  <1>6. /\ SumOver(p.debit, ds) \in Nat /\ SumOver(p.debit, cs) \in Nat
        /\ SumOver(p.credit, ds) \in Nat /\ SumOver(p.credit, cs) \in Nat
    BY <1>1, <1>2, SumType
  <1>7. NetOver(change, ds) = SumOver(p.debit, ds) - SumOver(p.credit, ds)
    <2>1. \A a \in ds : /\ change[a] \in Int /\ p.debit[a] \in Nat /\ p.credit[a] \in Nat
                        /\ change[a] = p.debit[a] - p.credit[a]
      BY <1>1, <1>2 DEF Change
    <2> HIDE DEF change
    <2>2. QED
      BY <1>1, <2>1, NetDifference
  <1>8. NetOver(change, cs) = SumOver(p.credit, cs) - SumOver(p.debit, cs)
    <2>1. \A a \in cs : /\ change[a] \in Int /\ p.debit[a] \in Nat /\ p.credit[a] \in Nat
                        /\ change[a] = p.credit[a] - p.debit[a]
      BY <1>1, <1>2 DEF Change
    <2> HIDE DEF change
    <2>2. QED
      BY <1>1, <2>1, NetDifference
  <1>9. NetOver(change, ds) = NetOver(change, cs)
    BY <1>4, <1>5, <1>6, <1>7, <1>8
  <1>10. QED
    BY <1>9 DEF ds, cs

-----------------------------------------------------------------------------
(* The three ways in which a step touches what is written. *)

\* Nothing is committed, and an open transaction keeps what it wrote or ends.
Kept ==
  /\ UNCHANGED <<posted, balance>>
  /\ \A d \in Callers : \/ written'[d] = written[d] /\ delta'[d] = delta[d]
                        \/ written'[d] = {} /\ delta'[d] = NoChange

\* The posting in hand is inserted.
Inserts(c) ==
  /\ pc[c] = "lock"
  /\ AssertCurrency(Input(c))
  /\ ~ReferenceCommitted(Input(c))
  /\ written' = [written EXCEPT ![c] = @ \cup {Input(c)}]
  /\ delta' = [delta EXCEPT ![c] = [a \in Accounts |-> @[a] + Change(Input(c), a)]]
  /\ NextLeg(c)
  /\ UNCHANGED <<opened, balance, posted, lock, program, acked>>

\* A transaction that ends without a commit leaves the books alone.
LEMMA EndingKeeps ==
  ASSUME TypeOK, NEW c \in Callers, EndTransaction(c), UNCHANGED <<posted, balance>>
  PROVE  Kept
  BY DEF TypeOK, EndTransaction, Kept

\* Every step but an insert and a commit leaves the books alone.
LEMMA StepKinds ==
  ASSUME TypeOK, [Next]_vars
  PROVE  \/ Kept
         \/ \E c \in Callers : Inserts(c)
         \/ \E c \in Callers : Commit(c)
<1>1. ASSUME UNCHANGED <<posted, balance, written, delta>> PROVE Kept
  BY <1>1 DEF Kept
<1>2. ASSUME NEW c \in Callers, Rollback(c) PROVE Kept
  BY <1>2, EndingKeeps DEF Rollback
<1>3. ASSUME NEW a \in Accounts, OpenAccount(a) PROVE Kept
  BY <1>1, <1>3 DEF OpenAccount, txVars
<1>4. ASSUME NEW c \in Callers, Post(c) \/ Reverse(c) PROVE Kept
  BY <1>1, <1>4 DEF Post, Reverse, Start
<1>5. ASSUME NEW c \in Callers, Check(c) PROVE Kept
  <2>1. Rollback(c) \/ UNCHANGED <<posted, balance, written, delta>>
    BY <1>5 DEF Check, txVars
  <2>2. QED
    BY <1>1, <1>2, <2>1
<1>6. ASSUME NEW c \in Callers, LockAccount(c) PROVE Kept
  BY <1>1, <1>6 DEF LockAccount, txVars
<1>7. ASSUME NEW c \in Callers, Insert(c) PROVE Kept \/ Inserts(c)
  <2>1. \/ Rollback(c)
        \/ EndTransaction(c) /\ UNCHANGED <<posted, balance>>
        \/ Inserts(c)
    BY <1>7 DEF Insert, Inserts
  <2>2. QED
    BY <1>2, <2>1, EndingKeeps
<1>8. ASSUME NEW c \in Callers, Replay(c) PROVE Kept
  BY <1>1, <1>8 DEF Replay
<1>9. ASSUME NEW c \in Callers, Abort(c) PROVE Kept
  BY <1>2, <1>9 DEF Abort
<1>10. ASSUME UNCHANGED vars PROVE Kept
  BY <1>1, <1>10 DEF vars
<1>11. QED
  BY <1>3, <1>4, <1>5, <1>6, <1>7, <1>8, <1>9, <1>10 DEF Next, Step

\* What is about to be inserted has been validated.
LEMMA ValidatedKept ==
  ASSUME IInv, IInv', \A c \in Callers : pc[c] = "lock" => ValidPosting(Input(c)), [Next]_vars
  PROVE  \A c \in Callers : pc'[c] = "lock" => ValidPosting(Input(c)')
<1> SUFFICES ASSUME NEW d \in Callers, pc'[d] = "lock" PROVE ValidPosting(Input(d)')
  OBVIOUS
<1>1. ASSUME pc[d] = "lock", program'[d] = program[d], leg'[d] = leg[d] PROVE ValidPosting(Input(d)')
  BY <1>1 DEF Input
<1>2. ASSUME NEW c \in Callers, Return(c) PROVE ValidPosting(Input(d)')
  <2>1. d # c
    BY <1>2 DEF Return, IInv, TypeOK
  <2>2. pc'[d] = pc[d] /\ program'[d] = program[d] /\ leg'[d] = leg[d]
    BY <1>2, <2>1 DEF Return, IInv, TypeOK
  <2>3. QED
    BY <1>1, <2>2
<1>3. ASSUME NEW c \in Callers, NextLeg(c), program' = program PROVE ValidPosting(Input(d)')
  <2>1. pc' = [pc EXCEPT ![c] = "check"] \/ pc' = [pc EXCEPT ![c] = "commit"]
    BY <1>3 DEF NextLeg
  <2>2. d # c /\ pc'[d] = pc[d]
    BY <2>1 DEF IInv, TypeOK
  <2>3. leg'[d] = leg[d]
    BY <1>3, <2>2 DEF NextLeg, IInv, TypeOK
  <2>4. QED
    BY <1>1, <1>3, <2>2, <2>3
<1>4. ASSUME NEW a \in Accounts, OpenAccount(a) PROVE ValidPosting(Input(d)')
  BY <1>1, <1>4 DEF OpenAccount, txVars
<1>5. ASSUME NEW c \in Callers, NEW postings, Start(c, postings) PROVE ValidPosting(Input(d)')
  <2>1. d # c /\ pc'[d] = pc[d] /\ program'[d] = program[d] /\ leg'[d] = leg[d]
    BY <1>5 DEF Start, IInv, TypeOK
  <2>2. QED
    BY <1>1, <2>1
<1>6. ASSUME NEW c \in Callers, Check(c) PROVE ValidPosting(Input(d)')
  <2>1. \/ Rollback(c)
        \/ NextLeg(c) /\ program' = program
        \/ ValidPosting(Input(c)) /\ pc' = [pc EXCEPT ![c] = "lock"] /\ UNCHANGED <<program, leg>>
    BY <1>6 DEF Check, txVars
  <2>2. ASSUME ValidPosting(Input(c)), pc' = [pc EXCEPT ![c] = "lock"], UNCHANGED <<program, leg>>
        PROVE  ValidPosting(Input(d)')
    BY <1>1, <2>2 DEF IInv, TypeOK, Input
  <2>3. QED
    BY <1>2, <1>3, <2>1, <2>2 DEF Rollback
<1>7. ASSUME NEW c \in Callers, LockAccount(c) PROVE ValidPosting(Input(d)')
  BY <1>1, <1>7 DEF LockAccount, txVars
<1>8. ASSUME NEW c \in Callers, Insert(c) PROVE ValidPosting(Input(d)')
  <2>1. \/ Rollback(c)
        \/ NextLeg(c) /\ program' = program
        \/ pc' = [pc EXCEPT ![c] = "replay"] /\ UNCHANGED <<program, leg>>
    BY <1>8 DEF Insert
  <2>2. ASSUME pc' = [pc EXCEPT ![c] = "replay"], UNCHANGED <<program, leg>>
        PROVE  ValidPosting(Input(d)')
    BY <1>1, <2>2 DEF IInv, TypeOK
  <2>3. QED
    BY <1>2, <1>3, <2>1, <2>2 DEF Rollback
<1>9. ASSUME NEW c \in Callers, Commit(c) \/ Replay(c) \/ Abort(c) PROVE ValidPosting(Input(d)')
  BY <1>2, <1>9 DEF Commit, Replay, Abort, Rollback
<1>10. ASSUME UNCHANGED vars PROVE ValidPosting(Input(d)')
  BY <1>1, <1>10 DEF vars
<1>11. QED
  BY <1>4, <1>5, <1>6, <1>7, <1>8, <1>9, <1>10 DEF Next, Step, Post, Reverse

-----------------------------------------------------------------------------
(* The books stay right. *)

\* Nothing is posted at the start.
LEMMA BooksInit == Init => BooksInv
<1> SUFFICES ASSUME Init PROVE BooksInv
  OBVIOUS
<1>1. /\ posted = {} /\ balance = NoChange
      /\ \A c \in Callers : written[c] = {} /\ delta[c] = NoChange /\ pc[c] = "idle"
  BY DEF Init
<1>2. \A a \in Accounts : NoChange[a] = 0 /\ EntriesOf(a, {}) = 0
  BY EntriesNone DEF NoChange
<1>3. IsFiniteSet({})
  BY FS_EmptySet
<1>4. NoBalanceDiscrepancies
  BY <1>1, <1>2 DEF NoBalanceDiscrepancies
<1>5. QED
  BY <1>1, <1>2, <1>3, <1>4, SidesNone DEF BooksInv

LEMMA BooksKept ==
  ASSUME BooksInv, Kept, \A c \in Callers : pc'[c] = "lock" => ValidPosting(Input(c)')
  PROVE  BooksInv'
<1>1. posted' = posted /\ balance' = balance
  BY DEF Kept
<1>2. ASSUME NEW c \in Callers
      PROVE  /\ IsFiniteSet(written'[c]) /\ \A t \in written'[c] : Positive(t)
             /\ \A a \in Accounts : delta'[c][a] = EntriesOf(a, written'[c])
             /\ Sides(delta'[c])
  <2>1. CASE written'[c] = written[c] /\ delta'[c] = delta[c]
    BY <2>1 DEF BooksInv
  <2>2. CASE written'[c] = {} /\ delta'[c] = NoChange
    <3>1. \A a \in Accounts : NoChange[a] = EntriesOf(a, {})
      BY EntriesNone DEF NoChange
    <3>2. QED
      BY <2>2, <3>1, SidesNone, FS_EmptySet
  <2>3. QED
    BY <2>1, <2>2 DEF Kept
<1>3. NoBalanceDiscrepancies' /\ IsFiniteSet(posted') /\ (\A t \in posted' : Positive(t)) /\ Sides(balance')
  BY <1>1 DEF BooksInv, NoBalanceDiscrepancies
<1>4. QED
  BY <1>2, <1>3 DEF BooksInv

LEMMA BooksInsert ==
  ASSUME IInv, BooksInv, NEW c \in Callers, Inserts(c),
         \A d \in Callers : pc'[d] = "lock" => ValidPosting(Input(d)')
  PROVE  BooksInv'
<1> DEFINE p == Input(c)
<1>1. /\ p \in Posting /\ ValidPosting(p) /\ AssertCurrency(p) /\ Positive(p)
  <2>1. p \in Posting
    BY InputType DEF Inserts, IInv
  <2>2. ValidPosting(p) /\ AssertCurrency(p)
    BY DEF Inserts, BooksInv
  <2>3. Positive(p)
    BY <2>1, <2>2 DEF Positive, ValidPosting, Posting
  <2>4. QED
    BY <2>1, <2>2, <2>3
<1>2. p \notin written[c]
  BY DEF IInv, TxInv, Inserts
<1>3. posted' = posted /\ balance' = balance
  BY DEF Inserts
<1>4. /\ written'[c] = written[c] \cup {p}
      /\ \A a \in Accounts : delta'[c][a] = delta[c][a] + Change(p, a)
      /\ \A d \in Callers \ {c} : written'[d] = written[d] /\ delta'[d] = delta[d]
  BY DEF Inserts, IInv, TypeOK
<1> HIDE DEF p
<1>5. ASSUME NEW d \in Callers
      PROVE  /\ IsFiniteSet(written'[d]) /\ \A t \in written'[d] : Positive(t)
             /\ \A a \in Accounts : delta'[d][a] = EntriesOf(a, written'[d])
             /\ Sides(delta'[d])
  <2>1. CASE d # c
    BY <1>4, <2>1 DEF BooksInv
  <2>2. CASE d = c
    <3>1. IsFiniteSet(written[c]) /\ \A t \in written[c] : Positive(t)
      BY DEF BooksInv
    <3>2. IsFiniteSet(written'[c]) /\ \A t \in written'[c] : Positive(t)
      BY <1>1, <1>4, <3>1, FS_AddElement
    <3>3. ASSUME NEW a \in Accounts PROVE delta'[c][a] = EntriesOf(a, written'[c])
      <4>1. EntriesOf(a, written[c] \cup {p}) = EntriesOf(a, written[c]) + Change(p, a)
        BY <1>1, <1>2, <3>1, EntriesAdd
      <4>2. QED
        BY <1>4, <4>1 DEF BooksInv
    <3>4. Sides(delta'[c])
      <4>1. Sides([a \in Accounts |-> Change(p, a)])
        BY <1>1, SidesChange
      <4>2. [a \in Accounts |-> Change(p, a)] \in [Accounts -> Int]
        BY <1>1, ChangeType
      <4>3. delta[c] \in [Accounts -> Int] /\ Sides(delta[c])
        BY DEF BooksInv, IInv, TypeOK
      <4>4. \A a \in Accounts : delta'[c][a] = delta[c][a] + [b \in Accounts |-> Change(p, b)][a]
        BY <1>4
      <4>5. QED
        BY <4>1, <4>2, <4>3, <4>4, SidesPlus
    <3>5. QED
      BY <2>2, <3>2, <3>3, <3>4
  <2>3. QED
    BY <2>1, <2>2
<1>6. NoBalanceDiscrepancies' /\ IsFiniteSet(posted') /\ (\A t \in posted' : Positive(t)) /\ Sides(balance')
  BY <1>3 DEF BooksInv, NoBalanceDiscrepancies
<1>7. QED
  BY <1>5, <1>6 DEF BooksInv

LEMMA BooksCommit ==
  ASSUME IInv, BooksInv, NEW c \in Callers, Commit(c),
         \A d \in Callers : pc'[d] = "lock" => ValidPosting(Input(d)')
  PROVE  BooksInv'
<1>1. /\ \A a \in Accounts : balance'[a] = balance[a] + delta[c][a]
      /\ posted' = posted \cup written[c]
  BY DEF Commit
<1>2. /\ written'[c] = {} /\ delta'[c] = NoChange
      /\ \A d \in Callers \ {c} : written'[d] = written[d] /\ delta'[d] = delta[d]
  BY DEF Commit, EndTransaction, IInv, TypeOK
<1>3. posted \cap written[c] = {}
  BY DEF IInv, KeysInv, Distinct
<1>4. /\ IsFiniteSet(posted) /\ IsFiniteSet(written[c])
      /\ \A t \in posted \cup written[c] : Positive(t)
  BY DEF BooksInv
<1>5. IsFiniteSet(posted') /\ \A t \in posted' : Positive(t)
  <2>1. IsFiniteSet(posted \cup written[c])
    BY <1>4, FS_Union
  <2>2. QED
    BY <1>1, <1>4, <2>1
<1>6. NoBalanceDiscrepancies'
  <2>1. ASSUME NEW a \in Accounts PROVE balance'[a] = EntriesOf(a, posted \cup written[c])
    <3>1. EntriesOf(a, posted \cup written[c]) = EntriesOf(a, posted) + EntriesOf(a, written[c])
      BY <1>3, <1>4, EntriesUnion
    <3>2. QED
      BY <1>1, <3>1 DEF BooksInv, NoBalanceDiscrepancies
  <2>2. QED
    BY <1>1, <2>1 DEF NoBalanceDiscrepancies
<1>7. Sides(balance')
  <2>1. balance \in [Accounts -> Int] /\ delta[c] \in [Accounts -> Int]
    BY DEF IInv, TypeOK
  <2>2. Sides(balance) /\ Sides(delta[c])
    BY DEF BooksInv
  <2>3. QED
    BY <1>1, <2>1, <2>2, SidesPlus
<1>8. ASSUME NEW d \in Callers
      PROVE  /\ IsFiniteSet(written'[d]) /\ \A t \in written'[d] : Positive(t)
             /\ \A a \in Accounts : delta'[d][a] = EntriesOf(a, written'[d])
             /\ Sides(delta'[d])
  <2>1. CASE d # c
    BY <1>2, <2>1 DEF BooksInv
  <2>2. CASE d = c
    <3>1. \A a \in Accounts : NoChange[a] = EntriesOf(a, {})
      BY EntriesNone DEF NoChange
    <3>2. QED
      BY <1>2, <2>2, <3>1, SidesNone, FS_EmptySet
  <2>3. QED
    BY <2>1, <2>2
<1>9. QED
  BY <1>5, <1>6, <1>7, <1>8 DEF BooksInv

LEMMA BooksNext == IInv /\ IInv' /\ BooksInv /\ [Next]_vars => BooksInv'
<1> SUFFICES ASSUME IInv, IInv', BooksInv, [Next]_vars PROVE BooksInv'
  OBVIOUS
<1>1. \A c \in Callers : pc'[c] = "lock" => ValidPosting(Input(c)')
  BY ValidatedKept DEF BooksInv
<1>2. Kept \/ (\E c \in Callers : Inserts(c)) \/ \E c \in Callers : Commit(c)
  BY StepKinds DEF IInv
<1>3. QED
  BY <1>1, <1>2, BooksKept, BooksInsert, BooksCommit

-----------------------------------------------------------------------------
(* Where postings come from, and the order of locks. *)

\* A committed posting is a leg of a program, or was posted as a reversal.
Known(t) ==
  \/ t.reference \in ReversalReferences
  \/ \E P \in Programs : \E i \in 1..Len(P) : t = P[i]

\* The call makes the postings of a program, or a reversal.
Making(c) ==
  \/ program[c] \in Programs
  \/ Len(program[c]) = 1 /\ program[c][1].reference \in ReversalReferences

\* Transactions are whole, and an open one has written legs of its program.
AtomInv ==
  /\ TransactionsAreAtomic
  /\ \A t \in posted : Known(t)
  /\ \A c \in Callers : pc[c] # "idle" => Making(c)
  /\ \A c \in Callers : \A t \in written[c] : \E i \in 1..Len(program[c]) : t = program[c][i]

\* A transaction of one posting has locked nothing before it starts to lock,
\* writes only when it is done, and holds what comes before what it still wants.
OrderInv ==
  \A c \in Callers : Len(program[c]) = 1 =>
    /\ pc[c] = "check" => \A a \in Accounts : lock[a] # c
    /\ pc[c] \in {"check", "lock"} => written[c] = {}
    /\ pc[c] = "lock" =>
         \A a \in Held(c) : \A b \in ToLock(c) : AccountId[a] < AccountId[b]

\* A call that has ended or begun, or that goes on with its program.
Moves(d) ==
  \/ written'[d] = {} /\ (pc'[d] = "idle" \/ Making(d)')
  \/ /\ pc[d] # "idle" /\ program'[d] = program[d]
     /\ written'[d] \subseteq written[d] \cup {Input(d)}

\* A caller whom a step does not concern.
Untouched(d) ==
  /\ pc'[d] = pc[d] /\ program'[d] = program[d] /\ leg'[d] = leg[d] /\ written'[d] = written[d]
  /\ \A a \in Accounts : lock'[a] = d <=> lock[a] = d

LEMMA UntouchedMoves ==
  ASSUME IInv, AtomInv, NEW d \in Callers, Untouched(d)
  PROVE  Moves(d)
<1>1. pc[d] = "idle" => written[d] = {}
  BY DEF IInv, TxInv
<1>2. QED
  BY <1>1 DEF Untouched, Moves

\* What callers write comes from their programs.
LEMMA WritesAreLegs ==
  ASSUME IInv, AtomInv, \A d \in Callers : Moves(d)
  PROVE  /\ \A c \in Callers : pc'[c] # "idle" => Making(c)'
         /\ \A c \in Callers : \A t \in written'[c] : \E i \in 1..Len(program'[c]) : t = program'[c][i]
<1> SUFFICES ASSUME NEW c \in Callers
             PROVE  /\ pc'[c] # "idle" => Making(c)'
                    /\ \A t \in written'[c] : \E i \in 1..Len(program'[c]) : t = program'[c][i]
  OBVIOUS
<1>1. CASE written'[c] = {} /\ (pc'[c] = "idle" \/ Making(c)')
  BY <1>1
<1>2. CASE /\ pc[c] # "idle" /\ program'[c] = program[c]
           /\ written'[c] \subseteq written[c] \cup {Input(c)}
  <2>1. leg[c] \in 1..Len(program[c])
    BY <1>2 DEF IInv, TxInv
  <2>2. \A t \in written'[c] : \E i \in 1..Len(program[c]) : t = program[c][i]
    BY <1>2, <2>1 DEF AtomInv, Input
  <2>3. Making(c)
    BY <1>2 DEF AtomInv
  <2>4. Making(c)'
    BY <1>2, <2>3 DEF Making
  <2>5. QED
    BY <1>2, <2>2, <2>4
<1>3. QED
  BY <1>1, <1>2 DEF Moves

LEMMA AtomKept ==
  ASSUME IInv, AtomInv, \A d \in Callers : Moves(d), posted' = posted
  PROVE  AtomInv'
<1>1. TransactionsAreAtomic' /\ \A t \in posted' : Known(t)
  BY DEF AtomInv, TransactionsAreAtomic
<1>2. QED
  BY <1>1, WritesAreLegs DEF AtomInv

\* A commit posts every leg of the program: the ones it has written, and the
\* ones it found, which nobody else can have posted under the references of a
\* longer program.
LEMMA AtomCommit ==
  ASSUME IInv, AtomInv, NEW c \in Callers, Commit(c), \A d \in Callers : Moves(d)
  PROVE  AtomInv'
<1>1. posted' = posted \cup written[c] /\ pc[c] = "commit"
  BY DEF Commit
<1>2. Making(c)
  BY <1>1 DEF AtomInv
<1>3. ASSUME NEW t \in written[c] PROVE Known(t)
  <2>1. PICK i \in 1..Len(program[c]) : t = program[c][i]
    BY <1>3 DEF AtomInv
  <2>2. CASE program[c] \in Programs
    BY <2>1, <2>2 DEF Known
  <2>3. CASE Len(program[c]) = 1 /\ program[c][1].reference \in ReversalReferences
    <3>1. i = 1
      BY <2>1, <2>3
    <3>2. QED
      BY <2>1, <2>3, <3>1 DEF Known
  <2>4. QED
    BY <1>2, <2>2, <2>3 DEF Making
<1>4. \A t \in posted' : Known(t)
  BY <1>1, <1>3 DEF AtomInv
<1>5. ASSUME NEW P \in Programs, NEW i \in 1..Len(P), NEW j \in 1..Len(P), P[i] \in posted'
      PROVE  P[j] \in posted'
  <2>1. CASE Len(P) = 1
    <3>1. i = j
      BY <2>1
    <3>2. QED
      BY <1>5, <3>1
  <2>2. CASE P[i] \in posted
    BY <1>1, <2>2 DEF AtomInv, TransactionsAreAtomic
  <2>3. CASE Len(P) # 1 /\ P[i] \in written[c]
    <3>1. Len(P) > 1 /\ Len(P) \in Nat
      <4>1. P \in Seq(Posting)
        BY ProgramsAssumption
      <4>2. PICK n \in Nat : n = Len(P)
        BY <4>1
      <4>3. n # 1
        BY <2>3, <4>2
      <4>4. i \in Int /\ 1 <= i /\ i <= n
        BY <4>2
      <4>5. QED
        BY <4>2, <4>3, <4>4
    <3>2. PICK k \in 1..Len(program[c]) : P[i] = program[c][k]
      BY <2>3 DEF AtomInv
    <3>3. P[i].reference \notin ReversalReferences
      BY <3>1, ReferencesAssumption
    <3>4. program[c] \in Programs
      <4>1. ASSUME Len(program[c]) = 1, program[c][1].reference \in ReversalReferences PROVE FALSE
        <5>1. k = 1
          BY <3>2, <4>1
        <5>2. QED
          BY <3>2, <3>3, <4>1, <5>1
      <4>2. QED
        BY <1>2, <4>1 DEF Making
    <3>5. program[c] = P
      <4>1. PICK Q \in Programs : Q = program[c]
        BY <3>4
      <4>2. k \in 1..Len(Q) /\ P[i].reference = Q[k].reference
        BY <3>2, <4>1
      <4>3. QED
        BY <3>1, <4>1, <4>2, ReferencesAssumption
    <3>6. PICK t \in posted \cup written[c] : t.reference = P[j].reference
      BY <1>1, <3>5 DEF IInv, AckInv, Found, Visible
    <3>7. Known(t)
      BY <1>3 DEF AtomInv
    <3>8. t.reference \notin ReversalReferences
      BY <3>1, <3>6, ReferencesAssumption
    <3>9. PICK Q \in Programs : \E m \in 1..Len(Q) : t = Q[m]
      BY <3>7, <3>8 DEF Known
    <3>10. PICK m \in 1..Len(Q) : t = Q[m]
      BY <3>9
    <3>11. P = Q /\ j = m
      <4>1. P[j].reference = Q[m].reference
        BY <3>6, <3>10
      <4>2. QED
        BY <3>1, <4>1, ReferencesAssumption
    <3>12. QED
      BY <1>1, <3>10, <3>11
  <2>4. QED
    BY <1>1, <1>5, <2>1, <2>2, <2>3
<1>6. TransactionsAreAtomic'
  BY <1>5 DEF TransactionsAreAtomic
<1>7. QED
  BY <1>4, <1>6, WritesAreLegs DEF AtomInv

\* A caller whom a step does not concern keeps its locks in order.
LEMMA OrderUntouched ==
  ASSUME OrderInv, NEW d \in Callers, Untouched(d), Len(program[d]) = 1
  PROVE  /\ pc'[d] = "check" => \A a \in Accounts : lock'[a] # d
         /\ pc'[d] \in {"check", "lock"} => written'[d] = {}
         /\ pc'[d] = "lock" =>
              \A a \in Held(d)' : \A b \in ToLock(d)' : AccountId[a] < AccountId[b]
<1>1. Held(d)' = Held(d) /\ ToLock(d)' = ToLock(d)
  BY DEF Untouched, Held, ToLock, Input
<1>2. QED
  BY <1>1 DEF Untouched, OrderInv

\* Ending a call, or starting one, does not concern the others.
LEMMA ReturnTouches ==
  ASSUME TypeOK, NEW c \in Callers, EndTransaction(c), Return(c)
  PROVE  /\ pc'[c] = "idle" /\ written'[c] = {}
         /\ \A d \in Callers \ {c} : Untouched(d)
  BY ConstantsAssumption DEF TypeOK, EndTransaction, Return, Released, Untouched

\* What a step on behalf of c has to show.
LEMMA OthersUntouched ==
  ASSUME IInv, AtomInv, OrderInv, NEW c \in Callers, \A d \in Callers \ {c} : Untouched(d),
         Moves(c),
         Len(program'[c]) = 1 =>
           /\ pc'[c] = "check" => \A a \in Accounts : lock'[a] # c
           /\ pc'[c] \in {"check", "lock"} => written'[c] = {}
           /\ pc'[c] = "lock" =>
                \A a \in Held(c)' : \A b \in ToLock(c)' : AccountId[a] < AccountId[b]
  PROVE  OrderInv' /\ \A d \in Callers : Moves(d)
<1>1. ASSUME NEW d \in Callers, Len(program'[d]) = 1
      PROVE  /\ pc'[d] = "check" => \A a \in Accounts : lock'[a] # d
             /\ pc'[d] \in {"check", "lock"} => written'[d] = {}
             /\ pc'[d] = "lock" =>
                  \A a \in Held(d)' : \A b \in ToLock(d)' : AccountId[a] < AccountId[b]
  <2>1. CASE d = c
    BY <1>1, <2>1
  <2>2. CASE d # c
    <3>1. Untouched(d) /\ Len(program[d]) = 1
      BY <1>1, <2>2 DEF Untouched
    <3>2. QED
      BY <3>1, OrderUntouched
  <2>3. QED
    BY <2>1, <2>2
<1>2. \A d \in Callers : Moves(d)
  BY UntouchedMoves
<1>3. QED
  BY <1>1, <1>2 DEF OrderInv

LEMMA RollbackOrder ==
  ASSUME IInv, AtomInv, OrderInv, NEW c \in Callers, Rollback(c)
  PROVE  OrderInv' /\ posted' = posted /\ \A d \in Callers : Moves(d)
<1>1. pc'[c] = "idle" /\ written'[c] = {} /\ \A d \in Callers \ {c} : Untouched(d)
  BY ReturnTouches DEF Rollback, IInv
<1>2. Moves(c)
  BY <1>1 DEF Moves
<1>3. QED
  BY <1>1, <1>2, OthersUntouched DEF Rollback

\* A transaction of one posting goes on to its commit.
LEMMA NextLegOrder ==
  ASSUME IInv, AtomInv, OrderInv, NEW c \in Callers, NextLeg(c), pc[c] # "idle",
         UNCHANGED <<program, lock>>,
         \A d \in Callers \ {c} : written'[d] = written[d],
         written'[c] \subseteq written[c] \cup {Input(c)}
  PROVE  OrderInv' /\ \A d \in Callers : Moves(d)
<1>1. leg[c] \in 1..Len(program[c]) /\ Len(program[c]) \in Nat
  BY DEF IInv, TxInv, TypeOK
<1>2. \A d \in Callers \ {c} : pc'[d] = pc[d] /\ leg'[d] = leg[d]
  BY <1>1 DEF NextLeg, IInv, TypeOK
<1>3. \A d \in Callers \ {c} : Untouched(d)
  BY <1>2 DEF Untouched
<1>4. Moves(c)
  BY DEF Moves
<1>5. Len(program'[c]) = 1 => pc'[c] = "commit"
  BY <1>1 DEF NextLeg, IInv, TypeOK
<1>6. QED
  BY <1>3, <1>4, <1>5, OthersUntouched

LEMMA CheckOrder ==
  ASSUME IInv, AtomInv, OrderInv, NEW c \in Callers, Check(c)
  PROVE  OrderInv' /\ posted' = posted /\ \A d \in Callers : Moves(d)
<1>1. pc[c] = "check"
  BY DEF Check
<1>2. \/ Rollback(c)
      \/ NextLeg(c) /\ UNCHANGED <<posted, lock, program, written>>
      \/ pc' = [pc EXCEPT ![c] = "lock"] /\ UNCHANGED <<posted, lock, program, leg, written>>
  BY DEF Check, txVars
<1>3. CASE NextLeg(c) /\ UNCHANGED <<posted, lock, program, written>>
  BY <1>1, <1>3, NextLegOrder
<1>4. CASE pc' = [pc EXCEPT ![c] = "lock"] /\ UNCHANGED <<posted, lock, program, leg, written>>
  <2>1. \A d \in Callers \ {c} : Untouched(d)
    BY <1>4 DEF Untouched, IInv, TypeOK
  <2>2. Moves(c) /\ pc'[c] = "lock"
    BY <1>1, <1>4 DEF Moves, IInv, TypeOK
  <2>3. Len(program'[c]) = 1 => written'[c] = {} /\ Held(c)' = {}
    BY <1>1, <1>4 DEF OrderInv, Held
  <2>4. QED
    BY <1>4, <2>1, <2>2, <2>3, OthersUntouched
<1>5. QED
  BY <1>2, <1>3, <1>4, RollbackOrder

\* The lock that is taken comes before everything that is still wanted.
LEMMA LockOrder ==
  ASSUME IInv, AtomInv, OrderInv, NEW c \in Callers, LockAccount(c)
  PROVE  OrderInv' /\ posted' = posted /\ \A d \in Callers : Moves(d)
<1>1. PICK a \in ToLock(c) : /\ \A b \in ToLock(c) : AccountId[a] <= AccountId[b]
                             /\ lock[a] = Nobody /\ lock' = [lock EXCEPT ![a] = c]
  BY DEF LockAccount
<1>2. pc[c] = "lock" /\ UNCHANGED <<posted, pc, program, leg, written>>
  BY DEF LockAccount, txVars
<1>3. a \in Accounts /\ a \notin Held(c)
  BY DEF ToLock, AccountsOf
<1>4. \A d \in Callers \ {c} : Untouched(d)
  BY <1>1, <1>2, <1>3, ConstantsAssumption DEF Untouched, IInv, TypeOK
<1>5. Moves(c)
  BY <1>2 DEF Moves
<1>6. Held(c)' = Held(c) \cup {a} /\ ToLock(c)' = ToLock(c) \ {a}
  <2>1. Held(c)' = Held(c) \cup {a}
    BY <1>1, <1>3 DEF Held, IInv, TypeOK
  <2>2. Input(c)' = Input(c)
    BY <1>2 DEF Input
  <2>3. QED
    BY <2>1, <2>2 DEF ToLock
<1>7. ToLock(c) \subseteq Accounts
  BY DEF ToLock, AccountsOf
<1>8. ASSUME Len(program[c]) = 1, NEW e \in Held(c)', NEW b \in ToLock(c)'
      PROVE  AccountId[e] < AccountId[b]
  <2>1. AccountId[a] \in Int /\ AccountId[b] \in Int /\ AccountId[a] <= AccountId[b] /\ a # b
    BY <1>1, <1>3, <1>6, <1>7, <1>8, ConstantsAssumption
  <2>2. AccountId[a] < AccountId[b]
    BY <1>3, <1>6, <1>7, <1>8, <2>1, ConstantsAssumption
  <2>3. e \in Held(c) => AccountId[e] < AccountId[b]
    BY <1>2, <1>6, <1>8 DEF OrderInv
  <2>4. QED
    BY <1>6, <1>8, <2>2, <2>3
<1>9. Len(program'[c]) = 1 => written'[c] = {} /\ pc'[c] = "lock"
  BY <1>2 DEF OrderInv
<1>10. QED
  BY <1>2, <1>4, <1>5, <1>8, <1>9, OthersUntouched

LEMMA InsertOrder ==
  ASSUME IInv, AtomInv, OrderInv, NEW c \in Callers, Insert(c)
  PROVE  OrderInv' /\ posted' = posted /\ \A d \in Callers : Moves(d)
<1>1. pc[c] = "lock"
  BY DEF Insert
<1>2. \/ Rollback(c)
      \/ EndTransaction(c) /\ pc' = [pc EXCEPT ![c] = "replay"] /\ UNCHANGED <<posted, program, leg>>
      \/ /\ NextLeg(c) /\ UNCHANGED <<posted, lock, program>>
         /\ written' = [written EXCEPT ![c] = @ \cup {Input(c)}]
  BY DEF Insert
<1>3. CASE EndTransaction(c) /\ pc' = [pc EXCEPT ![c] = "replay"] /\ UNCHANGED <<posted, program, leg>>
  <2>1. \A d \in Callers \ {c} : Untouched(d)
    BY <1>3, ConstantsAssumption DEF Untouched, EndTransaction, Released, IInv, TypeOK
  <2>2. pc'[c] = "replay" /\ written'[c] = {}
    BY <1>3 DEF EndTransaction, IInv, TypeOK
  <2>3. Moves(c)
    BY <1>1, <1>3, <2>2 DEF Moves
  <2>4. QED
    BY <1>3, <2>1, <2>2, <2>3, OthersUntouched
<1>4. CASE /\ NextLeg(c) /\ UNCHANGED <<posted, lock, program>>
           /\ written' = [written EXCEPT ![c] = @ \cup {Input(c)}]
  <2>1. /\ \A d \in Callers \ {c} : written'[d] = written[d]
        /\ written'[c] \subseteq written[c] \cup {Input(c)}
    BY <1>4 DEF IInv, TypeOK
  <2>2. QED
    BY <1>1, <1>4, <2>1, NextLegOrder
<1>5. QED
  BY <1>2, <1>3, <1>4, RollbackOrder

LEMMA StartOrder ==
  ASSUME IInv, AtomInv, OrderInv, NEW c \in Callers, NEW postings, Start(c, postings),
         \/ postings \in Programs
         \/ Len(postings) = 1 /\ postings[1].reference \in ReversalReferences
  PROVE  OrderInv' /\ posted' = posted /\ \A d \in Callers : Moves(d)
<1>1. /\ pc[c] = "idle" /\ pc'[c] = "check" /\ program'[c] = postings
      /\ UNCHANGED <<posted, lock, written>>
  BY DEF Start, IInv, TypeOK
<1>2. \A d \in Callers \ {c} : Untouched(d)
  BY DEF Start, Untouched, IInv, TypeOK
<1>3. written[c] = {} /\ \A a \in Accounts : lock[a] # c
  BY <1>1 DEF IInv, TxInv
<1>4. Moves(c)
  BY <1>1, <1>3 DEF Moves, Making
<1>5. QED
  BY <1>1, <1>2, <1>3, <1>4, OthersUntouched

\* A call that ends leaves the others where they are.
LEMMA EndOrder ==
  ASSUME IInv, AtomInv, OrderInv, NEW c \in Callers, Commit(c) \/ Replay(c)
  PROVE  OrderInv' /\ \A d \in Callers : Moves(d)
<1>1. CASE Commit(c)
  <2>1. pc'[c] = "idle" /\ written'[c] = {} /\ \A d \in Callers \ {c} : Untouched(d)
    BY <1>1, ReturnTouches DEF Commit, IInv
  <2>2. Moves(c)
    BY <2>1 DEF Moves
  <2>3. QED
    BY <2>1, <2>2, OthersUntouched
<1>2. CASE Replay(c)
  <2>1. /\ pc[c] = "replay" /\ Return(c) /\ UNCHANGED <<lock, written>>
    BY <1>2 DEF Replay
  <2>2. pc'[c] = "idle" /\ written'[c] = {}
    BY <2>1 DEF Return, IInv, TypeOK, TxInv
  <2>3. \A d \in Callers \ {c} : Untouched(d)
    BY <2>1 DEF Return, Untouched, IInv, TypeOK
  <2>4. Moves(c)
    BY <2>2 DEF Moves
  <2>5. QED
    BY <2>2, <2>3, <2>4, OthersUntouched
<1>3. QED
  BY <1>1, <1>2

-----------------------------------------------------------------------------
(* All of it. *)

FullInv == IInv /\ BooksInv /\ AtomInv /\ OrderInv

LEMMA FullInit == Init => FullInv
<1> SUFFICES ASSUME Init PROVE FullInv
  OBVIOUS
<1>1. posted = {} /\ \A c \in Callers : pc[c] = "idle" /\ program[c] = << >> /\ written[c] = {}
  BY DEF Init
<1>2. TransactionsAreAtomic
  BY <1>1 DEF TransactionsAreAtomic
<1>3. AtomInv
  BY <1>1, <1>2 DEF AtomInv
<1>4. OrderInv
  BY <1>1 DEF OrderInv
<1>5. QED
  BY <1>3, <1>4, InitInv, BooksInit DEF FullInv

\* Every step keeps the locks in order and moves each call as it may.
LEMMA OrderNext ==
  ASSUME IInv, AtomInv, OrderInv, [Next]_vars
  PROVE  /\ OrderInv' /\ \A d \in Callers : Moves(d)
         /\ posted' = posted \/ \E c \in Callers : Commit(c)
<1>1. ASSUME UNCHANGED <<pc, program, leg, written, lock, posted>>
      PROVE  OrderInv' /\ posted' = posted /\ \A d \in Callers : Moves(d)
  <2>1. \A d \in Callers : Untouched(d)
    BY <1>1 DEF Untouched
  <2>2. OrderInv'
    BY <1>1 DEF OrderInv, Held, ToLock, Input
  <2>3. QED
    BY <1>1, <2>1, <2>2, UntouchedMoves
<1>2. ASSUME NEW a \in Accounts, OpenAccount(a)
      PROVE  OrderInv' /\ posted' = posted /\ \A d \in Callers : Moves(d)
  BY <1>1, <1>2 DEF OpenAccount, txVars
<1>3. ASSUME NEW c \in Callers, Post(c)
      PROVE  OrderInv' /\ posted' = posted /\ \A d \in Callers : Moves(d)
  BY <1>3, StartOrder DEF Post
<1>4. ASSUME NEW c \in Callers, Reverse(c)
      PROVE  OrderInv' /\ posted' = posted /\ \A d \in Callers : Moves(d)
  <2>1. PICK original \in posted, reference \in ReversalReferences :
          Start(c, <<Mirror(original, reference)>>)
    BY <1>4 DEF Reverse
  <2>2. PICK postings : postings = <<Mirror(original, reference)>>
    OBVIOUS
  <2>3. Len(postings) = 1 /\ postings[1].reference = reference
    BY <2>2 DEF Mirror
  <2>4. QED
    BY <2>1, <2>2, <2>3, StartOrder
<1>5. ASSUME NEW c \in Callers, Abort(c)
      PROVE  OrderInv' /\ posted' = posted /\ \A d \in Callers : Moves(d)
  BY <1>5, RollbackOrder DEF Abort
<1>6. ASSUME NEW c \in Callers, Replay(c)
      PROVE  OrderInv' /\ posted' = posted /\ \A d \in Callers : Moves(d)
  BY <1>6, EndOrder DEF Replay
<1>7. ASSUME NEW c \in Callers, Commit(c) PROVE OrderInv' /\ \A d \in Callers : Moves(d)
  BY <1>7, EndOrder
<1>8. CASE UNCHANGED vars
  BY <1>1, <1>8 DEF vars
<1>9. QED
  BY <1>2, <1>3, <1>4, <1>5, <1>6, <1>7, <1>8, CheckOrder, LockOrder, InsertOrder DEF Next, Step

LEMMA FullNext == FullInv /\ [Next]_vars => FullInv'
<1> SUFFICES ASSUME FullInv, [Next]_vars PROVE FullInv'
  OBVIOUS
<1>1. IInv'
  BY NextInv DEF FullInv
<1>2. BooksInv'
  BY <1>1, BooksNext DEF FullInv
<1>3. /\ OrderInv' /\ \A d \in Callers : Moves(d)
      /\ posted' = posted \/ \E c \in Callers : Commit(c)
  BY OrderNext DEF FullInv
<1>4. AtomInv'
  BY <1>3, AtomKept, AtomCommit DEF FullInv
<1>5. QED
  BY <1>1, <1>2, <1>3, <1>4 DEF FullInv

\* Calls of one posting never wait for each other in a circle: in every set of
\* them, the one that waits for the highest account waits for nobody.
LEMMA NoCycle ==
  ASSUME FullInv, \A postings \in Programs : Len(postings) = 1
  PROVE  NoWaitCycle
<1> SUFFICES ASSUME ~NoWaitCycle PROVE FALSE
  OBVIOUS
<1>0. PICK S \in SUBSET Callers : S # {} /\ \A c \in S : \E d \in S \ {c} : WaitsFor(c, d)
  BY Zenon DEF NoWaitCycle
<1> DEFINE Wanted(c) == {a \in ToLock(c) : /\ \A b \in ToLock(c) : AccountId[a] <= AccountId[b]
                                           /\ lock[a] \in S \ {c}}
           all == {a \in Accounts : \E c \in S : a \in Wanted(c)}
           Above(a) == {b \in Accounts : AccountId[b] > AccountId[a]}
           ranks == {Cardinality(Above(a)) : a \in all}
<1>1. ASSUME NEW c \in S
      PROVE  pc[c] = "lock" /\ Len(program[c]) = 1 /\ written[c] = {}
  <2>1. pc[c] = "lock"
    BY <1>0 DEF WaitsFor
  <2>2. Making(c)
    BY <2>1 DEF FullInv, AtomInv
  <2>3. Len(program[c]) = 1
    BY <2>2 DEF Making
  <2>4. QED
    BY <2>1, <2>3 DEF FullInv, OrderInv
<1>2. ASSUME NEW c \in S PROVE Wanted(c) # {} /\ Wanted(c) \subseteq ToLock(c) /\ ToLock(c) \subseteq Accounts
  <2>1. PICK d \in S \ {c} : WaitsFor(c, d)
    BY <1>0
  <2>2. written[d] = {}
    BY <1>1
  <2>3. PICK a \in ToLock(c) : (\A b \in ToLock(c) : AccountId[a] <= AccountId[b]) /\ lock[a] = d
    BY <2>1, <2>2 DEF WaitsFor
  <2>4. QED
    BY <2>3 DEF ToLock, AccountsOf
<1>3. all # {} /\ all \subseteq Accounts
  BY <1>0, <1>2
<1>4. ASSUME NEW a \in Accounts
      PROVE  IsFiniteSet(Above(a)) /\ Cardinality(Above(a)) \in Nat
  BY ConstantsAssumption, FS_Subset, FS_CardinalityType
<1> HIDE DEF Above
<1>5. ranks \in SUBSET Nat /\ ranks # {}
  <2> HIDE DEF all
  <2>1. QED
    BY <1>3, <1>4
<1>6. PICK n \in ranks : \A m \in ranks : n <= m
  <2> HIDE DEF ranks
  <2>1. QED
    BY <1>5, LeastNumber
<1>7. PICK a \in all : n = Cardinality(Above(a))
  BY <1>6
<1>8. PICK c \in S : a \in Wanted(c)
  BY <1>7
<1>9. PICK d \in S : lock[a] = d
  BY <1>8
<1>10. PICK e \in Wanted(d) : e \in Accounts
  BY <1>2
<1>11. e \in all /\ a \in Accounts /\ e \in Accounts
  BY <1>7, <1>9, <1>10
<1>12. AccountId[a] < AccountId[e]
  <2>1. a \in Held(d) /\ e \in ToLock(d)
    BY <1>2, <1>9, <1>10, <1>11 DEF Held
  <2>2. QED
    BY <1>1, <2>1 DEF FullInv, OrderInv
<1>13. Above(e) \subseteq Above(a) /\ e \in Above(a) /\ e \notin Above(e)
  BY <1>11, <1>12, ConstantsAssumption DEF Above
<1> HIDE DEF all
<1>14. n <= Cardinality(Above(e))
  BY <1>6, <1>11
<1> HIDE DEF ranks, Wanted
<1>15. Cardinality(Above(e)) <= Cardinality(Above(a)) /\ Cardinality(Above(e)) # Cardinality(Above(a))
  BY <1>4, <1>11, <1>13, FS_Subset
<1>16. Cardinality(Above(e)) \in Nat /\ Cardinality(Above(a)) \in Nat
  BY <1>4, <1>11
<1>17. QED
  BY <1>7, <1>14, <1>15, <1>16

THEOREM LedgerFullInvariant == Spec => []FullInv
  BY FullInit, FullNext, PTL DEF Spec

\* At every moment every cached balance is the sum of its committed entries, the two
\* sides of every currency are equal, and the legs of a conversion are posted together
\* or not at all, whatever callers interleave, abort, retry or reverse.
THEOREM LedgerBooksBalance == Spec => []BooksBalance
  <1>1. FullInv => BooksBalance
    BY DEF FullInv, BooksInv, AtomInv, BooksBalance, TrialBalance, Sides
  <1>2. QED
    BY <1>1, LedgerFullInvariant, PTL

\* lockAccounts' promise, for callers of LedgerService.post: transactions of one posting
\* never wait for each other in a circle.  (Those of two postings do: ledger_conversions.)
THEOREM LedgerNoDeadlock ==
  ASSUME \A postings \in Programs : Len(postings) = 1
  PROVE  Spec => []NoWaitCycle
  <1>1. FullInv => NoWaitCycle
    BY NoCycle
  <1>2. QED
    BY <1>1, LedgerFullInvariant, PTL
=============================================================================
