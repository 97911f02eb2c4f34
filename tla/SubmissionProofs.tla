----------------------------- MODULE SubmissionProofs -----------------------------
(***************************************************************************)
(* Proofs that submitting a refund or a payout implements MoneyOut, for    *)
(* every set of workers and every number of requests that get through.     *)
(***************************************************************************)
EXTENDS MCSubmissions, TLAPS

-----------------------------------------------------------------------------
(* One order at most: what refunds and payouts have in common. *)

Times == {"never", "recent", "settled", "old"}

\* A request that may still reach the provider.
InFlight == late \/ \E w \in Workers : job[w].at = "send"

\* At most one request is on its way, and none if the provider has the order;
\* while what was sent is settled, whoever is about to claim the next attempt
\* has seen that there is none, or is a straggler that the window waits for.
OnceInv ==
  /\ DOMAIN job = Workers
  /\ submittedAt \in Times
  /\ \A v, w \in Workers : job[v].at = "send" /\ job[w].at = "send" => v = w
  /\ late => \A w \in Workers : job[w].at # "send"
  /\ InFlight => records = << >> /\ submittedAt = "recent"
  /\ submittedAt = "never" => records = << >> /\ \A w \in Workers : job[w].at # "claim"
  /\ \A w \in Workers : job[w].at = "loaded" /\ job[w].submitted => submittedAt # "never"
  /\ \A w \in Workers : job[w].at = "loaded" /\ ~job[w].submitted =>
       submittedAt \in {"never", "recent"} \/ (submittedAt = "settled" /\ w \in stragglers)
  /\ \A w \in Workers : job[w].at = "claim" =>
       records = << >> \/ submittedAt = "recent" \/ (submittedAt = "settled" /\ w \in stragglers)
  /\ Len(records) <= 1

\* What a worker that moves to `next` leaves alone.
MovesTo(w, next) ==
  /\ job' = [job EXCEPT ![w] = next]
  /\ stragglers' = stragglers \ {w}

\* A first order is the only one.
LEMMA OneRecord ==
  ASSUME records = << >>, NEW s, records' = Append(records, s)
  PROVE  Len(records') = 1 /\ records'[1] = s /\ records' # << >>
  <1>1. Append(<< >>, s) = <<s>>
    OBVIOUS
  <1>2. Len(<<s>>) = 1 /\ <<s>>[1] = s /\ <<s>> # << >>
    OBVIOUS
  <1>3. QED
    BY <1>1, <1>2

\* Leaving for a place from which nothing is sent.
LEMMA OnceAway ==
  ASSUME OnceInv, NEW w \in Workers, NEW next, MovesTo(w, next), next.at \notin {"send", "claim", "loaded"},
         UNCHANGED <<submittedAt, records, late>>
  PROVE  OnceInv'
  BY DEF OnceInv, MovesTo, InFlight, Times

LEMMA OnceLoad ==
  ASSUME OnceInv, NEW w \in Workers, NEW next, MovesTo(w, next),
         next.at = "loaded", next.submitted = (submittedAt # "never"),
         UNCHANGED <<submittedAt, records, late>>
  PROVE  OnceInv'
  BY DEF OnceInv, MovesTo, InFlight, Times

\* The provider has been asked, and has nothing of ours.
LEMMA OnceNothingThere ==
  ASSUME OnceInv, NEW w \in Workers, NEW next, MovesTo(w, next), next.at = "claim",
         job[w].at = "loaded", job[w].submitted, records = << >>,
         UNCHANGED <<submittedAt, records, late>>
  PROVE  OnceInv'
  BY DEF OnceInv, MovesTo, InFlight, Times

\* Whoever claims is the only one on the way to the provider.
LEMMA OnceClaim ==
  ASSUME OnceInv, NEW w \in Workers, NEW next, MovesTo(w, next), next.at = "send",
         job[w].at = "claim" \/ (job[w].at = "loaded" /\ ~job[w].submitted),
         submittedAt \in {"never", "old"}, submittedAt' = "recent",
         UNCHANGED <<records, late>>
  PROVE  OnceInv'
  <1>1. ~late /\ (\A v \in Workers : job[v].at # "send") /\ records = << >>
    BY DEF OnceInv, InFlight
  <1>2. DOMAIN job' = Workers /\ job'[w] = next /\ \A v \in Workers : v # w => job'[v] = job[v]
    BY DEF OnceInv, MovesTo
  <1>3. \A v \in Workers : job'[v].at = "send" => v = w
    BY <1>1, <1>2
  <1>4. \A v \in Workers : job'[v].at = "loaded" => job'[v] = job[v]
    BY <1>2
  <1>5. Len(records') <= 1 /\ records' = << >> /\ ~late'
    BY <1>1
  <1>6. QED
    BY <1>1, <1>2, <1>3, <1>4, <1>5 DEF OnceInv, InFlight, Times

\* The request gets through, or fails, or is known to have failed.
LEMMA OnceSent ==
  ASSUME OnceInv, NEW w \in Workers, NEW next, MovesTo(w, next), job[w].at = "send",
         next.at \notin {"send", "claim", "loaded"},
         records' = records \/ \E s : records' = Append(records, s),
         UNCHANGED <<submittedAt, late>>
  PROVE  OnceInv'
  <1>1. records = << >> /\ submittedAt = "recent" /\ ~late
    BY DEF OnceInv, InFlight
  <1>2. Len(records') <= 1
    <2>1. CASE records' = records
      <3>1. Len(<< >>) = 0
        OBVIOUS
      <3>2. QED
        BY <1>1, <2>1, <3>1
    <2>2. CASE \E s : records' = Append(records, s)
      <3>1. PICK s : records' = Append(records, s)
        BY <2>2
      <3>2. Len(records') = 1
        BY <1>1, <3>1, OneRecord
      <3>3. QED
        BY <3>2
    <2>3. QED
      BY <2>1, <2>2
  <1>3. DOMAIN job' = Workers /\ job'[w] = next /\ \A v \in Workers : v # w => job'[v] = job[v]
    BY DEF OnceInv, MovesTo
  <1>4. \A v \in Workers : job'[v].at # "send"
    BY <1>3 DEF OnceInv
  <1>5. \A v \in Workers : job'[v].at \in {"claim", "loaded"} => job'[v] = job[v]
    BY <1>3
  <1>6. QED
    BY <1>1, <1>2, <1>3, <1>4, <1>5 DEF OnceInv, InFlight, Times

\* The sender gives up on a request that is still under way.
LEMMA OnceLate ==
  ASSUME OnceInv, NEW w \in Workers, NEW next, MovesTo(w, next), job[w].at = "send",
         next.at \notin {"send", "claim", "loaded"}, late' = TRUE,
         UNCHANGED <<submittedAt, records>>
  PROVE  OnceInv'
  BY DEF OnceInv, MovesTo, InFlight, Times

LEMMA OnceArrives ==
  ASSUME OnceInv, late, late' = FALSE,
         records' = records \/ \E s : records' = Append(records, s),
         UNCHANGED <<submittedAt, job, stragglers>>
  PROVE  OnceInv'
  <1>1. records = << >> /\ submittedAt = "recent" /\ \A w \in Workers : job[w].at # "send"
    BY DEF OnceInv, InFlight
  <1>2. Len(records') <= 1
    <2>1. CASE records' = records
      <3>1. Len(<< >>) = 0
        OBVIOUS
      <3>2. QED
        BY <1>1, <2>1, <3>1
    <2>2. CASE \E s : records' = Append(records, s)
      <3>1. PICK s : records' = Append(records, s)
        BY <2>2
      <3>2. Len(records') = 1
        BY <1>1, <3>1, OneRecord
      <3>3. QED
        BY <3>2
    <2>3. QED
      BY <2>1, <2>2
  <1>3. QED
    BY <1>1, <1>2 DEF OnceInv, InFlight, Times

\* The provider decides or refuses.
LEMMA OnceElsewhere ==
  ASSUME OnceInv, records' = << >> <=> records = << >>, Len(records') = Len(records),
         UNCHANGED <<submittedAt, late, job, stragglers>>
  PROVE  OnceInv'
  BY DEF OnceInv, InFlight, Times

LEMMA OnceSettles ==
  ASSUME OnceInv, submittedAt = "recent", ~late, \A w \in Workers : job[w].at # "send",
         submittedAt' = "settled",
         \A w \in Workers : job[w].at \in {"claim", "loaded"} => w \in stragglers',
         UNCHANGED <<records, late, job>>
  PROVE  OnceInv'
  BY DEF OnceInv, InFlight, Times

LEMMA OnceOld ==
  ASSUME OnceInv, submittedAt = "settled", stragglers = {}, submittedAt' = "old",
         UNCHANGED <<records, late, job, stragglers>>
  PROVE  OnceInv'
  BY DEF OnceInv, InFlight, Times

-----------------------------------------------------------------------------
(* What the provider does to the order. *)

Statuses == {"pending", "successful", "failed", "reversed"}

\* A created order was not there before; while `refusing` none is created.
Creates == ~refusing /\ \E s \in {"pending", "successful"} : records' = Append(records, s)

\* How the order may go on at the provider.
Ordered(before, after) ==
  \/ before = "none" /\ ~refusing /\ after \in {"pending", "successful"}
  \/ before = "pending" /\ after \in {"successful", "failed"}
  \/ before = "successful" /\ after = "reversed"

LEMMA OrderCreated ==
  ASSUME OnceInv, InFlight, Creates
  PROVE  Order = "none" /\ Ordered(Order, Order') /\ Order' # "none" /\ Order' = records'[Len(records')]
  <1>1. records = << >>
    BY DEF OnceInv
  <1>2. PICK s \in {"pending", "successful"} : records' = Append(records, s)
    BY DEF Creates
  <1>3. Len(records') = 1 /\ records' # << >> /\ records'[1] = s
    BY <1>1, <1>2
  <1>4. QED
    BY <1>1, <1>2, <1>3 DEF Order, Ordered, Creates

LEMMA OrderFound ==
  ASSUME OnceInv, records \in Seq(Statuses), NEW i \in 1..Len(records)
  PROVE  i = 1 /\ Len(records) = 1 /\ records # << >> /\ Order = records[i]
  <1>1. Len(records) \in Nat /\ Len(records) <= 1
    BY DEF OnceInv
  <1>2. i = 1 /\ Len(records) = 1
    BY <1>1
  <1>20. records # << >>
    <2>1. Len(<< >>) = 0
      OBVIOUS
    <2>2. QED
      BY <1>2, <2>1
  <1>3. QED
    BY <1>2, <1>20 DEF Order

LEMMA OrderDecided ==
  ASSUME OnceInv, records \in Seq(Statuses), NEW i \in 1..Len(records), NEW s,
         records' = [records EXCEPT ![i] = s]
  PROVE  /\ Order = records[i] /\ Order' = s
         /\ Len(records') = Len(records) /\ (records' = << >> <=> records = << >>)
  <1>1. i = 1 /\ Len(records) = 1 /\ records # << >> /\ Order = records[i]
    BY OrderFound
  <1>2. Len(records') = 1 /\ records'[1] = s /\ records' # << >>
    BY <1>1
  <1>3. QED
    BY <1>1, <1>2 DEF Order

LEMMA OrderNone ==
  ASSUME OnceInv, records \in Seq(Statuses)
  PROVE  records = << >> <=> Order = "none"
  <1>1. CASE records = << >>
    BY <1>1 DEF Order
  <1>2. CASE records # << >>
    <2>1. Len(records) \in Nat /\ Len(records) <= 1 /\ Len(records) # 0
      BY <1>2 DEF OnceInv
    <2>2. Len(records) = 1
      BY <2>1
    <2>20. records[1] \in Statuses
      BY <2>2
    <2>3. QED
      BY <1>2, <2>2, <2>20 DEF Order, Statuses
  <1>3. QED
    BY <1>1, <1>2

-----------------------------------------------------------------------------
(* The books and the order, as MoneyOut has them. *)

Follows(b, o, c, p) ==
  \/ c = b /\ p = o
  \/ b = "held" /\ o = "none" /\ p \in {"pending", "successful"} /\ c = b
  \/ c = b /\ o = "pending" /\ p \in {"successful", "failed"}
  \/ c = b /\ o = "successful" /\ p = "reversed"
  \/ b = "held" /\ o \in {"successful", "reversed"} /\ c = "paid" /\ p = o
  \/ b = "held" /\ o \in {"none", "failed", "reversed"} /\ c = "returned" /\ p = o
  \/ b = "paid" /\ o = "reversed" /\ c = "returned" /\ p = o

-----------------------------------------------------------------------------
(* Refunds: types. *)

LEMMA RefundJobs ==
  ASSUME NEW q \in Job
  PROVE  /\ q.at \in {"idle", "claim", "send", "loaded", "answered", "apply"}
         /\ q.at = "loaded" => q.submitted \in BOOLEAN /\ q.ref \in 0..MaxSends
         /\ q.at = "answered" => q.ref \in 1..MaxSends /\ q.status \in {"pending", "successful", "failed"}
         /\ q.at = "apply" => q.status \in {"successful", "failed", "rejected"}
  BY DEF Job, Idle

LEMMA RefundMoveTypes ==
  ASSUME TypeOK, NEW w \in Workers, NEW next \in Job, Goto(w, next)
  PROVE  job' \in [Workers -> Job] /\ stragglers' \subseteq Workers
  BY DEF TypeOK, Goto

RecordTypes == records \in Seq({"pending", "successful", "failed"}) /\ Len(records) <= MaxSends

LEMMA RefundCreatesTypes ==
  ASSUME RecordTypes, ProviderCreates
  PROVE  /\ RecordTypes' /\ Creates
         /\ Len(records') \in 1..MaxSends /\ records'[Len(records')] \in {"pending", "successful"}
  <1>1. PICK s \in {"pending", "successful"} : records' = Append(records, s)
    BY DEF ProviderCreates
  <1>2. Len(records) < MaxSends /\ Len(records) \in Nat /\ MaxSends \in Nat
    BY WorkersAssumption DEF ProviderCreates, RecordTypes
  <1>3. records' \in Seq({"pending", "successful", "failed"}) /\ Len(records') = Len(records) + 1
        /\ records'[Len(records')] = s
    BY <1>1 DEF RecordTypes
  <1>4. QED
    BY <1>1, <1>2, <1>3 DEF RecordTypes, Creates, ProviderCreates

LEMMA RefundWorkerTypes ==
  ASSUME TypeOK, NEW w \in Workers,
         Load(w) \/ Ask(w) \/ Claim(w) \/ GiveUp(w) \/ Record(w) \/ Apply(w)
  PROVE  TypeOK'
  <1>. USE DEF vars, row, provider
  <1>0. Idle \in Job /\ [at |-> "claim"] \in Job /\ [at |-> "send"] \in Job
    BY DEF Job
  <1>1. CASE Load(w)
    <2>1. [at |-> "loaded", submitted |-> submittedAt # "never", ref |-> providerRef] \in Job
      BY DEF TypeOK, Job
    <2>2. QED
      BY <1>1, <2>1, RefundMoveTypes DEF Load, TypeOK
  <1>2. CASE Ask(w)
    <2>1. ASSUME NEW i \in 1..Len(records)
          PROVE  [at |-> "answered", ref |-> i, status |-> records[i]] \in Job
      <3>1. i \in 1..MaxSends /\ records[i] \in {"pending", "successful", "failed"}
        BY WorkersAssumption DEF TypeOK
      <3>2. QED
        BY <3>1 DEF Job
    <2>2. PICK next \in Job : Goto(w, next)
      BY <1>0, <1>2, <2>1 DEF Ask
    <2>3. QED
      BY <1>2, <2>2, RefundMoveTypes DEF Ask, TypeOK
  <1>3. CASE Claim(w)
    <2>1. PICK next \in Job : Goto(w, next)
      BY <1>0, <1>3 DEF Claim
    <2>2. QED
      BY <1>3, <2>1, RefundMoveTypes DEF Claim, TypeOK
  <1>4. CASE GiveUp(w)
    BY <1>0, <1>4, RefundMoveTypes DEF GiveUp, TypeOK
  <1>5. CASE Record(w)
    <2>1. job[w].ref \in 1..MaxSends /\ job[w].status \in {"pending", "successful", "failed"}
      BY <1>5, RefundJobs DEF Record, TypeOK
    <2>2. job[w].status # "pending" => [at |-> "apply", status |-> job[w].status] \in Job
      BY <2>1 DEF Job
    <2>3. PICK next \in Job : Goto(w, next)
      BY <1>0, <1>5, <2>2 DEF Record
    <2>4. QED
      BY <1>5, <2>1, <2>3, RefundMoveTypes DEF Record, TypeOK
  <1>6. CASE Apply(w)
    BY <1>0, <1>6, RefundMoveTypes DEF Apply, TypeOK
  <1>7. QED
    BY <1>1, <1>2, <1>3, <1>4, <1>5, <1>6

LEMMA RefundSendTypes ==
  ASSUME TypeOK, NEW w \in Workers, SendAnswered(w) \/ SendTimesOut(w)
  PROVE  TypeOK'
  <1>. USE DEF vars, row, provider
  <1>0. Idle \in Job /\ [at |-> "apply", status |-> "rejected"] \in Job /\ RecordTypes
    BY DEF Job, TypeOK, RecordTypes
  <1>1. CASE SendAnswered(w)
    <2>1. CASE ProviderCreates
      <3>1. RecordTypes' /\ Len(records') \in 1..MaxSends /\ records'[Len(records')] \in {"pending", "successful"}
        BY <1>0, <2>1, RefundCreatesTypes
      <3>2. [at |-> "answered", ref |-> Len(records'), status |-> records'[Len(records')]] \in Job
        BY <3>1 DEF Job
      <3>3. PICK next \in Job : Goto(w, next)
        BY <1>0, <1>1, <3>2 DEF SendAnswered
      <3>4. QED
        BY <1>1, <3>1, <3>3, RefundMoveTypes DEF SendAnswered, TypeOK, RecordTypes
    <2>2. CASE records' = records /\ Goto(w, [at |-> "apply", status |-> "rejected"])
      BY <1>0, <1>1, <2>2, RefundMoveTypes DEF SendAnswered, TypeOK
    <2>3. QED
      BY <1>1, <2>1, <2>2 DEF SendAnswered
  <1>2. CASE SendTimesOut(w)
    <2>1. RecordTypes' /\ late' \in BOOLEAN
      BY <1>0, <1>2, RefundCreatesTypes DEF SendTimesOut, RecordTypes, TypeOK
    <2>2. QED
      BY <1>0, <1>2, <2>1, RefundMoveTypes DEF SendTimesOut, TypeOK, RecordTypes
  <1>3. QED
    BY <1>1, <1>2

LEMMA RefundOtherTypes ==
  ASSUME TypeOK, ProviderDecides \/ ProviderRefuses \/ LateRequest \/ SubmissionSettles \/ WindowPasses
  PROVE  TypeOK'
  <1>. USE DEF vars, row, provider
  <1>0. RecordTypes
    BY DEF TypeOK, RecordTypes
  <1>1. CASE ProviderDecides
    <2>1. PICK i \in 1..Len(records), s \in {"successful", "failed"} : records' = [records EXCEPT ![i] = s]
      BY <1>1 DEF ProviderDecides
    <2>2. RecordTypes'
      BY <1>0, <2>1 DEF RecordTypes
    <2>3. QED
      BY <1>1, <2>2 DEF ProviderDecides, TypeOK, RecordTypes
  <1>2. CASE ProviderRefuses
    BY <1>2 DEF ProviderRefuses, TypeOK
  <1>3. CASE LateRequest
    <2>1. RecordTypes'
      BY <1>0, <1>3, RefundCreatesTypes DEF LateRequest, RecordTypes
    <2>2. QED
      BY <1>3, <2>1 DEF LateRequest, TypeOK, RecordTypes
  <1>4. CASE SubmissionSettles
    BY <1>4 DEF SubmissionSettles, TypeOK
  <1>5. CASE WindowPasses
    BY <1>5 DEF WindowPasses, TypeOK
  <1>6. QED
    BY <1>1, <1>2, <1>3, <1>4, <1>5

LEMMA RefundTypes == TypeOK /\ Next => TypeOK'
  BY RefundWorkerTypes, RefundSendTypes, RefundOtherTypes DEF Next

-----------------------------------------------------------------------------
(* Refunds: at most one request is on its way. *)

LEMMA RefundMoves ==
  ASSUME NEW w, NEW next, Goto(w, next)
  PROVE  MovesTo(w, next)
  BY DEF Goto, MovesTo

LEMMA RefundWorkerOnce ==
  ASSUME TypeOK, OnceInv, NEW w \in Workers,
         Load(w) \/ Ask(w) \/ Claim(w) \/ GiveUp(w) \/ Record(w) \/ Apply(w)
  PROVE  OnceInv'
  <1>. USE DEF row, provider
  <1>0. job[w] \in Job /\ Idle.at = "idle"
    BY DEF TypeOK, Idle
  <1>1. CASE Load(w)
    <2>1. PICK next : Goto(w, next) /\ next.at = "loaded" /\ next.submitted = (submittedAt # "never")
      BY <1>1 DEF Load
    <2>2. QED
      BY <1>1, <2>1, RefundMoves, OnceLoad DEF Load
  <1>2. CASE Ask(w)
    <2>1. CASE job[w].ref = 0 /\ records = << >> /\ Goto(w, [at |-> "claim"])
      <3>1. job[w].at = "loaded" /\ job[w].submitted
        BY <1>2, <2>1 DEF Ask, MustAsk
      <3>2. PICK next : next = [at |-> "claim"]
        OBVIOUS
      <3>3. next.at = "claim" /\ MovesTo(w, next)
        BY <2>1, <3>2, RefundMoves
      <3>4. QED
        BY <1>2, <2>1, <3>1, <3>3, OnceNothingThere DEF Ask
    <2>2. CASE \E i \in 1..Len(records) : Goto(w, [at |-> "answered", ref |-> i, status |-> records[i]])
      <3>1. PICK next : Goto(w, next) /\ next.at = "answered"
        BY <2>2
      <3>2. QED
        BY <1>2, <3>1, RefundMoves, OnceAway DEF Ask
    <2>3. QED
      BY <1>2, <2>1, <2>2 DEF Ask
  <1>3. CASE Claim(w)
    <2>1. job[w].at = "claim" \/ (job[w].at = "loaded" /\ ~job[w].submitted)
      BY <1>3 DEF Claim, MustAsk
    <2>2. CASE Claimable /\ submittedAt' = "recent" /\ Goto(w, [at |-> "send"])
      <3>1. PICK next : next = [at |-> "send"]
        OBVIOUS
      <3>2. next.at = "send" /\ MovesTo(w, next)
        BY <2>2, <3>1, RefundMoves
      <3>3. QED
        BY <1>3, <2>1, <2>2, <3>2, OnceClaim DEF Claim, Claimable
    <2>3. CASE Goto(w, Idle) /\ UNCHANGED submittedAt
      BY <1>0, <1>3, <2>3, RefundMoves, OnceAway DEF Claim
    <2>4. QED
      BY <1>3, <2>2, <2>3 DEF Claim
  <1>4. CASE GiveUp(w)
    BY <1>0, <1>4, RefundMoves, OnceAway DEF GiveUp
  <1>5. CASE Record(w)
    <2>1. PICK next : Goto(w, next) /\ next.at \in {"idle", "apply"}
      BY <1>0, <1>5 DEF Record
    <2>2. QED
      BY <1>5, <2>1, RefundMoves, OnceAway DEF Record
  <1>6. CASE Apply(w)
    BY <1>0, <1>6, RefundMoves, OnceAway DEF Apply
  <1>7. QED
    BY <1>1, <1>2, <1>3, <1>4, <1>5, <1>6

LEMMA RefundSendOnce ==
  ASSUME TypeOK, OnceInv, NEW w \in Workers, SendAnswered(w) \/ SendTimesOut(w)
  PROVE  OnceInv'
  <1>. USE DEF row, provider
  <1>0. Idle.at = "idle"
    BY DEF Idle
  <1>1. ProviderCreates => \E s : records' = Append(records, s)
    BY DEF ProviderCreates
  <1>2. CASE SendAnswered(w)
    <2>1. PICK next : Goto(w, next) /\ next.at \in {"answered", "apply"}
      BY <1>2 DEF SendAnswered
    <2>2. records' = records \/ \E s : records' = Append(records, s)
      BY <1>1, <1>2 DEF SendAnswered
    <2>3. QED
      BY <1>2, <2>1, <2>2, RefundMoves, OnceSent DEF SendAnswered
  <1>3. CASE SendTimesOut(w)
    <2>1. CASE late' = TRUE /\ UNCHANGED records
      BY <1>0, <1>3, <2>1, RefundMoves, OnceLate DEF SendTimesOut
    <2>2. CASE (ProviderCreates \/ UNCHANGED records) /\ UNCHANGED late
      BY <1>0, <1>1, <1>3, <2>2, RefundMoves, OnceSent DEF SendTimesOut
    <2>3. QED
      BY <1>3, <2>1, <2>2 DEF SendTimesOut
  <1>4. QED
    BY <1>2, <1>3

LEMMA RefundOtherOnce ==
  ASSUME TypeOK, OnceInv, BatchWorkers = {},
         ProviderDecides \/ ProviderRefuses \/ LateRequest \/ SubmissionSettles \/ WindowPasses
  PROVE  OnceInv'
  <1>. USE DEF row, provider
  <1>0. records \in Seq(Statuses)
    BY DEF TypeOK, Statuses
  <1>1. CASE ProviderDecides
    <2>1. PICK i \in 1..Len(records), s \in {"successful", "failed"} : records' = [records EXCEPT ![i] = s]
      BY <1>1 DEF ProviderDecides
    <2>2. Len(records') = Len(records) /\ (records' = << >> <=> records = << >>)
      BY <1>0, <2>1, OrderDecided
    <2>3. QED
      BY <1>1, <2>2, OnceElsewhere DEF ProviderDecides
  <1>2. CASE ProviderRefuses
    BY <1>2, OnceElsewhere DEF ProviderRefuses
  <1>3. CASE LateRequest
    <2>1. records' = records \/ \E s : records' = Append(records, s)
      BY <1>3 DEF LateRequest, ProviderCreates
    <2>2. QED
      BY <1>3, <2>1, OnceArrives DEF LateRequest
  <1>4. CASE SubmissionSettles
    <2>1. \A w \in Workers : job[w].at \in {"claim", "loaded"} => w \in stragglers'
      BY <1>4 DEF SubmissionSettles
    <2>2. QED
      BY <1>4, <2>1, OnceSettles DEF SubmissionSettles
  <1>5. CASE WindowPasses
    BY <1>5, OnceOld DEF WindowPasses
  <1>6. QED
    BY <1>1, <1>2, <1>3, <1>4, <1>5

-----------------------------------------------------------------------------
(* Refunds: what a worker knows, and what is booked, is true of the order. *)

RefundKnows(q, o, r) ==
  /\ q.at = "answered" => o # "none" /\ (q.status # "pending" => o = q.status)
  /\ q.at = "apply" => IF q.status = "rejected" THEN o = "none" /\ r ELSE o = q.status

RefundBooked(s, o, r) ==
  /\ s = "successful" => o = "successful"
  /\ s = "failed" => o = "failed" \/ (o = "none" /\ r)

RefundInv ==
  /\ \A w \in Workers : RefundKnows(job[w], Order, refusing)
  /\ RefundBooked(status, Order, refusing)

RefundSafe == TypeOK /\ OnceInv /\ RefundInv

LEMMA RefundKeeps ==
  ASSUME TypeOK, RefundInv, refusing => refusing',
         Order' = Order \/ (Ordered(Order, Order') /\ Order # "successful"),
         \A w \in Workers : job'[w] = job[w] \/ RefundKnows(job'[w], Order', refusing'),
         status' = status
  PROVE  RefundInv' /\ Follows(Book, Order, Book', Order')
  <1>1. \A w \in Workers : RefundKnows(job[w], Order', refusing')
    <2>1. TAKE w \in Workers
    <2>2. job[w].at = "apply" => job[w].status \in {"successful", "failed", "rejected"}
      BY RefundJobs DEF TypeOK
    <2>3. RefundKnows(job[w], Order, refusing)
      BY DEF RefundInv
    <2>4. QED
      BY <2>2, <2>3 DEF RefundKnows, Ordered
  <1>2. RefundBooked(status', Order', refusing')
    BY DEF RefundInv, RefundBooked, Ordered
  <1>3. RefundInv'
    BY <1>1, <1>2 DEF RefundInv
  <1>4. Book' = Book
    BY DEF Book
  <1>5. Order = "none" /\ ~refusing => Book = "held"
    BY DEF RefundInv, RefundBooked, TypeOK, Book
  <1>6. QED
    BY <1>3, <1>4, <1>5 DEF Follows, Ordered

\* A worker moves, or takes a request that gets through with it.
LEMMA RefundKeepsMoving ==
  ASSUME TypeOK, RefundInv, refusing' = refusing,
         Order' = Order \/ (Ordered(Order, Order') /\ Order # "successful"),
         NEW w \in Workers, NEW next, Goto(w, next), RefundKnows(next, Order', refusing),
         status' = status
  PROVE  RefundInv' /\ Follows(Book, Order, Book', Order')
  <1>1. \A v \in Workers : job'[v] = job[v] \/ RefundKnows(job'[v], Order', refusing')
    BY DEF Goto, TypeOK
  <1>2. QED
    BY <1>1, RefundKeeps

LEMMA RefundWorkerKnows ==
  ASSUME RefundSafe, NEW w \in Workers,
         Load(w) \/ Ask(w) \/ Claim(w) \/ GiveUp(w) \/ Record(w)
  PROVE  RefundInv' /\ Follows(Book, Order, Book', Order')
  <1>. USE DEF row, provider, RefundSafe
  <1>1. records' = records /\ refusing' = refusing /\ status' = status
    BY DEF Load, Ask, Claim, GiveUp, Record
  <1>2. Order' = Order
    BY <1>1 DEF Order
  <1>3. \A q : q.at \in {"idle", "claim", "send", "loaded"} => RefundKnows(q, Order, refusing)
    BY DEF RefundKnows
  <1>4. PICK next : Goto(w, next) /\ RefundKnows(next, Order, refusing)
    <2>1. CASE Load(w) \/ Claim(w) \/ GiveUp(w)
      <3>1. PICK next : Goto(w, next) /\ next.at \in {"idle", "send", "loaded"}
        BY <2>1 DEF Load, Claim, GiveUp, Idle
      <3>2. QED
        BY <1>3, <3>1
    <2>2. CASE Ask(w)
      <3>1. CASE Goto(w, [at |-> "claim"])
        <4>1. PICK next : next = [at |-> "claim"]
          OBVIOUS
        <4>2. QED
          BY <1>3, <3>1, <4>1
      <3>2. ASSUME NEW i \in 1..Len(records),
                   Goto(w, [at |-> "answered", ref |-> i, status |-> records[i]])
            PROVE  \E next : Goto(w, next) /\ RefundKnows(next, Order, refusing)
        <4>1. Order = records[i] /\ records \in Seq(Statuses) /\ records # << >>
          <5>1. records \in Seq(Statuses)
            BY DEF TypeOK, Statuses
          <5>2. QED
            BY <5>1, OrderFound
        <4>2. Order # "none"
          BY <4>1, OrderNone
        <4>3. PICK next : next = [at |-> "answered", ref |-> i, status |-> records[i]]
          OBVIOUS
        <4>4. RefundKnows(next, Order, refusing)
          BY <4>1, <4>2, <4>3 DEF RefundKnows
        <4>5. QED
          BY <3>2, <4>3, <4>4
      <3>3. QED
        BY <2>2, <3>1, <3>2 DEF Ask
    <2>3. CASE Record(w)
      <3>1. RefundKnows(job[w], Order, refusing) /\ job[w].at = "answered"
        BY <2>3 DEF RefundInv, Record
      <3>2. job[w].status \in {"pending", "successful", "failed"}
        BY <3>1, RefundJobs DEF TypeOK
      <3>3. CASE job[w].status = "pending"
        <4>1. Goto(w, Idle) /\ Idle.at = "idle"
          BY <2>3, <3>3 DEF Record, Idle
        <4>2. QED
          BY <1>3, <4>1
      <3>4. CASE job[w].status # "pending"
        <4>1. PICK next : next = [at |-> "apply", status |-> job[w].status]
          OBVIOUS
        <4>2. Goto(w, next)
          BY <2>3, <3>4, <4>1 DEF Record
        <4>3. RefundKnows(next, Order, refusing)
          BY <3>1, <3>2, <3>4, <4>1 DEF RefundKnows
        <4>4. QED
          BY <4>2, <4>3
      <3>5. QED
        BY <3>3, <3>4
    <2>4. QED
      BY <2>1, <2>2, <2>3
  <1>5. QED
    BY <1>1, <1>2, <1>4, RefundKeepsMoving

LEMMA RefundApplyKnows ==
  ASSUME RefundSafe, NEW w \in Workers, Apply(w)
  PROVE  RefundInv' /\ Follows(Book, Order, Book', Order')
  <1>. USE DEF row, provider, RefundSafe
  <1>1. job[w].at = "apply" /\ records' = records /\ refusing' = refusing /\ Goto(w, Idle)
    BY DEF Apply
  <1>2. Order' = Order
    BY <1>1 DEF Order
  <1>3. RefundKnows(job[w], Order, refusing) /\ RefundBooked(status, Order, refusing)
    BY DEF RefundInv
  <1>4. job[w].status \in {"successful", "failed", "rejected"}
    BY <1>1, RefundJobs DEF TypeOK
  <1>5. \/ status' = status
        \/ status = "processing" /\ status' = "successful" /\ Order = "successful"
        \/ status = "processing" /\ status' = "failed" /\ (Order = "failed" \/ (Order = "none" /\ refusing))
    BY <1>1, <1>3, <1>4 DEF Apply, RefundKnows
  <1>6. RefundBooked(status', Order, refusing)
    BY <1>3, <1>5 DEF RefundBooked
  <1>7. RefundKnows(Idle, Order, refusing)
    BY DEF RefundKnows, Idle
  <1>8. \A v \in Workers : RefundKnows(job'[v], Order, refusing)
    BY <1>1, <1>7 DEF Goto, TypeOK, RefundInv
  <1>9. RefundInv'
    BY <1>1, <1>2, <1>6, <1>8 DEF RefundInv
  <1>10. Follows(Book, Order, Book', Order')
    BY <1>2, <1>5 DEF Book, Follows
  <1>11. QED
    BY <1>9, <1>10

LEMMA RefundSendKnows ==
  ASSUME RefundSafe, NEW w \in Workers, SendAnswered(w) \/ SendTimesOut(w)
  PROVE  RefundInv' /\ Follows(Book, Order, Book', Order')
  <1>. USE DEF row, provider, RefundSafe
  <1>1. refusing' = refusing /\ status' = status /\ InFlight /\ records = << >> /\ RecordTypes
    BY DEF SendAnswered, SendTimesOut, InFlight, OnceInv, TypeOK, RecordTypes
  <1>2. ProviderCreates => /\ Ordered(Order, Order') /\ Order = "none" /\ Order' # "none"
                           /\ Order' = records'[Len(records')]
    <2>1. ProviderCreates => Creates
      BY <1>1, RefundCreatesTypes
    <2>2. QED
      BY <1>1, <2>1, OrderCreated
  <1>3. records' = records => Order' = Order
    BY DEF Order
  <1>4. Order = "none"
    BY <1>1 DEF Order
  <1>5. RefundKnows(Idle, Order', refusing)
    BY DEF RefundKnows, Idle
  <1>6. CASE SendAnswered(w)
    <2>1. CASE /\ ProviderCreates
               /\ Goto(w, [at |-> "answered", ref |-> Len(records'), status |-> records'[Len(records')]])
      <3>1. PICK next : next = [at |-> "answered", ref |-> Len(records'), status |-> records'[Len(records')]]
        OBVIOUS
      <3>2. RefundKnows(next, Order', refusing)
        BY <1>2, <2>1, <3>1 DEF RefundKnows
      <3>3. QED
        BY <1>1, <1>2, <2>1, <3>1, <3>2, RefundKeepsMoving
    <2>2. CASE refusing /\ Goto(w, [at |-> "apply", status |-> "rejected"]) /\ UNCHANGED records
      <3>1. PICK next : next = [at |-> "apply", status |-> "rejected"]
        OBVIOUS
      <3>2. RefundKnows(next, Order', refusing)
        BY <1>3, <1>4, <2>2, <3>1 DEF RefundKnows
      <3>3. QED
        BY <1>1, <1>3, <2>2, <3>1, <3>2, RefundKeepsMoving
    <2>3. QED
      BY <1>6, <2>1, <2>2 DEF SendAnswered
  <1>7. CASE SendTimesOut(w)
    <2>1. Goto(w, Idle) /\ (ProviderCreates \/ records' = records)
      BY <1>7 DEF SendTimesOut
    <2>2. QED
      BY <1>1, <1>2, <1>3, <1>5, <2>1, RefundKeepsMoving
  <1>8. QED
    BY <1>6, <1>7

LEMMA RefundOtherKnows ==
  ASSUME RefundSafe,
         ProviderDecides \/ ProviderRefuses \/ LateRequest \/ SubmissionSettles \/ WindowPasses
  PROVE  RefundInv' /\ Follows(Book, Order, Book', Order')
  <1>. USE DEF row, provider, RefundSafe
  <1>1. job' = job /\ status' = status /\ (refusing => refusing')
    BY DEF ProviderDecides, ProviderRefuses, LateRequest, SubmissionSettles, WindowPasses, TypeOK
  <1>2. Order' = Order \/ (Ordered(Order, Order') /\ Order # "successful")
    <2>1. CASE ProviderDecides
      <3>1. PICK i \in 1..Len(records), s \in {"successful", "failed"} :
              records[i] = "pending" /\ records' = [records EXCEPT ![i] = s]
        BY <2>1 DEF ProviderDecides
      <3>2. records \in Seq(Statuses)
        BY DEF TypeOK, Statuses
      <3>3. Order = "pending" /\ Order' = s
        BY <3>1, <3>2, OrderDecided
      <3>4. QED
        BY <3>3 DEF Ordered
    <2>2. CASE LateRequest
      <3>1. InFlight /\ RecordTypes /\ (ProviderCreates \/ records' = records)
        BY <2>2 DEF LateRequest, InFlight, TypeOK, RecordTypes
      <3>2. ProviderCreates => Creates
        BY <3>1, RefundCreatesTypes
      <3>3. QED
        BY <3>1, <3>2, OrderCreated DEF Order
    <2>3. CASE records' = records
      BY <2>3 DEF Order
    <2>4. QED
      BY <2>1, <2>2, <2>3 DEF ProviderRefuses, SubmissionSettles, WindowPasses
  <1>3. QED
    BY <1>1, <1>2, RefundKeeps

LEMMA RefundStep ==
  ASSUME RefundSafe, BatchWorkers = {}, Next
  PROVE  RefundSafe' /\ Follows(Book, Order, Book', Order')
  <1>1. TypeOK'
    BY RefundTypes DEF RefundSafe
  <1>2. OnceInv'
    BY RefundWorkerOnce, RefundSendOnce, RefundOtherOnce DEF RefundSafe, Next
  <1>3. RefundInv' /\ Follows(Book, Order, Book', Order')
    BY RefundWorkerKnows, RefundApplyKnows, RefundSendKnows, RefundOtherKnows DEF Next
  <1>4. QED
    BY <1>1, <1>2, <1>3 DEF RefundSafe

-----------------------------------------------------------------------------
(* Payouts: types. *)

PayoutRecordTypes == records \in Seq(Statuses) /\ Len(records) <= MaxSends

LEMMA PayoutJobs ==
  ASSUME NEW q \in Payout!Job
  PROVE  /\ q.at \in {"idle", "claim", "credit", "loaded", "send", "apply"}
         /\ q.at = "loaded" => q.submitted \in BOOLEAN
         /\ q.at = "send" => q.first \in BOOLEAN
         /\ q.at = "apply" => q.result \in Statuses
  BY DEF Payout!Job, Payout!Idle, Payout!Result, Statuses

LEMMA PayoutMoveTypes ==
  ASSUME Payout!TypeOK, NEW w \in Workers, NEW next \in Payout!Job, Payout!Goto(w, next)
  PROVE  job' \in [Workers -> Payout!Job] /\ stragglers' \subseteq Workers
  BY DEF Payout!TypeOK, Payout!Goto

LEMMA PayoutCreatesTypes ==
  ASSUME PayoutRecordTypes, Payout!ProviderCreates
  PROVE  /\ PayoutRecordTypes' /\ Creates
         /\ records'[Len(records')] \in Statuses
  <1>1. PICK s \in {"pending", "successful"} : records' = Append(records, s)
    BY DEF Payout!ProviderCreates
  <1>2. Len(records) < MaxSends /\ Len(records) \in Nat /\ MaxSends \in Nat
    BY WorkersAssumption DEF Payout!ProviderCreates, PayoutRecordTypes
  <1>3. records' \in Seq(Statuses) /\ Len(records') = Len(records) + 1 /\ records'[Len(records')] = s
    BY <1>1 DEF PayoutRecordTypes, Statuses
  <1>4. QED
    BY <1>1, <1>2, <1>3 DEF PayoutRecordTypes, Creates, Payout!ProviderCreates, Statuses

\* What moves between the accounts are integers.
LEMMA PayoutAccountTypes ==
  ASSUME Payout!TypeOK, Payout!Complete \/ Payout!Release \/ Payout!CreditBack
  PROVE  /\ status' \in {"successful", "failed", "reversed"}
         /\ available' \in Int /\ reserved' \in Int /\ clearing' \in Int /\ feeRevenue' \in Int
  BY PayoutAssumption DEF Payout!TypeOK, Payout!Complete, Payout!Release, Payout!CreditBack

LEMMA PayoutWorkerTypes ==
  ASSUME Payout!TypeOK, NEW w \in Workers,
         \/ Payout!Load(w) \/ Payout!Find(w) \/ Payout!Claim(w)
         \/ Payout!GiveUp(w) \/ Payout!Apply(w) \/ Payout!Credit(w)
  PROVE  Payout!TypeOK'
  <1>. USE DEF Payout!vars, Payout!accounts, Payout!provider
  <1>0. /\ Payout!Idle \in Payout!Job /\ [at |-> "claim"] \in Payout!Job /\ [at |-> "credit"] \in Payout!Job
        /\ \A b \in BOOLEAN : [at |-> "send", first |-> b] \in Payout!Job
    BY DEF Payout!Job
  <1>1. CASE Payout!Load(w)
    <2>1. [at |-> "loaded", submitted |-> submittedAt # "never", status |-> status] \in Payout!Job
      BY <1>1 DEF Payout!Load, Payout!Job
    <2>2. QED
      BY <1>1, <2>1, PayoutMoveTypes DEF Payout!Load, Payout!TypeOK
  <1>2. CASE Payout!Find(w)
    <2>1. ASSUME NEW i \in 1..Len(records)
          PROVE  [at |-> "apply", result |-> records[i]] \in Payout!Job
      BY DEF Payout!TypeOK, Payout!Job
    <2>2. PICK next \in Payout!Job : Payout!Goto(w, next)
      BY <1>0, <1>2, <2>1 DEF Payout!Find
    <2>3. QED
      BY <1>2, <2>2, PayoutMoveTypes DEF Payout!Find, Payout!TypeOK
  <1>3. CASE Payout!Claim(w)
    <2>1. PICK b \in BOOLEAN : b = (job[w].at = "loaded")
      OBVIOUS
    <2>2. PICK next \in Payout!Job : Payout!Goto(w, next)
      BY <1>0, <1>3, <2>1 DEF Payout!Claim
    <2>3. QED
      BY <1>3, <2>2, PayoutMoveTypes DEF Payout!Claim, Payout!TypeOK
  <1>4. CASE Payout!GiveUp(w)
    BY <1>0, <1>4, PayoutMoveTypes DEF Payout!GiveUp, Payout!TypeOK
  <1>5. CASE Payout!Apply(w)
    <2>1. PICK next \in Payout!Job : Payout!Goto(w, next)
      BY <1>0, <1>5 DEF Payout!Apply
    <2>2. /\ status' \in {"processing", "successful", "failed", "reversed"}
          /\ available' \in Int /\ reserved' \in Int /\ clearing' \in Int /\ feeRevenue' \in Int
      BY <1>5, PayoutAccountTypes DEF Payout!Apply, Payout!TypeOK
    <2>3. QED
      BY <1>5, <2>1, <2>2, PayoutMoveTypes DEF Payout!Apply, Payout!TypeOK
  <1>6. CASE Payout!Credit(w)
    <2>1. /\ status' \in {"processing", "successful", "failed", "reversed"}
          /\ available' \in Int /\ reserved' \in Int /\ clearing' \in Int /\ feeRevenue' \in Int
      BY <1>6, PayoutAccountTypes DEF Payout!Credit, Payout!TypeOK
    <2>2. QED
      BY <1>0, <1>6, <2>1, PayoutMoveTypes DEF Payout!Credit, Payout!TypeOK
  <1>7. QED
    BY <1>1, <1>2, <1>3, <1>4, <1>5, <1>6

LEMMA PayoutSendTypes ==
  ASSUME Payout!TypeOK, NEW w \in Workers, Payout!SendAnswered(w) \/ Payout!SendTimesOut(w)
  PROVE  Payout!TypeOK'
  <1>. USE DEF Payout!vars, Payout!accounts, Payout!provider
  <1>0. /\ Payout!Idle \in Payout!Job /\ PayoutRecordTypes
        /\ \A s \in Statuses : [at |-> "apply", result |-> s] \in Payout!Job
    BY DEF Payout!Job, Payout!TypeOK, PayoutRecordTypes, Payout!Result, Statuses
  <1>1. Payout!ProviderCreates => PayoutRecordTypes' /\ records'[Len(records')] \in Statuses
    BY <1>0, PayoutCreatesTypes
  <1>2. "failed" \in Statuses
    BY DEF Statuses
  <1>3. CASE Payout!SendAnswered(w)
    <2>1. PICK next \in Payout!Job : Payout!Goto(w, next)
      BY <1>0, <1>1, <1>2, <1>3 DEF Payout!SendAnswered
    <2>2. PayoutRecordTypes'
      BY <1>0, <1>1, <1>3 DEF Payout!SendAnswered, PayoutRecordTypes
    <2>3. QED
      BY <1>3, <2>1, <2>2, PayoutMoveTypes
         DEF Payout!SendAnswered, Payout!TypeOK, PayoutRecordTypes, Payout!Result, Statuses
  <1>4. CASE Payout!SendTimesOut(w)
    <2>1. PayoutRecordTypes' /\ late' \in BOOLEAN
      BY <1>0, <1>1, <1>4 DEF Payout!SendTimesOut, PayoutRecordTypes, Payout!TypeOK
    <2>2. QED
      BY <1>0, <1>4, <2>1, PayoutMoveTypes
         DEF Payout!SendTimesOut, Payout!TypeOK, PayoutRecordTypes, Payout!Result, Statuses
  <1>5. QED
    BY <1>3, <1>4

LEMMA PayoutOtherTypes ==
  ASSUME Payout!TypeOK,
         \/ Payout!ProviderDecides \/ Payout!ProviderRefuses \/ Payout!LateRequest
         \/ Payout!SubmissionSettles \/ Payout!WindowPasses
  PROVE  Payout!TypeOK'
  <1>. USE DEF Payout!vars, Payout!accounts, Payout!provider
  <1>0. PayoutRecordTypes
    BY DEF Payout!TypeOK, PayoutRecordTypes, Payout!Result, Statuses
  <1>1. CASE Payout!ProviderDecides
    <2>1. PICK i \in 1..Len(records), s \in Statuses : records' = [records EXCEPT ![i] = s]
      BY <1>1 DEF Payout!ProviderDecides, Statuses
    <2>2. PayoutRecordTypes'
      BY <1>0, <2>1 DEF PayoutRecordTypes
    <2>3. QED
      BY <1>1, <2>2 DEF Payout!ProviderDecides, Payout!TypeOK, PayoutRecordTypes, Payout!Result, Statuses
  <1>2. CASE Payout!ProviderRefuses
    BY <1>2 DEF Payout!ProviderRefuses, Payout!TypeOK
  <1>3. CASE Payout!LateRequest
    <2>1. PayoutRecordTypes'
      BY <1>0, <1>3, PayoutCreatesTypes DEF Payout!LateRequest, PayoutRecordTypes
    <2>2. QED
      BY <1>3, <2>1 DEF Payout!LateRequest, Payout!TypeOK, PayoutRecordTypes, Payout!Result, Statuses
  <1>4. CASE Payout!SubmissionSettles
    BY <1>4 DEF Payout!SubmissionSettles, Payout!TypeOK
  <1>5. CASE Payout!WindowPasses
    BY <1>5 DEF Payout!WindowPasses, Payout!TypeOK
  <1>6. QED
    BY <1>1, <1>2, <1>3, <1>4, <1>5

LEMMA PayoutTypes == Payout!TypeOK /\ Payout!Next => Payout!TypeOK'
  BY PayoutWorkerTypes, PayoutSendTypes, PayoutOtherTypes DEF Payout!Next

-----------------------------------------------------------------------------
(* Payouts: at most one request is on its way. *)

LEMMA PayoutMoves ==
  ASSUME NEW w, NEW next, Payout!Goto(w, next)
  PROVE  MovesTo(w, next)
  BY DEF Payout!Goto, MovesTo

LEMMA PayoutWorkerOnce ==
  ASSUME Payout!TypeOK, OnceInv, NEW w \in Workers,
         \/ Payout!Load(w) \/ Payout!Find(w) \/ Payout!Claim(w)
         \/ Payout!GiveUp(w) \/ Payout!Apply(w) \/ Payout!Credit(w)
  PROVE  OnceInv'
  <1>. USE DEF Payout!accounts, Payout!provider
  <1>0. Payout!Idle.at = "idle"
    BY DEF Payout!Idle
  <1>1. CASE Payout!Load(w)
    <2>1. PICK next : /\ Payout!Goto(w, next)
                      /\ next.at = "loaded" /\ next.submitted = (submittedAt # "never")
      BY <1>1 DEF Payout!Load
    <2>2. QED
      BY <1>1, <2>1, PayoutMoves, OnceLoad DEF Payout!Load
  <1>2. CASE Payout!Find(w)
    <2>1. CASE records = << >> /\ Payout!Goto(w, [at |-> "claim"])
      <3>1. job[w].at = "loaded" /\ job[w].submitted
        BY <1>2 DEF Payout!Find
      <3>2. PICK next : next = [at |-> "claim"]
        OBVIOUS
      <3>3. next.at = "claim" /\ MovesTo(w, next)
        BY <2>1, <3>2, PayoutMoves
      <3>4. QED
        BY <1>2, <2>1, <3>1, <3>3, OnceNothingThere DEF Payout!Find
    <2>2. CASE \E i \in 1..Len(records) : Payout!Goto(w, [at |-> "apply", result |-> records[i]])
      <3>1. PICK next : Payout!Goto(w, next) /\ next.at = "apply"
        BY <2>2
      <3>2. QED
        BY <1>2, <3>1, PayoutMoves, OnceAway DEF Payout!Find
    <2>3. QED
      BY <1>2, <2>1, <2>2 DEF Payout!Find
  <1>3. CASE Payout!Claim(w)
    <2>1. job[w].at = "claim" \/ (job[w].at = "loaded" /\ ~job[w].submitted)
      BY <1>3 DEF Payout!Claim
    <2>2. CASE /\ Payout!Claimable /\ submittedAt' = "recent"
               /\ Payout!Goto(w, [at |-> "send", first |-> job[w].at = "loaded"])
      <3>1. PICK next : Payout!Goto(w, next) /\ next.at = "send"
        BY <2>2
      <3>2. QED
        BY <1>3, <2>1, <2>2, <3>1, PayoutMoves, OnceClaim DEF Payout!Claim, Payout!Claimable
    <2>3. CASE Payout!Goto(w, Payout!Idle) /\ UNCHANGED submittedAt
      BY <1>0, <1>3, <2>3, PayoutMoves, OnceAway DEF Payout!Claim
    <2>4. QED
      BY <1>3, <2>2, <2>3 DEF Payout!Claim
  <1>4. CASE Payout!GiveUp(w)
    BY <1>0, <1>4, PayoutMoves, OnceAway DEF Payout!GiveUp
  <1>5. CASE Payout!Apply(w)
    <2>1. PICK next : Payout!Goto(w, next) /\ next.at \in {"idle", "credit"}
      BY <1>0, <1>5 DEF Payout!Apply
    <2>2. QED
      BY <1>5, <2>1, PayoutMoves, OnceAway DEF Payout!Apply
  <1>6. CASE Payout!Credit(w)
    BY <1>0, <1>6, PayoutMoves, OnceAway DEF Payout!Credit
  <1>7. QED
    BY <1>1, <1>2, <1>3, <1>4, <1>5, <1>6

LEMMA PayoutSendOnce ==
  ASSUME Payout!TypeOK, OnceInv, NEW w \in Workers, Payout!SendAnswered(w) \/ Payout!SendTimesOut(w)
  PROVE  OnceInv'
  <1>. USE DEF Payout!accounts, Payout!provider
  <1>0. Payout!Idle.at = "idle"
    BY DEF Payout!Idle
  <1>1. Payout!ProviderCreates => \E s : records' = Append(records, s)
    BY DEF Payout!ProviderCreates
  <1>2. CASE Payout!SendAnswered(w)
    <2>1. PICK next : Payout!Goto(w, next) /\ next.at \in {"idle", "apply"}
      BY <1>0, <1>2 DEF Payout!SendAnswered
    <2>2. records' = records \/ \E s : records' = Append(records, s)
      BY <1>1, <1>2 DEF Payout!SendAnswered
    <2>3. QED
      BY <1>2, <2>1, <2>2, PayoutMoves, OnceSent DEF Payout!SendAnswered
  <1>3. CASE Payout!SendTimesOut(w)
    <2>1. CASE late' = TRUE /\ UNCHANGED records
      BY <1>0, <1>3, <2>1, PayoutMoves, OnceLate DEF Payout!SendTimesOut
    <2>2. CASE (Payout!ProviderCreates \/ UNCHANGED records) /\ UNCHANGED late
      BY <1>0, <1>1, <1>3, <2>2, PayoutMoves, OnceSent DEF Payout!SendTimesOut
    <2>3. QED
      BY <1>3, <2>1, <2>2 DEF Payout!SendTimesOut
  <1>4. QED
    BY <1>2, <1>3

LEMMA PayoutOtherOnce ==
  ASSUME Payout!TypeOK, OnceInv,
         \/ Payout!ProviderDecides \/ Payout!ProviderRefuses \/ Payout!LateRequest
         \/ Payout!SubmissionSettles \/ Payout!WindowPasses
  PROVE  OnceInv'
  <1>. USE DEF Payout!accounts, Payout!provider
  <1>0. records \in Seq(Statuses)
    BY DEF Payout!TypeOK, Payout!Result, Statuses
  <1>1. CASE Payout!ProviderDecides
    <2>1. PICK i \in 1..Len(records), s \in Statuses : records' = [records EXCEPT ![i] = s]
      BY <1>1 DEF Payout!ProviderDecides, Statuses
    <2>2. Len(records') = Len(records) /\ (records' = << >> <=> records = << >>)
      BY <1>0, <2>1, OrderDecided
    <2>3. QED
      BY <1>1, <2>2, OnceElsewhere DEF Payout!ProviderDecides
  <1>2. CASE Payout!ProviderRefuses
    BY <1>2, OnceElsewhere DEF Payout!ProviderRefuses
  <1>3. CASE Payout!LateRequest
    <2>1. records' = records \/ \E s : records' = Append(records, s)
      BY <1>3 DEF Payout!LateRequest, Payout!ProviderCreates
    <2>2. QED
      BY <1>3, <2>1, OnceArrives DEF Payout!LateRequest
  <1>4. CASE Payout!SubmissionSettles
    <2>1. \A w \in Workers : job[w].at \in {"claim", "loaded"} => w \in stragglers'
      BY <1>4 DEF Payout!SubmissionSettles
    <2>2. QED
      BY <1>4, <2>1, OnceSettles DEF Payout!SubmissionSettles
  <1>5. CASE Payout!WindowPasses
    BY <1>5, OnceOld DEF Payout!WindowPasses
  <1>6. QED
    BY <1>1, <1>2, <1>3, <1>4, <1>5

-----------------------------------------------------------------------------
(* Payouts: what a worker knows, and what is booked, is true of the order. *)

PayoutKnows(q, o, r) ==
  /\ q.at = "apply" =>
       /\ q.result = "successful" => o \in {"successful", "reversed"}
       /\ q.result = "failed" => o = "failed" \/ (o = "none" /\ r)
       /\ q.result = "reversed" => o = "reversed"
  /\ q.at = "credit" => o = "reversed"

PayoutBooked(s, o, r) ==
  /\ s = "successful" => o \in {"successful", "reversed"}
  /\ s = "failed" => o \in {"failed", "reversed"} \/ (o = "none" /\ r)
  /\ s = "reversed" => o = "reversed"

\* The accounts are those of the status.
Held == reserved = Amount + Fee /\ available = -(Amount + Fee) /\ clearing = 0 /\ feeRevenue = 0
Paid == reserved = 0 /\ available = -(Amount + Fee) /\ clearing = Amount /\ feeRevenue = Fee
Returned == reserved = 0 /\ available = 0 /\ clearing = 0 /\ feeRevenue = 0

AccountsAgree ==
  /\ status = "processing" => Held
  /\ status = "successful" => Paid
  /\ status \in {"failed", "reversed"} => Returned

PayoutInv ==
  /\ \A w \in Workers : PayoutKnows(job[w], Order, refusing)
  /\ PayoutBooked(status, Order, refusing)
  /\ AccountsAgree

PayoutSafe == Payout!TypeOK /\ OnceInv /\ PayoutInv

LEMMA PayoutOrder == Payout!Order = Order
  BY DEF Payout!Order, Order

LEMMA PayoutBooks ==
  ASSUME AccountsAgree
  PROVE  /\ status = "processing" => Payout!Book = "held"
         /\ status = "successful" => Payout!Book = "paid"
         /\ status \in {"failed", "reversed"} => Payout!Book = "returned"
  <1>1. Amount + Fee \in Nat \ {0}
    BY PayoutAssumption
  <1>2. Held => Payout!Book = "held"
    BY <1>1 DEF Held, Payout!Book
  <1>3. Paid => Payout!Book = "paid"
    BY <1>1 DEF Paid, Payout!Book
  <1>4. Returned => Payout!Book = "returned"
    BY <1>1 DEF Returned, Payout!Book
  <1>5. QED
    BY <1>2, <1>3, <1>4 DEF AccountsAgree

LEMMA PayoutKeeps ==
  ASSUME Payout!TypeOK, PayoutInv, refusing => refusing',
         Order' = Order \/ Ordered(Order, Order'),
         \A w \in Workers : job'[w] = job[w] \/ PayoutKnows(job'[w], Order', refusing'),
         UNCHANGED <<status, available, reserved, clearing, feeRevenue>>
  PROVE  PayoutInv' /\ Follows(Payout!Book, Order, Payout!Book', Order')
  <1>1. \A w \in Workers : PayoutKnows(job[w], Order', refusing')
    BY DEF PayoutInv, PayoutKnows, Ordered
  <1>2. PayoutBooked(status', Order', refusing')
    BY DEF PayoutInv, PayoutBooked, Ordered
  <1>3. AccountsAgree'
    BY DEF PayoutInv, AccountsAgree, Held, Paid, Returned
  <1>4. PayoutInv'
    BY <1>1, <1>2, <1>3 DEF PayoutInv
  <1>5. Payout!Book' = Payout!Book
    BY DEF Payout!Book
  <1>6. Order = "none" /\ ~refusing => Payout!Book = "held"
    BY PayoutBooks DEF PayoutInv, PayoutBooked, Payout!TypeOK
  <1>7. QED
    BY <1>4, <1>5, <1>6 DEF Follows, Ordered

LEMMA PayoutKeepsMoving ==
  ASSUME Payout!TypeOK, PayoutInv, refusing' = refusing,
         Order' = Order \/ Ordered(Order, Order'),
         NEW w \in Workers, NEW next, Payout!Goto(w, next), PayoutKnows(next, Order', refusing),
         UNCHANGED <<status, available, reserved, clearing, feeRevenue>>
  PROVE  PayoutInv' /\ Follows(Payout!Book, Order, Payout!Book', Order')
  <1>1. \A v \in Workers : job'[v] = job[v] \/ PayoutKnows(job'[v], Order', refusing')
    BY DEF Payout!Goto, Payout!TypeOK
  <1>2. QED
    BY <1>1, PayoutKeeps

LEMMA PayoutWorkerKnows ==
  ASSUME PayoutSafe, NEW w \in Workers,
         Payout!Load(w) \/ Payout!Find(w) \/ Payout!Claim(w) \/ Payout!GiveUp(w)
  PROVE  PayoutInv' /\ Follows(Payout!Book, Order, Payout!Book', Order')
  <1>. USE DEF Payout!accounts, Payout!provider, PayoutSafe
  <1>1. records' = records /\ refusing' = refusing
        /\ UNCHANGED <<status, available, reserved, clearing, feeRevenue>>
    BY DEF Payout!Load, Payout!Find, Payout!Claim, Payout!GiveUp
  <1>2. Order' = Order
    BY <1>1 DEF Order
  <1>3. \A q : q.at \in {"idle", "claim", "send", "loaded"} => PayoutKnows(q, Order, refusing)
    BY DEF PayoutKnows
  <1>4. PICK next : Payout!Goto(w, next) /\ PayoutKnows(next, Order, refusing)
    <2>1. CASE Payout!Load(w) \/ Payout!Claim(w) \/ Payout!GiveUp(w)
      <3>1. PICK next : Payout!Goto(w, next) /\ next.at \in {"idle", "send", "loaded"}
        BY <2>1 DEF Payout!Load, Payout!Claim, Payout!GiveUp, Payout!Idle
      <3>2. QED
        BY <1>3, <3>1
    <2>2. CASE Payout!Find(w)
      <3>1. CASE Payout!Goto(w, [at |-> "claim"])
        <4>1. PICK next : next = [at |-> "claim"]
          OBVIOUS
        <4>2. QED
          BY <1>3, <3>1, <4>1
      <3>2. ASSUME NEW i \in 1..Len(records), Payout!Goto(w, [at |-> "apply", result |-> records[i]])
            PROVE  \E next : Payout!Goto(w, next) /\ PayoutKnows(next, Order, refusing)
        <4>1. records \in Seq(Statuses)
          BY DEF Payout!TypeOK, Payout!Result, Statuses
        <4>2. Order = records[i]
          BY <4>1, OrderFound
        <4>3. PICK next : next = [at |-> "apply", result |-> records[i]]
          OBVIOUS
        <4>4. PayoutKnows(next, Order, refusing)
          BY <4>2, <4>3 DEF PayoutKnows
        <4>5. QED
          BY <3>2, <4>3, <4>4
      <3>3. QED
        BY <2>2, <3>1, <3>2 DEF Payout!Find
    <2>3. QED
      BY <2>1, <2>2
  <1>5. QED
    BY <1>1, <1>2, <1>4, PayoutKeepsMoving

\* Whatever is booked fits the order, and the accounts are moved with the status.
LEMMA PayoutBooking ==
  ASSUME PayoutSafe, NEW w \in Workers, NEW next,
         Payout!Goto(w, next), PayoutKnows(next, Order, refusing), UNCHANGED <<records, refusing>>,
         \/ UNCHANGED <<status, available, reserved, clearing, feeRevenue>>
         \/ status = "processing" /\ Payout!Complete /\ Order \in {"successful", "reversed"}
         \/ status = "processing" /\ Payout!Release
              /\ (Order \in {"failed", "reversed"} \/ (Order = "none" /\ refusing))
         \/ status = "successful" /\ Payout!CreditBack /\ Order = "reversed"
  PROVE  PayoutInv' /\ Follows(Payout!Book, Order, Payout!Book', Order')
  <1>. USE DEF PayoutSafe
  <1>1. Order' = Order
    BY DEF Order
  <1>2. CASE UNCHANGED <<status, available, reserved, clearing, feeRevenue>>
    BY <1>1, <1>2, PayoutKeepsMoving
  <1>3. ASSUME PayoutBooked(status', Order, refusing), AccountsAgree',
               \/ status = "processing" /\ status' = "successful" /\ Order \in {"successful", "reversed"}
               \/ status = "processing" /\ status' = "failed" /\ Order \in {"none", "failed", "reversed"}
               \/ status = "successful" /\ status' = "reversed" /\ Order = "reversed"
        PROVE  PayoutInv' /\ Follows(Payout!Book, Order, Payout!Book', Order')
    <2>1. \A v \in Workers : PayoutKnows(job'[v], Order', refusing')
      BY <1>1 DEF Payout!Goto, Payout!TypeOK, PayoutInv
    <2>2. PayoutInv'
      BY <1>1, <1>3, <2>1 DEF PayoutInv
    <2>3. /\ status = "processing" => Payout!Book = "held"
          /\ status = "successful" => Payout!Book = "paid"
      BY PayoutBooks DEF PayoutInv
    <2>4. Amount + Fee \in Nat \ {0}
      BY PayoutAssumption
    <2>5. /\ status' = "successful" => Payout!Book' = "paid"
          /\ status' \in {"failed", "reversed"} => Payout!Book' = "returned"
      BY <1>3, <2>4 DEF AccountsAgree, Paid, Returned, Payout!Book
    <2>6. QED
      BY <1>1, <1>3, <2>2, <2>3, <2>5 DEF Follows
  <1>4. Amount \in Nat /\ Fee \in Nat /\ AccountsAgree
    BY PayoutAssumption DEF PayoutInv
  <1>5. CASE status = "processing" /\ Payout!Complete /\ Order \in {"successful", "reversed"}
    <2>1. AccountsAgree' /\ PayoutBooked(status', Order, refusing) /\ status' = "successful"
      BY <1>4, <1>5 DEF Payout!Complete, AccountsAgree, Held, Paid, PayoutBooked
    <2>2. QED
      BY <1>3, <1>5, <2>1
  <1>6. CASE /\ status = "processing" /\ Payout!Release
             /\ Order \in {"failed", "reversed"} \/ (Order = "none" /\ refusing)
    <2>1. AccountsAgree' /\ PayoutBooked(status', Order, refusing) /\ status' = "failed"
      BY <1>4, <1>6 DEF Payout!Release, AccountsAgree, Held, Returned, PayoutBooked
    <2>2. QED
      BY <1>3, <1>6, <2>1
  <1>7. CASE status = "successful" /\ Payout!CreditBack /\ Order = "reversed"
    <2>1. AccountsAgree' /\ PayoutBooked(status', Order, refusing) /\ status' = "reversed"
      BY <1>4, <1>7 DEF Payout!CreditBack, AccountsAgree, Paid, Returned, PayoutBooked
    <2>2. QED
      BY <1>3, <1>7, <2>1
  <1>8. QED
    BY <1>2, <1>5, <1>6, <1>7

LEMMA PayoutApplyKnows ==
  ASSUME PayoutSafe, NEW w \in Workers, Payout!Apply(w)
  PROVE  PayoutInv' /\ Follows(Payout!Book, Order, Payout!Book', Order')
  <1>. USE DEF Payout!accounts, Payout!provider
  <1>1. job[w].at = "apply" /\ UNCHANGED <<records, refusing>>
    BY DEF Payout!Apply
  <1>2. PayoutKnows(job[w], Order, refusing) /\ job[w].result \in Statuses
    BY <1>1, PayoutJobs DEF PayoutSafe, PayoutInv, Payout!TypeOK
  <1>3. PICK next : Payout!Goto(w, next) /\ PayoutKnows(next, Order, refusing)
    <2>1. PICK next : /\ Payout!Goto(w, next)
                      /\ next.at \in {"idle", "credit"}
                      /\ next.at = "credit" => job[w].result = "reversed"
      BY DEF Payout!Apply, Payout!Idle
    <2>2. QED
      BY <1>1, <1>2, <2>1 DEF PayoutKnows
  <1>4. \/ UNCHANGED <<status, available, reserved, clearing, feeRevenue>>
        \/ status = "processing" /\ Payout!Complete /\ job[w].result = "successful"
        \/ status = "processing" /\ Payout!Release /\ job[w].result \in {"failed", "reversed"}
    BY DEF Payout!Apply
  <1>5. QED
    BY <1>1, <1>2, <1>3, <1>4, PayoutBooking DEF PayoutKnows

LEMMA PayoutCreditKnows ==
  ASSUME PayoutSafe, NEW w \in Workers, Payout!Credit(w)
  PROVE  PayoutInv' /\ Follows(Payout!Book, Order, Payout!Book', Order')
  <1>. USE DEF Payout!accounts, Payout!provider
  <1>1. job[w].at = "credit" /\ UNCHANGED <<records, refusing>> /\ Payout!Goto(w, Payout!Idle)
    BY DEF Payout!Credit
  <1>2. Order = "reversed"
    BY <1>1 DEF PayoutSafe, PayoutInv, PayoutKnows
  <1>3. PayoutKnows(Payout!Idle, Order, refusing)
    BY DEF PayoutKnows, Payout!Idle
  <1>4. \/ UNCHANGED <<status, available, reserved, clearing, feeRevenue>>
        \/ status = "successful" /\ Payout!CreditBack
    BY DEF Payout!Credit
  <1>5. QED
    BY <1>1, <1>2, <1>3, <1>4, PayoutBooking

LEMMA PayoutSendKnows ==
  ASSUME PayoutSafe, NEW w \in Workers, Payout!SendAnswered(w) \/ Payout!SendTimesOut(w)
  PROVE  PayoutInv' /\ Follows(Payout!Book, Order, Payout!Book', Order')
  <1>. USE DEF Payout!accounts, Payout!provider, PayoutSafe
  <1>1. /\ refusing' = refusing /\ InFlight /\ records = << >> /\ PayoutRecordTypes
        /\ UNCHANGED <<status, available, reserved, clearing, feeRevenue>>
    BY DEF Payout!SendAnswered, Payout!SendTimesOut, InFlight, OnceInv, Payout!TypeOK,
           PayoutRecordTypes, Payout!Result, Statuses
  <1>2. Payout!ProviderCreates => /\ Ordered(Order, Order') /\ Order' = records'[Len(records')]
    <2>1. Payout!ProviderCreates => Creates
      BY <1>1, PayoutCreatesTypes
    <2>2. QED
      BY <1>1, <2>1, OrderCreated
  <1>3. records' = records => Order' = Order
    BY DEF Order
  <1>4. Order = "none"
    BY <1>1 DEF Order
  <1>5. PayoutKnows(Payout!Idle, Order', refusing)
    BY DEF PayoutKnows, Payout!Idle
  <1>6. CASE /\ Payout!ProviderCreates
             /\ Payout!Goto(w, [at |-> "apply", result |-> records'[Len(records')]])
    <2>1. PICK next : next = [at |-> "apply", result |-> records'[Len(records')]]
      OBVIOUS
    <2>2. PayoutKnows(next, Order', refusing)
      BY <1>2, <1>6, <2>1 DEF PayoutKnows
    <2>3. QED
      BY <1>1, <1>2, <1>6, <2>1, <2>2, PayoutKeepsMoving
  <1>7. CASE refusing /\ Payout!Goto(w, [at |-> "apply", result |-> "failed"]) /\ UNCHANGED records
    <2>1. PICK next : next = [at |-> "apply", result |-> "failed"]
      OBVIOUS
    <2>2. PayoutKnows(next, Order', refusing)
      BY <1>3, <1>4, <1>7, <2>1 DEF PayoutKnows
    <2>3. QED
      BY <1>1, <1>3, <1>7, <2>1, <2>2, PayoutKeepsMoving
  <1>8. CASE (Payout!ProviderCreates \/ records' = records) /\ Payout!Goto(w, Payout!Idle)
    BY <1>1, <1>2, <1>3, <1>5, <1>8, PayoutKeepsMoving
  <1>9. QED
    BY <1>6, <1>7, <1>8 DEF Payout!SendAnswered, Payout!SendTimesOut

LEMMA PayoutOtherKnows ==
  ASSUME PayoutSafe,
         \/ Payout!ProviderDecides \/ Payout!ProviderRefuses \/ Payout!LateRequest
         \/ Payout!SubmissionSettles \/ Payout!WindowPasses
  PROVE  PayoutInv' /\ Follows(Payout!Book, Order, Payout!Book', Order')
  <1>. USE DEF Payout!accounts, Payout!provider, PayoutSafe
  <1>1. /\ job' = job /\ (refusing => refusing')
        /\ UNCHANGED <<status, available, reserved, clearing, feeRevenue>>
    BY DEF Payout!ProviderDecides, Payout!ProviderRefuses, Payout!LateRequest,
           Payout!SubmissionSettles, Payout!WindowPasses, Payout!TypeOK
  <1>2. Order' = Order \/ Ordered(Order, Order')
    <2>0. PayoutRecordTypes
      BY DEF Payout!TypeOK, PayoutRecordTypes, Payout!Result, Statuses
    <2>1. CASE Payout!ProviderDecides
      <3>1. PICK i \in 1..Len(records), s \in Statuses :
              /\ records' = [records EXCEPT ![i] = s]
              /\ \/ records[i] = "pending" /\ s \in {"successful", "failed"}
                 \/ records[i] = "successful" /\ s = "reversed"
        BY <2>1 DEF Payout!ProviderDecides, Statuses
      <3>2. Order = records[i] /\ Order' = s
        BY <2>0, <3>1, OrderDecided DEF PayoutRecordTypes
      <3>3. QED
        BY <3>1, <3>2 DEF Ordered
    <2>2. CASE Payout!LateRequest
      <3>1. InFlight /\ (Payout!ProviderCreates \/ records' = records)
        BY <2>2 DEF Payout!LateRequest, InFlight
      <3>2. Payout!ProviderCreates => Creates
        BY <2>0, PayoutCreatesTypes
      <3>3. QED
        BY <3>1, <3>2, OrderCreated DEF Order
    <2>3. CASE records' = records
      BY <2>3 DEF Order
    <2>4. QED
      BY <2>1, <2>2, <2>3 DEF Payout!ProviderRefuses, Payout!SubmissionSettles, Payout!WindowPasses
  <1>3. QED
    BY <1>1, <1>2, PayoutKeeps

LEMMA PayoutStep ==
  ASSUME PayoutSafe, Payout!Next
  PROVE  PayoutSafe' /\ Follows(Payout!Book, Order, Payout!Book', Order')
  <1>1. Payout!TypeOK'
    BY PayoutTypes DEF PayoutSafe
  <1>2. OnceInv'
    BY PayoutWorkerOnce, PayoutSendOnce, PayoutOtherOnce DEF PayoutSafe, Payout!Next
  <1>3. PayoutInv' /\ Follows(Payout!Book, Order, Payout!Book', Order')
    BY PayoutWorkerKnows, PayoutApplyKnows, PayoutCreditKnows, PayoutSendKnows, PayoutOtherKnows
       DEF Payout!Next
  <1>4. QED
    BY <1>1, <1>2, <1>3 DEF PayoutSafe

-----------------------------------------------------------------------------
(* Both. *)

\* A batch worker is why a refund can be sent twice: the run refund_batch.
Punctual == kind = "refund" => BatchWorkers = {}

SubmissionInv ==
  /\ kind \in {"refund", "payout"} /\ Punctual
  /\ IF kind = "refund" THEN RefundSafe ELSE PayoutSafe

LEMMA SubmissionStart ==
  ASSUME SubmissionsInit
  PROVE  /\ SubmissionTypeOK /\ OnceInv
         /\ kind = "refund" => RefundInv /\ Book = "held"
         /\ kind = "payout" => PayoutInv /\ Payout!Book = "held"
         /\ Order = "none" /\ kind \in {"refund", "payout"}
  <1>0. << >> \in Seq({"pending", "successful", "failed"}) /\ << >> \in Seq(Payout!Result) /\ Len(<< >>) = 0
    OBVIOUS
  <1>1. /\ kind \in {"refund", "payout"} /\ status = "processing" /\ submittedAt = "never"
        /\ records = << >> /\ refusing = FALSE /\ late = FALSE /\ stragglers = {} /\ providerRef = 0
        /\ job = [w \in Workers |-> Idle]
        /\ kind = "payout" => Held
    BY DEF SubmissionsInit, Init, Payout!Init, Idle, Payout!Idle, Held
  <1>2. \A w \in Workers : job[w] = Idle /\ job[w].at = "idle"
    BY <1>1 DEF Idle
  <1>3. OnceInv
    BY <1>0, <1>1, <1>2 DEF OnceInv, InFlight, Times
  <1>4. Order = "none"
    BY <1>1 DEF Order
  <1>5. CASE kind = "refund"
    <2>1. TypeOK
      <3>1. Idle \in Job
        BY DEF Job
      <3>2. job \in [Workers -> Job]
        BY <1>1, <3>1
      <3>3. MaxSends \in Nat
        BY WorkersAssumption
      <3>4. Len(records) <= MaxSends /\ providerRef \in 0..MaxSends
        BY <1>0, <1>1, <3>3
      <3>5. QED
        BY <1>0, <1>1, <3>2, <3>4 DEF TypeOK
    <2>2. RefundInv /\ Book = "held"
      BY <1>1, <1>2 DEF RefundInv, RefundKnows, RefundBooked, Book
    <2>3. QED
      BY <1>1, <1>3, <1>4, <1>5, <2>1, <2>2 DEF SubmissionTypeOK
  <1>6. CASE kind = "payout"
    <2>1. Payout!TypeOK
      <3>1. Idle \in Payout!Job
        BY DEF Payout!Job, Idle, Payout!Idle
      <3>2. job \in [Workers -> Payout!Job]
        BY <1>1, <3>1
      <3>3. MaxSends \in Nat /\ Amount \in Nat /\ Fee \in Nat
        BY WorkersAssumption, PayoutAssumption
      <3>4. available \in Int /\ reserved \in Int /\ clearing \in Int /\ feeRevenue \in Int
        BY <1>1, <1>6, <3>3 DEF Held
      <3>5. Len(records) <= MaxSends /\ records \in Seq(Payout!Result)
        BY <1>0, <1>1, <3>3
      <3>6. QED
        BY <1>0, <1>1, <3>2, <3>4, <3>5 DEF Payout!TypeOK
    <2>2. AccountsAgree
      BY <1>1, <1>6 DEF AccountsAgree
    <2>3. PayoutInv
      BY <1>1, <1>2, <2>2 DEF PayoutInv, PayoutKnows, PayoutBooked
    <2>4. Payout!Book = "held"
      BY <1>1, <2>2, PayoutBooks
    <2>5. QED
      BY <1>1, <1>3, <1>4, <1>6, <2>1, <2>3, <2>4 DEF SubmissionTypeOK
  <1>7. QED
    BY <1>1, <1>5, <1>6

\* The variables of refunds and of payouts have their types, for any workers, amounts
\* and number of requests that get through.
THEOREM SubmissionTypes == SubmissionsSpec => []SubmissionTypeOK
  <1>1. SubmissionsInit => SubmissionTypeOK
    BY SubmissionStart
  <1>2. ASSUME SubmissionTypeOK, [SubmissionsNext]_<<kind, submissionVars>>
        PROVE  SubmissionTypeOK'
    <2>1. CASE kind = "refund" /\ Next /\ UNCHANGED <<kind, payoutAccounts>>
      BY <1>2, <2>1, RefundTypes DEF SubmissionTypeOK
    <2>2. CASE kind = "payout" /\ Payout!Next /\ UNCHANGED <<kind, providerRef>>
      BY <1>2, <2>2, PayoutTypes DEF SubmissionTypeOK
    <2>3. CASE UNCHANGED <<kind, submissionVars>>
      BY <1>2, <2>3 DEF SubmissionTypeOK, submissionVars, payoutAccounts, vars, row, provider, TypeOK, Payout!TypeOK
    <2>4. QED
      BY <1>2, <2>1, <2>2, <2>3 DEF SubmissionsNext, Either
  <1>3. QED
    BY <1>1, <1>2, PTL DEF SubmissionsSpec

LEMMA SubmissionInvStep ==
  ASSUME SubmissionInv, [SubmissionsNext]_<<kind, submissionVars>>
  PROVE  /\ SubmissionInv'
         /\ kind' = kind
         /\ kind = "refund" => Follows(Book, Order, Book', Order')
         /\ kind = "payout" => Follows(Payout!Book, Order, Payout!Book', Order')
  <1>1. CASE kind = "refund" /\ Next /\ UNCHANGED <<kind, payoutAccounts>>
    BY <1>1, RefundStep DEF SubmissionInv, Punctual
  <1>2. CASE kind = "payout" /\ Payout!Next /\ UNCHANGED <<kind, providerRef>>
    BY <1>2, PayoutStep DEF SubmissionInv, Punctual
  <1>3. CASE UNCHANGED <<kind, submissionVars>>
    <2>1. UNCHANGED <<kind, status, submittedAt, providerRef, records, refusing, late, job, stragglers,
                      available, reserved, clearing, feeRevenue>>
      BY <1>3 DEF submissionVars, vars, row, provider, payoutAccounts
    <2>2. UNCHANGED <<Book, Order, Payout!Book>>
      BY <2>1 DEF Book, Order, Payout!Book
    <2>3. OnceInv <=> OnceInv'
      BY <2>1 DEF OnceInv, InFlight
    <2>4. RefundInv => RefundInv'
      BY <2>1, <2>2 DEF RefundInv
    <2>5. PayoutInv => PayoutInv'
      BY <2>1, <2>2 DEF PayoutInv, AccountsAgree, Held, Paid, Returned
    <2>6. (TypeOK <=> TypeOK') /\ (Payout!TypeOK <=> Payout!TypeOK')
      BY <2>1 DEF TypeOK, Payout!TypeOK
    <2>7. SubmissionInv'
      BY <2>1, <2>3, <2>4, <2>5, <2>6 DEF SubmissionInv, RefundSafe, PayoutSafe, Punctual
    <2>8. QED
      BY <2>1, <2>2, <2>7 DEF Follows
  <1>4. QED
    BY <1>1, <1>2, <1>3 DEF SubmissionsNext, Either

\* submit of refunds and of payouts implements MoneyOut, for any number of concurrent
\* callers, lost and late answers and crashes; of refunds if no sweep outlasts the
\* window after which a refund may be sent again.
THEOREM SubmissionsImplementMoneyOut ==
  SubmissionsSpec /\ (kind = "refund" => BatchWorkers = {}) => MoneyLeavesOnce
  <1>1. SubmissionsInit /\ (kind = "refund" => BatchWorkers = {}) => SubmissionInv /\ Submission!Init
    <2>1. SUFFICES ASSUME SubmissionsInit, Punctual PROVE SubmissionInv /\ Submission!Init
      BY DEF Punctual
    <2>2. SubmissionInv
      BY <2>1, SubmissionStart DEF SubmissionInv, RefundSafe, PayoutSafe, SubmissionTypeOK
    <2>3. Submission!Init
      BY <2>1, SubmissionStart, PayoutOrder DEF Submission!Init
    <2>4. QED
      BY <2>2, <2>3
  <1>2. SubmissionInv /\ [SubmissionsNext]_<<kind, submissionVars>>
          => /\ SubmissionInv'
             /\ [Submission!Next]_<<IF kind = "refund" THEN Book ELSE Payout!Book,
                                    IF kind = "refund" THEN Order ELSE Payout!Order>>
    <2>1. SUFFICES ASSUME SubmissionInv, [SubmissionsNext]_<<kind, submissionVars>>
                   PROVE  /\ SubmissionInv'
                          /\ [Submission!Next]_<<IF kind = "refund" THEN Book ELSE Payout!Book,
                                                 IF kind = "refund" THEN Order ELSE Payout!Order>>
      OBVIOUS
    <2>2. /\ SubmissionInv' /\ kind' = kind
          /\ kind = "refund" => Follows(Book, Order, Book', Order')
          /\ kind # "refund" => Follows(Payout!Book, Payout!Order, Payout!Book', Payout!Order')
      <3>1. Payout!Order = Order /\ Payout!Order' = Order'
        BY DEF Payout!Order, Order
      <3>2. kind \in {"refund", "payout"}
        BY <2>1 DEF SubmissionInv
      <3>3. QED
        BY <2>1, <3>1, <3>2, SubmissionInvStep
    <2>3. QED
      BY <2>2 DEF Follows, Submission!Next, Submission!Place, Submission!Answer,
                  Submission!BookPayment, Submission!BookReturn
  <1>3. QED
    BY <1>1, <1>2, PTL DEF SubmissionsSpec, MoneyLeavesOnce, Submission!Spec

=================================================================================
