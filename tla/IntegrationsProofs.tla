---------------------------- MODULE IntegrationsProofs ----------------------------
(***************************************************************************)
(* Proofs about the parts that deal with services that are not our own.    *)
(* Each part is proved as a specification by itself; IntegrationsAreParts  *)
(* carries the results over to the behaviours that TLC checks.             *)
(***************************************************************************)
EXTENDS MCIntegrations, FiniteSetTheorems, TLAPS

-----------------------------------------------------------------------------
(* Endpoints: the address that is called *)

\* The request under way was allowed to the address it holds.
RequestAllowed ==
  request = NoRequest \/
    /\ request \in [at : {"signed", "called"}, address : Addresses, signatures : SUBSET (0..MaxSecrets)]
    /\ request.address = "public" \/ policy

\* What is allowed has a first address, public unless the policy allows others.
LEMMA AllowedAnswer ==
  ASSUME NEW answer \in Answers, MayCall(answer)
  PROVE  answer[1] \in Addresses /\ (answer[1] = "public" \/ policy)
<1>1. answer # <<>>
  BY DEF MayCall
<1>2. answer \in {<<a>> : a \in Addresses} \cup {<<a, b>> : a, b \in Addresses}
  BY <1>1 DEF Answers
<1>3. answer[1] \in Addresses /\ 1 \in DOMAIN answer
  BY <1>2 DEF Addresses
<1>. QED
  BY <1>3 DEF MayCall

LEMMA ActiveSecretsType ==
  ASSUME keys \in [secret : 0..MaxSecrets, previous : 0..MaxSecrets]
  PROVE  ActiveSecrets \in SUBSET (0..MaxSecrets)
  BY DEF ActiveSecrets

EndpointsTyped ==
  /\ keys \in [secret : 0..MaxSecrets, previous : 0..MaxSecrets]
  /\ issued \in 0..MaxSecrets
  /\ rotating \in [Secrets -> 0..MaxSecrets]
  /\ receiver \in 0..MaxSecrets
  /\ succeeds \in [Secrets -> 0..MaxSecrets]
  /\ overtaken \subseteq Secrets
  /\ RequestAllowed

LEMMA RequestKept ==
  ASSUME RequestAllowed, UNCHANGED <<policy, request>>
  PROVE  RequestAllowed'
  BY Zenon DEF RequestAllowed

LEMMA EndpointsTypedStep ==
  ASSUME EndpointsTyped, [EndpointsNext]_endpointVars
  PROVE  EndpointsTyped'
<1>. USE EndpointsAssumption DEF EndpointsTyped, Secrets
<1>1. CASE Create
  BY <1>1, RequestKept DEF Create
<1>2. CASE RotateSecret
  BY <1>2, RequestKept DEF RotateSecret
<1>3. ASSUME NEW s \in Secrets, NEW grace \in BOOLEAN, StoreSecret(s, grace) PROVE EndpointsTyped'
  <2>1. rotating[s] \in 0..MaxSecrets /\ (IF grace THEN rotating[s] ELSE 0) \in 0..MaxSecrets
    OBVIOUS
  <2>2. (IF grace THEN keys.secret ELSE 0) \in 0..MaxSecrets
    OBVIOUS
  <2>3. keys' \in [secret : 0..MaxSecrets, previous : 0..MaxSecrets]
    BY <1>3, <2>1 DEF StoreSecret
  <2>4. succeeds' \in [Secrets -> 0..MaxSecrets] /\ rotating' \in [Secrets -> 0..MaxSecrets]
    BY <1>3, <2>2 DEF StoreSecret
  <2>5. UNCHANGED <<policy, issued, receiver, request>>
    BY <1>3 DEF StoreSecret
  <2>6. overtaken' \subseteq Secrets
    BY <1>3 DEF StoreSecret, Overtaken
  <2>. QED
    BY <2>3, <2>4, <2>5, <2>6, RequestKept
<1>4. CASE GraceEnds
  <2>1. keys' = [secret |-> keys.secret, previous |-> 0] /\ 0 \in 0..MaxSecrets
    BY <1>4 DEF GraceEnds
  <2>2. succeeds' = [succeeds EXCEPT ![keys.secret] = 0]
    BY <1>4 DEF GraceEnds
  <2>3. succeeds' \in [Secrets -> 0..MaxSecrets]
    BY <2>1, <2>2
  <2>4. keys' \in [secret : 0..MaxSecrets, previous : 0..MaxSecrets]
    BY <2>1
  <2>5. UNCHANGED <<policy, issued, rotating, receiver, overtaken, request>>
    BY <1>4 DEF GraceEnds
  <2>. QED
    BY <2>3, <2>4, <2>5, RequestKept
<1>5. CASE Install
  BY <1>5, RequestKept DEF Install
<1>6. CASE Prepare
  <2>1. PICK answer \in Answers :
          /\ MayCall(answer)
          /\ request' = [at |-> "signed", address |-> answer[1], signatures |-> ActiveSecrets]
    BY <1>6 DEF Prepare
  <2>2. UNCHANGED <<policy, keys, issued, rotating, receiver, succeeds, overtaken>>
    BY <1>6 DEF Prepare
  <2>3. answer[1] \in Addresses /\ (answer[1] = "public" \/ policy) /\ ActiveSecrets \in SUBSET (0..MaxSecrets)
    BY <2>1, AllowedAnswer, ActiveSecretsType
  <2>4. RequestAllowed'
    BY <2>1, <2>2, <2>3 DEF RequestAllowed
  <2>. QED
    BY <2>2, <2>4
<1>7. CASE Connect
  <2>1. request # NoRequest /\ request' = [request EXCEPT !.at = "called"] /\ UNCHANGED policy
    BY <1>7 DEF Connect, NoRequest
  <2>2. request \in [at : {"signed", "called"}, address : Addresses, signatures : SUBSET (0..MaxSecrets)]
    BY <2>1 DEF RequestAllowed
  <2>3. request.address = "public" \/ policy
    BY <2>1, Zenon DEF RequestAllowed
  <2>4. /\ request' \in [at : {"signed", "called"}, address : Addresses, signatures : SUBSET (0..MaxSecrets)]
        /\ request'.address = request.address
    BY <2>1, <2>2
  <2>5. RequestAllowed'
    BY <2>1, <2>3, <2>4, Zenon DEF RequestAllowed
  <2>. QED
    BY <1>7, <2>5 DEF Connect
<1>8. CASE EndRequest
  BY <1>8 DEF EndRequest, RequestAllowed
<1>9. CASE UNCHANGED endpointVars
  BY <1>9, RequestKept DEF endpointVars
<1>. QED
  BY <1>1, <1>2, <1>3, <1>4, <1>5, <1>6, <1>7, <1>8, <1>9 DEF EndpointsNext

LEMMA EndpointsTypedAlways == EndpointsSpec => []EndpointsTyped
<1>1. EndpointsInit => EndpointsTyped
  BY EndpointsAssumption DEF EndpointsInit, EndpointsTyped, RequestAllowed, Secrets
<1>. QED
  BY <1>1, EndpointsTypedStep, PTL DEF EndpointsSpec

\* WebhookUrlPolicy and the sender: a production system never connects to a private
\* address, for any number of secrets, rotations and answers of DNS.
THEOREM PrivateIsNeverCalled == EndpointsSpec => []NeverCallsPrivate
<1>1. EndpointsTyped => NeverCallsPrivate
  BY DEF EndpointsTyped, RequestAllowed, NeverCallsPrivate, NoRequest, Addresses
<1>. QED
  BY <1>1, EndpointsTypedAlways, PTL

-----------------------------------------------------------------------------
(* Endpoints: the secret that signs *)

\* A rotation that none has overtaken has read the secret that is still the endpoint's;
\* if none overtook the one that stored the secret, the previous secret is the one that
\* it replaced.
RotationInv ==
  /\ \A s \in Secrets : rotating[s] # 0 /\ s \notin overtaken => rotating[s] = keys.secret
  /\ keys.secret # 0 /\ keys.secret \notin overtaken => succeeds[keys.secret] = keys.previous
  /\ \A s \in Secrets : rotating[s] # 0 \/ s \in overtaken \/ s = keys.secret => s <= issued
  /\ keys.secret = 0 =>
       issued = 0 /\ receiver = 0 /\ \A s \in Secrets : succeeds[s] = 0

LEMMA RotationStep ==
  ASSUME EndpointsTyped, RotationInv, [EndpointsNext]_endpointVars
  PROVE  RotationInv'
<1>. USE EndpointsAssumption DEF EndpointsTyped, Secrets, RotationInv
<1>1. CASE Create
  BY <1>1 DEF Create
<1>2. CASE RotateSecret
  BY <1>2 DEF RotateSecret
<1>3. ASSUME NEW s \in Secrets, NEW grace \in BOOLEAN, StoreSecret(s, grace) PROVE RotationInv'
  BY <1>3 DEF StoreSecret, Overtaken
<1>4. CASE GraceEnds
  BY <1>4 DEF GraceEnds
<1>5. CASE Install
  BY <1>5 DEF Install
<1>6. CASE UNCHANGED <<keys, issued, rotating, receiver, succeeds, overtaken>>
  BY <1>6
<1>. QED
  BY <1>1, <1>2, <1>3, <1>4, <1>5, <1>6
     DEF EndpointsNext, Prepare, Connect, EndRequest, endpointVars

\* rotateSecret and the sender, for any number of rotations, whether they overlap or not:
\* a receiver that verifies with the current secret accepts what is signed, so does, in
\* the grace period, one that verifies with the replaced secret if no other rotation
\* overtook that one, and nothing is sent to a private address.
THEOREM EndpointsSound == EndpointsSpec => []EndpointsAreSound
<1>1. EndpointsInit => RotationInv
  BY EndpointsAssumption DEF EndpointsInit, RotationInv, Secrets
<1>2. EndpointsTyped /\ RotationInv /\ [EndpointsNext]_endpointVars => RotationInv'
  BY RotationStep
<1>3. EndpointsTyped /\ RotationInv => SwitchLosesNothing
  BY EndpointsAssumption DEF EndpointsTyped, RotationInv, SwitchLosesNothing, ActiveSecrets, Secrets
<1>4. NeverCallsPrivate /\ SwitchLosesNothing => EndpointsAreSound
  BY DEF EndpointsAreSound
<1>. QED
  BY <1>1, <1>2, <1>3, <1>4, EndpointsTypedAlways, PrivateIsNeverCalled, PTL DEF EndpointsSpec

-----------------------------------------------------------------------------
(* The choice of a provider *)

\* A process that runs has routes that can be charged, and what it has routed last can
\* be served.
ChoiceInv == RoutesCharge(settings) /\ RoutedCanBeServed

LEMMA ChoiceStarts ==
  ASSUME NEW s \in Configurations, Start(s), RoutedCanBeServed
  PROVE  ChoiceInv'
<1>1. PICK d : settings' = [s EXCEPT !.default = d]
  BY DEF Start
<1>2. s.routes = settings'.routes
  <2>1. PICK E : s \in [enabled : {E}, default : Adapters \cup {None},
                        routes : [Currencies -> Adapters \cup {None}],
                        live : BOOLEAN, keys : [E -> KeyKinds]]
    BY DEF Configurations
  <2>. QED
    BY <1>1, <2>1
<1>. QED
  BY <1>2 DEF Start, RoutesCharge, ChoiceInv, RoutedCanBeServed

LEMMA ChoiceRoutes ==
  ASSUME NEW kind, NEW c, NEW a, Route(kind, c, a), RoutesCharge(settings),
         kind \in {"payment", "payout"},
         kind = "payment" => c \in SupportedCurrencies(a),
         kind = "payout" => c \in PayoutCurrencies(a)
  PROVE  ChoiceInv'
<1>1. routed' = [kind |-> kind, currency |-> c, provider |-> a] /\ settings' = settings
  BY DEF Route
<1>2. routed'.kind = kind /\ routed'.currency = c /\ routed'.provider = a
  BY <1>1
<1>3. RoutedCanBeServed'
  BY <1>2 DEF RoutedCanBeServed, SupportedCurrencies, PayoutCurrencies
<1>. QED
  BY <1>1, <1>3 DEF ChoiceInv, RoutesCharge, SupportedCurrencies

LEMMA ChoiceSelects ==
  ASSUME NEW c \in Currencies, NEW requested, Select(c, requested), ChoiceInv
  PROVE  ChoiceInv'
<1>1. CASE settings.routes[c] # None
  <2>1. Route("payment", c, settings.routes[c])
    BY <1>1 DEF Select
  <2>2. c \in SupportedCurrencies(settings.routes[c])
    BY <1>1 DEF ChoiceInv, RoutesCharge
  <2>. QED
    BY <2>1, <2>2, ChoiceRoutes DEF ChoiceInv
<1>2. CASE settings.routes[c] = None
  <2>1. PICK name : c \in SupportedCurrencies(name) /\ Route("payment", c, name)
    BY <1>2 DEF Select
  <2>. QED
    BY <2>1, ChoiceRoutes DEF ChoiceInv
<1>. QED
  BY <1>1, <1>2

LEMMA ChoiceSelectsForPayout ==
  ASSUME NEW c \in Currencies, NEW requested, SelectForPayout(c, requested), ChoiceInv
  PROVE  ChoiceInv'
<1>1. CASE requested # None
  BY <1>1, ChoiceRoutes DEF SelectForPayout, CanPayOut, ChoiceInv
<1>2. CASE requested = None
  <2>. DEFINE inOrder == <<settings.routes[c], Preferred(c), settings.default>>
              able == {i \in 1..3 : CanPayOut(inOrder[i], c)}
              first == CHOOSE i \in able : \A j \in able : i <= j
  <2>1. CASE able # {}
    <3>1. \E i \in able : \A j \in able : i <= j
      <4>. HIDE DEF inOrder
      <4>1. able \subseteq 1..3
        OBVIOUS
      <4>2. PICK k \in able : TRUE
        BY <2>1
      <4>. HIDE DEF able
      <4>3. k \in 1..3 /\ (k = 1 \/ k = 2 \/ k = 3)
        BY <4>1
      <4>. QED
        BY <4>1, <4>2, <4>3
    <3>2. first \in able
      BY <3>1
    <3>3. CanPayOut(inOrder[first], c)
      BY <3>2
    <3>4. Route("payout", c, inOrder[first])
      BY <1>2, <2>1 DEF SelectForPayout
    <3>. QED
      BY <3>3, <3>4, ChoiceRoutes DEF CanPayOut, ChoiceInv
  <2>2. CASE able = {}
    <3>1. \E a \in settings.enabled : CanPayOut(a, c) /\ Route("payout", c, a)
      BY <1>2, <2>2 DEF SelectForPayout
    <3>. QED
      BY <3>1, ChoiceRoutes DEF CanPayOut, ChoiceInv
  <2>. QED
    BY <2>1, <2>2
<1>. QED
  BY <1>1, <1>2

\* PaymentProvidersService: for any currencies, enabled providers, routes and defaults
\* that the configuration accepts, what is routed goes to a provider that can serve it.
THEOREM RoutedIsServed == ChoiceSpec => []RoutedCanBeServed
<1>1. ChoiceInit => ChoiceInv
  BY DEF ChoiceInit, ChoiceInv, RoutesCharge, RoutedCanBeServed, NoSettings, None
<1>2. ChoiceInv /\ [ChoiceNext]_choiceVars => ChoiceInv'
  <2>. SUFFICES ASSUME ChoiceInv, [ChoiceNext]_choiceVars PROVE ChoiceInv'
    OBVIOUS
  <2>1. ASSUME NEW s \in Configurations, Start(s) PROVE ChoiceInv'
    BY <2>1, ChoiceStarts DEF ChoiceInv
  <2>2. CASE UNCHANGED choiceVars
    BY <2>2 DEF choiceVars, ChoiceInv, RoutesCharge, RoutedCanBeServed, SupportedCurrencies, PayoutCurrencies
  <2>. QED
    BY <2>1, <2>2, ChoiceSelects, ChoiceSelectsForPayout DEF ChoiceNext
<1>3. ChoiceInv => RoutedCanBeServed
  BY DEF ChoiceInv
<1>. QED
  BY <1>1, <1>2, <1>3, PTL DEF ChoiceSpec

-----------------------------------------------------------------------------
(* Reconciliation *)

Issues == {"missing_in_finstack", "amount_mismatch", "not_credited", "credited_without_payment",
           "late_settlement", "status_mismatch"}

Reports == [run : Runs, issue : Issues, status : {"open", "auto_resolved", "resolved"}]

\* What a provider may say of a payment or payout, or Nothing.
TheirStatuses == {Nothing, "pending", "successful", "failed", "refunded", "reversed"}

RunStates ==
  [at : {"not-started", "duplicate", "created", "unlisted", "payment", "settle", "settled", "payout",
         "absent", "resend", "sync", "synced", "found", "completed", "failed", "crashed"},
   record : TheirStatuses, asked : BOOLEAN, found : SUBSET Reports]

\* What a report of a late settlement says, of our status o.
IsSettled(s, o) == IF s = "payment" THEN o \in CREDITED ELSE o # "processing"

\* The state q of a run r agrees with our status o: what it has found so far is its own,
\* and is enough for the record that it saw.
RunAgrees(r, q, s, o) ==
  /\ q \in RunStates
  /\ \A i \in q.found : i.run = r /\ (i.status = "auto_resolved" => IsSettled(s, o))
  /\ q.at \in {"not-started", "duplicate", "created", "unlisted", "absent", "resend"} => q.record = Nothing
  /\ q.at \in {"payment", "settle", "settled"} => s = "payment"
  /\ q.at \in {"payout", "absent", "resend", "sync", "synced"} => s # "payment"
  /\ s = "payment" /\ q.at \in {"found", "completed"} /\ q.record \in COLLECTED =>
       o \in CREDITED \/ q.found # {}
  /\ s = "payout" /\ q.at \in {"found", "completed"} /\ q.record = "successful" =>
       o \in {"successful", "reversed"} \/ q.found # {}
  /\ q.at \in {"sync", "synced"} /\ q.record = "pending" => o # "processing"

\* What our status may still become.
OursAdvances(s, o, next) ==
  /\ s = "payment" /\ o \in CREDITED => next \in CREDITED
  /\ s = "payout" /\ o \in {"successful", "reversed"} => next \in {"successful", "reversed"}
  /\ s = "payout" /\ o # "processing" => next # "processing"

ReconciliationInv ==
  /\ subject \in {"payment", "payout"}
  /\ DOMAIN run = Runs
  /\ \A r \in Runs : RunAgrees(r, run[r], subject, ours)
  /\ items \subseteq Reports
  /\ \A i \in items : run[i.run].at = "completed" /\ (i.status = "auto_resolved" => IsSettled(subject, ours))
  /\ \A r \in Runs : run[r].at = "completed" /\ run[r].found # {} => \E i \in items : i.run = r
  /\ \A r \in DailyJobs : run[r].at \notin {"not-started", "duplicate"} => r \in scheduled
  /\ \A r, s \in scheduled : r = s
  /\ run = [r \in Runs |-> run[r]]

LEMMA AgreesLater ==
  ASSUME NEW r, NEW q, NEW s \in {"payment", "payout"}, NEW o, NEW next,
         RunAgrees(r, q, s, o), OursAdvances(s, o, next)
  PROVE  RunAgrees(r, q, s, next)
<1>1. IsSettled(s, o) => IsSettled(s, next)
  BY DEF IsSettled, OursAdvances
<1>. QED
  BY <1>1 DEF RunAgrees, OursAdvances, CREDITED

\* Our status only advances, whoever changes it.
LEMMA OursAdvance ==
  ASSUME subject \in {"payment", "payout"},
         subject = "payment" => ours' \in {Settled, ours},
         subject = "payout" => ours' \in {Synced, ours}
  PROVE  OursAdvances(subject, ours, ours')
<1>1. CASE subject = "payment"
  <2>1. Settled \in {"successful", "failed", ours} /\ (ours \in CREDITED => Settled = ours)
    BY DEF Settled, OPEN_PAYMENT, CREDITED
  <2>. QED
    BY <1>1, <2>1 DEF OursAdvances
<1>2. CASE subject = "payout"
  <2>1. /\ ours \in {"successful", "reversed"} => Synced \in {"successful", "reversed"}
        /\ ours # "processing" => Synced # "processing"
    BY DEF Synced
  <2>. QED
    BY <1>2, <2>1 DEF OursAdvances
<1>. QED
  BY <1>1, <1>2

LEMMA AllAgreeLater ==
  ASSUME ReconciliationInv, NEW next, OursAdvances(subject, ours, next)
  PROVE  /\ \A r \in Runs : RunAgrees(r, run[r], subject, next)
         /\ IsSettled(subject, ours) => IsSettled(subject, next)
<1>1. subject \in {"payment", "payout"} /\ \A r \in Runs : RunAgrees(r, run[r], subject, ours)
  BY DEF ReconciliationInv
<1>2. \A r \in Runs : RunAgrees(r, run[r], subject, next)
  BY <1>1, AgreesLater
<1>. QED
  BY <1>1, <1>2 DEF IsSettled, OursAdvances

\* Nothing but our status changes.
LEMMA OursChanges ==
  ASSUME ReconciliationInv, OursAdvances(subject, ours, ours'), UNCHANGED <<subject, scheduled, run, items>>
  PROVE  ReconciliationInv'
<1>1. /\ \A r \in Runs : RunAgrees(r, run[r], subject, ours')
      /\ IsSettled(subject, ours) => IsSettled(subject, ours')
  BY AllAgreeLater
<1>. QED
  BY <1>1, Zenon DEF ReconciliationInv

\* A run that has begun goes on, and neither completes nor reports.
LEMMA RunGoesOn ==
  ASSUME ReconciliationInv, NEW r \in Runs, NEW q, run' = [run EXCEPT ![r] = q],
         RunAgrees(r, q, subject, ours'), OursAdvances(subject, ours, ours'),
         run[r].at \notin {"not-started", "duplicate", "completed"},
         q.at \notin {"not-started", "duplicate", "completed"},
         UNCHANGED <<subject, scheduled, items>>
  PROVE  ReconciliationInv'
<1>1. \A t \in Runs : RunAgrees(t, run[t], subject, ours')
  BY AllAgreeLater
<1>2. IsSettled(subject, ours) => IsSettled(subject, ours')
  BY AllAgreeLater
<1>3. \A t \in Runs : run'[t] = IF t = r THEN q ELSE run[t]
  BY DEF ReconciliationInv
<1>9. \A t \in Runs : RunAgrees(t, run'[t], subject, ours')
  BY <1>1, <1>3
<1>4. DOMAIN run' = Runs /\ run' = [t \in Runs |-> run'[t]]
  BY DEF ReconciliationInv
<1>5. \A i \in items : i.run \in Runs
  BY DEF ReconciliationInv, Reports
<1>6. \A i \in items : run'[i.run].at = "completed" /\ (i.status = "auto_resolved" => IsSettled(subject, ours'))
  BY <1>2, <1>3, <1>5 DEF ReconciliationInv
<1>7. \A t \in Runs : run'[t].at = "completed" /\ run'[t].found # {} => \E i \in items : i.run = t
  BY <1>3 DEF ReconciliationInv
<1>8. \A t \in DailyJobs : run'[t].at \notin {"not-started", "duplicate"} => t \in scheduled
  BY <1>3 DEF ReconciliationInv, Runs
<1>. QED
  BY <1>4, <1>6, <1>7, <1>8, <1>9 DEF ReconciliationInv

\* Goes and Found in terms of the run's fields.
LEMMA RunGoes ==
  ASSUME ReconciliationInv, NEW r \in Runs, NEW at, Goes(r, at),
         at \in {"unlisted", "settle", "settled", "absent", "resend", "sync", "synced", "found", "completed",
                 "failed", "crashed", "created", "duplicate"}
  PROVE  \E q \in RunStates :
           /\ run' = [run EXCEPT ![r] = q]
           /\ q.at = at /\ q.record = run[r].record /\ q.found = run[r].found
<1>. DEFINE q == [run[r] EXCEPT !.at = at]
<1>1. run[r] \in RunStates
  BY DEF ReconciliationInv, RunAgrees
<1>2. q \in RunStates /\ q.at = at /\ q.record = run[r].record /\ q.found = run[r].found
  BY <1>1 DEF RunStates
<1>3. run' = [run EXCEPT ![r] = q]
  BY DEF Goes
<1>. QED
  BY <1>2, <1>3

LEMMA RunFinds ==
  ASSUME ReconciliationInv, NEW r \in Runs, NEW issue \in Issues, NEW status \in {"open", "auto_resolved"},
         Found(r, issue, status, "found")
  PROVE  \E q \in RunStates :
           /\ run' = [run EXCEPT ![r] = q]
           /\ q.at = "found" /\ q.record = run[r].record
           /\ q.found = run[r].found \cup {[run |-> r, issue |-> issue, status |-> status]}
<1>. DEFINE i == [run |-> r, issue |-> issue, status |-> status]
            q == [run[r] EXCEPT !.at = "found", !.found = @ \cup {i}]
<1>1. run[r] \in RunStates
  BY DEF ReconciliationInv, RunAgrees
<1>2. i \in Reports
  BY DEF Reports
<1>3. q \in RunStates /\ q.at = "found" /\ q.record = run[r].record /\ q.found = run[r].found \cup {i}
  BY <1>1, <1>2 DEF RunStates
<1>4. run' = [run EXCEPT ![r] = q]
  BY DEF Found
<1>. QED
  BY <1>3, <1>4

\* A run that goes to its end with nothing to add must have found enough already.
LEMMA GoesAndAgrees ==
  ASSUME ReconciliationInv, NEW r \in Runs, NEW at, Goes(r, at),
         at \in {"unlisted", "settle", "settled", "absent", "resend", "sync", "synced", "found", "failed",
                 "crashed"},
         run[r].at \notin {"not-started", "duplicate", "completed"},
         OursAdvances(subject, ours, ours'), UNCHANGED <<subject, scheduled, items>>,
         at \in {"unlisted", "absent", "resend"} => run[r].record = Nothing,
         at \in {"settle", "settled"} => subject = "payment",
         at \in {"absent", "resend", "sync", "synced"} => subject # "payment",
         at = "found" /\ subject = "payment" /\ run[r].record \in COLLECTED => ours' \in CREDITED,
         at = "found" /\ subject = "payout" /\ run[r].record = "successful" => ours' \in {"successful", "reversed"},
         at \in {"sync", "synced"} /\ run[r].record = "pending" => ours' # "processing"
  PROVE  ReconciliationInv'
<1>1. PICK q \in RunStates :
        /\ run' = [run EXCEPT ![r] = q]
        /\ q.at = at /\ q.record = run[r].record /\ q.found = run[r].found
  BY RunGoes
<1>2. RunAgrees(r, run[r], subject, ours')
  BY AllAgreeLater
<1>3. RunAgrees(r, q, subject, ours')
  BY <1>1, <1>2 DEF RunAgrees
<1>. QED
  BY <1>1, <1>3, RunGoesOn

\* A run that reports something has found enough.
LEMMA FindsAndAgrees ==
  ASSUME ReconciliationInv, NEW r \in Runs, NEW issue \in Issues, NEW status \in {"open", "auto_resolved"},
         Found(r, issue, status, "found"),
         run[r].at \notin {"not-started", "duplicate", "completed"},
         status = "auto_resolved" => IsSettled(subject, ours),
         UNCHANGED <<subject, scheduled, items, ours>>
  PROVE  ReconciliationInv'
<1>1. PICK q \in RunStates :
        /\ run' = [run EXCEPT ![r] = q]
        /\ q.at = "found" /\ q.record = run[r].record
        /\ q.found = run[r].found \cup {[run |-> r, issue |-> issue, status |-> status]}
  BY RunFinds
<1>2. RunAgrees(r, run[r], subject, ours)
  BY DEF ReconciliationInv
<1>3. \A i \in q.found : i.run = r /\ (i.status = "auto_resolved" => IsSettled(subject, ours))
  <2>1. \A i \in run[r].found : i.run = r /\ (i.status = "auto_resolved" => IsSettled(subject, ours))
    BY <1>2 DEF RunAgrees
  <2>2. /\ [run |-> r, issue |-> issue, status |-> status].run = r
        /\ [run |-> r, issue |-> issue, status |-> status].status = status
    OBVIOUS
  <2>. QED
    BY <1>1, <2>1, <2>2
<1>4. RunAgrees(r, q, subject, ours)
  BY <1>1, <1>3 DEF RunAgrees
<1>5. OursAdvances(subject, ours, ours)
  BY DEF OursAdvances
<1>. QED
  BY <1>1, <1>4, <1>5, RunGoesOn

\* A run takes a record to compare.
LEMMA TakesRecord ==
  ASSUME ReconciliationInv, NEW r \in Runs, NEW q \in RunStates, run' = [run EXCEPT ![r] = q],
         run[r].at \notin {"not-started", "duplicate", "completed"},
         q.found = run[r].found,
         q.at = (IF subject = "payment" THEN "payment" ELSE "payout"),
         UNCHANGED <<subject, scheduled, items, ours>>
  PROVE  ReconciliationInv'
<1>1. RunAgrees(r, run[r], subject, ours) /\ OursAdvances(subject, ours, ours)
  BY DEF ReconciliationInv, OursAdvances
<1>2. RunAgrees(r, q, subject, ours)
  BY <1>1 DEF RunAgrees, ReconciliationInv
<1>. QED
  BY <1>1, <1>2, RunGoesOn

LEMMA TheirsIsStatus ==
  ASSUME theirs \in TheirStatuses, [ReconciliationNext]_reconciliationVars
  PROVE  theirs' \in TheirStatuses
<1>1. CASE ProviderMoves
  <2>1. theirs' \in {"pending"} \/ theirs' \in {"successful", "failed"} \/ theirs' \in {"refunded"}
          \/ theirs' \in {"reversed"} \/ theirs' \in {"successful"} \/ theirs' \in {}
    BY <1>1 DEF ProviderMoves
  <2>. QED
    BY <2>1 DEF TheirStatuses
<1>2. ASSUME NEW r \in Runs, Resend(r) PROVE theirs' \in TheirStatuses
  BY <1>2 DEF Resend, TheirStatuses
<1>3. CASE UNCHANGED theirs
  BY <1>3
<1>. QED
  BY <1>1, <1>2, <1>3 DEF ReconciliationNext, reconciliationVars, Webhook, OursMoves, Resolve, CreateRun,
       Trouble, Reexecute, ListPayments, ListPayouts, ComparePayment, SettleLate, Reread, VerifyUnlisted,
       FindUnlisted, CompareAbsent, ComparePayout, SyncLate, AfterSync, Complete, Only, world

LEMMA MeanwhileAgrees ==
  ASSUME ReconciliationInv, ProviderMoves \/ Webhook \/ OursMoves
  PROVE  ReconciliationInv'
<1>1. UNCHANGED <<subject, scheduled, run, items>>
  BY DEF ProviderMoves, Webhook, OursMoves
<1>2. OursAdvances(subject, ours, ours')
  <2>1. CASE ProviderMoves
    BY <2>1 DEF ProviderMoves, OursAdvances
  <2>2. CASE Webhook
    <3>1. subject = "payment" \/ subject = "payout"
      BY DEF ReconciliationInv
    <3>2. CASE subject = "payment"
      <4>1. ours' = Settled
        BY <2>2, <3>2 DEF Webhook
      <4>. QED
        BY <3>2, <4>1, OursAdvance
    <3>3. CASE subject = "payout"
      BY <2>2, <3>3, OursAdvance DEF Webhook
    <3>. QED
      BY <3>1, <3>2, <3>3
  <2>3. CASE OursMoves
    BY <2>3 DEF OursMoves, OursAdvances, CREDITED
  <2>. QED
    BY <2>1, <2>2, <2>3
<1>. QED
  BY <1>1, <1>2, OursChanges

LEMMA CreateRunAgrees ==
  ASSUME ReconciliationInv, NEW r \in Runs, CreateRun(r)
  PROVE  ReconciliationInv'
<1>1. PICK at \in {"created", "duplicate"} :
        /\ Goes(r, at)
        /\ at = "created" => scheduled' = scheduled \cup ({r} \cap DailyJobs)
        /\ at = "duplicate" => UNCHANGED scheduled
        /\ r \in DailyJobs => (at = "created" <=> scheduled = {})
  BY DEF CreateRun
<1>2. UNCHANGED <<subject, ours, items>> /\ run[r].at = "not-started"
  BY DEF CreateRun, world
<1>3. PICK q \in RunStates :
        /\ run' = [run EXCEPT ![r] = q]
        /\ q.at = at /\ q.record = run[r].record /\ q.found = run[r].found
  BY <1>1, RunGoes
<1>4. RunAgrees(r, q, subject, ours)
  BY <1>1, <1>2, <1>3 DEF RunAgrees, ReconciliationInv
<1>5. \A t \in Runs : run'[t] = IF t = r THEN q ELSE run[t]
  BY <1>3 DEF ReconciliationInv
<1>6. DOMAIN run' = Runs /\ run' = [t \in Runs |-> run'[t]]
  BY <1>3 DEF ReconciliationInv
<1>7. \A t \in Runs : RunAgrees(t, run'[t], subject, ours)
  BY <1>4, <1>5 DEF ReconciliationInv
<1>8. \A i \in items : i.run \in Runs /\ i.run # r
  BY <1>2 DEF ReconciliationInv, Reports
<1>9. \A i \in items : run'[i.run].at = "completed"
  BY <1>5, <1>8 DEF ReconciliationInv
<1>10. \A t \in Runs : run'[t].at = "completed" /\ run'[t].found # {} => \E i \in items : i.run = t
  BY <1>1, <1>3, <1>5 DEF ReconciliationInv
<1>11. \A t \in DailyJobs : run'[t].at \notin {"not-started", "duplicate"} => t \in scheduled'
  BY <1>1, <1>3, <1>5 DEF ReconciliationInv, Runs
<1>12. \A t, u \in scheduled' : t = u
  BY <1>1 DEF ReconciliationInv
<1>. QED
  BY <1>2, <1>6, <1>7, <1>9, <1>10, <1>11, <1>12 DEF ReconciliationInv

LEMMA TroubleAgrees ==
  ASSUME ReconciliationInv, NEW r \in Runs, Trouble(r)
  PROVE  ReconciliationInv'
  BY GoesAndAgrees DEF Trouble, world, OursAdvances

LEMMA ReexecuteAgrees ==
  ASSUME ReconciliationInv, NEW r \in Runs, Reexecute(r)
  PROVE  ReconciliationInv'
<1>. DEFINE q == [NotStarted EXCEPT !.at = "created"]
<1>1. run[r].at = "crashed" /\ run' = [run EXCEPT ![r] = q] /\ UNCHANGED <<subject, scheduled, items, ours>>
  BY DEF Reexecute, Only, world
<1>5. OursAdvances(subject, ours, ours')
  BY <1>1 DEF OursAdvances
<1>2. NotStarted \in RunStates /\ NotStarted.record = Nothing /\ NotStarted.found = {}
  BY DEF NotStarted, RunStates, TheirStatuses
<1>3. q \in RunStates /\ q.at = "created" /\ q.record = Nothing /\ q.found = {}
  BY <1>2 DEF RunStates
<1>. HIDE DEF q
<1>4. RunAgrees(r, q, subject, ours')
  BY <1>3 DEF RunAgrees, Nothing, COLLECTED
<1>. QED
  BY <1>1, <1>3, <1>4, <1>5, RunGoesOn

LEMMA ListAgrees ==
  ASSUME ReconciliationInv, theirs \in TheirStatuses, NEW r \in Runs, ListPayments(r) \/ ListPayouts(r)
  PROVE  ReconciliationInv'
<1>1. /\ run[r].at = "created" /\ UNCHANGED <<subject, scheduled, items, ours>>
      /\ OursAdvances(subject, ours, ours')
  BY DEF ListPayments, ListPayouts, Only, world, OursAdvances
<1>2. run[r] \in RunStates /\ run[r].record = Nothing
  BY <1>1 DEF ReconciliationInv, RunAgrees
<1>3. CASE \E at \in {"unlisted", "found"} : Goes(r, at)
  BY <1>1, <1>2, <1>3, GoesAndAgrees DEF Nothing, COLLECTED
<1>4. CASE run' = [run EXCEPT ![r].at = IF subject = "payment" THEN "payment" ELSE "payout",
                             ![r].record = theirs]
  <2>. DEFINE q == [run[r] EXCEPT !.at = IF subject = "payment" THEN "payment" ELSE "payout", !.record = theirs]
  <2>1. q \in RunStates /\ q.found = run[r].found
    BY <1>2 DEF RunStates, TheirStatuses
  <2>2. q.at = IF subject = "payment" THEN "payment" ELSE "payout"
    BY <1>2 DEF RunStates
  <2>3. run' = [run EXCEPT ![r] = q]
    BY <1>4
  <2>. HIDE DEF q
  <2>. QED
    BY <1>1, <2>1, <2>2, <2>3, TakesRecord
<1>. QED
  BY <1>3, <1>4 DEF ListPayments, ListPayouts

LEMMA ComparePaymentAgrees ==
  ASSUME ReconciliationInv, NEW r \in Runs, ComparePayment(r)
  PROVE  ReconciliationInv'
<1>1. /\ run[r].at = "payment" /\ UNCHANGED <<subject, scheduled, items, ours>>
      /\ OursAdvances(subject, ours, ours')
  BY DEF ComparePayment, Only, world, OursAdvances
<1>2. subject = "payment"
  BY <1>1 DEF ReconciliationInv, RunAgrees
<1>3. \/ \E issue \in {"missing_in_finstack", "amount_mismatch", "not_credited", "credited_without_payment"} :
            Found(r, issue, "open", "found")
      \/ Goes(r, "found") /\ (run[r].record \in COLLECTED => ours \in CREDITED)
      \/ Goes(r, "settle")
  BY DEF ComparePayment, Missing
<1>4. ASSUME NEW issue \in {"missing_in_finstack", "amount_mismatch", "not_credited", "credited_without_payment"},
             Found(r, issue, "open", "found")
      PROVE  ReconciliationInv'
  BY <1>1, <1>4, FindsAndAgrees DEF Issues
<1>5. CASE Goes(r, "found") /\ (run[r].record \in COLLECTED => ours \in CREDITED)
  BY <1>1, <1>2, <1>5, GoesAndAgrees
<1>6. CASE Goes(r, "settle")
  BY <1>1, <1>2, <1>6, GoesAndAgrees
<1>. QED
  BY <1>3, <1>4, <1>5, <1>6

LEMMA SettleLateAgrees ==
  ASSUME ReconciliationInv, NEW r \in Runs, SettleLate(r)
  PROVE  ReconciliationInv'
<1>1. /\ run[r].at = "settle" /\ UNCHANGED <<subject, scheduled, items>>
      /\ ours' \in {Settled, ours} /\ Goes(r, "settled")
  BY DEF SettleLate, Only
<1>2. subject = "payment"
  BY <1>1 DEF ReconciliationInv, RunAgrees
<1>3. OursAdvances(subject, ours, ours')
  BY <1>1, <1>2, OursAdvance
<1>. QED
  BY <1>1, <1>2, <1>3, GoesAndAgrees

LEMMA RereadAgrees ==
  ASSUME ReconciliationInv, NEW r \in Runs, Reread(r)
  PROVE  ReconciliationInv'
<1>1. run[r].at = "settled" /\ UNCHANGED <<subject, scheduled, items, ours>>
  BY DEF Reread, Only, world
<1>2. subject = "payment"
  BY <1>1 DEF ReconciliationInv, RunAgrees
<1>3. CASE ours \in CREDITED /\ Found(r, "late_settlement", "auto_resolved", "found")
  BY <1>1, <1>2, <1>3, FindsAndAgrees DEF Issues, IsSettled
<1>4. CASE Found(r, "not_credited", "open", "found")
  BY <1>1, <1>4, FindsAndAgrees DEF Issues
<1>. QED
  BY <1>3, <1>4 DEF Reread

LEMMA VerifyUnlistedAgrees ==
  ASSUME ReconciliationInv, theirs \in TheirStatuses, NEW r \in Runs, VerifyUnlisted(r)
  PROVE  ReconciliationInv'
<1>1. /\ run[r].at = "unlisted" /\ subject = "payment" /\ UNCHANGED <<subject, scheduled, items, ours>>
      /\ OursAdvances(subject, ours, ours')
  BY DEF VerifyUnlisted, Only, world, OursAdvances
<1>2. run[r] \in RunStates /\ run[r].record = Nothing
  BY <1>1 DEF ReconciliationInv, RunAgrees
<1>3. CASE Goes(r, "found")
  BY <1>1, <1>2, <1>3, GoesAndAgrees DEF Nothing, COLLECTED
<1>4. ASSUME NEW s \in TheirStatuses, run' = [run EXCEPT ![r].at = "payment", ![r].record = s]
      PROVE  ReconciliationInv'
  <2>. DEFINE q == [run[r] EXCEPT !.at = "payment", !.record = s]
  <2>1. q \in RunStates /\ q.found = run[r].found /\ q.at = "payment"
    BY <1>2 DEF RunStates
  <2>2. run' = [run EXCEPT ![r] = q]
    BY <1>4
  <2>. HIDE DEF q
  <2>. QED
    BY <1>1, <2>1, <2>2, TakesRecord
<1>5. CASE Found(r, "credited_without_payment", "open", "found")
  BY <1>1, <1>5, FindsAndAgrees DEF Issues
<1>. QED
  BY <1>3, <1>4, <1>5 DEF VerifyUnlisted, TheirStatuses

\* A payout that is asked about takes the provider's status.
LEMMA AsksAndAgrees ==
  ASSUME ReconciliationInv, theirs \in TheirStatuses, NEW r \in Runs, subject = "payout",
         run[r].at \in {"unlisted", "resend"}, UNCHANGED <<subject, scheduled, items, ours>>,
         run' = [run EXCEPT ![r].at = "payout", ![r].record = theirs, ![r].asked = TRUE]
  PROVE  ReconciliationInv'
<1>. DEFINE q == [run[r] EXCEPT !.at = "payout", !.record = theirs, !.asked = TRUE]
<1>1. run[r] \in RunStates
  BY DEF ReconciliationInv, RunAgrees
<1>2. q \in RunStates /\ q.found = run[r].found /\ q.at = "payout"
  BY <1>1 DEF RunStates
<1>3. run' = [run EXCEPT ![r] = q]
  OBVIOUS
<1>. HIDE DEF q
<1>. QED
  BY <1>2, <1>3, TakesRecord

LEMMA FindUnlistedAgrees ==
  ASSUME ReconciliationInv, theirs \in TheirStatuses, NEW r \in Runs, FindUnlisted(r)
  PROVE  ReconciliationInv'
<1>1. /\ run[r].at = "unlisted" /\ subject = "payout" /\ UNCHANGED <<subject, scheduled, items, ours>>
      /\ OursAdvances(subject, ours, ours')
  BY DEF FindUnlisted, Only, world, OursAdvances
<1>2. run[r].record = Nothing
  BY <1>1 DEF ReconciliationInv, RunAgrees
<1>3. CASE run' = [run EXCEPT ![r].at = "payout", ![r].record = theirs, ![r].asked = TRUE]
  BY <1>1, <1>3, AsksAndAgrees
<1>4. CASE Goes(r, "absent")
  BY <1>1, <1>2, <1>4, GoesAndAgrees
<1>. QED
  BY <1>3, <1>4 DEF FindUnlisted

LEMMA CompareAbsentAgrees ==
  ASSUME ReconciliationInv, NEW r \in Runs, CompareAbsent(r)
  PROVE  ReconciliationInv'
<1>1. /\ run[r].at = "absent" /\ UNCHANGED <<subject, scheduled, items, ours>>
      /\ OursAdvances(subject, ours, ours')
  BY DEF CompareAbsent, Only, world, OursAdvances
<1>2. run[r].record = Nothing /\ subject = "payout"
  BY <1>1 DEF ReconciliationInv, RunAgrees
<1>3. CASE Goes(r, "found") \/ Goes(r, "resend")
  BY <1>1, <1>2, <1>3, GoesAndAgrees DEF Nothing
<1>4. CASE Found(r, "status_mismatch", "open", "found")
  BY <1>1, <1>4, FindsAndAgrees DEF Issues
<1>. QED
  BY <1>3, <1>4 DEF CompareAbsent

LEMMA ResendAgrees ==
  ASSUME ReconciliationInv, theirs \in TheirStatuses, NEW r \in Runs, Resend(r)
  PROVE  ReconciliationInv'
<1>1. /\ run[r].at = "resend" /\ UNCHANGED <<subject, scheduled, items, ours>>
      /\ OursAdvances(subject, ours, ours')
  BY DEF Resend, Only, OursAdvances
<1>2. run[r].record = Nothing /\ subject = "payout"
  BY <1>1 DEF ReconciliationInv, RunAgrees
<1>3. CASE run' = [run EXCEPT ![r].at = "payout", ![r].record = theirs, ![r].asked = TRUE]
  BY <1>1, <1>2, <1>3, AsksAndAgrees
<1>4. CASE Goes(r, "resend")
  BY <1>1, <1>2, <1>4, GoesAndAgrees DEF Nothing
<1>5. CASE Found(r, "status_mismatch", "open", "found")
  BY <1>1, <1>5, FindsAndAgrees DEF Issues
<1>. QED
  BY <1>3, <1>4, <1>5 DEF Resend

LEMMA ComparePayoutAgrees ==
  ASSUME ReconciliationInv, NEW r \in Runs, ComparePayout(r)
  PROVE  ReconciliationInv'
<1>1. /\ run[r].at = "payout" /\ UNCHANGED <<subject, scheduled, items, ours>>
      /\ OursAdvances(subject, ours, ours')
  BY DEF ComparePayout, Only, world, OursAdvances
<1>2. subject = "payout"
  BY <1>1 DEF ReconciliationInv, RunAgrees
<1>3. \/ \E issue \in {"missing_in_finstack", "amount_mismatch"} : Found(r, issue, "open", "found")
      \/ Goes(r, "found") /\ (run[r].record = "successful" => ours = "successful")
      \/ Goes(r, "sync") /\ (run[r].record = "pending" => ours # "processing")
  <2>1. PayoutAgrees(ours, run[r].record) /\ run[r].record = "successful" => ours = "successful"
    BY DEF PayoutAgrees
  <2>2. ~PayoutAgrees(ours, run[r].record) /\ run[r].record = "pending" => ours # "processing"
    BY DEF PayoutAgrees
  <2>. QED
    BY <2>1, <2>2 DEF ComparePayout, Missing
<1>4. ASSUME NEW issue \in {"missing_in_finstack", "amount_mismatch"}, Found(r, issue, "open", "found")
      PROVE  ReconciliationInv'
  BY <1>1, <1>4, FindsAndAgrees DEF Issues
<1>5. CASE Goes(r, "found") /\ (run[r].record = "successful" => ours = "successful")
  BY <1>1, <1>2, <1>5, GoesAndAgrees
<1>6. CASE Goes(r, "sync") /\ (run[r].record = "pending" => ours # "processing")
  BY <1>1, <1>2, <1>6, GoesAndAgrees
<1>. QED
  BY <1>3, <1>4, <1>5, <1>6

LEMMA SyncLateAgrees ==
  ASSUME ReconciliationInv, NEW r \in Runs, SyncLate(r)
  PROVE  ReconciliationInv'
<1>1. /\ run[r].at = "sync" /\ UNCHANGED <<subject, scheduled, items>>
      /\ ours' \in {Synced, ours} /\ Goes(r, "synced")
  BY DEF SyncLate, Only
<1>2. subject = "payout" /\ (run[r].record = "pending" => ours # "processing")
  BY <1>1 DEF ReconciliationInv, RunAgrees
<1>3. OursAdvances(subject, ours, ours')
  BY <1>1, <1>2, OursAdvance
<1>4. run[r].record = "pending" => ours' # "processing"
  BY <1>2, <1>3 DEF OursAdvances
<1>. QED
  BY <1>1, <1>2, <1>3, <1>4, GoesAndAgrees

LEMMA AfterSyncAgrees ==
  ASSUME ReconciliationInv, NEW r \in Runs, AfterSync(r)
  PROVE  ReconciliationInv'
<1>1. run[r].at = "synced" /\ UNCHANGED <<subject, scheduled, items, ours>>
  BY DEF AfterSync, Only, world
<1>2. subject = "payout" /\ (run[r].record = "pending" => ours # "processing")
  BY <1>1 DEF ReconciliationInv, RunAgrees
<1>3. CASE PayoutAgrees(ours, run[r].record) /\ Found(r, "late_settlement", "auto_resolved", "found")
  <2>1. ours # "processing"
    BY <1>2, <1>3 DEF PayoutAgrees
  <2>. QED
    BY <1>1, <1>2, <1>3, <2>1, FindsAndAgrees DEF Issues, IsSettled
<1>4. CASE Found(r, "status_mismatch", "open", "found")
  BY <1>1, <1>4, FindsAndAgrees DEF Issues
<1>. QED
  BY <1>3, <1>4 DEF AfterSync

LEMMA CompleteAgrees ==
  ASSUME ReconciliationInv, NEW r \in Runs, Complete(r)
  PROVE  ReconciliationInv'
<1>1. /\ run[r].at = "found" /\ UNCHANGED <<subject, scheduled, ours>>
      /\ items' = items \cup run[r].found /\ Goes(r, "completed")
  BY DEF Complete, world
<1>2. PICK q \in RunStates :
        /\ run' = [run EXCEPT ![r] = q]
        /\ q.at = "completed" /\ q.record = run[r].record /\ q.found = run[r].found
  BY <1>1, RunGoes
<1>3. RunAgrees(r, run[r], subject, ours)
  BY DEF ReconciliationInv
<1>4. RunAgrees(r, q, subject, ours)
  BY <1>1, <1>2, <1>3 DEF RunAgrees
<1>5. \A t \in Runs : run'[t] = IF t = r THEN q ELSE run[t]
  BY <1>2 DEF ReconciliationInv
<1>6. DOMAIN run' = Runs /\ run' = [t \in Runs |-> run'[t]]
  BY <1>2 DEF ReconciliationInv
<1>7. \A t \in Runs : RunAgrees(t, run'[t], subject, ours)
  BY <1>4, <1>5 DEF ReconciliationInv
<1>8. run[r].found \subseteq Reports /\ \A i \in run[r].found : i.run = r /\ (i.status = "auto_resolved" => IsSettled(subject, ours))
  BY <1>3 DEF RunAgrees, RunStates
<1>9. items' \subseteq Reports /\ \A i \in items : i.run \in Runs
  BY <1>1, <1>8 DEF ReconciliationInv, Reports
<1>10. \A i \in items' : run'[i.run].at = "completed" /\ (i.status = "auto_resolved" => IsSettled(subject, ours))
  BY <1>1, <1>2, <1>5, <1>8, <1>9 DEF ReconciliationInv
<1>11. \A t \in Runs : run'[t].at = "completed" /\ run'[t].found # {} => \E i \in items' : i.run = t
  <2>1. ASSUME NEW t \in Runs, t # r, run'[t].at = "completed", run'[t].found # {}
        PROVE  \E i \in items' : i.run = t
    <3>1. run[t].at = "completed" /\ run[t].found # {}
      BY <1>5, <2>1
    <3>. QED
      BY <1>1, <3>1 DEF ReconciliationInv
  <2>2. q.found # {} => \E i \in items' : i.run = r
    BY <1>1, <1>2, <1>8
  <2>. QED
    BY <1>5, <2>1, <2>2
<1>12. \A t \in DailyJobs : run'[t].at \notin {"not-started", "duplicate"} => t \in scheduled
  BY <1>1, <1>5 DEF ReconciliationInv, Runs
<1>. QED
  BY <1>1, <1>6, <1>7, <1>9, <1>10, <1>11, <1>12 DEF ReconciliationInv

LEMMA ResolveAgrees ==
  ASSUME ReconciliationInv, Resolve
  PROVE  ReconciliationInv'
<1>1. PICK i \in items : items' = (items \ {i}) \cup {[i EXCEPT !.status = "resolved"]}
  BY DEF Resolve
<1>2. UNCHANGED <<subject, ours, scheduled, run>>
  BY DEF Resolve, world
<1>. DEFINE j == [i EXCEPT !.status = "resolved"]
<1>3. i \in Reports
  BY DEF ReconciliationInv
<1>4. j \in Reports /\ j.run = i.run /\ j.status = "resolved"
  BY <1>3 DEF Reports
<1>. HIDE DEF j
<1>5. \A k \in items' : k \in items \/ k = j
  BY <1>1 DEF j
<1>6. j \in items' /\ \A k \in items : k \in items' \/ k = i
  BY <1>1 DEF j
<1>7. items' \subseteq Reports
  BY <1>4, <1>5 DEF ReconciliationInv
<1>8. \A k \in items' : run[k.run].at = "completed" /\ (k.status = "auto_resolved" => IsSettled(subject, ours))
  <2>1. \A k \in items : run[k.run].at = "completed" /\ (k.status = "auto_resolved" => IsSettled(subject, ours))
    BY DEF ReconciliationInv
  <2>. QED
    BY <1>4, <1>5, <2>1
<1>9. \A t \in Runs : run[t].at = "completed" /\ run[t].found # {} => \E k \in items' : k.run = t
  BY <1>4, <1>6 DEF ReconciliationInv
<1>. QED
  BY <1>2, <1>7, <1>8, <1>9 DEF ReconciliationInv

LEMMA ReconciliationStep ==
  ASSUME ReconciliationInv, theirs \in TheirStatuses, [ReconciliationNext]_reconciliationVars
  PROVE  ReconciliationInv'
<1>1. CASE UNCHANGED reconciliationVars
  <2>1. OursAdvances(subject, ours, ours') /\ UNCHANGED <<subject, scheduled, run, items>>
    BY <1>1 DEF reconciliationVars, OursAdvances
  <2>. QED
    BY <2>1, OursChanges
<1>. QED
  BY <1>1, MeanwhileAgrees, ResolveAgrees, CreateRunAgrees, TroubleAgrees, ReexecuteAgrees, ListAgrees, ComparePaymentAgrees,
     SettleLateAgrees, RereadAgrees, VerifyUnlistedAgrees, FindUnlistedAgrees, CompareAbsentAgrees, ResendAgrees,
     ComparePayoutAgrees, SyncLateAgrees, AfterSyncAgrees, CompleteAgrees DEF ReconciliationNext

LEMMA ReconciliationCompletes ==
  ASSUME ReconciliationInv
  PROVE  ReconciliationIsComplete
<1>1. \A r \in Runs : RunAgrees(r, run[r], subject, ours)
  BY DEF ReconciliationInv
<1>2. CollectedIsAccountedFor
  BY <1>1 DEF CollectedIsAccountedFor, ReconciliationInv, RunAgrees
<1>3. PaidTwiceIsReported
  BY <1>1 DEF PaidTwiceIsReported, ReconciliationInv, RunAgrees
<1>4. AutoResolvedIsSettled
  BY DEF AutoResolvedIsSettled, ReconciliationInv, IsSettled
<1>5. ScheduledReportsOnce
  <2>. DEFINE S == {i.run : i \in items} \cap DailyJobs
  <2>1. \A t \in S : t \in scheduled
    BY DEF ReconciliationInv
  <2>2. \A t, u \in S : t = u
    BY <2>1 DEF ReconciliationInv
  <2>3. S = {} \/ \E t : S = {t}
    <3>. HIDE DEF S
    <3>. QED
      BY <2>2
  <2>4. Cardinality(S) = 0 \/ Cardinality(S) = 1
    <3>. HIDE DEF S
    <3>. QED
      BY <2>3, FS_EmptySet, FS_Singleton
  <2>. QED
    BY <2>4 DEF ScheduledReportsOnce
<1>. QED
  BY <1>2, <1>3, <1>4, <1>5 DEF ReconciliationIsComplete

\* ReconciliationService: for any number of instances that start the daily job and any
\* runs that admins ask for, a completed run leaves what was collected credited or
\* reported, reports what was paid after we gave it up, calls late only what settled, and
\* the period is reported once.
THEOREM ReconciliationCompletesAlways == ReconciliationSpec => []ReconciliationIsComplete
<1>1. ReconciliationInit => ReconciliationInv /\ theirs \in TheirStatuses
  <2>. SUFFICES ASSUME ReconciliationInit PROVE ReconciliationInv /\ theirs \in TheirStatuses
    OBVIOUS
  <2>1. NotStarted \in RunStates /\ NotStarted.at = "not-started" /\ NotStarted.found = {} /\ NotStarted.record = Nothing
    BY DEF NotStarted, RunStates, TheirStatuses
  <2>2. run = [r \in Runs |-> NotStarted] /\ subject \in {"payment", "payout"} /\ items = {} /\ scheduled = {}
    BY DEF ReconciliationInit
  <2>3. \A r \in Runs : RunAgrees(r, run[r], subject, ours)
    BY <2>1, <2>2 DEF RunAgrees
  <2>4. \A r \in Runs : run[r].at = "not-started"
    BY <2>1, <2>2
  <2>5. theirs \in TheirStatuses
    BY DEF ReconciliationInit, TheirStatuses
  <2>. QED
    BY <2>2, <2>3, <2>4, <2>5 DEF ReconciliationInv, Runs
<1>2. ReconciliationInv /\ theirs \in TheirStatuses /\ [ReconciliationNext]_reconciliationVars
        => (ReconciliationInv /\ theirs \in TheirStatuses)'
  BY ReconciliationStep, TheirsIsStatus
<1>. QED
  BY <1>1, <1>2, ReconciliationCompletes, PTL DEF ReconciliationSpec

-----------------------------------------------------------------------------
(* Deliveries *)

JobStates ==
  {NoJob}
  \cup [at : {"queued", "reset", "count", "disable", "over"}, tries : Nat]
  \cup [at : {"send"}, tries : Nat, failures : Nat]
  \cup [at : {"record"}, tries : Nat, failures : Nat, ok : BOOLEAN]

DeliveriesTyped ==
  /\ endpoint \in [enabled : BOOLEAN, deleted : BOOLEAN, failures : Nat, why : {"none", "failures"}]
  /\ delivery \in [Items -> {NoDelivery, "pending", "succeeded", "failed"}]
  /\ job \in [JobIds -> JobStates]
  /\ redeliver \in [1..MaxRedeliveries -> {"idle", "event", "test", "done"}]
  /\ got \subseteq Items
  /\ faults \in Nat /\ finals \in Nat
  /\ endpoint.failures <= finals

\* A delivery that is not there has no job, no request to redeliver and no receiver.
AbsentIsUntouched ==
  \A i \in Items : delivery[i] = NoDelivery =>
    /\ i \notin got
    /\ \A j \in JobIds : j[1] = i => job[j] = NoJob
    /\ \A n \in 1..MaxRedeliveries : redeliver[n] # i

\* The job of a redelivery is new when it is enqueued.
RedeliveryIsNew ==
  \A n \in 1..MaxRedeliveries : redeliver[n] # "done" =>
    \A j \in JobIds : j[2] = n => job[j] = NoJob

AcceptedIsGot == \A j \in JobIds : job[j].at = "record" /\ job[j].ok => j[1] \in got

\* Who sends a pending delivery is a job that has not recorded yet, or a request that is
\* going to enqueue one.  (A job that only has the endpoint left to update sends nothing.)
Sender(i) ==
  \/ \E j \in JobIds : j[1] = i /\ job[j].at \in {"queued", "send", "record"}
  \/ \E n \in 1..MaxRedeliveries : redeliver[n] = i

PendingHasSender == faults = 0 => \A i \in Items : delivery[i] = "pending" => Sender(i)

DisablesForCause == \A j \in JobIds : job[j].at = "disable" => finals >= DisableAfter

DeliveriesInv ==
  /\ DeliveriesTyped /\ AbsentIsUntouched /\ RedeliveryIsNew /\ AcceptedIsGot /\ SuccessIsReal
  /\ PendingHasSender /\ DisablesForCause /\ DisabledForCause /\ CountedOnce

Counted(f) == {j \in JobIds : f[j].at \in {"disable", "over"}}

LEMMA CountedFinite ==
  ASSUME NEW f
  PROVE  IsFiniteSet(Counted(f)) /\ Cardinality(Counted(f)) \in Nat
<1>1. IsFiniteSet(0..MaxRedeliveries)
  BY DeliveriesAssumption, FS_Interval
<1>2. IsFiniteSet(Items)
  <2>1. IsFiniteSet({"event"}) /\ Items = {"event"} \cup {"test"}
    BY FS_Singleton DEF Items
  <2>. QED
    BY <2>1, FS_AddElement
<1>3. IsFiniteSet(JobIds)
  BY <1>1, <1>2, FS_Product DEF JobIds
<1>4. Counted(f) \subseteq JobIds
  BY DEF Counted
<1>. QED
  BY <1>3, <1>4, FS_Subset, FS_CardinalityType

\* How the number of counted jobs changes when one job changes.
LEMMA CountedChange ==
  ASSUME NEW f, NEW g, NEW j \in JobIds, \A k \in JobIds : k # j => g[k] = f[k]
  PROVE  /\ Cardinality(Counted(g)) >= Cardinality(Counted(f)) - 1
         /\ (j \notin Counted(f) \/ j \in Counted(g)) => Cardinality(Counted(g)) >= Cardinality(Counted(f))
         /\ (j \notin Counted(f) /\ j \in Counted(g)) => Cardinality(Counted(g)) = Cardinality(Counted(f)) + 1
<1>1. IsFiniteSet(Counted(f)) /\ Cardinality(Counted(f)) \in Nat
  BY CountedFinite
<1>2. IsFiniteSet(Counted(g)) /\ Cardinality(Counted(g)) \in Nat
  BY CountedFinite
<1>4. j \in Counted(g) => Counted(g) = Counted(f) \cup {j}
  BY DEF Counted
<1>5. j \notin Counted(g) => Counted(g) = Counted(f) \ {j}
  BY DEF Counted
<1>6. /\ Cardinality(Counted(f) \cup {j}) = IF j \in Counted(f) THEN Cardinality(Counted(f)) ELSE Cardinality(Counted(f)) + 1
      /\ Cardinality(Counted(f) \ {j}) = IF j \in Counted(f) THEN Cardinality(Counted(f)) - 1 ELSE Cardinality(Counted(f))
  BY <1>1, FS_AddElement, FS_RemoveElement
<1>. DEFINE c == Cardinality(Counted(f))
            d == Cardinality(Counted(g))
<1>7. j \in Counted(g) => d = IF j \in Counted(f) THEN c ELSE c + 1
  BY <1>4, <1>6
<1>8. j \notin Counted(g) => d = IF j \in Counted(f) THEN c - 1 ELSE c
  BY <1>5, <1>6
<1>9. c \in Nat /\ d \in Nat
  BY <1>1, <1>2
<1>. HIDE DEF c, d
<1>10. d >= c - 1 /\ ((j \notin Counted(f) \/ j \in Counted(g)) => d >= c)
         /\ ((j \notin Counted(f) /\ j \in Counted(g)) => d = c + 1)
  BY <1>7, <1>8, <1>9
<1>. QED
  BY <1>10 DEF c, d

\* A job changes: what is left to show is what the new state of the job says by itself.
LEMMA JobChanges ==
  ASSUME DeliveriesInv, NEW j \in JobIds, NEW q \in JobStates, SetJob(j, q)
  PROVE  /\ job' \in [JobIds -> JobStates]
         /\ job'[j] = q
         /\ \A k \in JobIds : k # j => job'[k] = job[k]
  BY DEF DeliveriesInv, DeliveriesTyped, SetJob

\* Nor does a job that is there make another delivery, or another redelivery's job.
LEMMA JobKeepsOthers ==
  ASSUME DeliveriesInv, NEW j \in JobIds, NEW q \in JobStates, SetJob(j, q), job[j] # NoJob,
         UNCHANGED redeliver, \A i \in Items : delivery'[i] = NoDelivery => delivery[i] = NoDelivery,
         got' \subseteq got \cup {j[1]}
  PROVE  AbsentIsUntouched' /\ RedeliveryIsNew'
<1>1. /\ job'[j] = q
      /\ \A k \in JobIds : k # j => job'[k] = job[k]
  BY JobChanges
<1>2. j[1] \in Items /\ delivery[j[1]] # NoDelivery
  BY DEF JobIds, DeliveriesInv, AbsentIsUntouched
<1>3. \A n \in 1..MaxRedeliveries : j[2] = n => redeliver[n] = "done"
  BY DEF DeliveriesInv, RedeliveryIsNew
<1>4. AbsentIsUntouched'
  BY <1>1, <1>2 DEF DeliveriesInv, AbsentIsUntouched
<1>5. RedeliveryIsNew'
  BY <1>1, <1>3 DEF DeliveriesInv, RedeliveryIsNew
<1>. QED
  BY <1>4, <1>5

\* What a job that is there has in it.
LEMMA JobFields ==
  ASSUME DeliveriesInv, NEW j \in JobIds
  PROVE  /\ job[j] # NoJob => job[j].tries \in Nat
         /\ job[j].at \in {"send", "record"} => job[j].failures \in Nat
         /\ job[j].at = "record" => job[j].ok \in BOOLEAN
         /\ job[j].at # "none" => job[j] # NoJob
         /\ j[1] \in Items
<1>1. job[j] \in JobStates
  BY DEF DeliveriesInv, DeliveriesTyped
<1>. QED
  BY <1>1 DEF JobStates, NoJob, JobIds

\* The other senders stay.
LEMMA OtherSenders ==
  ASSUME DeliveriesInv, NEW j \in JobIds, NEW q \in JobStates, SetJob(j, q), UNCHANGED redeliver
  PROVE  \A i \in Items : Sender(i) /\ (i # j[1] \/ q.at \in {"queued", "send", "record"}
                            \/ job[j].at \notin {"queued", "send", "record"}) => Sender(i)'
<1>1. /\ job'[j] = q
      /\ \A k \in JobIds : k # j => job'[k] = job[k]
  BY JobChanges
<1>. QED
  BY <1>1 DEF Sender

\* The count of final failures stays within bounds when a job changes that has not
\* counted, or has and is over.
LEMMA StillCountedOnce ==
  ASSUME DeliveriesInv, NEW j \in JobIds, NEW q \in JobStates, SetJob(j, q),
         job[j].at \notin {"disable", "over"} \/ q.at \in {"disable", "over"},
         UNCHANGED <<faults, finals>>
  PROVE  CountedOnce'
<1>1. /\ job'[j] = q
      /\ \A k \in JobIds : k # j => job'[k] = job[k]
  BY JobChanges
<1>2. j \notin Counted(job) \/ j \in Counted(job')
  BY <1>1 DEF Counted
<1>3. Cardinality(Counted(job')) >= Cardinality(Counted(job))
  BY <1>1, <1>2, CountedChange
<1>4. Cardinality(Counted(job')) \in Nat /\ Cardinality(Counted(job)) \in Nat /\ finals \in Nat /\ faults \in Nat
  BY CountedFinite DEF DeliveriesInv, DeliveriesTyped
<1>5. finals <= Cardinality(Counted(job)) + faults
  BY DEF DeliveriesInv, CountedOnce, Counted
<1>6. finals' <= Cardinality(Counted(job')) + faults'
  BY <1>3, <1>4, <1>5
<1>. QED
  BY <1>6 DEF CountedOnce, Counted

LEMMA TakeDeliveryInv ==
  ASSUME DeliveriesInv, NEW j \in JobIds, TakeDelivery(j)
  PROVE  DeliveriesInv'
<1>1. job[j].at = "queued" /\ UNCHANGED <<endpoint, redeliver, got, faults, finals>>
  BY DEF TakeDelivery
<1>2. job[j] # NoJob /\ job[j].tries \in Nat /\ j[1] \in Items /\ delivery[j[1]] # NoDelivery
  BY <1>1, JobFields DEF DeliveriesInv, AbsentIsUntouched
<1>3. PICK q \in JobStates :
        /\ SetJob(j, q)
        /\ \/ q.at = "over" /\ UNCHANGED delivery /\ delivery[j[1]] = "succeeded"
           \/ q.at = "over" /\ delivery' = [delivery EXCEPT ![j[1]] = "failed"]
           \/ q.at = "send" /\ UNCHANGED delivery
  <2>1. Over(j) \in JobStates /\ Over(j).at = "over"
    BY <1>2 DEF Over, JobStates
  <2>2. endpoint.failures \in Nat
    BY DEF DeliveriesInv, DeliveriesTyped
  <2>3. /\ [at |-> "send", tries |-> job[j].tries, failures |-> endpoint.failures] \in JobStates
        /\ [at |-> "send", tries |-> job[j].tries, failures |-> endpoint.failures].at = "send"
    BY <1>2, <2>2 DEF JobStates
  <2>. QED
    BY <1>2, <2>1, <2>3 DEF TakeDelivery
<1>4. /\ job' \in [JobIds -> JobStates] /\ job'[j] = q
      /\ \A k \in JobIds : k # j => job'[k] = job[k]
  BY <1>3, JobChanges
<1>5. /\ delivery' \in [Items -> {NoDelivery, "pending", "succeeded", "failed"}]
      /\ \A i \in Items : i # j[1] => delivery'[i] = delivery[i]
      /\ \A i \in Items : delivery'[i] = NoDelivery => delivery[i] = NoDelivery
      /\ \A i \in Items : delivery'[i] = "succeeded" => delivery[i] = "succeeded"
      /\ \A i \in Items : delivery'[i] = "pending" => delivery[i] = "pending"
      /\ delivery'[j[1]] = "pending" => q.at = "send"
  BY <1>2, <1>3 DEF DeliveriesInv, DeliveriesTyped, NoDelivery
<1>6. DeliveriesTyped'
  BY <1>1, <1>4, <1>5 DEF DeliveriesInv, DeliveriesTyped
<1>7. AbsentIsUntouched' /\ RedeliveryIsNew'
  BY <1>1, <1>2, <1>3, <1>5, JobKeepsOthers
<1>8. AcceptedIsGot' /\ SuccessIsReal'
  BY <1>1, <1>3, <1>4, <1>5 DEF DeliveriesInv, AcceptedIsGot, SuccessIsReal
<1>9. PendingHasSender'
  BY <1>1, <1>3, <1>5, OtherSenders DEF DeliveriesInv, PendingHasSender
<1>10. DisablesForCause' /\ DisabledForCause'
  BY <1>1, <1>3, <1>4 DEF DeliveriesInv, DisablesForCause, DisabledForCause
<1>11. CountedOnce'
  BY <1>1, <1>3, StillCountedOnce
<1>. QED
  BY <1>6, <1>7, <1>8, <1>9, <1>10, <1>11 DEF DeliveriesInv

LEMMA SendInv ==
  ASSUME DeliveriesInv, NEW j \in JobIds, NEW accepted \in BOOLEAN, NEW ok \in BOOLEAN, Send(j, accepted, ok)
  PROVE  DeliveriesInv'
<1>1. job[j].at = "send" /\ UNCHANGED <<endpoint, delivery, redeliver, faults, finals>>
  BY DEF Send
<1>2. job[j] # NoJob /\ job[j].tries \in Nat /\ job[j].failures \in Nat /\ j[1] \in Items
  BY <1>1, JobFields
<1>. DEFINE q == [at |-> "record", tries |-> job[j].tries, failures |-> job[j].failures, ok |-> ok]
<1>3. q \in JobStates /\ q.at = "record" /\ q.ok = ok /\ SetJob(j, q)
  BY <1>2 DEF JobStates, Send
<1>4. got \subseteq got' /\ got' \subseteq got \cup {j[1]} /\ (ok => j[1] \in got')
  BY DEF Send
<1>. HIDE DEF q
<1>5. /\ job' \in [JobIds -> JobStates] /\ job'[j] = q
      /\ \A k \in JobIds : k # j => job'[k] = job[k]
  BY <1>3, JobChanges
<1>6. DeliveriesTyped'
  BY <1>1, <1>2, <1>4, <1>5 DEF DeliveriesInv, DeliveriesTyped
<1>7. AbsentIsUntouched' /\ RedeliveryIsNew'
  BY <1>1, <1>2, <1>3, <1>4, JobKeepsOthers
<1>8. AcceptedIsGot' /\ SuccessIsReal'
  BY <1>1, <1>3, <1>4, <1>5 DEF DeliveriesInv, AcceptedIsGot, SuccessIsReal
<1>9. PendingHasSender'
  BY <1>1, <1>3, OtherSenders DEF DeliveriesInv, PendingHasSender
<1>10. DisablesForCause' /\ DisabledForCause'
  BY <1>1, <1>3, <1>5 DEF DeliveriesInv, DisablesForCause, DisabledForCause
<1>11. CountedOnce'
  BY <1>1, <1>3, StillCountedOnce
<1>. QED
  BY <1>6, <1>7, <1>8, <1>9, <1>10, <1>11 DEF DeliveriesInv

LEMMA RecordAttemptInv ==
  ASSUME DeliveriesInv, NEW j \in JobIds, RecordAttempt(j)
  PROVE  DeliveriesInv'
<1>1. job[j].at = "record" /\ UNCHANGED <<endpoint, redeliver, got, faults, finals>>
  BY DEF RecordAttempt
<1>2. /\ job[j] # NoJob /\ job[j].tries \in Nat /\ job[j].failures \in Nat /\ job[j].ok \in BOOLEAN
      /\ j[1] \in Items
  BY <1>1, JobFields
<1>3. PICK q \in JobStates :
        /\ SetJob(j, q)
        /\ q.at \in {"reset", "over", "queued", "count"}
        /\ q.at # "queued" => job[j].ok \/ Last(j)
  <2>1. Over(j) \in JobStates /\ Over(j).at = "over"
    BY <1>2 DEF Over, JobStates
  <2>2. /\ [at |-> "reset", tries |-> job[j].tries] \in JobStates
        /\ [at |-> "count", tries |-> job[j].tries] \in JobStates
        /\ Queued(job[j].tries + 1) \in JobStates /\ Queued(job[j].tries + 1).at = "queued"
    BY <1>2 DEF JobStates, Queued
  <2>3. /\ [at |-> "reset", tries |-> job[j].tries].at = "reset"
        /\ [at |-> "count", tries |-> job[j].tries].at = "count"
    OBVIOUS
  <2>4. CASE job[j].ok /\ job[j].failures > 0
    BY <2>2, <2>3, <2>4 DEF RecordAttempt
  <2>5. CASE job[j].ok /\ job[j].failures = 0
    BY <2>1, <2>5 DEF RecordAttempt
  <2>6. CASE ~job[j].ok /\ ~Last(j)
    BY <2>2, <2>6 DEF RecordAttempt
  <2>7. CASE ~job[j].ok /\ Last(j)
    BY <2>2, <2>3, <2>7 DEF RecordAttempt
  <2>. QED
    BY <1>2, <2>4, <2>5, <2>6, <2>7
<1>4. /\ delivery' \in [Items -> {NoDelivery, "pending", "succeeded", "failed"}]
      /\ \A i \in Items : i # j[1] => delivery'[i] = delivery[i]
      /\ delivery'[j[1]] # NoDelivery
      /\ delivery'[j[1]] = "succeeded" => job[j].ok
      /\ delivery'[j[1]] = "pending" => ~job[j].ok /\ ~Last(j)
  BY <1>2 DEF DeliveriesInv, DeliveriesTyped, NoDelivery, RecordAttempt
<1>5. /\ job' \in [JobIds -> JobStates] /\ job'[j] = q
      /\ \A k \in JobIds : k # j => job'[k] = job[k]
  BY <1>3, JobChanges
<1>6. DeliveriesTyped'
  BY <1>1, <1>4, <1>5 DEF DeliveriesInv, DeliveriesTyped
<1>7. AbsentIsUntouched' /\ RedeliveryIsNew'
  BY <1>1, <1>2, <1>3, <1>4, JobKeepsOthers
<1>8. AcceptedIsGot' /\ SuccessIsReal'
  BY <1>1, <1>3, <1>4, <1>5 DEF DeliveriesInv, AcceptedIsGot, SuccessIsReal
<1>9. PendingHasSender'
  <2>1. delivery'[j[1]] = "pending" => Sender(j[1])'
    BY <1>3, <1>4, <1>5 DEF Sender
  <2>2. \A i \in Items : i # j[1] /\ Sender(i) => Sender(i)'
    BY <1>1, <1>3, OtherSenders
  <2>. QED
    BY <1>1, <1>4, <2>1, <2>2 DEF DeliveriesInv, PendingHasSender
<1>10. DisablesForCause' /\ DisabledForCause'
  BY <1>1, <1>3, <1>5 DEF DeliveriesInv, DisablesForCause, DisabledForCause
<1>11. CountedOnce'
  BY <1>1, <1>3, StillCountedOnce
<1>. QED
  BY <1>6, <1>7, <1>8, <1>9, <1>10, <1>11 DEF DeliveriesInv

LEMMA OverState ==
  ASSUME DeliveriesInv, NEW j \in JobIds, job[j] # NoJob
  PROVE  Over(j) \in JobStates /\ Over(j).at = "over"
  BY JobFields DEF Over, JobStates

LEMMA ResetFailuresInv ==
  ASSUME DeliveriesInv, NEW j \in JobIds, ResetFailures(j)
  PROVE  DeliveriesInv'
<1>1. job[j].at = "reset" /\ UNCHANGED <<delivery, redeliver, got, faults, finals>> /\ SetJob(j, Over(j))
  BY DEF ResetFailures
<1>2. job[j] # NoJob /\ Over(j) \in JobStates /\ Over(j).at = "over"
  BY <1>1, JobFields, OverState
<1>3. /\ endpoint' \in [enabled : BOOLEAN, deleted : BOOLEAN, failures : Nat, why : {"none", "failures"}]
      /\ endpoint'.failures = 0 /\ endpoint'.why = endpoint.why
  BY DEF ResetFailures, DeliveriesInv, DeliveriesTyped
<1>4. /\ job' \in [JobIds -> JobStates] /\ job'[j] = Over(j)
      /\ \A k \in JobIds : k # j => job'[k] = job[k]
  BY <1>1, <1>2, JobChanges
<1>5. DeliveriesTyped'
  BY <1>1, <1>3, <1>4 DEF DeliveriesInv, DeliveriesTyped
<1>6. AbsentIsUntouched' /\ RedeliveryIsNew'
  BY <1>1, <1>2, JobKeepsOthers
<1>7. AcceptedIsGot' /\ SuccessIsReal'
  BY <1>1, <1>2, <1>4 DEF DeliveriesInv, AcceptedIsGot, SuccessIsReal
<1>8. PendingHasSender'
  BY <1>1, <1>2, OtherSenders DEF DeliveriesInv, PendingHasSender
<1>9. DisablesForCause' /\ DisabledForCause'
  BY <1>1, <1>2, <1>3, <1>4 DEF DeliveriesInv, DisablesForCause, DisabledForCause
<1>10. CountedOnce'
  BY <1>1, <1>2, StillCountedOnce
<1>. QED
  BY <1>5, <1>6, <1>7, <1>8, <1>9, <1>10 DEF DeliveriesInv

LEMMA CountFailureInv ==
  ASSUME DeliveriesInv, NEW j \in JobIds, CountFailure(j)
  PROVE  DeliveriesInv'
<1>1. job[j].at = "count" /\ UNCHANGED <<delivery, redeliver, got, faults>> /\ finals' = finals + 1
  BY DEF CountFailure
<1>2. job[j] # NoJob /\ job[j].tries \in Nat
  BY <1>1, JobFields
<1>3. /\ endpoint.failures \in Nat /\ finals \in Nat /\ faults \in Nat /\ endpoint.failures <= finals
      /\ endpoint \in [enabled : BOOLEAN, deleted : BOOLEAN, failures : Nat, why : {"none", "failures"}]
  BY DEF DeliveriesInv, DeliveriesTyped
<1>4. /\ endpoint' \in [enabled : BOOLEAN, deleted : BOOLEAN, failures : Nat, why : {"none", "failures"}]
      /\ endpoint'.failures = endpoint.failures + 1 /\ endpoint'.why = endpoint.why
  BY <1>3 DEF CountFailure
<1>5. PICK q \in JobStates :
        /\ SetJob(j, q) /\ q.at \in {"disable", "over"}
        /\ q.at = "disable" => endpoint.failures + 1 >= DisableAfter
  <2>1. /\ [at |-> "disable", tries |-> job[j].tries] \in JobStates
        /\ [at |-> "disable", tries |-> job[j].tries].at = "disable"
    BY <1>2 DEF JobStates
  <2>. QED
    BY <1>2, <2>1, OverState DEF CountFailure
<1>6. /\ job' \in [JobIds -> JobStates] /\ job'[j] = q
      /\ \A k \in JobIds : k # j => job'[k] = job[k]
  BY <1>5, JobChanges
<1>7. DeliveriesTyped'
  BY <1>1, <1>3, <1>4, <1>6 DEF DeliveriesInv, DeliveriesTyped
<1>8. AbsentIsUntouched' /\ RedeliveryIsNew'
  BY <1>1, <1>2, <1>5, JobKeepsOthers
<1>9. AcceptedIsGot' /\ SuccessIsReal'
  BY <1>1, <1>5, <1>6 DEF DeliveriesInv, AcceptedIsGot, SuccessIsReal
<1>10. PendingHasSender'
  BY <1>1, <1>5, OtherSenders DEF DeliveriesInv, PendingHasSender
<1>11. DisablesForCause' /\ DisabledForCause'
  BY <1>1, <1>3, <1>4, <1>5, <1>6, DeliveriesAssumption DEF DeliveriesInv, DisablesForCause, DisabledForCause
<1>12. CountedOnce'
  <2>1. j \notin Counted(job) /\ j \in Counted(job')
    BY <1>1, <1>5, <1>6 DEF Counted
  <2>2. Cardinality(Counted(job')) = Cardinality(Counted(job)) + 1
    BY <1>6, <2>1, CountedChange
  <2>3. finals <= Cardinality(Counted(job)) + faults
    BY DEF DeliveriesInv, CountedOnce, Counted
  <2>4. Cardinality(Counted(job)) \in Nat
    BY CountedFinite
  <2>5. finals' <= Cardinality(Counted(job')) + faults'
    BY <1>1, <1>3, <2>2, <2>3, <2>4
  <2>. QED
    BY <2>5 DEF CountedOnce, Counted
<1>. QED
  BY <1>7, <1>8, <1>9, <1>10, <1>11, <1>12 DEF DeliveriesInv

LEMMA DisableEndpointInv ==
  ASSUME DeliveriesInv, NEW j \in JobIds, DisableEndpoint(j)
  PROVE  DeliveriesInv'
<1>1. job[j].at = "disable" /\ UNCHANGED <<delivery, redeliver, got, faults, finals>> /\ SetJob(j, Over(j))
  BY DEF DisableEndpoint
<1>2. job[j] # NoJob /\ Over(j) \in JobStates /\ Over(j).at = "over"
  BY <1>1, JobFields, OverState
<1>3. /\ endpoint' \in [enabled : BOOLEAN, deleted : BOOLEAN, failures : Nat, why : {"none", "failures"}]
      /\ endpoint'.failures = endpoint.failures
  BY DEF DisableEndpoint, DeliveriesInv, DeliveriesTyped
<1>4. /\ job' \in [JobIds -> JobStates] /\ job'[j] = Over(j)
      /\ \A k \in JobIds : k # j => job'[k] = job[k]
  BY <1>1, <1>2, JobChanges
<1>5. DeliveriesTyped'
  BY <1>1, <1>3, <1>4 DEF DeliveriesInv, DeliveriesTyped
<1>6. AbsentIsUntouched' /\ RedeliveryIsNew'
  BY <1>1, <1>2, JobKeepsOthers
<1>7. AcceptedIsGot' /\ SuccessIsReal'
  BY <1>1, <1>2, <1>4 DEF DeliveriesInv, AcceptedIsGot, SuccessIsReal
<1>8. PendingHasSender'
  BY <1>1, <1>2, OtherSenders DEF DeliveriesInv, PendingHasSender
<1>9. DisablesForCause' /\ DisabledForCause'
  BY <1>1, <1>2, <1>4 DEF DeliveriesInv, DisablesForCause, DisabledForCause
<1>10. CountedOnce'
  BY <1>1, <1>2, StillCountedOnce
<1>. QED
  BY <1>5, <1>6, <1>7, <1>8, <1>9, <1>10 DEF DeliveriesInv

LEMMA DeliverFailsInv ==
  ASSUME DeliveriesInv, NEW j \in JobIds, DeliverFails(j)
  PROVE  DeliveriesInv'
<1>1. /\ job[j].at \in {"queued", "send", "record", "reset", "count", "disable"}
      /\ UNCHANGED <<endpoint, delivery, redeliver, got, finals>> /\ faults' = faults + 1
  BY DEF DeliverFails, Fault
<1>2. job[j] # NoJob /\ job[j].tries \in Nat
  BY <1>1, JobFields
<1>3. PICK q \in JobStates : SetJob(j, q) /\ q.at \in {"queued", "over"}
  <2>1. /\ Queued(job[j].tries) \in JobStates /\ Queued(job[j].tries).at = "queued"
        /\ Queued(job[j].tries + 1) \in JobStates /\ Queued(job[j].tries + 1).at = "queued"
    BY <1>2 DEF JobStates, Queued
  <2>. QED
    BY <1>2, <2>1, OverState DEF DeliverFails
<1>4. /\ job' \in [JobIds -> JobStates] /\ job'[j] = q
      /\ \A k \in JobIds : k # j => job'[k] = job[k]
  BY <1>3, JobChanges
<1>5. finals \in Nat /\ faults \in Nat
  BY DEF DeliveriesInv, DeliveriesTyped
<1>6. DeliveriesTyped'
  BY <1>1, <1>4, <1>5 DEF DeliveriesInv, DeliveriesTyped
<1>7. AbsentIsUntouched' /\ RedeliveryIsNew'
  BY <1>1, <1>2, <1>3, JobKeepsOthers
<1>8. AcceptedIsGot' /\ SuccessIsReal'
  BY <1>1, <1>3, <1>4 DEF DeliveriesInv, AcceptedIsGot, SuccessIsReal
<1>9. PendingHasSender'
  BY <1>1, <1>5 DEF PendingHasSender
<1>10. DisablesForCause' /\ DisabledForCause'
  BY <1>1, <1>3, <1>4 DEF DeliveriesInv, DisablesForCause, DisabledForCause
<1>11. CountedOnce'
  <2>1. Cardinality(Counted(job')) >= Cardinality(Counted(job)) - 1
    BY <1>4, CountedChange
  <2>2. finals <= Cardinality(Counted(job)) + faults
    BY DEF DeliveriesInv, CountedOnce, Counted
  <2>3. Cardinality(Counted(job)) \in Nat /\ Cardinality(Counted(job')) \in Nat
    BY CountedFinite
  <2>4. finals' <= Cardinality(Counted(job')) + faults'
    BY <1>1, <1>5, <2>1, <2>2, <2>3
  <2>. QED
    BY <2>4 DEF CountedOnce, Counted
<1>. QED
  BY <1>6, <1>7, <1>8, <1>9, <1>10, <1>11 DEF DeliveriesInv

LEMMA QueuedState == Queued(0) \in JobStates /\ Queued(0).at = "queued" /\ NoJob.at = "none"
  BY DEF Queued, JobStates, NoJob

\* A fault that changes no job.
LEMMA FaultCountedOnce ==
  ASSUME DeliveriesInv, Fault, UNCHANGED <<job, finals>>
  PROVE  CountedOnce' /\ PendingHasSender' /\ faults' \in Nat
<1>1. faults \in Nat /\ finals \in Nat /\ faults' = faults + 1
  BY DEF DeliveriesInv, DeliveriesTyped, Fault
<1>2. Cardinality(Counted(job)) \in Nat /\ finals <= Cardinality(Counted(job)) + faults
  BY CountedFinite DEF DeliveriesInv, CountedOnce, Counted
<1>3. finals' <= Cardinality(Counted(job)) + faults'
  BY <1>1, <1>2
<1>4. CountedOnce'
  BY <1>3 DEF CountedOnce, Counted
<1>. QED
  BY <1>1, <1>4 DEF PendingHasSender

LEMMA CreateDeliveryInv ==
  ASSUME DeliveriesInv, NEW i \in Items, CreateDelivery(i)
  PROVE  DeliveriesInv'
<1>. DEFINE j == <<i, 0>>
<1>1. j \in JobIds /\ j[1] = i /\ j[2] = 0
  BY DeliveriesAssumption DEF JobIds
<1>. HIDE DEF j
<1>2. delivery[i] = NoDelivery /\ UNCHANGED <<endpoint, redeliver, got, finals>>
  BY DEF CreateDelivery
<1>3. job[j] = NoJob
  BY <1>1, <1>2 DEF DeliveriesInv, AbsentIsUntouched
<1>4. /\ delivery' \in [Items -> {NoDelivery, "pending", "succeeded", "failed"}]
      /\ delivery'[i] = "pending"
      /\ \A k \in Items : k # i => delivery'[k] = delivery[k]
  BY DEF CreateDelivery, DeliveriesInv, DeliveriesTyped
<1>5. CASE SetJob(j, Queued(0)) /\ UNCHANGED faults
  <2>1. /\ job' \in [JobIds -> JobStates] /\ job'[j] = Queued(0)
        /\ \A k \in JobIds : k # j => job'[k] = job[k]
    BY <1>1, <1>5, JobChanges, QueuedState
  <2>2. DeliveriesTyped'
    BY <1>2, <1>4, <1>5, <2>1 DEF DeliveriesInv, DeliveriesTyped
  <2>3. AbsentIsUntouched'
    BY <1>1, <1>2, <1>4, <2>1 DEF DeliveriesInv, AbsentIsUntouched, NoDelivery
  <2>4. RedeliveryIsNew'
    BY <1>1, <1>2, <2>1 DEF DeliveriesInv, RedeliveryIsNew
  <2>5. AcceptedIsGot' /\ SuccessIsReal'
    BY <1>2, <1>4, <2>1, QueuedState DEF DeliveriesInv, AcceptedIsGot, SuccessIsReal
  <2>6. PendingHasSender'
    <3>1. Sender(i)'
      BY <1>1, <2>1, QueuedState DEF Sender
    <3>2. \A k \in Items : k # i /\ Sender(k) => Sender(k)'
      BY <1>1, <1>2, <1>5, OtherSenders, QueuedState
    <3>. QED
      BY <1>4, <1>5, <3>1, <3>2 DEF DeliveriesInv, PendingHasSender
  <2>7. DisablesForCause' /\ DisabledForCause'
    BY <1>2, <2>1, QueuedState DEF DeliveriesInv, DisablesForCause, DisabledForCause
  <2>8. CountedOnce'
    BY <1>1, <1>2, <1>3, <1>5, StillCountedOnce, QueuedState
  <2>. QED
    BY <2>2, <2>3, <2>4, <2>5, <2>6, <2>7, <2>8 DEF DeliveriesInv
<1>6. CASE Fault /\ UNCHANGED job
  <2>1. CountedOnce' /\ PendingHasSender' /\ faults' \in Nat
    BY <1>2, <1>6, FaultCountedOnce
  <2>2. DeliveriesTyped'
    BY <1>2, <1>4, <1>6, <2>1 DEF DeliveriesInv, DeliveriesTyped
  <2>3. AbsentIsUntouched' /\ RedeliveryIsNew'
    BY <1>2, <1>4, <1>6 DEF DeliveriesInv, AbsentIsUntouched, RedeliveryIsNew, NoDelivery
  <2>4. AcceptedIsGot' /\ SuccessIsReal'
    BY <1>2, <1>4, <1>6 DEF DeliveriesInv, AcceptedIsGot, SuccessIsReal
  <2>5. DisablesForCause' /\ DisabledForCause'
    BY <1>2, <1>6 DEF DeliveriesInv, DisablesForCause, DisabledForCause
  <2>. QED
    BY <2>1, <2>2, <2>3, <2>4, <2>5 DEF DeliveriesInv
<1>7. (SetJob(j, Queued(0)) /\ UNCHANGED faults) \/ (Fault /\ UNCHANGED job)
  BY <1>3 DEF CreateDelivery, Enqueue, SetJob, j
<1>. QED
  BY <1>5, <1>6, <1>7

LEMMA RedeliverInv ==
  ASSUME DeliveriesInv, NEW n \in 1..MaxRedeliveries, NEW i \in Items, Redeliver(n, i)
  PROVE  DeliveriesInv'
<1>1. redeliver[n] = "idle" /\ delivery[i] # NoDelivery /\ UNCHANGED <<endpoint, job, got, faults, finals>>
  BY DEF Redeliver
<1>2. /\ delivery' \in [Items -> {NoDelivery, "pending", "succeeded", "failed"}]
      /\ delivery'[i] = "pending"
      /\ \A k \in Items : k # i => delivery'[k] = delivery[k]
  BY DEF Redeliver, DeliveriesInv, DeliveriesTyped
<1>3. /\ redeliver' \in [1..MaxRedeliveries -> {"idle", "event", "test", "done"}]
      /\ redeliver'[n] = i
      /\ \A m \in 1..MaxRedeliveries : m # n => redeliver'[m] = redeliver[m]
  BY DEF Redeliver, DeliveriesInv, DeliveriesTyped, Items
<1>4. DeliveriesTyped'
  BY <1>1, <1>2, <1>3 DEF DeliveriesInv, DeliveriesTyped
<1>5. AbsentIsUntouched'
  BY <1>1, <1>2, <1>3 DEF DeliveriesInv, AbsentIsUntouched, NoDelivery
<1>6. RedeliveryIsNew'
  BY <1>1, <1>3 DEF DeliveriesInv, RedeliveryIsNew
<1>7. AcceptedIsGot' /\ SuccessIsReal'
  BY <1>1, <1>2 DEF DeliveriesInv, AcceptedIsGot, SuccessIsReal
<1>8. PendingHasSender'
  <2>1. Sender(i)'
    BY <1>3 DEF Sender
  <2>2. \A k \in Items : Sender(k) => Sender(k)'
    BY <1>1, <1>3 DEF Sender, Items
  <2>. QED
    BY <1>1, <1>2, <2>1, <2>2 DEF DeliveriesInv, PendingHasSender
<1>9. DisablesForCause' /\ DisabledForCause' /\ CountedOnce'
  BY <1>1 DEF DeliveriesInv, DisablesForCause, DisabledForCause, CountedOnce
<1>. QED
  BY <1>4, <1>5, <1>6, <1>7, <1>8, <1>9 DEF DeliveriesInv

LEMMA RedeliverEnqueueInv ==
  ASSUME DeliveriesInv, NEW n \in 1..MaxRedeliveries, RedeliverEnqueue(n)
  PROVE  DeliveriesInv'
<1>0. PICK i \in Items : redeliver[n] = i
  BY DEF RedeliverEnqueue
<1>1. redeliver[n] \in Items /\ redeliver[n] # "done" /\ UNCHANGED <<endpoint, delivery, got, finals>>
  BY DEF RedeliverEnqueue, Items
<1>. DEFINE j == <<i, n>>
<1>2. j \in JobIds /\ j[1] = redeliver[n] /\ j[2] = n
  BY <1>0, DeliveriesAssumption DEF JobIds
<1>3. (SetJob(j, Queued(0)) /\ UNCHANGED faults) \/ (Fault /\ UNCHANGED job)
  <2>1. job[j] = NoJob
    BY <1>1, <1>2 DEF DeliveriesInv, RedeliveryIsNew
  <2>. QED
    BY <1>0, <2>1 DEF RedeliverEnqueue, Enqueue, SetJob
<1>. HIDE DEF j
<1>4. job[j] = NoJob /\ delivery[j[1]] # NoDelivery
  BY <1>1, <1>2 DEF DeliveriesInv, RedeliveryIsNew, AbsentIsUntouched
<1>5. /\ redeliver' \in [1..MaxRedeliveries -> {"idle", "event", "test", "done"}]
      /\ redeliver'[n] = "done"
      /\ \A m \in 1..MaxRedeliveries : m # n => redeliver'[m] = redeliver[m]
  BY DEF RedeliverEnqueue, DeliveriesInv, DeliveriesTyped
<1>6. CASE SetJob(j, Queued(0)) /\ UNCHANGED faults
  <2>1. /\ job' \in [JobIds -> JobStates] /\ job'[j] = Queued(0)
        /\ \A k \in JobIds : k # j => job'[k] = job[k]
    BY <1>2, <1>6, JobChanges, QueuedState
  <2>2. DeliveriesTyped'
    BY <1>1, <1>5, <1>6, <2>1 DEF DeliveriesInv, DeliveriesTyped
  <2>3. AbsentIsUntouched'
    BY <1>1, <1>2, <1>4, <1>5, <2>1 DEF DeliveriesInv, AbsentIsUntouched, Items
  <2>4. RedeliveryIsNew'
    BY <1>2, <1>5, <2>1 DEF DeliveriesInv, RedeliveryIsNew
  <2>5. AcceptedIsGot' /\ SuccessIsReal'
    BY <1>1, <2>1, QueuedState DEF DeliveriesInv, AcceptedIsGot, SuccessIsReal
  <2>6. PendingHasSender'
    <3>1. Sender(i)'
      BY <1>0, <1>2, <2>1, QueuedState DEF Sender
    <3>2. ASSUME NEW k \in Items, k # i, Sender(k) PROVE Sender(k)'
      <4>1. \A l \in JobIds : l[1] = k => job'[l] = job[l]
        BY <1>0, <1>2, <2>1, <3>2
      <4>2. \A m \in 1..MaxRedeliveries : redeliver[m] = k => redeliver'[m] = k
        BY <1>0, <1>5, <3>2
      <4>. QED
        BY <3>2, <4>1, <4>2 DEF Sender
    <3>. QED
      BY <1>1, <1>6, <3>1, <3>2 DEF DeliveriesInv, PendingHasSender
  <2>7. DisablesForCause' /\ DisabledForCause'
    BY <1>1, <2>1, QueuedState DEF DeliveriesInv, DisablesForCause, DisabledForCause
  <2>8. CountedOnce'
    BY <1>1, <1>2, <1>4, <1>6, StillCountedOnce, QueuedState
  <2>. QED
    BY <2>2, <2>3, <2>4, <2>5, <2>6, <2>7, <2>8 DEF DeliveriesInv
<1>7. CASE Fault /\ UNCHANGED job
  <2>1. CountedOnce' /\ PendingHasSender' /\ faults' \in Nat
    BY <1>1, <1>7, FaultCountedOnce
  <2>2. DeliveriesTyped'
    BY <1>1, <1>5, <1>7, <2>1 DEF DeliveriesInv, DeliveriesTyped
  <2>3. AbsentIsUntouched' /\ RedeliveryIsNew'
    BY <1>1, <1>5, <1>7 DEF DeliveriesInv, AbsentIsUntouched, RedeliveryIsNew, Items
  <2>4. AcceptedIsGot' /\ SuccessIsReal'
    BY <1>1, <1>7 DEF DeliveriesInv, AcceptedIsGot, SuccessIsReal
  <2>5. DisablesForCause' /\ DisabledForCause'
    BY <1>1, <1>7 DEF DeliveriesInv, DisablesForCause, DisabledForCause
  <2>. QED
    BY <2>1, <2>2, <2>3, <2>4, <2>5 DEF DeliveriesInv
<1>. QED
  BY <1>3, <1>6, <1>7

\* The organization changes the endpoint.
LEMMA EndpointChangesInv ==
  ASSUME DeliveriesInv, RemoveEndpoint \/ \E enable \in BOOLEAN : UpdateEndpoint(enable)
  PROVE  DeliveriesInv'
<1>1. UNCHANGED <<delivery, job, redeliver, got, faults, finals>>
  BY DEF RemoveEndpoint, UpdateEndpoint
<1>2. /\ endpoint \in [enabled : BOOLEAN, deleted : BOOLEAN, failures : Nat, why : {"none", "failures"}]
      /\ finals \in Nat /\ endpoint.failures <= finals
  BY DEF DeliveriesInv, DeliveriesTyped
<1>3. /\ endpoint' \in [enabled : BOOLEAN, deleted : BOOLEAN, failures : Nat, why : {"none", "failures"}]
      /\ endpoint'.failures \in {0, endpoint.failures} /\ endpoint'.why \in {"none", endpoint.why}
  <2>1. CASE RemoveEndpoint
    BY <1>2, <2>1 DEF RemoveEndpoint
  <2>2. ASSUME NEW enable \in BOOLEAN, UpdateEndpoint(enable)
        PROVE  /\ endpoint' \in [enabled : BOOLEAN, deleted : BOOLEAN, failures : Nat, why : {"none", "failures"}]
               /\ endpoint'.failures \in {0, endpoint.failures} /\ endpoint'.why \in {"none", endpoint.why}
    <3>1. PICK f \in {0, endpoint.failures} :
            endpoint' = [enabled |-> enable, deleted |-> FALSE, why |-> "none", failures |-> f]
      BY <2>2 DEF UpdateEndpoint
    <3>. QED
      BY <1>2, <3>1
  <2>. QED
    BY <2>1, <2>2
<1>4. DeliveriesTyped'
  BY <1>1, <1>2, <1>3 DEF DeliveriesInv, DeliveriesTyped
<1>5. AbsentIsUntouched' /\ RedeliveryIsNew' /\ AcceptedIsGot' /\ SuccessIsReal'
  BY <1>1 DEF DeliveriesInv, AbsentIsUntouched, RedeliveryIsNew, AcceptedIsGot, SuccessIsReal
<1>6. PendingHasSender'
  BY <1>1 DEF DeliveriesInv, PendingHasSender, Sender
<1>7. DisablesForCause' /\ DisabledForCause' /\ CountedOnce'
  BY <1>1, <1>3 DEF DeliveriesInv, DisablesForCause, DisabledForCause, CountedOnce
<1>. QED
  BY <1>4, <1>5, <1>6, <1>7 DEF DeliveriesInv

LEMMA DeliveriesStep ==
  ASSUME DeliveriesInv, [DeliveriesNext]_deliveryVars
  PROVE  DeliveriesInv'
<1>1. CASE UNCHANGED deliveryVars
  BY <1>1 DEF deliveryVars, DeliveriesInv, DeliveriesTyped, AbsentIsUntouched, RedeliveryIsNew,
       AcceptedIsGot, SuccessIsReal, PendingHasSender, Sender, DisablesForCause, DisabledForCause, CountedOnce
<1>2. ASSUME NEW j \in JobIds, JobStep(j) PROVE DeliveriesInv'
  BY <1>2, TakeDeliveryInv, RecordAttemptInv, ResetFailuresInv, CountFailureInv, DisableEndpointInv, SendInv
     DEF JobStep
<1>. QED
  BY <1>1, <1>2, CreateDeliveryInv, RedeliverInv, RedeliverEnqueueInv, DeliverFailsInv, EndpointChangesInv
     DEF DeliveriesNext

LEMMA DeliveriesStart == DeliveriesInit => DeliveriesInv
<1>. SUFFICES ASSUME DeliveriesInit PROVE DeliveriesInv
  OBVIOUS
<1>1. NoJob \in JobStates /\ NoJob.at = "none"
  BY DEF NoJob, JobStates
<1>2. \A j \in JobIds : job[j] = NoJob
  BY DEF DeliveriesInit
<1>3. DeliveriesTyped
  BY <1>1 DEF DeliveriesInit, DeliveriesTyped
<1>4. AbsentIsUntouched /\ RedeliveryIsNew
  BY <1>2 DEF DeliveriesInit, AbsentIsUntouched, RedeliveryIsNew, Items
<1>5. AcceptedIsGot /\ SuccessIsReal /\ DisablesForCause /\ DisabledForCause /\ PendingHasSender
  BY <1>1, <1>2 DEF DeliveriesInit, AcceptedIsGot, SuccessIsReal, DisablesForCause, DisabledForCause,
       PendingHasSender, NoDelivery
<1>6. CountedOnce
  <2>1. Cardinality(Counted(job)) \in Nat /\ finals = 0 /\ faults = 0
    BY CountedFinite DEF DeliveriesInit
  <2>2. finals <= Cardinality(Counted(job)) + faults
    BY <2>1
  <2>. QED
    BY <2>2 DEF CountedOnce, Counted
<1>. QED
  BY <1>3, <1>4, <1>5, <1>6 DEF DeliveriesInv

\* OutboundWebhooksService: for any number of attempts, redeliveries, faults and changes
\* of the endpoint, a delivery is reported as what it is, a pending one has a job that
\* will send it unless a fault has lost it, and an endpoint is disabled only for its
\* failures, each of which was counted once.
THEOREM DeliveriesSound == DeliveriesSpec => []DeliveriesAreSound
<1>1. DeliveriesInv => DeliveriesAreSound
  <2>. SUFFICES ASSUME DeliveriesInv PROVE DeliveriesAreSound
    OBVIOUS
  <2>1. DeliveriesTypeOK
    BY DEF DeliveriesInv, DeliveriesTyped, AbsentIsUntouched, DeliveriesTypeOK
  <2>2. PendingIsQueued
    BY DEF DeliveriesInv, PendingHasSender, Sender, PendingIsQueued, Alive
  <2>. QED
    BY <2>1, <2>2 DEF DeliveriesInv, DeliveriesAreSound
<1>. QED
  BY <1>1, DeliveriesStart, DeliveriesStep, PTL DEF DeliveriesSpec

-----------------------------------------------------------------------------
(* A provider behind its adapter *)

\* The native statuses of refunds and transfers, of whichever provider.
RefundNatives ==
  {"pending", "processing", "processed", "failed", "succeeded", "canceled", "completed", "completed-mpgs",
   "PENDING", "COMPLETED", "FAILED", "CANCELLED", "successful"}

RefundRecords == [ours : BOOLEAN, note : {"ours", "other", "none"}, native : RefundNatives]

CallerStates == {"ready", "found-payment", "unknown", "absent", "made", "rejected", "unreadable"}

EventTypes ==
  {"payment.approved", "payment.succeeded", "payment.failed", "refund.succeeded", "refund.failed",
   "payout.succeeded", "payout.failed", "payout.reversed", "unknown"}

ProvidersTyped ==
  /\ adapter \in Adapters
  /\ refunds \in Seq(RefundRecords)
  /\ caller \in [Operations -> CallerStates]
  /\ attempts \in 0..MaxAttempts
  /\ \A e \in heard : e.type \in EventTypes

\* Our refund can be told from others' by its note, unless its provider drops notes.
OursIsLabelled ==
  \A i \in Ours : refunds[i].note = "ours" \/ (refunds[i].note = "none" /\ adapter \in {"paystack", "flutterwave"})

\* Who is about to send a refund knows that there is none, and so does who was rejected.
SendsOnce ==
  /\ \A i, j \in Ours : i = j
  /\ caller["refund"] \in {"ready", "found-payment"} => Ours = {}
  /\ caller["payout"] = "ready" => transfer = "none"

RejectedIsAbsent ==
  /\ caller["refund"] = "rejected" => Ours = {}
  /\ caller["payout"] = "rejected" => transfer = "none"

ProvidersInv == ProvidersTyped /\ OursIsLabelled /\ SendsOnce /\ RejectedIsAbsent

LEMMA EventTypeKnown ==
  ASSUME NEW a, NEW name, NEW to
  PROVE  EventType(a, name, to) \in EventTypes
<1>1. PaystackEventType(name) \in EventTypes
  BY DEF PaystackEventType, EventTypes
<1>2. StripeEventType(name, to) \in EventTypes
  BY DEF StripeEventType, EventTypes
<1>3. FlutterwaveEventType(name, to) \in EventTypes
  BY DEF FlutterwaveEventType, EventTypes
<1>4. PayPalEventType(name, to) \in EventTypes
  BY DEF PayPalEventType, EventTypes
<1>. QED
  BY <1>1, <1>2, <1>3, <1>4 DEF EventType

LEMMA HearTyped ==
  ASSUME NEW kind, NEW number, NEW from, NEW to, Hear(kind, number, from, to),
         \A e \in heard : e.type \in EventTypes
  PROVE  \A e \in heard' : e.type \in EventTypes
<1>. DEFINE name == EventName(adapter, kind, from, to)
            record == <<kind, number>>
            id == EventId(adapter, name, record, to)
            event == [id |-> id, record |-> record, native |-> to, type |-> EventType(adapter, name, to)]
<1>1. heard' = heard \/ heard' = heard \cup {event}
  BY DEF Hear
<1>2. event.type \in EventTypes
  BY EventTypeKnown
<1>. QED
  BY <1>1, <1>2

\* The tables of native statuses.
LEMMA RefundTable ==
  ASSUME NEW a \in Adapters
  PROVE  RefundStarts(a) \subseteq RefundNatives /\ \A m \in RefundMoves(a) : m[2] \in RefundNatives
<1>1. RefundStarts(a) \subseteq RefundNatives
  BY DEF RefundStarts, MockStarts, RefundNatives
<1>2. CASE a = "paystack"
  BY <1>1, <1>2 DEF RefundMoves, RefundNatives
<1>3. CASE a = "stripe"
  BY <1>1, <1>3 DEF RefundMoves, RefundNatives
<1>4. CASE a = "flutterwave"
  BY <1>1, <1>4 DEF RefundMoves, RefundNatives
<1>5. CASE a = "paypal"
  BY <1>1, <1>5 DEF RefundMoves, RefundNatives
<1>6. CASE a = "mock"
  BY <1>1, <1>6 DEF RefundMoves, MockRefundMoves, RefundNatives
<1>. QED
  BY <1>1, <1>2, <1>3, <1>4, <1>5, <1>6 DEF Adapters

\* A payout that was never made has no status to change.
LEMMA NoneDoesNotMove ==
  ASSUME NEW a \in Adapters, NEW m \in TransferMoves(a)
  PROVE  m[1] # "none" /\ m[2] # "none"
<1>1. CASE a = "paystack"
  BY <1>1 DEF TransferMoves
<1>2. CASE a = "stripe"
  BY <1>2 DEF TransferMoves
<1>3. CASE a = "flutterwave"
  BY <1>3 DEF TransferMoves
<1>4. CASE a = "paypal"
  BY <1>4 DEF TransferMoves
<1>5. CASE a = "mock"
  BY <1>5 DEF TransferMoves, MockTransferMoves
<1>. QED
  BY <1>1, <1>2, <1>3, <1>4, <1>5 DEF Adapters

\* A refund is added: ours are the ones before, and the new one if it is ours.
LEMMA RefundAppended ==
  ASSUME refunds \in Seq(RefundRecords), NEW x \in RefundRecords, refunds' = Append(refunds, x)
  PROVE  /\ refunds' \in Seq(RefundRecords)
         /\ \A i \in Ours : i \in Ours' /\ refunds'[i] = refunds[i]
         /\ \A i \in Ours' : i \in Ours \/ (i = Len(refunds) + 1 /\ x.ours /\ refunds'[i] = x)
<1>1. refunds' \in Seq(RefundRecords)
  OBVIOUS
<1>2. /\ DOMAIN refunds = 1..Len(refunds) /\ DOMAIN refunds' = 1..(Len(refunds) + 1)
      /\ \A i \in 1..Len(refunds) : refunds'[i] = refunds[i]
      /\ refunds'[Len(refunds) + 1] = x /\ Len(refunds) \in Nat
  OBVIOUS
<1>3. \A i \in DOMAIN refunds' : i \in DOMAIN refunds \/ i = Len(refunds) + 1
  BY <1>2
<1>4. \A i \in DOMAIN refunds : i \in DOMAIN refunds'
  BY <1>2
<1>. QED
  BY <1>1, <1>2, <1>3, <1>4 DEF Ours

LEMMA RefundMoved ==
  ASSUME refunds \in Seq(RefundRecords), NEW i \in Ours, NEW s \in RefundNatives,
         refunds' = [refunds EXCEPT ![i].native = s]
  PROVE  /\ refunds' \in Seq(RefundRecords) /\ Ours' = Ours
         /\ \A k \in Ours : refunds'[k].note = refunds[k].note
<1>. DEFINE x == [refunds[i] EXCEPT !.native = s]
<1>1. i \in DOMAIN refunds /\ refunds[i] \in RefundRecords
  BY DEF Ours
<1>2. x \in RefundRecords /\ x.ours = refunds[i].ours /\ x.note = refunds[i].note
  BY <1>1 DEF RefundRecords
<1>3. refunds' = [refunds EXCEPT ![i] = x]
  OBVIOUS
<1>. HIDE DEF x
<1>4. refunds' \in Seq(RefundRecords) /\ DOMAIN refunds' = DOMAIN refunds
  BY <1>1, <1>2, <1>3
<1>5. \A k \in DOMAIN refunds : refunds'[k].ours = refunds[k].ours /\ refunds'[k].note = refunds[k].note
  BY <1>1, <1>2, <1>3, <1>4
<1>6. Ours' = Ours
  BY <1>4, <1>5 DEF Ours
<1>. QED
  BY <1>4, <1>5, <1>6 DEF Ours

\* A step that neither moves money nor tells the caller anything.
LEMMA ProvidersKept ==
  ASSUME ProvidersInv, UNCHANGED <<adapter, refunds, transfer, caller>>,
         attempts' \in 0..MaxAttempts, \A e \in heard' : e.type \in EventTypes
  PROVE  ProvidersInv'
<1>1. Ours' = Ours
  BY DEF Ours
<1>. QED
  BY <1>1 DEF ProvidersInv, ProvidersTyped, OursIsLabelled, SendsOnce, RejectedIsAbsent

LEMMA AttemptTyped ==
  ASSUME ProvidersTyped, Attempt
  PROVE  attempts' \in 0..MaxAttempts
  BY ProvidersAssumption DEF ProvidersTyped, Attempt

LEMMA PaymentChangesInv ==
  ASSUME ProvidersInv, PaymentChanges \/ Capture
  PROVE  ProvidersInv'
<1>1. UNCHANGED <<adapter, refunds, transfer, caller>>
  BY DEF PaymentChanges, Capture
<1>2. attempts' \in 0..MaxAttempts
  BY AttemptTyped DEF PaymentChanges, Capture, ProvidersInv, ProvidersTyped
<1>3. \A e \in heard' : e.type \in EventTypes
  <2>1. (\E s : Hear("payment", 1, payment, s)) \/ UNCHANGED heard
    BY DEF PaymentChanges, Capture
  <2>. QED
    BY <2>1, HearTyped DEF ProvidersInv, ProvidersTyped
<1>. QED
  BY <1>1, <1>2, <1>3, ProvidersKept

LEMMA RefundChangesInv ==
  ASSUME ProvidersInv, RefundChanges
  PROVE  ProvidersInv'
<1>0. PICK i \in Ours : \E s \in {m[2] : m \in {n \in RefundMoves(adapter) : n[1] = refunds[i].native}} :
        /\ refunds' = [refunds EXCEPT ![i].native = s]
        /\ Hear("refund", i, refunds[i].native, s)
        /\ UNCHANGED <<adapter, payment, transfer, caller, attempts>>
  BY DEF RefundChanges
<1>1. PICK s \in {m[2] : m \in {n \in RefundMoves(adapter) : n[1] = refunds[i].native}} :
        /\ refunds' = [refunds EXCEPT ![i].native = s]
        /\ Hear("refund", i, refunds[i].native, s)
        /\ UNCHANGED <<adapter, payment, transfer, caller, attempts>>
  BY <1>0
<1>2. refunds \in Seq(RefundRecords) /\ adapter \in Adapters /\ \A e \in heard : e.type \in EventTypes
  BY DEF ProvidersInv, ProvidersTyped
<1>3. s \in RefundNatives
  BY <1>2, RefundTable
<1>4. /\ refunds' \in Seq(RefundRecords) /\ Ours' = Ours
      /\ \A k \in Ours : refunds'[k].note = refunds[k].note
  BY <1>1, <1>2, <1>3, RefundMoved
<1>5. \A e \in heard' : e.type \in EventTypes
  BY <1>1, <1>2, HearTyped
<1>. QED
  BY <1>1, <1>4, <1>5 DEF ProvidersInv, ProvidersTyped, OursIsLabelled, SendsOnce, RejectedIsAbsent

LEMMA TransferChangesInv ==
  ASSUME ProvidersInv, TransferChanges
  PROVE  ProvidersInv'
<1>1. PICK m \in TransferMoves(adapter) :
        /\ m[1] = transfer /\ transfer' = m[2]
        /\ Hear("payout", 1, transfer, m[2])
        /\ UNCHANGED <<adapter, payment, refunds, caller, attempts>>
  BY DEF TransferChanges
<1>2. adapter \in Adapters /\ \A e \in heard : e.type \in EventTypes
  BY DEF ProvidersInv, ProvidersTyped
<1>3. transfer # "none" /\ Ours' = Ours
  BY <1>1, <1>2, NoneDoesNotMove DEF Ours
<1>4. \A e \in heard' : e.type \in EventTypes
  BY <1>1, <1>2, HearTyped
<1>. QED
  BY <1>1, <1>3, <1>4 DEF ProvidersInv, ProvidersTyped, OursIsLabelled, SendsOnce, RejectedIsAbsent

LEMMA RefundedByOthersInv ==
  ASSUME ProvidersInv, RefundedByOthers
  PROVE  ProvidersInv'
<1>1. PICK note \in {"other", "none"}, native \in RefundStarts(adapter) :
        refunds' = Append(refunds, [ours |-> FALSE, note |-> note, native |-> native])
  BY DEF RefundedByOthers
<1>2. UNCHANGED <<adapter, payment, transfer, heard, caller, attempts>>
  BY DEF RefundedByOthers
<1>. DEFINE x == [ours |-> FALSE, note |-> note, native |-> native]
<1>3. refunds \in Seq(RefundRecords) /\ adapter \in Adapters
  BY DEF ProvidersInv, ProvidersTyped
<1>4. x \in RefundRecords /\ ~x.ours
  BY <1>3, RefundTable DEF RefundRecords
<1>. HIDE DEF x
<1>5. refunds' = Append(refunds, x)
  BY <1>1 DEF x
<1>6. /\ refunds' \in Seq(RefundRecords)
      /\ \A i \in Ours : i \in Ours' /\ refunds'[i] = refunds[i]
      /\ \A i \in Ours' : i \in Ours
  BY <1>3, <1>4, <1>5, RefundAppended
<1>7. Ours' = Ours
  BY <1>6
<1>. QED
  BY <1>2, <1>6, <1>7 DEF ProvidersInv, ProvidersTyped, OursIsLabelled, SendsOnce, RejectedIsAbsent

\* What is classified as a rejection was refused.
LEMMA RejectionIsRefusal ==
  ASSUME NEW r \in Responses, Classify(r) = "rejected"
  PROVE  ~MayAct(r)
<1>1. Responses \subseteq HttpResponses \cup {"200-refused"}
  BY DEF Responses, PaystackResponses, FlutterwaveResponses, StripeResponses, PayPalResponses, MockResponses,
         HttpResponses
<1>2. r \in {"200", "200-unreadable", "4xx", "429", "429-unreadable", "5xx", "no-answer", "200-refused"}
  BY <1>1 DEF HttpResponses
<1>. QED
  BY <1>2 DEF Classify, MayAct

LEMMA ClassifyCases ==
  ASSUME NEW r
  PROVE  Classify(r) \in {"answered", "retryable", "unreadable", "rejected"}
  BY DEF Classify

\* The caller learns something of one operation.
LEMMA KnowsTyped ==
  ASSUME ProvidersTyped, NEW k \in Operations, NEW what \in CallerStates, Knows(k, what)
  PROVE  /\ caller' \in [Operations -> CallerStates] /\ caller'[k] = what
         /\ \A l \in Operations : l # k => caller'[l] = caller[l]
  BY DEF ProvidersTyped, Knows

LEMMA OperationsDiffer == "refund" \in Operations /\ "payout" \in Operations
  BY DEF Operations

LEMMA RefundLookupInv ==
  ASSUME ProvidersInv, RefundLookup
  PROVE  ProvidersInv'
<1>1. caller["refund"] = "ready" /\ UNCHANGED <<adapter, refunds, transfer, heard>> /\ Attempt
  BY DEF RefundLookup, records
<1>2. attempts' \in 0..MaxAttempts /\ Ours' = Ours /\ Ours = {}
  BY <1>1, AttemptTyped DEF ProvidersInv, SendsOnce, Ours
<1>3. CASE UNCHANGED caller
  BY <1>1, <1>2, <1>3, ProvidersKept DEF ProvidersInv, ProvidersTyped
<1>4. ASSUME NEW what \in {"found-payment", "unreadable", "rejected"}, Knows("refund", what) PROVE ProvidersInv'
  <2>1. /\ caller' \in [Operations -> CallerStates] /\ caller'["refund"] = what
        /\ caller'["payout"] = caller["payout"]
    BY <1>4, KnowsTyped, OperationsDiffer DEF ProvidersInv, CallerStates
  <2>. QED
    BY <1>1, <1>2, <2>1 DEF ProvidersInv, ProvidersTyped, OursIsLabelled, SendsOnce, RejectedIsAbsent
<1>5. UNCHANGED caller \/ \E what \in {"found-payment", "unreadable", "rejected"} : Knows("refund", what)
  BY ClassifyCases DEF RefundLookup
<1>. QED
  BY <1>3, <1>4, <1>5

LEMMA RefundPostInv ==
  ASSUME ProvidersInv, RefundPost
  PROVE  ProvidersInv'
<1>1. /\ caller["refund"] \in {"ready", "found-payment"} /\ Attempt
      /\ UNCHANGED <<adapter, payment, transfer, heard>>
  BY DEF RefundPost
<1>2. attempts' \in 0..MaxAttempts /\ Ours = {} /\ refunds \in Seq(RefundRecords) /\ adapter \in Adapters
  BY <1>1, AttemptTyped DEF ProvidersInv, ProvidersTyped, SendsOnce
<1>3. PICK r \in Responses :
        /\ (MayAct(r) /\ CreateRefund) \/ (MayNotAct(r) /\ UNCHANGED refunds)
        /\ Knows("refund", CASE Classify(r) = "answered" -> "made"
                             [] Classify(r) = "retryable" -> "unknown"
                             [] OTHER -> Classify(r))
  BY DEF RefundPost
<1>4. PICK what \in {"made", "unknown", "unreadable", "rejected"} :
        Knows("refund", what) /\ (what = "rejected" => Classify(r) = "rejected")
  BY <1>3, ClassifyCases
<1>5. /\ caller' \in [Operations -> CallerStates] /\ caller'["refund"] = what
      /\ caller'["payout"] = caller["payout"]
  BY <1>4, KnowsTyped, OperationsDiffer DEF ProvidersInv, CallerStates
<1>6. CASE UNCHANGED refunds
  <2>1. Ours' = Ours
    BY <1>6 DEF Ours
  <2>. QED
    BY <1>1, <1>2, <1>5, <1>6, <2>1 DEF ProvidersInv, ProvidersTyped, OursIsLabelled, SendsOnce, RejectedIsAbsent
<1>7. CASE MayAct(r) /\ CreateRefund
  <2>1. PICK note \in {"ours", "none"}, native \in RefundStarts(adapter) :
          /\ refunds' = Append(refunds, [ours |-> TRUE, note |-> note, native |-> native])
          /\ note = "none" => adapter \in {"paystack", "flutterwave"}
    BY <1>2, <1>7 DEF CreateRefund
  <2>. DEFINE x == [ours |-> TRUE, note |-> note, native |-> native]
  <2>2. x \in RefundRecords /\ x.note = note
    BY <1>2, RefundTable DEF RefundRecords
  <2>. HIDE DEF x
  <2>3. refunds' = Append(refunds, x)
    BY <2>1 DEF x
  <2>4. /\ refunds' \in Seq(RefundRecords)
        /\ \A i \in Ours' : i = Len(refunds) + 1 /\ refunds'[i] = x
    BY <1>2, <2>2, <2>3, RefundAppended
  <2>5. OursIsLabelled' /\ \A i, j \in Ours' : i = j
    BY <1>1, <2>1, <2>2, <2>4 DEF OursIsLabelled
  <2>6. what # "rejected"
    BY <1>4, <1>7, RejectionIsRefusal
  <2>. QED
    BY <1>1, <1>2, <1>5, <2>4, <2>5, <2>6 DEF ProvidersInv, ProvidersTyped, SendsOnce, RejectedIsAbsent
<1>. QED
  BY <1>3, <1>6, <1>7

\* findRefund: null means that there is no refund of ours.
LEMMA NullMeansNone ==
  ASSUME ProvidersInv, FoundRefund = "null"
  PROVE  Ours = {}
<1>1. SUFFICES ASSUME NEW i \in Ours PROVE FALSE
  OBVIOUS
<1>2. /\ i \in DOMAIN refunds /\ refunds \in Seq(RefundRecords) /\ adapter \in Adapters
      /\ refunds[i].note = "ours" \/ (refunds[i].note = "none" /\ adapter \in {"paystack", "flutterwave"})
  BY DEF ProvidersInv, ProvidersTyped, OursIsLabelled, Ours
<1>3. Labelled(refunds, "ours") \/ (Labelled(refunds, "none") /\ adapter \in {"paystack", "flutterwave"})
  BY <1>2 DEF Labelled
<1>4. PickOurRefund(refunds) # "null"
  BY <1>3 DEF PickOurRefund, Labelled, OursIsLabelled, ProvidersInv
<1>5. CASE adapter \in {"paystack", "flutterwave"}
  BY <1>4, <1>5 DEF FoundRefund, PaystackFindRefund, FlutterwaveFindRefund
<1>6. CASE adapter = "stripe"
  <2>1. ~MorePages /\ ~Labelled(FirstPage, "ours")
    BY <1>6 DEF FoundRefund, StripeFindRefund
  <2>2. Len(refunds) <= PageSize /\ Len(refunds) \in Nat /\ DOMAIN refunds = 1..Len(refunds)
    BY <1>2, <2>1, ProvidersAssumption DEF MorePages
  <2>3. FirstPage = SubSeq(refunds, 1, Len(refunds))
    <3>. DEFINE l == Len(refunds)
    <3>2. PageSize \in Nat /\ l \in Nat /\ l <= PageSize
      BY <2>2, ProvidersAssumption
    <3>. HIDE DEF l
    <3>3. (IF l < PageSize THEN l ELSE PageSize) = l
      BY <3>2
    <3>1. (IF Len(refunds) < PageSize THEN Len(refunds) ELSE PageSize) = Len(refunds)
      BY <3>3 DEF l
    <3>. QED
      BY <3>1 DEF FirstPage
  <2>4. FirstPage[i] = refunds[i] /\ i \in DOMAIN FirstPage
    BY <1>2, <2>2, <2>3
  <2>. QED
    BY <1>2, <1>6, <2>1, <2>4 DEF Labelled
<1>7. CASE adapter \in {"paypal", "mock"}
  BY <1>3, <1>7 DEF FoundRefund, PayPalFindRefund, MockFindRefund
<1>. QED
  BY <1>2, <1>5, <1>6, <1>7 DEF Adapters

LEMMA FindRefundInv ==
  ASSUME ProvidersInv, FindRefund
  PROVE  ProvidersInv'
<1>1. UNCHANGED <<adapter, refunds, transfer, heard>> /\ Attempt
  BY DEF FindRefund, records
<1>2. attempts' \in 0..MaxAttempts /\ Ours' = Ours
  BY <1>1, AttemptTyped DEF ProvidersInv, Ours
<1>3. CASE UNCHANGED caller
  BY <1>1, <1>2, <1>3, ProvidersKept DEF ProvidersInv, ProvidersTyped
<1>4. ASSUME NEW what \in {"made", "ready", "unknown"}, Knows("refund", what), what = "ready" => FoundRefund = "null"
      PROVE  ProvidersInv'
  <2>1. /\ caller' \in [Operations -> CallerStates] /\ caller'["refund"] = what
        /\ caller'["payout"] = caller["payout"]
    BY <1>4, KnowsTyped, OperationsDiffer DEF ProvidersInv, CallerStates
  <2>2. what = "ready" => Ours = {}
    BY <1>4, NullMeansNone
  <2>. QED
    BY <1>1, <1>2, <2>1, <2>2 DEF ProvidersInv, ProvidersTyped, OursIsLabelled, SendsOnce, RejectedIsAbsent
<1>5. \/ UNCHANGED caller
      \/ \E what \in {"made", "ready", "unknown"} : Knows("refund", what) /\ (what = "ready" => FoundRefund = "null")
  BY DEF FindRefund
<1>. QED
  BY <1>3, <1>4, <1>5

LEMMA InitiateInv ==
  ASSUME ProvidersInv, Initiate
  PROVE  ProvidersInv'
<1>1. caller["payout"] \in {"ready", "absent"} /\ Attempt /\ UNCHANGED <<adapter, payment, refunds, heard>>
  BY DEF Initiate
<1>2. attempts' \in 0..MaxAttempts /\ Ours' = Ours
  BY <1>1, AttemptTyped DEF ProvidersInv, Ours
<1>3. PICK r \in Responses :
        /\ MayAct(r) \/ (MayNotAct(r) /\ UNCHANGED transfer)
        /\ Knows("payout", CASE Classify(r) = "answered" -> "made"
                             [] Classify(r) \in {"rejected", "unreadable"} /\ caller["payout"] = "ready" -> Classify(r)
                             [] OTHER -> "unknown")
  BY DEF Initiate
<1>4. PICK what \in {"made", "unreadable", "rejected", "unknown"} :
        /\ Knows("payout", what)
        /\ what = "rejected" => Classify(r) = "rejected" /\ caller["payout"] = "ready"
  <2>. DEFINE said == CASE Classify(r) = "answered" -> "made"
                        [] Classify(r) \in {"rejected", "unreadable"} /\ caller["payout"] = "ready" -> Classify(r)
                        [] OTHER -> "unknown"
  <2>1. Knows("payout", said)
    BY <1>3
  <2>2. said \in {"made", "unreadable", "rejected", "unknown"}
    BY ClassifyCases
  <2>3. said = "rejected" => Classify(r) = "rejected" /\ caller["payout"] = "ready"
    BY ClassifyCases
  <2>. HIDE DEF said
  <2>. QED
    BY <2>1, <2>2, <2>3
<1>5. /\ caller' \in [Operations -> CallerStates] /\ caller'["payout"] = what
      /\ caller'["refund"] = caller["refund"]
  <2>1. what \in CallerStates /\ ProvidersTyped /\ Knows("payout", what)
    BY <1>4 DEF ProvidersInv, CallerStates
  <2>. QED
    BY <2>1, KnowsTyped, OperationsDiffer
<1>6. what = "rejected" => transfer' = "none"
  BY <1>3, <1>4, RejectionIsRefusal DEF ProvidersInv, SendsOnce
<1>. QED
  BY <1>1, <1>2, <1>5, <1>6 DEF ProvidersInv, ProvidersTyped, OursIsLabelled, SendsOnce, RejectedIsAbsent

LEMMA FindPayoutInv ==
  ASSUME ProvidersInv, FindPayout
  PROVE  ProvidersInv'
<1>1. UNCHANGED <<adapter, refunds, transfer, heard>> /\ Attempt
  BY DEF FindPayout, records
<1>2. attempts' \in 0..MaxAttempts /\ Ours' = Ours
  BY <1>1, AttemptTyped DEF ProvidersInv, Ours
<1>3. CASE UNCHANGED caller
  BY <1>1, <1>2, <1>3, ProvidersKept DEF ProvidersInv, ProvidersTyped
<1>4. CASE Knows("payout", FoundPayout)
  <2>1. FoundPayout \in {"absent", "made"}
    BY DEF FoundPayout, PaystackFindTransfer, FlutterwaveFindTransfer, PayPalFindPayout, MockFindPayout
  <2>2. /\ caller' \in [Operations -> CallerStates] /\ caller'["payout"] \in {"absent", "made"}
        /\ caller'["refund"] = caller["refund"]
    BY <1>4, <2>1, KnowsTyped, OperationsDiffer DEF ProvidersInv, CallerStates
  <2>. QED
    BY <1>1, <1>2, <2>2 DEF ProvidersInv, ProvidersTyped, OursIsLabelled, SendsOnce, RejectedIsAbsent
<1>. QED
  BY <1>3, <1>4 DEF FindPayout

LEMMA ProvidersStep ==
  ASSUME ProvidersInv, [ProvidersNext]_providerVars
  PROVE  ProvidersInv'
<1>1. CASE UNCHANGED providerVars
  BY <1>1, ProvidersKept DEF providerVars, ProvidersInv, ProvidersTyped
<1>. QED
  BY <1>1, PaymentChangesInv, RefundChangesInv, TransferChangesInv, RefundedByOthersInv, RefundLookupInv,
     RefundPostInv, FindRefundInv, InitiateInv, FindPayoutInv DEF ProvidersNext

LEMMA ProvidersStart == ProvidersInit => ProvidersInv
<1>. SUFFICES ASSUME ProvidersInit PROVE ProvidersInv
  OBVIOUS
<1>1. Ours = {} /\ transfer = "none"
  BY DEF ProvidersInit, Ours
<1>2. ProvidersTyped
  BY ProvidersAssumption DEF ProvidersInit, ProvidersTyped, CallerStates
<1>. QED
  BY <1>1, <1>2 DEF ProvidersInv, OursIsLabelled, SendsOnce, RejectedIsAbsent

\* The adapters: whatever the provider's answers and however they are lost, for any page
\* size, number of other refunds and number of requests, our refund is made at most once.
THEOREM RefundMadeOnce == ProvidersSpec => []RefundedOnce
<1>1. ProvidersInv => RefundedOnce
  <2>. SUFFICES ASSUME ProvidersInv PROVE Cardinality(Ours) <= 1
    BY DEF RefundedOnce
  <2>1. \A i, j \in Ours : i = j
    BY DEF ProvidersInv, SendsOnce
  <2>2. Ours = {} \/ \E i : Ours = {i}
    BY <2>1
  <2>3. Cardinality(Ours) = 0 \/ Cardinality(Ours) = 1
    BY <2>2, FS_EmptySet, FS_Singleton
  <2>. QED
    BY <2>3
<1>. QED
  BY <1>1, ProvidersStart, ProvidersStep, PTL DEF ProvidersSpec

\* The adapters and their callers: moreover, what the provider refuses, with an error or in
\* the body of a success, it has not made.  (Not so what it answers with a body that cannot
\* be read: NonRetryableIsNotMade is violated.)
THEOREM RequestsOnce == ProvidersSpec => []RequestsMadeOnce
<1>1. ProvidersInv => ProvidersTypeOK /\ RejectedIsNotMade
  <2>. SUFFICES ASSUME ProvidersInv PROVE ProvidersTypeOK /\ RejectedIsNotMade
    OBVIOUS
  <2>1. \A i \in DOMAIN refunds : refunds[i].note \in {"ours", "other", "none"}
    <3>1. \A i \in DOMAIN refunds : refunds[i] \in RefundRecords
      BY DEF ProvidersInv, ProvidersTyped
    <3>. QED
      BY <3>1 DEF RefundRecords
  <2>2. ProvidersTypeOK
    BY <2>1 DEF ProvidersInv, ProvidersTyped, ProvidersTypeOK, CallerStates, EventTypes
  <2>3. RejectedIsNotMade
    BY DEF ProvidersInv, RejectedIsAbsent, RejectedIsNotMade, Made, Operations
  <2>. QED
    BY <2>2, <2>3
<1>2. ProvidersTypeOK /\ RejectedIsNotMade /\ RefundedOnce => RequestsMadeOnce
  BY DEF RequestsMadeOnce
<1>. QED
  BY <1>1, <1>2, ProvidersStart, ProvidersStep, RefundMadeOnce, PTL DEF ProvidersSpec

-----------------------------------------------------------------------------
(* A provider's outcomes *)

\* The conversions of each adapter respect the ways in which native statuses change.
LEMMA TransferOutcomesStick ==
  ASSUME NEW a \in Adapters, a # "mock", NEW m \in TransferMoves(a)
  PROVE  \/ PayoutStatus(a, m[1]) = "pending"
         \/ PayoutStatus(a, m[2]) = PayoutStatus(a, m[1])
         \/ PayoutStatus(a, m[1]) = "successful" /\ PayoutStatus(a, m[2]) = "reversed"
<1>1. CASE a = "paystack"
  BY <1>1 DEF TransferMoves, PayoutStatus, PaystackTransfer
<1>2. CASE a = "stripe"
  BY <1>2 DEF TransferMoves
<1>3. CASE a = "flutterwave"
  BY <1>3 DEF TransferMoves, PayoutStatus, FlutterwaveTransfer
<1>4. CASE a = "paypal"
  BY <1>4 DEF TransferMoves, PayoutStatus, PayPalTransfer
<1>. QED
  BY <1>1, <1>2, <1>3, <1>4 DEF Adapters

LEMMA RefundOutcomesStick ==
  ASSUME NEW a \in Adapters, a # "mock", NEW m \in RefundMoves(a)
  PROVE  RefundStatus(a, m[1]) = "pending"
<1>1. CASE a = "paystack"
  BY <1>1 DEF RefundMoves, RefundStatus, PaystackRefund
<1>2. CASE a = "stripe"
  BY <1>2 DEF RefundMoves, RefundStatus, StripeRefund
<1>3. CASE a = "flutterwave"
  BY <1>3 DEF RefundMoves, RefundStatus, FlutterwaveRefund
<1>4. CASE a = "paypal"
  BY <1>4 DEF RefundMoves, RefundStatus, PayPalRefund
<1>. QED
  BY <1>1, <1>2, <1>3, <1>4 DEF Adapters

\* A charge that was collected stays collected in the listings.
LEMMA CollectedSticks ==
  ASSUME NEW a \in Adapters, a # "mock", NEW m \in PaymentMoves(a),
         Listed(a, m[1]) \in {"successful", "refunded"}
  PROVE  Listed(a, m[2]) \in {"successful", "refunded"}
<1>1. CASE a = "paystack"
  <2>1. m \in {<<"pending", "success">>, <<"pending", "failed">>,
         <<"pending", "abandoned">>, <<"abandoned", "success">>,
         <<"success", "reversal-pending">>, <<"reversal-pending", "reversed">>}
    BY <1>1 DEF PaymentMoves
  <2>2. m[2] \notin {"success", "reversal-pending", "reversed"} => m[1] = "pending"
    BY <2>1
  <2>3. \A s : Listed(a, s) = PaystackListed(s)
    BY <1>1 DEF Listed
  <2>4. PaystackListed(m[2]) \in {"successful", "refunded"}
    BY <2>2, <2>3 DEF PaystackListed
  <2>. QED
    BY <2>3, <2>4
<1>2. CASE a = "stripe"
  <2>1. m \in {<<"open-unpaid", "complete-paid">>, <<"open-unpaid", "expired-unpaid">>,
         <<"open-unpaid", "complete-unpaid">>, <<"complete-unpaid", "complete-paid">>}
    BY <1>2 DEF PaymentMoves
  <2>2. m[1] \in {"open-unpaid", "complete-unpaid"}
    BY <2>1
  <2>3. Listed(a, m[1]) = StripeStatus(m[1])
    BY <1>2 DEF Listed, PaymentStatus
  <2>. QED
    BY <2>2, <2>3 DEF StripeStatus
<1>3. CASE a = "flutterwave"
  BY <1>3 DEF PaymentMoves, Listed, PaymentStatus, FlutterwaveStatus
<1>4. CASE a = "paypal"
  BY <1>4 DEF PaymentMoves, Listed, PaymentStatus, PayPalStatus
<1>. QED
  BY <1>1, <1>2, <1>3, <1>4 DEF Adapters

\* A verified success ends in a reversal only, a failure in an abandoned charge's success only.
LEMMA VerifiedSticks ==
  ASSUME NEW a \in Adapters, a # "mock", NEW m \in PaymentMoves(a)
  PROVE  /\ PaymentStatus(a, m[1]) = "successful" =>
              PaymentStatus(a, m[2]) = "successful" \/ m[2] = "reversal-pending"
         /\ PaymentStatus(a, m[1]) = "failed" => PaymentStatus(a, m[2]) = "failed" \/ m[1] = "abandoned"
<1>1. CASE a = "paystack"
  <2>1. \A s : PaymentStatus(a, s) = PaystackStatus(s)
    BY <1>1 DEF PaymentStatus
  <2>2. \/ m[1] = "pending"
        \/ m[1] = "abandoned"
        \/ m[1] = "success" /\ m[2] = "reversal-pending"
        \/ m[1] = "reversal-pending"
    BY <1>1 DEF PaymentMoves
  <2>3. PaystackStatus("pending") = "pending" /\ PaystackStatus("reversal-pending") = "pending"
        /\ PaystackStatus("success") = "successful" /\ PaystackStatus("abandoned") = "failed"
    BY DEF PaystackStatus
  <2>. QED
    BY <2>1, <2>2, <2>3
<1>2. CASE a = "stripe"
  <2>1. m[1] \in {"open-unpaid", "complete-unpaid"}
    BY <1>2 DEF PaymentMoves
  <2>2. PaymentStatus(a, m[1]) = "pending"
    BY <1>2, <2>1 DEF PaymentStatus, StripeStatus
  <2>. QED
    BY <2>2
<1>3. CASE a = "flutterwave"
  BY <1>3 DEF PaymentMoves, PaymentStatus, FlutterwaveStatus
<1>4. CASE a = "paypal"
  BY <1>4 DEF PaymentMoves, PaymentStatus, PayPalStatus
<1>. QED
  BY <1>1, <1>2, <1>3, <1>4 DEF Adapters

\* An outcome of a payout has an event of its own, of a type that is acted on.
LEMMA OutcomeHasEvent ==
  ASSUME NEW a \in Adapters, NEW m \in TransferMoves(a),
         PayoutStatus(a, m[2]) # "pending", m[2] # "abandoned"
  PROVE  LET name == EventName(a, "payout", m[1], m[2])
         IN  name # "unreported" /\ EventType(a, name, m[2]) # "unknown"
<1>1. CASE a = "paystack"
  BY <1>1 DEF TransferMoves, PayoutStatus, PaystackTransfer, EventName, EventType, PaystackEventType
<1>2. CASE a = "stripe"
  BY <1>2 DEF TransferMoves
<1>3. CASE a = "flutterwave"
  BY <1>3 DEF TransferMoves, PayoutStatus, FlutterwaveTransfer, EventName, EventType, FlutterwaveEventType
<1>4. CASE a = "paypal"
  BY <1>4 DEF TransferMoves, PayoutStatus, PayPalTransfer, EventName, EventType, PayPalEventType
<1>5. CASE a = "mock"
  BY <1>5 DEF TransferMoves, MockTransferMoves, PayoutStatus, EventName, EventType, PaystackEventType
<1>. QED
  BY <1>1, <1>2, <1>3, <1>4, <1>5 DEF Adapters

\* Two changes of a payout that Paystack reports by one name are to one status.
LEMMA PaystackNamesDiffer ==
  ASSUME NEW a, a = "paystack", NEW m \in TransferMoves(a), NEW n \in TransferMoves(a),
         EventName(a, "payout", m[1], m[2]) = EventName(a, "payout", n[1], n[2]),
         EventName(a, "payout", m[1], m[2]) # "unreported"
  PROVE  m[2] = n[2]
<1>1. TransferMoves(a) = {<<"pending", "otp">>, <<"pending", "failed">>, <<"pending", "success">>,
         <<"otp", "success">>, <<"otp", "abandoned">>, <<"success", "reversed">>}
  BY DEF TransferMoves
<1>2. ASSUME NEW x \in TransferMoves(a)
      PROVE  x[2] \in {"otp", "failed", "success", "abandoned", "reversed"}
  <2>1. \/ x = <<"pending", "otp">> \/ x = <<"pending", "failed">> \/ x = <<"pending", "success">>
        \/ x = <<"otp", "success">> \/ x = <<"otp", "abandoned">> \/ x = <<"success", "reversed">>
    BY <1>1
  <2>. QED
    BY <2>1
<1>3. \A from, to : to \in {"otp", "failed", "success", "abandoned", "reversed"} =>
         EventName(a, "payout", from, to) =
           (CASE to = "success" -> "transfer.success" [] to = "failed" -> "transfer.failed"
              [] to = "reversed" -> "transfer.reversed" [] OTHER -> "unreported")
  BY DEF EventName
<1>4. m[2] \in {"otp", "failed", "success", "abandoned", "reversed"} /\ n[2] \in {"otp", "failed", "success", "abandoned", "reversed"}
  BY <1>2
<1>5. /\ EventName(a, "payout", m[1], m[2]) =
           (CASE m[2] = "success" -> "transfer.success" [] m[2] = "failed" -> "transfer.failed"
              [] m[2] = "reversed" -> "transfer.reversed" [] OTHER -> "unreported")
      /\ EventName(a, "payout", n[1], n[2]) =
           (CASE n[2] = "success" -> "transfer.success" [] n[2] = "failed" -> "transfer.failed"
              [] n[2] = "reversed" -> "transfer.reversed" [] OTHER -> "unreported")
  BY <1>3, <1>4
<1>. QED
  BY <1>4, <1>5

LEMMA EventIdParts ==
  ASSUME NEW a, NEW name, NEW record, NEW to
  PROVE  LET id == EventId(a, name, record, to)
         IN  id[1] = name /\ id[2] = record /\ (a # "paystack" => id[3] = to)
BY DEF EventId

\* What was heard of payouts was made of their changes.
PayoutsHeard ==
  \A e \in heard :
    /\ e.id[2] = e.record
    /\ e.record[1] = "payout" =>
         \E m \in TransferMoves(adapter) :
           /\ e.native = m[2] /\ e.id[1] # "unreported" /\ e.id[1] = EventName(adapter, "payout", m[1], m[2])
           /\ e.type = EventType(adapter, e.id[1], m[2])
           /\ adapter # "paystack" => e.id[3] = m[2]

LEMMA HearOther ==
  ASSUME PayoutsHeard, NEW kind \in {"payment", "refund"}, NEW number, NEW from, NEW to,
         Hear(kind, number, from, to), UNCHANGED adapter
  PROVE  PayoutsHeard'
<1>. DEFINE name == EventName(adapter, kind, from, to)
            record == <<kind, number>>
            id == EventId(adapter, name, record, to)
            event == [id |-> id, record |-> record, native |-> to, type |-> EventType(adapter, name, to)]
<1>1. heard' = heard \/ heard' = heard \cup {event}
  BY DEF Hear
<1>2. event.id = id /\ event.record = record /\ event.record[1] # "payout"
  OBVIOUS
<1>3. id[1] = name /\ id[2] = record /\ (adapter # "paystack" => id[3] = to)
  BY EventIdParts
<1>. HIDE DEF event
<1>. QED
  BY <1>1, <1>2, <1>3 DEF PayoutsHeard

LEMMA HearPayout ==
  ASSUME PayoutsHeard, adapter \in Adapters, NEW m \in TransferMoves(adapter),
         Hear("payout", 1, m[1], m[2]), UNCHANGED adapter
  PROVE  /\ PayoutsHeard'
         /\ PayoutStatus(adapter, m[2]) # "pending" /\ m[2] # "abandoned" =>
              \E e \in heard' : e.record[1] = "payout" /\ e.native = m[2] /\ e.type # "unknown"
<1>. DEFINE name == EventName(adapter, "payout", m[1], m[2])
            record == <<"payout", 1>>
            id == EventId(adapter, name, record, m[2])
            event == [id |-> id, record |-> record, native |-> m[2], type |-> EventType(adapter, name, m[2])]
<1>1. heard' = IF name = "unreported" \/ \E e \in heard : e.id = id THEN heard ELSE heard \cup {event}
  BY DEF Hear
<1>2. /\ event.id = id /\ event.record = record /\ event.native = m[2] /\ event.record[1] = "payout"
      /\ event.type = EventType(adapter, name, m[2])
  OBVIOUS
<1>3. id[1] = name /\ id[2] = record /\ (adapter # "paystack" => id[3] = m[2])
  BY EventIdParts
<1>. HIDE DEF event
<1>4. PayoutsHeard'
  <2>1. CASE heard' = heard
    BY <2>1 DEF PayoutsHeard
  <2>2. CASE name # "unreported" /\ heard' = heard \cup {event}
    <3>1. SUFFICES ASSUME NEW e \in heard'
                   PROVE  /\ e.id[2] = e.record
                          /\ e.record[1] = "payout" =>
                               \E n \in TransferMoves(adapter) :
                                 /\ e.native = n[2] /\ e.id[1] # "unreported" /\ e.id[1] = EventName(adapter, "payout", n[1], n[2])
                                 /\ e.type = EventType(adapter, e.id[1], n[2])
                                 /\ adapter # "paystack" => e.id[3] = n[2]
      BY DEF PayoutsHeard
    <3>2. CASE e \in heard
      BY <3>2 DEF PayoutsHeard
    <3>3. CASE e = event
      BY <1>2, <1>3, <2>2, <3>3
    <3>. QED
      BY <2>2, <3>2, <3>3
  <2>. QED
    BY <1>1, <2>1, <2>2
<1>5. ASSUME PayoutStatus(adapter, m[2]) # "pending", m[2] # "abandoned"
      PROVE  \E e \in heard' : e.record[1] = "payout" /\ e.native = m[2] /\ e.type # "unknown"
  <2>1. name # "unreported" /\ EventType(adapter, name, m[2]) # "unknown"
    BY <1>5, OutcomeHasEvent
  <2>2. CASE \E e \in heard : e.id = id
    <3>1. PICK e \in heard : e.id = id
      BY <2>2
    <3>2. e.record = record /\ record[1] = "payout" /\ e.id[1] = name
      BY <1>3, <3>1 DEF PayoutsHeard
    <3>3. PICK n \in TransferMoves(adapter) :
            /\ e.native = n[2] /\ e.id[1] # "unreported" /\ e.id[1] = EventName(adapter, "payout", n[1], n[2])
            /\ e.type = EventType(adapter, e.id[1], n[2])
            /\ adapter # "paystack" => e.id[3] = n[2]
      BY <3>2 DEF PayoutsHeard
    <3>4. EventName(adapter, "payout", n[1], n[2]) = name
      BY <3>2, <3>3
    <3>5. n[2] = m[2]
      <4>1. CASE adapter = "paystack"
        BY <2>1, <3>3, <3>4, <4>1, PaystackNamesDiffer
      <4>2. CASE adapter # "paystack"
        BY <1>3, <3>1, <3>3, <4>2
      <4>. QED
        BY <4>1, <4>2
    <3>6. heard' = heard
      BY <1>1, <2>2
    <3>7. e.record[1] = "payout" /\ e.native = m[2] /\ e.type # "unknown"
      BY <2>1, <3>2, <3>3, <3>5
    <3>. QED
      BY <3>6, <3>7
  <2>3. CASE ~\E e \in heard : e.id = id
    BY <1>1, <1>2, <2>1, <2>3
  <2>. QED
    BY <2>2, <2>3
<1>. QED
  BY <1>4, <1>5

\* A step that leaves the payment, the refunds and the payout as they are, or adds refunds.
LEMMA OutcomesKept ==
  ASSUME UNCHANGED <<adapter, payment, transfer>>, \A i \in Ours : refunds'[i] = refunds[i]
  PROVE  PayoutSticks /\ RefundsStick /\ PaymentSticks /\ OutcomeIsHeard
  BY DEF PayoutSticks, RefundsStick, PaymentSticks, OutcomeIsHeard

LEMMA PayoutsHeardKept ==
  ASSUME PayoutsHeard, UNCHANGED <<adapter, heard>>
  PROVE  PayoutsHeard'
  BY DEF PayoutsHeard

Outcomes ==
  PayoutsHeard' /\ OutcomeIsHeard /\ (adapter # "mock" => PayoutSticks /\ RefundsStick /\ PaymentSticks)

LEMMA PaymentChangesOutcomes ==
  ASSUME ProvidersInv, PayoutsHeard, PaymentChanges
  PROVE  Outcomes
<1>1. PICK m \in PaymentMoves(adapter) :
        /\ m[1] = payment /\ payment' = m[2]
        /\ Hear("payment", 1, payment, m[2])
        /\ UNCHANGED <<adapter, refunds, transfer, caller, attempts>>
  BY DEF PaymentChanges
<1>2. adapter \in Adapters
  BY DEF ProvidersInv, ProvidersTyped
<1>3. PayoutsHeard'
  BY <1>1, HearOther
<1>4. PayoutSticks /\ RefundsStick /\ OutcomeIsHeard
  BY <1>1 DEF PayoutSticks, RefundsStick, OutcomeIsHeard
<1>5. adapter # "mock" => PaymentSticks
  BY <1>1, <1>2, CollectedSticks, VerifiedSticks DEF PaymentSticks
<1>. QED
  BY <1>3, <1>4, <1>5 DEF Outcomes

LEMMA CaptureOutcomesKept ==
  ASSUME ProvidersInv, PayoutsHeard, Capture
  PROVE  Outcomes
<1>1. /\ adapter = "paypal" /\ payment = "APPROVED" /\ UNCHANGED <<adapter, refunds, transfer, caller>>
      /\ (\E s : Hear("payment", 1, payment, s)) \/ UNCHANGED heard
  BY DEF Capture
<1>2. PayoutsHeard'
  BY <1>1, HearOther, PayoutsHeardKept
<1>3. PayoutSticks /\ RefundsStick /\ OutcomeIsHeard
  BY <1>1 DEF PayoutSticks, RefundsStick, OutcomeIsHeard
<1>4. Listed(adapter, payment) = "pending" /\ PaymentStatus(adapter, payment) = "pending"
  BY <1>1 DEF Listed, PaymentStatus, PayPalStatus
<1>. QED
  BY <1>2, <1>3, <1>4 DEF Outcomes, PaymentSticks

LEMMA RefundChangesOutcomes ==
  ASSUME ProvidersInv, PayoutsHeard, RefundChanges
  PROVE  Outcomes
<1>1. PICK i \in Ours : \E m \in RefundMoves(adapter) :
        /\ m[1] = refunds[i].native
        /\ refunds' = [refunds EXCEPT ![i].native = m[2]]
        /\ Hear("refund", i, refunds[i].native, m[2])
        /\ UNCHANGED <<adapter, payment, transfer, caller, attempts>>
  BY DEF RefundChanges
<1>2. PICK m \in RefundMoves(adapter) :
        /\ m[1] = refunds[i].native
        /\ refunds' = [refunds EXCEPT ![i].native = m[2]]
        /\ Hear("refund", i, refunds[i].native, m[2])
        /\ UNCHANGED <<adapter, payment, transfer, caller, attempts>>
  BY <1>1
<1>3. adapter \in Adapters /\ \A j \in Ours : j = i
  BY DEF ProvidersInv, ProvidersTyped, SendsOnce
<1>4. PayoutsHeard'
  BY <1>2, HearOther
<1>5. PayoutSticks /\ PaymentSticks /\ OutcomeIsHeard
  BY <1>2 DEF PayoutSticks, PaymentSticks, OutcomeIsHeard
<1>6. adapter # "mock" => RefundsStick
  BY <1>2, <1>3, RefundOutcomesStick DEF RefundsStick
<1>. QED
  BY <1>4, <1>5, <1>6 DEF Outcomes

LEMMA TransferChangesOutcomes ==
  ASSUME ProvidersInv, PayoutsHeard, TransferChanges
  PROVE  Outcomes
<1>1. PICK m \in TransferMoves(adapter) :
        /\ m[1] = transfer /\ transfer' = m[2]
        /\ Hear("payout", 1, transfer, m[2])
        /\ UNCHANGED <<adapter, payment, refunds, caller, attempts>>
  BY DEF TransferChanges
<1>2. adapter \in Adapters
  BY DEF ProvidersInv, ProvidersTyped
<1>3. PayoutsHeard' /\ OutcomeIsHeard
  BY <1>1, <1>2, HearPayout DEF OutcomeIsHeard
<1>4. RefundsStick /\ PaymentSticks
  BY <1>1 DEF RefundsStick, PaymentSticks
<1>5. adapter # "mock" => PayoutSticks
  BY <1>1, <1>2, TransferOutcomesStick DEF PayoutSticks
<1>. QED
  BY <1>3, <1>4, <1>5 DEF Outcomes

LEMMA RefundedOutcomes ==
  ASSUME ProvidersInv, PayoutsHeard, RefundedByOthers \/ RefundPost
  PROVE  Outcomes
<1>1. UNCHANGED <<adapter, payment, transfer, heard>> /\ refunds \in Seq(RefundRecords)
  BY DEF RefundedByOthers, RefundPost, ProvidersInv, ProvidersTyped
<1>2. UNCHANGED refunds \/ \E x : refunds' = Append(refunds, x)
  BY DEF RefundedByOthers, RefundPost, CreateRefund
<1>3. \A i \in Ours : refunds'[i] = refunds[i]
  BY <1>1, <1>2 DEF Ours
<1>. QED
  BY <1>1, <1>3, OutcomesKept, PayoutsHeardKept DEF Outcomes

LEMMA InitiateOutcomes ==
  ASSUME ProvidersInv, PayoutsHeard, Initiate
  PROVE  Outcomes
<1>1. UNCHANGED <<adapter, payment, refunds, heard>> /\ (UNCHANGED transfer \/ transfer' \in Transferred)
  BY DEF Initiate
<1>2. transfer # "none" => UNCHANGED transfer
  BY <1>1 DEF Transferred, PaystackTransferred, FlutterwaveTransferred, PayPalTransferred, MockTransferred
<1>3. PayoutSticks /\ OutcomeIsHeard
  BY <1>1, <1>2 DEF PayoutSticks, OutcomeIsHeard
<1>. QED
  BY <1>1, <1>3, PayoutsHeardKept DEF Outcomes, RefundsStick, PaymentSticks

LEMMA OutcomesStep ==
  ASSUME ProvidersInv, PayoutsHeard, [ProvidersNext]_providerVars
  PROVE  Outcomes
<1>1. CASE UNCHANGED providerVars \/ RefundLookup \/ FindRefund \/ FindPayout
  <2>1. UNCHANGED <<adapter, payment, refunds, transfer, heard>>
    BY <1>1 DEF providerVars, RefundLookup, FindRefund, FindPayout, records
  <2>. QED
    BY <2>1, OutcomesKept, PayoutsHeardKept DEF Outcomes
<1>. QED
  BY <1>1, PaymentChangesOutcomes, RefundChangesOutcomes, TransferChangesOutcomes, RefundedOutcomes,
     InitiateOutcomes, CaptureOutcomesKept DEF ProvidersNext

\* The adapters: in any order of changes at the provider, requests and lost answers, an
\* outcome that an adapter reports of a payout or a refund is not taken back but by a
\* payout's reversal, one of a payment only by its reversal or by a charge that is paid after
\* it was abandoned, and each outcome of a payout comes with an event that is neither dropped
\* as a duplicate nor of an unknown type.
THEOREM OutcomesAreKept == ProvidersSpec => StatusesAreKept
<1>1. ProvidersInit => PayoutsHeard
  BY DEF ProvidersInit, PayoutsHeard
<1>2. ProvidersInv /\ PayoutsHeard /\ [ProvidersNext]_providerVars => PayoutsHeard'
  BY OutcomesStep DEF Outcomes
<1>3. ProvidersInv /\ PayoutsHeard /\ [ProvidersNext]_providerVars =>
        /\ [adapter # "mock" => PayoutSticks /\ RefundsStick /\ PaymentSticks]_providerVars
        /\ [OutcomeIsHeard]_providerVars
  BY OutcomesStep DEF Outcomes
<1>. QED
  BY <1>1, <1>2, <1>3, ProvidersStart, ProvidersStep, PTL
  DEF ProvidersSpec, StatusesAreKept, FinalStatusesStick, OutcomesAreHeard

-----------------------------------------------------------------------------
(* The parts together *)

integrationsVars == <<part, deliveryVars, endpointVars, providerVars, choiceVars, reconciliationVars>>

\* In a behaviour that TLC checks, every part behaves as its specification says.
LEMMA IntegrationsAreParts ==
  IntegrationsSpec => DeliveriesSpec /\ EndpointsSpec /\ ProvidersSpec /\ ChoiceSpec /\ ReconciliationSpec
<1>1. IntegrationsInit => DeliveriesInit /\ EndpointsInit /\ ProvidersInit /\ ChoiceInit /\ ReconciliationInit
  BY DEF IntegrationsInit
<1>2. [IntegrationsNext]_integrationsVars =>
        /\ [DeliveriesNext]_deliveryVars /\ [EndpointsNext]_endpointVars /\ [ProvidersNext]_providerVars
        /\ [ChoiceNext]_choiceVars /\ [ReconciliationNext]_reconciliationVars
  BY DEF IntegrationsNext, integrationsVars
<1>. QED
  BY <1>1, <1>2, PTL
  DEF IntegrationsSpec, integrationsVars, DeliveriesSpec, EndpointsSpec, ProvidersSpec, ChoiceSpec, ReconciliationSpec

\* The integrations: for any size of pages, of the queue and of the secrets' history, and any
\* number of faults and requests, every property that TLC finds to hold of their parts holds.
THEOREM IntegrationsAreSound ==
  IntegrationsSpec =>
    /\ [](DeliveriesAreSound /\ EndpointsAreSound /\ RequestsMadeOnce)
    /\ [](RoutedCanBeServed /\ ReconciliationIsComplete)
    /\ StatusesAreKept
  BY IntegrationsAreParts, DeliveriesSound, EndpointsSound, RequestsOnce, RoutedIsServed,
     ReconciliationCompletesAlways, OutcomesAreKept, PTL

=================================================================================
