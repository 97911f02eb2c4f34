-------------------------------- MODULE Endpoints --------------------------------
(***************************************************************************)
(* A webhook endpoint and the requests made to it: the signing secret that *)
(* the organization rotates and its receiver installs, and the address the *)
(* URL's host resolves to, which DNS may answer differently at each look.  *)
(* (What becomes of the deliveries: Deliveries.)                           *)
(***************************************************************************)
EXTENDS Integers

CONSTANT MaxSecrets  \* bound on the secrets ever generated

ASSUME EndpointsAssumption == MaxSecrets \in Nat \ {0}

VARIABLES
  policy,    \* whether private URLs are allowed (development)
  keys,      \* secret and previous secret of the endpoint; 0: none
  issued,    \* secrets generated so far
  rotating,  \* rotations under way, by the secret they generated: what they read
  receiver,  \* the secret the receiver verifies with
  succeeds,  \* history: the secret each secret replaced
  overtaken, \* history: secrets whose rotation read before another one stored
  request    \* the request being made: the address it was allowed, its signatures

endpointVars == <<policy, keys, issued, rotating, receiver, succeeds, overtaken, request>>

Secrets == 1..MaxSecrets
NoRequest == [at |-> "none"]

EndpointsInit ==
  /\ policy \in BOOLEAN
  /\ keys = [secret |-> 0, previous |-> 0]
  /\ issued = 0
  /\ rotating = [s \in Secrets |-> 0]
  /\ receiver = 0
  /\ succeeds = [s \in Secrets |-> 0]
  /\ overtaken = {}
  /\ request = NoRequest

-----------------------------------------------------------------------------
(* WebhookUrlPolicy *)

Addresses == {"public", "private"}

\* resolve: every address of the host is checked, and the first is the one to call.
MayCall(answer) == answer # <<>> /\ (policy \/ \A i \in DOMAIN answer : answer[i] = "public")

Answers == {<<>>} \cup {<<a>> : a \in Addresses} \cup {<<a, b>> : a, b \in Addresses}

-----------------------------------------------------------------------------
(* The endpoint's secrets *)

\* create returns the secret once.
Create ==
  /\ keys.secret = 0
  /\ \E answer \in Answers : MayCall(answer)
  /\ issued' = 1
  /\ keys' = [secret |-> 1, previous |-> 0]
  /\ receiver' = 1
  /\ UNCHANGED <<policy, rotating, succeeds, overtaken, request>>

\* rotateSecret reads the endpoint, without a lock, and generates a secret ...
RotateSecret ==
  /\ keys.secret # 0 /\ issued < MaxSecrets
  /\ issued' = issued + 1
  /\ rotating' = [rotating EXCEPT ![issued + 1] = keys.secret]
  /\ UNCHANGED <<policy, keys, receiver, succeeds, overtaken, request>>

Overtaken(s) == overtaken \cup {r \in Secrets \ {s} : rotating[r] # 0}

StoreSecret_Swapped(s, grace) ==
  /\ rotating[s] # 0
  /\ keys' = [secret |-> s, previous |-> IF grace THEN 0 ELSE rotating[s]]
  /\ succeeds' = [succeeds EXCEPT ![s] = IF grace THEN keys.secret ELSE 0]
  /\ rotating' = [rotating EXCEPT ![s] = 0]
  /\ overtaken' = Overtaken(s)
  /\ UNCHANGED <<policy, issued, receiver, request>>

\* ... and stores it, with the one it read as the previous one if there is a grace period.
StoreSecret(s, grace) ==
  /\ rotating[s] # 0
  /\ keys' = [secret |-> s, previous |-> IF grace THEN rotating[s] ELSE 0]
  /\ succeeds' = [succeeds EXCEPT ![s] = IF grace THEN keys.secret ELSE 0]
  /\ rotating' = [rotating EXCEPT ![s] = 0]
  /\ overtaken' = Overtaken(s)
  /\ UNCHANGED <<policy, issued, receiver, request>>

\* previousSecretExpiresAt passes; the row keeps it, and activeSecrets leaves it out.
GraceEnds ==
  /\ keys.previous # 0
  /\ keys' = [keys EXCEPT !.previous = 0]
  /\ succeeds' = [succeeds EXCEPT ![keys.secret] = 0]
  /\ UNCHANGED <<policy, issued, rotating, receiver, overtaken, request>>

\* The receiver installs a secret that a rotation returned, perhaps not the last one.
Install ==
  /\ \E s \in 1..issued : s # receiver /\ rotating[s] = 0 /\ receiver' = s
  /\ UNCHANGED <<policy, keys, issued, rotating, succeeds, overtaken, request>>

-----------------------------------------------------------------------------
(* Requests *)

ActiveSecrets == {keys.secret, keys.previous} \ {0}

\* deliver resolves the URL and signs with every active secret.
Prepare ==
  /\ keys.secret # 0 /\ request.at = "none"
  /\ \E answer \in Answers :
       /\ MayCall(answer)
       /\ request' = [at |-> "signed", address |-> answer[1], signatures |-> ActiveSecrets]
  /\ UNCHANGED <<policy, keys, issued, rotating, receiver, succeeds, overtaken>>

Connect_ByName ==
  /\ request.at = "signed"
  /\ \E answer \in Answers \ {<<>>} : request' = [request EXCEPT !.at = "called", !.address = answer[1]]
  /\ UNCHANGED <<policy, keys, issued, rotating, receiver, succeeds, overtaken>>

\* The sender connects to the address that was checked, whatever DNS answers by now.
Connect ==
  /\ request.at = "signed"
  /\ request' = [request EXCEPT !.at = "called"]
  /\ UNCHANGED <<policy, keys, issued, rotating, receiver, succeeds, overtaken>>

EndRequest ==
  /\ request.at = "called"
  /\ request' = NoRequest
  /\ UNCHANGED <<policy, keys, issued, rotating, receiver, succeeds, overtaken>>

EndpointsNext ==
  \/ Create
  \/ RotateSecret
  \/ \E s \in Secrets, grace \in BOOLEAN : StoreSecret(s, grace)
  \/ GraceEnds
  \/ Install
  \/ Prepare
  \/ Connect
  \/ EndRequest

EndpointsSpec == EndpointsInit /\ [][EndpointsNext]_endpointVars

-----------------------------------------------------------------------------

\* A production system never calls a private address, although the host may resolve to
\* one right after it was checked.
NeverCallsPrivate == request.at = "called" /\ request.address = "private" => policy

\* A receiver can switch secrets without losing events ("the old one keeps signing
\* (alongside) for graceHours, so receivers can switch without dropping events"): what
\* is signed while it verifies with the current secret, or, in the grace period, with
\* the one that was replaced, carries a signature it accepts.  Excepted is a rotation
\* that another one overtook between its read and its store: the secret that it
\* replaces does not go on signing, since it keeps the one it read.
SwitchLosesNothing ==
  /\ receiver # 0 /\ receiver = keys.secret => receiver \in ActiveSecrets
  /\ receiver # 0 /\ receiver = succeeds[keys.secret] /\ keys.secret \notin overtaken =>
       receiver \in ActiveSecrets

\* What is sent to an endpoint goes to a public address, and carries a signature that a
\* receiver on its way from one secret to the next accepts, unless that rotation was
\* overtaken by another.
EndpointsAreSound == NeverCallsPrivate /\ SwitchLosesNothing
=================================================================================
