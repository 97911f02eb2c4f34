-------------------------------- MODULE ApiProofs --------------------------------
(***************************************************************************)
(* Proofs about the requests of clients.  Each part of the API is proved   *)
(* as a specification by itself; ApiAreParts carries the results over to   *)
(* the behaviours that TLC checks.                                         *)
(***************************************************************************)
EXTENDS MCApi, SumsProofs, SequenceTheorems

-----------------------------------------------------------------------------
(* Division. *)

\* The quotient of a natural number, by its defining inequalities.
LEMMA Quotient ==
  ASSUME NEW x \in Nat, NEW n \in Nat \ {0}
  PROVE  /\ x \div n \in Nat
         /\ n * (x \div n) <= x
         /\ x < n * (x \div n) + n
  OBVIOUS

\* A quotient is below any multiplier whose product bounds the dividend.
LEMMA QuotientBelow ==
  ASSUME NEW x \in Nat, NEW n \in Nat \ {0}, NEW k \in Nat, x < n * k + n
  PROVE  x \div n <= k
  <1> DEFINE q == x \div n
  <1>1. q \in Nat /\ n * q <= x
    BY Quotient
  <1>2. SUFFICES ASSUME q >= k + 1 PROVE FALSE
    BY <1>1
  <1>3. n * q >= n * (k + 1)
    BY <1>1, <1>2
  <1>4. n * (k + 1) = n * k + n
    OBVIOUS
  <1> HIDE DEF q
  <1>5. QED
    BY <1>1, <1>3, <1>4

\* A quotient is above any multiplier whose product the dividend reaches.
LEMMA QuotientAbove ==
  ASSUME NEW x \in Nat, NEW n \in Nat \ {0}, NEW k \in Nat, n * k <= x
  PROVE  k <= x \div n
  <1> DEFINE q == x \div n
  <1>1. q \in Nat /\ x < n * q + n
    BY Quotient
  <1>2. SUFFICES ASSUME k >= q + 1 PROVE FALSE
    BY <1>1
  <1>3. n * k >= n * (q + 1)
    BY <1>1, <1>2
  <1>4. n * (q + 1) = n * q + n
    BY <1>1
  <1> HIDE DEF q
  <1>5. QED
    BY <1>1, <1>3, <1>4

-----------------------------------------------------------------------------
(* refund-math.ts telescopes: for every quote and every way of splitting   *)
(* the refunds, the reversals add up to the original figures.              *)

\* The reversals so far are those of one refund of the whole amount refunded so
\* far: this is what makes the exactness inductive.
Cumulative ==
  /\ debited = DebitUpTo(charged, credited, refunded)
  /\ revenueReversed = RevenueUpTo(charged, credited, gross, refunded)
  /\ positionUnwound = debited + revenueReversed

PartialRefundsInv == TypeOK /\ Cumulative

\* Between nothing and all of the charge, the debit is between nothing and all
\* of the credit, and it is all of it at the end.
LEMMA DebitBounds ==
  ASSUME NEW n \in Nat \ {0}, NEW c \in Nat, NEW r \in 0..n
  PROVE  /\ DebitUpTo(n, c, r) \in 0..c
         /\ DebitUpTo(n, c, 0) = 0
         /\ DebitUpTo(n, c, n) = c
  <1> DEFINE up(x) == c * x + n - 1
  <1>1. /\ up(r) \in Nat /\ up(0) \in Nat /\ up(n) \in Nat
        /\ up(r) <= up(n)
    <2>1. c * r \in Nat /\ c * n \in Nat /\ c * 0 = 0
      OBVIOUS
    <2>2. c * r <= c * n
      OBVIOUS
    <2> HIDE DEF up
    <2>3. QED
      BY <2>1, <2>2 DEF up
  <1>2. up(n) < n * c + n /\ n * c <= up(n) /\ up(0) < n * 0 + n
    OBVIOUS
  <1>3. up(n) \div n = c
    BY <1>1, <1>2, QuotientBelow, QuotientAbove, Quotient
  <1>4. up(0) \div n = 0
    BY <1>1, <1>2, QuotientBelow, Quotient
  <1>5. up(r) \div n \in 0..c
    <2>1. up(r) < n * c + n
      BY <1>1, <1>2
    <2>2. QED
      BY <2>1, <1>1, QuotientBelow, Quotient
  <1>6. \A x : DebitUpTo(n, c, x) = up(x) \div n
    BY DEF DebitUpTo, CeilDiv
  <1> HIDE DEF up
  <1>7. QED
    BY <1>3, <1>4, <1>5, <1>6

\* The same for the revenue, which is rounded the other way.
LEMMA RevenueBounds ==
  ASSUME NEW n \in Nat \ {0}, NEW c \in Nat, NEW g \in Nat, c <= g, NEW r \in 0..n
  PROVE  /\ RevenueUpTo(n, c, g, r) \in 0..(g - c)
         /\ RevenueUpTo(n, c, g, 0) = 0
         /\ RevenueUpTo(n, c, g, n) = g - c
  <1> DEFINE spread == g - c
  <1>0. spread \in Nat
    OBVIOUS
  <1> HIDE DEF spread
  <1>1. /\ spread * r \in Nat /\ spread * n \in Nat /\ spread * 0 = 0
        /\ spread * r <= spread * n
    BY <1>0
  <1>2. spread * n < n * spread + n /\ n * spread <= spread * n /\ 0 < n * 0 + n
    BY <1>0
  <1>3. (spread * n) \div n = spread
    BY <1>0, <1>1, <1>2, QuotientBelow, QuotientAbove, Quotient
  <1>4. (spread * 0) \div n = 0
    BY <1>0, <1>1, <1>2, QuotientBelow, Quotient
  <1>5. (spread * r) \div n \in 0..spread
    <2>1. spread * r < n * spread + n
      BY <1>0, <1>1, <1>2
    <2>2. QED
      BY <2>1, <1>0, <1>1, QuotientBelow, Quotient
  <1>6. \A x : RevenueUpTo(n, c, g, x) = (spread * x) \div n
    BY DEF RevenueUpTo, spread
  <1>7. QED
    BY <1>3, <1>4, <1>5, <1>6 DEF spread

\* A fresh payment has nothing refunded.
LEMMA PartialRefundsStart == Init => PartialRefundsInv
  <1> SUFFICES ASSUME Init PROVE PartialRefundsInv
    OBVIOUS
  <1>1. TypeOK
    BY MaxAmountAssumption DEF Init, TypeOK
  <1>2. Cumulative
    BY <1>1, DebitBounds, RevenueBounds DEF Init, TypeOK, Cumulative
  <1>3. QED
    BY <1>1, <1>2 DEF PartialRefundsInv

\* A refund moves the totals from one point of the two curves to another.
LEMMA PartialRefundsStep ==
  ASSUME PartialRefundsInv, NEW amount \in Int, Refund(amount)
  PROVE  PartialRefundsInv'
  <1> DEFINE after == refunded + amount
  <1>1. /\ charged \in Nat \ {0} /\ credited \in Nat \ {0} /\ gross \in Nat
        /\ credited <= gross /\ refunded \in 0..charged /\ after \in 0..charged
        /\ refunded' = after
        /\ charged' = charged /\ credited' = credited /\ gross' = gross
    BY DEF PartialRefundsInv, TypeOK, Refund, Refundable, quote
  <1> HIDE DEF after
  <1>2. /\ DebitUpTo(charged, credited, refunded) \in Int
        /\ DebitUpTo(charged, credited, after) \in Int
        /\ RevenueUpTo(charged, credited, gross, refunded) \in Int
        /\ RevenueUpTo(charged, credited, gross, after) \in Int
    <2>1. \A r \in 0..charged : DebitUpTo(charged, credited, r) \in 0..credited
      BY <1>1, DebitBounds
    <2>2. \A r \in 0..charged : RevenueUpTo(charged, credited, gross, r) \in 0..(gross - credited)
      BY <1>1, RevenueBounds
    <2>3. QED
      BY <1>1, <2>1, <2>2
  <1>3. /\ debited' = DebitUpTo(charged, credited, after)
        /\ revenueReversed' = RevenueUpTo(charged, credited, gross, after)
        /\ positionUnwound' = debited' + revenueReversed'
    BY <1>2 DEF PartialRefundsInv, Cumulative, Refund, WalletDebit, RevenueReversal, after
  <1>4. TypeOK'
    BY <1>1, <1>2, <1>3 DEF TypeOK
  <1>5. Cumulative'
    BY <1>1, <1>3 DEF Cumulative, DebitUpTo, RevenueUpTo, CeilDiv
  <1>6. QED
    BY <1>4, <1>5 DEF PartialRefundsInv

\* The inductive invariant holds throughout.
THEOREM PartialRefundsInvariant == Spec => []PartialRefundsInv
  <1>1. PartialRefundsInv /\ [Next]_vars => PartialRefundsInv'
    <2>1. ASSUME PartialRefundsInv, NEW amount \in 1..MaxAmount, Refund(amount) PROVE PartialRefundsInv'
      BY <2>1, PartialRefundsStep, MaxAmountAssumption
    <2>2. ASSUME PartialRefundsInv, UNCHANGED vars PROVE PartialRefundsInv'
      BY <2>2 DEF PartialRefundsInv, TypeOK, Cumulative, vars
    <2>3. QED
      BY <2>1, <2>2 DEF Next
  <1>2. QED
    BY PartialRefundsStart, <1>1, PTL DEF Spec

\* Whatever the quote and however the refunds are split, a full refund takes
\* back exactly the credit, the revenue and the gross amount.
THEOREM ExactFullRefund == Spec => []FullRefundIsExact
  <1>1. PartialRefundsInv => FullRefundIsExact
    <2> SUFFICES ASSUME PartialRefundsInv, refunded = charged PROVE FullRefundIsExact
      BY DEF FullRefundIsExact
    <2>1. debited = credited /\ revenueReversed = gross - credited
      BY DebitBounds, RevenueBounds DEF PartialRefundsInv, TypeOK, Cumulative
    <2>2. QED
      BY <2>1 DEF PartialRefundsInv, TypeOK, Cumulative, FullRefundIsExact
  <1>2. QED
    BY PartialRefundsInvariant, <1>1, PTL

\* At no point is more reversed than was earned or credited.
THEOREM BoundedReversals == Spec => []NeverReversesTooMuch
  <1>1. PartialRefundsInv => NeverReversesTooMuch
    BY DebitBounds, RevenueBounds DEF PartialRefundsInv, TypeOK, Cumulative, NeverReversesTooMuch
  <1>2. QED
    BY PartialRefundsInvariant, <1>1, PTL

\* RefundsAddUp, for every quote and every split of its refund.
THEOREM RefundsAddUpTheorem == Spec => []RefundsAddUp
  <1>1. PartialRefundsInv => TypeOK
    BY DEF PartialRefundsInv
  <1>2. TypeOK /\ FullRefundIsExact /\ NeverReversesTooMuch => RefundsAddUp
    BY DEF RefundsAddUp
  <1>3. QED
    BY PartialRefundsInvariant, ExactFullRefund, BoundedReversals, <1>1, <1>2, PTL

-----------------------------------------------------------------------------
(* Organizations: types *)

LEMMA OrganizationRoles ==
  /\ DOMAIN ROLE_PERMISSIONS = {"owner", "admin", "member", "viewer"}
  /\ "owner" \notin ASSIGNABLE_ROLES /\ ASSIGNABLE_ROLES \subseteq DOMAIN ROLE_PERMISSIONS
  /\ "owner" # "none"
  BY DEF ROLE_PERMISSIONS, ASSIGNABLE_ROLES

\* What the handlers use of a route.
RouteOK(route) ==
  /\ route.kind \in {"add", "change", "remove", "transfer"} => route.target \in People
  /\ route.kind \in {"add", "change"} => route.role \in ASSIGNABLE_ROLES
  /\ route.kind \in {"createKey", "revokeKey"} => route.key \in Keys

LEMMA RoutesAreOK == \A route \in Routes : RouteOK(route)
  BY DEF Routes, RouteOK

MemberRows == [id : 1..MaxMemberships, role : DOMAIN ROLE_PERMISSIONS]

\* The tables: rows are numbered as they are created, one per person, one owner.
TablesInv ==
  /\ org \in {"none", "active", "suspended"}
  /\ rows \in 0..MaxMemberships
  /\ members \in [People -> MemberRows \cup {NotMember}]
  /\ \A p \in People : members[p].id <= rows
  /\ \A p, q \in People : members[p].id = members[q].id /\ members[p] # NotMember => p = q
  /\ \A p, q \in People : members[p].role = "owner" /\ members[q].role = "owner" => p = q
  /\ org = "none" => \A p \in People : members[p] = NotMember
  /\ keys \in [Keys -> [state : {"none", "valid", "revoked", "expired"}, scopes : SUBSET API_KEY_SCOPES]]

\* A request that has passed a guard had the authority that the guard asks for; one that
\* has loaded a member has not loaded the owner.
OrgReqOK(q, parts) ==
  \/ q = OrgIdle
  \/ q \in [at : {"member"}, user : People, role : DOMAIN ROLE_PERMISSIONS, route : Routes]
       /\ (q.route.permission \in ROLE_PERMISSIONS[q.role] => "allowed" \in parts)
  \/ q \in [at : {"ready"}, user : People, role : DOMAIN ROLE_PERMISSIONS, route : Routes]
       /\ "allowed" \in parts /\ "active" \in parts
  \/ q \in [at : {"loaded"}, user : People, route : Routes, seen : MemberRows]
       /\ q.route.kind \in {"change", "remove"} /\ q.seen.role # "owner"
       /\ "allowed" \in parts /\ "active" \in parts
  \/ (\E scopes : q \in [at : {"key"}, key : Keys, scope : UNION KeyScopes, scopes : {scopes}])
       /\ (q.scope \in q.scopes => "allowed" \in parts)
  \/ q \in [at : {"staff"}, status : {"active", "suspended"}]
  \/ q \in [at : {"done"}, did : {"acted", "refused", "staff"}]
       /\ (q.did = "acted" => "allowed" \in parts /\ "active" \in parts)

OrgRequestsInv ==
  /\ DOMAIN orgReq = OrgRequests /\ DOMAIN held = OrgRequests
  /\ \A r \in OrgRequests : held[r] \subseteq {"active", "allowed"} /\ OrgReqOK(orgReq[r], held[r])
  /\ \A r \in OrgRequests : "active" \in held[r] => org # "none"

OrganizationsInv == TablesInv /\ OrgRequestsInv

\* More is remembered of a request's authority as it goes on.
LEMMA HeldMore ==
  ASSUME NEW q, NEW small, NEW large, small \subseteq large, OrgReqOK(q, small)
  PROVE  OrgReqOK(q, large)
  BY Zenon DEF OrgReqOK

LEMMA PartsType ==
  ASSUME NEW q, NEW status, NEW ms, NEW ks
  PROVE  /\ Parts(q, status, ms, ks) \subseteq {"active", "allowed"}
         /\ "active" \in Parts(q, status, ms, ks) => status = "active"
  BY DEF Parts

\* Only an organization that exists is active.
LEMMA ActiveExists ==
  ASSUME OrgRequestsInv, Witness, org' = "none" => org = "none", NEW r \in OrgRequests, "active" \in held'[r]
  PROVE  org' # "none"
<1>1. \/ "active" \in held[r] \/ "active" \in Parts(orgReq'[r], org', members', keys')
      \/ "active" \in Parts(orgReq[r], org, members, keys)
  BY DEF Witness
<1>. QED
  BY <1>1, PartsType DEF OrgRequestsInv

\* A step in which one request goes on: the others keep what they had.
LEMMA OneRequestGoesOn ==
  ASSUME OrgRequestsInv, Witness, org' = "none" => org = "none",
         NEW r \in OrgRequests, NEW next, OrgGoto(r, next),
         OrgReqOK(next, held'[r])
  PROVE  OrgRequestsInv'
<1>1. DOMAIN orgReq' = OrgRequests /\ DOMAIN held' = OrgRequests
  BY DEF OrgGoto, Witness, OrgRequestsInv
<1>2. ASSUME NEW s \in OrgRequests PROVE held'[s] \subseteq {"active", "allowed"} /\ held[s] \subseteq held'[s]
  BY PartsType DEF Witness, OrgRequestsInv
<1>3. ASSUME NEW s \in OrgRequests PROVE OrgReqOK(orgReq'[s], held'[s])
  <2>1. CASE s = r
    BY <2>1 DEF OrgGoto, OrgRequestsInv
  <2>2. CASE s # r
    <3>1. orgReq'[s] = orgReq[s] /\ OrgReqOK(orgReq[s], held[s])
      BY <2>2 DEF OrgGoto, OrgRequestsInv
    <3>. QED
      BY <1>2, <3>1, HeldMore
  <2>. QED
    BY <2>1, <2>2
<1>. QED
  BY <1>1, <1>2, <1>3, ActiveExists DEF OrgRequestsInv

\* A step in which no request goes on.
LEMMA NoRequestGoesOn ==
  ASSUME OrgRequestsInv, Witness, org' = "none" => org = "none", UNCHANGED orgReq
  PROVE  OrgRequestsInv'
<1>1. DOMAIN held' = OrgRequests
  BY DEF Witness
<1>2. ASSUME NEW s \in OrgRequests PROVE held'[s] \subseteq {"active", "allowed"} /\ held[s] \subseteq held'[s]
  BY PartsType DEF Witness, OrgRequestsInv
<1>3. ASSUME NEW s \in OrgRequests PROVE OrgReqOK(orgReq'[s], held'[s])
  BY <1>2, HeldMore DEF OrgRequestsInv
<1>. QED
  BY <1>1, <1>2, <1>3, ActiveExists DEF OrgRequestsInv

LEMMA HeldGrows ==
  ASSUME OrgRequestsInv, Witness, NEW r \in OrgRequests
  PROVE  held[r] \subseteq held'[r] /\ Parts(orgReq'[r], org', members', keys') \subseteq held'[r]
         /\ Parts(orgReq[r], org, members, keys) \subseteq held'[r]
  BY DEF Witness

\* A request that ends, refused or with the authority that it had.
LEMMA RequestEnds ==
  ASSUME OrgRequestsInv, Witness, org' = "none" => org = "none",
         NEW r \in OrgRequests, NEW did \in {"acted", "refused", "staff"},
         OrgGoto(r, OrgDone(did)), did = "acted" => "allowed" \in held'[r] /\ "active" \in held'[r]
  PROVE  OrgRequestsInv'
<1>1. OrgReqOK(OrgDone(did), held'[r])
  BY DEF OrgReqOK, OrgDone
<1>. QED
  BY <1>1, OneRequestGoesOn

LEMMA ReadyIs ==
  ASSUME OrgRequestsInv, Witness, NEW r \in OrgRequests, orgReq[r].at = "ready"
  PROVE  /\ orgReq[r] \in [at : {"ready"}, user : People, role : DOMAIN ROLE_PERMISSIONS, route : Routes]
         /\ RouteOK(orgReq[r].route)
         /\ "allowed" \in held'[r] /\ "active" \in held'[r]
         /\ org # "none"
<1>1. OrgReqOK(orgReq[r], held[r])
  BY DEF OrgRequestsInv
<1>2. /\ orgReq[r] \in [at : {"ready"}, user : People, role : DOMAIN ROLE_PERMISSIONS, route : Routes]
      /\ "allowed" \in held[r] /\ "active" \in held[r]
  BY <1>1 DEF OrgReqOK, OrgIdle
<1>. QED
  BY <1>2, HeldGrows, RoutesAreOK DEF OrgRequestsInv

LEMMA LoadedIs ==
  ASSUME OrgRequestsInv, NEW r \in OrgRequests, orgReq[r].at = "loaded"
  PROVE  /\ orgReq[r] \in [at : {"loaded"}, user : People, route : Routes, seen : MemberRows]
         /\ RouteOK(orgReq[r].route) /\ orgReq[r].route.target \in People
         /\ orgReq[r].route.kind = "change" => orgReq[r].route.role \in ASSIGNABLE_ROLES
         /\ orgReq[r].seen.role # "owner" /\ orgReq[r].seen.id \in 1..MaxMemberships
         /\ "allowed" \in held[r] /\ "active" \in held[r]
<1>1. OrgReqOK(orgReq[r], held[r])
  BY DEF OrgRequestsInv
<1>2. /\ orgReq[r] \in [at : {"loaded"}, user : People, route : Routes, seen : MemberRows]
      /\ orgReq[r].route.kind \in {"change", "remove"} /\ orgReq[r].seen.role # "owner"
      /\ "allowed" \in held[r] /\ "active" \in held[r]
  BY <1>1 DEF OrgReqOK, OrgIdle
<1>3. RouteOK(orgReq[r].route) /\ orgReq[r].seen \in MemberRows
  BY <1>2, RoutesAreOK
<1>. QED
  BY <1>2, <1>3 DEF RouteOK, MemberRows

-----------------------------------------------------------------------------
(* Organizations: one lemma for each action *)

LEMMA TablesKept ==
  ASSUME TablesInv, UNCHANGED <<org, members, rows, keys>>
  PROVE  TablesInv' /\ OwnerStays
  BY DEF TablesInv, OwnerStays

LEMMA FindMembershipOK ==
  ASSUME OrganizationsInv, Witness, NEW r \in OrgRequests, NEW p \in People, NEW route \in Routes,
         FindMembership(r, p, route)
  PROVE  OrganizationsInv' /\ OwnerStays
<1>. DEFINE next == [at |-> "member", user |-> p, role |-> members[p].role, route |-> route]
<1>1. OrgGoto(r, next) /\ members[p] # NotMember /\ UNCHANGED <<org, members, rows, keys>>
  BY DEF FindMembership
<1>2. members[p] \in MemberRows
  BY <1>1 DEF OrganizationsInv, TablesInv
<1>3. members[p].role \in DOMAIN ROLE_PERMISSIONS /\ members[p].role # "none"
  BY <1>2, OrganizationRoles DEF MemberRows
<1>4. next \in [at : {"member"}, user : People, role : DOMAIN ROLE_PERMISSIONS, route : Routes]
  BY <1>3
<1>5. orgReq'[r] = next
  BY <1>1 DEF OrgGoto, OrganizationsInv, OrgRequestsInv
<1>6. route.permission \in ROLE_PERMISSIONS[members[p].role] => "allowed" \in Parts(next, org, members, keys)
  BY <1>3 DEF Parts
<1>7. next.route.permission \in ROLE_PERMISSIONS[next.role] => "allowed" \in held'[r]
  <2>1. next.route = route /\ next.role = members[p].role
    OBVIOUS
  <2>. QED
    BY <1>1, <1>5, <1>6, <2>1, HeldGrows DEF OrganizationsInv
<1>8. OrgReqOK(next, held'[r])
  BY <1>4, <1>7, Zenon DEF OrgReqOK
<1>. HIDE DEF next
<1>. QED
  BY <1>1, <1>8, OneRequestGoesOn, TablesKept DEF OrganizationsInv

LEMMA CheckAccessOK ==
  ASSUME OrganizationsInv, Witness, NEW r \in OrgRequests, CheckAccess(r)
  PROVE  OrganizationsInv' /\ OwnerStays
<1>. DEFINE next == [orgReq[r] EXCEPT !.at = "ready"]
<1>1. orgReq[r].at = "member" /\ UNCHANGED <<org, members, rows, keys>>
  BY DEF CheckAccess
<1>2. /\ orgReq[r] \in [at : {"member"}, user : People, role : DOMAIN ROLE_PERMISSIONS, route : Routes]
      /\ orgReq[r].route.permission \in ROLE_PERMISSIONS[orgReq[r].role] => "allowed" \in held[r]
  <2>1. OrgReqOK(orgReq[r], held[r])
    BY DEF OrganizationsInv, OrgRequestsInv
  <2>. QED
    BY <1>1, <2>1 DEF OrgReqOK, OrgIdle
<1>3. CASE org = "active" /\ orgReq[r].route.permission \in ROLE_PERMISSIONS[orgReq[r].role]
  <2>1. OrgGoto(r, next)
    BY <1>3 DEF CheckAccess
  <2>2. "active" \in Parts(orgReq[r], org, members, keys)
    BY <1>1, <1>3, Zenon DEF Parts
  <2>3. "active" \in held'[r] /\ "allowed" \in held'[r]
    BY <1>2, <1>3, <2>2, HeldGrows DEF OrganizationsInv
  <2>4. next \in [at : {"ready"}, user : People, role : DOMAIN ROLE_PERMISSIONS, route : Routes]
    BY <1>2
  <2>. HIDE DEF next
  <2>5. OrgReqOK(next, held'[r])
    BY <2>3, <2>4 DEF OrgReqOK
  <2>. QED
    BY <1>1, <2>1, <2>5, OneRequestGoesOn, TablesKept DEF OrganizationsInv
<1>4. CASE ~(org = "active" /\ orgReq[r].route.permission \in ROLE_PERMISSIONS[orgReq[r].role])
  <2>1. OrgGoto(r, OrgDone("refused"))
    BY <1>4 DEF CheckAccess
  <2>. QED
    BY <1>1, <2>1, RequestEnds, TablesKept DEF OrganizationsInv
<1>. QED
  BY <1>3, <1>4

LEMMA FindKeyOK ==
  ASSUME OrganizationsInv, Witness, NEW r \in OrgRequests, NEW k \in Keys, NEW scope \in UNION KeyScopes,
         FindKey(r, k, scope)
  PROVE  OrganizationsInv' /\ OwnerStays
<1>. DEFINE next == [at |-> "key", key |-> k, scope |-> scope, scopes |-> keys[k].scopes]
<1>1. OrgGoto(r, next) /\ keys[k].state = "valid" /\ UNCHANGED <<org, members, rows, keys>>
  BY DEF FindKey
<1>2. next \in [at : {"key"}, key : Keys, scope : UNION KeyScopes, scopes : {keys[k].scopes}]
  OBVIOUS
<1>3. orgReq'[r] = next
  BY <1>1 DEF OrgGoto, OrganizationsInv, OrgRequestsInv
<1>4. "user" \notin DOMAIN next /\ next.at = "key" /\ next.key = k /\ next.scope = scope /\ next.scopes = keys[k].scopes
  OBVIOUS
<1>. HIDE DEF next
<1>5. scope \in keys[k].scopes => "allowed" \in Parts(next, org, members, keys)
  BY <1>1, <1>4 DEF Parts
<1>6. next.scope \in next.scopes => "allowed" \in held'[r]
  BY <1>1, <1>3, <1>4, <1>5, HeldGrows DEF OrganizationsInv
<1>7. OrgReqOK(next, held'[r])
  BY <1>2, <1>6, Zenon DEF OrgReqOK
<1>. QED
  BY <1>1, <1>7, OneRequestGoesOn, TablesKept DEF OrganizationsInv

LEMMA CheckKeyOK ==
  ASSUME OrganizationsInv, Witness, NEW r \in OrgRequests, CheckKey(r)
  PROVE  OrganizationsInv' /\ OwnerStays
<1>1. orgReq[r].at = "key" /\ UNCHANGED <<org, members, rows, keys>>
  BY DEF CheckKey
<1>2. orgReq[r].scope \in orgReq[r].scopes => "allowed" \in held'[r]
  <2>1. OrgReqOK(orgReq[r], held[r])
    BY DEF OrganizationsInv, OrgRequestsInv
  <2>2. orgReq[r].scope \in orgReq[r].scopes => "allowed" \in held[r]
    BY <1>1, <2>1 DEF OrgReqOK, OrgIdle
  <2>. QED
    BY <2>2, HeldGrows DEF OrganizationsInv
<1>3. org = "active" => "active" \in held'[r]
  <2>1. org = "active" => "active" \in Parts(orgReq[r], org, members, keys)
    BY <1>1, Zenon DEF Parts
  <2>. QED
    BY <2>1, HeldGrows DEF OrganizationsInv
<1>4. PICK did \in {"acted", "refused"} :
        OrgGoto(r, OrgDone(did)) /\ (did = "acted" => org = "active" /\ orgReq[r].scope \in orgReq[r].scopes)
  BY DEF CheckKey
<1>. QED
  BY <1>1, <1>2, <1>3, <1>4, RequestEnds, TablesKept DEF OrganizationsInv

LEMMA CreateOK ==
  ASSUME OrganizationsInv, Witness, NEW p \in People, Create(p)
  PROVE  OrganizationsInv' /\ OwnerStays
<1>1. [id |-> 1, role |-> "owner"] \in MemberRows
  BY OrganizationsAssumption, OrganizationRoles DEF MemberRows
<1>2. members' = [members EXCEPT ![p] = [id |-> 1, role |-> "owner"]] /\ rows' = 1 /\ org' = "active"
      /\ UNCHANGED <<keys, orgReq>> /\ org = "none"
  BY DEF Create
<1>3. \A q \in People : members'[q] = IF q = p THEN [id |-> 1, role |-> "owner"] ELSE NotMember
  BY <1>2 DEF OrganizationsInv, TablesInv
<1>4. TablesInv'
  BY <1>1, <1>2, <1>3, OrganizationsAssumption DEF OrganizationsInv, TablesInv, NotMember
<1>5. p \in Owners(members')
  BY <1>3 DEF Owners
<1>. QED
  BY <1>2, <1>4, <1>5, NoRequestGoesOn DEF OrganizationsInv, OwnerStays

LEMMA RenameOK ==
  ASSUME OrganizationsInv, Witness, NEW r \in OrgRequests, Rename(r)
  PROVE  OrganizationsInv' /\ OwnerStays
  BY ReadyIs, RequestEnds, TablesKept DEF OrganizationsInv, Rename, Ready

LEMMA AddMemberOK ==
  ASSUME OrganizationsInv, Witness, NEW r \in OrgRequests, AddMember(r)
  PROVE  OrganizationsInv' /\ OwnerStays
<1>1. PICK p : p = orgReq[r].route.target
  OBVIOUS
<1>2. PICK role : role = orgReq[r].route.role
  OBVIOUS
<1>3. orgReq[r].at = "ready" /\ orgReq[r].route.kind = "add" /\ rows < MaxMemberships /\ UNCHANGED <<org, keys>>
  BY DEF AddMember, Ready
<1>4. p \in People /\ role \in ASSIGNABLE_ROLES /\ "allowed" \in held'[r] /\ "active" \in held'[r]
  BY <1>1, <1>2, <1>3, ReadyIs DEF OrganizationsInv, RouteOK
<1>5. CASE members[p] = NotMember
  <2>1. /\ members' = [members EXCEPT ![p] = [id |-> rows + 1, role |-> role]]
        /\ rows' = rows + 1 /\ OrgGoto(r, OrgDone("acted"))
    BY <1>1, <1>2, <1>5 DEF AddMember
  <2>2. rows \in 0..MaxMemberships /\ rows' \in 1..MaxMemberships
    BY <1>3, <2>1, OrganizationsAssumption DEF OrganizationsInv, TablesInv
  <2>3. [id |-> rows + 1, role |-> role] \in MemberRows /\ role # "owner"
    BY <1>4, <2>1, <2>2, OrganizationRoles DEF MemberRows
  <2>4. \A q \in People : members'[q] = IF q = p THEN [id |-> rows + 1, role |-> role] ELSE members[q]
    BY <2>1 DEF OrganizationsInv, TablesInv
  <2>5. members' \in [People -> MemberRows \cup {NotMember}]
    BY <2>1, <2>3 DEF OrganizationsInv, TablesInv
  <2>6. \A q \in People : members[q].id <= rows /\ members[q].id \in Nat
    BY OrganizationsAssumption DEF OrganizationsInv, TablesInv, MemberRows, NotMember
  <2>7. \A q \in People : members'[q].id <= rows'
    BY <2>1, <2>2, <2>4, <2>6
  <2>8. \A q, s \in People : members'[q].id = members'[s].id /\ members'[q] # NotMember => q = s
    BY <2>2, <2>4, <2>6 DEF OrganizationsInv, TablesInv
  <2>9. \A q, s \in People : members'[q].role = "owner" /\ members'[s].role = "owner" => q = s
    BY <2>3, <2>4 DEF OrganizationsInv, TablesInv
  <2>10. org # "none"
    BY <1>3, ReadyIs DEF OrganizationsInv
  <2>11. TablesInv'
    BY <1>3, <2>2, <2>5, <2>7, <2>8, <2>9, <2>10, OrganizationsAssumption DEF OrganizationsInv, TablesInv
  <2>12. OrgRequestsInv'
    BY <1>3, <1>4, <2>1, RequestEnds DEF OrganizationsInv
  <2>13. \A q \in Owners(members) : q \in Owners(members')
    BY <1>5, <2>4, OrganizationRoles DEF Owners, NotMember
  <2>. QED
    BY <2>11, <2>12, <2>13 DEF OrganizationsInv, OwnerStays
<1>6. CASE members[p] # NotMember
  <2>1. UNCHANGED <<members, rows>> /\ OrgGoto(r, OrgDone("refused"))
    BY <1>1, <1>6 DEF AddMember
  <2>. QED
    BY <1>3, <2>1, RequestEnds, TablesKept DEF OrganizationsInv
<1>. QED
  BY <1>5, <1>6

LEMMA LoadMemberOK ==
  ASSUME OrganizationsInv, Witness, NEW r \in OrgRequests, LoadMember(r)
  PROVE  OrganizationsInv' /\ OwnerStays
<1>1. PICK seen : seen = members[orgReq[r].route.target]
  OBVIOUS
<1>2. /\ orgReq[r].at = "ready" /\ orgReq[r].route.kind \in {"change", "remove"}
      /\ UNCHANGED <<org, members, rows, keys>>
  BY DEF LoadMember, Ready
<1>3. /\ orgReq[r].user \in People /\ orgReq[r].route \in Routes /\ orgReq[r].route.target \in People
      /\ "allowed" \in held'[r] /\ "active" \in held'[r]
  BY <1>2, ReadyIs DEF OrganizationsInv, RouteOK
<1>4. CASE seen = NotMember \/ seen.role = "owner"
  <2>1. OrgGoto(r, OrgDone("refused"))
    BY <1>1, <1>4 DEF LoadMember
  <2>. QED
    BY <1>2, <2>1, RequestEnds, TablesKept DEF OrganizationsInv
<1>5. CASE ~(seen = NotMember \/ seen.role = "owner")
  <2>. DEFINE next == [at |-> "loaded", user |-> orgReq[r].user, route |-> orgReq[r].route, seen |-> seen]
  <2>1. OrgGoto(r, next)
    BY <1>1, <1>5 DEF LoadMember
  <2>2. seen \in MemberRows
    BY <1>1, <1>3, <1>5 DEF OrganizationsInv, TablesInv
  <2>3. /\ next \in [at : {"loaded"}, user : People, route : Routes, seen : MemberRows]
        /\ next.route.kind \in {"change", "remove"} /\ next.seen.role # "owner"
    BY <1>2, <1>3, <1>5, <2>2
  <2>. HIDE DEF next
  <2>4. OrgReqOK(next, held'[r])
    BY <1>3, <2>3 DEF OrgReqOK
  <2>. QED
    BY <1>2, <2>1, <2>4, OneRequestGoesOn, TablesKept DEF OrganizationsInv
<1>. QED
  BY <1>4, <1>5

\* What a change of a loaded member may do to the tables.
LEMMA LoadedActs ==
  ASSUME OrganizationsInv, Witness, NEW r \in OrgRequests, orgReq[r].at = "loaded",
         OrgGoto(r, OrgDone("acted")), UNCHANGED <<org, rows, keys>>,
         NEW p, p = orgReq[r].route.target,
         NEW row \in MemberRows \cup {NotMember}, row.role # "owner", row # NotMember => row.id = members[p].id,
         \/ members' = members
         \/ SameRow(r) /\ members' = [members EXCEPT ![p] = row]
  PROVE  OrganizationsInv' /\ OwnerStays
<1>1. p \in People /\ orgReq[r].seen.role # "owner" /\ orgReq[r].seen.id \in 1..MaxMemberships
      /\ "allowed" \in held'[r] /\ "active" \in held'[r] /\ org # "none"
  BY LoadedIs, HeldGrows DEF OrganizationsInv, OrgRequestsInv
<1>2. OrgRequestsInv'
  BY <1>1, RequestEnds DEF OrganizationsInv
<1>3. CASE members' = members
  BY <1>2, <1>3, TablesKept DEF OrganizationsInv
<1>4. CASE SameRow(r) /\ members' = [members EXCEPT ![p] = row]
  <2>1. members[p].id = orgReq[r].seen.id
    BY <1>4 DEF SameRow
  <2>2. members[p] # NotMember
    BY <1>1, <2>1, OrganizationsAssumption DEF NotMember
  <2>3. \A q \in People : members'[q] = IF q = p THEN row ELSE members[q]
    BY <1>4 DEF OrganizationsInv, TablesInv
  <2>4. members' \in [People -> MemberRows \cup {NotMember}]
    BY <1>4 DEF OrganizationsInv, TablesInv
  <2>5. \A q \in People : members'[q].id <= rows'
    BY <2>3, OrganizationsAssumption DEF OrganizationsInv, TablesInv, NotMember
  <2>6. \A q, s \in People : members'[q].id = members'[s].id /\ members'[q] # NotMember => q = s
    <3>. SUFFICES ASSUME NEW q \in People, NEW s \in People, members'[q].id = members'[s].id,
                         members'[q] # NotMember, q # s
                  PROVE  FALSE
      OBVIOUS
    <3>1. \A u \in People : members[u].id \in Nat /\ (members[u].id = 0 => members[u] = NotMember)
      BY OrganizationsAssumption DEF OrganizationsInv, TablesInv, MemberRows, NotMember
    <3>2. CASE q = p
      <4>1. members'[q] = row /\ row # NotMember /\ members'[s] = members[s]
        BY <2>3, <3>2
      <4>2. members[p].id = members[s].id
        BY <4>1
      <4>. QED
        BY <1>1, <2>2, <3>2, <4>2 DEF OrganizationsInv, TablesInv
    <3>3. CASE q # p /\ s = p
      <4>1. members'[q] = members[q] /\ members'[s] = row
        BY <2>3, <3>3
      <4>2. CASE row = NotMember
        BY <3>1, <4>1, <4>2 DEF NotMember
      <4>3. CASE row # NotMember
        BY <1>1, <3>3, <4>1, <4>3 DEF OrganizationsInv, TablesInv
      <4>. QED
        BY <4>2, <4>3
    <3>4. CASE q # p /\ s # p
      BY <2>3, <3>4 DEF OrganizationsInv, TablesInv
    <3>. QED
      BY <3>2, <3>3, <3>4
  <2>7. \A q, s \in People : members'[q].role = "owner" /\ members'[s].role = "owner" => q = s
    BY <2>3 DEF OrganizationsInv, TablesInv
  <2>8. TablesInv'
    BY <1>1, <2>4, <2>5, <2>6, <2>7 DEF OrganizationsInv, TablesInv
  <2>9. OwnerStays
    <3>. SUFFICES ASSUME Owners(members) # {}, Owners(members') = {}
                  PROVE  orgReq'[r] # orgReq[r] /\ members[p].role = "owner"
      BY <1>1 DEF OwnerStays
    <3>1. orgReq'[r].at = "done"
      BY DEF OrgGoto, OrgDone, OrganizationsInv, OrgRequestsInv
    <3>2. PICK o \in People : members[o].role = "owner"
      BY DEF Owners
    <3>3. o = p
      BY <2>3, <3>2 DEF Owners
    <3>. QED
      BY <3>1, <3>2, <3>3
  <2>. QED
    BY <1>2, <2>8, <2>9 DEF OrganizationsInv
<1>. QED
  BY <1>3, <1>4

LEMMA ChangeRoleOK ==
  ASSUME OrganizationsInv, Witness, NEW r \in OrgRequests, ChangeRole(r)
  PROVE  OrganizationsInv' /\ OwnerStays
<1>1. PICK p : p = orgReq[r].route.target
  OBVIOUS
<1>2. PICK role : role = orgReq[r].route.role
  OBVIOUS
<1>3. /\ orgReq[r].at = "loaded" /\ orgReq[r].route.kind = "change"
      /\ OrgGoto(r, OrgDone("acted")) /\ UNCHANGED <<org, rows, keys>>
  BY DEF ChangeRole
<1>4. /\ p \in People /\ role \in ASSIGNABLE_ROLES /\ role # "owner" /\ role \in DOMAIN ROLE_PERMISSIONS
      /\ orgReq[r].seen.id \in 1..MaxMemberships
  BY <1>1, <1>2, <1>3, LoadedIs, OrganizationRoles DEF OrganizationsInv
<1>5. CASE SameRow(r)
  <2>1. members[p].id = orgReq[r].seen.id
    BY <1>1, <1>5 DEF SameRow
  <2>2. members[p] \in MemberRows
    BY <1>4, <2>1, OrganizationsAssumption DEF OrganizationsInv, TablesInv, NotMember
  <2>3. PICK row : row = [members[p] EXCEPT !.role = role]
    OBVIOUS
  <2>4. row \in MemberRows /\ row.id = members[p].id /\ row.role # "owner"
    BY <1>4, <2>2, <2>3 DEF MemberRows
  <2>5. members' = [members EXCEPT ![p] = row]
    BY <1>1, <1>2, <1>5, <2>3 DEF ChangeRole
  <2>6. row \in MemberRows \cup {NotMember}
    BY <2>4
  <2>7. row.role # "owner" /\ (row # NotMember => row.id = members[p].id)
    BY <2>4
  <2>. QED
    BY <1>1, <1>3, <1>5, <2>5, <2>6, <2>7, LoadedActs
<1>6. CASE ~SameRow(r)
  <2>1. NotMember \in MemberRows \cup {NotMember} /\ NotMember.role # "owner"
    BY DEF NotMember
  <2>2. members' = members
    BY <1>6 DEF ChangeRole
  <2>. QED
    BY <1>1, <1>3, <2>1, <2>2, LoadedActs
<1>. QED
  BY <1>5, <1>6

LEMMA RemoveMemberOK ==
  ASSUME OrganizationsInv, Witness, NEW r \in OrgRequests, RemoveMember(r)
  PROVE  OrganizationsInv' /\ OwnerStays
<1>1. PICK p : p = orgReq[r].route.target
  OBVIOUS
<1>2. NotMember \in MemberRows \cup {NotMember} /\ NotMember.role # "owner"
  BY DEF NotMember
<1>3. /\ orgReq[r].at = "loaded" /\ OrgGoto(r, OrgDone("acted")) /\ UNCHANGED <<org, rows, keys>>
      /\ members' = IF SameRow(r) THEN [members EXCEPT ![p] = NotMember] ELSE members
  BY <1>1 DEF RemoveMember
<1>. QED
  BY <1>1, <1>2, <1>3, LoadedActs

LEMMA TransferOwnershipOK ==
  ASSUME OrganizationsInv, Witness, NEW r \in OrgRequests, TransferOwnership(r)
  PROVE  OrganizationsInv' /\ OwnerStays
<1>1. PICK p : p = orgReq[r].route.target
  OBVIOUS
<1>2. orgReq[r].at = "ready" /\ orgReq[r].route.kind = "transfer" /\ UNCHANGED <<org, rows, keys>>
  BY DEF TransferOwnership, Ready
<1>3. p \in People /\ "allowed" \in held'[r] /\ "active" \in held'[r] /\ org # "none"
  BY <1>1, <1>2, ReadyIs DEF OrganizationsInv, RouteOK
<1>4. CASE members[p] = NotMember
  <2>1. members' = members /\ OrgGoto(r, OrgDone("refused"))
    BY <1>1, <1>4 DEF TransferOwnership
  <2>. QED
    BY <1>2, <2>1, RequestEnds, TablesKept DEF OrganizationsInv
<1>5. CASE members[p] # NotMember
  <2>1. members' = Transferred(p) /\ OrgGoto(r, OrgDone("acted"))
    BY <1>1, <1>5 DEF TransferOwnership
  <2>2. ASSUME NEW q \in People, members[q] \in MemberRows
        PROVE  /\ members'[q] \in MemberRows /\ members'[q].id = members[q].id
               /\ members'[q].role = IF q = p THEN "owner" ELSE IF members[q].role = "owner" THEN "admin" ELSE members[q].role
    BY <2>1, <2>2, OrganizationRoles DEF Transferred, MemberRows
  <2>3. ASSUME NEW q \in People, members[q] \notin MemberRows
        PROVE  q # p /\ members[q] = NotMember /\ members'[q] = NotMember
    BY <1>5, <2>1, <2>3 DEF Transferred, OrganizationsInv, TablesInv, NotMember
  <2>4. members' \in [People -> MemberRows \cup {NotMember}]
    <3>1. DOMAIN members' = People /\ members' = [q \in People |-> members'[q]]
      BY <2>1 DEF Transferred
    <3>2. \A q \in People : members'[q] \in MemberRows \cup {NotMember}
      BY <2>2, <2>3
    <3>. QED
      BY <3>1, <3>2
  <2>5. \A q \in People : members'[q].id = members[q].id /\ (members'[q] = NotMember <=> members[q] = NotMember)
    BY <2>2, <2>3, OrganizationsAssumption DEF MemberRows, NotMember
  <2>6. members[p] \in MemberRows /\ members'[p].role = "owner"
    BY <1>3, <2>2, <2>3
  <2>7. \A q \in People : members'[q].role = "owner" => q = p
    BY <2>2, <2>3 DEF NotMember
  <2>8. TablesInv'
    BY <1>2, <1>3, <2>4, <2>5, <2>7 DEF OrganizationsInv, TablesInv
  <2>9. OwnerStays
    BY <1>3, <2>6 DEF OwnerStays, Owners
  <2>. QED
    BY <1>2, <1>3, <2>1, <2>8, <2>9, RequestEnds DEF OrganizationsInv
<1>. QED
  BY <1>4, <1>5

LEMMA StaffOK ==
  ASSUME OrganizationsInv, Witness, NEW r \in OrgRequests,
         (\E status \in {"active", "suspended"} : LoadOrganization(r, status)) \/ SetOrganizationStatus(r)
  PROVE  OrganizationsInv' /\ OwnerStays
<1>1. ASSUME NEW status \in {"active", "suspended"}, LoadOrganization(r, status)
      PROVE  OrganizationsInv' /\ OwnerStays
  <2>1. OrgGoto(r, [at |-> "staff", status |-> status]) /\ UNCHANGED <<org, members, rows, keys>>
    BY <1>1 DEF LoadOrganization
  <2>2. OrgReqOK([at |-> "staff", status |-> status], held'[r])
    BY DEF OrgReqOK
  <2>. QED
    BY <2>1, <2>2, OneRequestGoesOn, TablesKept DEF OrganizationsInv
<1>2. CASE SetOrganizationStatus(r)
  <2>1. /\ orgReq[r].at = "staff" /\ org' = orgReq[r].status
        /\ OrgGoto(r, OrgDone("staff")) /\ UNCHANGED <<members, rows, keys>>
    BY <1>2 DEF SetOrganizationStatus
  <2>2. OrgReqOK(orgReq[r], held[r])
    BY DEF OrganizationsInv, OrgRequestsInv
  <2>3. org' \in {"active", "suspended"}
    BY <2>1, <2>2 DEF OrgReqOK, OrgIdle
  <2>4. TablesInv' /\ OwnerStays
    BY <2>1, <2>3 DEF OrganizationsInv, TablesInv, OwnerStays
  <2>. QED
    BY <2>1, <2>3, <2>4, RequestEnds DEF OrganizationsInv
<1>. QED
  BY <1>1, <1>2

\* A step that changes one key.
LEMMA KeyChanges ==
  ASSUME OrganizationsInv, NEW k \in Keys, UNCHANGED <<org, members, rows>>,
         NEW row \in [state : {"none", "valid", "revoked", "expired"}, scopes : SUBSET API_KEY_SCOPES],
         keys' = keys \/ keys' = [keys EXCEPT ![k] = row]
  PROVE  TablesInv' /\ OwnerStays
<1>1. keys' \in [Keys -> [state : {"none", "valid", "revoked", "expired"}, scopes : SUBSET API_KEY_SCOPES]]
  BY DEF OrganizationsInv, TablesInv
<1>. QED
  BY <1>1 DEF OrganizationsInv, TablesInv, OwnerStays

LEMMA CreateKeyOK ==
  ASSUME OrganizationsInv, Witness, NEW r \in OrgRequests, CreateKey(r)
  PROVE  OrganizationsInv' /\ OwnerStays
<1>1. PICK k : k = orgReq[r].route.key
  OBVIOUS
<1>2. PICK scopes : scopes = orgReq[r].route.scopes
  OBVIOUS
<1>3. orgReq[r].at = "ready" /\ orgReq[r].route.kind = "createKey" /\ UNCHANGED <<org, members, rows>>
  BY DEF CreateKey, Ready
<1>4. k \in Keys /\ "allowed" \in held'[r] /\ "active" \in held'[r]
  BY <1>1, <1>3, ReadyIs DEF OrganizationsInv, RouteOK
<1>5. CASE scopes \subseteq API_KEY_SCOPES \intersect ROLE_PERMISSIONS[orgReq[r].role] /\ keys[k] = NoKey
  <2>1. keys' = [keys EXCEPT ![k] = [state |-> "valid", scopes |-> scopes]] /\ OrgGoto(r, OrgDone("acted"))
    BY <1>1, <1>2, <1>5 DEF CreateKey
  <2>2. [state |-> "valid", scopes |-> scopes]
          \in [state : {"none", "valid", "revoked", "expired"}, scopes : SUBSET API_KEY_SCOPES]
    BY <1>5
  <2>. QED
    BY <1>3, <1>4, <2>1, <2>2, KeyChanges, RequestEnds DEF OrganizationsInv
<1>6. CASE ~(scopes \subseteq API_KEY_SCOPES \intersect ROLE_PERMISSIONS[orgReq[r].role] /\ keys[k] = NoKey)
  <2>1. keys' = keys /\ OrgGoto(r, OrgDone("refused"))
    BY <1>1, <1>2, <1>6 DEF CreateKey
  <2>. QED
    BY <1>3, <2>1, RequestEnds, TablesKept DEF OrganizationsInv
<1>. QED
  BY <1>5, <1>6

LEMMA RevokeKeyOK ==
  ASSUME OrganizationsInv, Witness, NEW r \in OrgRequests, RevokeKey(r)
  PROVE  OrganizationsInv' /\ OwnerStays
<1>1. PICK k : k = orgReq[r].route.key
  OBVIOUS
<1>2. orgReq[r].at = "ready" /\ orgReq[r].route.kind = "revokeKey" /\ UNCHANGED <<org, members, rows>>
  BY DEF RevokeKey, Ready
<1>3. k \in Keys /\ "allowed" \in held'[r] /\ "active" \in held'[r]
  BY <1>1, <1>2, ReadyIs DEF OrganizationsInv, RouteOK
<1>4. /\ keys' = IF keys[k] = NoKey THEN keys ELSE [keys EXCEPT ![k].state = "revoked"]
      /\ OrgGoto(r, OrgDone(IF keys[k] = NoKey THEN "refused" ELSE "acted"))
  BY <1>1 DEF RevokeKey
<1>5. PICK row : row = [keys[k] EXCEPT !.state = "revoked"]
  OBVIOUS
<1>6. row \in [state : {"none", "valid", "revoked", "expired"}, scopes : SUBSET API_KEY_SCOPES]
  BY <1>3, <1>5 DEF OrganizationsInv, TablesInv
<1>7. keys' = keys \/ keys' = [keys EXCEPT ![k] = row]
  BY <1>4, <1>5
<1>8. TablesInv' /\ OwnerStays
  BY <1>2, <1>3, <1>6, <1>7, KeyChanges
<1>9. PICK did \in {"acted", "refused"} : OrgGoto(r, OrgDone(did))
  BY <1>4
<1>. QED
  BY <1>2, <1>3, <1>8, <1>9, RequestEnds DEF OrganizationsInv

LEMMA ExpireKeyOK ==
  ASSUME OrganizationsInv, Witness, NEW k \in Keys, ExpireKey(k)
  PROVE  OrganizationsInv' /\ OwnerStays
<1>1. keys' = [keys EXCEPT ![k].state = "expired"] /\ UNCHANGED <<org, members, rows, orgReq>>
  BY DEF ExpireKey
<1>2. PICK row : row = [keys[k] EXCEPT !.state = "expired"]
  OBVIOUS
<1>3. row \in [state : {"none", "valid", "revoked", "expired"}, scopes : SUBSET API_KEY_SCOPES]
  BY <1>2 DEF OrganizationsInv, TablesInv
<1>4. TablesInv' /\ OwnerStays
  BY <1>1, <1>2, <1>3, KeyChanges
<1>. QED
  BY <1>1, <1>4, NoRequestGoesOn DEF OrganizationsInv

LEMMA OrganizationsStep ==
  ASSUME OrganizationsInv, [OrganizationsNext]_organizationsVars
  PROVE  OrganizationsInv' /\ [OwnerStays]_organizationsVars
<1>1. CASE UNCHANGED organizationsVars
  BY <1>1 DEF organizationsVars, OrganizationsInv, TablesInv, OrgRequestsInv
<1>2. CASE OrganizationsNext
  BY <1>2, CreateOK, FindMembershipOK, FindKeyOK, StaffOK, CheckAccessOK, CheckKeyOK, RenameOK, AddMemberOK,
     LoadMemberOK, ChangeRoleOK, RemoveMemberOK, TransferOwnershipOK, CreateKeyOK, RevokeKeyOK, ExpireKeyOK
     DEF OrganizationsNext
<1>. QED
  BY <1>1, <1>2

LEMMA OrganizationsStart == OrganizationsInit => OrganizationsInv
<1>. SUFFICES ASSUME OrganizationsInit PROVE OrganizationsInv
  OBVIOUS
<1>1. TablesInv
  BY OrganizationsAssumption DEF OrganizationsInit, TablesInv, NotMember, NoKey
<1>2. OrgRequestsInv
  BY DEF OrganizationsInit, OrgRequestsInv, OrgReqOK
<1>. QED
  BY <1>1, <1>2 DEF OrganizationsInv

\* OrganizationsService, ApiKeysService and their guards: for any people, keys, requests and
\* memberships, rows are well formed, transfers that race leave at most one owner, and whoever
\* acted had the permission, and the organization was active, while the request ran.
THEOREM OrganizationsAuthority == OrganizationsSpec => []AuthorityIsSound
<1>1. OrganizationsInv => AuthorityIsSound
  <2>. SUFFICES ASSUME OrganizationsInv PROVE AuthorityIsSound
    OBVIOUS
  <2>1. OrganizationsTypeOK
    BY DEF OrganizationsInv, TablesInv, OrganizationsTypeOK, MemberRows
  <2>2. AtMostOneOwner
    <3>1. CASE Owners(members) = {}
      BY <3>1, FS_EmptySet DEF AtMostOneOwner
    <3>2. ASSUME NEW o \in Owners(members) PROVE AtMostOneOwner
      <4>1. Owners(members) = {o}
        BY DEF OrganizationsInv, TablesInv, Owners
      <4>2. Cardinality({o}) = 1
        BY FS_Singleton
      <4>. QED
        BY <4>1, <4>2 DEF AtMostOneOwner
    <3>. QED
      BY <3>1, <3>2
  <2>3. AuthorityWasHeld
    <3>. SUFFICES ASSUME NEW r \in OrgRequests, orgReq[r].at = "done", orgReq[r].did = "acted"
                  PROVE  held[r] = {"active", "allowed"}
      BY DEF AuthorityWasHeld
    <3>1. OrgReqOK(orgReq[r], held[r]) /\ held[r] \subseteq {"active", "allowed"}
      BY DEF OrganizationsInv, OrgRequestsInv
    <3>2. "active" \in held[r] /\ "allowed" \in held[r]
      BY <3>1 DEF OrgReqOK, OrgIdle
    <3>. QED
      BY <3>1, <3>2
  <2>. QED
    BY <2>1, <2>2, <2>3 DEF AuthorityIsSound
<1>. QED
  BY <1>1, OrganizationsStart, OrganizationsStep, PTL DEF OrganizationsSpec

\* changeMemberRole and removeMember read the member before their transaction: an organization
\* loses its owner only to one of them whose member has become the owner since.
THEOREM OwnerIsLostToStaleRoleOnly == OrganizationsSpec => OwnerLostOnlyToStaleRole
<1>1. OrganizationsInv /\ [OrganizationsNext]_organizationsVars => [OwnerStays]_organizationsVars
  BY OrganizationsStep
<1>. QED
  BY <1>1, OrganizationsStart, OrganizationsStep, PTL DEF OrganizationsSpec, OwnerLostOnlyToStaleRole

-----------------------------------------------------------------------------
(* Accounts: refresh tokens *)

LEMMA PlatformRoles ==
  Roles = {"user", "support", "finance", "risk", "admin"}
  BY DEF Roles, PLATFORM_ROLE_PERMISSIONS

UserRows == [role : Roles, status : Statuses]
TokenRows == [user : Users, family : Nat, revoked : BOOLEAN, replaced : BOOLEAN, expired : BOOLEAN]

\* The rows of refresh_tokens: a family starts with the token whose id it has.
TokensInv ==
  /\ issued \in 0..MaxTokens
  /\ DOMAIN tokens \subseteq 1..issued
  /\ tokens \in [DOMAIN tokens -> TokenRows]
  /\ \A t \in DOMAIN tokens : tokens[t].family \in 1..t /\ (tokens[t].replaced => tokens[t].revoked)
  /\ OneLiveTokenPerSession

LEMMA TokensRevoked ==
  ASSUME TokensInv, NEW revoking, tokens' = Revoked(revoking), UNCHANGED issued
  PROVE  TokensInv'
<1>1. DOMAIN tokens' = DOMAIN tokens
  BY DEF Revoked
<1>2. ASSUME NEW t \in DOMAIN tokens
      PROVE  /\ tokens'[t] \in TokenRows
             /\ tokens'[t].family = tokens[t].family
             /\ tokens'[t].replaced => tokens'[t].revoked
             /\ tokens[t].revoked => tokens'[t].revoked
  <2>1. tokens[t] \in TokenRows /\ (tokens[t].replaced => tokens[t].revoked)
    BY DEF TokensInv
  <2>2. CASE t \in revoking
    <3>1. tokens'[t] = [tokens[t] EXCEPT !.revoked = TRUE]
      BY <2>2 DEF Revoked
    <3>. QED
      BY <2>1, <3>1 DEF TokenRows
  <2>3. CASE t \notin revoking
    <3>1. tokens'[t] = tokens[t]
      BY <2>3 DEF Revoked
    <3>. QED
      BY <2>1, <3>1
  <2>. QED
    BY <2>2, <2>3
<1>3. tokens' \in [DOMAIN tokens' -> TokenRows]
  <2>1. tokens' = [t \in DOMAIN tokens |-> tokens'[t]]
    BY DEF Revoked
  <2>. QED
    BY <1>1, <1>2, <2>1
<1>4. OneLiveTokenPerSession'
  BY <1>1, <1>2 DEF TokensInv, OneLiveTokenPerSession, Live
<1>. QED
  BY <1>1, <1>2, <1>3, <1>4 DEF TokensInv

\* A new token takes the next id, and no other token of its family works any more.
LEMMA TokenInserted ==
  ASSUME TokensInv, issued < MaxTokens, issued' = issued + 1,
         DOMAIN tokens' = DOMAIN tokens \cup {issued + 1},
         tokens' = [t \in DOMAIN tokens' |-> tokens'[t]],
         NEW row \in TokenRows, tokens'[issued + 1] = row, row.family \in 1..(issued + 1), ~row.replaced,
         \A t \in DOMAIN tokens :
           /\ tokens'[t] \in TokenRows /\ tokens'[t].family = tokens[t].family
           /\ tokens[t].revoked \/ tokens[t].family = row.family => tokens'[t].revoked
           /\ tokens'[t].replaced => tokens'[t].revoked
  PROVE  TokensInv'
<1>1. issued \in Nat /\ issued' \in 0..MaxTokens /\ DOMAIN tokens' \subseteq 1..issued'
      /\ issued + 1 \notin DOMAIN tokens
  BY AccountsAssumption DEF TokensInv
<1>2. \A t \in DOMAIN tokens' : tokens'[t] \in TokenRows
  OBVIOUS
<1>3. tokens' \in [DOMAIN tokens' -> TokenRows]
  BY <1>2
<1>4. \A t \in DOMAIN tokens' : tokens'[t].family \in 1..t /\ (tokens'[t].replaced => tokens'[t].revoked)
  BY DEF TokensInv
<1>5. \A t \in DOMAIN tokens : ~tokens'[t].revoked => ~tokens[t].revoked /\ tokens[t].family # row.family
  OBVIOUS
<1>6. OneLiveTokenPerSession'
  <2>. SUFFICES ASSUME NEW s \in DOMAIN tokens', NEW t \in DOMAIN tokens', ~tokens'[s].revoked,
                       ~tokens'[t].revoked, tokens'[s].family = tokens'[t].family
                PROVE  s = t
    BY DEF OneLiveTokenPerSession, Live
  <2>1. CASE s \in DOMAIN tokens /\ t \in DOMAIN tokens
    BY <1>5, <2>1 DEF TokensInv, OneLiveTokenPerSession, Live
  <2>2. CASE s \notin DOMAIN tokens \/ t \notin DOMAIN tokens
    BY <1>5, <2>2
  <2>. QED
    BY <2>1, <2>2
<1>. QED
  BY <1>1, <1>3, <1>4, <1>6 DEF TokensInv

LEMMA InsertedRow ==
  ASSUME TokensInv, NEW u \in Users, NEW f \in 1..(issued + 1)
  PROVE  /\ DOMAIN Inserted(u, f) = DOMAIN tokens \cup {issued + 1}
         /\ \A t \in DOMAIN tokens : Inserted(u, f)[t] = tokens[t]
         /\ Inserted(u, f)[issued + 1]
              = [user |-> u, family |-> f, revoked |-> FALSE, replaced |-> FALSE, expired |-> FALSE]
         /\ [user |-> u, family |-> f, revoked |-> FALSE, replaced |-> FALSE, expired |-> FALSE] \in TokenRows
<1>1. issued \in Nat /\ issued + 1 \notin DOMAIN tokens
  BY AccountsAssumption DEF TokensInv
<1>. QED
  BY <1>1 DEF Inserted, TokenRows

LEMMA SessionStarted ==
  ASSUME TokensInv, NEW u \in Users, issued < MaxTokens, issued' = issued + 1,
         tokens' = Inserted(u, issued + 1)
  PROVE  TokensInv'
<1>. DEFINE row == [user |-> u, family |-> issued + 1, revoked |-> FALSE, replaced |-> FALSE, expired |-> FALSE]
<1>1. issued \in Nat /\ issued + 1 \in 1..(issued + 1)
  BY AccountsAssumption DEF TokensInv
<1>2. /\ DOMAIN tokens' = DOMAIN tokens \cup {issued + 1}
      /\ \A t \in DOMAIN tokens : tokens'[t] = tokens[t]
      /\ tokens'[issued + 1] = row /\ row \in TokenRows
  BY <1>1, InsertedRow
<1>3. tokens' = [t \in DOMAIN tokens' |-> tokens'[t]]
  BY DEF Inserted
<1>4. row.family = issued + 1 /\ ~row.replaced
  OBVIOUS
<1>. HIDE DEF row
<1>5. ASSUME NEW t \in DOMAIN tokens
      PROVE  /\ tokens'[t] \in TokenRows /\ tokens'[t].family = tokens[t].family
             /\ tokens[t].revoked \/ tokens[t].family = row.family => tokens'[t].revoked
             /\ tokens'[t].replaced => tokens'[t].revoked
  <2>1. tokens[t].family # issued + 1
    BY <1>1 DEF TokensInv
  <2>. QED
    BY <1>2, <1>4, <2>1 DEF TokensInv
<1>. QED
  BY <1>1, <1>2, <1>3, <1>4, <1>5, TokenInserted

LEMMA TokenRotated ==
  ASSUME TokensInv, issued < MaxTokens, issued' = issued + 1, NEW t \in DOMAIN tokens, Live(t),
         tokens' = [Inserted(tokens[t].user, tokens[t].family) EXCEPT ![t].revoked = TRUE, ![t].replaced = TRUE]
  PROVE  /\ TokensInv' /\ DOMAIN tokens \subseteq DOMAIN tokens'
         /\ \A s \in DOMAIN tokens \ {t} : tokens'[s] = tokens[s]
<1>1. PICK u : u = tokens[t].user
  OBVIOUS
<1>2. PICK f : f = tokens[t].family
  OBVIOUS
<1>3. PICK row : row = [user |-> u, family |-> f, revoked |-> FALSE, replaced |-> FALSE, expired |-> FALSE]
  OBVIOUS
<1>4. /\ issued \in Nat /\ u \in Users /\ f \in 1..(issued + 1) /\ issued + 1 \notin DOMAIN tokens
      /\ tokens[t] \in TokenRows
  BY <1>1, <1>2, AccountsAssumption DEF TokensInv, TokenRows
<1>5. /\ DOMAIN Inserted(u, f) = DOMAIN tokens \cup {issued + 1}
      /\ \A s \in DOMAIN tokens : Inserted(u, f)[s] = tokens[s]
      /\ Inserted(u, f)[issued + 1] = row /\ row \in TokenRows
  BY <1>3, <1>4, InsertedRow
<1>6. PICK old : old = [tokens[t] EXCEPT !.revoked = TRUE, !.replaced = TRUE]
  OBVIOUS
<1>7. tokens' = [Inserted(u, f) EXCEPT ![t] = old]
  BY <1>1, <1>2, <1>5, <1>6
<1>8. old \in TokenRows /\ old.family = f /\ old.revoked
  BY <1>2, <1>4, <1>6 DEF TokenRows
<1>9. /\ DOMAIN tokens' = DOMAIN tokens \cup {issued + 1}
      /\ \A s \in DOMAIN tokens : tokens'[s] = IF s = t THEN old ELSE tokens[s]
      /\ tokens'[issued + 1] = row
  BY <1>4, <1>5, <1>7
<1>10. tokens' = [s \in DOMAIN tokens' |-> tokens'[s]]
  BY <1>5, <1>7
<1>11. row.family = f /\ ~row.replaced
  BY <1>3
<1>12. ASSUME NEW s \in DOMAIN tokens
       PROVE  /\ tokens'[s] \in TokenRows /\ tokens'[s].family = tokens[s].family
              /\ tokens[s].revoked \/ tokens[s].family = row.family => tokens'[s].revoked
              /\ tokens'[s].replaced => tokens'[s].revoked
  <2>1. tokens[s].family = f /\ s # t => tokens[s].revoked
    BY <1>2 DEF TokensInv, OneLiveTokenPerSession, Live
  <2>2. tokens[s] \in TokenRows /\ (tokens[s].replaced => tokens[s].revoked)
    BY DEF TokensInv
  <2>. QED
    BY <1>2, <1>8, <1>9, <1>11, <2>1, <2>2
<1>. QED
  BY <1>4, <1>5, <1>9, <1>10, <1>11, <1>12, TokenInserted

LEMMA TokenExpired ==
  ASSUME TokensInv, NEW t \in DOMAIN tokens, tokens' = [tokens EXCEPT ![t].expired = TRUE], UNCHANGED issued
  PROVE  /\ TokensInv' /\ DOMAIN tokens' = DOMAIN tokens
         /\ \A s \in DOMAIN tokens : tokens'[s].revoked = tokens[s].revoked /\ tokens'[s].user = tokens[s].user
<1>1. PICK row : row = [tokens[t] EXCEPT !.expired = TRUE]
  OBVIOUS
<1>2. tokens' = [tokens EXCEPT ![t] = row]
  BY <1>1
<1>3. /\ row \in TokenRows /\ row.family = tokens[t].family /\ row.user = tokens[t].user
      /\ row.replaced = tokens[t].replaced /\ row.revoked = tokens[t].revoked
  BY <1>1 DEF TokensInv, TokenRows
<1>4. DOMAIN tokens' = DOMAIN tokens /\ \A s \in DOMAIN tokens : tokens'[s] = IF s = t THEN row ELSE tokens[s]
  BY <1>2 DEF TokensInv
<1>5. \A s \in DOMAIN tokens :
        /\ tokens'[s].family = tokens[s].family /\ tokens'[s].user = tokens[s].user
        /\ tokens'[s].replaced = tokens[s].replaced /\ tokens'[s].revoked = tokens[s].revoked
  BY <1>3, <1>4
<1>6. OneLiveTokenPerSession'
  BY <1>4, <1>5 DEF TokensInv, OneLiveTokenPerSession, Live
<1>7. tokens' \in [DOMAIN tokens' -> TokenRows]
  BY <1>2, <1>3 DEF TokensInv
<1>. QED
  BY <1>4, <1>5, <1>6, <1>7 DEF TokensInv

LEMMA TokensDeleted ==
  ASSUME TokensInv, NEW first, tokens' = [k \in DOMAIN tokens \ first |-> tokens[k]], UNCHANGED issued
  PROVE  TokensInv'
  BY DEF TokensInv, OneLiveTokenPerSession, Live

-----------------------------------------------------------------------------
(* Accounts: requests *)

Outcomes == [at : {"done"}, user : Users \cup {"none"}, got : {"tokens", "nothing"}]
Operations == StatusChanges \cup RoleChanges

\* Where a request may be when n tokens have been issued.
AccountReqOK(q, n) ==
  \/ q = Idle
  \/ q \in [at : {"rotating"}, user : Users, lock : 1..n]
  \/ q \in [at : {"check"}, user : Users, family : 1..n]
  \/ q \in [at : {"start", "revokeAll"}, user : Users]
  \/ (\E revoking, lock : q \in [at : {"blocked"}, rows : {revoking}, families : SUBSET (1..n), lock : {lock},
                                 user : Users, next : Outcomes])
       /\ q.next = Done(q.user, "nothing")
  \/ q \in [at : {"load"}, user : Users, actorRole : Roles, op : Operations]
  \/ q \in [at : {"apply"}, user : Users, op : Operations, seen : UserRows]
  \/ q \in Outcomes

WorksIn(ts, q) == q.lock \in DOMAIN ts /\ ~ts[q.lock].revoked /\ ts[q.lock].user = q.user

\* A rotation has locked a token that works, and no other rotation has.
LocksInv ==
  /\ \A r \in Requests : req[r].at = "rotating" => WorksIn(tokens, req[r])
  /\ \A r, s \in Requests : req[r].at = "rotating" /\ req[s].at = "rotating" /\ req[r].lock = req[s].lock => r = s

\* A request that is barred is not about to be given tokens, and its user is suspended.
BarredInv ==
  /\ barred \subseteq Requests
  /\ \A r \in barred :
       \/ req[r].at = "done" /\ req[r].got # "tokens"
       \/ req[r].at \notin {"idle", "start", "done"} /\ users[req[r].user].status = "suspended"

\* The user whom a request is about to change is registered.
TargetsInv == \A r \in Requests : req[r].at = "apply" => users[req[r].op.target] \in UserRows

AccountsInv ==
  /\ users \in [Users -> UserRows \cup {NoUser}]
  /\ TokensInv
  /\ req \in [Requests -> {req[r] : r \in Requests}] /\ \A r \in Requests : AccountReqOK(req[r], issued)
  /\ ended \subseteq 1..issued
  /\ LocksInv /\ BarredInv /\ TargetsInv

LEMMA MoreTokens ==
  ASSUME NEW n \in Nat, NEW m \in Nat, n <= m, NEW q, AccountReqOK(q, n)
  PROVE  AccountReqOK(q, m)
<1>1. 1..n \subseteq 1..m
  OBVIOUS
<1>. QED
  BY <1>1, Zenon DEF AccountReqOK

LEMMA OperationIs ==
  ASSUME NEW op \in Operations
  PROVE  /\ op.target \in Users
         /\ \/ op.field = "status" /\ op.value \in Statuses
            \/ op.field = "role" /\ op.value \in Roles
         /\ op.value = "active" \/ op.value = "suspended" => op.field = "status"
  BY PlatformRoles DEF Operations, StatusChanges, RoleChanges, Statuses

\* One request goes on, in a step that may revoke and insert tokens but leaves the ones that
\* the rotations of others have locked.
LEMMA RequestGoesOn ==
  ASSUME AccountsInv, NEW r \in Requests, NEW next, req' = [req EXCEPT ![r] = next],
         TokensInv', issued <= issued', ended' \subseteq 1..issued',
         users' \in [Users -> UserRows \cup {NoUser}],
         \A u \in Users : users[u] \in UserRows => users'[u] \in UserRows,
         AccountReqOK(next, issued'), next.at = "apply" => users'[next.op.target] \in UserRows,
         \A s \in Requests \ {r} : req[s].at = "rotating" => WorksIn(tokens', req[s]),
         next.at = "rotating" => WorksIn(tokens', next) /\ next.lock \notin Locked(r),
         BarredInv'
  PROVE  AccountsInv'
<1>1. issued \in Nat /\ issued' \in Nat
  BY AccountsAssumption DEF AccountsInv, TokensInv
<1>2. req'[r] = next /\ \A s \in Requests \ {r} : req'[s] = req[s]
  BY DEF AccountsInv
<1>3. DOMAIN req' = Requests /\ req' \in [Requests -> {req'[s] : s \in Requests}]
  BY DEF AccountsInv
<1>4. \A s \in Requests : AccountReqOK(req'[s], issued')
  BY <1>1, <1>2, MoreTokens DEF AccountsInv
<1>5. \A s \in Requests \ {r} : req[s].at = "rotating" => req[s].lock \in Locked(r)
  BY DEF Locked
<1>6. LocksInv'
  <2>1. \A s \in Requests : req'[s].at = "rotating" => WorksIn(tokens', req'[s])
    BY <1>2
  <2>2. \A s, t \in Requests :
          req'[s].at = "rotating" /\ req'[t].at = "rotating" /\ req'[s].lock = req'[t].lock => s = t
    BY <1>2, <1>5 DEF AccountsInv, LocksInv
  <2>. QED
    BY <2>1, <2>2 DEF LocksInv
<1>7. ASSUME NEW s \in Requests, req[s].at = "apply" PROVE users[req[s].op.target] \in UserRows /\ req[s].op.target \in Users
  <2>1. AccountReqOK(req[s], issued)
    BY DEF AccountsInv
  <2>2. req[s].op \in Operations
    BY <1>7, <2>1 DEF AccountReqOK, Idle, Outcomes
  <2>. QED
    BY <1>7, <2>2, OperationIs DEF AccountsInv, TargetsInv
<1>8. TargetsInv'
  BY <1>2, <1>7 DEF TargetsInv
<1>. QED
  BY <1>3, <1>4, <1>6, <1>8 DEF AccountsInv

\* What a request that goes on does to the requests that are barred.
LEMMA BarredGoesOn ==
  ASSUME AccountsInv, NEW r \in Requests, NEW next, req' = [req EXCEPT ![r] = next], UNCHANGED <<users, barred>>,
         \/ req[r].at = "idle"
         \/ next.at = "done" /\ next.got # "tokens"
         \/ next.at = "done" /\ req[r].at = "start"
         \/ next.at \notin {"idle", "start"} /\ next.user = req[r].user /\ next.at # "done" /\ req[r].at # "done"
         \/ Active(req[r].user) /\ req[r].at # "done"
  PROVE  BarredInv'
<1>1. req'[r] = next /\ \A s \in Requests \ {r} : req'[s] = req[s]
  BY DEF AccountsInv
<1>2. barred \subseteq Requests
  BY DEF AccountsInv, BarredInv
<1>3. ASSUME r \in barred
      PROVE  \/ req'[r].at = "done" /\ req'[r].got # "tokens"
             \/ req'[r].at \notin {"idle", "start", "done"} /\ users[req'[r].user].status = "suspended"
  BY <1>1, <1>3 DEF AccountsInv, BarredInv, Active
<1>. QED
  BY <1>1, <1>2, <1>3 DEF AccountsInv, BarredInv

LEMMA BarredBegins ==
  ASSUME AccountsInv, NEW r \in Requests, NEW u \in Users, NEW next, Begin(r, u, next),
         users' = users \/ (users[u] = NoUser /\ \E row : users' = [users EXCEPT ![u] = row]),
         next.user = u, next.at \notin {"idle", "done"}, users[u].status = "suspended" => next.at # "start"
  PROVE  BarredInv' /\ req' = [req EXCEPT ![r] = next]
<1>1. req'[r] = next /\ \A s \in Requests \ {r} : req'[s] = req[s]
  BY DEF AccountsInv, Begin
<1>2. req[r].at = "idle" /\ barred \subseteq Requests /\ r \notin barred
  BY DEF Begin, Idle, AccountsInv, BarredInv
<1>3. ASSUME NEW v \in Users, users[v].status = "suspended" PROVE users'[v] = users[v]
  BY <1>3 DEF NoUser, AccountsInv
<1>4. ASSUME NEW s \in barred', s # r
      PROVE  \/ req'[s].at = "done" /\ req'[s].got # "tokens"
             \/ req'[s].at \notin {"idle", "start", "done"} /\ users'[req'[s].user].status = "suspended"
  <2>1. s \in barred /\ s \in Requests /\ req'[s] = req[s]
    BY <1>1, <1>2, <1>4 DEF Begin
  <2>2. req[s].at \notin {"idle", "start", "done"} => req[s].user \in Users
    BY <2>1 DEF AccountsInv, AccountReqOK, Idle, Outcomes
  <2>. QED
    BY <1>3, <2>1, <2>2 DEF AccountsInv, BarredInv
<1>5. ASSUME r \in barred' PROVE req'[r].at \notin {"idle", "start", "done"} /\ users'[req'[r].user].status = "suspended"
  <2>1. users[u].status = "suspended"
    BY <1>2, <1>5 DEF Begin
  <2>. QED
    BY <1>1, <1>3, <2>1
<1>6. barred' \subseteq Requests
  BY <1>2 DEF Begin
<1>. QED
  BY <1>4, <1>5, <1>6 DEF BarredInv, Begin

\* A step that leaves the tokens as they are.
LEMMA TokensKept ==
  ASSUME AccountsInv, UNCHANGED <<tokens, issued, ended>>
  PROVE  /\ TokensInv' /\ issued <= issued' /\ ended' \subseteq 1..issued' /\ issued \in Nat
         /\ \A s \in Requests : req[s].at = "rotating" => WorksIn(tokens', req[s])
  BY AccountsAssumption DEF AccountsInv, TokensInv, LocksInv, OneLiveTokenPerSession, Live, WorksIn

LEMMA UsersKept ==
  ASSUME AccountsInv, UNCHANGED users
  PROVE  /\ users' \in [Users -> UserRows \cup {NoUser}] /\ AdminIsLeft
         /\ \A u \in Users : users[u] \in UserRows => users'[u] \in UserRows
  BY DEF AccountsInv, AdminIsLeft

\* UPDATE ... SET revoked_at, to its end or to the row it waits for.
LEMMA RevokeOK ==
  ASSUME AccountsInv, NEW r \in Requests, NEW revoking, NEW families \in SUBSET (1..issued), NEW lock,
         NEW u \in Users, Revoke(r, revoking, families, lock, Done(u, "nothing")), UNCHANGED <<users, issued>>,
         req[r].at # "done", req[r].at = "idle" \/ u = req[r].user
  PROVE  AccountsInv' /\ AdminIsLeft
<1>. DEFINE end == Done(u, "nothing")
            wait == [at |-> "blocked", rows |-> revoking, families |-> families, lock |-> lock,
                     user |-> end.user, next |-> end]
<1>1. end \in Outcomes /\ end.at = "done" /\ end.got = "nothing" /\ end.user = u
  BY DEF Done, Outcomes
<1>2. users' \in [Users -> UserRows \cup {NoUser}] /\ AdminIsLeft /\ issued \in Nat /\ issued' = issued
  BY UsersKept, AccountsAssumption DEF AccountsInv, TokensInv
<1>3. CASE revoking \intersect Locked(r) = {}
  <2>1. /\ tokens' = Revoked(revoking) /\ ended' = ended \cup families
        /\ req' = [req EXCEPT ![r] = end] /\ UNCHANGED barred
    BY <1>3 DEF Revoke, Proceed
  <2>2. TokensInv' /\ DOMAIN tokens' = DOMAIN tokens
    BY <1>2, <2>1, TokensRevoked DEF AccountsInv, Revoked
  <2>3. ended' \subseteq 1..issued'
    BY <1>2, <2>1 DEF AccountsInv
  <2>4. ASSUME NEW s \in Requests \ {r}, req[s].at = "rotating" PROVE WorksIn(tokens', req[s])
    <3>1. req[s].lock \in Locked(r) /\ WorksIn(tokens, req[s])
      BY <2>4 DEF Locked, AccountsInv, LocksInv
    <3>2. req[s].lock \notin revoking /\ req[s].lock \in DOMAIN tokens
      BY <1>3, <3>1 DEF WorksIn
    <3>3. tokens'[req[s].lock] = tokens[req[s].lock]
      BY <2>1, <3>2 DEF Revoked
    <3>. QED
      BY <2>2, <3>1, <3>3 DEF WorksIn
  <2>5. AccountReqOK(end, issued')
    BY <1>1 DEF AccountReqOK
  <2>. HIDE DEF end
  <2>6. BarredInv'
    BY <1>1, <2>1, BarredGoesOn
  <2>7. issued <= issued' /\ end.at \notin {"rotating", "apply"}
    BY <1>1, <1>2
  <2>8. req' = [req EXCEPT ![r] = end]
    BY <2>1
  <2>. QED
    BY <1>2, <2>2, <2>3, <2>4, <2>5, <2>6, <2>7, <2>8, UsersKept, RequestGoesOn
<1>4. CASE revoking \intersect Locked(r) # {}
  <2>1. UNCHANGED <<tokens, ended>> /\ req' = [req EXCEPT ![r] = wait] /\ UNCHANGED barred
    BY <1>4 DEF Revoke, Proceed
  <2>2. /\ wait \in [at : {"blocked"}, rows : {revoking}, families : SUBSET (1..issued), lock : {lock},
                     user : Users, next : Outcomes]
        /\ wait.next = Done(wait.user, "nothing") /\ wait.at = "blocked" /\ wait.user = u
    BY <1>1
  <2>. HIDE DEF wait
  <2>3. AccountReqOK(wait, issued')
    BY <1>2, <2>2, Zenon DEF AccountReqOK
  <2>4. BarredInv'
    BY <2>1, <2>2, BarredGoesOn
  <2>. QED
    BY <1>2, <2>1, <2>2, <2>3, <2>4, TokensKept, UsersKept, RequestGoesOn
<1>. QED
  BY <1>3, <1>4

LEMMA UnblockedOK ==
  ASSUME AccountsInv, NEW r \in Requests, Unblocked(r)
  PROVE  AccountsInv' /\ AdminIsLeft
<1>1. req[r].at = "blocked" /\ UNCHANGED <<users, issued>>
      /\ Revoke(r, req[r].rows, req[r].families, 0, req[r].next)
  BY DEF Unblocked
<1>2. AccountReqOK(req[r], issued)
  BY DEF AccountsInv
<1>3. req[r].next = Done(req[r].user, "nothing") /\ req[r].user \in Users /\ req[r].families \in SUBSET (1..issued)
  BY <1>1, <1>2 DEF AccountReqOK, Idle, Outcomes
<1>. QED
  BY <1>1, <1>3, RevokeOK

LEMMA TokenOf ==
  ASSUME AccountsInv, NEW t \in DOMAIN tokens
  PROVE  tokens[t].user \in Users /\ tokens[t].family \in 1..issued /\ t \in 1..issued
  BY AccountsAssumption DEF AccountsInv, TokensInv, TokenRows

LEMMA IdleIs == Idle.at = "idle"
  BY DEF Idle

LEMMA RotateLockOK ==
  ASSUME AccountsInv, NEW r \in Requests, NEW t, RotateLock(r, t)
  PROVE  AccountsInv' /\ AdminIsLeft
<1>. DEFINE next == [at |-> "rotating", user |-> tokens[t].user, lock |-> t]
<1>1. /\ t \in DOMAIN tokens /\ t \notin Locked(r) /\ ~tokens[t].revoked
      /\ Begin(r, tokens[t].user, next) /\ UNCHANGED <<users, tokens, issued, ended>>
  BY DEF RotateLock, Invalid, Reused
<1>2. tokens[t].user \in Users /\ t \in 1..issued
  BY <1>1, TokenOf
<1>3. next \in [at : {"rotating"}, user : Users, lock : 1..issued] /\ next.at = "rotating"
      /\ next.user = tokens[t].user /\ next.lock = t
  BY <1>2
<1>. HIDE DEF next
<1>4. AccountReqOK(next, issued')
  BY <1>1, <1>3 DEF AccountReqOK
<1>5. BarredInv' /\ req' = [req EXCEPT ![r] = next]
  BY <1>1, <1>2, <1>3, BarredBegins
<1>6. WorksIn(tokens', next)
  BY <1>1, <1>3 DEF WorksIn
<1>. QED
  BY <1>1, <1>3, <1>4, <1>5, <1>6, TokensKept, UsersKept, RequestGoesOn

LEMMA RotateCommitOK ==
  ASSUME AccountsInv, NEW r \in Requests, RotateCommit(r)
  PROVE  AccountsInv' /\ AdminIsLeft
<1>1. PICK t : t = req[r].lock
  OBVIOUS
<1>. DEFINE next == [at |-> "check", user |-> tokens[t].user, family |-> tokens[t].family]
<1>2. req[r].at = "rotating" /\ issued < MaxTokens /\ issued' = issued + 1 /\ UNCHANGED <<users, ended, barred>>
      /\ req' = [req EXCEPT ![r] = next]
  BY <1>1 DEF RotateCommit, Proceed
<1>3. tokens' = [Inserted(tokens[t].user, tokens[t].family) EXCEPT ![t].revoked = TRUE, ![t].replaced = TRUE]
  BY <1>1 DEF RotateCommit
<1>4. t \in DOMAIN tokens /\ Live(t) /\ issued \in Nat
  BY <1>1, <1>2, AccountsAssumption DEF AccountsInv, TokensInv, LocksInv, WorksIn, Live
<1>5. /\ TokensInv' /\ DOMAIN tokens \subseteq DOMAIN tokens'
      /\ \A s \in DOMAIN tokens \ {t} : tokens'[s] = tokens[s]
  BY <1>2, <1>3, <1>4, TokenRotated DEF AccountsInv
<1>6. ASSUME NEW s \in Requests \ {r}, req[s].at = "rotating" PROVE WorksIn(tokens', req[s])
  <2>1. WorksIn(tokens, req[s]) /\ req[s].lock # t
    BY <1>1, <1>2, <1>6 DEF AccountsInv, LocksInv
  <2>. QED
    BY <1>5, <2>1 DEF WorksIn
<1>7. tokens[t].user \in Users /\ tokens[t].family \in 1..issued
  BY <1>4, TokenOf
<1>8. next \in [at : {"check"}, user : Users, family : 1..issued'] /\ next.at = "check" /\ next.user = tokens[t].user
  BY <1>2, <1>4, <1>7
<1>. HIDE DEF next
<1>9. AccountReqOK(next, issued')
  BY <1>8 DEF AccountReqOK
<1>10. ended' \subseteq 1..issued' /\ issued <= issued'
  BY <1>2, <1>4 DEF AccountsInv
<1>11. next.user = req[r].user
  BY <1>1, <1>2, <1>8 DEF AccountsInv, LocksInv, WorksIn
<1>12. BarredInv'
  BY <1>2, <1>8, <1>11, BarredGoesOn
<1>. QED
  BY <1>2, <1>5, <1>6, <1>8, <1>9, <1>10, <1>12, UsersKept, RequestGoesOn

\* A request that goes on without touching the tokens or the users.
LEMMA MovesOnly ==
  ASSUME AccountsInv, NEW r \in Requests, NEW next, req' = [req EXCEPT ![r] = next],
         UNCHANGED <<users, tokens, issued, ended>>, AccountReqOK(next, issued), BarredInv',
         next.at # "rotating", next.at = "apply" => users[next.op.target] \in UserRows
  PROVE  AccountsInv' /\ AdminIsLeft
<1>1. AccountReqOK(next, issued') /\ (next.at = "apply" => users'[next.op.target] \in UserRows)
  OBVIOUS
<1>. QED
  BY <1>1, TokensKept, UsersKept, RequestGoesOn

LEMMA DoneIs ==
  ASSUME NEW u \in Users \cup {"none"}, NEW got \in {"tokens", "nothing"}, NEW n
  PROVE  Done(u, got).at = "done" /\ Done(u, got).got = got /\ Done(u, got).user = u /\ AccountReqOK(Done(u, got), n)
<1>1. Done(u, got) \in Outcomes /\ Done(u, got).at = "done" /\ Done(u, got).got = got /\ Done(u, got).user = u
  BY DEF Done, Outcomes
<1>. QED
  BY <1>1 DEF AccountReqOK

\* A request that ends with nothing.
LEMMA EndsWithNothing ==
  ASSUME AccountsInv, NEW r \in Requests, NEW u \in Users \cup {"none"},
         Proceed(r, Done(u, "nothing")), UNCHANGED <<users, tokens, issued, ended>>
  PROVE  AccountsInv' /\ AdminIsLeft
<1>1. PICK next : next = Done(u, "nothing")
  OBVIOUS
<1>2. next.at = "done" /\ next.got = "nothing" /\ AccountReqOK(next, issued)
  BY <1>1, DoneIs
<1>3. req' = [req EXCEPT ![r] = next] /\ UNCHANGED barred
  BY <1>1 DEF Proceed
<1>4. BarredInv'
  BY <1>2, <1>3, BarredGoesOn
<1>. QED
  BY <1>2, <1>3, <1>4, MovesOnly

LEMMA RotateRefusedOK ==
  ASSUME AccountsInv, NEW r \in Requests, NEW t, RotateRefused(r, t) 
  PROVE  AccountsInv' /\ AdminIsLeft
  BY EndsWithNothing DEF RotateRefused

LEMMA RequestDiesOK ==
  ASSUME AccountsInv, NEW r \in Requests, RequestDies(r)
  PROVE  AccountsInv' /\ AdminIsLeft
  BY EndsWithNothing DEF RequestDies

LEMMA FamilyRevokedOK ==
  ASSUME AccountsInv, NEW r \in Requests, NEW t, ReuseDetected(r, t) \/ Logout(r, t)
  PROVE  AccountsInv' /\ AdminIsLeft
<1>1. PICK revoking, lock : Revoke(r, revoking, {tokens[t].family}, lock, Done(tokens[t].user, "nothing"))
  BY DEF ReuseDetected, Logout
<1>2. req[r] = Idle /\ t \in DOMAIN tokens /\ UNCHANGED <<users, issued>>
  BY DEF ReuseDetected, Logout, Reused
<1>3. tokens[t].user \in Users /\ {tokens[t].family} \in SUBSET (1..issued) /\ req[r].at = "idle"
  BY <1>2, TokenOf, IdleIs
<1>. QED
  BY <1>1, <1>2, <1>3, RevokeOK

LEMMA RevokeAllOK ==
  ASSUME AccountsInv, NEW r \in Requests, NEW u \in Users, RevokeAll(r, u), UNCHANGED <<users, issued>>,
         req[r].at # "done", req[r].at = "idle" \/ u = req[r].user
  PROVE  AccountsInv' /\ AdminIsLeft
<1>1. PICK revoking \in SUBSET DOMAIN tokens :
        Revoke(r, revoking, {tokens[t].family : t \in revoking}, 0, Done(u, "nothing"))
  BY DEF RevokeAll, LiveOf
<1>2. {tokens[t].family : t \in revoking} \in SUBSET (1..issued)
  BY TokenOf
<1>. QED
  BY <1>1, <1>2, RevokeOK

LEMMA SuspendedRevokesOK ==
  ASSUME AccountsInv, NEW r \in Requests, SuspendedRevokes(r)
  PROVE  AccountsInv' /\ AdminIsLeft
<1>1. req[r].at = "revokeAll" /\ RevokeAll(r, req[r].user) /\ UNCHANGED <<users, issued>>
  BY DEF SuspendedRevokes
<1>2. AccountReqOK(req[r], issued)
  BY DEF AccountsInv
<1>3. req[r].user \in Users
  BY <1>1, <1>2 DEF AccountReqOK, Idle, Outcomes
<1>. QED
  BY <1>1, <1>3, RevokeAllOK

LEMMA LogoutEverywhereOK ==
  ASSUME AccountsInv, NEW r \in Requests, NEW u \in Users, LogoutEverywhere(r, u)
  PROVE  AccountsInv' /\ AdminIsLeft
  BY RevokeAllOK, IdleIs DEF LogoutEverywhere

LEMMA RefreshCheckOK ==
  ASSUME AccountsInv, NEW r \in Requests, RefreshCheck(r)
  PROVE  AccountsInv' /\ AdminIsLeft
<1>1. req[r].at = "check" /\ UNCHANGED <<users, issued>>
  BY DEF RefreshCheck
<1>2. AccountReqOK(req[r], issued)
  BY DEF AccountsInv
<1>3. req[r].user \in Users /\ {req[r].family} \in SUBSET (1..issued)
  BY <1>1, <1>2 DEF AccountReqOK, Idle, Outcomes
<1>4. CASE Active(req[r].user)
  <2>1. PICK next : next = Done(req[r].user, "tokens")
    OBVIOUS
  <2>2. req' = [req EXCEPT ![r] = next] /\ UNCHANGED <<barred, tokens, ended>>
    BY <1>4, <2>1 DEF RefreshCheck, Proceed
  <2>3. AccountReqOK(next, issued) /\ next.at = "done"
    BY <1>3, <2>1, DoneIs
  <2>4. BarredInv'
    BY <1>1, <1>4, <2>2, BarredGoesOn
  <2>. QED
    BY <1>1, <2>2, <2>3, <2>4, MovesOnly
<1>5. CASE ~Active(req[r].user)
  <2>1. PICK revoking : Revoke(r, revoking, {req[r].family}, 0, Done(req[r].user, "nothing"))
    BY <1>5 DEF RefreshCheck
  <2>. QED
    BY <1>1, <1>3, <2>1, RevokeOK
<1>. QED
  BY <1>4, <1>5

LEMMA StartSessionOK ==
  ASSUME AccountsInv, NEW r \in Requests, StartSession(r)
  PROVE  AccountsInv' /\ AdminIsLeft
<1>1. PICK next : next = Done(req[r].user, "tokens")
  OBVIOUS
<1>2. /\ req[r].at = "start" /\ issued < MaxTokens /\ issued' = issued + 1
      /\ req' = [req EXCEPT ![r] = next] /\ UNCHANGED <<users, ended, barred>>
      /\ tokens' = Inserted(req[r].user, issued + 1)
  BY <1>1 DEF StartSession, Proceed
<1>3. AccountReqOK(req[r], issued)
  BY DEF AccountsInv
<1>4. req[r].user \in Users
  BY <1>2, <1>3 DEF AccountReqOK, Idle, Outcomes
<1>5. AccountReqOK(next, issued') /\ next.at = "done"
  BY <1>1, <1>4, DoneIs
<1>6. TokensInv' /\ issued \in Nat
  BY <1>2, <1>4, SessionStarted, AccountsAssumption DEF AccountsInv, TokensInv
<1>7. issued <= issued' /\ ended' \subseteq 1..issued'
  BY <1>2, <1>6 DEF AccountsInv
<1>8. DOMAIN tokens \subseteq DOMAIN tokens' /\ \A t \in DOMAIN tokens : tokens'[t] = tokens[t]
  BY <1>2 DEF Inserted
<1>9. \A s \in Requests : req[s].at = "rotating" => WorksIn(tokens', req[s])
  BY <1>8 DEF AccountsInv, LocksInv, WorksIn
<1>10. BarredInv'
  BY <1>2, <1>5, BarredGoesOn
<1>. QED
  BY <1>2, <1>5, <1>6, <1>7, <1>9, <1>10, UsersKept, RequestGoesOn

\* The jobs that expire and delete tokens; no request goes on.
LEMMA HousekeepingOK ==
  ASSUME AccountsInv, NEW t, ExpireToken(t) \/ DeleteFinished(t)
  PROVE  AccountsInv' /\ AdminIsLeft
<1>1. UNCHANGED <<users, issued, req, ended, barred>>
  BY DEF ExpireToken, DeleteFinished
<1>2. CASE ExpireToken(t)
  <2>1. t \in DOMAIN tokens /\ tokens' = [tokens EXCEPT ![t].expired = TRUE]
    BY <1>2 DEF ExpireToken, Live
  <2>2. /\ TokensInv' /\ DOMAIN tokens' = DOMAIN tokens
        /\ \A s \in DOMAIN tokens : tokens'[s].revoked = tokens[s].revoked /\ tokens'[s].user = tokens[s].user
    BY <1>1, <2>1, TokenExpired DEF AccountsInv
  <2>3. LocksInv'
    BY <1>1, <2>2 DEF AccountsInv, LocksInv, WorksIn
  <2>. QED
    BY <1>1, <2>2, <2>3, UsersKept DEF AccountsInv, BarredInv, TargetsInv
<1>3. CASE DeleteFinished(t)
  <2>1. PICK first : tokens' = [k \in DOMAIN tokens \ first |-> tokens[k]]
    BY <1>3 DEF DeleteFinished
  <2>2. TokensInv'
    BY <1>1, <2>1, TokensDeleted DEF AccountsInv
  <2>3. \A r \in Requests : req[r].at # "rotating"
    BY <1>3 DEF DeleteFinished
  <2>. QED
    BY <1>1, <2>2, <2>3, UsersKept DEF AccountsInv, BarredInv, LocksInv, TargetsInv
<1>. QED
  BY <1>2, <1>3

LEMMA LoginOK ==
  ASSUME AccountsInv, NEW r \in Requests, NEW u \in Users, Register(r, u) \/ Login(r, u)
  PROVE  AccountsInv' /\ AdminIsLeft
<1>1. PICK next : next = [at |-> "start", user |-> u]
  OBVIOUS
<1>2. /\ req[r] = Idle /\ Begin(r, u, next) /\ UNCHANGED <<tokens, issued, ended>>
      /\ users[u].status # "suspended"
  BY <1>1 DEF Register, Login, Begin, NoUser, Active
<1>3. PICK row \in UserRows : users' = users \/ (users[u] = NoUser /\ users' = [users EXCEPT ![u] = row])
  <2>1. [role |-> "user", status |-> "active"] \in UserRows
    BY PlatformRoles DEF UserRows, Statuses
  <2>. QED
    BY <2>1 DEF Register, Login
<1>4. users' \in [Users -> UserRows \cup {NoUser}]
  BY <1>3 DEF AccountsInv
<1>5. next.at = "start" /\ next.user = u /\ next \in [at : {"start", "revokeAll"}, user : Users]
  BY <1>1
<1>6. AccountReqOK(next, issued')
  BY <1>5 DEF AccountReqOK
<1>7. BarredInv' /\ req' = [req EXCEPT ![r] = next]
  BY <1>2, <1>3, <1>5, BarredBegins
<1>8. AdminIsLeft
  <2>1. req[r].at = "idle" /\ \A s \in Requests \ {r} : req'[s] = req[s]
    BY <1>2, <1>7, IdleIs DEF AccountsInv
  <2>. QED
    BY <2>1 DEF AdminIsLeft
<1>9. \A v \in Users : users[v] \in UserRows => users'[v] \in UserRows
  BY <1>3 DEF AccountsInv
<1>. QED
  BY <1>2, <1>4, <1>5, <1>6, <1>7, <1>8, <1>9, TokensKept, RequestGoesOn

LEMMA AuthorizeOK ==
  ASSUME AccountsInv, NEW r \in Requests, NEW a \in Users, NEW op \in Operations, Authorize(r, a, op)
  PROVE  AccountsInv' /\ AdminIsLeft
<1>1. PICK next : next = [at |-> "load", user |-> a, actorRole |-> users[a].role, op |-> op]
  OBVIOUS
<1>2. users[a].status = "active" /\ Begin(r, a, next) /\ UNCHANGED <<users, tokens, issued, ended>>
  BY <1>1 DEF Authorize, Active
<1>3. users[a] \in UserRows
  BY <1>2 DEF AccountsInv, NoUser
<1>4. users[a].role \in Roles
  BY <1>3 DEF UserRows
<1>5. next.at = "load" /\ next.user = a /\ next \in [at : {"load"}, user : Users, actorRole : Roles, op : Operations]
  BY <1>1, <1>4
<1>6. AccountReqOK(next, issued)
  BY <1>5 DEF AccountReqOK
<1>7. BarredInv' /\ req' = [req EXCEPT ![r] = next]
  BY <1>2, <1>5, BarredBegins
<1>. QED
  BY <1>2, <1>5, <1>6, <1>7, MovesOnly

LEMMA LoadOK ==
  ASSUME AccountsInv, NEW r \in Requests, Load(r)
  PROVE  AccountsInv' /\ AdminIsLeft
<1>1. PICK q : q = req[r]
  OBVIOUS
<1>2. PICK seen : seen = users[q.op.target]
  OBVIOUS
<1>3. req[r].at = "load" /\ UNCHANGED <<users, tokens, issued, ended>>
  BY DEF Load
<1>4. AccountReqOK(req[r], issued)
  BY DEF AccountsInv
<1>5. q.user \in Users /\ q.op \in Operations /\ q.op.target \in Users
  <2>1. q.user \in Users /\ q.op \in Operations
    BY <1>1, <1>3, <1>4 DEF AccountReqOK, Idle, Outcomes
  <2>. QED
    BY <2>1, OperationIs
<1>. DEFINE refused == SelfChange(q) \/ seen = NoUser \/ seen[q.op.field] = q.op.value \/ AboveActor(q, seen)
<1>6. Proceed(r, IF refused THEN Done(q.user, "nothing")
                 ELSE [at |-> "apply", user |-> q.user, op |-> q.op, seen |-> seen])
  BY <1>1, <1>2 DEF Load
<1>7. ~refused => seen \in UserRows
  BY <1>2, <1>5 DEF AccountsInv
<1>. HIDE DEF refused
<1>8. CASE refused
  BY <1>3, <1>5, <1>6, <1>8, EndsWithNothing
<1>9. CASE ~refused
  <2>1. PICK next : next = [at |-> "apply", user |-> q.user, op |-> q.op, seen |-> seen]
    OBVIOUS
  <2>2. req' = [req EXCEPT ![r] = next] /\ UNCHANGED barred
    BY <1>6, <1>9, <2>1 DEF Proceed
  <2>3. /\ next.at = "apply" /\ next.user = q.user
        /\ next \in [at : {"apply"}, user : Users, op : Operations, seen : UserRows]
        /\ users[next.op.target] \in UserRows
    BY <1>2, <1>5, <1>7, <1>9, <2>1
  <2>4. AccountReqOK(next, issued)
    BY <2>3 DEF AccountReqOK
  <2>5. BarredInv'
    BY <1>1, <1>3, <2>2, <2>3, BarredGoesOn
  <2>. QED
    BY <1>3, <2>2, <2>3, <2>4, <2>5, MovesOnly
<1>. QED
  BY <1>8, <1>9

\* Two active admins: one of them is not the target.
LEMMA AnotherAdmin ==
  ASSUME NEW target, AssertNotLastAdmin
  PROVE  \E a \in ActiveAdmins(users) : a # target
<1>. SUFFICES ASSUME ActiveAdmins(users) \subseteq {target} PROVE FALSE
  OBVIOUS
<1>1. IsFiniteSet({target}) /\ Cardinality({target}) = 1
  BY FS_Singleton
<1>2. IsFiniteSet(ActiveAdmins(users)) /\ Cardinality(ActiveAdmins(users)) <= 1
  BY <1>1, FS_Subset
<1>3. Cardinality(ActiveAdmins(users)) \in Nat
  BY <1>2, FS_CardinalityType
<1>. QED
  BY <1>2, <1>3 DEF AssertNotLastAdmin

LEMMA ApplyOK ==
  ASSUME AccountsInv, NEW r \in Requests, Apply(r)
  PROVE  AccountsInv' /\ AdminIsLeft
<1>1. PICK q : q = req[r]
  OBVIOUS
<1>2. PICK op : op = q.op
  OBVIOUS
<1>3. PICK target : target = op.target
  OBVIOUS
<1>4. req[r].at = "apply" /\ UNCHANGED <<tokens, issued, ended>>
  BY DEF Apply
<1>5. AccountReqOK(req[r], issued)
  BY DEF AccountsInv
<1>6. q.user \in Users /\ op \in Operations
  BY <1>1, <1>2, <1>4, <1>5 DEF AccountReqOK, Idle, Outcomes
<1>7. /\ target \in Users
      /\ \/ op.field = "status" /\ op.value \in Statuses
         \/ op.field = "role" /\ op.value \in Roles
      /\ op.value = "active" \/ op.value = "suspended" => op.field = "status"
  BY <1>3, <1>6, OperationIs
<1>8. CASE ~(RemovesAnAdmin(q) => AssertNotLastAdmin)
  <2>1. Proceed(r, Done(q.user, "nothing")) /\ UNCHANGED users
    BY <1>1, <1>8 DEF Apply, Proceed
  <2>. QED
    BY <1>4, <1>6, <2>1, EndsWithNothing
<1>9. CASE RemovesAnAdmin(q) => AssertNotLastAdmin
  <2>1. PICK row : row = [users[target] EXCEPT ![op.field] = op.value]
    OBVIOUS
  <2>2. PICK next : next = IF op.value = "suspended" THEN [at |-> "revokeAll", user |-> target]
                           ELSE Done(q.user, "nothing")
    OBVIOUS
  <2>3. users' = [users EXCEPT ![target] = row]
    BY <1>1, <1>2, <1>3, <1>9, <2>1 DEF Apply
  <2>4. req' = [req EXCEPT ![r] = next]
    BY <1>1, <1>2, <1>3, <1>9, <2>2 DEF Apply
  <2>5. barred' = IF op.value = "active" THEN {s \in barred : req[s].at = "done" \/ req[s].user # target} ELSE barred
    BY <1>1, <1>2, <1>3, <1>9 DEF Apply
  <2>6. users[target] \in UserRows
    BY <1>1, <1>2, <1>3, <1>4 DEF AccountsInv, TargetsInv
  <2>7. row \in UserRows
    <3>1. CASE op.field = "status" /\ op.value \in Statuses
      BY <2>1, <2>6, <3>1 DEF UserRows
    <3>2. CASE op.field = "role" /\ op.value \in Roles
      BY <2>1, <2>6, <3>2 DEF UserRows
    <3>. QED
      BY <1>7, <3>1, <3>2
  <2>8. op.value # "active" => (users[target].status = "suspended" => row.status = "suspended")
    <3>1. CASE op.field = "status" /\ op.value \in Statuses
      BY <2>1, <2>6, <3>1 DEF UserRows, Statuses
    <3>2. CASE op.field = "role" /\ op.value \in Roles
      BY <2>1, <2>6, <3>2 DEF UserRows
    <3>. QED
      BY <1>7, <3>1, <3>2
  <2>9. op.value = "suspended" => row.status = "suspended"
    BY <1>7, <2>1, <2>6 DEF UserRows
  <2>10. \A u \in Users : users'[u] = IF u = target THEN row ELSE users[u]
    BY <2>3 DEF AccountsInv
  <2>11. users' \in [Users -> UserRows \cup {NoUser}] /\ \A u \in Users : users[u] \in UserRows => users'[u] \in UserRows
    BY <2>3, <2>7 DEF AccountsInv
  <2>12. /\ AccountReqOK(next, issued')
         /\ IF op.value = "suspended" THEN next.at = "revokeAll" /\ next.user = target
            ELSE next.at = "done" /\ next.got = "nothing"
    <3>1. CASE op.value = "suspended"
      <4>1. next \in [at : {"start", "revokeAll"}, user : Users] /\ next.at = "revokeAll" /\ next.user = target
        BY <1>7, <2>2, <3>1
      <4>. QED
        BY <3>1, <4>1 DEF AccountReqOK
    <3>2. CASE op.value # "suspended"
      BY <1>6, <2>2, <3>2, DoneIs
    <3>. QED
      BY <3>1, <3>2
  <2>13. req'[r] = next /\ \A s \in Requests \ {r} : req'[s] = req[s]
    BY <2>4 DEF AccountsInv
  <2>14. BarredInv'
    <3>1. barred \subseteq Requests /\ barred' \subseteq barred
      BY <2>5 DEF AccountsInv, BarredInv
    <3>2. ASSUME NEW s \in barred', s # r
          PROVE  \/ req'[s].at = "done" /\ req'[s].got # "tokens"
                 \/ req'[s].at \notin {"idle", "start", "done"} /\ users'[req'[s].user].status = "suspended"
      <4>1. req'[s] = req[s] /\ s \in barred /\ s \in Requests
        BY <2>13, <3>1, <3>2
      <4>2. CASE req[s].at = "done"
        BY <4>1, <4>2 DEF AccountsInv, BarredInv
      <4>3. CASE req[s].at # "done"
        <5>1. req[s].at \notin {"idle", "start", "done"} /\ users[req[s].user].status = "suspended"
          BY <4>1, <4>3 DEF AccountsInv, BarredInv
        <5>2. req[s].user \in Users
          BY <4>1, <5>1 DEF AccountsInv, AccountReqOK, Idle, Outcomes
        <5>3. op.value = "active" => req[s].user # target
          BY <2>5, <3>2, <4>3
        <5>4. users'[req[s].user].status = "suspended"
          BY <2>8, <2>10, <5>1, <5>2, <5>3
        <5>. QED
          BY <4>1, <5>1, <5>4
      <4>. QED
        BY <4>2, <4>3
    <3>3. \/ req'[r].at = "done" /\ req'[r].got # "tokens"
          \/ req'[r].at \notin {"idle", "start", "done"} /\ users'[req'[r].user].status = "suspended"
      BY <1>7, <2>9, <2>10, <2>12, <2>13
    <3>. QED
      BY <3>1, <3>2, <3>3 DEF BarredInv
  <2>15. AdminIsLeft
    <3>. SUFFICES ASSUME RemovesAnAdmin(q) PROVE ActiveAdmins(users') # {}
      BY <1>1, <2>13 DEF AdminIsLeft
    <3>1. PICK a \in ActiveAdmins(users) : a # target
      BY <1>9, AnotherAdmin
    <3>2. a \in ActiveAdmins(users')
      BY <2>10, <3>1 DEF ActiveAdmins
    <3>. QED
      BY <3>2
  <2>16. next.at \notin {"rotating", "apply"}
    BY <2>12
  <2>17. AccountsInv'
    BY <1>4, <2>4, <2>11, <2>12, <2>14, <2>16, TokensKept, RequestGoesOn
  <2>. QED
    BY <2>15, <2>17
<1>. QED
  BY <1>8, <1>9

LEMMA AccountsStep ==
  ASSUME AccountsInv, [AccountsNext]_accountsVars
  PROVE  AccountsInv' /\ AdminIsLeft
<1>1. CASE UNCHANGED accountsVars
  <2>1. UNCHANGED <<users, tokens, issued, req, ended, barred>>
    BY <1>1 DEF accountsVars
  <2>. QED
    BY <2>1, TokensKept, UsersKept DEF AccountsInv, LocksInv, BarredInv, TargetsInv
<1>2. CASE AccountsNext
  BY <1>2, LoginOK, LogoutEverywhereOK, RotateLockOK, RotateRefusedOK, FamilyRevokedOK, RotateCommitOK,
     RefreshCheckOK, StartSessionOK, UnblockedOK, AuthorizeOK, LoadOK, ApplyOK, SuspendedRevokesOK,
     RequestDiesOK, HousekeepingOK
     DEF AccountsNext, Operations
<1>. QED
  BY <1>1, <1>2

LEMMA AccountsStart == AccountsInit => AccountsInv
<1>. SUFFICES ASSUME AccountsInit PROVE AccountsInv
  OBVIOUS
<1>1. users \in [Users -> UserRows \cup {NoUser}]
  BY AccountsAssumption DEF AccountsInit, UserRows, Statuses
<1>2. TokensInv
  BY AccountsAssumption DEF AccountsInit, TokensInv, OneLiveTokenPerSession
<1>3. \A r \in Requests : req[r].at = "idle" /\ req[r] = Idle
  BY IdleIs DEF AccountsInit
<1>4. \A r \in Requests : AccountReqOK(req[r], issued)
  BY <1>3 DEF AccountReqOK
<1>5. req \in [Requests -> {req[r] : r \in Requests}]
  BY DEF AccountsInit
<1>. QED
  BY <1>1, <1>2, <1>3, <1>4, <1>5 DEF AccountsInit, AccountsInv, LocksInv, BarredInv, TargetsInv

\* RefreshTokenService and AuthService: for any users, requests and tokens, and wherever requests
\* die, a session never has two refresh tokens that work, and nobody who is suspended while a
\* request runs is given tokens by it.
THEOREM SessionsSafe == AccountsSpec => []SessionsAreSafe
<1>1. AccountsInv => SessionsAreSafe
  <2>. SUFFICES ASSUME AccountsInv PROVE SessionsAreSafe
    OBVIOUS
  <2>1. \A r \in Requests : req[r].at \in Pending
    <3>. TAKE r \in Requests
    <3>1. AccountReqOK(req[r], issued)
      BY DEF AccountsInv
    <3>. QED
      BY <3>1 DEF AccountReqOK, Pending, Idle, Outcomes
  <2>2. \A r \in Requests : req[r].at = "rotating" => req[r].lock \in DOMAIN tokens
    BY DEF AccountsInv, LocksInv, WorksIn
  <2>3. AccountsTypeOK
    BY <2>1, <2>2 DEF AccountsInv, TokensInv, TokenRows, UserRows, BarredInv, AccountsTypeOK
  <2>4. OneLiveTokenPerSession /\ SuspendedGetsNoTokens
    BY DEF AccountsInv, TokensInv, BarredInv, SuspendedGetsNoTokens
  <2>. QED
    BY <2>3, <2>4 DEF SessionsAreSafe
<1>. QED
  BY <1>1, AccountsStart, AccountsStep, PTL DEF AccountsSpec

\* AdminService.assertNotLastAdmin: for any number of admins who act on each other at once, a
\* removal that was decided on the row of an active admin leaves another active admin.
THEOREM RemovalsLeaveAnAdmin == AccountsSpec => RemovalLeavesAnAdmin
<1>1. AccountsInv /\ [AccountsNext]_accountsVars => [AdminIsLeft]_accountsVars
  BY AccountsStep
<1>. QED
  BY <1>1, AccountsStart, AccountsStep, PTL DEF AccountsSpec, RemovalLeavesAnAdmin

-----------------------------------------------------------------------------
(* Fees: the arithmetic *)

\* Rounding up never makes the whole dearer than its parts.
LEMMA CeilingOfSum ==
  ASSUME NEW x \in Nat, NEW y \in Nat, NEW n \in Nat \ {0}
  PROVE  (x + y + n - 1) \div n <= (x + n - 1) \div n + (y + n - 1) \div n
<1>. DEFINE p == (x + n - 1) \div n
            q == (y + n - 1) \div n
<1>1. x + n - 1 \in Nat /\ y + n - 1 \in Nat /\ x + y + n - 1 \in Nat
  OBVIOUS
<1>2. p \in Nat /\ x + n - 1 < n * p + n
  BY <1>1, Quotient
<1>3. q \in Nat /\ y + n - 1 < n * q + n
  BY <1>1, Quotient
<1>. HIDE DEF p, q
<1>4. n * p \in Nat /\ n * q \in Nat /\ n * (p + q) = n * p + n * q
  BY <1>2, <1>3
<1>5. x <= n * p /\ y <= n * q
  BY <1>2, <1>3, <1>4
<1>6. x + y + n - 1 < n * (p + q) + n /\ p + q \in Nat
  BY <1>2, <1>3, <1>4, <1>5
<1>7. (x + y + n - 1) \div n <= p + q
  BY <1>1, <1>6, QuotientBelow
<1>. QED
  BY <1>7 DEF p, q

LEMMA FeeOfSum ==
  ASSUME NEW s \in [fixed : Nat, bps : Nat, min : Nat, max : Nat \cup {NoMax}],
         NEW a \in Nat, NEW b \in Nat
  PROVE  CalculateFee(a + b, s) <= CalculateFee(a, s) + CalculateFee(b, s)
<1>. DEFINE share(x) == (x * s.bps + Bps - 1) \div Bps
            atLeast(x) == IF s.fixed + share(x) < s.min THEN s.min ELSE s.fixed + share(x)
<1>1. Bps \in Nat \ {0} /\ s.fixed \in Nat /\ s.bps \in Nat /\ s.min \in Nat /\ s.max \in Nat \cup {NoMax}
  BY FeesAssumption
<1>2. (a + b) * s.bps = a * s.bps + b * s.bps /\ a * s.bps \in Nat /\ b * s.bps \in Nat
  BY <1>1
<1>3. share(a + b) <= share(a) + share(b)
  BY <1>1, <1>2, CeilingOfSum
<1>4. ASSUME NEW x \in Nat PROVE share(x) \in Nat
  <2>1. x * s.bps \in Nat
    BY <1>1
  <2>2. x * s.bps + Bps - 1 \in Nat
    BY <1>1, <2>1
  <2>. QED
    BY <1>1, <2>2, Quotient
<1>5. share(a) \in Nat /\ share(b) \in Nat /\ share(a + b) \in Nat
  BY <1>4
<1>6. \A x : CalculateFee(x, s) = IF s.max # NoMax /\ atLeast(x) > s.max THEN s.max ELSE atLeast(x)
  BY DEF CalculateFee
<1>. HIDE DEF share
<1>7. atLeast(a) \in Nat /\ atLeast(b) \in Nat /\ atLeast(a + b) \in Nat /\ atLeast(a + b) <= atLeast(a) + atLeast(b)
  BY <1>1, <1>3, <1>5
<1>. HIDE DEF atLeast
<1>. QED
  BY <1>1, <1>6, <1>7

-----------------------------------------------------------------------------
(* Fees: rules and quotes *)

ActiveOf(rs, scope) == {r \in DOMAIN rs : rs[r].scope = scope /\ rs[r].active}

\* Rules are numbered as they are set, a scope has one active rule at most, and it has one
\* exactly when it is priced.
RulesInv ==
  /\ \E n \in Nat : DOMAIN feeRules = 1..n
  /\ \A r \in DOMAIN feeRules :
       feeRules[r] \in [scope : Scopes, schedule : Schedules, active : BOOLEAN]
  /\ \A scope \in Scopes : \A r, s \in ActiveOf(feeRules, scope) : r = s
  /\ priced \subseteq Scopes
  /\ \A scope \in Scopes : scope \in priced <=> ActiveOf(feeRules, scope) # {}

\* Admins who are setting rules hold different scopes; what is active in the scope of one is
\* what he read.
SettersInv ==
  /\ setters \in [Admins -> [pc : {"idle", "locked"}, scope : Scopes, previous : Nat]]
  /\ \A a, b \in Admins :
       setters[a].pc = "locked" /\ setters[b].pc = "locked" /\ setters[a].scope = setters[b].scope => a = b
  /\ \A a \in Admins : setters[a].pc = "locked" =>
       /\ ActiveOf(feeRules, setters[a].scope) \subseteq {setters[a].previous}
       /\ setters[a].previous # NoFeeRule =>
            setters[a].previous \in DOMAIN feeRules /\ feeRules[setters[a].previous].scope = setters[a].scope

\* A quote that has found no rule of the organization ran at a time when there was none.
QuoteOK(fq, rs, scopes) ==
  /\ fq.throughout \subseteq scopes
  /\ fq.rule \in DOMAIN rs \cup {NoFeeRule}
  /\ fq.pc = "default" /\ fq.org => "own" \notin fq.throughout
  /\ fq.pc \in {"done", "refused"} =>
        /\ "own" \in fq.throughout /\ fq.org => fq.rule # NoFeeRule /\ rs[fq.rule].scope = "own"
        /\ "default" \in fq.throughout => fq.rule # NoFeeRule

QuoteFields == {"pc", "org", "amount", "covered", "rule", "fee", "throughout"}

QuotesInv ==
  /\ DOMAIN feeQuotes = Quoters
  /\ \A q \in Quoters : DOMAIN feeQuotes[q] = QuoteFields /\ QuoteOK(feeQuotes[q], feeRules, priced)

FeesInv == RulesInv /\ SettersInv /\ QuotesInv

LEMMA ActiveInIs ==
  ASSUME NEW scope
  PROVE  \/ ActiveOf(feeRules, scope) = {} /\ ActiveIn(scope) = NoFeeRule
         \/ ActiveIn(scope) \in ActiveOf(feeRules, scope)
  BY DEF ActiveIn, ActiveOf

LEMMA RuleIds ==
  ASSUME RulesInv, NEW r \in DOMAIN feeRules
  PROVE  r \in Nat /\ r # NoFeeRule
  BY DEF RulesInv, NoFeeRule

\* What is known of a quote stays known while rules are set.
LEMMA QuotesKept ==
  ASSUME QuotesInv, UNCHANGED feeQuotes, priced \subseteq priced', DOMAIN feeRules \subseteq DOMAIN feeRules',
         \A r \in DOMAIN feeRules : feeRules'[r].scope = feeRules[r].scope
  PROVE  QuotesInv'
<1>1. ASSUME NEW q \in Quoters PROVE QuoteOK(feeQuotes[q], feeRules', priced')
  <2>1. QuoteOK(feeQuotes[q], feeRules, priced)
    BY DEF QuotesInv
  <2>. QED
    BY <2>1 DEF QuoteOK
<1>. QED
  BY <1>1 DEF QuotesInv

LEMMA LockScopeOK ==
  ASSUME FeesInv, NEW a \in Admins, LockScope(a)
  PROVE  FeesInv'
<1>1. PICK scope \in Scopes :
        /\ \A b \in Admins : setters[b].pc = "locked" => setters[b].scope # scope
        /\ setters' = [setters EXCEPT ![a] = [pc |-> "locked", scope |-> scope, previous |-> ActiveIn(scope)]]
        /\ UNCHANGED <<feeRules, feeQuotes, priced>>
  BY DEF LockScope
<1>2. ActiveIn(scope) \in Nat /\ ActiveOf(feeRules, scope) \subseteq {ActiveIn(scope)}
      /\ (ActiveIn(scope) # NoFeeRule => ActiveIn(scope) \in DOMAIN feeRules /\ feeRules[ActiveIn(scope)].scope = scope)
  <2>1. NoFeeRule \in Nat /\ NoFeeRule \notin DOMAIN feeRules
    BY RuleIds DEF FeesInv, NoFeeRule
  <2>2. ActiveOf(feeRules, scope) \subseteq Nat
    BY RuleIds DEF FeesInv, ActiveOf
  <2>3. \A r \in ActiveOf(feeRules, scope) : feeRules[r].scope = scope /\ r \in DOMAIN feeRules
    BY DEF ActiveOf
  <2>. QED
    BY <2>1, <2>2, <2>3, ActiveInIs DEF FeesInv, RulesInv
<1>3. \A b \in Admins : setters'[b] = IF b = a THEN [pc |-> "locked", scope |-> scope, previous |-> ActiveIn(scope)]
                                      ELSE setters[b]
  BY <1>1 DEF FeesInv, SettersInv
<1>4. setters' \in [Admins -> [pc : {"idle", "locked"}, scope : Scopes, previous : Nat]]
  BY <1>1, <1>2 DEF FeesInv, SettersInv
<1>5. SettersInv'
  BY <1>1, <1>2, <1>3, <1>4 DEF FeesInv, SettersInv
<1>6. RulesInv' /\ QuotesInv'
  BY <1>1 DEF FeesInv, RulesInv, QuotesInv
<1>. QED
  BY <1>5, <1>6 DEF FeesInv

LEMMA InsertRuleOK ==
  ASSUME FeesInv, NEW a \in Admins, InsertRule(a)
  PROVE  FeesInv'
<1>. DEFINE scope == setters[a].scope
            previous == setters[a].previous
            after == [r \in DOMAIN feeRules |-> [feeRules[r] EXCEPT !.active = @ /\ r # previous]]
            refused == \E r \in DOMAIN after : after[r].scope = scope /\ after[r].active
            id == Cardinality(DOMAIN feeRules) + 1
<1>1. PICK schedule \in Schedules :
        /\ setters[a].pc = "locked"
        /\ setters' = [setters EXCEPT ![a].pc = IF refused THEN "conflict" ELSE "idle"]
        /\ feeRules' = IF refused THEN feeRules
                       ELSE [r \in 1 .. id |-> IF r = id THEN [scope |-> scope, schedule |-> schedule, active |-> TRUE]
                                               ELSE after[r]]
        /\ priced' = IF refused THEN priced ELSE priced \cup {scope}
        /\ UNCHANGED feeQuotes
  BY Zenon DEF InsertRule
<1>4. PICK n \in Nat : DOMAIN feeRules = 1..n
  BY DEF FeesInv, RulesInv
<1>5. id = n + 1
  <2>1. Cardinality(1..n) = n
    BY FS_Interval
  <2>. QED
    BY <1>4, <2>1
<1>6. /\ scope \in Scopes /\ ActiveOf(feeRules, scope) \subseteq {previous}
      /\ previous # NoFeeRule => previous \in DOMAIN feeRules /\ feeRules[previous].scope = scope
  BY <1>1 DEF FeesInv, SettersInv
<1>7. ASSUME NEW r \in DOMAIN feeRules
      PROVE  /\ after[r] \in [scope : Scopes, schedule : Schedules, active : BOOLEAN]
             /\ after[r].scope = feeRules[r].scope
             /\ after[r].active <=> feeRules[r].active /\ r # previous
  <2>1. feeRules[r] \in [scope : Scopes, schedule : Schedules, active : BOOLEAN]
    BY DEF FeesInv, RulesInv
  <2>. QED
    BY <2>1
<1>8. DOMAIN after = DOMAIN feeRules
  OBVIOUS
<1>. HIDE DEF after, id, scope, previous
<1>9. ~refused
  BY <1>6, <1>7, <1>8 DEF ActiveOf
<1>. HIDE DEF refused
<1>10. /\ setters' = [setters EXCEPT ![a].pc = "idle"]
       /\ feeRules' = [r \in 1..(n + 1) |-> IF r = n + 1 THEN [scope |-> scope, schedule |-> schedule, active |-> TRUE]
                                            ELSE after[r]]
       /\ priced' = priced \cup {scope}
       /\ UNCHANGED feeQuotes
  BY <1>1, <1>5, <1>9
<1>11. PICK row : row = [scope |-> scope, schedule |-> schedule, active |-> TRUE]
  OBVIOUS
<1>12. row \in [scope : Scopes, schedule : Schedules, active : BOOLEAN] /\ row.scope = scope /\ row.active
  BY <1>6, <1>11
<1>13. /\ DOMAIN feeRules' = 1..(n + 1) /\ n + 1 \notin DOMAIN feeRules
       /\ feeRules'[n + 1] = row /\ \A r \in DOMAIN feeRules : feeRules'[r] = after[r]
       /\ DOMAIN feeRules' = DOMAIN feeRules \cup {n + 1} /\ NoFeeRule \notin DOMAIN feeRules
  <2>1. feeRules' = [r \in 1..(n + 1) |-> IF r = n + 1 THEN row ELSE after[r]]
    BY <1>10, <1>11
  <2>2. n + 1 \notin 1..n /\ n + 1 \in 1..(n + 1) /\ 1..(n + 1) = (1..n) \cup {n + 1} /\ 0 \notin 1..n
    OBVIOUS
  <2>3. DOMAIN feeRules' = 1..(n + 1) /\ feeRules'[n + 1] = row /\ n + 1 \notin DOMAIN feeRules
    BY <1>4, <2>1, <2>2
  <2>4. ASSUME NEW r \in DOMAIN feeRules PROVE feeRules'[r] = after[r]
    <3>1. r \in 1..(n + 1) /\ r # n + 1
      BY <1>4, <2>2
    <3>. QED
      BY <2>1, <3>1
  <2>5. DOMAIN feeRules' = DOMAIN feeRules \cup {n + 1} /\ NoFeeRule \notin DOMAIN feeRules
    BY <1>4, <2>2, <2>3 DEF NoFeeRule
  <2>. QED
    BY <2>3, <2>4, <2>5
<1>14. ActiveOf(feeRules', scope) = {n + 1}
  <2>1. \A r : r \in ActiveOf(feeRules', scope) <=>
          r \in DOMAIN feeRules' /\ feeRules'[r].scope = scope /\ feeRules'[r].active
    BY DEF ActiveOf
  <2>2. \A r \in DOMAIN feeRules : feeRules[r].scope = scope /\ feeRules[r].active => r = previous
    BY <1>6 DEF ActiveOf
  <2>3. ASSUME NEW r \in DOMAIN feeRules PROVE ~(feeRules'[r].scope = scope /\ feeRules'[r].active)
    BY <1>7, <1>13, <2>2
  <2>4. n + 1 \in DOMAIN feeRules' /\ feeRules'[n + 1].scope = scope /\ feeRules'[n + 1].active
    BY <1>12, <1>13
  <2>. QED
    BY <1>13, <2>1, <2>3, <2>4
<1>15. ASSUME NEW other \in Scopes, other # scope PROVE ActiveOf(feeRules', other) = ActiveOf(feeRules, other)
  <2>1. \A r :
          /\ r \in ActiveOf(feeRules', other) <=>
               (r \in DOMAIN feeRules' /\ feeRules'[r].scope = other /\ feeRules'[r].active)
          /\ r \in ActiveOf(feeRules, other) <=>
               (r \in DOMAIN feeRules /\ feeRules[r].scope = other /\ feeRules[r].active)
    BY DEF ActiveOf
  <2>2. ASSUME NEW r \in DOMAIN feeRules
        PROVE  r \in ActiveOf(feeRules', other) <=> r \in ActiveOf(feeRules, other)
    <3>1. feeRules'[r].scope = feeRules[r].scope /\ (feeRules'[r].active <=> feeRules[r].active /\ r # previous)
      <4>1. feeRules'[r] = after[r]
        BY <1>13
      <4>2. after[r].scope = feeRules[r].scope /\ (after[r].active <=> feeRules[r].active /\ r # previous)
        BY <1>7
      <4>. QED
        BY <4>1, <4>2
    <3>2. feeRules[r].scope = other => r # previous
      BY <1>6, <1>13, <1>15
    <3>3. r \in DOMAIN feeRules'
      BY <1>13
    <3>. QED
      BY <2>1, <3>1, <3>2, <3>3
  <2>3. n + 1 \notin ActiveOf(feeRules', other) /\ n + 1 \notin ActiveOf(feeRules, other)
    BY <1>12, <1>13, <1>15, <2>1
  <2>. QED
    BY <1>13, <2>1, <2>2, <2>3
<1>16. RulesInv'
  <2>1. \A r \in DOMAIN feeRules' : feeRules'[r] \in [scope : Scopes, schedule : Schedules, active : BOOLEAN]
    BY <1>7, <1>12, <1>13
  <2>2. \A s \in Scopes : \A q, r \in ActiveOf(feeRules', s) : q = r
    BY <1>14, <1>15 DEF FeesInv, RulesInv
  <2>3. \A s \in Scopes : s \in priced' <=> ActiveOf(feeRules', s) # {}
    BY <1>10, <1>14, <1>15 DEF FeesInv, RulesInv
  <2>4. priced' \subseteq Scopes /\ n + 1 \in Nat
    BY <1>6, <1>10 DEF FeesInv, RulesInv
  <2>. QED
    BY <1>13, <2>1, <2>2, <2>3, <2>4 DEF RulesInv
<1>17. SettersInv'
  <2>1. PICK row2 : row2 = [setters[a] EXCEPT !.pc = "idle"]
    OBVIOUS
  <2>2. setters' = [setters EXCEPT ![a] = row2]
    BY <1>10, <2>1
  <2>3. row2 \in [pc : {"idle", "locked"}, scope : Scopes, previous : Nat] /\ row2.pc = "idle"
    BY <2>1 DEF FeesInv, SettersInv
  <2>4. setters' \in [Admins -> [pc : {"idle", "locked"}, scope : Scopes, previous : Nat]]
    BY <2>2, <2>3 DEF FeesInv, SettersInv
  <2>5. \A b \in Admins : setters'[b] = IF b = a THEN row2 ELSE setters[b]
    BY <2>2 DEF FeesInv, SettersInv
  <2>6. ASSUME NEW b \in Admins, setters'[b].pc = "locked"
        PROVE  /\ setters'[b] = setters[b] /\ setters[b].scope # scope /\ setters[b].scope \in Scopes
               /\ ActiveOf(feeRules, setters[b].scope) \subseteq {setters[b].previous}
               /\ setters[b].previous # NoFeeRule =>
                    setters[b].previous \in DOMAIN feeRules /\ feeRules[setters[b].previous].scope = setters[b].scope
    BY <1>1, <2>3, <2>5, <2>6 DEF FeesInv, SettersInv, scope
  <2>7. ASSUME NEW b \in Admins, setters'[b].pc = "locked"
        PROVE  /\ ActiveOf(feeRules', setters'[b].scope) \subseteq {setters'[b].previous}
               /\ setters'[b].previous # NoFeeRule =>
                    setters'[b].previous \in DOMAIN feeRules' /\ feeRules'[setters'[b].previous].scope = setters'[b].scope
    <3>1. PICK s : s = setters[b].scope
      OBVIOUS
    <3>2. PICK r : r = setters[b].previous
      OBVIOUS
    <3>3. /\ setters'[b].scope = s /\ setters'[b].previous = r /\ s # scope /\ s \in Scopes
          /\ ActiveOf(feeRules, s) \subseteq {r}
          /\ r # NoFeeRule => r \in DOMAIN feeRules /\ feeRules[r].scope = s
      BY <2>6, <2>7, <3>1, <3>2
    <3>4. ActiveOf(feeRules', s) \subseteq {r}
      BY <1>15, <3>3
    <3>5. r # NoFeeRule => r \in DOMAIN feeRules' /\ feeRules'[r].scope = s
      BY <1>7, <1>13, <3>3
    <3>. QED
      BY <3>3, <3>4, <3>5
  <2>8. \A b, c \in Admins :
          setters'[b].pc = "locked" /\ setters'[c].pc = "locked" /\ setters'[b].scope = setters'[c].scope => b = c
    BY <2>6 DEF FeesInv, SettersInv
  <2>. QED
    BY <2>4, <2>7, <2>8 DEF SettersInv
<1>18. QuotesInv'
  BY <1>7, <1>10, <1>13, QuotesKept DEF FeesInv
<1>. QED
  BY <1>16, <1>17, <1>18 DEF FeesInv

LEMMA RetireRuleOK ==
  ASSUME FeesInv, RetireRule
  PROVE  FeesInv'
<1>1. PICK r \in DOMAIN feeRules :
        /\ feeRules[r].active
        /\ feeRules' = [feeRules EXCEPT ![r].active = FALSE]
        /\ priced' = priced \ {feeRules[r].scope}
        /\ feeQuotes' = StillPriced(priced')
        /\ UNCHANGED setters
  BY Zenon DEF RetireRule
<1>2. PICK row : row = [feeRules[r] EXCEPT !.active = FALSE]
  OBVIOUS
<1>3. PICK scope : scope = feeRules[r].scope
  OBVIOUS
<1>4. /\ row \in [scope : Scopes, schedule : Schedules, active : BOOLEAN] /\ row.scope = scope /\ ~row.active
      /\ scope \in Scopes /\ r \in ActiveOf(feeRules, scope)
  <2>1. feeRules[r] \in [scope : Scopes, schedule : Schedules, active : BOOLEAN]
    BY DEF FeesInv, RulesInv
  <2>2. row \in [scope : Scopes, schedule : Schedules, active : BOOLEAN] /\ row.scope = scope /\ ~row.active
    BY <1>2, <1>3, <2>1
  <2>. QED
    BY <1>1, <1>3, <2>1, <2>2 DEF ActiveOf
<1>5. DOMAIN feeRules' = DOMAIN feeRules
  BY <1>1
<1>6. \A s \in DOMAIN feeRules : feeRules'[s] = IF s = r THEN row ELSE feeRules[s]
  BY <1>1, <1>2
<1>7. ASSUME NEW other PROVE ActiveOf(feeRules', other) = ActiveOf(feeRules, other) \ {r}
  BY <1>4, <1>5, <1>6 DEF ActiveOf
<1>8. RulesInv'
  <2>1. ActiveOf(feeRules, scope) = {r}
    BY <1>4 DEF FeesInv, RulesInv
  <2>2. ASSUME NEW other \in Scopes PROVE other \in priced' <=> ActiveOf(feeRules', other) # {}
    <3>1. CASE other = scope
      BY <1>1, <1>3, <1>7, <2>1, <3>1
    <3>2. CASE other # scope
      <4>1. r \notin ActiveOf(feeRules, other)
        BY <1>3, <3>2 DEF ActiveOf
      <4>2. ActiveOf(feeRules', other) = ActiveOf(feeRules, other)
        BY <1>7, <4>1
      <4>3. other \in priced' <=> other \in priced
        BY <1>1, <1>3, <3>2
      <4>. QED
        BY <4>2, <4>3 DEF FeesInv, RulesInv
    <3>. QED
      BY <3>1, <3>2
  <2>3. \A s \in DOMAIN feeRules' : feeRules'[s] \in [scope : Scopes, schedule : Schedules, active : BOOLEAN]
    BY <1>4, <1>5, <1>6 DEF FeesInv, RulesInv
  <2>4. \A other \in Scopes : \A s, t \in ActiveOf(feeRules', other) : s = t
    BY <1>7 DEF FeesInv, RulesInv
  <2>5. (\E n \in Nat : DOMAIN feeRules' = 1..n) /\ priced' \subseteq Scopes
    BY <1>1, <1>5 DEF FeesInv, RulesInv
  <2>. QED
    BY <2>2, <2>3, <2>4, <2>5 DEF RulesInv
<1>9. \A s \in DOMAIN feeRules : feeRules'[s].scope = feeRules[s].scope
  BY <1>3, <1>4, <1>6
<1>10. SettersInv'
  <2>1. ASSUME NEW a \in Admins, setters[a].pc = "locked"
        PROVE  /\ ActiveOf(feeRules', setters[a].scope) \subseteq {setters[a].previous}
               /\ setters[a].previous # NoFeeRule =>
                    setters[a].previous \in DOMAIN feeRules' /\ feeRules'[setters[a].previous].scope = setters[a].scope
    BY <1>5, <1>7, <1>9, <2>1 DEF FeesInv, SettersInv
  <2>. QED
    BY <1>1, <2>1 DEF FeesInv, SettersInv
<1>11. QuotesInv'
  <2>1. DOMAIN feeQuotes' = Quoters
    BY <1>1 DEF StillPriced
  <2>2. ASSUME NEW q \in Quoters PROVE DOMAIN feeQuotes'[q] = QuoteFields /\ QuoteOK(feeQuotes'[q], feeRules', priced')
    <3>1. PICK old : old = feeQuotes[q]
      OBVIOUS
    <3>2. PICK new : new = feeQuotes'[q]
      OBVIOUS
    <3>3. DOMAIN old = QuoteFields /\ QuoteOK(old, feeRules, priced)
      BY <3>1 DEF FeesInv, QuotesInv
    <3>4. PICK kept : kept = old.throughout \cap priced'
      OBVIOUS
    <3>5. new = [old EXCEPT !.throughout = kept]
      BY <1>1, <3>1, <3>2, <3>4 DEF StillPriced
    <3>6. /\ DOMAIN new = QuoteFields /\ new.throughout = kept
          /\ new.pc = old.pc /\ new.org = old.org /\ new.rule = old.rule
      BY <3>3, <3>5 DEF QuoteFields
    <3>7. kept \subseteq priced' /\ kept \subseteq old.throughout
      BY <3>4
    <3>8. QuoteOK(new, feeRules', priced')
      BY <1>5, <1>9, <3>3, <3>6, <3>7 DEF QuoteOK
    <3>. QED
      BY <3>2, <3>6, <3>8
  <2>. QED
    BY <2>1, <2>2 DEF QuotesInv
<1>. QED
  BY <1>8, <1>10, <1>11 DEF FeesInv

\* What the answer keeps of the quote.
LEMMA AnswerIs ==
  ASSUME NEW fq, DOMAIN fq = QuoteFields, NEW rule
  PROVE  /\ DOMAIN Answer(fq, rule) = QuoteFields
         /\ Answer(fq, rule).pc \in {"done", "refused"} /\ Answer(fq, rule).rule = rule
         /\ Answer(fq, rule).org = fq.org /\ Answer(fq, rule).throughout = fq.throughout
<1>. DEFINE fee == IF rule = NoFeeRule THEN 0 ELSE CalculateFee(fq.amount, feeRules[rule].schedule)
            refused == fq.covered /\ fee >= fq.amount /\ fee > 0
<1>1. Answer(fq, rule) = [fq EXCEPT !.pc = IF refused THEN "refused" ELSE "done", !.rule = rule, !.fee = fee]
  BY DEF Answer
<1>. HIDE DEF fee, refused
<1>. QED
  BY <1>1 DEF QuoteFields

\* One quote goes on.
LEMMA QuoteGoesOn ==
  ASSUME FeesInv, NEW q \in Quoters, NEW new, feeQuotes' = [feeQuotes EXCEPT ![q] = new],
         DOMAIN new = QuoteFields, QuoteOK(new, feeRules, priced), UNCHANGED <<feeRules, setters, priced>>
  PROVE  FeesInv'
<1>1. RulesInv' /\ SettersInv'
  BY DEF FeesInv, RulesInv, SettersInv
<1>2. \A p \in Quoters : feeQuotes'[p] = IF p = q THEN new ELSE feeQuotes[p]
  BY DEF FeesInv, QuotesInv
<1>3. QuotesInv'
  BY <1>2 DEF FeesInv, QuotesInv
<1>. QED
  BY <1>1, <1>3 DEF FeesInv

LEMMA QuoteOwnOK ==
  ASSUME FeesInv, NEW q \in Quoters, QuoteOwn(q)
  PROVE  FeesInv'
<1>1. PICK org1 \in BOOLEAN, covered \in BOOLEAN, amount \in 1..MaxQuoted :
        LET begun == [feeQuotes[q] EXCEPT !.org = org1, !.covered = covered,
                                          !.amount = amount, !.throughout = priced]
            own == IF org1 THEN ActiveIn("own") ELSE NoFeeRule
        IN  /\ feeQuotes' = [feeQuotes EXCEPT ![q] =
                 IF own # NoFeeRule THEN Answer(begun, own)
                 ELSE [begun EXCEPT !.pc = "default", !.rule = NoFeeRule, !.fee = 0]]
            /\ UNCHANGED <<feeRules, setters, priced>>
  BY Zenon DEF QuoteOwn
<1>2. PICK begun : begun = [feeQuotes[q] EXCEPT !.org = org1, !.covered = covered,
                                                !.amount = amount, !.throughout = priced]
  OBVIOUS
<1>3. PICK own : own = IF org1 THEN ActiveIn("own") ELSE NoFeeRule
  OBVIOUS
<1>4. PICK new : new = IF own # NoFeeRule THEN Answer(begun, own)
                       ELSE [begun EXCEPT !.pc = "default", !.rule = NoFeeRule, !.fee = 0]
  OBVIOUS
<1>5. feeQuotes' = [feeQuotes EXCEPT ![q] = new] /\ UNCHANGED <<feeRules, setters, priced>>
  BY <1>1, <1>2, <1>3, <1>4
<1>6. DOMAIN begun = QuoteFields /\ begun.org = org1 /\ begun.throughout = priced
  BY <1>2 DEF FeesInv, QuotesInv, QuoteFields
<1>7. \/ own = NoFeeRule /\ (org1 => ActiveOf(feeRules, "own") = {})
      \/ own # NoFeeRule /\ own \in DOMAIN feeRules /\ feeRules[own].scope = "own"
  <2>1. \A r \in ActiveOf(feeRules, "own") : r # NoFeeRule /\ r \in DOMAIN feeRules /\ feeRules[r].scope = "own"
    BY RuleIds DEF FeesInv, ActiveOf
  <2>. QED
    BY <1>3, <2>1, ActiveInIs
<1>8. org1 /\ own = NoFeeRule => "own" \notin priced
  BY <1>7 DEF FeesInv, RulesInv, Scopes
<1>9. DOMAIN new = QuoteFields /\ QuoteOK(new, feeRules, priced)
  <2>1. CASE own # NoFeeRule
    <3>1. new = Answer(begun, own)
      BY <1>4, <2>1
    <3>2. /\ DOMAIN new = QuoteFields /\ new.pc \in {"done", "refused"} /\ new.rule = own
          /\ new.org = org1 /\ new.throughout = priced
      BY <1>6, <3>1, AnswerIs
    <3>. QED
      BY <1>7, <2>1, <3>2 DEF QuoteOK
  <2>2. CASE own = NoFeeRule
    <3>1. new = [begun EXCEPT !.pc = "default", !.rule = NoFeeRule, !.fee = 0]
      BY <1>4, <2>2
    <3>2. /\ DOMAIN new = QuoteFields /\ new.pc = "default" /\ new.rule = NoFeeRule
          /\ new.org = org1 /\ new.throughout = priced
      BY <1>6, <3>1 DEF QuoteFields
    <3>. QED
      BY <1>8, <2>2, <3>2 DEF QuoteOK
  <2>. QED
    BY <2>1, <2>2
<1>. QED
  BY <1>5, <1>9, QuoteGoesOn

LEMMA QuoteDefaultOK ==
  ASSUME FeesInv, NEW q \in Quoters, QuoteDefault(q)
  PROVE  FeesInv'
<1>1. PICK old : old = feeQuotes[q]
  OBVIOUS
<1>2. PICK rule : rule = ActiveIn("default")
  OBVIOUS
<1>3. PICK new : new = Answer(old, rule)
  OBVIOUS
<1>4. feeQuotes' = [feeQuotes EXCEPT ![q] = new] /\ UNCHANGED <<feeRules, setters, priced>> /\ old.pc = "default"
  BY <1>1, <1>2, <1>3 DEF QuoteDefault
<1>5. DOMAIN old = QuoteFields /\ QuoteOK(old, feeRules, priced)
  BY <1>1 DEF FeesInv, QuotesInv
<1>6. /\ DOMAIN new = QuoteFields /\ new.pc \in {"done", "refused"} /\ new.rule = rule
      /\ new.org = old.org /\ new.throughout = old.throughout
  BY <1>3, <1>5, AnswerIs
<1>7. \/ rule = NoFeeRule /\ "default" \notin priced
      \/ rule # NoFeeRule /\ rule \in DOMAIN feeRules
  <2>1. \A r \in ActiveOf(feeRules, "default") : r # NoFeeRule /\ r \in DOMAIN feeRules
    BY RuleIds DEF FeesInv, ActiveOf
  <2>. QED
    BY <1>2, <2>1, ActiveInIs DEF FeesInv, RulesInv, Scopes
<1>8. QuoteOK(new, feeRules, priced)
  BY <1>4, <1>5, <1>6, <1>7 DEF QuoteOK
<1>. QED
  BY <1>4, <1>6, <1>8, QuoteGoesOn

LEMMA FeesStep ==
  ASSUME FeesInv, [FeesNext]_feesVars
  PROVE  FeesInv'
<1>1. CASE UNCHANGED feesVars
  BY <1>1 DEF feesVars, FeesInv, RulesInv, SettersInv, QuotesInv
<1>2. CASE FeesNext
  BY <1>2, LockScopeOK, InsertRuleOK, RetireRuleOK, QuoteOwnOK, QuoteDefaultOK DEF FeesNext
<1>. QED
  BY <1>1, <1>2

LEMMA FeesStart == FeesInit => FeesInv
<1>. SUFFICES ASSUME FeesInit PROVE FeesInv
  OBVIOUS
<1>1. DOMAIN feeRules = {} /\ {} = 1..0 /\ 0 \in Nat
  BY DEF FeesInit
<1>2. \A scope : ActiveOf(feeRules, scope) = {}
  BY <1>1 DEF ActiveOf
<1>3. RulesInv
  BY <1>1, <1>2 DEF FeesInit, RulesInv
<1>4. SettersInv
  BY DEF FeesInit, SettersInv, FreeSetter, Scopes, NoFeeRule
<1>5. /\ DOMAIN FreshQuote = QuoteFields /\ FreshQuote.pc = "idle" /\ FreshQuote.rule = NoFeeRule
      /\ FreshQuote.throughout = {}
  BY DEF FreshQuote, QuoteFields
<1>6. QuoteOK(FreshQuote, feeRules, priced)
  BY <1>5 DEF QuoteOK
<1>7. QuotesInv
  BY <1>5, <1>6 DEF FeesInit, QuotesInv
<1>. QED
  BY <1>3, <1>4, <1>7 DEF FeesInv

\* FeesService and calculateFee: for any schedules, admins, quotes and rules, splitting a payment
\* never saves a fee, the unique index never refuses an admin, and a quote is charged under the
\* rule that its scope had throughout.
THEOREM FeesSound == FeesSpec => []FeesAreSound
<1>1. FeesInv => FeesAreSound
  <2>. SUFFICES ASSUME FeesInv PROVE FeesAreSound
    OBVIOUS
  <2>1. SplittingNeverSaves
    <3>. SUFFICES ASSUME NEW r \in DOMAIN feeRules, NEW a \in 1..MaxQuoted, NEW b \in 1..MaxQuoted
                  PROVE  CalculateFee(a + b, feeRules[r].schedule)
                           <= CalculateFee(a, feeRules[r].schedule) + CalculateFee(b, feeRules[r].schedule)
      BY DEF SplittingNeverSaves
    <3>1. feeRules[r] \in [scope : Scopes, schedule : Schedules, active : BOOLEAN]
      BY DEF FeesInv, RulesInv
    <3>2. feeRules[r].schedule \in Schedules /\ a \in Nat /\ b \in Nat
      BY <3>1, FeesAssumption
    <3>3. feeRules[r].schedule \in [fixed : Nat, bps : Nat, min : Nat, max : Nat \cup {NoMax}]
      BY <3>2, FeesAssumption
    <3>. QED
      BY <3>2, <3>3, FeeOfSum
  <2>2. NoRuleConflict
    BY DEF FeesInv, SettersInv, NoRuleConflict
  <2>3. QuotesFindTheRule
    <3>1. \A q \in Quoters : QuoteOK(feeQuotes[q], feeRules, priced)
      BY DEF FeesInv, QuotesInv
    <3>. QED
      BY <3>1 DEF QuoteOK, QuotesFindTheRule
  <2>. QED
    BY <2>1, <2>2, <2>3 DEF FeesAreSound
<1>. QED
  BY <1>1, FeesStart, FeesStep, PTL DEF FeesSpec

-----------------------------------------------------------------------------
(* FX: the arithmetic.  n / d is the factor, k / b what the spread leaves. *)

LEMMA TimesAtMost ==
  ASSUME NEW x \in Nat, NEW y \in Nat, NEW z \in Nat, x <= y
  PROVE  x * z \in Nat /\ y * z \in Nat /\ x * z <= y * z
  OBVIOUS

LEMMA PositiveProduct ==
  ASSUME NEW x \in Nat \ {0}, NEW y \in Nat \ {0}
  PROVE  x * y \in Nat \ {0}
  OBVIOUS

\* What is credited is within the gross amount.
LEMMA CreditedWithinGross ==
  ASSUME NEW v \in Nat, NEW d \in Nat \ {0}, NEW b \in Nat \ {0}, NEW k \in Nat, k <= b
  PROVE  (v * k) \div (d * b) <= v \div d /\ (v * k) \div (d * b) \in Nat
<1>. DEFINE g == v \div d
            m == d * b
<1>1. g \in Nat /\ v < d * g + d
  BY Quotient
<1>2. m \in Nat \ {0}
  BY PositiveProduct
<1>. HIDE DEF g
<1>3. PICK e : e = d * g + d
  OBVIOUS
<1>4. e \in Nat /\ v + 1 <= e
  BY <1>1, <1>3
<1>5. v * k \in Nat /\ v * b \in Nat /\ v * k <= v * b
  OBVIOUS
<1>6. (v + 1) * b <= e * b /\ (v + 1) * b = v * b + b /\ e * b \in Nat
  BY <1>4, TimesAtMost
<1>7. v * k < e * b
  BY <1>5, <1>6
<1>8. e * b = m * g + m
  BY <1>1, <1>3
<1>. HIDE DEF m
<1>9. v * k < m * g + m
  BY <1>7, <1>8
<1>10. (v * k) \div m <= g /\ (v * k) \div m \in Nat
  BY <1>1, <1>2, <1>5, <1>9, QuotientBelow, Quotient
<1>. QED
  BY <1>10 DEF m, g

\* There and back: y is bought with x, and y buys back no more than x.
LEMMA ThereAndBack ==
  ASSUME NEW x \in Nat, NEW y \in Nat, NEW n \in Nat \ {0}, NEW d \in Nat \ {0},
         NEW b \in Nat \ {0}, NEW k \in Nat, k <= b, y <= (x * n * k) \div (d * b)
  PROVE  (y * d * k) \div (n * b) <= x
<1>1. PICK v : v = x * n * k
  OBVIOUS
<1>2. PICK m : m = d * b
  OBVIOUS
<1>3. PICK w : w = n * b
  OBVIOUS
<1>4. m \in Nat \ {0} /\ w \in Nat \ {0} /\ x * n \in Nat /\ y * d \in Nat
  BY <1>2, <1>3, PositiveProduct
<1>5. v \in Nat
  BY <1>1, <1>4
<1>6. v \div m \in Nat /\ m * (v \div m) <= v /\ y <= v \div m
  BY <1>1, <1>2, <1>4, <1>5, Quotient
<1>7. PICK g \in Nat : g = v \div m
  BY <1>6
<1>8. y * m <= g * m /\ y * m \in Nat /\ g * m \in Nat /\ g * m = m * g
  BY <1>4, <1>6, <1>7, TimesAtMost
<1>9. y * m <= v
  BY <1>5, <1>6, <1>7, <1>8
<1>10. y * m = y * d * b
  BY <1>2
<1>11. PICK u \in Nat : u = y * d
  BY <1>4
<1>12. u * k \in Nat /\ u * b \in Nat /\ u * k <= u * b
  BY <1>11
<1>13. PICK z \in Nat : z = x * n
  BY <1>4
<1>14. z * k \in Nat /\ z * b \in Nat /\ z * k <= z * b
  BY <1>13
<1>15. u * b = y * m /\ v = z * k /\ z * b = w * x
  BY <1>1, <1>3, <1>10, <1>11, <1>13
<1>16. w * x \in Nat
  BY <1>4
<1>17. u * k < w * x + w
  BY <1>4, <1>5, <1>8, <1>9, <1>12, <1>14, <1>15, <1>16
<1>18. (u * k) \div w <= x
  BY <1>4, <1>12, <1>17, QuotientBelow
<1>. QED
  BY <1>3, <1>11, <1>18

\* The smallest amount that yields t: rounded up, it yields t, and one less does not.
LEMMA SmallestThatYields ==
  ASSUME NEW t \in Nat \ {0}, NEW n \in Nat \ {0}, NEW d \in Nat \ {0},
         NEW b \in Nat \ {0}, NEW k \in Nat \ {0},
         NEW paid, paid = (t * d * b + n * k - 1) \div (n * k)
  PROVE  /\ paid \in Nat \ {0}
         /\ t <= (paid * n * k) \div (d * b)
         /\ \A less \in 1..(paid - 1) : (less * n * k) \div (d * b) < t
<1>1. PICK w : w = n * k
  OBVIOUS
<1>2. PICK m : m = d * b
  OBVIOUS
<1>3. PICK v : v = t * d * b
  OBVIOUS
<1>4. w \in Nat \ {0} /\ m \in Nat \ {0} /\ t * d \in Nat \ {0}
  BY <1>1, <1>2, PositiveProduct
<1>5. v \in Nat \ {0} /\ v = m * t
  BY <1>2, <1>3, <1>4, PositiveProduct
<1>6. v + w - 1 \in Nat /\ paid = (v + w - 1) \div w
  BY <1>1, <1>3, <1>4, <1>5
<1>7. paid \in Nat /\ w * paid <= v + w - 1 /\ v + w - 1 < w * paid + w /\ w * paid \in Nat
  BY <1>4, <1>6, Quotient
<1>8. v <= w * paid
  BY <1>4, <1>5, <1>7
<1>9. paid # 0
  <2>. SUFFICES ASSUME paid = 0 PROVE FALSE
    OBVIOUS
  <2>1. w * paid = 0
    BY <1>4
  <2>. QED
    BY <1>5, <1>8, <2>1
<1>10. \A x \in Nat : x * n * k = w * x
  BY <1>1
<1>11. t <= (paid * n * k) \div m
  BY <1>4, <1>5, <1>7, <1>8, <1>10, QuotientAbove
<1>12. ASSUME NEW less \in 1..(paid - 1) PROVE (less * n * k) \div m < t
  <2>1. less \in Nat /\ less + 1 <= paid /\ less + 1 \in Nat
    BY <1>7
  <2>2. (less + 1) * w <= paid * w /\ (less + 1) * w = w * less + w /\ paid * w = w * paid /\ w * less \in Nat
    BY <1>4, <1>7, <2>1, TimesAtMost
  <2>3. w * less < v
    BY <1>4, <1>5, <1>7, <2>2
  <2>4. t - 1 \in Nat /\ m * (t - 1) = m * t - m
    BY <1>4
  <2>5. w * less < m * (t - 1) + m
    BY <1>4, <1>5, <2>2, <2>3, <2>4
  <2>6. (w * less) \div m <= t - 1 /\ (w * less) \div m \in Nat
    BY <1>4, <2>2, <2>4, <2>5, QuotientBelow, Quotient
  <2>. QED
    BY <1>10, <2>1, <2>6
<1>. QED
  BY <1>2, <1>7, <1>9, <1>11, <1>12

-----------------------------------------------------------------------------
(* FX: what a quote promises *)

RateRows == [base : FxCurrencies, scaled : ScaledRates, stale : BOOLEAN]
Amounts == [sourceAmount : Nat, gross : Nat, targetAmount : Nat]
QuoteRows ==
  [source : FxCurrencies, kind : {"pay", "receive"}, asked : Nat \ {0}, rate : Nat, amounts : Amounts,
   expired : BOOLEAN, reference : Converters \cup {"none"}]

LEMMA OtherIs ==
  ASSUME NEW source \in FxCurrencies
  PROVE  /\ Other(source) \in FxCurrencies /\ Other(source) # source
         /\ \A c \in FxCurrencies : c # source => c = Other(source)
         /\ Other(Other(source)) = source
<1>1. PICK x \in FxCurrencies, y \in FxCurrencies : x # y /\ FxCurrencies = {x, y}
  BY FxAssumption
<1>2. \E c \in FxCurrencies : c # source
  BY <1>1
<1>3. Other(source) \in FxCurrencies /\ Other(source) # source
  BY <1>2 DEF Other
<1>4. \E c \in FxCurrencies : c # Other(source)
  BY <1>3
<1>5. Other(Other(source)) \in FxCurrencies /\ Other(Other(source)) # Other(source)
  BY <1>4 DEF Other
<1>. QED
  BY <1>1, <1>3, <1>5

\* The factors are positive fractions, and the way back is the reciprocal.
LEMMA FactorIs ==
  ASSUME NEW rate \in RateRows, NEW source \in FxCurrencies
  PROVE  /\ Factor(rate, source).n \in Nat \ {0} /\ Factor(rate, source).d \in Nat \ {0}
         /\ Factor(rate, Other(source)).n = Factor(rate, source).d
         /\ Factor(rate, Other(source)).d = Factor(rate, source).n
<1>1. Other(source) \in FxCurrencies /\ Other(source) # source /\ Other(Other(source)) = source
      /\ (rate.base # source => rate.base = Other(source))
  BY OtherIs DEF RateRows
<1>2. PICK target : target = Other(source)
  OBVIOUS
<1>3. MinorUnit[source] \in Nat \ {0} /\ MinorUnit[target] \in Nat \ {0} /\ rate.scaled \in Nat \ {0} /\ RateScale \in Nat \ {0}
  BY <1>1, <1>2, FxAssumption DEF RateRows
<1>4. /\ rate.scaled * MinorUnit[target] \in Nat \ {0} /\ RateScale * MinorUnit[source] \in Nat \ {0}
      /\ RateScale * MinorUnit[target] \in Nat \ {0} /\ rate.scaled * MinorUnit[source] \in Nat \ {0}
  BY <1>3, PositiveProduct
<1>5. CASE source = rate.base
  <2>1. Factor(rate, source) = [n |-> rate.scaled * MinorUnit[target], d |-> RateScale * MinorUnit[source]]
    BY <1>2, <1>5 DEF Factor
  <2>2. Factor(rate, target) = [n |-> RateScale * MinorUnit[source], d |-> rate.scaled * MinorUnit[target]]
    BY <1>1, <1>2, <1>5 DEF Factor
  <2>. QED
    BY <1>2, <1>4, <2>1, <2>2
<1>6. CASE source # rate.base
  <2>1. Factor(rate, source) = [n |-> RateScale * MinorUnit[target], d |-> rate.scaled * MinorUnit[source]]
    BY <1>2, <1>6 DEF Factor
  <2>2. Factor(rate, target) = [n |-> rate.scaled * MinorUnit[source], d |-> RateScale * MinorUnit[target]]
    BY <1>1, <1>2, <1>6 DEF Factor
  <2>. QED
    BY <1>2, <1>4, <2>1, <2>2
<1>. QED
  BY <1>5, <1>6

\* What the amounts of a quote have to do with its rate.
QuoteMade(fq, rate) ==
  /\ fq.amounts = ConvertFromSource(rate, fq.source, fq.amounts.sourceAmount)
  /\ fq.amounts.sourceAmount > 0 /\ fq.amounts.targetAmount > 0
  /\ fq.kind = "receive" =>
       fq.amounts.sourceAmount
         = FxCeilDiv(fq.asked * Factor(rate, fq.source).d * SpreadScale,
                     Factor(rate, fq.source).n * (SpreadScale - Spread))

\* A rate that ages converts as before.
LEMMA SameFactor ==
  ASSUME NEW rate, NEW aged, aged.base = rate.base, aged.scaled = rate.scaled, NEW fq, QuoteMade(fq, rate)
  PROVE  QuoteMade(fq, aged)
<1>1. \A source : Factor(aged, source) = Factor(rate, source)
  BY DEF Factor
<1>2. \A source, x : ConvertFromSource(aged, source, x) = ConvertFromSource(rate, source, x)
  BY <1>1 DEF ConvertFromSource
<1>. QED
  BY <1>1, <1>2 DEF QuoteMade

\* What is left of the whole after the spread.
LEMMA SpreadLeaves ==
  /\ SpreadScale \in Nat \ {0} /\ SpreadScale - Spread \in Nat \ {0} /\ SpreadScale - Spread <= SpreadScale
  BY FxAssumption

LEMMA ConvertedIs ==
  ASSUME NEW rate \in RateRows, NEW source \in FxCurrencies, NEW x \in Nat
  PROVE  LET f == Factor(rate, source)
             made == ConvertFromSource(rate, source, x)
         IN  /\ made \in Amounts /\ made.sourceAmount = x
             /\ made.gross = (x * f.n) \div f.d
             /\ made.targetAmount = (x * f.n * (SpreadScale - Spread)) \div (f.d * SpreadScale)
             /\ made.targetAmount <= made.gross
<1>. DEFINE f == Factor(rate, source)
            made == ConvertFromSource(rate, source, x)
<1>1. f.n \in Nat \ {0} /\ f.d \in Nat \ {0}
  BY FactorIs
<1>2. made = [sourceAmount |-> x, gross |-> (x * f.n) \div f.d,
              targetAmount |-> (x * f.n * (SpreadScale - Spread)) \div (f.d * SpreadScale)]
  BY DEF ConvertFromSource
<1>3. PICK k : k = SpreadScale - Spread
  OBVIOUS
<1>4. PICK v : v = x * f.n
  OBVIOUS
<1>5. PICK d : d = f.d
  OBVIOUS
<1>6. v \in Nat /\ k \in Nat /\ k <= SpreadScale /\ d \in Nat \ {0} /\ SpreadScale \in Nat \ {0}
  BY <1>1, <1>3, <1>4, <1>5, SpreadLeaves
<1>7. v \div d \in Nat /\ (v * k) \div (d * SpreadScale) <= v \div d /\ (v * k) \div (d * SpreadScale) \in Nat
  BY <1>6, CreditedWithinGross, Quotient
<1>. HIDE DEF f, made
<1>8. made = [sourceAmount |-> x, gross |-> v \div d, targetAmount |-> (v * k) \div (d * SpreadScale)]
  BY <1>2, <1>3, <1>4, <1>5
<1>9. made \in Amounts /\ made.sourceAmount = x /\ made.targetAmount <= made.gross
  BY <1>7, <1>8 DEF Amounts
<1>10. made.gross = (x * f.n) \div f.d /\ made.targetAmount = (x * f.n * (SpreadScale - Spread)) \div (f.d * SpreadScale)
  BY <1>2
<1>. QED
  BY <1>9, <1>10 DEF f, made

(* FX: the inductive invariant *)

RatesInv == rates \in Seq(RateRows)

\* Every quote stands at the rate that it read.
PricesInv ==
  /\ fxQuotes \in Seq(QuoteRows)
  /\ \A q \in DOMAIN fxQuotes :
       fxQuotes[q].rate \in DOMAIN rates /\ QuoteMade(fxQuotes[q], rates[fxQuotes[q].rate])

\* A conversion past its lock holds a quote that nobody has consumed, and holds it alone.
HoldersInv ==
  /\ conversions \in [Converters ->
       [pc : {"idle", "locked", "replayed", "refused", "converted"}, quote : Nat]]
  /\ \A c \in Converters : conversions[c].pc = "locked" =>
       conversions[c].quote \in DOMAIN fxQuotes /\ fxQuotes[conversions[c].quote].reference = "none"
  /\ \A c, e \in Converters :
       (conversions[c].pc = "locked" /\ conversions[e].pc = "locked"
        /\ conversions[c].quote = conversions[e].quote) => c = e

\* The legs are the references of the quotes, and a reference is on one quote.
LegsInv ==
  /\ fxLegs = {<<fxQuotes[q].reference, q>> :
                 q \in {p \in DOMAIN fxQuotes : fxQuotes[p].reference # "none"}}
  /\ \A p, q \in DOMAIN fxQuotes :
       (fxQuotes[p].reference = fxQuotes[q].reference /\ fxQuotes[p].reference # "none") => p = q

FxInv == RatesInv /\ PricesInv /\ HoldersInv /\ LegsInv

\* Replacing one row of a table.
LEMMA RowReplaced ==
  ASSUME NEW S, NEW s \in Seq(S), NEW i \in DOMAIN s, NEW row \in S,
         NEW t, t = [s EXCEPT ![i] = row]
  PROVE  /\ t \in Seq(S) /\ DOMAIN t = DOMAIN s /\ t[i] = row
         /\ \A j \in DOMAIN s : j # i => t[j] = s[j]
<1>1. t \in Seq(S)
  BY ExceptSeq
<1>. QED
  BY <1>1

\* A new row at the end of a table.
LEMMA RowAdded ==
  ASSUME NEW S, NEW s \in Seq(S), NEW row \in S, NEW t, t = Append(s, row)
  PROVE  /\ t \in Seq(S) /\ DOMAIN t = DOMAIN s \cup {Len(s) + 1} /\ Len(s) + 1 \notin DOMAIN s
         /\ t[Len(s) + 1] = row /\ \A j \in DOMAIN s : t[j] = s[j]
         /\ Len(s) + 1 \in Nat
<1>1. t \in Seq(S) /\ Len(t) = Len(s) + 1 /\ Len(s) \in Nat
  BY AppendProperties
<1>2. DOMAIN t = 1..(Len(s) + 1) /\ DOMAIN s = 1..Len(s)
  BY <1>1
<1>3. t[Len(s) + 1] = row /\ \A j \in 1..Len(s) : t[j] = s[j]
  BY <1>1, AppendProperties
<1>. QED
  BY <1>1, <1>2, <1>3

\* The invariant without the conversions and the legs, when neither the quotes nor they move.
LEMMA RatesMove ==
  ASSUME FxInv, RatesInv', UNCHANGED <<fxQuotes, conversions, fxLegs>>,
         DOMAIN rates \subseteq DOMAIN rates',
         \A r \in DOMAIN rates : rates'[r].base = rates[r].base /\ rates'[r].scaled = rates[r].scaled
  PROVE  FxInv'
<1>1. ASSUME NEW q \in DOMAIN fxQuotes
      PROVE  fxQuotes[q].rate \in DOMAIN rates' /\ QuoteMade(fxQuotes[q], rates'[fxQuotes[q].rate])
  <2>1. fxQuotes[q].rate \in DOMAIN rates /\ QuoteMade(fxQuotes[q], rates[fxQuotes[q].rate])
    BY DEF FxInv, PricesInv
  <2>. QED
    BY <2>1, SameFactor
<1>2. PricesInv'
  BY <1>1 DEF FxInv, PricesInv
<1>3. HoldersInv' /\ LegsInv'
  BY DEF FxInv, HoldersInv, LegsInv
<1>. QED
  BY <1>2, <1>3 DEF FxInv

LEMMA SetRateOK == ASSUME FxInv, SetRate PROVE FxInv'
<1>1. PICK base \in FxCurrencies, scaled \in ScaledRates :
        /\ rates' = Append(rates, [base |-> base, scaled |-> scaled, stale |-> FALSE])
        /\ UNCHANGED <<fxQuotes, conversions, fxLegs>>
  BY DEF SetRate
<1>2. [base |-> base, scaled |-> scaled, stale |-> FALSE] \in RateRows
  BY DEF RateRows
<1>3. rates \in Seq(RateRows)
  BY DEF FxInv, RatesInv
<1>4. rates' \in Seq(RateRows) /\ DOMAIN rates \subseteq DOMAIN rates' /\ \A r \in DOMAIN rates : rates'[r] = rates[r]
  BY <1>1, <1>2, <1>3, RowAdded
<1>. QED
  BY <1>1, <1>4, RatesMove DEF RatesInv

LEMMA RatesAgeOK == ASSUME FxInv, RatesAge PROVE FxInv'
<1>1. rates \in Seq(RateRows)
  BY DEF FxInv, RatesInv
<1>2. rates' = [r \in DOMAIN rates |-> [rates[r] EXCEPT !.stale = TRUE]]
  BY DEF RatesAge
<1>3. PICK n \in Nat : DOMAIN rates = 1..n
  BY <1>1
<1>4. ASSUME NEW r \in DOMAIN rates
      PROVE  rates'[r] \in RateRows /\ rates'[r].base = rates[r].base /\ rates'[r].scaled = rates[r].scaled
  <2>1. rates[r] \in RateRows
    BY <1>1
  <2>2. rates'[r] = [rates[r] EXCEPT !.stale = TRUE]
    BY <1>2
  <2>. QED
    BY <2>1, <2>2 DEF RateRows
<1>5. DOMAIN rates' = 1..n /\ rates' = [r \in 1..n |-> rates'[r]]
  BY <1>2, <1>3
<1>6. rates' \in [1..n -> RateRows]
  BY <1>3, <1>4, <1>5
<1>7. rates' \in Seq(RateRows)
  BY <1>6, SeqDef
<1>. QED
  BY <1>3, <1>4, <1>5, <1>7, RatesMove DEF RatesInv, RatesAge

LEMMA ExpireQuoteOK == ASSUME FxInv, ExpireQuote PROVE FxInv'
<1>1. PICK q \in DOMAIN fxQuotes :
        fxQuotes' = [fxQuotes EXCEPT ![q].expired = TRUE] /\ UNCHANGED <<rates, conversions, fxLegs>>
  BY DEF ExpireQuote
<1>2. fxQuotes \in Seq(QuoteRows)
  BY DEF FxInv, PricesInv
<1>3. PICK row : row = [fxQuotes[q] EXCEPT !.expired = TRUE]
  OBVIOUS
<1>4. fxQuotes' = [fxQuotes EXCEPT ![q] = row]
  BY <1>1, <1>3
<1>5. fxQuotes[q] \in QuoteRows
  BY <1>2
<1>6. /\ row \in QuoteRows /\ row.source = fxQuotes[q].source /\ row.kind = fxQuotes[q].kind
      /\ row.asked = fxQuotes[q].asked /\ row.rate = fxQuotes[q].rate
      /\ row.amounts = fxQuotes[q].amounts /\ row.reference = fxQuotes[q].reference
  BY <1>3, <1>5 DEF QuoteRows
<1>7. /\ fxQuotes' \in Seq(QuoteRows) /\ DOMAIN fxQuotes' = DOMAIN fxQuotes /\ fxQuotes'[q] = row
      /\ \A j \in DOMAIN fxQuotes : j # q => fxQuotes'[j] = fxQuotes[j]
  BY <1>2, <1>4, <1>6, RowReplaced
<1>8. ASSUME NEW j \in DOMAIN fxQuotes
      PROVE  /\ fxQuotes'[j].reference = fxQuotes[j].reference /\ fxQuotes'[j].rate = fxQuotes[j].rate
             /\ QuoteMade(fxQuotes[j], rates[fxQuotes[j].rate]) => QuoteMade(fxQuotes'[j], rates[fxQuotes[j].rate])
  BY <1>6, <1>7 DEF QuoteMade
<1>9. PricesInv'
  BY <1>1, <1>7, <1>8 DEF FxInv, PricesInv
<1>10. HoldersInv' /\ LegsInv'
  BY <1>1, <1>7, <1>8 DEF FxInv, HoldersInv, LegsInv
<1>. QED
  BY <1>1, <1>9, <1>10 DEF FxInv, RatesInv

\* What createQuote makes of the amount that is asked for.
LEMMA QuoteIsMade ==
  ASSUME NEW rate \in RateRows, NEW source \in FxCurrencies, NEW asked \in Nat \ {0},
         NEW kind \in {"pay", "receive"},
         NEW made, made = IF kind = "pay" THEN ConvertFromSource(rate, source, asked)
                                          ELSE ConvertToTarget(rate, source, asked),
         made.targetAmount > 0,
         NEW row, row.source = source, row.kind = kind, row.asked = asked, row.amounts = made
  PROVE  made \in Amounts /\ QuoteMade(row, rate)
<1>1. CASE kind = "pay"
  <2>1. made = ConvertFromSource(rate, source, asked)
    BY <1>1
  <2>2. made \in Amounts /\ made.sourceAmount = asked
    BY <2>1, ConvertedIs
  <2>3. asked > 0
    OBVIOUS
  <2>. QED
    BY <1>1, <2>1, <2>2, <2>3 DEF QuoteMade
<1>2. CASE kind = "receive"
  <2>1. PICK f : f = Factor(rate, source)
    OBVIOUS
  <2>2. PICK paid : paid = FxCeilDiv(asked * f.d * SpreadScale, f.n * (SpreadScale - Spread))
    OBVIOUS
  <2>3. made = ConvertFromSource(rate, source, paid)
    BY <1>2, <2>1, <2>2 DEF ConvertToTarget
  <2>4. f.n \in Nat \ {0} /\ f.d \in Nat \ {0}
    BY <2>1, FactorIs
  <2>5. paid = (asked * f.d * SpreadScale + f.n * (SpreadScale - Spread) - 1) \div (f.n * (SpreadScale - Spread))
    BY <2>2 DEF FxCeilDiv
  <2>6. PICK k \in Nat \ {0} : k = SpreadScale - Spread
    BY SpreadLeaves
  <2>7. paid = (asked * f.d * SpreadScale + f.n * k - 1) \div (f.n * k)
    BY <2>5, <2>6
  <2>8. PICK n \in Nat \ {0}, d \in Nat \ {0} : n = f.n /\ d = f.d
    BY <2>4
  <2>9. paid = (asked * d * SpreadScale + n * k - 1) \div (n * k)
    BY <2>7, <2>8
  <2>10. paid \in Nat \ {0}
    BY <2>9, SpreadLeaves, SmallestThatYields
  <2>11. made \in Amounts /\ made.sourceAmount = paid
    BY <2>3, <2>10, ConvertedIs
  <2>12. paid > 0
    BY <2>10
  <2>13. row.amounts = ConvertFromSource(rate, row.source, row.amounts.sourceAmount)
    BY <2>3, <2>11
  <2>14. row.amounts.sourceAmount = FxCeilDiv(row.asked * Factor(rate, row.source).d * SpreadScale,
                                              Factor(rate, row.source).n * (SpreadScale - Spread))
    BY <2>1, <2>2, <2>11
  <2>. QED
    BY <2>11, <2>12, <2>13, <2>14 DEF QuoteMade
<1>. QED
  BY <1>1, <1>2

LEMMA CreateQuoteOK == ASSUME FxInv, CreateQuote PROVE FxInv'
<1>. DEFINE rate == rates[Len(rates)]
            made(source, kind, asked) ==
              IF kind = "pay" THEN ConvertFromSource(rate, source, asked)
                              ELSE ConvertToTarget(rate, source, asked)
<1>1. PICK source \in FxCurrencies, kind \in {"pay", "receive"}, asked \in 1..MaxAsked :
        /\ rates # <<>> /\ made(source, kind, asked).targetAmount > 0
        /\ fxQuotes' = Append(fxQuotes,
             [source |-> source, kind |-> kind, asked |-> asked, rate |-> Len(rates),
              amounts |-> made(source, kind, asked), expired |-> FALSE, reference |-> "none"])
        /\ UNCHANGED <<rates, conversions, fxLegs>>
  BY Zenon DEF CreateQuote
<1>2. rates \in Seq(RateRows)
  BY DEF FxInv, RatesInv
<1>3. Len(rates) \in DOMAIN rates /\ Len(rates) \in Nat /\ rate \in RateRows
  BY <1>1, <1>2
<1>4. asked \in Nat \ {0}
  BY FxAssumption
<1>5. PICK amounts : amounts = made(source, kind, asked)
  OBVIOUS
<1>6. PICK row : row = [source |-> source, kind |-> kind, asked |-> asked, rate |-> Len(rates),
                        amounts |-> amounts, expired |-> FALSE, reference |-> "none"]
  OBVIOUS
<1>7. fxQuotes' = Append(fxQuotes, row) /\ amounts.targetAmount > 0
  BY <1>1, <1>5, <1>6
<1>8. row.source = source /\ row.kind = kind /\ row.asked = asked /\ row.amounts = amounts
      /\ row.rate = Len(rates) /\ row.reference = "none"
  BY <1>6
<1>9. amounts \in Amounts /\ QuoteMade(row, rate)
  <2>1. amounts = IF kind = "pay" THEN ConvertFromSource(rate, source, asked)
                                  ELSE ConvertToTarget(rate, source, asked)
    BY <1>5
  <2>. HIDE DEF rate, made
  <2>. QED
    BY <1>3, <1>4, <1>7, <1>8, <2>1, QuoteIsMade
<1>10. row \in QuoteRows
  BY <1>3, <1>4, <1>6, <1>9 DEF QuoteRows
<1>11. fxQuotes \in Seq(QuoteRows)
  BY DEF FxInv, PricesInv
<1>12. PICK new : new = Len(fxQuotes) + 1
  OBVIOUS
<1>13. /\ fxQuotes' \in Seq(QuoteRows) /\ DOMAIN fxQuotes' = DOMAIN fxQuotes \cup {new} /\ new \notin DOMAIN fxQuotes
       /\ fxQuotes'[new] = row /\ \A j \in DOMAIN fxQuotes : fxQuotes'[j] = fxQuotes[j]
  BY <1>7, <1>10, <1>11, <1>12, RowAdded
<1>. HIDE DEF made
<1>14. PricesInv'
  <2>1. UNCHANGED rates
    BY <1>1
  <2>2. QuoteMade(row, rates[row.rate]) /\ row.rate \in DOMAIN rates
    BY <1>3, <1>8, <1>9
  <2>3. \A q \in DOMAIN fxQuotes :
          fxQuotes[q].rate \in DOMAIN rates /\ QuoteMade(fxQuotes[q], rates[fxQuotes[q].rate])
    BY DEF FxInv, PricesInv
  <2>. QED
    BY <1>13, <2>1, <2>2, <2>3 DEF PricesInv
<1>15. HoldersInv'
  BY <1>1, <1>13 DEF FxInv, HoldersInv
<1>16. LegsInv'
  <2>1. {p \in DOMAIN fxQuotes' : fxQuotes'[p].reference # "none"} = {p \in DOMAIN fxQuotes : fxQuotes[p].reference # "none"}
    BY <1>8, <1>13
  <2>2. fxLegs' = {<<fxQuotes'[q].reference, q>> : q \in {p \in DOMAIN fxQuotes' : fxQuotes'[p].reference # "none"}}
    BY <1>1, <1>13, <2>1 DEF FxInv, LegsInv
  <2>. QED
    BY <1>8, <1>13, <2>2 DEF FxInv, LegsInv
<1>. QED
  BY <1>1, <1>14, <1>15, <1>16 DEF FxInv, RatesInv

LEMMA LockQuoteOK == ASSUME FxInv, NEW c \in Converters, LockQuote(c) PROVE FxInv'
<1>1. PICK q \in DOMAIN fxQuotes :
        /\ ~ \E other \in Converters : conversions[other].pc = "locked" /\ conversions[other].quote = q
        /\ conversions' = [conversions EXCEPT ![c] = [pc |-> IF Usable(q) THEN "locked" ELSE Consumed(c, q), quote |-> q]]
        /\ UNCHANGED <<rates, fxQuotes, fxLegs>>
  BY DEF LockQuote
<1>2. PICK row : row = [pc |-> IF Usable(q) THEN "locked" ELSE Consumed(c, q), quote |-> q]
  OBVIOUS
<1>3. q \in Nat
  BY DEF FxInv, PricesInv
<1>4. row.pc = "locked" => fxQuotes[q].reference = "none"
  BY <1>2 DEF Usable, Consumed
<1>5. row.pc \in {"locked", "replayed", "refused"} /\ row.quote = q
      /\ row \in [pc : {"idle", "locked", "replayed", "refused", "converted"}, quote : Nat]
  BY <1>2, <1>3 DEF Consumed
<1>6. conversions' = [conversions EXCEPT ![c] = row]
  BY <1>1, <1>2
<1>7. HoldersInv'
  BY <1>1, <1>4, <1>5, <1>6 DEF FxInv, HoldersInv
<1>. QED
  BY <1>1, <1>7 DEF FxInv, RatesInv, PricesInv, LegsInv

LEMMA AbandonConversionOK == ASSUME FxInv, NEW c \in Converters, AbandonConversion(c) PROVE FxInv'
<1>1. PICK row : row = [conversions[c] EXCEPT !.pc = "idle"]
  OBVIOUS
<1>2. conversions' = [conversions EXCEPT ![c] = row] /\ UNCHANGED <<rates, fxQuotes, fxLegs>>
  BY <1>1 DEF AbandonConversion
<1>3. row.pc = "idle" /\ row \in [pc : {"idle", "locked", "replayed", "refused", "converted"}, quote : Nat]
  BY <1>1 DEF FxInv, HoldersInv
<1>4. HoldersInv'
  BY <1>2, <1>3 DEF FxInv, HoldersInv
<1>. QED
  BY <1>2, <1>4 DEF FxInv, RatesInv, PricesInv, LegsInv

\* The commit is refused, or writes the legs and the reference on the quote that it has locked.
LEMMA CommitConversionOK == ASSUME FxInv, NEW c \in Converters, CommitConversion(c) PROVE FxInv'
<1>. DEFINE q == conversions[c].quote
            refused == \E leg \in fxLegs : leg[1] = c
            States == [pc : {"idle", "locked", "replayed", "refused", "converted"}, quote : Nat]
<1>1. /\ conversions[c].pc = "locked" /\ UNCHANGED rates
      /\ fxLegs' = IF refused THEN fxLegs ELSE fxLegs \cup {<<c, q>>}
      /\ fxQuotes' = IF refused THEN fxQuotes ELSE [fxQuotes EXCEPT ![q].reference = c]
      /\ conversions' = [conversions EXCEPT ![c].pc = IF refused THEN "refused" ELSE "converted"]
  BY Zenon DEF CommitConversion
<1>2. q \in DOMAIN fxQuotes /\ fxQuotes[q].reference = "none" /\ fxQuotes \in Seq(QuoteRows)
  BY <1>1 DEF FxInv, HoldersInv, PricesInv
<1>3. CASE refused
  <2>1. PICK row : row = [conversions[c] EXCEPT !.pc = "refused"]
    OBVIOUS
  <2>2. conversions' = [conversions EXCEPT ![c] = row] /\ UNCHANGED <<rates, fxQuotes, fxLegs>>
    BY <1>1, <1>3, <2>1
  <2>3. row.pc = "refused" /\ row \in States
    BY <2>1 DEF FxInv, HoldersInv
  <2>4. HoldersInv'
    BY <2>2, <2>3 DEF FxInv, HoldersInv
  <2>. QED
    BY <2>2, <2>4 DEF FxInv, RatesInv, PricesInv, LegsInv
<1>4. CASE ~refused
  <2>1. PICK row : row = [conversions[c] EXCEPT !.pc = "converted"]
    OBVIOUS
  <2>2. conversions' = [conversions EXCEPT ![c] = row] /\ fxLegs' = fxLegs \cup {<<c, q>>}
    BY <1>1, <1>4, <2>1
  <2>3. row.pc = "converted" /\ row \in States
    BY <2>1 DEF FxInv, HoldersInv
  <2>4. PICK taken : taken = [fxQuotes[q] EXCEPT !.reference = c]
    OBVIOUS
  <2>5. fxQuotes' = [fxQuotes EXCEPT ![q] = taken]
    BY <1>1, <1>4, <2>4
  <2>6. fxQuotes[q] \in QuoteRows
    BY <1>2
  <2>7. /\ taken \in QuoteRows /\ taken.source = fxQuotes[q].source /\ taken.kind = fxQuotes[q].kind
        /\ taken.asked = fxQuotes[q].asked /\ taken.rate = fxQuotes[q].rate
        /\ taken.amounts = fxQuotes[q].amounts /\ taken.reference = c
    BY <2>4, <2>6 DEF QuoteRows
  <2>8. /\ fxQuotes' \in Seq(QuoteRows) /\ DOMAIN fxQuotes' = DOMAIN fxQuotes /\ fxQuotes'[q] = taken
        /\ \A j \in DOMAIN fxQuotes : j # q => fxQuotes'[j] = fxQuotes[j]
    BY <1>2, <2>5, <2>7, RowReplaced
  <2>9. c # "none"
    BY FxAssumption
  <2>10. \A p \in DOMAIN fxQuotes : fxQuotes[p].reference # c
    <3>. SUFFICES ASSUME NEW p \in DOMAIN fxQuotes, fxQuotes[p].reference = c PROVE FALSE
      OBVIOUS
    <3>1. <<c, p>> \in fxLegs
      BY <2>9 DEF FxInv, LegsInv
    <3>. QED
      BY <1>4, <3>1
  <2>11. ASSUME NEW j \in DOMAIN fxQuotes
         PROVE  /\ fxQuotes'[j].rate = fxQuotes[j].rate
                /\ QuoteMade(fxQuotes[j], rates[fxQuotes[j].rate]) => QuoteMade(fxQuotes'[j], rates[fxQuotes[j].rate])
    BY <2>7, <2>8 DEF QuoteMade
  <2>12. PricesInv'
    BY <1>1, <2>8, <2>11 DEF FxInv, PricesInv
  <2>13. HoldersInv'
    <3>1. \A e \in Converters : e # c => conversions'[e] = conversions[e]
      BY <2>2 DEF FxInv, HoldersInv
    <3>2. conversions'[c] = row
      BY <2>2 DEF FxInv, HoldersInv
    <3>3. \A e \in Converters : e # c /\ conversions[e].pc = "locked" => conversions[e].quote # q
      BY <1>1 DEF FxInv, HoldersInv
    <3>4. conversions' \in [Converters -> States]
      BY <2>2, <2>3 DEF FxInv, HoldersInv
    <3>. HIDE DEF q
    <3>5. \A e \in Converters : conversions'[e].pc = "locked" =>
            conversions'[e].quote \in DOMAIN fxQuotes' /\ fxQuotes'[conversions'[e].quote].reference = "none"
      BY <2>3, <2>8, <3>1, <3>2, <3>3 DEF FxInv, HoldersInv
    <3>6. \A e, g \in Converters :
            (conversions'[e].pc = "locked" /\ conversions'[g].pc = "locked"
             /\ conversions'[e].quote = conversions'[g].quote) => e = g
      BY <2>3, <3>1, <3>2 DEF FxInv, HoldersInv
    <3>. QED
      BY <3>4, <3>5, <3>6 DEF HoldersInv
  <2>14. LegsInv'
    <3>. HIDE DEF q
    <3>1. {p \in DOMAIN fxQuotes' : fxQuotes'[p].reference # "none"}
            = {p \in DOMAIN fxQuotes : fxQuotes[p].reference # "none"} \cup {q}
      BY <1>2, <2>7, <2>8, <2>9
    <3>2. \A p \in {r \in DOMAIN fxQuotes : fxQuotes[r].reference # "none"} : fxQuotes'[p].reference = fxQuotes[p].reference
      BY <1>2, <2>8
    <3>3. fxLegs = {<<fxQuotes[p].reference, p>> : p \in {r \in DOMAIN fxQuotes : fxQuotes[r].reference # "none"}}
      BY DEF FxInv, LegsInv
    <3>4. fxLegs' = {<<fxQuotes'[p].reference, p>> : p \in {r \in DOMAIN fxQuotes' : fxQuotes'[r].reference # "none"}}
      BY <2>2, <2>7, <2>8, <3>1, <3>2, <3>3
    <3>5. \A p, r \in DOMAIN fxQuotes' :
            (fxQuotes'[p].reference = fxQuotes'[r].reference /\ fxQuotes'[p].reference # "none") => p = r
      BY <1>2, <2>7, <2>8, <2>10 DEF FxInv, LegsInv
    <3>. QED
      BY <3>4, <3>5 DEF LegsInv
  <2>. QED
    BY <1>1, <2>12, <2>13, <2>14 DEF FxInv, RatesInv
<1>. QED
  BY <1>3, <1>4

LEMMA FxStep ==
  ASSUME FxInv, [FxNext]_fxVars
  PROVE  FxInv'
<1>1. CASE UNCHANGED fxVars
  BY <1>1 DEF fxVars, FxInv, RatesInv, PricesInv, HoldersInv, LegsInv
<1>2. CASE FxNext
  BY <1>2, SetRateOK, RatesAgeOK, CreateQuoteOK, ExpireQuoteOK, LockQuoteOK, CommitConversionOK,
     AbandonConversionOK DEF FxNext
<1>. QED
  BY <1>1, <1>2

LEMMA FxStart == FxInit => FxInv
<1>. SUFFICES ASSUME FxInit PROVE FxInv
  OBVIOUS
<1>1. rates \in Seq(RateRows) /\ fxQuotes \in Seq(QuoteRows) /\ DOMAIN fxQuotes = {}
  BY DEF FxInit
<1>2. PricesInv
  BY <1>1 DEF PricesInv
<1>3. HoldersInv
  BY DEF FxInit, HoldersInv
<1>4. LegsInv
  BY <1>1 DEF FxInit, LegsInv
<1>. QED
  BY <1>1, <1>2, <1>3, <1>4 DEF FxInv, RatesInv

\* FxService and fx.ts: for any rates, spread, minor units and conversions, a quote is converted
\* once and by one reference, a round trip never gains, and what is charged for an amount to
\* receive is the smallest that yields it.
THEOREM FxSound == FxSpec => []QuotesAreSound
<1>1. FxInv => QuotesAreSound
  <2>. SUFFICES ASSUME FxInv PROVE QuotesAreSound
    OBVIOUS
  <2>0. ASSUME NEW q \in DOMAIN fxQuotes
        PROVE  /\ fxQuotes[q] \in QuoteRows /\ rates[fxQuotes[q].rate] \in RateRows
               /\ QuoteMade(fxQuotes[q], rates[fxQuotes[q].rate])
    BY DEF FxInv, PricesInv, RatesInv
  <2>1. FxTypeOK
    <3>. SUFFICES ASSUME NEW q \in DOMAIN fxQuotes
                  PROVE  /\ fxQuotes[q].amounts.sourceAmount > 0
                         /\ fxQuotes[q].amounts.targetAmount \in 1 .. fxQuotes[q].amounts.gross
                         /\ fxQuotes[q].reference \in Converters \cup {"none"}
      BY DEF FxTypeOK
    <3>1. PICK fq \in QuoteRows, rate \in RateRows : fq = fxQuotes[q] /\ QuoteMade(fq, rate)
      BY <2>0
    <3>2. fq.amounts \in Amounts /\ fq.source \in FxCurrencies /\ fq.amounts.sourceAmount \in Nat
      BY DEF QuoteRows, Amounts
    <3>3. fq.amounts = ConvertFromSource(rate, fq.source, fq.amounts.sourceAmount)
          /\ fq.amounts.sourceAmount > 0 /\ fq.amounts.targetAmount > 0
      BY <3>1 DEF QuoteMade
    <3>4. fq.amounts.targetAmount <= fq.amounts.gross
      BY <3>2, <3>3, ConvertedIs
    <3>. QED
      BY <3>1, <3>2, <3>3, <3>4 DEF QuoteRows, Amounts
  <2>2. QuotesConvertOnce
    <3>1. \A x \in fxLegs : \E q \in DOMAIN fxQuotes :
            x = <<fxQuotes[q].reference, q>> /\ fxQuotes[q].reference # "none"
      BY DEF FxInv, LegsInv
    <3>2. ASSUME NEW x \in fxLegs, NEW y \in fxLegs PROVE (x[1] = y[1]) <=> (x[2] = y[2])
      <4>1. PICK p \in DOMAIN fxQuotes : x = <<fxQuotes[p].reference, p>> /\ fxQuotes[p].reference # "none"
        BY <3>1
      <4>2. PICK q \in DOMAIN fxQuotes : y = <<fxQuotes[q].reference, q>> /\ fxQuotes[q].reference # "none"
        BY <3>1
      <4>. QED
        BY <4>1, <4>2 DEF FxInv, LegsInv
    <3>. QED
      BY <3>2 DEF QuotesConvertOnce, FxInv, LegsInv
  <2>3. RoundTripNeverGains
    <3>. SUFFICES ASSUME NEW p \in DOMAIN fxQuotes, NEW q \in DOMAIN fxQuotes,
                         fxQuotes[p].rate = fxQuotes[q].rate, fxQuotes[p].source # fxQuotes[q].source,
                         fxQuotes[q].amounts.sourceAmount <= fxQuotes[p].amounts.targetAmount
                  PROVE  fxQuotes[q].amounts.targetAmount <= fxQuotes[p].amounts.sourceAmount
      BY DEF RoundTripNeverGains
    <3>1. PICK there \in QuoteRows, back \in QuoteRows, rate \in RateRows :
            there = fxQuotes[p] /\ back = fxQuotes[q] /\ QuoteMade(there, rate) /\ QuoteMade(back, rate)
      BY <2>0
    <3>2. there.source \in FxCurrencies /\ back.source = Other(there.source)
      BY <3>1, OtherIs DEF QuoteRows
    <3>3. PICK f : f = Factor(rate, there.source)
      OBVIOUS
    <3>4. PICK n \in Nat \ {0}, d \in Nat \ {0} : n = f.n /\ d = f.d
      BY <3>2, <3>3, FactorIs
    <3>5. Factor(rate, back.source).n = d /\ Factor(rate, back.source).d = n
      BY <3>2, <3>3, <3>4, FactorIs
    <3>6. PICK x \in Nat, y \in Nat, z \in Nat :
            x = there.amounts.sourceAmount /\ y = back.amounts.sourceAmount /\ z = there.amounts.targetAmount
      BY DEF QuoteRows, Amounts
    <3>7. there.amounts = ConvertFromSource(rate, there.source, x) /\ back.amounts = ConvertFromSource(rate, back.source, y)
      BY <3>1, <3>6 DEF QuoteMade
    <3>8. PICK k \in Nat : k = SpreadScale - Spread /\ k <= SpreadScale
      BY SpreadLeaves
    <3>9. z = (x * n * k) \div (d * SpreadScale)
      BY <3>2, <3>3, <3>4, <3>6, <3>7, <3>8, ConvertedIs
    <3>10. back.source \in FxCurrencies
      BY <3>2, OtherIs
    <3>11. back.amounts.targetAmount = (y * d * k) \div (n * SpreadScale)
      BY <3>5, <3>7, <3>8, <3>10, ConvertedIs
    <3>12. y <= (x * n * k) \div (d * SpreadScale)
      BY <3>1, <3>6, <3>9
    <3>13. (y * d * k) \div (n * SpreadScale) <= x
      BY <3>8, <3>12, SpreadLeaves, ThereAndBack
    <3>. QED
      BY <3>1, <3>6, <3>11, <3>13
  <2>4. ChargedIsSmallest
    <3>. SUFFICES ASSUME NEW q \in DOMAIN fxQuotes, fxQuotes[q].kind = "receive"
                  PROVE  /\ fxQuotes[q].amounts.targetAmount >= fxQuotes[q].asked
                         /\ \A less \in 1 .. fxQuotes[q].amounts.sourceAmount - 1 :
                              ConvertFromSource(rates[fxQuotes[q].rate], fxQuotes[q].source, less).targetAmount
                                < fxQuotes[q].asked
      BY DEF ChargedIsSmallest
    <3>1. PICK fq \in QuoteRows, rate \in RateRows :
            fq = fxQuotes[q] /\ rate = rates[fxQuotes[q].rate] /\ QuoteMade(fq, rate)
      BY <2>0
    <3>2. PICK f : f = Factor(rate, fq.source)
      OBVIOUS
    <3>3. fq.source \in FxCurrencies /\ fq.asked \in Nat \ {0}
      BY DEF QuoteRows
    <3>4. PICK n \in Nat \ {0}, d \in Nat \ {0} : n = f.n /\ d = f.d
      BY <3>2, <3>3, FactorIs
    <3>5. PICK k \in Nat \ {0} : k = SpreadScale - Spread
      BY SpreadLeaves
    <3>6. PICK paid : paid = fq.amounts.sourceAmount
      OBVIOUS
    <3>7. paid = FxCeilDiv(fq.asked * d * SpreadScale, n * k)
      BY <3>1, <3>2, <3>4, <3>5, <3>6 DEF QuoteMade
    <3>8. paid = (fq.asked * d * SpreadScale + n * k - 1) \div (n * k)
      BY <3>7 DEF FxCeilDiv
    <3>9. /\ paid \in Nat \ {0} /\ fq.asked <= (paid * n * k) \div (d * SpreadScale)
          /\ \A less \in 1..(paid - 1) : (less * n * k) \div (d * SpreadScale) < fq.asked
      BY <3>3, <3>8, SpreadLeaves, SmallestThatYields
    <3>10. fq.amounts = ConvertFromSource(rate, fq.source, paid)
      BY <3>1, <3>6 DEF QuoteMade
    <3>11. ASSUME NEW x \in Nat
           PROVE  ConvertFromSource(rate, fq.source, x).targetAmount = (x * n * k) \div (d * SpreadScale)
      BY <3>2, <3>3, <3>4, <3>5, ConvertedIs
    <3>12. fq.amounts.targetAmount = (paid * n * k) \div (d * SpreadScale)
      BY <3>9, <3>10, <3>11
    <3>13. fq.amounts.targetAmount >= fq.asked
      BY <3>9, <3>12
    <3>14. \A less \in 1..(paid - 1) : ConvertFromSource(rate, fq.source, less).targetAmount < fq.asked
      BY <3>9, <3>11
    <3>. QED
      BY <3>1, <3>6, <3>13, <3>14
  <2>. QED
    BY <2>1, <2>2, <2>3, <2>4 DEF QuotesAreSound
<1>. QED
  BY <1>1, FxStart, FxStep, PTL DEF FxSpec

-----------------------------------------------------------------------------
(* Money requests: what the transactions of an owner add up to *)

Everywhen == {"day", "month", "past"}
RuleRows == [perTransaction : Caps, dailyAmount : Caps, dailyCount : Caps, monthlyAmount : Caps]
TxRows ==
  [key : KeyNames, amount : Nat \ {0}, rule : Rules \cup {NoRule}, window : Everywhen,
   status : {"processing", "successful", "failed"}]

\* What is used under a rule, and whether n more transactions of a in all fit in it.
Under(txs, rule, windows) == {i \in Used(txs, windows) : txs[i].rule = rule}
Room(txs, rule, n, a) ==
  /\ Within(Cardinality(Under(txs, rule, Daily)) + n, rule.dailyCount)
  /\ Within(AmountOf(txs, Under(txs, rule, Daily)) + a, rule.dailyAmount)
  /\ Within(AmountOf(txs, Under(txs, rule, Monthly)) + a, rule.monthlyAmount)

LEMMA RulesAre == \A rule \in Rules \cup {NoRule} : rule \in RuleRows
  BY MoneyRequestsAssumption DEF NoRule, RuleRows, Caps

LEMMA WithinLess ==
  ASSUME NEW x \in Nat, NEW y \in Nat, x <= y, NEW k \in Nat, NEW cap \in Caps, Within(y + k, cap)
  PROVE  Within(x + k, cap)
  BY DEF Within, Caps

LEMMA TxFields == \A t \in TxRows : t.amount \in Nat /\ t.amount > 0 /\ t.rule \in Rules \cup {NoRule}
  BY DEF TxRows

\* The rows of a table are finitely many, and so are the ones that are used.
LEMMA UsedAre ==
  ASSUME NEW txs \in Seq(TxRows), NEW ids \in SUBSET DOMAIN txs
  PROVE  /\ IsFiniteSet(ids) /\ Cardinality(ids) \in Nat /\ AmountOf(txs, ids) \in Nat
         /\ \A x \in SUBSET ids : AmountOf(txs, x) <= AmountOf(txs, ids) /\ Cardinality(x) <= Cardinality(ids)
<1>1. DOMAIN txs = 1..Len(txs) /\ Len(txs) \in Nat
  OBVIOUS
<1>2. IsFiniteSet(DOMAIN txs)
  BY <1>1, FS_Interval
<1>3. IsFiniteSet(ids)
  BY <1>2, FS_Subset
<1>4. Cardinality(ids) \in Nat
  BY <1>3, FS_CardinalityType
<1>5. PICK f : f = [i \in DOMAIN txs |-> txs[i].amount]
  OBVIOUS
<1>6. \A i \in DOMAIN txs : f[i] \in Nat
  <2>1. \A i \in DOMAIN txs : txs[i] \in TxRows
    OBVIOUS
  <2>. QED
    BY <1>5, <2>1, TxFields
<1>7. \A x : AmountOf(txs, x) = SumOver(f, x)
  BY <1>5 DEF AmountOf
<1>8. SumOver(f, ids) \in Nat
  BY <1>3, <1>6, SumType
<1>9. \A x \in SUBSET ids : SumOver(f, x) <= SumOver(f, ids)
  BY <1>3, <1>6, SumSubset
<1>10. \A x \in SUBSET ids : Cardinality(x) <= Cardinality(ids)
  BY <1>3, FS_Subset
<1>. QED
  BY <1>3, <1>4, <1>7, <1>8, <1>9, <1>10

\* Transactions that fail or leave their window leave more room.
LEMMA MoreRoom ==
  ASSUME NEW txs \in Seq(TxRows), NEW later \in Seq(TxRows), DOMAIN later = DOMAIN txs,
         \A i \in DOMAIN txs : later[i].amount = txs[i].amount /\ later[i].rule = txs[i].rule,
         Used(later, Daily) \subseteq Used(txs, Daily), Used(later, Monthly) \subseteq Used(txs, Monthly),
         NEW rule \in Rules \cup {NoRule}, NEW n \in Nat, NEW a \in Nat, Room(txs, rule, n, a)
  PROVE  Room(later, rule, n, a)
<1>1. [i \in DOMAIN later |-> later[i].amount] = [i \in DOMAIN txs |-> txs[i].amount]
  OBVIOUS
<1>2. \A ids : AmountOf(later, ids) = AmountOf(txs, ids)
  BY <1>1 DEF AmountOf
<1>3. ASSUME NEW w, Used(later, w) \subseteq Used(txs, w)
      PROVE  Under(later, rule, w) \subseteq Under(txs, rule, w) /\ Under(txs, rule, w) \subseteq DOMAIN txs
  BY <1>3 DEF Under, Used
<1>4. PICK d, e : d = Under(txs, rule, Daily) /\ e = Under(later, rule, Daily)
  OBVIOUS
<1>5. PICK m, o : m = Under(txs, rule, Monthly) /\ o = Under(later, rule, Monthly)
  OBVIOUS
<1>6. d \in SUBSET DOMAIN txs /\ m \in SUBSET DOMAIN txs /\ e \in SUBSET d /\ o \in SUBSET m
      /\ e \in SUBSET DOMAIN txs /\ o \in SUBSET DOMAIN txs
  BY <1>3, <1>4, <1>5
<1>7. /\ Cardinality(e) \in Nat /\ Cardinality(d) \in Nat /\ Cardinality(e) <= Cardinality(d)
      /\ AmountOf(txs, e) \in Nat /\ AmountOf(txs, d) \in Nat /\ AmountOf(txs, e) <= AmountOf(txs, d)
      /\ AmountOf(txs, o) \in Nat /\ AmountOf(txs, m) \in Nat /\ AmountOf(txs, o) <= AmountOf(txs, m)
  BY <1>6, UsedAre
<1>8. rule.dailyCount \in Caps /\ rule.dailyAmount \in Caps /\ rule.monthlyAmount \in Caps
  BY RulesAre DEF RuleRows
<1>9. Within(Cardinality(d) + n, rule.dailyCount) /\ Within(AmountOf(txs, d) + a, rule.dailyAmount)
      /\ Within(AmountOf(txs, m) + a, rule.monthlyAmount)
  BY <1>4, <1>5 DEF Room
<1>10. Within(Cardinality(e) + n, rule.dailyCount) /\ Within(AmountOf(txs, e) + a, rule.dailyAmount)
       /\ Within(AmountOf(txs, o) + a, rule.monthlyAmount)
  <2>1. Within(Cardinality(e) + n, rule.dailyCount)
    BY <1>7, <1>8, <1>9, WithinLess
  <2>2. Within(AmountOf(txs, e) + a, rule.dailyAmount)
    BY <1>7, <1>8, <1>9, WithinLess
  <2>3. Within(AmountOf(txs, o) + a, rule.monthlyAmount)
    BY <1>7, <1>8, <1>9, WithinLess
  <2>. QED
    BY <2>1, <2>2, <2>3
<1>. QED
  BY <1>2, <1>4, <1>5, <1>10 DEF Room

\* One more row.
Extends(later, txs, new) ==
  /\ new \notin DOMAIN txs /\ DOMAIN later = DOMAIN txs \cup {new}
  /\ \A j \in DOMAIN txs : later[j] = txs[j]

With(ids, new) == ids \cup {new}

\* What a new transaction adds to the transactions that are used.
LEMMA OneMore ==
  ASSUME NEW txs \in Seq(TxRows), NEW later \in Seq(TxRows), NEW new, Extends(later, txs, new),
         NEW ids \in SUBSET DOMAIN txs
  PROVE  /\ AmountOf(later, ids) = AmountOf(txs, ids)
         /\ AmountOf(later, With(ids, new)) = AmountOf(txs, ids) + later[new].amount
         /\ Cardinality(With(ids, new)) = Cardinality(ids) + 1
<1>3. PICK f : f = [i \in DOMAIN txs |-> txs[i].amount]
  OBVIOUS
<1>4. PICK g : g = [i \in DOMAIN later |-> later[i].amount]
  OBVIOUS
<1>5. \A x : AmountOf(txs, x) = SumOver(f, x) /\ AmountOf(later, x) = SumOver(g, x)
  BY <1>3, <1>4 DEF AmountOf
<1>6. \A i \in ids : g[i] = f[i]
  BY <1>3, <1>4 DEF Extends
<1>7. g[new] = later[new].amount /\ new \notin ids
  BY <1>4 DEF Extends
<1>8. \A i \in ids \cup {new} : g[i] \in Nat
  <2>1. \A i \in DOMAIN later : later[i] \in TxRows
    OBVIOUS
  <2>. QED
    BY <1>4, <2>1, TxFields DEF Extends
<1>9. IsFiniteSet(ids)
  BY UsedAre
<1>10. SumOver(g, ids) = SumOver(f, ids)
  BY <1>6, SumEqual
<1>11. SumOver(g, ids \cup {new}) = SumOver(g, ids) + g[new]
  BY <1>7, <1>8, <1>9, SumAdd
<1>12. Cardinality(ids \cup {new}) = Cardinality(ids) + 1
  BY <1>7, <1>9, FS_AddElement
<1>. QED
  BY <1>5, <1>7, <1>10, <1>11, <1>12 DEF With

\* A transaction of today uses what its own rule had left, and nothing of another's.
LEMMA LessRoom ==
  ASSUME NEW txs \in Seq(TxRows), NEW later \in Seq(TxRows), NEW new, Extends(later, txs, new),
         NEW t \in TxRows, t = later[new], t.window = "day", t.status # "failed",
         NEW rule \in Rules \cup {NoRule}, NEW n \in Nat, NEW a \in Nat
  PROVE  /\ t.rule # rule /\ Room(txs, rule, n, a) => Room(later, rule, n, a)
         /\ t.rule = rule /\ Room(txs, rule, 1, t.amount) => Room(later, rule, 0, 0)
<1>3. ASSUME NEW w, "day" \in w
      PROVE  /\ Under(txs, rule, w) \in SUBSET DOMAIN txs
             /\ t.rule # rule => Under(later, rule, w) = Under(txs, rule, w)
             /\ t.rule = rule => Under(later, rule, w) = Under(txs, rule, w) \cup {new}
  BY <1>3 DEF Under, Used, Extends
<1>4. PICK d : d = Under(txs, rule, Daily)
  OBVIOUS
<1>5. PICK m : m = Under(txs, rule, Monthly)
  OBVIOUS
<1>6. d \in SUBSET DOMAIN txs /\ m \in SUBSET DOMAIN txs
  BY <1>3, <1>4, <1>5 DEF Daily, Monthly
<1>7. /\ Cardinality(d) \in Nat /\ AmountOf(txs, d) \in Nat /\ AmountOf(txs, m) \in Nat
  BY <1>6, UsedAre
<1>8. ASSUME NEW ids \in SUBSET DOMAIN txs
      PROVE  /\ AmountOf(later, ids) = AmountOf(txs, ids)
             /\ AmountOf(later, ids \cup {new}) = AmountOf(txs, ids) + t.amount
             /\ Cardinality(ids \cup {new}) = Cardinality(ids) + 1
  <2>1. AmountOf(later, ids) = AmountOf(txs, ids)
    BY OneMore
  <2>2. AmountOf(later, With(ids, new)) = AmountOf(txs, ids) + later[new].amount
    BY OneMore
  <2>3. Cardinality(With(ids, new)) = Cardinality(ids) + 1
    BY OneMore
  <2>. QED
    BY <2>1, <2>2, <2>3 DEF With
<1>9. /\ AmountOf(later, d) = AmountOf(txs, d) /\ AmountOf(later, d \cup {new}) = AmountOf(txs, d) + t.amount
      /\ Cardinality(d \cup {new}) = Cardinality(d) + 1
      /\ AmountOf(later, m) = AmountOf(txs, m) /\ AmountOf(later, m \cup {new}) = AmountOf(txs, m) + t.amount
  BY <1>6, <1>8
<1>10. ASSUME t.rule # rule, Room(txs, rule, n, a) PROVE Room(later, rule, n, a)
  <2>1. Under(later, rule, Daily) = d /\ Under(later, rule, Monthly) = m
    BY <1>3, <1>4, <1>5, <1>10 DEF Daily, Monthly
  <2>. QED
    BY <1>4, <1>5, <1>8, <1>9, <1>10, <2>1 DEF Room
<1>11. ASSUME t.rule = rule, Room(txs, rule, 1, t.amount) PROVE Room(later, rule, 0, 0)
  <2>1. Under(later, rule, Daily) = d \cup {new} /\ Under(later, rule, Monthly) = m \cup {new}
    BY <1>3, <1>4, <1>5, <1>11 DEF Daily, Monthly
  <2>2. t.amount \in Nat
    BY DEF TxRows
  <2>3. /\ Within(Cardinality(d) + 1, rule.dailyCount) /\ Within(AmountOf(txs, d) + t.amount, rule.dailyAmount)
        /\ Within(AmountOf(txs, m) + t.amount, rule.monthlyAmount)
    BY <1>4, <1>5, <1>11 DEF Room
  <2>4. /\ Within(Cardinality(d \cup {new}) + 0, rule.dailyCount) /\ Within(AmountOf(later, d \cup {new}) + 0, rule.dailyAmount)
        /\ Within(AmountOf(later, m \cup {new}) + 0, rule.monthlyAmount)
    BY <1>7, <1>8, <1>9, <2>2, <2>3
  <2>. QED
    BY <2>1, <2>4 DEF Room
<1>. QED
  BY <1>10, <1>11

(* Money requests: the inductive invariant *)

KeyRows ==
  [id : Nat \ {0}, amount : Nat, status : {"processing", "completed"}, stale : BOOLEAN,
   expired : BOOLEAN, answer : Nat]

HasLock(r) == r.at = "commit" /\ r.locked

\* A stored answer is the transaction of its key.
AnswerOf(row, k, txs) ==
  IF row.status = "completed" THEN row.answer \in DOMAIN txs /\ txs[row.answer].key = k ELSE row.answer = 0

\* What a call knows: the rule it passes, room under it for as long as it has the lock, the
\* transaction of its key, and that the row it is about to drop has expired.
CallOK(r, sent, txs, row, ids) ==
  /\ r.at = "destination" => DOMAIN r = {"at", "row"}
  /\ r.at = "release" => r.status # "ok"
  /\ r.at \in {"lock", "commit"} =>
       /\ DOMAIN r = {"at", "row", "rule", "locked"} /\ r.rule \in Rules \cup {NoRule}
       /\ Within(sent.amount, r.rule.perTransaction)
  /\ HasLock(r) => Room(txs, r.rule, 1, sent.amount)
  /\ (r.at = "commit" /\ ~HasLock(r)) =>
       r.rule.dailyAmount = -1 /\ r.rule.dailyCount = -1 /\ r.rule.monthlyAmount = -1
  /\ (r.at = "complete" \/ (r.at = "done" /\ r.status = "ok")) =>
       r.tx \in DOMAIN txs /\ txs[r.tx].key = sent.key
  /\ r.at = "drop" =>
       /\ r.row \in Nat /\ r.row <= ids
       /\ (row # NoRow /\ row.id = r.row) => row.expired

KeysInv ==
  /\ body \in [Calls -> [key : KeyNames, amount : Nat \ {0}]]
  /\ rowIds \in Nat /\ keyRow \in [KeyNames -> KeyRows \cup {NoRow}]
  /\ \A k \in KeyNames : keyRow[k] # NoRow => keyRow[k].id <= rowIds /\ AnswerOf(keyRow[k], k, transactions)

\* One transaction per key, the balance that they leave, and what is used within the rules.
BooksInv ==
  /\ transactions \in Seq(TxRows)
  /\ \A i, j \in DOMAIN transactions : transactions[i].key = transactions[j].key => i = j
  /\ available \in Nat
  /\ available = Deposit - AmountOf(transactions, Used(transactions, Everywhen))
  /\ \A i \in DOMAIN transactions : Within(transactions[i].amount, transactions[i].rule.perTransaction)
  /\ \A rule \in Rules \cup {NoRule} : Room(transactions, rule, 0, 0)

RuleTable == rules \in [own : Rules \cup {NoRule}, default : Rules \cup {NoRule}]

CallsInv ==
  /\ DOMAIN call = Calls
  /\ \A c \in Calls : CallOK(call[c], body[c], transactions, keyRow[body[c].key], rowIds)
  /\ \A c, d \in Calls : (HasLock(call[c]) /\ HasLock(call[d])) => c = d

MoneyInv == KeysInv /\ BooksInv /\ RuleTable /\ CallsInv

LEMMA RowIs == \A row \in KeyRows : row # NoRow /\ row.id \in Nat /\ row.id > 0
  BY DEF KeyRows, NoRow

\* Calls that hold nothing.
LEMMA PlainCall ==
  ASSUME NEW r, r.at \in {"idle", "begin", "look", "takeOver", "find", "rule"},
         NEW sent, NEW txs, NEW row, NEW ids
  PROVE  CallOK(r, sent, txs, row, ids) /\ ~HasLock(r)
  BY DEF CallOK, HasLock

LEMMA PlainAnswer ==
  ASSUME NEW r, NEW status, status # "ok", r = Answered(status, 0), NEW sent, NEW txs, NEW row, NEW ids
  PROVE  CallOK(r, sent, txs, row, ids) /\ ~HasLock(r)
  BY DEF CallOK, HasLock, Answered

LEMMA KnowsTransaction ==
  ASSUME NEW r, r.at \in {"complete", "done"}, NEW sent, NEW txs, r.tx \in DOMAIN txs, txs[r.tx].key = sent.key,
         NEW row, NEW ids
  PROVE  CallOK(r, sent, txs, row, ids) /\ ~HasLock(r)
  BY DEF CallOK, HasLock

\* What may become of a key's row: it goes, a new one comes, or it stays and does not unexpire.
RowGoesOn(row, later, ids) ==
  \/ later = NoRow \/ later = row
  \/ later.id \in Nat /\ later.id > ids
  \/ row # NoRow /\ later.id = row.id /\ (row.expired => later.expired)

\* Transactions stay, with their keys.
TxsGoOn(txs, later) == \A i \in DOMAIN txs : i \in DOMAIN later /\ later[i].key = txs[i].key

LEMMA CallKept ==
  ASSUME NEW r, NEW sent, NEW txs, NEW row, NEW ids \in Nat, CallOK(r, sent, txs, row, ids),
         NEW txs1, TxsGoOn(txs, txs1), NEW row1, RowGoesOn(row, row1, ids), NEW ids1 \in Nat, ids <= ids1,
         HasLock(r) => Room(txs1, r.rule, 1, sent.amount)
  PROVE  CallOK(r, sent, txs1, row1, ids1)
<1>1. r.at = "drop" => /\ r.row \in Nat /\ r.row <= ids1
                       /\ (row1 # NoRow /\ row1.id = r.row) => row1.expired
  BY DEF CallOK, RowGoesOn
<1>2. (r.at = "complete" \/ (r.at = "done" /\ r.status = "ok")) =>
        r.tx \in DOMAIN txs1 /\ txs1[r.tx].key = sent.key
  BY DEF CallOK, TxsGoOn
<1>. QED
  BY <1>1, <1>2 DEF CallOK

\* One call moves, or none: then c's next state is what it was.
LEMMA CallsGoOn ==
  ASSUME MoneyInv, NEW c \in Calls, NEW next, call' = [call EXCEPT ![c] = next],
         UNCHANGED body, TxsGoOn(transactions, transactions'),
         \A d \in Calls \ {c} : HasLock(call[d]) => Room(transactions', call[d].rule, 1, body[d].amount),
         rowIds' \in Nat, rowIds <= rowIds', \A k \in KeyNames : RowGoesOn(keyRow[k], keyRow'[k], rowIds),
         CallOK(next, body[c], transactions', keyRow'[body[c].key], rowIds'),
         HasLock(next) => LockFree(c)
  PROVE  CallsInv'
<1>1. DOMAIN call' = Calls /\ call'[c] = next /\ \A d \in Calls : d # c => call'[d] = call[d]
  BY DEF MoneyInv, CallsInv
<1>2. \A d \in Calls : CallOK(call[d], body[d], transactions, keyRow[body[d].key], rowIds)
  BY DEF MoneyInv, CallsInv
<1>3. rowIds \in Nat /\ \A d \in Calls : body[d].key \in KeyNames
  BY DEF MoneyInv, KeysInv
<1>4. ASSUME NEW d \in Calls PROVE CallOK(call'[d], body'[d], transactions', keyRow'[body'[d].key], rowIds')
  <2>1. CASE d = c
    BY <1>1, <2>1
  <2>2. CASE d # c
    <3>1. CallOK(call[d], body[d], transactions, keyRow[body[d].key], rowIds)
      BY <1>2
    <3>2. RowGoesOn(keyRow[body[d].key], keyRow'[body[d].key], rowIds)
      BY <1>3
    <3>3. HasLock(call[d]) => Room(transactions', call[d].rule, 1, body[d].amount)
      BY <2>2
    <3>4. CallOK(call[d], body[d], transactions', keyRow'[body[d].key], rowIds')
      BY <1>3, <3>1, <3>2, <3>3, CallKept
    <3>. QED
      BY <1>1, <2>2, <3>4
  <2>. QED
    BY <2>1, <2>2
<1>5. ASSUME NEW d \in Calls, NEW e \in Calls, HasLock(call'[d]), HasLock(call'[e]) PROVE d = e
  <2>1. \A x, y \in Calls : (HasLock(call[x]) /\ HasLock(call[y])) => x = y
    BY DEF MoneyInv, CallsInv
  <2>2. HasLock(next) => \A x \in Calls \ {c} : ~HasLock(call[x])
    BY DEF LockFree, HasLock
  <2>. QED
    BY <1>1, <1>5, <2>1, <2>2, Zenon
<1>. QED
  BY <1>1, <1>4, <1>5 DEF CallsInv

\* When no transaction moves, what the calls know of them stays.
LEMMA SameTransactions ==
  ASSUME MoneyInv, UNCHANGED <<body, transactions>>
  PROVE  /\ TxsGoOn(transactions, transactions')
         /\ \A d \in Calls : HasLock(call[d]) => Room(transactions', call[d].rule, 1, body[d].amount)
<1>1. \A d \in Calls : CallOK(call[d], body[d], transactions, keyRow[body[d].key], rowIds)
  BY DEF MoneyInv, CallsInv
<1>2. \A d \in Calls : HasLock(call[d]) => Room(transactions, call[d].rule, 1, body[d].amount)
  BY <1>1 DEF CallOK
<1>. QED
  BY <1>2 DEF TxsGoOn

\* One call moves and nothing else of the model does, the failures and the clock aside.
LEMMA CallMoves ==
  ASSUME MoneyInv, NEW c \in Calls, NEW next, call' = [call EXCEPT ![c] = next],
         UNCHANGED <<body, keyRow, rowIds, transactions, available, rules>>,
         CallOK(next, body[c], transactions, keyRow[body[c].key], rowIds),
         HasLock(next) => LockFree(c)
  PROVE  MoneyInv' /\ AnswerStays
<1>1. rowIds' \in Nat /\ rowIds <= rowIds'
  BY DEF MoneyInv, KeysInv
<1>2. \A k \in KeyNames : RowGoesOn(keyRow[k], keyRow'[k], rowIds)
  BY DEF RowGoesOn
<1>3. CallOK(next, body[c], transactions', keyRow'[body[c].key], rowIds')
  OBVIOUS
<1>4. CallsInv'
  BY <1>1, <1>2, <1>3, SameTransactions, CallsGoOn
<1>5. KeysInv' /\ BooksInv' /\ RuleTable'
  BY DEF MoneyInv, KeysInv, BooksInv, RuleTable
<1>. QED
  BY <1>4, <1>5 DEF MoneyInv, AnswerStays

\* One call moves with the row of one key, or none of both.
LEMMA KeyMoves ==
  ASSUME MoneyInv, NEW c \in Calls, NEW next, call' = [call EXCEPT ![c] = next],
         NEW k \in KeyNames, NEW row \in KeyRows \cup {NoRow}, keyRow' = [keyRow EXCEPT ![k] = row],
         UNCHANGED <<body, transactions, available, rules>>, rowIds' \in Nat, rowIds <= rowIds',
         RowGoesOn(keyRow[k], row, rowIds),
         row # NoRow => row.id <= rowIds' /\ AnswerOf(row, k, transactions),
         CallOK(next, body[c], transactions, keyRow'[body[c].key], rowIds'), HasLock(next) => LockFree(c),
         (keyRow[k] # NoRow /\ keyRow[k].status = "completed" /\ ~keyRow[k].expired) =>
           row # NoRow /\ row.id = keyRow[k].id /\ row.answer = keyRow[k].answer
  PROVE  MoneyInv' /\ AnswerStays
<1>1. keyRow \in [KeyNames -> KeyRows \cup {NoRow}] /\ rowIds \in Nat
  BY DEF MoneyInv, KeysInv
<1>2. keyRow'[k] = row /\ \A j \in KeyNames : j # k => keyRow'[j] = keyRow[j]
  BY <1>1
<1>3. keyRow' \in [KeyNames -> KeyRows \cup {NoRow}]
  BY <1>1
<1>4. \A j \in KeyNames : RowGoesOn(keyRow[j], keyRow'[j], rowIds)
  BY <1>2 DEF RowGoesOn
<1>5. CallOK(next, body[c], transactions', keyRow'[body[c].key], rowIds')
  OBVIOUS
<1>6. CallsInv'
  BY <1>4, <1>5, SameTransactions, CallsGoOn
<1>7. \A j \in KeyNames : keyRow'[j] # NoRow => keyRow'[j].id <= rowIds' /\ AnswerOf(keyRow'[j], j, transactions)
  <2>1. ASSUME NEW j \in KeyNames, j # k, keyRow[j] # NoRow
        PROVE  keyRow[j].id <= rowIds' /\ AnswerOf(keyRow[j], j, transactions)
    <3>1. keyRow[j] \in KeyRows /\ keyRow[j].id <= rowIds /\ AnswerOf(keyRow[j], j, transactions)
      BY <2>1 DEF MoneyInv, KeysInv
    <3>2. keyRow[j].id \in Nat
      BY <3>1, RowIs
    <3>. QED
      BY <1>1, <3>1, <3>2
  <2>. QED
    BY <1>2, <2>1
<1>8. KeysInv'
  BY <1>3, <1>7 DEF MoneyInv, KeysInv
<1>9. BooksInv' /\ RuleTable'
  BY DEF MoneyInv, BooksInv, RuleTable
<1>10. AnswerStays
  BY <1>2 DEF AnswerStays
<1>. QED
  BY <1>6, <1>8, <1>9, <1>10 DEF MoneyInv

\* The call's key, and its row as it is.
LEMMA RowOf ==
  ASSUME MoneyInv, NEW c \in Calls
  PROVE  /\ body[c].key \in KeyNames /\ body[c].amount \in Nat /\ Row(c) = keyRow[body[c].key]
         /\ Row(c) \in KeyRows \cup {NoRow}
         /\ Row(c) # NoRow => Row(c) \in KeyRows /\ Row(c).id <= rowIds /\ AnswerOf(Row(c), body[c].key, transactions)
         /\ CallOK(call[c], body[c], transactions, Row(c), rowIds) /\ rowIds \in Nat
<1>1. body[c].key \in KeyNames /\ body[c].amount \in Nat /\ Row(c) = keyRow[body[c].key] /\ rowIds \in Nat
  BY DEF MoneyInv, KeysInv, Row
<1>2. Row(c) \in KeyRows \cup {NoRow}
      /\ (Row(c) # NoRow => Row(c).id <= rowIds /\ AnswerOf(Row(c), body[c].key, transactions))
  BY <1>1 DEF MoneyInv, KeysInv
<1>3. CallOK(call[c], body[c], transactions, Row(c), rowIds)
  BY <1>1 DEF MoneyInv, CallsInv
<1>. QED
  BY <1>1, <1>2, <1>3

LEMMA AttemptIs ==
  ASSUME NEW c \in Calls, NEW next, next = NextAttempt(c), NEW sent, NEW txs, NEW row, NEW ids
  PROVE  CallOK(next, sent, txs, row, ids) /\ ~HasLock(next)
<1>1. CASE call[c].attempt = 1
  <2>1. next.at = "begin"
    BY <1>1 DEF NextAttempt
  <2>. QED
    BY <2>1, PlainCall
<1>2. CASE call[c].attempt # 1
  <2>1. next = Answered("in-progress", 0)
    BY <1>2 DEF NextAttempt
  <2>. QED
    BY <2>1, PlainAnswer
<1>. QED
  BY <1>1, <1>2

LEMMA TryInsertOK == ASSUME MoneyInv, NEW c \in Calls, TryInsert(c) PROVE MoneyInv' /\ AnswerStays
<1>. DEFINE attempt == IF call[c] = CallIdle THEN 1 ELSE call[c].attempt
<1>1. UNCHANGED <<body, transactions, available, rules>>
  BY DEF TryInsert
<1>2. CASE Row(c) = NoRow
  <2>1. PICK next : next = [at |-> "find", row |-> rowIds + 1]
    OBVIOUS
  <2>2. PICK row : row = [id |-> rowIds + 1, amount |-> body[c].amount, status |-> "processing",
                          stale |-> FALSE, expired |-> FALSE, answer |-> 0]
    OBVIOUS
  <2>3. PICK k : k = body[c].key
    OBVIOUS
  <2>4. rowIds' = rowIds + 1 /\ keyRow' = [keyRow EXCEPT ![k] = row] /\ call' = [call EXCEPT ![c] = next]
    BY <1>2, <2>1, <2>2, <2>3 DEF TryInsert, Goto
  <2>5. k \in KeyNames /\ body[c].amount \in Nat /\ keyRow[k] = NoRow /\ rowIds \in Nat
    BY <1>2, <2>3, RowOf
  <2>6. row \in KeyRows /\ row.id = rowIds + 1 /\ AnswerOf(row, k, transactions)
    BY <2>2, <2>5 DEF KeyRows, AnswerOf
  <2>7. RowGoesOn(keyRow[k], row, rowIds)
    BY <2>5, <2>6 DEF RowGoesOn
  <2>8. CallOK(next, body[c], transactions, keyRow'[body[c].key], rowIds') /\ ~HasLock(next)
    BY <2>1, PlainCall
  <2>9. rowIds' \in Nat /\ rowIds <= rowIds' /\ row.id <= rowIds'
    BY <2>4, <2>5, <2>6
  <2>. QED
    BY <1>1, <2>4, <2>5, <2>6, <2>7, <2>8, <2>9, KeyMoves
<1>3. CASE Row(c) # NoRow
  <2>1. PICK next : next = [at |-> "look", attempt |-> attempt]
    OBVIOUS
  <2>2. call' = [call EXCEPT ![c] = next] /\ UNCHANGED <<keyRow, rowIds>>
    BY <1>3, <2>1 DEF TryInsert, Goto
  <2>3. CallOK(next, body[c], transactions, keyRow[body[c].key], rowIds) /\ ~HasLock(next)
    BY <2>1, PlainCall
  <2>. QED
    BY <1>1, <2>2, <2>3, CallMoves
<1>. QED
  BY <1>2, <1>3

LEMMA LookOK == ASSUME MoneyInv, NEW c \in Calls, Look(c) PROVE MoneyInv' /\ AnswerStays
<1>1. PICK next :
        /\ call' = [call EXCEPT ![c] = next]
        /\ next = CASE Row(c) = NoRow -> NextAttempt(c)
                    [] Row(c) # NoRow /\ Row(c).expired -> [at |-> "drop", attempt |-> call[c].attempt, row |-> Row(c).id]
                    [] Row(c) # NoRow /\ ~Row(c).expired /\ Row(c).amount # body[c].amount -> Answered("reused", 0)
                    [] Row(c) # NoRow /\ ~Row(c).expired /\ Row(c).amount = body[c].amount /\ Row(c).status = "completed"
                         -> Answered("ok", Row(c).answer)
                    [] OTHER -> [at |-> "takeOver", row |-> Row(c).id]
  BY DEF Look, Goto
<1>2. UNCHANGED <<body, keyRow, rowIds, transactions, available, rules>>
  BY DEF Look
<1>3. \/ Row(c) = NoRow /\ next = NextAttempt(c)
      \/ Row(c) # NoRow /\ Row(c).expired /\ next = [at |-> "drop", attempt |-> call[c].attempt, row |-> Row(c).id]
      \/ next = Answered("reused", 0)
      \/ Row(c) # NoRow /\ Row(c).status = "completed" /\ next = Answered("ok", Row(c).answer)
      \/ next = [at |-> "takeOver", row |-> Row(c).id]
  BY <1>1
<1>4. CallOK(next, body[c], transactions, Row(c), rowIds) /\ ~HasLock(next)
  <2>1. CASE next = NextAttempt(c)
    BY <2>1, AttemptIs
  <2>2. CASE Row(c) # NoRow /\ Row(c).expired /\ next = [at |-> "drop", attempt |-> call[c].attempt, row |-> Row(c).id]
    <3>1. Row(c).id \in Nat /\ Row(c).id <= rowIds
      BY <2>2, RowOf, RowIs
    <3>. QED
      BY <2>2, <3>1 DEF CallOK, HasLock
  <2>3. CASE next = Answered("reused", 0)
    BY <2>3, PlainAnswer
  <2>4. CASE Row(c) # NoRow /\ Row(c).status = "completed" /\ next = Answered("ok", Row(c).answer)
    <3>1. AnswerOf(Row(c), body[c].key, transactions)
      BY <2>4, RowOf
    <3>2. Row(c).answer \in DOMAIN transactions /\ transactions[Row(c).answer].key = body[c].key
      BY <2>4, <3>1 DEF AnswerOf
    <3>3. next.at = "done" /\ next.tx = Row(c).answer
      BY <2>4 DEF Answered
    <3>. QED
      BY <3>2, <3>3, KnowsTransaction
  <2>5. CASE next = [at |-> "takeOver", row |-> Row(c).id]
    <3>1. next.at = "takeOver"
      BY <2>5
    <3>. QED
      BY <3>1, PlainCall
  <2>. QED
    BY <1>3, <2>1, <2>2, <2>3, <2>4, <2>5
<1>5. Row(c) = keyRow[body[c].key]
  BY DEF Row
<1>. QED
  BY <1>1, <1>2, <1>4, <1>5, CallMoves

LEMMA DropExpiredOK == ASSUME MoneyInv, NEW c \in Calls, DropExpired(c) PROVE MoneyInv' /\ AnswerStays
<1>1. PICK next : next = NextAttempt(c) /\ call' = [call EXCEPT ![c] = next]
  BY DEF DropExpired, Goto
<1>2. /\ UNCHANGED <<body, rowIds, transactions, available, rules>> /\ call[c].at = "drop"
      /\ keyRow' = IF Owns(c) THEN [keyRow EXCEPT ![body[c].key] = NoRow] ELSE keyRow
  BY DEF DropExpired
<1>3. \A row : CallOK(next, body[c], transactions, row, rowIds) /\ ~HasLock(next)
  BY <1>1, AttemptIs
<1>4. CASE ~Owns(c)
  BY <1>1, <1>2, <1>3, <1>4, CallMoves
<1>5. CASE Owns(c)
  <2>1. PICK k : k = body[c].key
    OBVIOUS
  <2>2. k \in KeyNames /\ rowIds \in Nat /\ Row(c) = keyRow[k] /\ CallOK(call[c], body[c], transactions, Row(c), rowIds)
    BY <2>1, RowOf
  <2>3. keyRow[k] # NoRow /\ keyRow[k].expired
    BY <1>2, <1>5, <2>2 DEF Owns, CallOK
  <2>4. keyRow' = [keyRow EXCEPT ![k] = NoRow] /\ RowGoesOn(keyRow[k], NoRow, rowIds)
    BY <1>2, <1>5, <2>1 DEF RowGoesOn
  <2>5. NoRow \in KeyRows \cup {NoRow} /\ rowIds' \in Nat /\ rowIds <= rowIds'
    BY <1>2, <2>2
  <2>6. CallOK(next, body[c], transactions, keyRow'[body[c].key], rowIds') /\ ~HasLock(next)
    BY <1>2, <1>3
  <2>. QED
    BY <1>1, <1>2, <2>2, <2>3, <2>4, <2>5, <2>6, KeyMoves
<1>. QED
  BY <1>4, <1>5

LEMMA TakeOverStaleOK == ASSUME MoneyInv, NEW c \in Calls, TakeOverStale(c) PROVE MoneyInv' /\ AnswerStays
<1>. DEFINE taken == Owns(c) /\ Row(c).status = "processing" /\ Row(c).stale
<1>1. UNCHANGED <<body, rowIds, transactions, available, rules>>
  BY DEF TakeOverStale
<1>2. CASE taken
  <2>1. PICK next : next = [at |-> "find", row |-> call[c].row]
    OBVIOUS
  <2>2. PICK k : k = body[c].key
    OBVIOUS
  <2>3. PICK row : row = [keyRow[k] EXCEPT !.stale = FALSE]
    OBVIOUS
  <2>4. call' = [call EXCEPT ![c] = next]
    BY <1>2, <2>1 DEF TakeOverStale, Goto
  <2>5. keyRow' = [keyRow EXCEPT ![k] = row]
    BY <1>2, <2>2, <2>3 DEF TakeOverStale
  <2>6. /\ k \in KeyNames /\ rowIds \in Nat /\ keyRow[k] # NoRow /\ keyRow[k].status = "processing"
        /\ keyRow[k] \in KeyRows /\ keyRow[k].id <= rowIds /\ AnswerOf(keyRow[k], k, transactions)
    BY <1>2, <2>2, RowOf DEF Owns
  <2>7. /\ row \in KeyRows /\ row.id = keyRow[k].id /\ row.status = "processing"
        /\ row.answer = keyRow[k].answer /\ row.expired = keyRow[k].expired
    BY <2>3, <2>6 DEF KeyRows
  <2>8. AnswerOf(row, k, transactions) /\ RowGoesOn(keyRow[k], row, rowIds)
    BY <2>6, <2>7 DEF AnswerOf, RowGoesOn
  <2>9. CallOK(next, body[c], transactions, keyRow'[body[c].key], rowIds') /\ ~HasLock(next)
    BY <2>1, PlainCall
  <2>10. rowIds' \in Nat /\ rowIds <= rowIds' /\ row.id <= rowIds'
    BY <1>1, <2>6, <2>7
  <2>. QED
    BY <1>1, <2>4, <2>5, <2>6, <2>7, <2>8, <2>9, <2>10, KeyMoves
<1>3. CASE ~taken
  <2>1. PICK next : next = Answered("in-progress", 0)
    OBVIOUS
  <2>2. call' = [call EXCEPT ![c] = next] /\ keyRow' = keyRow
    BY <1>3, <2>1 DEF TakeOverStale, Goto
  <2>3. CallOK(next, body[c], transactions, keyRow[body[c].key], rowIds) /\ ~HasLock(next)
    BY <2>1, PlainAnswer
  <2>. QED
    BY <1>1, <2>2, <2>3, CallMoves
<1>. QED
  BY <1>2, <1>3

\* What findByIdempotencyKey finds is the transaction of the key.
LEMMA FindExistingOK == ASSUME MoneyInv, NEW c \in Calls, FindExisting(c) PROVE MoneyInv' /\ AnswerStays
<1>. DEFINE found == OfKey(body[c].key)
<1>1. UNCHANGED <<body, keyRow, rowIds, transactions, available, rules>>
  BY DEF FindExisting
<1>2. CASE found # {}
  <2>1. PICK i : i \in found
    BY <1>2
  <2>2. i \in DOMAIN transactions /\ transactions[i].key = body[c].key /\ \A j \in found : j = i
    BY <2>1 DEF OfKey, MoneyInv, BooksInv
  <2>3. i \in Nat
    BY <2>2 DEF MoneyInv, BooksInv
  <2>4. Min(found) = i
    BY <2>1, <2>2, <2>3 DEF Min
  <2>5. PICK next : next = Succeed(c, Min(found))
    OBVIOUS
  <2>6. call' = [call EXCEPT ![c] = next]
    BY <1>2, <2>5 DEF FindExisting, Goto
  <2>7. next.at = "complete" /\ next.tx = i
    BY <2>4, <2>5 DEF Succeed
  <2>8. CallOK(next, body[c], transactions, keyRow[body[c].key], rowIds) /\ ~HasLock(next)
    BY <2>2, <2>7, KnowsTransaction
  <2>. QED
    BY <1>1, <2>6, <2>8, CallMoves
<1>3. CASE found = {}
  <2>1. PICK next : next = [at |-> IF service = "payout" THEN "destination" ELSE "rule", row |-> call[c].row]
    OBVIOUS
  <2>2. call' = [call EXCEPT ![c] = next]
    BY <1>3, <2>1 DEF FindExisting, Goto
  <2>3. DOMAIN next = {"at", "row"} /\ next.at \in {"destination", "rule"}
    BY <2>1
  <2>4. CallOK(next, body[c], transactions, keyRow[body[c].key], rowIds) /\ ~HasLock(next)
    BY <2>3 DEF CallOK, HasLock
  <2>. QED
    BY <1>1, <2>2, <2>4, CallMoves
<1>. QED
  BY <1>2, <1>3

LEMMA RefusedCall ==
  ASSUME NEW c \in Calls, NEW next, next = Refuse(c), NEW sent, NEW txs, NEW row, NEW ids
  PROVE  CallOK(next, sent, txs, row, ids) /\ ~HasLock(next)
<1>1. next.at = "release" /\ next.status = "refused"
  BY DEF Refuse
<1>. QED
  BY <1>1 DEF CallOK, HasLock

LEMMA CheckDestinationOK == ASSUME MoneyInv, NEW c \in Calls, CheckDestination(c) PROVE MoneyInv' /\ AnswerStays
<1>1. PICK next : /\ call' = [call EXCEPT ![c] = next]
                  /\ next = IF destination = "ready" THEN [call[c] EXCEPT !.at = "rule"] ELSE Refuse(c)
  BY DEF CheckDestination, Goto
<1>2. UNCHANGED <<body, keyRow, rowIds, transactions, available, rules>> /\ call[c].at = "destination"
  BY DEF CheckDestination
<1>3. CallOK(next, body[c], transactions, keyRow[body[c].key], rowIds) /\ ~HasLock(next)
  <2>1. CASE destination = "ready"
    <3>1. DOMAIN call[c] = {"at", "row"}
      BY <1>2, RowOf DEF CallOK
    <3>2. next.at = "rule"
      BY <1>1, <2>1, <3>1
    <3>. QED
      BY <3>2, PlainCall
  <2>2. CASE destination # "ready"
    BY <1>1, <2>2, RefusedCall
  <2>. QED
    BY <2>1, <2>2
<1>. QED
  BY <1>1, <1>2, <1>3, CallMoves

LEMMA ReadRuleOK == ASSUME MoneyInv, NEW c \in Calls, ReadRule(c) PROVE MoneyInv' /\ AnswerStays
<1>. DEFINE rule == ActiveRule
            goes == [at |-> IF rule.dailyAmount = -1 /\ rule.dailyCount = -1 /\ rule.monthlyAmount = -1
                            THEN "commit" ELSE "lock",
                     row |-> call[c].row, rule |-> rule, locked |-> FALSE]
<1>1. PICK next : /\ call' = [call EXCEPT ![c] = next]
                  /\ next = IF ~Within(body[c].amount, rule.perTransaction) THEN Refuse(c) ELSE goes
  BY Zenon DEF ReadRule, Goto
<1>2. UNCHANGED <<body, keyRow, rowIds, transactions, available, rules>>
  BY DEF ReadRule
<1>3. rule \in Rules \cup {NoRule}
  BY DEF ActiveRule, MoneyInv, RuleTable
<1>. HIDE DEF rule
<1>4. CallOK(next, body[c], transactions, keyRow[body[c].key], rowIds) /\ ~HasLock(next)
  <2>1. CASE ~Within(body[c].amount, rule.perTransaction)
    BY <1>1, <2>1, RefusedCall
  <2>2. CASE Within(body[c].amount, rule.perTransaction)
    <3>1. next = goes
      BY <1>1, <2>2
    <3>2. DOMAIN next = {"at", "row", "rule", "locked"} /\ next.rule = rule /\ next.locked = FALSE
          /\ next.at \in {"commit", "lock"}
      BY <3>1
    <3>3. next.at = "commit" => rule.dailyAmount = -1 /\ rule.dailyCount = -1 /\ rule.monthlyAmount = -1
      BY <3>1
    <3>4. ~HasLock(next)
      BY <3>2 DEF HasLock
    <3>. QED
      BY <1>3, <2>2, <3>2, <3>3, <3>4 DEF CallOK
  <2>. QED
    BY <2>1, <2>2
<1>. QED
  BY <1>1, <1>2, <1>4, CallMoves

\* What fits in all that is used fits in what is used under the rule.
LEMMA FitsLeavesRoom ==
  ASSUME transactions \in Seq(TxRows), NEW rule \in Rules \cup {NoRule}, NEW a \in Nat, Fits(rule, a)
  PROVE  Room(transactions, rule, 1, a)
<1>1. PICK d : d = Used(transactions, Daily)
  OBVIOUS
<1>2. PICK m : m = Used(transactions, Monthly)
  OBVIOUS
<1>3. PICK e : e = Under(transactions, rule, Daily)
  OBVIOUS
<1>4. PICK o : o = Under(transactions, rule, Monthly)
  OBVIOUS
<1>5. d \in SUBSET DOMAIN transactions /\ m \in SUBSET DOMAIN transactions /\ e \in SUBSET d /\ o \in SUBSET m
      /\ e \in SUBSET DOMAIN transactions /\ o \in SUBSET DOMAIN transactions
  BY <1>1, <1>2, <1>3, <1>4 DEF Under, Used
<1>6. /\ Cardinality(e) \in Nat /\ Cardinality(d) \in Nat /\ Cardinality(e) <= Cardinality(d)
      /\ AmountOf(transactions, e) \in Nat /\ AmountOf(transactions, d) \in Nat
      /\ AmountOf(transactions, e) <= AmountOf(transactions, d)
      /\ AmountOf(transactions, o) \in Nat /\ AmountOf(transactions, m) \in Nat
      /\ AmountOf(transactions, o) <= AmountOf(transactions, m)
  BY <1>5, UsedAre
<1>7. rule.dailyCount \in Caps /\ rule.dailyAmount \in Caps /\ rule.monthlyAmount \in Caps
  BY RulesAre DEF RuleRows
<1>8. Within(Cardinality(d) + 1, rule.dailyCount) /\ Within(AmountOf(transactions, d) + a, rule.dailyAmount)
      /\ Within(AmountOf(transactions, m) + a, rule.monthlyAmount)
  BY <1>1, <1>2 DEF Fits
<1>9. Within(Cardinality(e) + 1, rule.dailyCount)
  BY <1>6, <1>7, <1>8, WithinLess
<1>10. Within(AmountOf(transactions, e) + a, rule.dailyAmount)
  BY <1>6, <1>7, <1>8, WithinLess
<1>11. Within(AmountOf(transactions, o) + a, rule.monthlyAmount)
  BY <1>6, <1>7, <1>8, WithinLess
<1>. QED
  BY <1>3, <1>4, <1>9, <1>10, <1>11 DEF Room

LEMMA LockAndCheckOK == ASSUME MoneyInv, NEW c \in Calls, LockAndCheck(c) PROVE MoneyInv' /\ AnswerStays
<1>1. PICK next : /\ call' = [call EXCEPT ![c] = next]
                  /\ next = IF Fits(call[c].rule, body[c].amount)
                            THEN [call[c] EXCEPT !.at = "commit", !.locked = TRUE] ELSE Refuse(c)
  BY DEF LockAndCheck, Goto
<1>2. UNCHANGED <<body, keyRow, rowIds, transactions, available, rules>> /\ call[c].at = "lock" /\ LockFree(c)
  BY DEF LockAndCheck
<1>3. CallOK(next, body[c], transactions, keyRow[body[c].key], rowIds)
  <2>1. CASE Fits(call[c].rule, body[c].amount)
    <3>1. /\ DOMAIN call[c] = {"at", "row", "rule", "locked"} /\ call[c].rule \in Rules \cup {NoRule}
          /\ Within(body[c].amount, call[c].rule.perTransaction) /\ body[c].amount \in Nat
      BY <1>2, RowOf DEF CallOK
    <3>2. next = [call[c] EXCEPT !.at = "commit", !.locked = TRUE]
      BY <1>1, <2>1
    <3>3. DOMAIN next = {"at", "row", "rule", "locked"} /\ next.rule = call[c].rule /\ next.at = "commit" /\ next.locked = TRUE
      BY <3>1, <3>2
    <3>4. HasLock(next)
      BY <3>3 DEF HasLock
    <3>5. Room(transactions, next.rule, 1, body[c].amount)
      BY <2>1, <3>1, <3>3, FitsLeavesRoom DEF MoneyInv, BooksInv
    <3>. QED
      BY <3>1, <3>3, <3>4, <3>5 DEF CallOK
  <2>2. CASE ~Fits(call[c].rule, body[c].amount)
    BY <1>1, <2>2, RefusedCall
  <2>. QED
    BY <2>1, <2>2
<1>. QED
  BY <1>1, <1>2, <1>3, CallMoves

\* The keys' answers stay when the transactions do.
LEMMA AnswersStay ==
  ASSUME MoneyInv, UNCHANGED <<body, keyRow, rowIds>>, TxsGoOn(transactions, transactions')
  PROVE  KeysInv' /\ AnswerStays
<1>1. ASSUME NEW k \in KeyNames, keyRow[k] # NoRow PROVE AnswerOf(keyRow[k], k, transactions')
  BY <1>1 DEF MoneyInv, KeysInv, AnswerOf, TxsGoOn
<1>2. KeysInv'
  BY <1>1 DEF MoneyInv, KeysInv
<1>. QED
  BY <1>2 DEF AnswerStays

LEMMA CommitOK == ASSUME MoneyInv, NEW c \in Calls, Commit(c) PROVE MoneyInv' /\ AnswerStays
<1>1. call[c].at = "commit" /\ UNCHANGED <<service, body, keyRow, rowIds, rules>>
  BY DEF Commit
<1>2. CASE ~UniqueKey(body[c].key)
  <2>1. PICK next : next = [at |-> "find", row |-> call[c].row]
    OBVIOUS
  <2>2. call' = [call EXCEPT ![c] = next] /\ UNCHANGED <<transactions, available>>
    BY <1>2, <2>1 DEF Commit, Goto
  <2>3. CallOK(next, body[c], transactions, keyRow[body[c].key], rowIds) /\ ~HasLock(next)
    BY <2>1, PlainCall
  <2>. QED
    BY <1>1, <2>2, <2>3, CallMoves
<1>3. CASE UniqueKey(body[c].key) /\ available < body[c].amount
  <2>1. PICK next : next = Refuse(c)
    OBVIOUS
  <2>2. call' = [call EXCEPT ![c] = next] /\ UNCHANGED <<transactions, available>>
    BY <1>3, <2>1 DEF Commit, Goto
  <2>3. CallOK(next, body[c], transactions, keyRow[body[c].key], rowIds) /\ ~HasLock(next)
    BY <2>1, RefusedCall
  <2>. QED
    BY <1>1, <2>2, <2>3, CallMoves
<1>4. CASE UniqueKey(body[c].key) /\ ~(available < body[c].amount)
  <2>1. PICK t : t = [key |-> body[c].key, amount |-> body[c].amount, rule |-> call[c].rule, window |-> "day",
                      status |-> IF service = "payout" THEN "processing" ELSE "successful"]
    OBVIOUS
  <2>2. PICK new : new = Len(transactions) + 1
    OBVIOUS
  <2>3. PICK next : next = Succeed(c, new)
    OBVIOUS
  <2>4. transactions' = Append(transactions, t) /\ available' = available - body[c].amount
        /\ call' = [call EXCEPT ![c] = next]
    BY <1>4, <2>1, <2>2, <2>3 DEF Commit, Goto
  <2>5. /\ body[c].key \in KeyNames /\ body[c].amount \in Nat /\ body[c].amount > 0
        /\ CallOK(call[c], body[c], transactions, keyRow[body[c].key], rowIds)
    BY DEF MoneyInv, KeysInv, CallsInv
  <2>6. call[c].rule \in Rules \cup {NoRule} /\ Within(body[c].amount, call[c].rule.perTransaction)
    BY <1>1, <2>5 DEF CallOK
  <2>7. /\ t \in TxRows /\ t.key = body[c].key /\ t.amount = body[c].amount /\ t.rule = call[c].rule
        /\ t.window = "day" /\ t.status # "failed"
    BY <2>1, <2>5, <2>6 DEF TxRows, Everywhen
  <2>8. transactions \in Seq(TxRows)
    BY DEF MoneyInv, BooksInv
  <2>9. /\ transactions' \in Seq(TxRows) /\ DOMAIN transactions' = DOMAIN transactions \cup {new}
        /\ new \notin DOMAIN transactions /\ transactions'[new] = t /\ new \in Nat
        /\ \A i \in DOMAIN transactions : transactions'[i] = transactions[i]
    BY <2>2, <2>4, <2>7, <2>8, RowAdded
  <2>10. Extends(transactions', transactions, new) /\ TxsGoOn(transactions, transactions')
    BY <2>9 DEF Extends, TxsGoOn
  <2>11. Room(transactions, call[c].rule, 1, body[c].amount)
    BY <1>1, <2>5 DEF CallOK, Room, Within
  <2>12. \A rule \in Rules \cup {NoRule}, n \in Nat, a \in Nat :
           /\ t.rule # rule /\ Room(transactions, rule, n, a) => Room(transactions', rule, n, a)
           /\ t.rule = rule /\ Room(transactions, rule, 1, t.amount) => Room(transactions', rule, 0, 0)
    BY <2>7, <2>8, <2>9, <2>10, LessRoom
  <2>13. \A rule \in Rules \cup {NoRule} : Room(transactions', rule, 0, 0)
    BY <2>7, <2>11, <2>12 DEF MoneyInv, BooksInv
  <2>14. ASSUME NEW d \in Calls \ {c}, HasLock(call[d])
         PROVE  Room(transactions', call[d].rule, 1, body[d].amount)
    <3>1. ~HasLock(call[c]) /\ CallOK(call[d], body[d], transactions, keyRow[body[d].key], rowIds)
      BY <2>14 DEF MoneyInv, CallsInv
    <3>2. /\ call[d].rule \in Rules \cup {NoRule} /\ Room(transactions, call[d].rule, 1, body[d].amount)
          /\ body[d].amount \in Nat
      BY <2>14, <3>1 DEF CallOK, HasLock, MoneyInv, KeysInv
    <3>3. call[c].rule.dailyAmount = -1 /\ call[c].rule.dailyCount = -1 /\ call[c].rule.monthlyAmount = -1
      BY <1>1, <2>5, <3>1 DEF CallOK
    <3>4. CASE call[d].rule = call[c].rule
      BY <3>3, <3>4 DEF Room, Within
    <3>5. CASE call[d].rule # call[c].rule
      BY <2>7, <2>12, <3>2, <3>5
    <3>. QED
      BY <3>4, <3>5
  <2>15. CallOK(next, body[c], transactions', keyRow[body[c].key], rowIds) /\ ~HasLock(next)
    <3>1. next.at = "complete" /\ next.tx = new
      BY <2>3 DEF Succeed
    <3>2. new \in DOMAIN transactions' /\ transactions'[new].key = body[c].key
      BY <2>7, <2>9
    <3>. QED
      BY <3>1, <3>2, KnowsTransaction
  <2>16. CallsInv'
    <3>1. rowIds' \in Nat /\ rowIds <= rowIds' /\ \A k \in KeyNames : RowGoesOn(keyRow[k], keyRow'[k], rowIds)
      BY <1>1 DEF MoneyInv, KeysInv, RowGoesOn
    <3>2. CallOK(next, body[c], transactions', keyRow'[body[c].key], rowIds') /\ UNCHANGED body
      BY <1>1, <2>15
    <3>. QED
      BY <2>4, <2>10, <2>14, <2>15, <3>1, <3>2, CallsGoOn
  <2>17. BooksInv'
    <3>1. available' \in Nat
      BY <1>4, <2>4, <2>5 DEF MoneyInv, BooksInv
    <3>2. PICK used : used = Used(transactions, Everywhen)
      OBVIOUS
    <3>3. used \in SUBSET DOMAIN transactions
      BY <3>2 DEF Used
    <3>4. Used(transactions', Everywhen) = With(used, new)
      BY <2>7, <2>9, <3>2 DEF Used, With, Everywhen
    <3>5. AmountOf(transactions', With(used, new)) = AmountOf(transactions, used) + transactions'[new].amount
      BY <2>8, <2>9, <2>10, <3>3, OneMore
    <3>6. available = Deposit - AmountOf(transactions, used) /\ Deposit \in Nat /\ AmountOf(transactions, used) \in Nat
      BY <2>8, <3>2, <3>3, UsedAre, MoneyRequestsAssumption DEF MoneyInv, BooksInv
    <3>7. available' = Deposit - AmountOf(transactions', Used(transactions', Everywhen))
      BY <2>4, <2>5, <2>7, <2>9, <3>4, <3>5, <3>6
    <3>8. \A i \in DOMAIN transactions : transactions[i].key # body[c].key
      BY <1>4 DEF UniqueKey, OfKey
    <3>9. \A i, j \in DOMAIN transactions' : transactions'[i].key = transactions'[j].key => i = j
      BY <2>7, <2>9, <3>8 DEF MoneyInv, BooksInv
    <3>10. \A i \in DOMAIN transactions' : Within(transactions'[i].amount, transactions'[i].rule.perTransaction)
      BY <2>6, <2>7, <2>9 DEF MoneyInv, BooksInv
    <3>. QED
      BY <2>9, <2>13, <3>1, <3>7, <3>9, <3>10 DEF BooksInv
  <2>18. RuleTable'
    BY <1>1 DEF MoneyInv, RuleTable
  <2>. QED
    BY <1>1, <2>10, <2>16, <2>17, <2>18, AnswersStay DEF MoneyInv
<1>. QED
  BY <1>2, <1>3, <1>4

LEMMA CompleteOK == ASSUME MoneyInv, NEW c \in Calls, Complete(c) PROVE MoneyInv' /\ AnswerStays
<1>1. PICK next : next = Answered("ok", call[c].tx) /\ call' = [call EXCEPT ![c] = next]
  BY DEF Complete, Goto
<1>2. UNCHANGED <<body, rowIds, transactions, available, rules>> /\ call[c].at = "complete"
  BY DEF Complete
<1>3. call[c].tx \in DOMAIN transactions /\ transactions[call[c].tx].key = body[c].key
  BY <1>2, RowOf DEF CallOK
<1>4. \A row : CallOK(next, body[c], transactions, row, rowIds) /\ ~HasLock(next)
  <2>1. next.at = "done" /\ next.tx \in DOMAIN transactions /\ transactions[next.tx].key = body[c].key
    BY <1>1, <1>3 DEF Answered
  <2>2. next.at \in {"complete", "done"}
    BY <2>1
  <2>. QED
    BY <2>1, <2>2, KnowsTransaction
<1>5. CASE ~(Owns(c) /\ Row(c).status = "processing")
  <2>1. keyRow' = keyRow
    BY <1>5 DEF Complete
  <2>. QED
    BY <1>1, <1>2, <1>4, <2>1, CallMoves
<1>6. CASE Owns(c) /\ Row(c).status = "processing"
  <2>1. PICK k : k = body[c].key
    OBVIOUS
  <2>2. PICK row : row = [keyRow[k] EXCEPT !.status = "completed", !.answer = call[c].tx]
    OBVIOUS
  <2>3. /\ k \in KeyNames /\ rowIds \in Nat /\ keyRow[k] # NoRow /\ keyRow[k].status = "processing"
        /\ keyRow[k] \in KeyRows /\ keyRow[k].id <= rowIds
    BY <1>6, <2>1, RowOf DEF Owns
  <2>4. keyRow' = [keyRow EXCEPT ![k] = row]
    <3>1. keyRow' = [keyRow EXCEPT ![k].status = "completed", ![k].answer = call[c].tx]
      BY <1>6, <2>1 DEF Complete
    <3>2. keyRow \in [KeyNames -> KeyRows \cup {NoRow}]
      BY DEF MoneyInv, KeysInv
    <3>. QED
      BY <2>2, <2>3, <3>1, <3>2
  <2>5. call[c].tx \in Nat
    BY <1>3 DEF MoneyInv, BooksInv
  <2>6. /\ row \in KeyRows /\ row.id = keyRow[k].id /\ row.status = "completed"
        /\ row.answer = call[c].tx /\ row.expired = keyRow[k].expired
    BY <2>2, <2>3, <2>5 DEF KeyRows
  <2>7. AnswerOf(row, k, transactions) /\ RowGoesOn(keyRow[k], row, rowIds)
    BY <1>3, <2>1, <2>3, <2>6 DEF AnswerOf, RowGoesOn
  <2>8. rowIds' \in Nat /\ rowIds <= rowIds' /\ row.id <= rowIds'
    BY <1>2, <2>3, <2>6
  <2>9. CallOK(next, body[c], transactions, keyRow'[body[c].key], rowIds') /\ ~HasLock(next)
    BY <1>2, <1>4
  <2>. QED
    BY <1>1, <1>2, <2>3, <2>4, <2>6, <2>7, <2>8, <2>9, KeyMoves
<1>. QED
  BY <1>5, <1>6

\* Calls that leave the handler without a transaction: their statuses are none of success.
LEMMA ReleaseOK == ASSUME MoneyInv, NEW c \in Calls, Release(c) PROVE MoneyInv' /\ AnswerStays
<1>1. PICK next : next = Answered(call[c].status, 0) /\ call' = [call EXCEPT ![c] = next]
  BY DEF Release, Goto
<1>2. UNCHANGED <<body, rowIds, transactions, available, rules>> /\ call[c].at = "release"
  BY DEF Release
<1>3. \A row : CallOK(next, body[c], transactions, row, rowIds) /\ ~HasLock(next)
  <2>1. call[c].status # "ok"
    BY <1>2, RowOf DEF CallOK
  <2>. QED
    BY <1>1, <2>1, PlainAnswer
<1>4. CASE ~(Owns(c) /\ Row(c).status = "processing")
  <2>1. keyRow' = keyRow
    BY <1>4 DEF Release
  <2>. QED
    BY <1>1, <1>2, <1>3, <2>1, CallMoves
<1>5. CASE Owns(c) /\ Row(c).status = "processing"
  <2>1. PICK k : k = body[c].key
    OBVIOUS
  <2>2. k \in KeyNames /\ rowIds \in Nat /\ keyRow[k].status = "processing"
    BY <1>5, <2>1, RowOf
  <2>3. keyRow' = [keyRow EXCEPT ![k] = NoRow] /\ RowGoesOn(keyRow[k], NoRow, rowIds)
    BY <1>5, <2>1 DEF Release, RowGoesOn
  <2>4. NoRow \in KeyRows \cup {NoRow} /\ rowIds' \in Nat /\ rowIds <= rowIds'
    BY <1>2, <2>2
  <2>5. CallOK(next, body[c], transactions, keyRow'[body[c].key], rowIds') /\ ~HasLock(next)
    BY <1>2, <1>3
  <2>. QED
    BY <1>1, <1>2, <2>2, <2>3, <2>4, <2>5, KeyMoves
<1>. QED
  BY <1>4, <1>5

LEMMA FailingCalls ==
  ASSUME MoneyInv, NEW c \in Calls, HandlerFails(c) \/ Dies(c)
  PROVE  MoneyInv' /\ AnswerStays
<1>1. UNCHANGED <<body, keyRow, rowIds, transactions, available, rules>>
  BY DEF HandlerFails, Dies
<1>2. CASE HandlerFails(c)
  <2>1. PICK next : next = [at |-> "release", row |-> call[c].row, status |-> "error"] /\ call' = [call EXCEPT ![c] = next]
    BY <1>2 DEF HandlerFails, Goto
  <2>2. next.at = "release" /\ next.status = "error"
    BY <2>1
  <2>3. CallOK(next, body[c], transactions, keyRow[body[c].key], rowIds) /\ ~HasLock(next)
    BY <2>2 DEF CallOK, HasLock
  <2>. QED
    BY <1>1, <2>1, <2>3, CallMoves
<1>3. CASE Dies(c)
  <2>1. PICK next : next = Answered("lost", 0) /\ call' = [call EXCEPT ![c] = next]
    BY <1>3 DEF Dies, Goto
  <2>2. CallOK(next, body[c], transactions, keyRow[body[c].key], rowIds) /\ ~HasLock(next)
    BY <2>1, PlainAnswer
  <2>. QED
    BY <1>1, <2>1, <2>2, CallMoves
<1>. QED
  BY <1>2, <1>3

\* The calls stay where they are; the rows and the transactions move on.
LEMMA CallsStay ==
  ASSUME MoneyInv, UNCHANGED <<call, body, rowIds>>, TxsGoOn(transactions, transactions'),
         \A d \in Calls : HasLock(call[d]) => Room(transactions', call[d].rule, 1, body[d].amount),
         \A k \in KeyNames : RowGoesOn(keyRow[k], keyRow'[k], rowIds)
  PROVE  CallsInv'
<1>1. rowIds \in Nat /\ \A d \in Calls : body[d].key \in KeyNames
  BY DEF MoneyInv, KeysInv
<1>2. ASSUME NEW d \in Calls PROVE CallOK(call[d], body[d], transactions', keyRow'[body[d].key], rowIds)
  <2>1. CallOK(call[d], body[d], transactions, keyRow[body[d].key], rowIds)
    BY DEF MoneyInv, CallsInv
  <2>2. RowGoesOn(keyRow[body[d].key], keyRow'[body[d].key], rowIds)
    BY <1>1
  <2>3. HasLock(call[d]) => Room(transactions', call[d].rule, 1, body[d].amount)
    OBVIOUS
  <2>. QED
    BY <1>1, <2>1, <2>2, <2>3, CallKept
<1>. QED
  BY <1>2 DEF CallsInv, MoneyInv

\* The clock and the hourly clean-up move the row of a key.
LEMMA RowMoves ==
  ASSUME MoneyInv, UNCHANGED <<body, call, rowIds, transactions, available, rules>>,
         NEW k \in KeyNames, NEW row \in KeyRows \cup {NoRow}, keyRow' = [keyRow EXCEPT ![k] = row],
         RowGoesOn(keyRow[k], row, rowIds), row # NoRow => row.id <= rowIds /\ AnswerOf(row, k, transactions),
         (keyRow[k] # NoRow /\ keyRow[k].status = "completed" /\ ~keyRow[k].expired) =>
           row # NoRow /\ row.id = keyRow[k].id /\ row.answer = keyRow[k].answer
  PROVE  MoneyInv' /\ AnswerStays
<1>1. keyRow \in [KeyNames -> KeyRows \cup {NoRow}]
  BY DEF MoneyInv, KeysInv
<1>2. keyRow'[k] = row /\ \A j \in KeyNames : j # k => keyRow'[j] = keyRow[j]
  BY <1>1
<1>3. keyRow' \in [KeyNames -> KeyRows \cup {NoRow}]
  BY <1>1
<1>4. \A j \in KeyNames : RowGoesOn(keyRow[j], keyRow'[j], rowIds)
  BY <1>2 DEF RowGoesOn
<1>5. CallsInv'
  BY <1>4, SameTransactions, CallsStay
<1>6. KeysInv'
  BY <1>2, <1>3 DEF MoneyInv, KeysInv
<1>7. BooksInv' /\ RuleTable'
  BY DEF MoneyInv, BooksInv, RuleTable
<1>8. AnswerStays
  BY <1>2 DEF AnswerStays
<1>. QED
  BY <1>5, <1>6, <1>7, <1>8 DEF MoneyInv

LEMMA KeyClock ==
  ASSUME MoneyInv, NEW k \in KeyNames, LockTimesOut(k) \/ KeyExpires(k) \/ DeleteExpired(k)
  PROVE  MoneyInv' /\ AnswerStays
<1>1. UNCHANGED <<body, call, rowIds, transactions, available, rules>> /\ keyRow[k] # NoRow
  BY DEF LockTimesOut, KeyExpires, DeleteExpired
<1>2. keyRow[k] \in KeyRows /\ keyRow[k].id <= rowIds /\ AnswerOf(keyRow[k], k, transactions)
      /\ keyRow \in [KeyNames -> KeyRows \cup {NoRow}]
  BY <1>1 DEF MoneyInv, KeysInv
<1>3. CASE LockTimesOut(k)
  <2>1. PICK row : row = [keyRow[k] EXCEPT !.stale = TRUE]
    OBVIOUS
  <2>2. keyRow' = [keyRow EXCEPT ![k] = row]
    BY <1>3, <2>1 DEF LockTimesOut
  <2>3. /\ row \in KeyRows /\ row.id = keyRow[k].id /\ row.status = keyRow[k].status
        /\ row.answer = keyRow[k].answer /\ row.expired = keyRow[k].expired
    BY <1>2, <2>1 DEF KeyRows
  <2>4. RowGoesOn(keyRow[k], row, rowIds) /\ AnswerOf(row, k, transactions) /\ row # NoRow
    BY <1>1, <1>2, <2>3, RowIs DEF RowGoesOn, AnswerOf
  <2>. QED
    BY <1>1, <1>2, <2>2, <2>3, <2>4, RowMoves
<1>4. CASE KeyExpires(k)
  <2>1. PICK row : row = [keyRow[k] EXCEPT !.expired = TRUE]
    OBVIOUS
  <2>2. keyRow' = [keyRow EXCEPT ![k] = row]
    BY <1>4, <2>1 DEF KeyExpires
  <2>3. /\ row \in KeyRows /\ row.id = keyRow[k].id /\ row.status = keyRow[k].status
        /\ row.answer = keyRow[k].answer /\ row.expired = TRUE
    BY <1>2, <2>1 DEF KeyRows
  <2>4. RowGoesOn(keyRow[k], row, rowIds) /\ AnswerOf(row, k, transactions) /\ row # NoRow
    BY <1>1, <1>2, <2>3, RowIs DEF RowGoesOn, AnswerOf
  <2>. QED
    BY <1>1, <1>2, <2>2, <2>3, <2>4, RowMoves
<1>5. CASE DeleteExpired(k)
  <2>1. keyRow' = [keyRow EXCEPT ![k] = NoRow] /\ keyRow[k].expired
    BY <1>5 DEF DeleteExpired
  <2>2. RowGoesOn(keyRow[k], NoRow, rowIds) /\ NoRow \in KeyRows \cup {NoRow}
    BY DEF RowGoesOn
  <2>. QED
    BY <1>1, <2>1, <2>2, RowMoves
<1>. QED
  BY <1>3, <1>4, <1>5

\* A transaction fails or leaves its window: its key, its amount and its rule stay.
LEMMA TransactionMoves ==
  ASSUME MoneyInv, UNCHANGED <<call, body, keyRow, rowIds, rules>>,
         NEW i \in DOMAIN transactions, NEW row \in TxRows, transactions' = [transactions EXCEPT ![i] = row],
         row.key = transactions[i].key, row.amount = transactions[i].amount, row.rule = transactions[i].rule,
         \A w \in {Daily, Monthly} : i \in Used(transactions', w) => i \in Used(transactions, w),
         available' \in Nat,
         available' = Deposit - AmountOf(transactions', Used(transactions', Everywhen))
  PROVE  MoneyInv' /\ AnswerStays
<1>1. transactions \in Seq(TxRows)
  BY DEF MoneyInv, BooksInv
<1>2. /\ transactions' \in Seq(TxRows) /\ DOMAIN transactions' = DOMAIN transactions /\ transactions'[i] = row
      /\ \A j \in DOMAIN transactions : j # i => transactions'[j] = transactions[j]
  BY <1>1, RowReplaced
<1>3. \A j \in DOMAIN transactions :
        /\ transactions'[j].key = transactions[j].key /\ transactions'[j].amount = transactions[j].amount
        /\ transactions'[j].rule = transactions[j].rule
  BY <1>2
<1>4. TxsGoOn(transactions, transactions')
  BY <1>2, <1>3 DEF TxsGoOn
<1>5. ASSUME NEW w \in {Daily, Monthly} PROVE Used(transactions', w) \subseteq Used(transactions, w)
  <2>1. i \in Used(transactions', w) => i \in Used(transactions, w)
    OBVIOUS
  <2>. QED
    BY <1>2, <2>1 DEF Used
<1>6. Used(transactions', Daily) \subseteq Used(transactions, Daily)
      /\ Used(transactions', Monthly) \subseteq Used(transactions, Monthly)
  BY <1>5
<1>7. \A rule \in Rules \cup {NoRule}, n \in Nat, a \in Nat :
        Room(transactions, rule, n, a) => Room(transactions', rule, n, a)
  BY <1>1, <1>2, <1>3, <1>6, MoreRoom
<1>8. ASSUME NEW d \in Calls, HasLock(call[d]) PROVE Room(transactions', call[d].rule, 1, body[d].amount)
  <2>1. CallOK(call[d], body[d], transactions, keyRow[body[d].key], rowIds) /\ body[d].amount \in Nat
    BY DEF MoneyInv, CallsInv, KeysInv
  <2>2. call[d].rule \in Rules \cup {NoRule} /\ Room(transactions, call[d].rule, 1, body[d].amount)
    BY <1>8, <2>1 DEF CallOK, HasLock
  <2>. QED
    BY <1>7, <2>1, <2>2
<1>9. \A k \in KeyNames : RowGoesOn(keyRow[k], keyRow'[k], rowIds)
  BY DEF RowGoesOn
<1>10. CallsInv'
  BY <1>4, <1>8, <1>9, CallsStay
<1>11. BooksInv'
  <2>1. \A rule \in Rules \cup {NoRule} : Room(transactions', rule, 0, 0)
    BY <1>7 DEF MoneyInv, BooksInv
  <2>2. \A j, l \in DOMAIN transactions' : transactions'[j].key = transactions'[l].key => j = l
    BY <1>2, <1>3 DEF MoneyInv, BooksInv
  <2>3. \A j \in DOMAIN transactions' : Within(transactions'[j].amount, transactions'[j].rule.perTransaction)
    BY <1>2, <1>3 DEF MoneyInv, BooksInv
  <2>. QED
    BY <1>2, <2>1, <2>2, <2>3 DEF BooksInv
<1>12. RuleTable'
  BY DEF MoneyInv, RuleTable
<1>. QED
  BY <1>4, <1>10, <1>11, <1>12, AnswersStay DEF MoneyInv

\* The amounts of the transactions do not depend on their windows and statuses.
LEMMA SameAmounts ==
  ASSUME NEW txs, NEW later, DOMAIN later = DOMAIN txs, \A i \in DOMAIN txs : later[i].amount = txs[i].amount
  PROVE  \A ids : AmountOf(later, ids) = AmountOf(txs, ids)
<1>1. [i \in DOMAIN later |-> later[i].amount] = [i \in DOMAIN txs |-> txs[i].amount]
  OBVIOUS
<1>. QED
  BY <1>1 DEF AmountOf

LEMMA LeavesWindowOK ==
  ASSUME MoneyInv, NEW i \in DOMAIN transactions, LeavesWindow(i)
  PROVE  MoneyInv' /\ AnswerStays
<1>1. /\ transactions[i].window # "past" /\ UNCHANGED <<call, body, keyRow, rowIds, rules, available>>
      /\ transactions' = [transactions EXCEPT ![i].window = IF @ = "day" THEN "month" ELSE "past"]
  BY DEF LeavesWindow
<1>2. PICK row : row = [transactions[i] EXCEPT !.window = IF transactions[i].window = "day" THEN "month" ELSE "past"]
  OBVIOUS
<1>3. transactions' = [transactions EXCEPT ![i] = row]
  BY <1>1, <1>2
<1>4. transactions \in Seq(TxRows) /\ transactions[i] \in TxRows
  BY DEF MoneyInv, BooksInv
<1>5. /\ row \in TxRows /\ row.key = transactions[i].key /\ row.amount = transactions[i].amount
      /\ row.rule = transactions[i].rule /\ row.status = transactions[i].status
      /\ row.window = IF transactions[i].window = "day" THEN "month" ELSE "past"
  BY <1>2, <1>4 DEF TxRows, Everywhen
<1>6. /\ transactions' \in Seq(TxRows) /\ DOMAIN transactions' = DOMAIN transactions /\ transactions'[i] = row
      /\ \A j \in DOMAIN transactions : j # i => transactions'[j] = transactions[j]
  BY <1>3, <1>4, <1>5, RowReplaced
<1>7. \A w \in {Daily, Monthly} : i \in Used(transactions', w) => i \in Used(transactions, w)
  BY <1>1, <1>5, <1>6 DEF Used, Daily, Monthly
<1>8. Used(transactions', Everywhen) = Used(transactions, Everywhen)
  <2>1. transactions[i].window \in Everywhen /\ row.window \in Everywhen
    BY <1>4, <1>5 DEF TxRows
  <2>. QED
    BY <1>5, <1>6, <2>1 DEF Used
<1>9. AmountOf(transactions', Used(transactions', Everywhen)) = AmountOf(transactions, Used(transactions, Everywhen))
  BY <1>5, <1>6, <1>8, SameAmounts
<1>10. available' \in Nat /\ available' = Deposit - AmountOf(transactions', Used(transactions', Everywhen))
  BY <1>1, <1>9 DEF MoneyInv, BooksInv
<1>. QED
  BY <1>1, <1>3, <1>5, <1>7, <1>10, TransactionMoves

LEMMA SettleOK ==
  ASSUME MoneyInv, NEW i \in DOMAIN transactions, NEW status \in {"successful", "failed"}, Settle(i, status)
  PROVE  MoneyInv' /\ AnswerStays
<1>1. /\ transactions[i].status = "processing" /\ UNCHANGED <<call, body, keyRow, rowIds, rules>>
      /\ transactions' = [transactions EXCEPT ![i].status = status]
      /\ available' = IF status = "failed" THEN available + transactions[i].amount ELSE available
  BY DEF Settle
<1>2. PICK row : row = [transactions[i] EXCEPT !.status = status]
  OBVIOUS
<1>3. transactions' = [transactions EXCEPT ![i] = row]
  BY <1>1, <1>2
<1>4. transactions \in Seq(TxRows) /\ transactions[i] \in TxRows
  BY DEF MoneyInv, BooksInv
<1>5. /\ row \in TxRows /\ row.key = transactions[i].key /\ row.amount = transactions[i].amount
      /\ row.rule = transactions[i].rule /\ row.status = status /\ row.window = transactions[i].window
  BY <1>2, <1>4 DEF TxRows
<1>6. /\ transactions' \in Seq(TxRows) /\ DOMAIN transactions' = DOMAIN transactions /\ transactions'[i] = row
      /\ \A j \in DOMAIN transactions : j # i => transactions'[j] = transactions[j]
  BY <1>3, <1>4, <1>5, RowReplaced
<1>7. \A w \in {Daily, Monthly} : i \in Used(transactions', w) => i \in Used(transactions, w)
  BY <1>1, <1>5, <1>6 DEF Used
<1>8. PICK used : used = Used(transactions, Everywhen)
  OBVIOUS
<1>9. /\ used \in SUBSET DOMAIN transactions /\ i \in used
  BY <1>1, <1>4, <1>8 DEF Used, TxRows
<1>10. \A ids : AmountOf(transactions', ids) = AmountOf(transactions, ids)
  BY <1>5, <1>6, SameAmounts
<1>11. /\ available \in Nat /\ available = Deposit - AmountOf(transactions, used)
       /\ AmountOf(transactions, used) \in Nat /\ Deposit \in Nat
  BY <1>4, <1>8, <1>9, UsedAre, MoneyRequestsAssumption DEF MoneyInv, BooksInv
<1>12. CASE status = "successful"
  <2>1. Used(transactions', Everywhen) = used
    BY <1>1, <1>5, <1>6, <1>8, <1>12 DEF Used
  <2>2. available' \in Nat /\ available' = Deposit - AmountOf(transactions', Used(transactions', Everywhen))
    BY <1>1, <1>10, <1>11, <1>12, <2>1
  <2>. QED
    BY <1>1, <1>3, <1>5, <1>7, <2>2, TransactionMoves
<1>13. CASE status = "failed"
  <2>1. Used(transactions', Everywhen) = used \ {i}
    BY <1>1, <1>5, <1>6, <1>8, <1>13 DEF Used
  <2>2. AmountOf(transactions, used \ {i}) = AmountOf(transactions, used) - transactions[i].amount
    <3>1. PICK f : f = [j \in DOMAIN transactions |-> transactions[j].amount]
      OBVIOUS
    <3>2. \A ids : AmountOf(transactions, ids) = SumOver(f, ids)
      BY <3>1 DEF AmountOf
    <3>3. \A j \in DOMAIN transactions : transactions[j] \in TxRows
      BY <1>4
    <3>4. \A j \in used : f[j] \in Nat
      BY <1>9, <3>1, <3>3, TxFields
    <3>5. IsFiniteSet(used)
      BY <1>4, <1>9, UsedAre
    <3>6. SumOver(f, used \ {i}) = SumOver(f, used) - f[i]
      BY <1>9, <3>4, <3>5, SumRemove
    <3>. QED
      BY <3>1, <3>2, <3>6
  <2>3. transactions[i].amount \in Nat
    BY <1>4, TxFields
  <2>4. available' = available + transactions[i].amount
    BY <1>1, <1>13
  <2>5. available' \in Nat
    BY <1>11, <2>3, <2>4
  <2>6. available' = Deposit - AmountOf(transactions', Used(transactions', Everywhen))
    BY <1>10, <1>11, <2>1, <2>2, <2>3, <2>4
  <2>. QED
    BY <1>1, <1>3, <1>5, <1>7, <2>5, <2>6, TransactionMoves
<1>. QED
  BY <1>12, <1>13

LEMMA StaffActs ==
  ASSUME MoneyInv,
         \/ \E scope \in {"own", "default"}, rule \in Rules \union {NoRule} : SetRule(scope, rule)
         \/ AddDestination \/ CooldownEnds \/ RemoveDestination
  PROVE  MoneyInv' /\ AnswerStays
<1>1. UNCHANGED <<body, keyRow, rowIds, call, transactions, available>>
  BY DEF SetRule, AddDestination, CooldownEnds, RemoveDestination
<1>2. KeysInv' /\ BooksInv' /\ CallsInv'
  BY <1>1 DEF MoneyInv, KeysInv, BooksInv, CallsInv
<1>3. RuleTable'
  <2>1. CASE UNCHANGED rules
    BY <2>1 DEF MoneyInv, RuleTable
  <2>2. CASE \E scope \in {"own", "default"}, rule \in Rules \union {NoRule} : SetRule(scope, rule)
    <3>1. PICK scope \in {"own", "default"}, rule \in Rules \union {NoRule} : rules' = [rules EXCEPT ![scope] = rule]
      BY <2>2 DEF SetRule
    <3>. QED
      BY <3>1 DEF MoneyInv, RuleTable
  <2>. QED
    BY <2>1, <2>2 DEF AddDestination, CooldownEnds, RemoveDestination
<1>. QED
  BY <1>1, <1>2, <1>3 DEF MoneyInv, AnswerStays

LEMMA MoneyStep ==
  ASSUME MoneyInv, [MoneyNext]_moneyVars
  PROVE  MoneyInv' /\ AnswerStays
<1>1. CASE UNCHANGED moneyVars
  BY <1>1 DEF moneyVars, MoneyInv, KeysInv, BooksInv, RuleTable, CallsInv, AnswerStays
<1>2. ASSUME NEW c \in Calls, CallStep(c) PROVE MoneyInv' /\ AnswerStays
  BY <1>2, TryInsertOK, LookOK, DropExpiredOK, TakeOverStaleOK, FindExistingOK, CheckDestinationOK,
     ReadRuleOK, LockAndCheckOK, CommitOK, CompleteOK, ReleaseOK DEF CallStep
<1>3. CASE MoneyNext
  BY <1>2, <1>3, FailingCalls, KeyClock, LeavesWindowOK, SettleOK, StaffActs DEF MoneyNext
<1>. QED
  BY <1>1, <1>3

LEMMA MoneyStart == MoneyInit => MoneyInv
<1>. SUFFICES ASSUME MoneyInit PROVE MoneyInv
  OBVIOUS
<1>1. transactions = << >> /\ DOMAIN transactions = {} /\ transactions \in Seq(TxRows)
  BY DEF MoneyInit
<1>2. KeysInv
  BY MoneyRequestsAssumption DEF MoneyInit, KeysInv
<1>3. \A windows : Used(transactions, windows) = {}
  BY <1>1 DEF Used
<1>4. AmountOf(transactions, {}) = 0 /\ Cardinality({}) = 0
  BY SumEmpty, FS_EmptySet DEF AmountOf
<1>5. ASSUME NEW rule \in Rules \cup {NoRule} PROVE Room(transactions, rule, 0, 0)
  <2>1. rule.dailyCount \in Caps /\ rule.dailyAmount \in Caps /\ rule.monthlyAmount \in Caps
    BY RulesAre DEF RuleRows
  <2>2. \A windows : Under(transactions, rule, windows) = {}
    BY <1>3 DEF Under
  <2>. QED
    BY <1>4, <2>1, <2>2 DEF Room, Within, Caps
<1>6. BooksInv
  <2>1. available = Deposit /\ Deposit \in Nat
    BY MoneyRequestsAssumption DEF MoneyInit
  <2>2. AmountOf(transactions, Used(transactions, Everywhen)) = 0
    BY <1>3, <1>4
  <2>3. available = Deposit - AmountOf(transactions, Used(transactions, Everywhen))
    BY <2>1, <2>2
  <2>. QED
    BY <1>1, <1>5, <2>1, <2>3 DEF BooksInv
<1>7. RuleTable
  BY DEF MoneyInit, RuleTable
<1>8. CallsInv
  <2>1. DOMAIN call = Calls /\ \A c \in Calls : call[c].at = "idle"
    BY DEF MoneyInit, CallIdle
  <2>2. \A c \in Calls : CallOK(call[c], body[c], transactions, keyRow[body[c].key], rowIds) /\ ~HasLock(call[c])
    BY <2>1, PlainCall
  <2>. QED
    BY <2>1, <2>2 DEF CallsInv
<1>. QED
  BY <1>2, <1>6, <1>7, <1>8 DEF MoneyInv

\* IdempotencyInterceptor, TransfersService, PayoutsService.request and LimitsService: for any
\* calls, keys, deposit and rules, the balance is what the transactions leave of the deposit,
\* retries that succeed hear of one transaction, and what was let through under a rule is within it.
THEOREM RequestsHonoured == MoneySpec => []RequestsAreHonoured
<1>1. MoneyInv => RequestsAreHonoured
  <2>. SUFFICES ASSUME MoneyInv PROVE RequestsAreHonoured
    OBVIOUS
  <2>1. MoneyTypeOK
    <3>1. ASSUME NEW k \in KeyNames, keyRow[k] # NoRow
          PROVE  /\ keyRow[k].id \in 1..rowIds /\ keyRow[k].status \in {"processing", "completed"}
                 /\ keyRow[k].answer \in (IF keyRow[k].status = "completed" THEN DOMAIN transactions ELSE {0})
      <4>1. keyRow[k] \in KeyRows /\ keyRow[k].id <= rowIds /\ AnswerOf(keyRow[k], k, transactions) /\ rowIds \in Nat
        BY <3>1 DEF MoneyInv, KeysInv
      <4>. QED
        BY <4>1 DEF KeyRows, AnswerOf
    <3>. QED
      BY <3>1 DEF MoneyTypeOK, MoneyInv, BooksInv, Everywhen
  <2>2. RetriesAgree
    <3>. SUFFICES ASSUME NEW c \in Calls, NEW d \in Calls, call[c].at = "done", call[d].at = "done",
                         call[c].status = "ok", call[d].status = "ok", body[c].key = body[d].key
                  PROVE  call[c].tx = call[d].tx
      BY DEF RetriesAgree
    <3>1. \A e \in {c, d} : call[e].tx \in DOMAIN transactions /\ transactions[call[e].tx].key = body[e].key
      BY DEF MoneyInv, CallsInv, CallOK
    <3>. QED
      BY <3>1 DEF MoneyInv, BooksInv
  <2>3. LimitsHold
    <3>. SUFFICES ASSUME NEW rule \in Rules
                  PROVE  /\ \A i \in DOMAIN transactions : transactions[i].rule = rule => Within(transactions[i].amount, rule.perTransaction)
                         /\ Within(Cardinality(Under(transactions, rule, Daily)), rule.dailyCount)
                         /\ Within(AmountOf(transactions, Under(transactions, rule, Daily)), rule.dailyAmount)
                         /\ Within(AmountOf(transactions, Under(transactions, rule, Monthly)), rule.monthlyAmount)
      BY DEF LimitsHold, Under
    <3>1. Room(transactions, rule, 0, 0) /\ transactions \in Seq(TxRows)
      BY DEF MoneyInv, BooksInv
    <3>2. PICK d : d = Under(transactions, rule, Daily)
      OBVIOUS
    <3>3. PICK m : m = Under(transactions, rule, Monthly)
      OBVIOUS
    <3>4. d \in SUBSET DOMAIN transactions /\ m \in SUBSET DOMAIN transactions
      BY <3>2, <3>3 DEF Under, Used
    <3>5. Cardinality(d) \in Nat /\ AmountOf(transactions, d) \in Nat /\ AmountOf(transactions, m) \in Nat
      BY <3>1, <3>4, UsedAre
    <3>6. Cardinality(d) + 0 = Cardinality(d) /\ AmountOf(transactions, d) + 0 = AmountOf(transactions, d)
          /\ AmountOf(transactions, m) + 0 = AmountOf(transactions, m)
      BY <3>5
    <3>7. /\ Within(Cardinality(d), rule.dailyCount) /\ Within(AmountOf(transactions, d), rule.dailyAmount)
          /\ Within(AmountOf(transactions, m), rule.monthlyAmount)
      BY <3>1, <3>2, <3>3, <3>6 DEF Room
    <3>. QED
      BY <3>2, <3>3, <3>7 DEF MoneyInv, BooksInv
  <2>. QED
    BY <2>1, <2>2, <2>3 DEF RequestsAreHonoured
<1>. QED
  BY <1>1, MoneyStart, MoneyStep, PTL DEF MoneySpec

\* A stored response is kept until it expires, whoever was taken over and finishes late.
THEOREM AnswersKept == MoneySpec => AnswersAreKept
<1>. QED
  BY MoneyStart, MoneyStep, PTL DEF MoneySpec, AnswersAreKept

-----------------------------------------------------------------------------
(* Wallets: what a movement moves *)

AllPlaces == Places \cup {Outside, FeeRevenue}
LegRows == [from : AllPlaces, to : AllPlaces, amount : Nat]

LEMMA PlacesDiffer ==
  /\ Outside # FeeRevenue
  /\ \A w, b : Place(w, b) # Outside /\ Place(w, b) # FeeRevenue
  /\ \A w, b, v, d : Place(w, b) = Place(v, d) => w = v /\ b = d
<1>1. Outside.outside # FeeRevenue.outside
  BY DEF Outside, FeeRevenue
<1>2. ASSUME NEW w, NEW b PROVE Place(w, b) # Outside /\ Place(w, b) # FeeRevenue
  <2>1. DOMAIN Place(w, b) = {"wallet", "balance"}
    BY DEF Place
  <2>2. DOMAIN Outside = {"outside"} /\ DOMAIN FeeRevenue = {"outside"}
    BY DEF Outside, FeeRevenue
  <2>. QED
    BY <2>1, <2>2
<1>3. ASSUME NEW w, NEW b, NEW v, NEW d, Place(w, b) = Place(v, d) PROVE w = v /\ b = d
  <2>1. Place(w, b).wallet = w /\ Place(w, b).balance = b /\ Place(v, d).wallet = v /\ Place(v, d).balance = d
    BY DEF Place
  <2>. QED
    BY <1>3, <2>1
<1>. QED
  BY <1>1, <1>2, <1>3

LEMMA PlacesFinite == IsFiniteSet(Places) /\ IsFiniteSet(AllPlaces)
<1>1. IsFiniteSet({"available"}) /\ IsFiniteSet({"pending"}) /\ IsFiniteSet({"reserved"})
      /\ IsFiniteSet({Outside}) /\ IsFiniteSet({FeeRevenue})
  BY FS_Singleton
<1>2. IsFiniteSet({"available"} \cup {"pending"})
  BY <1>1, FS_Union
<1>3. IsFiniteSet(({"available"} \cup {"pending"}) \cup {"reserved"})
  BY <1>1, <1>2, FS_Union
<1>4. ({"available"} \cup {"pending"}) \cup {"reserved"} = Balances
  BY DEF Balances
<1>5. IsFiniteSet(WalletIds \X Balances)
  BY <1>3, <1>4, FS_Product, WalletsAssumption
<1>. DEFINE place == [x \in WalletIds \X Balances |-> Place(x[1], x[2])]
<1>6. /\ \A x \in WalletIds \X Balances : place[x] \in Places
      /\ \A p \in Places : \E x \in WalletIds \X Balances : place[x] = p
  <2>1. ASSUME NEW p \in Places PROVE \E x \in WalletIds \X Balances : place[x] = p
    <3>1. PICK w \in WalletIds, b \in Balances : p = Place(w, b)
      BY DEF Places
    <3>2. <<w, b>> \in WalletIds \X Balances /\ place[<<w, b>>] = p
      BY <3>1
    <3>. QED
      BY <3>2
  <2>. QED
    BY <2>1 DEF Places
<1>7. place \in Surjection(WalletIds \X Balances, Places)
  BY <1>6 DEF Surjection
<1>8. IsFiniteSet(Places)
  BY <1>5, <1>7, FS_Surjection
<1>9. IsFiniteSet(Places \cup {Outside})
  BY <1>1, <1>8, FS_Union
<1>10. IsFiniteSet((Places \cup {Outside}) \cup {FeeRevenue})
  BY <1>1, <1>9, FS_Union
<1>11. (Places \cup {Outside}) \cup {FeeRevenue} = AllPlaces
  BY DEF AllPlaces
<1>. QED
  BY <1>8, <1>10, <1>11

\* A leg that takes nothing that could be spent from a wallet out of the locks.
Sparing(l, locks) ==
  \A v \in WalletIds \ locks : l.from # Place(v, "available") /\ l.from # Place(v, "pending")

\* A movement spares every wallet that it has not locked, or moves within one of them.
MovementOK(locks, legs) ==
  /\ locks \subseteq WalletIds /\ IsFiniteSet(legs) /\ legs \subseteq LegRows
  /\ \/ \A l \in legs : Sparing(l, locks)
     \/ \E w \in WalletIds : legs = {Leg(Place(w, "pending"), Place(w, "available"), 1)}

LEMMA LegIs ==
  ASSUME NEW from \in AllPlaces, NEW to \in AllPlaces, NEW n \in Nat
  PROVE  /\ Leg(from, to, n) \in LegRows
         /\ Leg(from, to, n).from = from /\ Leg(from, to, n).to = to /\ Leg(from, to, n).amount = n
  BY DEF Leg, LegRows

\* The legs that spare what is not locked: from a locked wallet, from what is reserved, from outside.
LEMMA SparingLegs ==
  ASSUME NEW locks, NEW from, NEW to \in AllPlaces, NEW n \in Nat,
         \/ \E w \in locks \cap WalletIds, b \in Balances : from = Place(w, b)
         \/ \E w \in WalletIds : from = Place(w, "reserved")
         \/ from \in {Outside, FeeRevenue}
  PROVE  Leg(from, to, n) \in LegRows /\ Sparing(Leg(from, to, n), locks)
<1>1. from \in AllPlaces
  BY DEF AllPlaces, Places, Balances
<1>2. \A v \in WalletIds \ locks : from # Place(v, "available") /\ from # Place(v, "pending")
  BY PlacesDiffer
<1>. QED
  BY <1>1, <1>2, LegIs DEF Sparing

LEMMA OneLeg ==
  ASSUME NEW locks \in SUBSET WalletIds, NEW l \in LegRows, Sparing(l, locks)
  PROVE  MovementOK(locks, {l})
  BY FS_Singleton DEF MovementOK

LEMMA TwoLegs ==
  ASSUME NEW locks \in SUBSET WalletIds, NEW l \in LegRows, Sparing(l, locks), NEW k \in LegRows, Sparing(k, locks)
  PROVE  MovementOK(locks, {l, k})
<1>1. IsFiniteSet({l}) /\ IsFiniteSet({k}) /\ {l} \cup {k} = {l, k}
  BY FS_Singleton
<1>2. IsFiniteSet({l, k})
  BY <1>1, FS_Union
<1>. QED
  BY <1>2 DEF MovementOK

\* Every movement of WalletsService.
LEMMA MovementsOK ==
  ASSUME NEW w \in WalletIds, NEW mv \in Movements(w)
  PROVE  MovementOK(mv.locks, mv.legs)
<1>0. /\ Outside \in AllPlaces /\ FeeRevenue \in AllPlaces
      /\ \A v \in WalletIds, b \in Balances : Place(v, b) \in AllPlaces
      /\ "available" \in Balances /\ "pending" \in Balances /\ "reserved" \in Balances
      /\ {w} \in SUBSET WalletIds /\ {} \in SUBSET WalletIds /\ Open \subseteq WalletIds
      /\ \A v \in WalletIds : {w, v} \in SUBSET WalletIds
  BY DEF AllPlaces, Places, Balances, Open
<1>. DEFINE FromLocked(from, locks) == \E v \in locks \cap WalletIds, b \in Balances : from = Place(v, b)
            FromFree(from) == (\E v \in WalletIds : from = Place(v, "reserved")) \/ from \in {Outside, FeeRevenue}
<1>1. ASSUME NEW locks \in SUBSET WalletIds, NEW from, NEW to \in AllPlaces, NEW n \in Nat,
             FromLocked(from, locks) \/ FromFree(from)
      PROVE  Leg(from, to, n) \in LegRows /\ Sparing(Leg(from, to, n), locks)
  BY <1>1, SparingLegs
<1>2. \A locks, legs : Movement(locks, legs).locks = locks /\ Movement(locks, legs).legs = legs
  BY DEF Movement
<1>3. CASE mv \in DepositWithin(w)
  <2>1. PICK into \in {"available", "pending"}, n \in 1..2, fee \in 0..1 :
          mv = Movement({w}, {Leg(Outside, Place(w, into), n), Leg(Place(w, into), FeeRevenue, fee)})
    BY <1>3 DEF DepositWithin, CollectFee
  <2>2. into \in Balances /\ n \in Nat /\ fee \in Nat /\ Place(w, into) \in AllPlaces
    BY <1>0
  <2>3. Leg(Outside, Place(w, into), n) \in LegRows /\ Sparing(Leg(Outside, Place(w, into), n), {w})
    BY <1>0, <1>1, <2>2
  <2>4. Leg(Place(w, into), FeeRevenue, fee) \in LegRows /\ Sparing(Leg(Place(w, into), FeeRevenue, fee), {w})
    BY <1>0, <1>1, <2>2
  <2>. QED
    BY <1>0, <1>2, <2>1, <2>3, <2>4, TwoLegs
<1>4. CASE mv \in DepositWithConversion(w)
  <2>1. PICK into \in {"available", "pending"} : mv = Movement({w}, {Leg(Outside, Place(w, into), 1)})
    BY <1>4 DEF DepositWithConversion
  <2>2. into \in Balances /\ Place(w, into) \in AllPlaces
    BY <1>0
  <2>3. Leg(Outside, Place(w, into), 1) \in LegRows /\ Sparing(Leg(Outside, Place(w, into), 1), {w})
    BY <1>0, <1>1, <2>2
  <2>. QED
    BY <1>0, <1>2, <2>1, <2>3, OneLeg
<1>5. CASE mv \in ConvertBetweenWallets(w)
  <2>1. PICK v \in Open :
          mv = Movement({w, v}, {Leg(Place(w, "available"), Outside, 2), Leg(Outside, Place(v, "available"), 1)})
    BY <1>5 DEF ConvertBetweenWallets
  <2>2. v \in WalletIds /\ Place(v, "available") \in AllPlaces /\ {w, v} \in SUBSET WalletIds
    BY <1>0
  <2>3. /\ Leg(Place(w, "available"), Outside, 2) \in LegRows
        /\ Sparing(Leg(Place(w, "available"), Outside, 2), {w, v})
    BY <1>0, <1>1, <2>2
  <2>4. /\ Leg(Outside, Place(v, "available"), 1) \in LegRows
        /\ Sparing(Leg(Outside, Place(v, "available"), 1), {w, v})
    BY <1>0, <1>1, <2>2
  <2>. QED
    BY <1>2, <2>1, <2>2, <2>3, <2>4, TwoLegs
<1>6. CASE mv \in Withdraw(w)
  <2>1. mv = Movement({w}, {Leg(Place(w, "available"), Outside, 1)})
    BY <1>6 DEF Withdraw
  <2>2. Leg(Place(w, "available"), Outside, 1) \in LegRows /\ Sparing(Leg(Place(w, "available"), Outside, 1), {w})
    BY <1>0, <1>1
  <2>. QED
    BY <1>0, <1>2, <2>1, <2>2, OneLeg
<1>7. CASE mv \in Transfer(w)
  <2>1. PICK v \in Open \ {w}, fee \in 0..1 :
          mv = Movement({w, v}, {Leg(Place(w, "available"), Place(v, "available"), 1),
                                 Leg(Place(w, "available"), FeeRevenue, fee)})
    BY <1>7 DEF Transfer, CollectFee
  <2>2. v \in WalletIds /\ Place(v, "available") \in AllPlaces /\ {w, v} \in SUBSET WalletIds /\ fee \in Nat
    BY <1>0
  <2>3. /\ Leg(Place(w, "available"), Place(v, "available"), 1) \in LegRows
        /\ Sparing(Leg(Place(w, "available"), Place(v, "available"), 1), {w, v})
    BY <1>0, <1>1, <2>2
  <2>4. /\ Leg(Place(w, "available"), FeeRevenue, fee) \in LegRows
        /\ Sparing(Leg(Place(w, "available"), FeeRevenue, fee), {w, v})
    BY <1>0, <1>1, <2>2
  <2>. QED
    BY <1>2, <2>1, <2>2, <2>3, <2>4, TwoLegs
<1>8. CASE mv \in Reserve(w)
  <2>1. mv = Movement({w}, {Leg(Place(w, "available"), Place(w, "reserved"), 1)})
    BY <1>8 DEF Reserve
  <2>2. /\ Leg(Place(w, "available"), Place(w, "reserved"), 1) \in LegRows
        /\ Sparing(Leg(Place(w, "available"), Place(w, "reserved"), 1), {w})
    BY <1>0, <1>1
  <2>. QED
    BY <1>0, <1>2, <2>1, <2>2, OneLeg
<1>9. CASE mv \in ReleaseWithin(w)
  <2>1. PICK locks \in {{w}, {}} : mv = Movement(locks, {Leg(Place(w, "reserved"), Place(w, "available"), 1)})
    BY <1>9 DEF ReleaseWithin
  <2>2. locks \in SUBSET WalletIds
    BY <1>0
  <2>3. /\ Leg(Place(w, "reserved"), Place(w, "available"), 1) \in LegRows
        /\ Sparing(Leg(Place(w, "reserved"), Place(w, "available"), 1), locks)
    BY <1>0, <1>1, <2>2
  <2>. QED
    BY <1>2, <2>1, <2>2, <2>3, OneLeg
<1>10. CASE mv \in MakeAvailable(w)
  <2>1. mv = Movement({}, {Leg(Place(w, "pending"), Place(w, "available"), 1)})
    BY <1>10 DEF MakeAvailable
  <2>2. Leg(Place(w, "pending"), Place(w, "available"), 1) \in LegRows
    BY <1>0, LegIs
  <2>3. mv.locks = {} /\ mv.legs = {Leg(Place(w, "pending"), Place(w, "available"), 1)}
    BY <1>2, <2>1
  <2>4. IsFiniteSet(mv.legs) /\ mv.legs \subseteq LegRows /\ mv.locks \subseteq WalletIds
    BY <2>2, <2>3, FS_Singleton
  <2>. QED
    BY <2>3, <2>4 DEF MovementOK
<1>11. ASSUME NEW pending \in 0..2, NEW b \in {"available", "pending"}, NEW n \in {pending, 2 - pending}
       PROVE  /\ Leg(Place(w, b), Place(w, "reserved"), n) \in LegRows
              /\ Sparing(Leg(Place(w, b), Place(w, "reserved"), n), {w})
              /\ Leg(Place(w, "reserved"), Place(w, b), n) \in LegRows
              /\ Sparing(Leg(Place(w, "reserved"), Place(w, b), n), {})
  <2>1. n \in Nat /\ b \in Balances /\ Place(w, b) \in AllPlaces
    BY <1>0
  <2>2. /\ Leg(Place(w, b), Place(w, "reserved"), n) \in LegRows
        /\ Sparing(Leg(Place(w, b), Place(w, "reserved"), n), {w})
    BY <1>0, <1>1, <2>1
  <2>3. /\ Leg(Place(w, "reserved"), Place(w, b), n) \in LegRows
        /\ Sparing(Leg(Place(w, "reserved"), Place(w, b), n), {})
    BY <1>0, <1>1, <2>1
  <2>. QED
    BY <2>2, <2>3
<1>12. CASE mv \in ReserveSplit(w)
  <2>1. PICK pending \in 0..2 :
          mv = Movement({w}, {Leg(Place(w, "pending"), Place(w, "reserved"), pending),
                              Leg(Place(w, "available"), Place(w, "reserved"), 2 - pending)})
    BY <1>12 DEF ReserveSplit, SplitLegs
  <2>. QED
    BY <1>0, <1>2, <1>11, <2>1, TwoLegs
<1>13. CASE mv \in ReleaseSplit(w)
  <2>1. PICK pending \in 0..2 :
          mv = Movement({}, {Leg(Place(w, "reserved"), Place(w, "pending"), pending),
                             Leg(Place(w, "reserved"), Place(w, "available"), 2 - pending)})
    BY <1>13 DEF ReleaseSplit, SplitLegs
  <2>. QED
    BY <1>0, <1>2, <1>11, <2>1, TwoLegs
<1>14. CASE mv \in CollectHeldFee(w)
  <2>1. mv = Movement({}, {Leg(Place(w, "reserved"), FeeRevenue, 1)})
    BY <1>14 DEF CollectHeldFee, CollectFee
  <2>2. Leg(Place(w, "reserved"), FeeRevenue, 1) \in LegRows /\ Sparing(Leg(Place(w, "reserved"), FeeRevenue, 1), {})
    BY <1>0, <1>1
  <2>. QED
    BY <1>0, <1>2, <2>1, <2>2, OneLeg
<1>15. CASE mv \in RefundFee(w)
  <2>1. mv = Movement({}, {Leg(FeeRevenue, Place(w, "available"), 1)})
    BY <1>15 DEF RefundFee
  <2>2. Leg(FeeRevenue, Place(w, "available"), 1) \in LegRows /\ Sparing(Leg(FeeRevenue, Place(w, "available"), 1), {})
    BY <1>0, <1>1
  <2>. QED
    BY <1>0, <1>2, <2>1, <2>2, OneLeg
<1>. QED
  BY <1>3, <1>4, <1>5, <1>6, <1>7, <1>8, <1>9, <1>10, <1>12, <1>13, <1>14, <1>15 DEF Movements

GainOf(legs) == [p \in AllPlaces |-> SumOfLegs({l \in legs : l.to = p})]
LossOf(legs) == [p \in AllPlaces |-> SumOfLegs({l \in legs : l.from = p})]

\* What the legs bring to the places and what they take from them is the same in all.
LEMMA LegsBalance ==
  ASSUME NEW legs, IsFiniteSet(legs), legs \subseteq LegRows
  PROVE  /\ \A p \in AllPlaces :
              /\ GainOf(legs)[p] \in Nat /\ LossOf(legs)[p] \in Nat
              /\ Net(legs, p) = GainOf(legs)[p] - LossOf(legs)[p]
              /\ (\A l \in legs : l.from # p) => LossOf(legs)[p] = 0
         /\ SumOver(GainOf(legs), Places) + GainOf(legs)[Outside] + GainOf(legs)[FeeRevenue]
              = SumOver(LossOf(legs), Places) + LossOf(legs)[Outside] + LossOf(legs)[FeeRevenue]
<1>. DEFINE sums == [l \in legs |-> l.amount]
            ends == [l \in legs |-> l.to]
            starts == [l \in legs |-> l.from]
            gain == GainOf(legs)
            loss == LossOf(legs)
            enders == [p \in AllPlaces |-> {l \in legs : l.to = p}]
            starters == [p \in AllPlaces |-> {l \in legs : l.from = p}]
<1>1. \A l \in legs : /\ l.amount \in Nat /\ l.to \in AllPlaces /\ l.from \in AllPlaces
                      /\ sums[l] = l.amount /\ ends[l] = l.to /\ starts[l] = l.from
  BY DEF LegRows
<1>2. ASSUME NEW some \in SUBSET legs PROVE SumOfLegs(some) = SumOver(sums, some) /\ SumOfLegs(some) \in Nat
  <2>. DEFINE own == [l \in some |-> l.amount]
  <2>1. \A l \in some : own[l] = sums[l] /\ own[l] \in Nat
    BY <1>1
  <2>2. IsFiniteSet(some)
    BY FS_Subset
  <2>. HIDE DEF own, sums
  <2>3. SumOver(own, some) = SumOver(sums, some) /\ SumOver(own, some) \in Nat
    BY <2>1, <2>2, SumEqual, SumType
  <2>. QED
    BY <2>3 DEF SumOfLegs, own
<1>3. \A p \in AllPlaces : gain[p] = SumOver(sums, enders[p]) /\ loss[p] = SumOver(sums, starters[p])
  <2>. HIDE DEF sums
  <2>. QED
    BY <1>2 DEF GainOf, LossOf
<1>4. \A p \in AllPlaces : \A l :
        /\ l \in enders[p] <=> (l \in legs /\ ends[l] = p)
        /\ l \in starters[p] <=> (l \in legs /\ starts[l] = p)
  BY <1>1
<1>5. \A p \in AllPlaces :
        /\ gain[p] \in Nat /\ loss[p] \in Nat /\ Net(legs, p) = gain[p] - loss[p]
        /\ (\A l \in legs : l.from # p) => loss[p] = 0
  <2>. TAKE p \in AllPlaces
  <2>1. SumOfLegs({l \in legs : l.to = p}) \in Nat /\ SumOfLegs({l \in legs : l.from = p}) \in Nat
    BY <1>2
  <2>2. ASSUME \A l \in legs : l.from # p PROVE SumOfLegs({l \in legs : l.from = p}) = 0
    <3>1. {l \in legs : l.from = p} = {}
      BY <2>2
    <3>. QED
      BY <1>2, <3>1, SumEmpty
  <2>. QED
    BY <2>1, <2>2 DEF Net, GainOf, LossOf
<1>. HIDE DEF sums, ends, starts, gain, loss, enders, starters
<1>6. (\A l \in legs : sums[l] \in Nat /\ ends[l] \in AllPlaces /\ starts[l] \in AllPlaces) /\ IsFiniteSet(AllPlaces)
  BY <1>1, PlacesFinite
<1>7. SumOver(gain, AllPlaces) = SumOver(sums, legs) /\ SumOver(loss, AllPlaces) = SumOver(sums, legs)
  <2>1. SumOver(gain, AllPlaces) = SumOver(sums, legs)
    <3>1. \A l \in legs : sums[l] \in Nat
      BY <1>6
    <3>2. \A l \in legs : ends[l] \in AllPlaces
      BY <1>6
    <3>3. \A p \in AllPlaces : \A l : l \in enders[p] <=> l \in legs /\ ends[l] = p
      BY <1>4
    <3>4. \A p \in AllPlaces : gain[p] = SumOver(sums, enders[p])
      BY <1>3
    <3>. QED
      BY <1>6, <3>1, <3>2, <3>3, <3>4, SumByPart
  <2>2. SumOver(loss, AllPlaces) = SumOver(sums, legs)
    <3>1. \A l \in legs : sums[l] \in Nat
      BY <1>6
    <3>2. \A l \in legs : starts[l] \in AllPlaces
      BY <1>6
    <3>3. \A p \in AllPlaces : \A l : l \in starters[p] <=> l \in legs /\ starts[l] = p
      BY <1>4
    <3>4. \A p \in AllPlaces : loss[p] = SumOver(sums, starters[p])
      BY <1>3
    <3>. QED
      BY <1>6, <3>1, <3>2, <3>3, <3>4, SumByPart
  <2>. QED
    BY <2>1, <2>2
<1>8. ASSUME NEW f, \A p \in AllPlaces : f[p] \in Nat
      PROVE  SumOver(f, AllPlaces) = SumOver(f, Places) + f[Outside] + f[FeeRevenue]
  <2>1. Outside \notin Places /\ FeeRevenue \notin Places \cup {Outside}
    BY PlacesDiffer DEF Places
  <2>2. IsFiniteSet(Places \cup {Outside}) /\ (Places \cup {Outside}) \cup {FeeRevenue} = AllPlaces
    BY PlacesFinite, FS_AddElement DEF AllPlaces
  <2>3. SumOver(f, Places \cup {Outside}) = SumOver(f, Places) + f[Outside]
    BY <1>8, <2>1, PlacesFinite, SumAdd DEF AllPlaces
  <2>4. SumOver(f, (Places \cup {Outside}) \cup {FeeRevenue}) = SumOver(f, Places \cup {Outside}) + f[FeeRevenue]
    BY <1>8, <2>1, <2>2, SumAdd DEF AllPlaces
  <2>. QED
    BY <2>2, <2>3, <2>4
<1>9. SumOver(gain, Places) + gain[Outside] + gain[FeeRevenue]
        = SumOver(loss, Places) + loss[Outside] + loss[FeeRevenue]
  BY <1>5, <1>7, <1>8
<1>. QED
  BY <1>5, <1>9 DEF gain, loss

-----------------------------------------------------------------------------
(* Wallets: the inductive invariant *)

WalletRows == [status : {"active", "frozen"}, primary : BOOLEAN]
IsPrimary(v) == wallet[v] # NoWallet /\ wallet[v].primary

\* A request that was told it is not the first finds a primary wallet when it inserts,
\* and one that is open has not inserted yet.
RowsInv ==
  /\ wallet \in [WalletIds -> WalletRows \cup {NoWallet}]
  /\ creating \in [WalletIds -> {"no", "primary", "plain"}]
  /\ \A w \in WalletIds : creating[w] # "no" => wallet[w] = NoWallet
  /\ \A w \in WalletIds : creating[w] = "plain" =>
       \E v \in WalletIds : OwnerOf[v] = OwnerOf[w] /\ IsPrimary(v)
  /\ \A w \in WalletIds : wallet[w] # NoWallet =>
       \E v \in WalletIds : OwnerOf[v] = OwnerOf[w] /\ IsPrimary(v)
  /\ \A u, v \in WalletIds : OwnerOf[u] = OwnerOf[v] /\ IsPrimary(u) /\ IsPrimary(v) => u = v

HeldAt == [p \in Places |-> balance[p.wallet][p.balance]]

FundsInv ==
  /\ balance \in [WalletIds -> [Balances -> Nat]]
  /\ revenue \in Nat
  /\ clearing = revenue + SumOver(HeldAt, Places)

MoversInv ==
  /\ DOMAIN mover = Movers
  /\ \A m \in Movers : mover[m].at = "post" =>
       /\ MovementOK(mover[m].locks, mover[m].legs)
       /\ \A w \in mover[m].locks : wallet[w].status = "active"

WalletsInv == RowsInv /\ FundsInv /\ MoversInv

LEMMA NoWalletRow ==
  /\ NoWallet \notin WalletRows /\ NoWallet.status = "none" /\ NoWallet.primary = FALSE
  /\ \A row \in WalletRows : row.status \in {"active", "frozen"} /\ row.primary \in BOOLEAN
  BY DEF NoWallet, WalletRows

LEMMA InPrimaries ==
  ASSUME NEW w \in WalletIds, NEW v
  PROVE  v \in Primaries(w) <=> v \in WalletIds /\ OwnerOf[v] = OwnerOf[w] /\ IsPrimary(v)
  BY DEF Primaries, OfOwner, IsPrimary

LEMMA WalletsAreSoundIn == WalletsInv => WalletsAreSound
<1>. SUFFICES ASSUME WalletsInv PROVE WalletsTypeOK /\ ExactlyOnePrimary
  BY DEF WalletsAreSound
<1>1. WalletsTypeOK
  BY DEF WalletsInv, RowsInv, FundsInv, WalletsTypeOK, WalletRows, HeldAt
<1>2. ASSUME NEW w \in WalletIds, wallet[w] # NoWallet PROVE Cardinality(Primaries(w)) = 1
  <2>1. PICK v \in WalletIds : OwnerOf[v] = OwnerOf[w] /\ IsPrimary(v)
    BY <1>2 DEF WalletsInv, RowsInv
  <2>2. \A u \in WalletIds : OwnerOf[u] = OwnerOf[v] /\ IsPrimary(u) => u = v
    BY <2>1 DEF WalletsInv, RowsInv
  <2>3. Primaries(w) = {v}
    BY <2>1, <2>2, InPrimaries
  <2>. QED
    BY <2>3, FS_Singleton
<1>. QED
  BY <1>1, <1>2 DEF ExactlyOnePrimary

LEMMA WalletsStart == WalletsInit => WalletsInv
<1>. SUFFICES ASSUME WalletsInit PROVE RowsInv /\ FundsInv /\ MoversInv
  BY DEF WalletsInv
<1>1. RowsInv
  BY DEF WalletsInit, RowsInv, IsPrimary
<1>2. MoversInv
  BY DEF WalletsInit, MoversInv
<1>3. balance \in [WalletIds -> [Balances -> Nat]] /\ revenue = 0 /\ clearing = 0
      /\ \A w \in WalletIds, b \in Balances : balance[w][b] = 0
  BY DEF WalletsInit, Nothing
<1>4. \A p \in Places : HeldAt[p] = 0
  <2>1. ASSUME NEW w \in WalletIds, NEW b \in Balances PROVE HeldAt[Place(w, b)] = 0
    BY <1>3 DEF HeldAt, Places, Place
  <2>. QED
    BY <2>1 DEF Places
<1>5. SumOver(HeldAt, Places) <= Cardinality(Places) * 0 /\ SumOver(HeldAt, Places) \in Nat /\ Cardinality(Places) \in Nat
  BY <1>4, PlacesFinite, SumBound, FS_CardinalityType
<1>6. SumOver(HeldAt, Places) = 0
  BY <1>5
<1>. QED
  BY <1>1, <1>2, <1>3, <1>6 DEF FundsInv

\* What opens, switches or freezes wallets: the money stays, and so do the movements.
LEMMA RowsMove ==
  ASSUME WalletsInv, RowsInv', UNCHANGED <<balance, clearing, revenue, mover>>,
         \A m \in Movers : mover[m].at = "post" =>
           \A w \in mover[m].locks : wallet[w].status = "active" => wallet'[w].status = "active"
  PROVE  WalletsInv' /\ FrozenKeeps
<1>1. FundsInv'
  BY DEF WalletsInv, FundsInv, HeldAt
<1>2. MoversInv'
  BY DEF WalletsInv, MoversInv
<1>3. ASSUME NEW w \in WalletIds
      PROVE  balance'[w]["available"] + balance'[w]["pending"] >= balance[w]["available"] + balance[w]["pending"]
  <2>1. balance[w]["available"] \in Nat /\ balance[w]["pending"] \in Nat /\ balance' = balance
    BY DEF WalletsInv, FundsInv, Balances
  <2>. QED
    BY <2>1
<1>. QED
  BY <1>1, <1>2, <1>3 DEF WalletsInv, FrozenKeeps

LEMMA BeginCreateOK == ASSUME WalletsInv, NEW w \in WalletIds, BeginCreate(w) PROVE WalletsInv' /\ FrozenKeeps
<1>1. /\ wallet[w] = NoWallet /\ wallet' = wallet
      /\ creating' = [creating EXCEPT ![w] = IF mode = "single" \/ Primaries(w) = {} THEN "primary" ELSE "plain"]
      /\ UNCHANGED <<balance, clearing, revenue, mover>>
  BY DEF BeginCreate
<1>2. \A v : IsPrimary(v)' <=> IsPrimary(v)
  BY <1>1 DEF IsPrimary
<1>3. PICK told \in {"primary", "plain"} :
        creating' = [creating EXCEPT ![w] = told] /\ (told = "plain" => Primaries(w) # {})
  BY <1>1
<1>4. told = "plain" => \E v \in WalletIds : OwnerOf[v] = OwnerOf[w] /\ IsPrimary(v)
  BY <1>3, InPrimaries
<1>5. RowsInv'
  BY <1>1, <1>2, <1>3, <1>4 DEF WalletsInv, RowsInv
<1>. QED
  BY <1>1, <1>5, RowsMove

LEMMA InsertWalletOK == ASSUME WalletsInv, NEW w \in WalletIds, InsertWallet(w) PROVE WalletsInv' /\ FrozenKeeps
<1>1. creating[w] # "no" /\ wallet[w] = NoWallet /\ ~IsPrimary(w) /\ UNCHANGED <<balance, clearing, revenue, mover>>
  BY NoWalletRow DEF InsertWallet, WalletsInv, RowsInv, IsPrimary
<1>2. CASE creating[w] = "primary" /\ ~PrimaryIndex(w)
  <2>1. wallet' = wallet /\ creating' = [creating EXCEPT ![w] = IF mode = "single" THEN "no" ELSE "plain"]
    BY <1>2 DEF InsertWallet
  <2>2. \A v : IsPrimary(v)' <=> IsPrimary(v)
    BY <2>1 DEF IsPrimary
  <2>3. \E v \in WalletIds : OwnerOf[v] = OwnerOf[w] /\ IsPrimary(v)
    BY <1>2, InPrimaries DEF PrimaryIndex
  <2>4. PICK told \in {"no", "plain"} : creating' = [creating EXCEPT ![w] = told]
    BY <2>1
  <2>5. RowsInv'
    BY <1>1, <2>1, <2>2, <2>3, <2>4 DEF WalletsInv, RowsInv
  <2>. QED
    BY <1>1, <2>1, <2>5, RowsMove
<1>3. CASE ~(creating[w] = "primary" /\ ~PrimaryIndex(w))
  <2>1. /\ wallet' = [wallet EXCEPT ![w] = [status |-> "active", primary |-> creating[w] = "primary"]]
        /\ creating' = [creating EXCEPT ![w] = "no"]
    BY <1>3 DEF InsertWallet
  <2>2. PICK first \in BOOLEAN : first = (creating[w] = "primary")
    OBVIOUS
  <2>3. PICK row : row = [status |-> "active", primary |-> first]
    OBVIOUS
  <2>4. row \in WalletRows /\ row.status = "active" /\ row.primary = first /\ row # NoWallet
    BY <2>3, NoWalletRow DEF WalletRows
  <2>5. wallet' = [wallet EXCEPT ![w] = row]
    BY <2>1, <2>2, <2>3
  <2>6. \A v \in WalletIds : v # w => wallet'[v] = wallet[v] /\ creating'[v] = creating[v]
    BY <2>1, <2>5 DEF WalletsInv, RowsInv
  <2>7. wallet'[w] = row /\ creating'[w] = "no"
    BY <2>1, <2>5 DEF WalletsInv, RowsInv
  <2>8. \A v \in WalletIds : v # w => (IsPrimary(v)' <=> IsPrimary(v))
    BY <2>6 DEF IsPrimary
  <2>9. IsPrimary(w)' <=> creating[w] = "primary"
    BY <2>2, <2>4, <2>7 DEF IsPrimary
  <2>10. creating[w] = "primary" => \A v \in WalletIds : OwnerOf[v] = OwnerOf[w] => ~IsPrimary(v)
    BY <1>3, InPrimaries DEF PrimaryIndex
  <2>11. creating[w] # "primary" => \E v \in WalletIds \ {w} : OwnerOf[v] = OwnerOf[w] /\ IsPrimary(v)
    BY <1>1 DEF WalletsInv, RowsInv
  <2>12. \E v \in WalletIds : OwnerOf[v] = OwnerOf[w] /\ IsPrimary(v)'
    BY <2>8, <2>9, <2>11
  <2>13. \A v \in WalletIds : IsPrimary(v) => IsPrimary(v)'
    BY <1>1, <2>8
  <2>14. /\ wallet' \in [WalletIds -> WalletRows \cup {NoWallet}]
         /\ creating' \in [WalletIds -> {"no", "primary", "plain"}]
    BY <2>1, <2>4, <2>5 DEF WalletsInv, RowsInv
  <2>15. \A v \in WalletIds : creating'[v] # "no" => wallet'[v] = NoWallet
    BY <2>6, <2>7 DEF WalletsInv, RowsInv
  <2>16. \A v \in WalletIds : creating'[v] = "plain" => \E u \in WalletIds : OwnerOf[u] = OwnerOf[v] /\ IsPrimary(u)'
    BY <2>6, <2>7, <2>13 DEF WalletsInv, RowsInv
  <2>17. \A v \in WalletIds : wallet'[v] # NoWallet => \E u \in WalletIds : OwnerOf[u] = OwnerOf[v] /\ IsPrimary(u)'
    BY <2>6, <2>12, <2>13 DEF WalletsInv, RowsInv
  <2>18. \A u, v \in WalletIds : OwnerOf[u] = OwnerOf[v] /\ IsPrimary(u)' /\ IsPrimary(v)' => u = v
    BY <2>8, <2>9, <2>10 DEF WalletsInv, RowsInv
  <2>19. RowsInv'
    BY <2>14, <2>15, <2>16, <2>17, <2>18 DEF RowsInv
  <2>20. \A v : wallet[v].status = "active" /\ v \in WalletIds => wallet'[v].status = "active"
    BY <2>4, <2>6, <2>7
  <2>21. \A m \in Movers : mover[m].at = "post" => mover[m].locks \subseteq WalletIds
    BY DEF WalletsInv, MoversInv, MovementOK
  <2>. QED
    BY <1>1, <2>19, <2>20, <2>21, RowsMove
<1>. QED
  BY <1>2, <1>3

LEMMA SetPrimaryOK == ASSUME WalletsInv, NEW w \in WalletIds, SetPrimary(w) PROVE WalletsInv' /\ FrozenKeeps
<1>1. /\ wallet[w].status = "active" /\ UNCHANGED <<creating, balance, clearing, revenue, mover>>
      /\ wallet' = [v \in WalletIds |-> IF v \in OfOwner(w) THEN [wallet[v] EXCEPT !.primary = v = w] ELSE wallet[v]]
  BY DEF SetPrimary
<1>2. wallet \in [WalletIds -> WalletRows \cup {NoWallet}]
  BY DEF WalletsInv, RowsInv
<1>3. \A v \in WalletIds : v \in OfOwner(w) <=> OwnerOf[v] = OwnerOf[w] /\ wallet[v] # NoWallet
  BY DEF OfOwner
<1>4. w \in OfOwner(w)
  BY <1>1, <1>3, NoWalletRow
<1>5. ASSUME NEW v \in OfOwner(w)
      PROVE  /\ wallet'[v] \in WalletRows /\ wallet'[v].status = wallet[v].status
             /\ wallet'[v].primary <=> v = w
  <2>1. v \in WalletIds /\ wallet[v] \in WalletRows
    BY <1>2, <1>3 DEF OfOwner
  <2>2. PICK main \in BOOLEAN : main = (v = w)
    OBVIOUS
  <2>3. PICK row \in WalletRows : row = [wallet[v] EXCEPT !.primary = main]
    BY <2>1 DEF WalletRows
  <2>4. row.status = wallet[v].status /\ row.primary = main
    BY <2>1, <2>3 DEF WalletRows
  <2>5. wallet'[v] = row
    BY <1>1, <2>1, <2>2, <2>3
  <2>. QED
    BY <2>2, <2>4, <2>5
<1>6. \A v \in WalletIds : v \notin OfOwner(w) => wallet'[v] = wallet[v]
  BY <1>1
<1>7. wallet' \in [WalletIds -> WalletRows \cup {NoWallet}]
  BY <1>1, <1>2, <1>5, <1>6
<1>8. \A v \in WalletIds : (wallet'[v] # NoWallet <=> wallet[v] # NoWallet) /\ wallet'[v].status = wallet[v].status
  BY <1>3, <1>5, <1>6, NoWalletRow
<1>9. \A v \in WalletIds : OwnerOf[v] = OwnerOf[w] => (IsPrimary(v)' <=> v = w)
  <2>1. ASSUME NEW v \in WalletIds, OwnerOf[v] = OwnerOf[w], v \in OfOwner(w) PROVE IsPrimary(v)' <=> v = w
    <3>1. wallet'[v] # NoWallet
      BY <1>5, <2>1, NoWalletRow
    <3>. QED
      BY <1>5, <2>1, <3>1 DEF IsPrimary
  <2>2. ASSUME NEW v \in WalletIds, OwnerOf[v] = OwnerOf[w], v \notin OfOwner(w) PROVE ~IsPrimary(v)' /\ v # w
    BY <1>3, <1>4, <1>8, <2>2 DEF IsPrimary
  <2>. QED
    BY <2>1, <2>2
<1>10. \A v \in WalletIds : OwnerOf[v] # OwnerOf[w] => (IsPrimary(v)' <=> IsPrimary(v))
  BY <1>3, <1>6 DEF IsPrimary
<1>11. \A v \in WalletIds : creating'[v] # "no" => wallet'[v] = NoWallet
  BY <1>1, <1>8 DEF WalletsInv, RowsInv
<1>12. \A v \in WalletIds :
         (\E u \in WalletIds : OwnerOf[u] = OwnerOf[v] /\ IsPrimary(u))
           => \E u \in WalletIds : OwnerOf[u] = OwnerOf[v] /\ IsPrimary(u)'
  BY <1>9, <1>10
<1>13. /\ \A v \in WalletIds : creating'[v] = "plain" => \E u \in WalletIds : OwnerOf[u] = OwnerOf[v] /\ IsPrimary(u)'
       /\ \A v \in WalletIds : wallet'[v] # NoWallet => \E u \in WalletIds : OwnerOf[u] = OwnerOf[v] /\ IsPrimary(u)'
  BY <1>1, <1>8, <1>12 DEF WalletsInv, RowsInv
<1>14. \A u, v \in WalletIds : OwnerOf[u] = OwnerOf[v] /\ IsPrimary(u)' /\ IsPrimary(v)' => u = v
  BY <1>9, <1>10 DEF WalletsInv, RowsInv
<1>15. creating' \in [WalletIds -> {"no", "primary", "plain"}]
  BY <1>1 DEF WalletsInv, RowsInv
<1>16. RowsInv'
  BY <1>7, <1>11, <1>13, <1>14, <1>15 DEF RowsInv
<1>17. \A m \in Movers : mover[m].at = "post" => mover[m].locks \subseteq WalletIds
  BY DEF WalletsInv, MoversInv, MovementOK
<1>. QED
  BY <1>1, <1>8, <1>16, <1>17, RowsMove

\* The freeze waits for the movements that hold the wallet FOR SHARE.
LEMMA SetWalletStatusOK ==
  ASSUME WalletsInv, NEW w \in WalletIds, NEW status \in {"active", "frozen"}, SetWalletStatus(w, status)
  PROVE  WalletsInv' /\ FrozenKeeps
<1>1. /\ wallet[w] # NoWallet /\ ~Shared(w) /\ UNCHANGED <<creating, balance, clearing, revenue, mover>>
      /\ wallet' = [wallet EXCEPT ![w].status = status]
  BY DEF SetWalletStatus
<1>2. wallet \in [WalletIds -> WalletRows \cup {NoWallet}] /\ wallet[w] \in WalletRows
  BY <1>1 DEF WalletsInv, RowsInv
<1>3. PICK row \in WalletRows : row = [wallet[w] EXCEPT !.status = status]
  BY <1>2 DEF WalletRows
<1>4. row.primary = wallet[w].primary
  BY <1>2, <1>3 DEF WalletRows
<1>5. wallet' = [wallet EXCEPT ![w] = row]
  BY <1>1, <1>2, <1>3
<1>6. wallet' \in [WalletIds -> WalletRows \cup {NoWallet}] /\ wallet'[w] = row /\ wallet'[w] # NoWallet
      /\ \A v \in WalletIds : v # w => wallet'[v] = wallet[v]
  BY <1>2, <1>3, <1>5, NoWalletRow
<1>7. \A v \in WalletIds : (IsPrimary(v)' <=> IsPrimary(v)) /\ (wallet'[v] = NoWallet <=> wallet[v] = NoWallet)
  <2>1. \A v \in WalletIds : v # w => (IsPrimary(v)' <=> IsPrimary(v)) /\ (wallet'[v] = NoWallet <=> wallet[v] = NoWallet)
    BY <1>6 DEF IsPrimary
  <2>2. (IsPrimary(w)' <=> IsPrimary(w)) /\ (wallet'[w] = NoWallet <=> wallet[w] = NoWallet)
    BY <1>1, <1>4, <1>6 DEF IsPrimary
  <2>. QED
    BY <2>1, <2>2
<1>8. RowsInv'
  BY <1>1, <1>6, <1>7 DEF WalletsInv, RowsInv
<1>9. \A m \in Movers : mover[m].at = "post" => w \notin mover[m].locks /\ mover[m].locks \subseteq WalletIds
  BY <1>1 DEF Shared, WalletsInv, MoversInv, MovementOK
<1>. QED
  BY <1>1, <1>6, <1>8, <1>9, RowsMove

LEMMA LockActiveWalletsOK ==
  ASSUME WalletsInv, NEW m \in Movers, NEW w \in WalletIds, NEW mv \in Movements(w), LockActiveWallets(m, w, mv)
  PROVE  WalletsInv' /\ FrozenKeeps
<1>1. /\ UNCHANGED <<wallet, creating, balance, clearing, revenue>>
      /\ \A v \in mv.locks : wallet[v].status = "active"
      /\ mover' = [mover EXCEPT ![m] = [at |-> "post", locks |-> mv.locks, legs |-> mv.legs]]
  BY DEF LockActiveWallets
<1>2. MovementOK(mv.locks, mv.legs)
  BY MovementsOK
<1>3. PICK tx : tx = [at |-> "post", locks |-> mv.locks, legs |-> mv.legs]
  OBVIOUS
<1>4. mover' = [mover EXCEPT ![m] = tx] /\ tx.locks = mv.locks /\ tx.legs = mv.legs
  BY <1>1, <1>3
<1>5. DOMAIN mover' = Movers /\ mover'[m] = tx /\ \A k \in Movers : k # m => mover'[k] = mover[k]
  BY <1>4 DEF WalletsInv, MoversInv
<1>6. MoversInv'
  <2>1. ASSUME NEW k \in Movers, mover'[k].at = "post"
        PROVE  MovementOK(mover'[k].locks, mover'[k].legs) /\ \A v \in mover'[k].locks : wallet'[v].status = "active"
    <3>1. CASE k = m
      BY <1>1, <1>2, <1>4, <1>5, <3>1
    <3>2. CASE k # m
      BY <1>1, <1>5, <2>1, <3>2 DEF WalletsInv, MoversInv
    <3>. QED
      BY <3>1, <3>2
  <2>. QED
    BY <1>5, <2>1 DEF MoversInv
<1>7. RowsInv'
  <2>1. \A v : IsPrimary(v)' <=> IsPrimary(v)
    BY <1>1 DEF IsPrimary
  <2>. QED
    BY <1>1, <2>1 DEF WalletsInv, RowsInv
<1>8. FundsInv'
  BY <1>1 DEF WalletsInv, FundsInv, HeldAt
<1>9. FrozenKeeps
  BY <1>1 DEF WalletsInv, FundsInv, FrozenKeeps, Balances
<1>. QED
  BY <1>6, <1>7, <1>8, <1>9 DEF WalletsInv

\* The money that a posting moves: what the places hold changes by what came in.
LEMMA PostingKeepsTheSum ==
  ASSUME WalletsInv, NEW legs, IsFiniteSet(legs), legs \subseteq LegRows,
         balance' = After(legs), Covered(legs),
         revenue' = revenue + Net(legs, FeeRevenue), revenue + Net(legs, FeeRevenue) >= 0,
         clearing' = clearing - Net(legs, Outside)
  PROVE  FundsInv'
<1>. DEFINE gain == GainOf(legs)
            loss == LossOf(legs)
<1>1. /\ \A p \in AllPlaces : gain[p] \in Nat /\ loss[p] \in Nat /\ Net(legs, p) = gain[p] - loss[p]
      /\ SumOver(gain, Places) + gain[Outside] + gain[FeeRevenue]
           = SumOver(loss, Places) + loss[Outside] + loss[FeeRevenue]
  BY LegsBalance
<1>. HIDE DEF gain, loss
<1>2. /\ balance \in [WalletIds -> [Balances -> Nat]] /\ revenue \in Nat
      /\ clearing = revenue + SumOver(HeldAt, Places)
  BY DEF WalletsInv, FundsInv
<1>3. Outside \in AllPlaces /\ FeeRevenue \in AllPlaces /\ Places \subseteq AllPlaces
  BY DEF AllPlaces
<1>4. ASSUME NEW w \in WalletIds, NEW b \in Balances
      PROVE  /\ Place(w, b) \in AllPlaces /\ balance[w][b] \in Nat
             /\ balance'[w][b] = balance[w][b] + gain[Place(w, b)] - loss[Place(w, b)]
             /\ balance'[w][b] \in Nat
  <2>1. Place(w, b) \in AllPlaces
    BY <1>3 DEF Places
  <2>2. balance'[w][b] = balance[w][b] + Net(legs, Place(w, b)) /\ balance[w][b] \in Nat
    BY <1>2 DEF After
  <2>3. balance'[w][b] >= 0
    BY DEF Covered
  <2>4. Net(legs, Place(w, b)) = gain[Place(w, b)] - loss[Place(w, b)]
        /\ gain[Place(w, b)] \in Nat /\ loss[Place(w, b)] \in Nat
    BY <1>1, <2>1
  <2>. QED
    BY <2>1, <2>2, <2>3, <2>4
<1>5. balance' \in [WalletIds -> [Balances -> Nat]]
  BY <1>4 DEF After
<1>. DEFINE between == [p \in Places |-> HeldAt[p] + gain[p]]
<1>6. ASSUME NEW p \in Places
      PROVE  /\ HeldAt[p] \in Nat /\ HeldAt'[p] \in Nat /\ gain[p] \in Nat /\ loss[p] \in Nat
             /\ between[p] = HeldAt[p] + gain[p] /\ between[p] = HeldAt'[p] + loss[p]
  <2>1. PICK w \in WalletIds, b \in Balances : p = Place(w, b)
    BY DEF Places
  <2>2. HeldAt[p] = balance[w][b] /\ HeldAt'[p] = balance'[w][b]
    BY <2>1 DEF HeldAt, Place
  <2>. QED
    BY <1>1, <1>4, <2>1, <2>2
<1>7. PICK sum, after : sum = HeldAt /\ after = HeldAt'
  OBVIOUS
<1>8. \A p \in Places : sum[p] \in Nat /\ after[p] \in Nat /\ gain[p] \in Nat /\ loss[p] \in Nat
                        /\ between[p] = sum[p] + gain[p] /\ between[p] = after[p] + loss[p]
  BY <1>6, <1>7
<1>. HIDE DEF between
<1>9. SumOver(between, Places) = SumOver(sum, Places) + SumOver(gain, Places)
  BY <1>8, PlacesFinite, SumPlus
<1>10. SumOver(between, Places) = SumOver(after, Places) + SumOver(loss, Places)
  BY <1>8, PlacesFinite, SumPlus
<1>11. SumOver(sum, Places) \in Nat /\ SumOver(after, Places) \in Nat
       /\ SumOver(gain, Places) \in Nat /\ SumOver(loss, Places) \in Nat
  BY <1>8, PlacesFinite, SumType
<1>12. /\ Net(legs, FeeRevenue) = gain[FeeRevenue] - loss[FeeRevenue] /\ gain[FeeRevenue] \in Nat /\ loss[FeeRevenue] \in Nat
       /\ Net(legs, Outside) = gain[Outside] - loss[Outside] /\ gain[Outside] \in Nat /\ loss[Outside] \in Nat
  BY <1>1, <1>3
<1>13. revenue' \in Nat
  BY <1>2, <1>12
<1>14. clearing' = revenue' + SumOver(after, Places)
  <2>1. clearing = revenue + SumOver(sum, Places)
    BY <1>2, <1>7
  <2>. QED
    BY <1>1, <1>2, <1>9, <1>10, <1>11, <1>12, <2>1
<1>. QED
  BY <1>5, <1>7, <1>13, <1>14 DEF FundsInv

\* A movement takes from a wallet that it has not locked only what was on hold.
LEMMA PostingSpares ==
  ASSUME WalletsInv, NEW legs, NEW locks, MovementOK(locks, legs), balance' = After(legs),
         NEW v \in WalletIds \ locks
  PROVE  balance'[v]["available"] + balance'[v]["pending"] >= balance[v]["available"] + balance[v]["pending"]
<1>. DEFINE gain == GainOf(legs)
            loss == LossOf(legs)
            avail == Place(v, "available")
            pend == Place(v, "pending")
<1>1. IsFiniteSet(legs) /\ legs \subseteq LegRows
  BY DEF MovementOK
<1>2. \A p \in AllPlaces :
        /\ gain[p] \in Nat /\ loss[p] \in Nat /\ Net(legs, p) = gain[p] - loss[p]
        /\ gain[p] = SumOfLegs({l \in legs : l.to = p}) /\ loss[p] = SumOfLegs({l \in legs : l.from = p})
        /\ (\A l \in legs : l.from # p) => loss[p] = 0
  BY <1>1, LegsBalance DEF GainOf, LossOf
<1>. HIDE DEF gain, loss
<1>3. avail \in AllPlaces /\ pend \in AllPlaces /\ avail # pend
  BY PlacesDiffer DEF AllPlaces, Places, Balances
<1>4. balance[v]["available"] \in Nat /\ balance[v]["pending"] \in Nat
  BY DEF WalletsInv, FundsInv, Balances
<1>5. balance'[v]["available"] = balance[v]["available"] + Net(legs, avail)
      /\ balance'[v]["pending"] = balance[v]["pending"] + Net(legs, pend)
  BY DEF After, Balances
<1>6. (gain[avail] \in Nat /\ loss[avail] \in Nat /\ Net(legs, avail) = gain[avail] - loss[avail])
      /\ (gain[pend] \in Nat /\ loss[pend] \in Nat /\ Net(legs, pend) = gain[pend] - loss[pend])
  BY <1>2, <1>3
<1>7. loss[avail] + loss[pend] <= gain[avail]
  <2>1. CASE \A l \in legs : Sparing(l, locks)
    <3>1. loss[avail] = 0 /\ loss[pend] = 0
      BY <1>2, <1>3, <2>1 DEF Sparing
    <3>. QED
      BY <1>6, <3>1
  <2>2. CASE \E w \in WalletIds : legs = {Leg(Place(w, "pending"), Place(w, "available"), 1)}
    <3>1. PICK w \in WalletIds : legs = {Leg(Place(w, "pending"), Place(w, "available"), 1)}
      BY <2>2
    <3>2. PICK leg : leg = Leg(Place(w, "pending"), Place(w, "available"), 1)
      OBVIOUS
    <3>3. leg.from = Place(w, "pending") /\ leg.to = Place(w, "available") /\ leg.amount = 1 /\ legs = {leg}
      BY <3>1, <3>2 DEF Leg
    <3>4. SumOfLegs({leg}) = 1
      <4>1. [l \in {leg} |-> l.amount][leg] = 1
        BY <3>3
      <4>. QED
        BY <4>1, SumOne DEF SumOfLegs
    <3>5. loss[avail] = 0
      <4>1. \A l \in legs : l.from # avail
        BY <3>3, PlacesDiffer
      <4>. QED
        BY <1>2, <1>3, <4>1
    <3>6. CASE w = v
      <4>1. {l \in legs : l.to = avail} = {leg} /\ {l \in legs : l.from = pend} = {leg}
        BY <3>3, <3>6
      <4>2. gain[avail] = 1 /\ loss[pend] = 1
        BY <1>2, <1>3, <3>4, <4>1
      <4>. QED
        BY <3>5, <4>2
    <3>7. CASE w # v
      <4>1. \A l \in legs : l.from # pend
        BY <3>3, <3>7, PlacesDiffer
      <4>2. loss[pend] = 0
        BY <1>2, <1>3, <4>1
      <4>. QED
        BY <1>6, <3>5, <4>2
    <3>. QED
      BY <3>6, <3>7
  <2>. QED
    BY <2>1, <2>2 DEF MovementOK
<1>. QED
  BY <1>4, <1>5, <1>6, <1>7

LEMMA PostMovementOK == ASSUME WalletsInv, NEW m \in Movers, PostMovement(m) PROVE WalletsInv' /\ FrozenKeeps
<1>. DEFINE legs == mover[m].legs
            locks == mover[m].locks
<1>1. mover[m].at = "post" /\ UNCHANGED <<wallet, creating>> /\ mover' = [mover EXCEPT ![m] = [at |-> "idle"]]
  BY DEF PostMovement
<1>2. MovementOK(locks, legs) /\ \A w \in locks : wallet[w].status = "active"
  BY <1>1 DEF WalletsInv, MoversInv
<1>3. IsFiniteSet(legs) /\ legs \subseteq LegRows
  BY <1>2 DEF MovementOK
<1>4. \/ UNCHANGED <<balance, revenue, clearing>>
      \/ /\ Covered(legs) /\ revenue + Net(legs, FeeRevenue) >= 0
         /\ balance' = After(legs) /\ revenue' = revenue + Net(legs, FeeRevenue)
         /\ clearing' = clearing - Net(legs, Outside)
  BY DEF PostMovement
<1>. HIDE DEF legs, locks
<1>5. FundsInv'
  <2>1. CASE UNCHANGED <<balance, revenue, clearing>>
    BY <2>1 DEF WalletsInv, FundsInv, HeldAt
  <2>2. CASE ~UNCHANGED <<balance, revenue, clearing>>
    BY <1>3, <1>4, <2>2, PostingKeepsTheSum
  <2>. QED
    BY <2>1, <2>2
<1>6. FrozenKeeps
  <2>1. ASSUME NEW w \in WalletIds, wallet[w].status = "frozen"
        PROVE  balance'[w]["available"] + balance'[w]["pending"] >= balance[w]["available"] + balance[w]["pending"]
    <3>1. CASE balance' = balance
      BY <3>1 DEF WalletsInv, FundsInv, Balances
    <3>2. CASE balance' # balance
      <4>1. w \notin locks
        BY <1>2, <2>1
      <4>. QED
        BY <1>2, <1>4, <3>2, <4>1, PostingSpares
    <3>. QED
      BY <3>1, <3>2
  <2>. QED
    BY <2>1 DEF FrozenKeeps
<1>7. RowsInv'
  <2>1. \A v : IsPrimary(v)' <=> IsPrimary(v)
    BY <1>1 DEF IsPrimary
  <2>. QED
    BY <1>1, <2>1 DEF WalletsInv, RowsInv
<1>8. MoversInv'
  <2>1. DOMAIN mover' = Movers /\ mover'[m].at = "idle" /\ \A k \in Movers : k # m => mover'[k] = mover[k]
    BY <1>1 DEF WalletsInv, MoversInv
  <2>. QED
    BY <1>1, <2>1 DEF WalletsInv, MoversInv
<1>. QED
  BY <1>5, <1>6, <1>7, <1>8 DEF WalletsInv

\* Every step keeps the invariant and spends nothing from a frozen wallet.
LEMMA WalletsStep == WalletsInv /\ [WalletsNext]_walletVars => WalletsInv' /\ [FrozenKeeps]_walletVars
<1>. SUFFICES ASSUME WalletsInv, [WalletsNext]_walletVars PROVE WalletsInv' /\ [FrozenKeeps]_walletVars
  OBVIOUS
<1>1. CASE UNCHANGED walletVars
  <2>1. UNCHANGED <<wallet, creating, balance, clearing, revenue, mover>>
    BY <1>1 DEF walletVars
  <2>2. \A v : IsPrimary(v)' <=> IsPrimary(v)
    BY <2>1 DEF IsPrimary
  <2>3. RowsInv'
    BY <2>1, <2>2 DEF WalletsInv, RowsInv
  <2>. QED
    BY <1>1, <2>1, <2>3, RowsMove
<1>2. CASE WalletsNext
  <2>1. CASE \E w \in WalletIds : BeginCreate(w) \/ InsertWallet(w) \/ SetPrimary(w)
    BY <2>1, BeginCreateOK, InsertWalletOK, SetPrimaryOK
  <2>2. CASE \E w \in WalletIds, status \in {"active", "frozen"} : SetWalletStatus(w, status)
    BY <2>2, SetWalletStatusOK
  <2>3. CASE \E m \in Movers, w \in WalletIds : \E mv \in Movements(w) : LockActiveWallets(m, w, mv)
    BY <2>3, LockActiveWalletsOK
  <2>4. CASE \E m \in Movers : PostMovement(m)
    BY <2>4, PostMovementOK
  <2>. QED
    BY <1>2, <2>1, <2>2, <2>3, <2>4 DEF WalletsNext
<1>. QED
  BY <1>1, <1>2

\* No wallet is overdrawn, what came in is in the wallets or in revenue, and every owner of
\* a wallet has one primary wallet: for any wallets, owners and concurrent transactions.
THEOREM WalletsSound == WalletsSpec => []WalletsAreSound
<1>1. WalletsInv => WalletsAreSound
  BY WalletsAreSoundIn
<1>. QED
  BY <1>1, WalletsStart, WalletsStep, PTL DEF WalletsSpec

\* Whatever began before a freeze, nothing that could be spent leaves a frozen wallet.
THEOREM FrozenWalletsKeep == WalletsSpec => FrozenSpendsNothing
<1>. QED
  BY WalletsStart, WalletsStep, PTL DEF WalletsSpec, FrozenSpendsNothing

-----------------------------------------------------------------------------
(* The parts together *)

apiVars == <<part, accountsVars, organizationsVars, moneyVars, walletVars, feesVars, fxVars, vars>>

\* In a behaviour that TLC checks, every part behaves as its specification says.
LEMMA ApiAreParts ==
  ApiSpec => AccountsSpec /\ OrganizationsSpec /\ MoneySpec /\ WalletsSpec /\ FeesSpec /\ FxSpec /\ Spec
<1>1. ApiInit => AccountsInit /\ OrganizationsInit /\ MoneyInit /\ WalletsInit /\ FeesInit /\ FxInit /\ Init
  BY DEF ApiInit
<1>2. [ApiNext]_apiVars =>
        /\ [AccountsNext]_accountsVars /\ [OrganizationsNext]_organizationsVars /\ [MoneyNext]_moneyVars
        /\ [WalletsNext]_walletVars /\ [FeesNext]_feesVars /\ [FxNext]_fxVars /\ [Next]_vars
  BY DEF ApiNext, apiVars
<1>. QED
  BY <1>1, <1>2, PTL DEF ApiSpec, apiVars, AccountsSpec, OrganizationsSpec, MoneySpec, WalletsSpec, FeesSpec,
                         FxSpec, Spec

\* What clients may ask for at the same time, for any numbers of users, members, calls, wallets,
\* rules, quotes and converters, and any bounds: every part of the API keeps its invariant.
THEOREM ApiIsSound ==
  ApiSpec => [](/\ SessionsAreSafe /\ AuthorityIsSound /\ RequestsAreHonoured /\ WalletsAreSound
                /\ FeesAreSound /\ QuotesAreSound /\ RefundsAddUp)
  BY ApiAreParts, SessionsSafe, OrganizationsAuthority, RequestsHonoured, WalletsSound, FeesSound, FxSound,
     RefundsAddUpTheorem, PTL

\* And what none of their steps may do: leave no admin, lose an owner to anything but a stale role,
\* change a stored answer, spend from a frozen wallet.
THEOREM ApiStepsAreSafe ==
  ApiSpec => RemovalLeavesAnAdmin /\ OwnerLostOnlyToStaleRole /\ AnswersAreKept /\ FrozenSpendsNothing
  BY ApiAreParts, RemovalsLeaveAnAdmin, OwnerIsLostToStaleRoleOnly, AnswersKept, FrozenWalletsKeep, PTL

=================================================================================
