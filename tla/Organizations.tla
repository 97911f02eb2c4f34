------------------------------ MODULE Organizations ------------------------------
(***************************************************************************)
(* One organization: its members, its API keys, its status, and requests   *)
(* that change them.  A request passes the guards (two reads), may load a  *)
(* member, and then runs its transaction: others act in between.           *)
(***************************************************************************)
EXTENDS Integers, FiniteSets

CONSTANTS
  People,          \* users who may be members
  Keys,            \* API keys that may be created
  OrgRequests,     \* requests, each served once
  KeyScopes,       \* sets of scopes that are asked for
  MaxMemberships   \* bound on the rows of organization_members

ASSUME OrganizationsAssumption == MaxMemberships \in Nat \ {0}

VARIABLES
  org,       \* its status, or "none" before it is created
  members,   \* each person's row of organization_members
  rows,      \* rows created so far
  keys,      \* api_keys
  orgReq,    \* where each request is
  held       \* the parts of its authority that each request's sender had at some time

organizationsVars == <<org, members, rows, keys, orgReq, held>>

READ == {"organization:read", "wallets:read", "transactions:read"}

AdminPermissions ==
  READ \union {"members:manage", "wallets:manage", "payments:create", "api_keys:manage",
    "audit_logs:read", "payouts:create", "payout_destinations:manage", "webhooks:manage",
    "proposals:create", "proposals:decide"}

ROLE_PERMISSIONS ==
  [owner |-> AdminPermissions \union {"organization:manage"},
   admin |-> AdminPermissions,
   member |-> READ \union {"payments:create", "proposals:create"},
   viewer |-> READ]

ASSIGNABLE_ROLES == {"admin", "member", "viewer"}

\* Keys cannot manage members, keys or the organization, nor decide proposals.
API_KEY_SCOPES == READ \union {"wallets:manage", "payments:create", "payouts:create", "proposals:create"}

NotMember == [id |-> 0, role |-> "none"]
NoKey == [state |-> "none", scopes |-> {}]
OrgIdle == [at |-> "idle"]
OrgDone(did) == [at |-> "done", did |-> did]

\* The routes: what each asks for, and of whom.
Routes ==
       [kind : {"rename"}, permission : {"organization:manage"}]
\union [kind : {"add", "change"}, permission : {"members:manage"}, target : People, role : ASSIGNABLE_ROLES]
\union [kind : {"remove"}, permission : {"members:manage"}, target : People]
\union [kind : {"transfer"}, permission : {"organization:manage"}, target : People]
\union [kind : {"createKey"}, permission : {"api_keys:manage"}, key : Keys, scopes : KeyScopes]
\union [kind : {"revokeKey"}, permission : {"api_keys:manage"}, key : Keys]

OrganizationsInit ==
  /\ org = "none"
  /\ members = [p \in People |-> NotMember]
  /\ rows = 0
  /\ keys = [k \in Keys |-> NoKey]
  /\ orgReq = [r \in OrgRequests |-> OrgIdle]
  /\ held = [r \in OrgRequests |-> {}]

Owners(ms) == {p \in People : ms[p].role = "owner"}

\* Which parts of q's authority hold in a state of the tables.
Parts(q, status, ms, ks) ==
  IF q.at \in {"idle", "done", "staff"} THEN {}
  ELSE LET allowed == IF "user" \in DOMAIN q
                      THEN ms[q.user].role # "none" /\ q.route.permission \in ROLE_PERMISSIONS[ms[q.user].role]
                      ELSE ks[q.key].state = "valid" /\ q.scope \in ks[q.key].scopes
       IN  {part \in {"active", "allowed"} : IF part = "active" THEN status = "active" ELSE allowed}

\* History: the parts seen at the request's end of this step, or at its start.
Witness ==
  held' = [r \in OrgRequests |->
             held[r] \union Parts(orgReq'[r], org', members', keys') \union Parts(orgReq[r], org, members, keys)]

OrgGoto(r, next) == orgReq' = [orgReq EXCEPT ![r] = next]

-----------------------------------------------------------------------------
(* The guards. *)

\* OrganizationAccessGuard reads the caller's membership ...
FindMembership(r, p, route) ==
  /\ orgReq[r] = OrgIdle
  /\ members[p] # NotMember
  /\ OrgGoto(r, [at |-> "member", user |-> p, role |-> members[p].role, route |-> route])
  /\ UNCHANGED <<org, members, rows, keys>>

CheckAccess_AnyStatus(r) ==
  /\ orgReq[r].at = "member"
  /\ OrgGoto(r, IF orgReq[r].route.permission \in ROLE_PERMISSIONS[orgReq[r].role]
                THEN [orgReq[r] EXCEPT !.at = "ready"] ELSE OrgDone("refused"))
  /\ UNCHANGED <<org, members, rows, keys>>

\* ... then the organization, and compares the role that it read.
CheckAccess(r) ==
  /\ orgReq[r].at = "member"
  /\ OrgGoto(r, IF org = "active" /\ orgReq[r].route.permission \in ROLE_PERMISSIONS[orgReq[r].role]
                THEN [orgReq[r] EXCEPT !.at = "ready"] ELSE OrgDone("refused"))
  /\ UNCHANGED <<org, members, rows, keys>>

\* ApiKeysService.authenticate finds a valid key ...
FindKey(r, k, scope) ==
  /\ orgReq[r] = OrgIdle
  /\ keys[k].state = "valid"
  /\ OrgGoto(r, [at |-> "key", key |-> k, scope |-> scope, scopes |-> keys[k].scopes])
  /\ UNCHANGED <<org, members, rows, keys>>

\* ... of an active organization; the guard asks for the scope.
CheckKey(r) ==
  /\ orgReq[r].at = "key"
  /\ OrgGoto(r, OrgDone(IF org = "active" /\ orgReq[r].scope \in orgReq[r].scopes THEN "acted" ELSE "refused"))
  /\ UNCHANGED <<org, members, rows, keys>>

-----------------------------------------------------------------------------
(* OrganizationsService *)

Ready(r, kind) == orgReq[r].at = "ready" /\ orgReq[r].route.kind = kind

Create(p) ==
  /\ org = "none"
  /\ org' = "active"
  /\ members' = [members EXCEPT ![p] = [id |-> 1, role |-> "owner"]]
  /\ rows' = 1
  /\ UNCHANGED <<keys, orgReq>>

Rename(r) ==
  /\ Ready(r, "rename")
  /\ OrgGoto(r, OrgDone("acted"))
  /\ UNCHANGED <<org, members, rows, keys>>

\* The unique index refuses a second row for one person.
AddMember(r) ==
  /\ Ready(r, "add") /\ rows < MaxMemberships
  /\ LET p == orgReq[r].route.target IN
       IF members[p] = NotMember
       THEN /\ members' = [members EXCEPT ![p] = [id |-> rows + 1, role |-> orgReq[r].route.role]]
            /\ rows' = rows + 1
            /\ OrgGoto(r, OrgDone("acted"))
       ELSE /\ OrgGoto(r, OrgDone("refused"))
            /\ UNCHANGED <<members, rows>>
  /\ UNCHANGED <<org, keys>>

LoadMember_OwnerToo(r) ==
  /\ Ready(r, "change") \/ Ready(r, "remove")
  /\ LET seen == members[orgReq[r].route.target] IN
       OrgGoto(r, IF seen = NotMember THEN OrgDone("refused")
                  ELSE [at |-> "loaded", user |-> orgReq[r].user, route |-> orgReq[r].route, seen |-> seen])
  /\ UNCHANGED <<org, members, rows, keys>>

\* requireMember and the owner check, before the transaction.
LoadMember(r) ==
  /\ Ready(r, "change") \/ Ready(r, "remove")
  /\ LET seen == members[orgReq[r].route.target] IN
       OrgGoto(r, IF seen = NotMember \/ seen.role = "owner" THEN OrgDone("refused")
                  ELSE [at |-> "loaded", user |-> orgReq[r].user, route |-> orgReq[r].route, seen |-> seen])
  /\ UNCHANGED <<org, members, rows, keys>>

\* UPDATE and DELETE go by the id of the row that was read.
SameRow(r) == members[orgReq[r].route.target].id = orgReq[r].seen.id

ChangeRole(r) ==
  /\ orgReq[r].at = "loaded" /\ orgReq[r].route.kind = "change"
  /\ members' = IF SameRow(r)
                THEN [members EXCEPT ![orgReq[r].route.target].role = orgReq[r].route.role] ELSE members
  /\ OrgGoto(r, OrgDone("acted"))
  /\ UNCHANGED <<org, rows, keys>>

RemoveMember(r) ==
  /\ orgReq[r].at = "loaded" /\ orgReq[r].route.kind = "remove"
  /\ members' = IF SameRow(r)
                THEN [members EXCEPT ![orgReq[r].route.target] = NotMember] ELSE members
  /\ OrgGoto(r, OrgDone("acted"))
  /\ UNCHANGED <<org, rows, keys>>

Transferred_PromoteOnly(p) == [members EXCEPT ![p].role = "owner"]

\* Under a lock on every member: demote the owner, then promote.
Transferred(p) ==
  [q \in People |-> IF q = p THEN [members[q] EXCEPT !.role = "owner"]
                    ELSE IF members[q].role = "owner" THEN [members[q] EXCEPT !.role = "admin"]
                    ELSE members[q]]

TransferOwnership(r) ==
  /\ Ready(r, "transfer")
  /\ LET p == orgReq[r].route.target IN
       /\ members' = IF members[p] = NotMember THEN members ELSE Transferred(p)
       /\ OrgGoto(r, OrgDone(IF members[p] = NotMember THEN "refused" ELSE "acted"))
  /\ UNCHANGED <<org, rows, keys>>

\* AdminService.setOrganizationStatus: read, then write.
LoadOrganization(r, status) ==
  /\ orgReq[r] = OrgIdle
  /\ org \notin {"none", status}
  /\ OrgGoto(r, [at |-> "staff", status |-> status])
  /\ UNCHANGED <<org, members, rows, keys>>

SetOrganizationStatus(r) ==
  /\ orgReq[r].at = "staff"
  /\ org' = orgReq[r].status
  /\ OrgGoto(r, OrgDone("staff"))
  /\ UNCHANGED <<members, rows, keys>>

-----------------------------------------------------------------------------
(* ApiKeysService *)

CreateKey_AnyScope(r) ==
  /\ Ready(r, "createKey")
  /\ LET k == orgReq[r].route.key
         scopes == orgReq[r].route.scopes
     IN  IF scopes \subseteq ROLE_PERMISSIONS[orgReq[r].role] /\ keys[k] = NoKey
         THEN /\ keys' = [keys EXCEPT ![k] = [state |-> "valid", scopes |-> scopes]]
              /\ OrgGoto(r, OrgDone("acted"))
         ELSE /\ OrgGoto(r, OrgDone("refused"))
              /\ UNCHANGED keys
  /\ UNCHANGED <<org, members, rows>>

CreateKey(r) ==
  /\ Ready(r, "createKey")
  /\ LET k == orgReq[r].route.key
         scopes == orgReq[r].route.scopes
     IN  IF scopes \subseteq API_KEY_SCOPES \intersect ROLE_PERMISSIONS[orgReq[r].role] /\ keys[k] = NoKey
         THEN /\ keys' = [keys EXCEPT ![k] = [state |-> "valid", scopes |-> scopes]]
              /\ OrgGoto(r, OrgDone("acted"))
         ELSE /\ OrgGoto(r, OrgDone("refused"))
              /\ UNCHANGED keys
  /\ UNCHANGED <<org, members, rows>>

RevokeKey(r) ==
  /\ Ready(r, "revokeKey")
  /\ LET k == orgReq[r].route.key IN
       /\ keys' = IF keys[k] = NoKey THEN keys ELSE [keys EXCEPT ![k].state = "revoked"]
       /\ OrgGoto(r, OrgDone(IF keys[k] = NoKey THEN "refused" ELSE "acted"))
  /\ UNCHANGED <<org, members, rows>>

ExpireKey(k) ==
  /\ keys[k].state = "valid"
  /\ keys' = [keys EXCEPT ![k].state = "expired"]
  /\ UNCHANGED <<org, members, rows, orgReq>>

OrganizationsNext ==
  /\ \/ \E p \in People : Create(p)
     \/ \E r \in OrgRequests, p \in People, route \in Routes : FindMembership(r, p, route)
     \/ \E r \in OrgRequests, k \in Keys, scope \in UNION KeyScopes : FindKey(r, k, scope)
     \/ \E r \in OrgRequests, status \in {"active", "suspended"} : LoadOrganization(r, status)
     \/ \E r \in OrgRequests : CheckAccess(r) \/ CheckKey(r) \/ Rename(r) \/ AddMember(r)
     \/ \E r \in OrgRequests : LoadMember(r) \/ ChangeRole(r) \/ RemoveMember(r) \/ TransferOwnership(r)
     \/ \E r \in OrgRequests : SetOrganizationStatus(r) \/ CreateKey(r) \/ RevokeKey(r)
     \/ \E k \in Keys : ExpireKey(k)
  /\ Witness

OrganizationsSpec == OrganizationsInit /\ [][OrganizationsNext]_organizationsVars

-----------------------------------------------------------------------------
(* Properties *)

\* Rows are well formed, and no two people share one.
OrganizationsTypeOK ==
  /\ org \in {"none", "active", "suspended"}
  /\ rows \in 0..MaxMemberships
  /\ members \in [People -> [id : 1..MaxMemberships, role : DOMAIN ROLE_PERMISSIONS] \union {NotMember}]
  /\ \A p, q \in People : members[p].id = members[q].id /\ members[p] # NotMember => p = q
  /\ \A k \in Keys : keys[k].state \in {"none", "valid", "revoked", "expired"} /\ keys[k].scopes \subseteq API_KEY_SCOPES

\* However transfers and role changes race, the partial unique index on the owner
\* is never hit: transferOwnership demotes before it promotes, and only it makes owners.
AtMostOneOwner == Cardinality(Owners(members)) <= 1

\* Whatever a request did, its sender had the permission, and the organization was
\* active, at some time while it ran: the guards of a revoked key, a removed member or
\* a suspended organization let nothing through (OrganizationAccessGuard, authenticate).
AuthorityWasHeld ==
  \A r \in OrgRequests :
    orgReq[r].at = "done" /\ orgReq[r].did = "acted" => held[r] = {"active", "allowed"}

OwnerStays ==
  Owners(members) # {} /\ Owners(members') = {} =>
    \E r \in OrgRequests :
      /\ orgReq[r].at = "loaded" /\ orgReq'[r] # orgReq[r]
      /\ members[orgReq[r].route.target].role = "owner"
      /\ orgReq[r].seen.role # "owner"

\* The owner is lost only to a change whose loaded row has become the owner's since.
OwnerLostOnlyToStaleRole == [][OwnerStays]_organizationsVars

\* Who may act for an organization: memberships and keys are well formed, transfers that
\* race leave at most one owner, and whoever acted had the authority when it was checked.
AuthorityIsSound == OrganizationsTypeOK /\ AtMostOneOwner /\ AuthorityWasHeld
=================================================================================
