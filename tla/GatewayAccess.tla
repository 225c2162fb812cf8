--------------------------- MODULE GatewayAccess ---------------------------
(***************************************************************************)
(* Who may act in the refund gateway: organizations, their users, the      *)
(* sessions of the users, the runtimes of the organizations (gateway/api,  *)
(* gateway/store, gateway/sessions, tenant/) and the SDK clients that      *)
(* carry the tokens (sdk/client).                                          *)
(*                                                                         *)
(* Organizations, users and the inventory are rows of gateway.db and       *)
(* survive a restart; sessions and the registry of runtimes are memory.    *)
(* The bootstrap of an organization is three calls with nothing that makes *)
(* them one, so a crash or a refusal leaves it half done.  A request is    *)
(* admitted in one step and carried out in a later one.  The SDK sends a   *)
(* request once; its answer may be lost after the server acted.            *)
(***************************************************************************)
EXTENDS Naturals

CONSTANTS
    Orgs,           \* organizations
    Users,          \* user ids: one namespace for all organizations
    OwnerOf(_),     \* the user id a bootstrap gives the owner of an organization
    Clients,        \* SDK clients
    Nobody,         \* the organization of an id that is not taken
    MaxLogins       \* bound: logins

ASSUME AccessAssumption ==
    /\ Nobody \notin Orgs
    /\ \A o \in Orgs : OwnerOf(o) \in Users

VARIABLES
    org,            \* organization -> its row: absent, active or suspended
    member,         \* user id -> the organization of its row, or Nobody
    owners,         \* user ids whose row has the owner's role
    runtime,        \* organization -> its status in the tenant registry
    holdings,       \* rows <<organization, what>>: agents, adapters, refunds
    boot,           \* organization -> the next step of its bootstrap
    sessions,       \* live sessions: records of a token and its user
    logins,         \* tokens given out
    token,          \* SDK client -> its session_token, 0 for none
    pending         \* SDK client -> the request of its that was admitted

access == <<org, member, owners, runtime, holdings, boot, sessions, logins, token, pending>>

\* What a refund needs in the inventory of its organization.
Resources == {"agent", "adapter"}

NoRequest == [what |-> "none"]

\* GatewaySessionStore.get
Live(k) == \E s \in sessions : s.token = k

\* require_gateway_session: the user behind a live token.
UserOf(k) == (CHOOSE s \in sessions : s.token = k).user

\* require_active_organization
Active(o) == org[o] = "active"

\* A mutant of InScope that checks the organization but not the membership.
InScopeOfAny(u, o) == Active(o)

\* _assert_org_scope: a user of this organization, whose row is active.
InScope(u, o) == member[u] = o /\ Active(o)

\* MultiTenantControlPlane.get_state: the registry keeps a status of its own.
HasRuntime(o) == runtime[o] = "active"

\* resolve_org_runtime
Resolves(u, o) == InScope(u, o) /\ HasRuntime(o)

\* require_registered_refund_resources
HasRefundResources(o) == {o} \X Resources \subseteq holdings

-----------------------------------------------------------------------------
(* bootstrap_organization                                                  *)

CreateOrganization(o) ==
    /\ org[o] = "absent"
    /\ org' = [org EXCEPT ![o] = "active"]
    /\ boot' = [boot EXCEPT ![o] = "owner"]
    /\ UNCHANGED <<member, owners, runtime, holdings, sessions, logins, token, pending>>

\* user_id is the key of the whole table: an owner's id that another
\* organization gave to a user is a conflict, and the new organization stays
\* without an owner; so it does when it is suspended at once.
CreateOwner(o) ==
    /\ boot[o] = "owner"
    /\ IF member[OwnerOf(o)] = Nobody /\ Active(o)
       THEN /\ member' = [member EXCEPT ![OwnerOf(o)] = o]
            /\ owners' = owners \cup {OwnerOf(o)}
            /\ boot' = [boot EXCEPT ![o] = "tenant"]
       ELSE /\ boot' = [boot EXCEPT ![o] = "none"]
            /\ UNCHANGED <<member, owners>>
    /\ UNCHANGED <<org, runtime, holdings, sessions, logins, token, pending>>

\* create_tenant: an active entry of the registry and a runtime.
CreateTenant(o) ==
    /\ boot[o] = "tenant"
    /\ boot' = [boot EXCEPT ![o] = "none"]
    /\ runtime' = [runtime EXCEPT ![o] = "active"]
    /\ UNCHANGED <<org, member, owners, holdings, sessions, logins, token, pending>>

\* set_organization_status: the tenant registry learns of it at the next start.
SetOrganizationStatus(o, status) ==
    /\ org[o] \notin {"absent", status}
    /\ org' = [org EXCEPT ![o] = status]
    /\ UNCHANGED <<member, owners, runtime, holdings, boot, sessions, logins, token, pending>>

-----------------------------------------------------------------------------
(* Sessions.                                                               *)

\* authenticate
Authenticates(u) == member[u] # Nobody /\ Active(member[u])

\* login: a new token, next to those the user has.
IssueSession(u) ==
    /\ logins < MaxLogins
    /\ logins' = logins + 1
    /\ sessions' = sessions \cup {[token |-> logins', user |-> u]}

\* GatewayClient.login: a client whose answer is lost never learns its token.
Login(c, u) ==
    /\ pending[c] = NoRequest
    /\ Authenticates(u)
    /\ IssueSession(u)
    /\ \/ token' = [token EXCEPT ![c] = logins']
       \/ UNCHANGED token
    /\ UNCHANGED <<org, member, owners, runtime, holdings, boot, pending>>

\* logout: exactly this session, if it is live.
RevokeSession(k) ==
    /\ Live(k)
    /\ sessions' = {s \in sessions : s.token # k}

\* GatewayClient.logout: a client keeps a token whose logout it does not hear of.
Logout(c) ==
    /\ pending[c] = NoRequest
    /\ RevokeSession(token[c])
    /\ \/ token' = [token EXCEPT ![c] = 0]
       \/ UNCHANGED token
    /\ UNCHANGED <<org, member, owners, runtime, holdings, boot, logins, pending>>

\* GatewaySessionStore.get: an expired session is evicted.
Expire(s) ==
    /\ s \in sessions
    /\ sessions' = sessions \ {s}
    /\ UNCHANGED <<org, member, owners, runtime, holdings, boot, logins, token, pending>>

-----------------------------------------------------------------------------
(* Requests.  Every method of the client is one request with its token; a  *)
(* client without one raises before it sends anything.                     *)

\* _session_headers, and the server's answer to a token it does not know.
CanSend(c) == pending[c] = NoRequest /\ token[c] # 0 /\ Live(token[c])

\* _request: sent once, and admitted.
Send(c, request) ==
    /\ pending' = [pending EXCEPT ![c] = request]
    /\ UNCHANGED <<org, member, owners, runtime, holdings, boot, sessions, logins, token>>

\* register_organization_agent
MayRegisterAgent(u, o) == InScope(u, o)

\* register_organization_adapter looks its adapter up in the runtime.
MayRegisterAdapter(u, o) == Resolves(u, o)

\* GatewayClient.register_agent
AskAgent(c, o) ==
    /\ CanSend(c)
    /\ MayRegisterAgent(UserOf(token[c]), o)
    /\ Send(c, [what |-> "agent", org |-> o, user |-> UserOf(token[c])])

\* GatewayClient.register_adapter
AskAdapter(c, o) ==
    /\ CanSend(c)
    /\ MayRegisterAdapter(UserOf(token[c]), o)
    /\ Send(c, [what |-> "adapter", org |-> o, user |-> UserOf(token[c])])

\* create_organization_user: for an owner only.
MayCreateUser(u, o) == InScope(u, o) /\ u \in owners

\* GatewayClient.create_user
AskUser(c, o, u, role) ==
    /\ CanSend(c)
    /\ MayCreateUser(UserOf(token[c]), o)
    /\ Send(c, [what |-> "user", org |-> o, user |-> UserOf(token[c]), new |-> u, role |-> role])

\* GatewayClient.propose_refund
AskRefund(c, o) ==
    /\ CanSend(c)
    /\ Resolves(UserOf(token[c]), o) /\ HasRefundResources(o)
    /\ Send(c, [what |-> "refund", org |-> o, user |-> UserOf(token[c])])

Hold(o, what) == holdings' = holdings \cup {<<o, what>>} /\ UNCHANGED <<member, owners>>

\* GatewayStore.register_agent: an active organization once more, and the same
\* registration again is no change.
AddAgent(r) ==
    IF Active(r.org) THEN Hold(r.org, "agent") ELSE UNCHANGED <<member, owners, holdings>>

\* GatewayStore.register_adapter: the same.
AddAdapter(r) ==
    IF Active(r.org) THEN Hold(r.org, "adapter") ELSE UNCHANGED <<member, owners, holdings>>

\* The rest of propose_refund; RefundGateway has the refund's life.
AddRefund(r) == Hold(r.org, "refund")

\* GatewayStore.create_user: an id that is taken, by any organization, is a
\* conflict.
AddUser(r) ==
    /\ IF Active(r.org) /\ member[r.new] = Nobody
       THEN /\ member' = [member EXCEPT ![r.new] = r.org]
            /\ owners' = IF r.role = "owner" THEN owners \cup {r.new} ELSE owners
       ELSE UNCHANGED <<member, owners>>
    /\ UNCHANGED holdings

\* What an admitted request does, whoever hears of it.
Perform(c) ==
    LET r == pending[c] IN
    /\ r # NoRequest
    /\ \/ r.what = "user" /\ AddUser(r)
       \/ r.what = "agent" /\ AddAgent(r)
       \/ r.what = "adapter" /\ AddAdapter(r)
       \/ r.what = "refund" /\ AddRefund(r)
    /\ pending' = [pending EXCEPT ![c] = NoRequest]
    /\ UNCHANGED <<org, runtime, boot, sessions, logins, token>>

-----------------------------------------------------------------------------
\* A new process: no session and no request, and rehydrate_tenant_registrations
\* registers every organization that has a row, half bootstrapped or not.  The
\* clients keep their tokens.
RestartGateway ==
    /\ sessions' = {}
    /\ boot' = [o \in Orgs |-> "none"]
    /\ runtime' = org
    /\ pending' = [c \in Clients |-> NoRequest]
    /\ UNCHANGED <<org, member, owners, holdings, logins, token>>

InitAccess ==
    /\ org = [o \in Orgs |-> "absent"] /\ runtime = [o \in Orgs |-> "absent"]
    /\ boot = [o \in Orgs |-> "none"]
    /\ member = [u \in Users |-> Nobody] /\ owners = {} /\ holdings = {}
    /\ sessions = {} /\ logins = 0
    /\ token = [c \in Clients |-> 0]
    /\ pending = [c \in Clients |-> NoRequest]

\* What belongs to an organization.
Belongings(o) == <<{u \in Users : member[u] = o}, {h \in holdings : h[1] = o}>>

\* Outside its own bootstrap, an organization's users, agents, adapters and
\* refunds change only by a request of one of its members, through lost
\* answers, stale tokens, restarts, suspensions and half-done bootstraps
\* (gateway/api.py, _assert_org_scope).
OnlyMembersAct ==
    [][\A o \in Orgs :
         Belongings(o)' # Belongings(o) /\ boot[o] = "none"
         => \E c \in Clients : /\ pending[c] # NoRequest /\ pending'[c] = NoRequest
                               /\ pending[c].org = o /\ member[pending[c].user] = o]_access
=============================================================================
