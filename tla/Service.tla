------------------------------ MODULE Service ------------------------------
(***************************************************************************)
(* The server process: the control plane (ControlPlane) and the refund     *)
(* gateway's front door (GatewayAccess) as create_app mounts them, with    *)
(* one restart for both.                                                   *)
(*                                                                         *)
(* The parts share the process and nothing else, so a behaviour sends its  *)
(* requests to one of them; traffic, chosen at the start and never         *)
(* changed, says which:                                                    *)
(*   "rows"     row effects and their compensations, on all threads;       *)
(*   "switch"   one row effect and its compensations, revocations, the     *)
(*              kill switch and restarts;                                  *)
(*   "desk"     the artifacts that the grant of one effect is bound to,    *)
(*              one request at a time, up to the gates of its commit, and  *)
(*              restarts;                                                  *)
(*   "gateway"  the front door, and restarts.                              *)
(***************************************************************************)
EXTENDS ControlPlane, GatewayAccess

VARIABLE traffic

service == <<plane, access, traffic>>

\* Bound: only "rows" has a second effect.
MayPrepare == traffic = "rows" \/ \A m \in Forward : made[m] = None

\* Row effects: any operation, any interleaving of the worker threads.
NextRows ==
    \/ /\ MayPrepare
       /\ \E m \in Forward, operation \in Operations, new \in Balances :
             PrepareManifest(m, operation, new)
    \/ \E id \in Ids : ConsoleApprove(id)
    \/ \E t \in Threads, m \in Ids : Execute(t, m, Nothing)
    \/ \E m \in Ids : VerifyManifest(m)
    \/ \E o \in Ids, c \in Comps : PrepareCompensation(o, c) \/ AuthorizeCompensation(o, c)
    \/ \E t \in Threads, o \in Ids, c \in Comps : ExecuteCompensation(t, o, c)
    \/ \E t \in Threads : CompensateEnter(t) \/ CompensateCommitting(t)
                          \/ CompensateCall(t) \/ CompensateFinish(t)

\* What stops them.
NextSwitch ==
    \/ \E id \in Ids : RevokeGrant(id)
    \/ KillSwitchEngage \/ KillSwitchDisengage

\* Artifacts: what a client may show is what a dictionary holds, or nothing.
NextDesk ==
    \/ MayPrepare /\ \E m \in Forward, new \in Balances : PrepareManifest(m, "insert", new)
    \/ \E b \in BundleIds : \/ CreatePolicyBundle(b)
                            \/ CreateApprovalPolicyBundle(b)
                            \/ CreateSeparationPolicyBundle(b)
    \/ CreateEnvelope
    \/ \E m \in Forward : CreateGraph(m)
    \/ \E m \in Forward, b \in BundleIds, who \in Approvers, decision \in Decisions :
          SubmitApproval(m, b, who, decision)
    \/ \E m \in Forward, b \in BundleIds \cup {None}, withEnvelope \in BOOLEAN,
          graph \in graphs \cup {0} : ApproveManifest(m, b, withEnvelope, graph)
    \/ \E m \in Forward, a \in BundleIds, b \in BundleIds \cup {None} : ApproveWithQuorum(m, a, b)
    \/ /\ \A t \in Threads : thread[t] = Idle
       /\ \E t \in Threads, m \in Forward, shown \in [DOMAIN Nothing -> 0 .. minted] :
             Execute(t, m, shown)
    \/ \E t \in Threads : CommitEnter(t)

\* The engine's commit.
NextCommit ==
    \E t \in Threads : CommitEnter(t) \/ CommitCheck(t) \/ CommitCall(t) \/ CommitFinish(t)

\* The front door.  Bounds: one organization is suspended at a time, and
\* the users that clients create are members.
NextGateway ==
    \/ \E o \in Orgs : CreateOrganization(o) \/ CreateOwner(o) \/ CreateTenant(o)
    \/ \E o \in Orgs, status \in {"active", "suspended"} :
          /\ status = "suspended" => \A other \in Orgs : org[other] # "suspended"
          /\ SetOrganizationStatus(o, status)
    \/ \E c \in Clients, u \in Users : Login(c, u)
    \/ \E c \in Clients : Logout(c) \/ Perform(c)
    \/ \E s \in sessions : Expire(s)
    \/ \E c \in Clients, o \in Orgs : AskAgent(c, o) \/ AskAdapter(c, o) \/ AskRefund(c, o)
    \/ \E c \in Clients, o \in Orgs, u \in Users : AskUser(c, o, u, "member")

\* One process: a restart empties the memory of both parts.
Restart == RestartPlane /\ RestartGateway

Next ==
    \/ traffic \in {"rows", "switch"} /\ NextRows /\ UNCHANGED <<access, traffic>>
    \/ traffic = "switch" /\ NextSwitch /\ UNCHANGED <<access, traffic>>
    \/ traffic = "desk" /\ NextDesk /\ UNCHANGED <<access, traffic>>
    \/ traffic \in {"rows", "switch"} /\ NextCommit /\ UNCHANGED <<access, traffic>>
    \/ traffic = "gateway" /\ NextGateway /\ UNCHANGED <<plane, traffic>>
    \/ traffic # "rows" /\ Restart /\ UNCHANGED traffic

Init ==
    /\ traffic \in {"rows", "switch", "desk", "gateway"}
    /\ InitPlane
    /\ traffic \in {"desk", "gateway"} => row = Absent
    /\ InitAccess

Spec == Init /\ [][Next]_service
=============================================================================
