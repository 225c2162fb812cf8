---------------------------- MODULE CommandLine ----------------------------
(***************************************************************************)
(* The command line (cli/) over one workspace directory.  A command is a   *)
(* process with an engine of its own, which knows nothing: it loads what   *)
(* it needs from the files, reads the lifecycle state of its manifest and  *)
(* WRITES IT BACK (reconstruct_lifecycle_state, seed_lifecycle_state)      *)
(* before it calls the engine.  The read and the write are two steps, so   *)
(* a command can put back a state that another command has left since.     *)
(* From then on a command moves the lifecycle by compare-and-set from the  *)
(* record it seeded.                                                       *)
(*                                                                         *)
(* A process may be killed between any two steps; the files and the three  *)
(* databases stay as they are.  The workspace was made by this version:    *)
(* every manifest has its row in lifecycle.db.  What the grants may be     *)
(* bound to, and the commands of authorized compensation, are modelled as  *)
(* the HTTP API exposes them, in ControlPlane.                             *)
(***************************************************************************)
EXTENDS Lifecycle, LedgerRow, Sequences, FiniteSets

CONSTANTS
    Manifests,      \* manifests of row effects
    Grants,         \* grant ids
    Procs,          \* processes that may run at the same time
    Approvers,      \* principals who sign approval statements
    Required,       \* approvals the approval bundle requires
    MaxUses,        \* max_uses of every grant
    Wanted,         \* operations clients ask for
    MaxCommands,    \* bound: commands that seed a lifecycle state
    MaxRewinds,     \* bound: seeds that change the stored state
    None            \* a file, a row or an argument that is not there

ASSUME CommandLineAssumption ==
    /\ Required \in Nat \ {0} /\ MaxUses \in Nat \ {0}
    /\ MaxCommands \in Nat /\ MaxRewinds \in Nat
    /\ Wanted \subseteq Operations
    /\ None \notin Manifests \cup Grants \cup LifecycleState

VARIABLES
    row,            \* the adapter's database
    life,           \* lifecycle.db: the state of a manifest, or None
    trail,          \* audit.db: to_state of the last event about a manifest, or None
    slot,           \* grants.db
    outbox,         \* outbox.db, by manifest: every manifest has a key of its own
    effect,         \* what the manifest file says, or None
    files,          \* which other files the manifest has
    grant,          \* the grant files
    statements,     \* the last approval statement of each approver about a manifest
    issuing,        \* whether approvers still work on the workspace
    job,            \* what a process is doing
    commands,       \* commands begun so far, of those that seed a lifecycle state
    rewinds,        \* seeds that changed the stored state so far
    generation,     \* history: inserts of the row so far
    reached,        \* history: states the engine moved a manifest to
    rewound,        \* history: manifests whose stored state a seed changed
    applied,        \* history: per manifest, the generations in which its statement was applied
    undone,         \* history: per manifest, calls of adapter.compensate
    stopped         \* history: manifests a revocation answered "stopped at a safe checkpoint" for

disk    == <<effect, files, grant, statements>>
ghosts  == <<generation, applied, undone, stopped>>
moves   == <<life, trail, reached>>
seeds   == <<issuing, commands, rewinds, rewound>>
vars    == <<row, moves, slot, outbox, disk, job, seeds, ghosts>>

Idle == [at |-> "idle"]

FreeSlot == [uses |-> 0, reserved |-> FALSE, revoked |-> FALSE]

NoIntent == [status |-> "none", by |-> None]

Ends(p) == job' = [job EXCEPT ![p] = Idle]

Goes(p, step) == job' = [job EXCEPT ![p].at = step]

-----------------------------------------------------------------------------
(* The lifecycle, as one process sees it.                                  *)

\* A mutant of Reconstruct: the audit journal first.
ReconstructFromAudit(m) == IF trail[m] # None THEN trail[m] ELSE life[m]

\* reconstruct_lifecycle_state: the stored state, else the last event's.
Reconstruct(m) == IF life[m] # None THEN life[m] ELSE trail[m]

\* The command has loaded its files and read the state it will seed; "then" is
\* what it does after, g the grant it is about and file the one it will write.
Starts(p, m, then, g, file, quorum) ==
    /\ job[p] = Idle
    /\ commands < MaxCommands
    /\ commands' = commands + 1
    /\ job' = [job EXCEPT ![p] = [at |-> "seed", m |-> m, rec |-> Reconstruct(m), then |-> then,
                                  g |-> g, file |-> file, quorum |-> quorum]]
    /\ UNCHANGED <<issuing, row, moves, slot, outbox, disk, rewinds, rewound, ghosts>>

\* seed_lifecycle_state: store.set, whatever the store holds by now.
Seed(p) ==
    LET j == job[p] IN
    /\ j.at = "seed"
    /\ IF life[j.m] = j.rec
       THEN UNCHANGED <<life, rewinds, rewound>>
       ELSE /\ rewinds < MaxRewinds
            /\ rewinds' = rewinds + 1
            /\ rewound' = rewound \cup {j.m}
            /\ life' = [life EXCEPT ![j.m] = j.rec]
    /\ Goes(p, j.then)
    /\ UNCHANGED <<issuing, commands, row, trail, reached, slot, outbox, disk, ghosts>>

\* A mutant of Persists: the write goes through in any case.
PersistsAnyway(m, from) == TRUE

\* _persist_lifecycle: compare_and_set finds the state the engine moves from.
Persists(m, from) == life[m] = from

CanMove(p, target) ==
    IsLegalTransition(job[p].rec, target) /\ Persists(job[p].m, job[p].rec)

\* _transition that succeeds; its event, like that of a refused one, names the
\* target.
Moved(m, target) ==
    /\ life' = [life EXCEPT ![m] = target]
    /\ reached' = [reached EXCEPT ![m] = @ \cup {target}]
    /\ trail' = [trail EXCEPT ![m] = target]

Refused(m, target) ==
    /\ trail' = [trail EXCEPT ![m] = target]
    /\ UNCHANGED <<life, reached>>

\* A transition whose failure ends the command.
Transition(p, target, next) ==
    IF CanMove(p, target)
    THEN /\ Moved(job[p].m, target)
         /\ job' = [job EXCEPT ![p] = IF next = "idle" THEN Idle
                                       ELSE [@ EXCEPT !.at = next, !.rec = target]]
    ELSE Refused(job[p].m, target) /\ Ends(p)

\* The last thing a command does is to write its file.
Save(p) ==
    LET j == job[p] IN
    /\ j.at = "save"
    /\ files' = [files EXCEPT ![j.m] = @ \cup {j.file}]
    /\ Ends(p)
    /\ UNCHANGED <<row, moves, slot, outbox, effect, grant, statements, seeds, ghosts>>

-----------------------------------------------------------------------------
(* prepare, seal, approve.                                                 *)

\* prepare: the manifest's id is new, so nobody else sees it until it is saved.
Prepare(p, m, operation, new) ==
    /\ job[p] = Idle
    /\ life[m] = None
    /\ effect' = [effect EXCEPT ![m] = PrepareRow(operation, new, row)]
    /\ Moved(m, "prepared")
    /\ UNCHANGED <<row, slot, outbox, files, grant, statements, job, seeds, ghosts>>

Seal(p, m) == effect[m] # None /\ Starts(p, m, "seal", None, "sealed", FALSE)

SealMove(p) ==
    /\ job[p].at = "seal"
    /\ Transition(p, "sealed", "save")
    /\ UNCHANGED <<row, slot, outbox, disk, seeds, ghosts>>

\* approve: a statement is a file of its own; the last of an approver counts.
Approve(m, who, decision) ==
    /\ "sealed" \in files[m]
    /\ statements[m][who] # decision
    /\ statements' = [statements EXCEPT ![m][who] = decision]
    /\ UNCHANGED <<row, moves, slot, outbox, effect, files, grant, job, seeds, ghosts>>

-----------------------------------------------------------------------------
(* grant issue, issue-with-quorum, delegate, revoke.                       *)

\* A grant's id is new: no file and no running command has it.
Unissued(g) ==
    /\ grant[g] = None
    /\ \A p \in Procs : job[p] # Idle => job[p].g # g

Issue(p, m, g) ==
    /\ "sealed" \in files[m] /\ Unissued(g)
    /\ Starts(p, m, "issue", g, "grant", TRUE)

\* evaluate_quorum over the statements the command loaded.
Quorum(m) ==
    /\ Cardinality({a \in Approvers : statements[m][a] = "approve"}) >= Required
    /\ \A a \in Approvers : statements[m][a] # "dissent"

IssueWithQuorum(p, m, g) ==
    /\ "sealed" \in files[m] /\ Unissued(g)
    /\ Starts(p, m, "issue", g, "grant", Quorum(m))

\* engine.authorize and authorize_with_quorum: AUTHORIZED, and then the file.
IssueMove(p) ==
    /\ job[p].at = "issue"
    /\ IF job[p].quorum
       THEN Transition(p, "authorized", "saveGrant")
       ELSE Ends(p) /\ UNCHANGED moves
    /\ UNCHANGED <<row, slot, outbox, disk, seeds, ghosts>>

SaveGrant(p) ==
    LET j == job[p] IN
    /\ j.at = "saveGrant"
    /\ grant' = [grant EXCEPT ![j.g] = [of |-> j.m, above |-> {}]]
    /\ Ends(p)
    /\ UNCHANGED <<row, moves, slot, outbox, effect, files, statements, seeds, ghosts>>

\* delegate: the child's lineage and its file; no lifecycle is touched.
Delegate(g, child) ==
    /\ grant[g] # None /\ Unissued(child)
    /\ grant' = [grant EXCEPT ![child] = [of |-> grant[g].of, above |-> grant[g].above \cup {g}]]
    /\ UNCHANGED <<row, moves, slot, outbox, effect, files, statements, job, seeds, ghosts>>

\* revoke with --manifest-id
Revoke(p, g) == grant[g] # None /\ Starts(p, grant[g].of, "revoke", g, None, FALSE)

RevokeSlot(p) ==
    LET j == job[p] IN
    /\ j.at = "revoke"
    /\ slot' = [slot EXCEPT ![j.g].revoked = TRUE]
    /\ Goes(p, "stop")
    /\ UNCHANGED <<row, moves, outbox, disk, seeds, ghosts>>

\* The answer is True when the record was revocable and could be moved.
RevokeMove(p) ==
    LET j == job[p] IN
    /\ j.at = "stop"
    /\ IF IsRevocable(j.rec) /\ CanMove(p, "revoked")
       THEN Moved(j.m, "revoked") /\ stopped' = stopped \cup {j.m}
       ELSE /\ Refused(j.m, IF IsRevocable(j.rec) THEN "revoked" ELSE j.rec)
            /\ UNCHANGED stopped
    /\ Ends(p)
    /\ UNCHANGED <<row, slot, outbox, disk, seeds, generation, applied, undone>>

\* revoke without it: the lifecycle impact is unknown.
RevokeGrantOnly(g) ==
    /\ grant[g] # None /\ ~slot[g].revoked
    /\ slot' = [slot EXCEPT ![g].revoked = TRUE]
    /\ UNCHANGED <<row, moves, outbox, disk, job, seeds, ghosts>>

-----------------------------------------------------------------------------
(* execute, verify, compensate.                                            *)

Execute(p, g) ==
    /\ grant[g] # None /\ "sealed" \in files[grant[g].of]
    /\ Starts(p, grant[g].of, "admit", g, "commit", FALSE)

\* The gates of engine.commit: neither the grant nor an ancestor is revoked.
Admit(p) ==
    LET j == job[p] IN
    /\ j.at = "admit"
    /\ IF \E g \in {j.g} \cup grant[j.g].above : slot[g].revoked THEN Ends(p) ELSE Goes(p, "reserve")
    /\ UNCHANGED <<row, moves, slot, outbox, disk, seeds, ghosts>>

Reserve(p) ==
    LET g == job[p].g IN
    /\ job[p].at = "reserve"
    /\ IF ~slot[g].revoked /\ ~slot[g].reserved /\ slot[g].uses < MaxUses
       THEN slot' = [slot EXCEPT ![g].reserved = TRUE] /\ Goes(p, "committing")
       ELSE Ends(p) /\ UNCHANGED slot
    /\ UNCHANGED <<row, moves, outbox, disk, seeds, ghosts>>

Release(g) == slot' = [slot EXCEPT ![g].reserved = FALSE]

Committing(p) ==
    /\ job[p].at = "committing"
    /\ Transition(p, "committing", "intend")
    /\ IF CanMove(p, "committing") THEN UNCHANGED slot ELSE Release(job[p].g)
    /\ UNCHANGED <<row, outbox, disk, seeds, ghosts>>

\* record_pending: the key is new, or pending for this very grant; a conflict
\* leaves the manifest COMMITTING.
RecordPending(p) ==
    LET j == job[p]
        intent == [status |-> "pending", by |-> j.g]
    IN
    /\ j.at = "intend"
    /\ IF outbox[j.m] \in {NoIntent, intent}
       THEN outbox' = [outbox EXCEPT ![j.m] = intent] /\ Goes(p, "check") /\ UNCHANGED slot
       ELSE Release(j.g) /\ Ends(p) /\ UNCHANGED outbox
    /\ UNCHANGED <<row, moves, disk, seeds, ghosts>>

\* The stores first, then the lifecycle: a failed attempt gives the slot back.
Fails(p, intent, next) ==
    /\ Release(job[p].g)
    /\ outbox' = [outbox EXCEPT ![job[p].m].status = intent]
    /\ Transition(p, "failed", next)

\* validate_preconditions; no result is saved for a stale manifest.
Check(p) ==
    /\ job[p].at = "check"
    /\ IF Satisfied(effect[job[p].m], row)
       THEN Goes(p, "call") /\ UNCHANGED <<slot, outbox, moves>>
       ELSE Fails(p, "abandoned", "idle")
    /\ UNCHANGED <<row, disk, seeds, ghosts>>

\* adapter.commit; it may raise, before its statement or after it, and then the
\* intent stays pending.
Call(p) ==
    LET j == job[p]
        done == CommitRow(effect[j.m], row)
    IN
    /\ j.at = "call"
    /\ \/ /\ Fails(p, "pending", "idle")
          /\ UNCHANGED <<row, generation, applied>>
       \/ /\ done.success
          /\ row' = done.row
          /\ generation' = IF row.here THEN generation ELSE generation + 1
          /\ applied' = [applied EXCEPT ![j.m] = Append(@, generation)]
          /\ \/ Fails(p, "pending", "idle")
             \/ Goes(p, "finish") /\ UNCHANGED <<slot, outbox, moves>>
       \/ /\ ~done.success
          /\ Fails(p, "abandoned", "save")
          /\ UNCHANGED <<row, generation, applied>>
    /\ UNCHANGED <<disk, seeds, undone, stopped>>

\* confirm_outbox and grant_store.commit, then COMMITTED.
Finish(p) ==
    LET j == job[p] IN
    /\ j.at = "finish"
    /\ outbox' = [outbox EXCEPT ![j.m].status = "confirmed"]
    /\ slot' = [slot EXCEPT ![j.g].reserved = FALSE, ![j.g].uses = @ + 1]
    /\ Goes(p, "committed")
    /\ UNCHANGED <<row, moves, disk, seeds, ghosts>>

Committed(p) ==
    /\ job[p].at = "committed"
    /\ Transition(p, "committed", "save")
    /\ UNCHANGED <<row, slot, outbox, disk, seeds, ghosts>>

Verify(p, m) ==
    /\ {"sealed", "commit"} \subseteq files[m]
    /\ Starts(p, m, "verify", None, "proof", FALSE)

\* VERIFIED says that the row was read, not what was read.
VerifyMove(p) ==
    /\ job[p].at = "verify"
    /\ Transition(p, "verified", "save")
    /\ UNCHANGED <<row, slot, outbox, disk, seeds, ghosts>>

Compensate(p, m) ==
    /\ {"sealed", "commit"} \subseteq files[m]
    /\ Starts(p, m, "compensate", None, "compensation", FALSE)

\* engine.compensate (the legacy path): nothing catches an adapter that raises,
\* and the manifest stays COMPENSATING.
CompensateMove(p) ==
    /\ job[p].at = "compensate"
    /\ Transition(p, "compensating", "undo")
    /\ UNCHANGED <<row, slot, outbox, disk, seeds, ghosts>>

CompensateCall(p) ==
    LET j == job[p]
        done == CompensateRow(effect[j.m], row)
    IN
    /\ j.at = "undo"
    /\ undone' = [undone EXCEPT ![j.m] = @ + 1]
    /\ \/ row' \in {row, done.row} /\ Ends(p)
       \/ row' = done.row /\ Goes(p, IF done.succeeded THEN "compensated" ELSE "failed")
    /\ UNCHANGED <<moves, slot, outbox, disk, seeds, generation, applied, stopped>>

CompensateResult(p) ==
    /\ job[p].at \in {"compensated", "failed"}
    /\ Transition(p, job[p].at, "save")
    /\ UNCHANGED <<row, slot, outbox, disk, seeds, ghosts>>

\* The process is killed; nothing it holds is given back.
Crash(p) ==
    /\ job[p] # Idle
    /\ Ends(p)
    /\ UNCHANGED <<row, moves, slot, outbox, disk, seeds, ghosts>>

-----------------------------------------------------------------------------
\* A workspace in which manifest m has got as far as grant g, or no further
\* than init when m is None.
StartsFrom(m, g, operation) ==
    LET Only(S, x, yes, no) == [y \in S |-> IF y = x THEN yes ELSE no]
    IN
    /\ row = IF operation = "insert" THEN Absent ELSE Row(0, 0)
    /\ life = Only(Manifests, m, "authorized", None) /\ trail = life
    /\ reached = Only(Manifests, m, {"prepared", "sealed", "authorized"}, {})
    /\ effect = Only(Manifests, m, PrepareRow(operation, 1, row), None)
    /\ files = Only(Manifests, m, {"sealed"}, {})
    /\ grant = Only(Grants, g, [of |-> m, above |-> {}], None)

Init ==
    /\ \E operation \in Wanted :
          \/ issuing = TRUE /\ StartsFrom(None, None, operation)
          \/ issuing = FALSE /\ \E m \in Manifests, g \in Grants : StartsFrom(m, g, operation)
    /\ slot = [g \in Grants |-> FreeSlot]
    /\ outbox = [m \in Manifests |-> NoIntent]
    /\ statements = [m \in Manifests |-> [a \in Approvers |-> None]]
    /\ job = [p \in Procs |-> Idle]
    /\ commands = 0 /\ rewinds = 0 /\ rewound = {} /\ generation = 0 /\ stopped = {}
    /\ applied = [m \in Manifests |-> <<>>]
    /\ undone = [m \in Manifests |-> 0]

\* A command begins.
Begin(p) ==
    \/ /\ issuing
       /\ \E m \in Manifests :
             \/ \E operation \in Wanted : Prepare(p, m, operation, 1)
             \/ Seal(p, m)
             \/ \E g \in Grants : Issue(p, m, g) \/ IssueWithQuorum(p, m, g)
    \/ \E m \in Manifests : Verify(p, m) \/ Compensate(p, m)
    \/ \E g \in Grants : Revoke(p, g) \/ Execute(p, g)

\* A command goes on.
Continue(p) ==
    \/ Seed(p) \/ SealMove(p) \/ IssueMove(p) \/ SaveGrant(p)
    \/ RevokeSlot(p) \/ RevokeMove(p)
    \/ Admit(p) \/ Reserve(p) \/ Committing(p) \/ RecordPending(p) \/ Check(p) \/ Call(p)
    \/ Finish(p) \/ Committed(p) \/ VerifyMove(p)
    \/ CompensateMove(p) \/ CompensateCall(p) \/ CompensateResult(p) \/ Save(p)

\* The commands that take one step.
AtOnce ==
    \/ issuing /\ \E m \in Manifests, a \in Approvers, d \in {"approve", "dissent"} : Approve(m, a, d)
    \/ \E g, child \in Grants : Delegate(g, child)
    \/ \E g \in Grants : RevokeGrantOnly(g)

Next ==
    \/ \E p \in Procs : Begin(p) \/ Continue(p) \/ Crash(p)
    \/ AtOnce

Spec == Init /\ [][Next]_vars

-----------------------------------------------------------------------------
(***************************************************************************)
(* The stored state of a manifest is one that the engine moved it to,      *)
(* however many commands seed it, in whatever order, and whatever moves    *)
(* were refused on the way: reconstruct_lifecycle_state restores, and      *)
(* never makes up, a state.                                                *)
(***************************************************************************)
NeverFabricated == \A m \in Manifests : life[m] # None => life[m] \in reached[m]

(***************************************************************************)
(* The statement of a manifest takes effect at most once on the same row,  *)
(* even when the adapter raised after it, the lifecycle was put back to    *)
(* AUTHORIZED by a slow command, a second grant was issued, or a process   *)
(* was killed: the statement's own condition on the row and its version    *)
(* refuses a second attempt of execute, even one the outbox lets through.  *)
(***************************************************************************)
AppliedOncePerRow ==
    \A m \in Manifests : \A i, k \in DOMAIN applied[m] :
        applied[m][i] = applied[m][k] => i = k

(***************************************************************************)
(* Unless a slow command put back the stored state of the manifest, the    *)
(* commands happen in the order of the lifecycle: at most one application, *)
(* at most one call of adapter.compensate and only after it, and none of   *)
(* either after revoke answered that it stopped the execution in time.     *)
(***************************************************************************)
InLineUnlessRewound ==
    \A m \in Manifests \ rewound :
        /\ undone[m] <= Len(applied[m]) /\ Len(applied[m]) <= 1
        /\ m \in stopped => applied[m] = <<>>
=============================================================================
