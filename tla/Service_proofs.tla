-------------------------- MODULE Service_proofs --------------------------
(***************************************************************************)
(* What the server promises, for every number of manifests, threads,       *)
(* clients and organizations.                                              *)
(*                                                                         *)
(* The inductive invariant of the control plane has five parts besides its *)
(* types.  RowInv: within one generation of the row, its version tells     *)
(* whether its balance is still the one a manifest was prepared on.        *)
(* JobsInv: what a thread has learnt by the time it reaches a step; the    *)
(* slot of a compensation keeps all threads but one out of its call.       *)
(* OnceInv: a compensation that called the adapter has left every state    *)
(* from which it could call it again.  ToldInv: every state, result and    *)
(* proof that speaks of an effect has the effect behind it.  BoundInv and  *)
(* CaughtInv: the quorum behind a grant is still there, and a thread that  *)
(* is at work while the switch is engaged was at work before.              *)
(***************************************************************************)
EXTENDS Service, FiniteSetTheorems, TLAPS

Rows == [here : BOOLEAN, balance : Balances \cup {0}, version : Nat]

Effects == [operation : Operations, new : Balances, version : Nat, restore : BOOLEAN,
            previous : Balances \cup {0}]

RowManifests == [effect : Effects, of : {None}, saw : Nat]

CompManifests == [effect : {None}, of : Ids, saw : {0}]

Slots == [uses : Nat, reserved : BOOLEAN, revoked : BOOLEAN]

Bindings == [policy : Nat, envelope : Nat, graph : Nat, quorum : Nat]

Shown == [DOMAIN Nothing -> Nat]

Bundles == [kind : {"risk", "approval", "separation"}, hash : Nat]

CommitJobs == [at : {"entered", "committing", "checked"}, id : Ids, shown : Shown, grant : Bindings]

CalledJobs == [at : {"called"}, id : Ids, ok : BOOLEAN]

AskedJobs == [at : {"asked"}, id : Ids, of : Ids, grant : Bindings]

UndoJobs == [at : {"reserved", "compensating"}, id : Ids, of : Ids, was : LifecycleState]

UndoneJobs == [at : {"undone"}, id : Ids, of : Ids, was : LifecycleState, ok : BOOLEAN]

Jobs == {Idle} \cup CommitJobs \cup CalledJobs \cup AskedJobs \cup UndoJobs \cup UndoneJobs

StoreTypes ==
    /\ row \in Rows
    /\ life \in [Ids -> LifecycleState]
    /\ slot \in [Ids -> Slots]
    /\ DOMAIN made = Ids
    /\ \A m \in Forward : life[m] # "proposed" => made[m] \in RowManifests
    /\ \A c \in Comps : life[c] # "proposed" => made[c] \in CompManifests
    /\ generation \in Nat

MemoryTypes ==
    /\ known \subseteq Ids
    /\ \A id \in known : life[id] # "proposed"
    /\ grants \in [Ids -> Bindings \cup {None}]
    /\ \A id \in Ids : grants[id] # None => id \in known
    /\ DOMAIN results = Ids /\ DOMAIN proofs = Ids /\ DOMAIN undone = Ids
    /\ bundles \in [BundleIds -> Bundles \cup {None}]
    /\ envelope \in Nat /\ graphs \subseteq Nat /\ minted \in Nat

\* The balance a manifest was prepared on, if the row is still of that version.
Current(m) ==
    \/ ~row.here
    \/ made[m].effect.version < row.version
    \/ made[m].effect.version = row.version /\ row.balance = made[m].effect.previous

BuildsOnWhatItRead(a) ==
    made[a.id].effect.operation # "insert" /\ made[a.id].saw = a.in
    => a.found.balance = made[a.id].effect.previous

RowInv ==
    /\ \A m \in Forward : life[m] # "proposed" /\ made[m].effect.operation # "insert" =>
          /\ made[m].saw <= generation
          /\ made[m].saw = generation => Current(m)
    /\ \A a \in applied : a.id \in Forward /\ life[a.id] # "proposed" /\ BuildsOnWhatItRead(a)

\* The adapter has been asked to undo o on behalf of c, and did or did not.
Called(c, o, ok) == \E u \in undid : u.by = c /\ u.on = o /\ u.ok = ok

Uncalled(c) == \A u \in undid : u.by # c

\* What the job x of a thread says of the rest of the state.
JobSays(x) ==
    /\ x.at # "idle" => life[x.id] # "proposed"
    /\ x.at \in {"committing", "checked", "called"} => x.id \in Forward
    /\ x.at = "called" /\ x.ok => \E a \in applied : a.id = x.id
    /\ x.at \in {"asked", "reserved", "compensating", "undone"} =>
          x.id \in Comps /\ life[x.of] # "proposed"
    /\ x.at \in {"reserved", "compensating", "undone"} => made[x.id].of = x.of
    /\ x.at \in {"reserved", "compensating"} => slot[x.id].reserved
    /\ x.at = "compensating" => life[x.id] = "committing" /\ Uncalled(x.id)
    /\ x.at = "undone" => x.of \in Forward /\ Called(x.id, x.of, x.ok)

\* The slot of a compensation has one holder.
Apart(x, y) ==
    ~ (/\ x.at \in {"reserved", "compensating"} /\ y.at \in {"reserved", "compensating"}
       /\ x.id = y.id)

JobsInv ==
    /\ thread \in [Threads -> Jobs]
    /\ \A t \in Threads : JobSays(thread[t])
    /\ \A t, d \in Threads : t # d => Apart(thread[t], thread[d])

\* The states before the first call of an adapter.
Early == {"proposed", "prepared", "sealed", "authorized", "revoked", "expired"}

OnceInv ==
    \A u \in undid : /\ u.by \in Comps /\ life[u.by] \notin Early
                     /\ made[u.by].of = u.on /\ u.nth = 0

ToldInv ==
    /\ \A id \in Ids :
          /\ life[id] \in {"committed", "verified", "compensating", "compensated"} => Happened(id)
          /\ life[id] = "compensated" => \E u \in undid : u.on = id /\ u.ok
          /\ results[id] = "ok" => Happened(id)
          /\ proofs[id] \in {"match", "mismatch"} => id \in Forward /\ Happened(id)
          /\ undone[id] = "ok" => Happened(id) /\ \E u \in undid : u.on = id /\ u.ok

\* The approvers behind the quorum of a grant.
Behind(m, hash) == {s.by : s \in {x \in statements : x.manifest = m /\ x.hash = hash}}

BoundInv ==
    /\ \A r \in ran : \A k \in DOMAIN Nothing : r.grant[k] \in {0, r.shown[k]}
    /\ IsFiniteSet(statements)
    /\ \A m \in Forward : grants[m] # None /\ grants[m].quorum # 0
                          => Cardinality(Behind(m, grants[m].quorum)) >= Required

CaughtInv == kill => \A t \in Threads : thread[t] # Idle => t \in caught

PlaneInv ==
    StoreTypes /\ MemoryTypes /\ RowInv /\ JobsInv /\ OnceInv /\ ToldInv /\ BoundInv /\ CaughtInv

-----------------------------------------------------------------------------
(* The front door: an admitted request is one of a member.                 *)

PlainRequests == [what : {"agent", "adapter", "refund"}, org : Orgs, user : Users]

UserRequests == [what : {"user"}, org : Orgs, user : Users, new : Users, role : {"member"}]

AccessInv ==
    /\ member \in [Users -> Orgs \cup {Nobody}]
    /\ sessions \subseteq [token : Nat, user : Users] /\ logins \in Nat
    /\ pending \in [Clients -> {NoRequest} \cup PlainRequests \cup UserRequests]
    /\ \A c \in Clients : pending[c] # NoRequest => member[pending[c].user] = pending[c].org

-----------------------------------------------------------------------------
(* Operators of the model.                                                 *)

(***************************************************************************)
(* What prepare records is an effect.                                      *)
(***************************************************************************)
LEMMA Preparation ==
    ASSUME NEW operation \in Operations, NEW new \in Balances, NEW r \in Rows
    PROVE  /\ PrepareRow(operation, new, r) \in Effects
           /\ operation # "insert" => /\ PrepareRow(operation, new, r).version = r.version
                                      /\ PrepareRow(operation, new, r).previous = r.balance
  BY DEF PrepareRow, Effects, Rows

(***************************************************************************)
(* A commit leaves the row as it is, or finds the version it expects and   *)
(* raises it, removes the row, or inserts it where there was none.         *)
(***************************************************************************)
LEMMA Commitment ==
    ASSUME NEW e \in Effects, NEW r \in Rows, NEW d, d = CommitRow(e, r)
    PROVE  /\ d.row \in Rows /\ d.success \in BOOLEAN
           /\ ~d.success => d.row = r
           /\ d.success /\ e.operation # "insert" => r.here /\ r.version = e.version
           /\ \/ d.row = r
              \/ ~d.row.here
              \/ ~r.here /\ d.row.here
              \/ r.here /\ d.row.here /\ d.row.version = r.version + 1
<1>1. e.operation \in Operations /\ e.new \in Balances /\ r.version \in Nat /\ r.here \in BOOLEAN
  BY DEF Effects, Rows
<1>2. CASE ~Satisfied(e, r)
  BY <1>2 DEF CommitRow
<1>3. CASE Satisfied(e, r) /\ e.operation = "insert"
  BY <1>1, <1>3 DEF CommitRow, Satisfied, Row, Rows
<1>4. CASE Satisfied(e, r) /\ e.operation = "update"
  BY <1>1, <1>4 DEF CommitRow, Satisfied, Row, Rows
<1>5. CASE Satisfied(e, r) /\ e.operation = "delete"
  BY <1>1, <1>5 DEF CommitRow, Satisfied, Absent, Rows
<1> QED BY <1>1, <1>2, <1>3, <1>4, <1>5 DEF Operations

(***************************************************************************)
(* A compensation leaves the row, removes it, or raises its version.       *)
(***************************************************************************)
LEMMA Compensation ==
    ASSUME NEW e \in Effects, NEW r \in Rows, NEW d, d = CompensateRow(e, r)
    PROVE  /\ d.row \in Rows /\ d.succeeded \in BOOLEAN
           /\ \/ d.row = r
              \/ ~d.row.here
              \/ r.here /\ d.row.here /\ d.row.version = r.version + 1
<1>1. r.version \in Nat /\ e.previous \in Balances \cup {0}
  BY DEF Rows, Effects
<1>2. CASE d.row = r /\ d.succeeded \in BOOLEAN
  BY <1>2
<1>3. CASE d.row = Absent /\ d.succeeded \in BOOLEAN
  BY <1>3 DEF Absent, Rows
<1>4. CASE d.row = Row(e.previous, r.version + 1) /\ r.here /\ d.succeeded \in BOOLEAN
  BY <1>1, <1>4 DEF Row, Rows
<1> QED BY <1>2, <1>3, <1>4 DEF CompensateRow, RestoreBalance

(***************************************************************************)
(* The moves of the lifecycle that the proofs ask about.                   *)
(***************************************************************************)
LEMMA MovesTo ==
    ASSUME NEW c, NEW t, IsLegalTransition(c, t)
    PROVE  /\ t = "authorized" => c = "sealed"
           /\ t = "committing" => c = "authorized"
           /\ t = "verified" => c = "committed"
           /\ t = "compensated" => c \in {"verified", "compensating"}
           /\ t = "failed" => c # "committed" /\ c # "verified" /\ c # "compensated"
  BY DEF IsLegalTransition, TRANSITIONS

LEMMA StatesNamed ==
    {"proposed", "sealed", "authorized", "committing", "committed", "verified", "failed", "revoked",
     "compensating", "compensated"} \subseteq LifecycleState
  BY DEF LifecycleState

LEMMA ShownKeys == DOMAIN Nothing = {"policy", "envelope", "graph"}
  BY DEF Nothing

-----------------------------------------------------------------------------
(* What lasts.                                                             *)

\* A manifest is prepared once, and the histories only grow.
Grows ==
    /\ \A id \in Ids : life[id] # "proposed" => life'[id] # "proposed" /\ made'[id] = made[id]
    /\ applied \subseteq applied' /\ undid \subseteq undid'

\* A step leaves the compensation of the job x alone.
Spares(x) ==
    /\ x.at \in {"reserved", "compensating"} => slot'[x.id].reserved
    /\ x.at = "compensating" => /\ life'[x.id] = "committing"
                                /\ \A u \in undid' : u \in undid \/ u.by # x.id

LEMMA JobIds ==
    ASSUME NEW x \in Jobs
    PROVE  /\ x.at # "idle" => x.id \in Ids
           /\ x.at \in {"asked", "reserved", "compensating", "undone"} => x.of \in Ids
           /\ x = Idle <=> x.at = "idle"
           /\ x.at \in {"idle", "entered", "committing", "checked", "called", "asked", "reserved",
                        "compensating", "undone"}
           /\ x.at \in {"entered", "committing", "checked"} => x \in CommitJobs
           /\ x.at = "called" => x \in CalledJobs
           /\ x.at = "asked" => x \in AskedJobs
           /\ x.at \in {"reserved", "compensating"} => x \in UndoJobs
           /\ x.at = "undone" => x \in UndoneJobs
  BY DEF Jobs, Idle, CommitJobs, CalledJobs, AskedJobs, UndoJobs, UndoneJobs

LEMMA JobLasts ==
    ASSUME NEW x \in Jobs, JobSays(x), Grows, Spares(x)
    PROVE  JobSays(x)'
<1>1. /\ x.at # "idle" => life'[x.id] # "proposed" /\ made'[x.id] = made[x.id]
      /\ x.at \in {"asked", "reserved", "compensating", "undone"} => life'[x.of] # "proposed"
  BY JobIds DEF JobSays, Grows
<1>2. x.at = "called" /\ x.ok => \E a \in applied' : a.id = x.id
  BY DEF JobSays, Grows
<1>3. x.at = "undone" => x.of \in Forward /\ Called(x.id, x.of, x.ok)'
  BY DEF JobSays, Grows, Called
<1>4. x.at = "compensating" => life'[x.id] = "committing" /\ Uncalled(x.id)'
  BY DEF JobSays, Spares, Uncalled
<1> QED BY <1>1, <1>2, <1>3, <1>4 DEF JobSays, Spares

(***************************************************************************)
(* A step of the thread t, which goes on with the job n.                   *)
(***************************************************************************)
LEMMA JobsKeep ==
    ASSUME JobsInv, Grows, NEW t \in Threads, NEW n \in Jobs, thread' = [thread EXCEPT ![t] = n],
           JobSays(n)', \A d \in Threads \ {t} : Spares(thread[d]) /\ Apart(n, thread[d])
    PROVE  JobsInv'
<1>1. thread' \in [Threads -> Jobs] /\ thread'[t] = n
      /\ \A d \in Threads \ {t} : thread'[d] = thread[d]
  BY DEF JobsInv
<1>2. ASSUME NEW d \in Threads PROVE JobSays(thread[d])'
  <2>1. CASE d = t
    BY <1>1, <2>1
  <2>2. CASE d # t
    <3>1. PICK x \in Jobs : x = thread[d] /\ x = thread'[d] /\ JobSays(x) /\ Spares(x)
      BY <1>1, <2>2 DEF JobsInv
    <3>2. JobSays(x)'
      BY <3>1, JobLasts
    <3> QED BY <3>1, <3>2
  <2> QED BY <2>1, <2>2
<1>3. ASSUME NEW d \in Threads, NEW e \in Threads, d # e PROVE Apart(thread'[d], thread'[e])
  BY <1>1, <1>3 DEF JobsInv, Apart
<1> QED BY <1>1, <1>2, <1>3 DEF JobsInv

LEMMA IdleJob == Idle \in Jobs /\ JobSays(Idle)' /\ \A x : Apart(Idle, x)
  BY DEF Jobs, Idle, JobSays, Apart

(***************************************************************************)
(* A step of no thread.                                                    *)
(***************************************************************************)
LEMMA JobsStay ==
    ASSUME JobsInv, Grows, thread' = thread, \A d \in Threads : Spares(thread[d])
    PROVE  JobsInv'
<1>1. ASSUME NEW d \in Threads PROVE JobSays(thread[d])'
  <2>1. PICK x \in Jobs : x = thread[d] /\ JobSays(x) /\ Spares(x)
    BY DEF JobsInv
  <2>2. JobSays(x)'
    BY <2>1, JobLasts
  <2> QED BY <2>1, <2>2
<1> QED BY <1>1 DEF JobsInv, Apart

\* No slot is given back, nothing is called, and no committing manifest moves.
LEMMA AllSpared ==
    ASSUME JobsInv, undid' = undid,
           \A id \in Ids : slot[id].reserved => slot'[id].reserved,
           \A id \in Ids : life[id] = "committing" => life'[id] = "committing",
           NEW d \in Threads
    PROVE  Spares(thread[d])
<1>1. PICK x \in Jobs : x = thread[d] /\ JobSays(x)
  BY DEF JobsInv
<1>2. Spares(x)
  BY <1>1, JobIds DEF Spares, JobSays
<1> QED BY <1>1, <1>2

LEMMA RowStays ==
    ASSUME StoreTypes, RowInv, Grows, UNCHANGED <<row, generation, made, applied>>,
           \A m \in Forward : life'[m] # "proposed" => life[m] # "proposed"
    PROVE  RowInv'
<1>1. \A m \in Forward : Current(m) => Current(m)'
  BY DEF Current
<1>2. \A a \in applied : BuildsOnWhatItRead(a) => BuildsOnWhatItRead(a)'
  BY DEF BuildsOnWhatItRead
<1> QED BY <1>1, <1>2 DEF RowInv, Grows, Ids

LEMMA OnceStays ==
    ASSUME OnceInv, Grows, undid' = undid,
           \A c \in Ids : life[c] \notin Early => life'[c] \notin Early
    PROVE  OnceInv'
  BY DEF OnceInv, Grows, Ids, Early

LEMMA HappenedLasts ==
    ASSUME Grows, NEW id, Happened(id)
    PROVE  Happened(id)'
  BY DEF Grows, Happened

LEMMA UndoneLasts ==
    ASSUME Grows, NEW id, \E u \in undid : u.on = id /\ u.ok
    PROVE  \E u \in undid' : u.on = id /\ u.ok
  BY DEF Grows

\* What the states say: Told(id) is one conjunct of ToldInv.
Told(id) ==
    /\ life[id] \in {"committed", "verified", "compensating", "compensated"} => Happened(id)
    /\ life[id] = "compensated" => \E u \in undid : u.on = id /\ u.ok
    /\ results[id] = "ok" => Happened(id)
    /\ proofs[id] \in {"match", "mismatch"} => id \in Forward /\ Happened(id)
    /\ undone[id] = "ok" => Happened(id) /\ \E u \in undid : u.on = id /\ u.ok

LEMMA ToldStays ==
    ASSUME ToldInv, Grows, NEW id \in Ids,
           life'[id] \in {"committed", "verified", "compensating", "compensated"} => Happened(id)',
           life'[id] = "compensated" => \E u \in undid' : u.on = id /\ u.ok,
           results'[id] = results[id], proofs'[id] = proofs[id], undone'[id] = undone[id]
    PROVE  Told(id)'
<1>1. Told(id)
  BY DEF ToldInv, Told
<1>2. Happened(id) => Happened(id)'
  BY HappenedLasts
<1>3. (\E u \in undid : u.on = id /\ u.ok) => \E u \in undid' : u.on = id /\ u.ok
  BY UndoneLasts
<1> QED BY <1>1, <1>2, <1>3 DEF Told

LEMMA ToldAll ==
    ASSUME \A id \in Ids : Told(id)'
    PROVE  ToldInv'
  BY DEF Told, ToldInv

LEMMA ToldUnmoved ==
    ASSUME ToldInv, Grows, UNCHANGED <<results, proofs, undone>>,
           \A id \in Ids :
              \/ life'[id] = life[id]
              \/ life'[id] \notin {"committed", "verified", "compensating", "compensated"}
    PROVE  ToldInv'
<1>1. ASSUME NEW id \in Ids PROVE Told(id)'
  <2>1. life'[id] \in {"committed", "verified", "compensating", "compensated"} => Happened(id)'
    BY HappenedLasts DEF ToldInv
  <2>2. life'[id] = "compensated" => \E u \in undid' : u.on = id /\ u.ok
    BY UndoneLasts DEF ToldInv
  <2> QED BY <2>1, <2>2, ToldStays
<1> QED BY <1>1, ToldAll

LEMMA BoundStays ==
    ASSUME BoundInv, UNCHANGED <<ran, statements, grants>>
    PROVE  BoundInv'
  BY DEF BoundInv, Behind

-----------------------------------------------------------------------------
(* One lemma per request, or step of one.                                  *)

(***************************************************************************)
(* A request that moves manifests along their lifecycle without a call of  *)
(* the adapter, by no thread and before COMMITTING.                        *)
(***************************************************************************)
\* The states a manifest has before and after it.
Approached(before, after) ==
    \/ after = before
    \/ before = "sealed" /\ after = "authorized"
    \/ before \in REVOCABLE_STATES \ {"proposed"} /\ after = "revoked"

LEMMA ApproachKeeps ==
    ASSUME PlaneInv, MemoryTypes', BoundInv', slot' \in [Ids -> Slots],
           life' \in [Ids -> LifecycleState],
           \A id \in Ids : Approached(life[id], life'[id]),
           \A id \in Ids : slot'[id].reserved = slot[id].reserved,
           UNCHANGED <<row, made, results, proofs, undone, kill, thread, generation, undid,
                       applied, caught>>
    PROVE  PlaneInv'
<1>1. \A id \in Ids : /\ life[id] # "proposed" => life'[id] # "proposed"
                      /\ life'[id] # "proposed" => life[id] # "proposed"
                      /\ life[id] = "committing" => life'[id] = "committing"
                      /\ life[id] \notin Early => life'[id] \notin Early
                      /\ \/ life'[id] = life[id]
                         \/ life'[id] \notin {"committed", "verified", "compensating", "compensated"}
  BY DEF Approached, REVOCABLE_STATES, Early
<1>2. Grows
  BY <1>1 DEF Grows
<1>3. StoreTypes'
  BY <1>1 DEF PlaneInv, StoreTypes, Ids
<1>4. RowInv'
  BY <1>1, <1>2, RowStays DEF PlaneInv, Ids
<1>5. JobsInv'
  BY <1>1, <1>2, AllSpared, JobsStay DEF PlaneInv
<1>6. OnceInv'
  BY <1>1, <1>2, OnceStays DEF PlaneInv
<1>7. ToldInv'
  BY <1>1, <1>2, ToldUnmoved DEF PlaneInv
<1>8. CaughtInv'
  BY DEF PlaneInv, CaughtInv
<1> QED BY <1>3, <1>4, <1>5, <1>6, <1>7, <1>8 DEF PlaneInv

(***************************************************************************)
(* A grant is registered: the manifest was sealed, and a quorum that the   *)
(* grant names is there.                                                   *)
(***************************************************************************)
LEMMA RegisterKeeps ==
    ASSUME PlaneInv, NEW m \in Ids, m \in known, NEW b \in Bindings, Moves(m, "authorized"),
           Register(m, b),
           m \in Forward /\ b.quorum # 0 => Cardinality(Behind(m, b.quorum)) >= Required
    PROVE  PlaneInv'
<1>1. /\ life' = [life EXCEPT ![m] = "authorized"] /\ grants' = [grants EXCEPT ![m] = b]
      /\ UNCHANGED <<row, slot, made, known, results, proofs, undone, kill, bundles, envelope, graphs,
                     statements, thread, minted, generation, undid, applied, ran, caught>>
  BY DEF Register, history
<1>2. life[m] = "sealed"
  BY MovesTo DEF Moves
<1>3. life' \in [Ids -> LifecycleState] /\ \A id \in Ids : Approached(life[id], life'[id])
  BY <1>1, <1>2, StatesNamed DEF PlaneInv, StoreTypes, Approached
<1>4. MemoryTypes'
  BY <1>1 DEF PlaneInv, StoreTypes, MemoryTypes
<1>5. BoundInv'
  <2>1. \A k \in Forward \ {m} : grants'[k] = grants[k]
    BY <1>1 DEF PlaneInv, MemoryTypes, Ids
  <2>2. grants'[m] = b
    BY <1>1 DEF PlaneInv, MemoryTypes
  <2>3. ASSUME NEW k \in Forward, grants'[k] # None, grants'[k].quorum # 0
        PROVE  Cardinality(Behind(k, grants'[k].quorum)) >= Required
    BY <2>1, <2>2, <2>3 DEF PlaneInv, BoundInv
  <2> QED BY <1>1, <2>3 DEF PlaneInv, BoundInv, Behind
<1>6. slot' \in [Ids -> Slots] /\ \A id \in Ids : slot'[id].reserved = slot[id].reserved
  BY <1>1 DEF PlaneInv, StoreTypes
<1> QED BY <1>1, <1>3, <1>4, <1>5, <1>6, ApproachKeeps

LEMMA HashTypes ==
    ASSUME MemoryTypes, NEW b \in BundleIds \cup {None}
    PROVE  HashOf(b) \in Nat
  BY DEF MemoryTypes, HashOf, Bundles

LEMMA ApproveManifestKeeps ==
    ASSUME PlaneInv, NEW m \in Ids, NEW b \in BundleIds \cup {None}, NEW withEnvelope \in BOOLEAN,
           NEW graph \in Nat, ApproveManifest(m, b, withEnvelope, graph)
    PROVE  PlaneInv'
<1>1. PICK x : x = [policy   |-> HashOf(b),
                    envelope |-> IF withEnvelope THEN envelope ELSE 0,
                    graph    |-> graph, quorum |-> 0]
  OBVIOUS
<1>2. x \in Bindings /\ x.quorum = 0
  BY <1>1, HashTypes DEF PlaneInv, MemoryTypes, Bindings
<1>3. m \in known /\ Moves(m, "authorized") /\ Register(m, x)
  BY <1>1 DEF ApproveManifest
<1> QED BY <1>2, <1>3, RegisterKeeps

LEMMA ApproveWithQuorumKeeps ==
    ASSUME PlaneInv, NEW m \in Forward, NEW a \in BundleIds, NEW b \in BundleIds \cup {None},
           ApproveWithQuorum(m, a, b)
    PROVE  PlaneInv'
<1>1. PICK x : x = [policy |-> HashOf(b), envelope |-> 0, graph |-> 0, quorum |-> bundles[a].hash]
  OBVIOUS
<1>2. bundles[a].hash \in Nat
  BY DEF ApproveWithQuorum, PlaneInv, MemoryTypes, Bundles
<1>3. x \in Bindings /\ x.quorum = bundles[a].hash
  BY <1>1, <1>2, HashTypes DEF PlaneInv, Bindings
<1>4. m \in known /\ Moves(m, "authorized") /\ Register(m, x) /\ m \in Ids
  BY <1>1 DEF ApproveWithQuorum, Ids
<1>5. Cardinality(Behind(m, x.quorum)) >= Required
  BY <1>3 DEF ApproveWithQuorum, Quorum, Behind
<1> QED BY <1>3, <1>4, <1>5, RegisterKeeps

LEMMA AuthorizeCompensationKeeps ==
    ASSUME PlaneInv, NEW o \in Ids, NEW c \in Comps, AuthorizeCompensation(o, c)
    PROVE  PlaneInv'
<1>1. PICK x : x = [policy |-> 0, envelope |-> 0, graph |-> 0, quorum |-> 0]
  OBVIOUS
<1>2. x \in Bindings /\ x.quorum = 0
  BY <1>1 DEF Bindings
<1>3. c \in known /\ Moves(c, "authorized") /\ Register(c, x) /\ c \in Ids
  BY <1>1 DEF AuthorizeCompensation, CompensationAuthorizable, Ids
<1> QED BY <1>2, <1>3, RegisterKeeps

LEMMA RevokeGrantKeeps ==
    ASSUME PlaneInv, NEW id \in Ids, RevokeGrant(id)
    PROVE  PlaneInv'
<1>1. /\ slot' = [slot EXCEPT ![id].revoked = TRUE]
      /\ life' = IF IsRevocable(life[id]) THEN [life EXCEPT ![id] = "revoked"] ELSE life
      /\ UNCHANGED <<row, made, known, grants, results, proofs, undone, kill, bundles, envelope, graphs,
                     statements, thread, minted, generation, undid, applied, ran, caught>>
  BY DEF RevokeGrant, memory, history
<1>2. life' \in [Ids -> LifecycleState] /\ \A i \in Ids : Approached(life[i], life'[i])
  <2>1. life[id] # "proposed"
    BY DEF RevokeGrant, PlaneInv, MemoryTypes
  <2> QED BY <1>1, <2>1, StatesNamed DEF PlaneInv, StoreTypes, Approached, IsRevocable
<1>3. slot' \in [Ids -> Slots] /\ \A i \in Ids : slot'[i].reserved = slot[i].reserved
  <2>1. slot[id] \in Slots
    BY DEF PlaneInv, StoreTypes
  <2>2. PICK z : z = [slot[id] EXCEPT !.revoked = TRUE]
    OBVIOUS
  <2>3. z \in Slots /\ z.reserved = slot[id].reserved
    BY <2>1, <2>2 DEF Slots
  <2>4. slot' = [slot EXCEPT ![id] = z]
    BY <1>1, <2>2 DEF PlaneInv, StoreTypes
  <2> QED BY <2>3, <2>4 DEF PlaneInv, StoreTypes
<1>4. MemoryTypes'
  BY <1>1, <1>2 DEF PlaneInv, MemoryTypes, Approached
<1>5. BoundInv'
  BY <1>1, BoundStays DEF PlaneInv
<1> QED BY <1>1, <1>2, <1>3, <1>4, <1>5, ApproachKeeps

(***************************************************************************)
(* A request that leaves everything but the artifacts alone.               *)
(***************************************************************************)
LEMMA MemoryKeeps ==
    ASSUME PlaneInv, MemoryTypes', BoundInv',
           UNCHANGED <<stores, made, results, proofs, undone, kill, thread, generation, undid,
                       applied, caught>>
    PROVE  PlaneInv'
<1>1. UNCHANGED <<row, life, slot>>
  BY DEF stores
<1>2. life' \in [Ids -> LifecycleState] /\ slot' \in [Ids -> Slots]
      /\ \A id \in Ids : Approached(life[id], life'[id]) /\ slot'[id].reserved = slot[id].reserved
  BY <1>1 DEF PlaneInv, StoreTypes, Approached
<1> QED BY <1>1, <1>2, ApproachKeeps

LEMMA StoreBundleKeeps ==
    ASSUME PlaneInv, NEW b \in BundleIds, NEW kind \in {"risk", "approval", "separation"},
           StoreBundle(b, kind)
    PROVE  PlaneInv'
<1>1. PICK x \in Bundles : x = [kind |-> kind, hash |-> minted + 1]
  <2>1. minted + 1 \in Nat
    BY DEF PlaneInv, MemoryTypes
  <2> QED BY <2>1 DEF Bundles
<1>2. /\ bundles' = [bundles EXCEPT ![b] = x] /\ minted' = minted + 1
      /\ UNCHANGED <<stores, made, known, grants, results, proofs, undone, kill, envelope, graphs,
                     statements, thread, generation, undid, applied, ran, caught>>
  BY <1>1 DEF StoreBundle, history
<1>3. MemoryTypes'
  BY <1>2 DEF PlaneInv, MemoryTypes, stores
<1>4. BoundInv'
  BY <1>2, BoundStays DEF PlaneInv
<1> QED BY <1>2, <1>3, <1>4, MemoryKeeps

LEMMA CreateEnvelopeKeeps ==
    ASSUME PlaneInv, CreateEnvelope
    PROVE  PlaneInv'
<1>1. /\ envelope' = minted + 1 /\ minted' = minted + 1
      /\ UNCHANGED <<stores, made, known, grants, results, proofs, undone, kill, bundles, graphs,
                     statements, thread, generation, undid, applied, ran, caught>>
  BY DEF CreateEnvelope, history
<1>2. MemoryTypes'
  BY <1>1 DEF PlaneInv, MemoryTypes, stores
<1>3. BoundInv'
  BY <1>1, BoundStays DEF PlaneInv
<1> QED BY <1>1, <1>2, <1>3, MemoryKeeps

LEMMA CreateGraphKeeps ==
    ASSUME PlaneInv, NEW m \in Forward, CreateGraph(m)
    PROVE  PlaneInv'
<1>1. /\ graphs' = graphs \cup {minted + 1} /\ minted' = minted + 1
      /\ UNCHANGED <<stores, made, known, grants, results, proofs, undone, kill, bundles, envelope,
                     statements, thread, generation, undid, applied, ran, caught>>
  BY DEF CreateGraph, history
<1>2. MemoryTypes'
  BY <1>1 DEF PlaneInv, MemoryTypes, stores
<1>3. BoundInv'
  BY <1>1, BoundStays DEF PlaneInv
<1> QED BY <1>1, <1>2, <1>3, MemoryKeeps

(***************************************************************************)
(* A later statement of an approver takes the place of an earlier one of   *)
(* the same approver: nobody disappears from behind a quorum.              *)
(***************************************************************************)
LEMMA SubmitApprovalKeeps ==
    ASSUME PlaneInv, NEW m \in Forward, NEW b \in BundleIds, NEW who \in Approvers,
           NEW decision \in Decisions, SubmitApproval(m, b, who, decision)
    PROVE  PlaneInv'
<1>1. PICK s : /\ s = [manifest |-> m, by |-> who, hash |-> bundles[b].hash, decision |-> decision]
               /\ statements' = {t \in statements :
                                   ~(t.manifest = m /\ t.by = who /\ t.hash = s.hash)} \cup {s}
  BY DEF SubmitApproval
<1>2. UNCHANGED <<stores, made, known, grants, results, proofs, undone, kill, bundles, envelope,
                  graphs, thread, minted, generation, undid, applied, ran, caught>>
  BY DEF SubmitApproval, history
<1>3. s.manifest = m /\ s.by = who
  BY <1>1
<1>4. MemoryTypes'
  BY <1>2 DEF PlaneInv, MemoryTypes, stores
<1>5. IsFiniteSet(statements')
  <2>1. IsFiniteSet({t \in statements : ~(t.manifest = m /\ t.by = who /\ t.hash = s.hash)})
    BY FS_Subset DEF PlaneInv, BoundInv
  <2> QED BY <1>1, <2>1, FS_AddElement
<1>6. ASSUME NEW k \in Forward, NEW hash, Cardinality(Behind(k, hash)) >= Required
      PROVE  Cardinality(Behind(k, hash)') >= Required
  <2>1. Behind(k, hash) \subseteq Behind(k, hash)'
    <3> SUFFICES ASSUME NEW t \in statements, t.manifest = k, t.hash = hash
                 PROVE  \E x \in statements' : x.manifest = k /\ x.hash = hash /\ x.by = t.by
      BY DEF Behind
    <3>1. CASE t.manifest = m /\ t.by = who /\ t.hash = s.hash
      BY <1>1, <1>3, <3>1
    <3>2. CASE ~(t.manifest = m /\ t.by = who /\ t.hash = s.hash)
      BY <1>1, <3>2
    <3> QED BY <3>1, <3>2
  <2>2. IsFiniteSet(Behind(k, hash)')
    <3>1. IsFiniteSet({x \in statements' : x.manifest = k /\ x.hash = hash})
      BY <1>5, FS_Subset
    <3>2. PICK A : A = {x \in statements' : x.manifest = k /\ x.hash = hash} /\ IsFiniteSet(A)
      BY <3>1
    <3>3. [x \in A |-> x.by] \in Surjection(A, {x.by : x \in A})
      BY DEF Surjection
    <3>4. IsFiniteSet({x.by : x \in A})
      BY <3>2, <3>3, FS_Surjection
    <3> QED BY <3>2, <3>4 DEF Behind
  <2>3. /\ Cardinality(Behind(k, hash)) <= Cardinality(Behind(k, hash)')
        /\ Cardinality(Behind(k, hash)') \in Nat
        /\ Cardinality(Behind(k, hash)) \in Nat
    BY <2>1, <2>2, FS_Subset, FS_CardinalityType
  <2> QED BY <1>6, <2>3, ControlPlaneAssumption
<1>7. BoundInv'
  BY <1>2, <1>5, <1>6 DEF PlaneInv, BoundInv
<1> QED BY <1>2, <1>4, <1>7, MemoryKeeps

(***************************************************************************)
(* The switch.                                                             *)
(***************************************************************************)
LEMMA SwitchKeeps ==
    ASSUME PlaneInv, KillSwitchEngage \/ KillSwitchDisengage
    PROVE  PlaneInv'
<1>1. UNCHANGED <<stores, made, known, grants, results, proofs, undone, bundles, envelope, graphs,
                  statements, thread, minted, generation, undid, applied, ran>>
  BY DEF KillSwitchEngage, KillSwitchDisengage
<1>2. CaughtInv'
  BY <1>1 DEF KillSwitchEngage, KillSwitchDisengage, CaughtInv
<1>3. UNCHANGED <<row, life, slot>>
  BY <1>1 DEF stores
<1>4. Grows
  BY <1>1, <1>3 DEF Grows
<1>5. JobsInv'
  BY <1>1, <1>3, <1>4, AllSpared, JobsStay DEF PlaneInv
<1>6. StoreTypes' /\ MemoryTypes'
  BY <1>1, <1>3 DEF PlaneInv, StoreTypes, MemoryTypes
<1>7. RowInv' /\ OnceInv'
  BY <1>1, <1>3, <1>4, RowStays, OnceStays DEF PlaneInv
<1>8. ToldInv' /\ BoundInv'
  BY <1>1, <1>3, <1>4, ToldUnmoved, BoundStays DEF PlaneInv
<1> QED BY <1>2, <1>5, <1>6, <1>7, <1>8 DEF PlaneInv

(***************************************************************************)
(* A restart: the stores and the histories stay, and nobody is at work.    *)
(***************************************************************************)
LEMMA RestartKeeps ==
    ASSUME PlaneInv, RestartPlane
    PROVE  PlaneInv'
<1>1. /\ UNCHANGED <<row, life, slot, made, minted, generation, undid, applied, ran>>
      /\ known' = {} /\ grants' = [id \in Ids |-> None] /\ results' = [id \in Ids |-> None]
      /\ proofs' = [id \in Ids |-> None] /\ undone' = [id \in Ids |-> None]
      /\ kill' = FALSE /\ bundles' = [b \in BundleIds |-> None] /\ envelope' = 0 /\ graphs' = {}
      /\ statements' = {} /\ thread' = [t \in Threads |-> Idle]
  BY DEF RestartPlane, stores
<1>2. StoreTypes' /\ MemoryTypes'
  BY <1>1 DEF PlaneInv, StoreTypes, MemoryTypes
<1>3. Grows
  BY <1>1 DEF Grows
<1>4. RowInv' /\ OnceInv'
  BY <1>1, <1>3, RowStays, OnceStays DEF PlaneInv
<1>5. JobsInv'
  BY <1>1 DEF JobsInv, Jobs, JobSays, Apart, Idle
<1>6. ToldInv'
  BY <1>1, ControlPlaneAssumption DEF PlaneInv, ToldInv, Happened
<1>7. BoundInv'
  BY <1>1, FS_EmptySet DEF PlaneInv, BoundInv, Ids
<1>8. CaughtInv'
  BY <1>1 DEF CaughtInv
<1> QED BY <1>2, <1>4, <1>5, <1>6, <1>7, <1>8 DEF PlaneInv

(***************************************************************************)
(* A manifest is prepared and sealed.                                      *)
(***************************************************************************)
LEMMA SealKeeps ==
    ASSUME PlaneInv, NEW m \in Ids, NEW x, life[m] = "proposed",
           m \in Forward => x \in RowManifests, m \in Comps => x \in CompManifests,
           m \in Forward /\ x.effect.operation # "insert" =>
              /\ x.saw = generation
              /\ ~row.here \/ (x.effect.version = row.version /\ row.balance = x.effect.previous),
           made' = [made EXCEPT ![m] = x], life' = [life EXCEPT ![m] = "sealed"],
           known' = known \cup {m},
           UNCHANGED <<row, slot, grants, results, proofs, undone, kill, bundles, envelope, graphs,
                       statements, thread, minted, generation, undid, applied, ran, caught>>
    PROVE  PlaneInv'
<1>1. /\ life'[m] = "sealed" /\ made'[m] = x
      /\ \A id \in Ids \ {m} : life'[id] = life[id] /\ made'[id] = made[id]
      /\ life' \in [Ids -> LifecycleState] /\ DOMAIN made' = Ids
  BY StatesNamed DEF PlaneInv, StoreTypes
<1>2. Grows
  BY <1>1 DEF Grows
<1>3. StoreTypes'
  BY <1>1 DEF PlaneInv, StoreTypes, Ids
<1>4. MemoryTypes'
  BY <1>1 DEF PlaneInv, MemoryTypes
<1>5. RowInv'
  <2>1. ASSUME NEW k \in Forward, life'[k] # "proposed", made'[k].effect.operation # "insert"
        PROVE  made'[k].saw <= generation' /\ (made'[k].saw = generation' => Current(k)')
    <3>1. CASE k = m
      BY <1>1, <2>1, <3>1 DEF Current, PlaneInv, StoreTypes
    <3>2. CASE k # m
      BY <1>1, <2>1, <3>2 DEF Current, PlaneInv, RowInv, Ids
    <3> QED BY <3>1, <3>2
  <2>2. ASSUME NEW a \in applied
        PROVE  a.id \in Forward /\ life'[a.id] # "proposed" /\ BuildsOnWhatItRead(a)'
    BY <1>1 DEF PlaneInv, RowInv, BuildsOnWhatItRead, Ids
  <2> QED BY <2>1, <2>2 DEF RowInv
<1>6. JobsInv'
  BY <1>1, <1>2, AllSpared, JobsStay DEF PlaneInv
<1>7. OnceInv'
  BY <1>1, <1>2, OnceStays DEF PlaneInv, Early
<1>8. ToldInv'
  BY <1>1, <1>2, ToldUnmoved DEF PlaneInv
<1>9. BoundInv'
  BY BoundStays DEF PlaneInv
<1>10. CaughtInv'
  BY DEF PlaneInv, CaughtInv
<1> QED BY <1>3, <1>4, <1>5, <1>6, <1>7, <1>8, <1>9, <1>10 DEF PlaneInv

LEMMA PrepareManifestKeeps ==
    ASSUME PlaneInv, NEW m \in Forward, NEW operation \in Operations, NEW new \in Balances,
           PrepareManifest(m, operation, new)
    PROVE  PlaneInv'
<1>1. PICK e \in Effects : /\ e = PrepareRow(operation, new, row)
                           /\ operation # "insert" => e.version = row.version /\ e.previous = row.balance
  BY Preparation DEF PlaneInv, StoreTypes
<1>2. PICK x : x = [effect |-> e, of |-> None, saw |-> generation]
  OBVIOUS
<1>3. x \in RowManifests /\ x.effect = e /\ x.saw = generation /\ e.operation = operation
  BY <1>1, <1>2 DEF RowManifests, PlaneInv, StoreTypes, PrepareRow
<1>4. m \in Ids /\ m \notin Comps
  BY ControlPlaneAssumption DEF Ids
<1>5. /\ life[m] = "proposed"
      /\ made' = [made EXCEPT ![m] = x] /\ life' = [life EXCEPT ![m] = "sealed"]
      /\ known' = known \cup {m}
      /\ UNCHANGED <<row, slot, grants, results, proofs, undone, kill, bundles, envelope, graphs,
                     statements, thread, minted, generation, undid, applied, ran, caught>>
  BY <1>1, <1>2 DEF PrepareManifest, history
<1> QED BY <1>1, <1>3, <1>4, <1>5, SealKeeps

LEMMA PrepareCompensationKeeps ==
    ASSUME PlaneInv, NEW o \in Ids, NEW c \in Comps, PrepareCompensation(o, c)
    PROVE  PlaneInv'
<1>1. PICK x : x = CompensationOf(o)
  OBVIOUS
<1>2. x \in CompManifests
  BY <1>1 DEF CompensationOf, CompManifests
<1>3. c \in Ids /\ c \notin Forward
  BY ControlPlaneAssumption DEF Ids
<1>4. /\ life[c] = "proposed"
      /\ made' = [made EXCEPT ![c] = x] /\ life' = [life EXCEPT ![c] = "sealed"]
      /\ known' = known \cup {c}
      /\ UNCHANGED <<row, slot, grants, results, proofs, undone, kill, bundles, envelope, graphs,
                     statements, thread, minted, generation, undid, applied, ran, caught>>
  BY <1>1 DEF PrepareCompensation, SealCompensation, history
<1> QED BY <1>2, <1>3, <1>4, SealKeeps

-----------------------------------------------------------------------------
(* execute_manifest.                                                       *)

(***************************************************************************)
(* A thread takes up a request, or answers one, and nothing else happens.  *)
(***************************************************************************)
LEMMA ThreadKeeps ==
    ASSUME PlaneInv, NEW t \in Threads, NEW n \in Jobs, thread' = [thread EXCEPT ![t] = n],
           JobSays(n)', n.at \notin {"reserved", "compensating"},
           UNCHANGED <<stores, made, memory, minted, generation, undid, applied, ran>>,
           CaughtInv'
    PROVE  PlaneInv'
<1>1. UNCHANGED <<row, life, slot, known, grants, results, proofs, undone, bundles, envelope, graphs,
                  statements>>
  BY DEF stores, memory
<1>2. Grows
  BY <1>1 DEF Grows
<1>3. \A d \in Threads \ {t} : Spares(thread[d]) /\ Apart(n, thread[d])
  BY <1>1, AllSpared DEF PlaneInv, Apart
<1>4. JobsInv'
  BY <1>2, <1>3, JobsKeep DEF PlaneInv
<1>5. StoreTypes' /\ MemoryTypes'
  BY <1>1 DEF PlaneInv, StoreTypes, MemoryTypes
<1>6. RowInv' /\ OnceInv'
  BY <1>1, <1>2, RowStays, OnceStays DEF PlaneInv
<1>7. ToldInv' /\ BoundInv'
  BY <1>1, <1>2, ToldUnmoved, BoundStays DEF PlaneInv
<1> QED BY <1>4, <1>5, <1>6, <1>7 DEF PlaneInv

LEMMA ExecuteKeeps ==
    ASSUME PlaneInv, NEW t \in Threads, NEW m \in Ids, NEW shown \in Shown, Execute(t, m, shown)
    PROVE  PlaneInv'
<1>1. PICK g \in Bindings : g = grants[m]
  BY DEF Execute, PlaneInv, MemoryTypes
<1>2. PICK n : n = [at |-> "entered", id |-> m, shown |-> shown, grant |-> g]
  OBVIOUS
<1>3. n \in Jobs /\ n.at = "entered" /\ n.id = m
  BY <1>2 DEF Jobs, CommitJobs
<1>4. /\ thread' = [thread EXCEPT ![t] = n] /\ ~kill /\ m \in known
      /\ UNCHANGED <<stores, made, memory, minted, generation, undid, applied, ran>>
  BY <1>1, <1>2 DEF Execute, history, KillSwitchOff
<1>5. JobSays(n)'
  BY <1>3, <1>4 DEF JobSays, PlaneInv, MemoryTypes, stores
<1>6. CaughtInv'
  BY <1>4 DEF CaughtInv, memory
<1> QED BY <1>3, <1>4, <1>5, <1>6, ThreadKeeps

(***************************************************************************)
(* A thread that answers was caught, and all the others still are.         *)
(***************************************************************************)
LEMMA CaughtLasts ==
    ASSUME PlaneInv, NEW t \in Threads, NEW n, thread' = [thread EXCEPT ![t] = n], kill' = kill,
           thread[t] # Idle,
           \/ caught' = caught
           \/ n = Idle /\ caught' = caught \ {t}
    PROVE  CaughtInv'
<1>1. thread'[t] = n /\ \A d \in Threads \ {t} : thread'[d] = thread[d]
  BY DEF PlaneInv, JobsInv
<1> QED BY <1>1 DEF PlaneInv, CaughtInv

LEMMA AnswerKeeps ==
    ASSUME PlaneInv, NEW t \in Threads, Answer(t), thread[t] # Idle,
           UNCHANGED <<stores, made, memory, minted, generation, undid, applied, ran>>
    PROVE  PlaneInv'
<1>1. CaughtInv'
  BY CaughtLasts DEF Answer, memory
<1> QED BY <1>1, IdleJob, ThreadKeeps DEF Answer, Idle

LEMMA AtWork ==
    ASSUME NEW t \in Threads, JobsInv, thread[t].at # "idle"
    PROVE  /\ thread[t] # Idle /\ thread[t] \in Jobs /\ thread[t].id \in Ids
           /\ JobSays(thread[t]) /\ life[thread[t].id] # "proposed"
<1>1. PICK x \in Jobs : x = thread[t] /\ JobSays(x)
  BY DEF JobsInv
<1> QED BY <1>1, JobIds DEF JobSays

(***************************************************************************)
(* A step of a commit, on a manifest of a row: whatever it does to the     *)
(* slot and the state of its manifest, no compensation notices.            *)
(***************************************************************************)
\* The thread t goes on with n, the manifest m to the state s and its slot to z.
CommitStep(t, n, m, z, s) ==
    /\ t \in Threads /\ thread[t] # Idle
    /\ n \in Jobs /\ JobSays(n)' /\ n.at \notin {"reserved", "compensating"}
    /\ m \in Forward /\ life[m] # "proposed"
    /\ z \in Slots
    /\ s \in LifecycleState \ {"proposed"}
    /\ thread' = [thread EXCEPT ![t] = n]
    /\ slot' = [slot EXCEPT ![m] = z]
    /\ life' = [life EXCEPT ![m] = s]
    /\ caught' = caught \/ (n = Idle /\ caught' = caught \ {t})
    /\ row' \in Rows /\ generation' \in Nat
    /\ RowInv' /\ Grows
    /\ UNCHANGED <<made, known, grants, undone, kill, bundles, envelope, graphs, statements, minted,
                   undid>>
    /\ \A id \in Ids : Told(id)'
    /\ \A r \in ran' : \A k \in DOMAIN Nothing : r.grant[k] \in {0, r.shown[k]}
    /\ DOMAIN results' = Ids /\ DOMAIN proofs' = Ids

LEMMA CommitStepKeeps ==
    ASSUME PlaneInv, NEW t, NEW n, NEW m, NEW z, NEW s, CommitStep(t, n, m, z, s)
    PROVE  PlaneInv'
<1> USE DEF CommitStep
<1>1. /\ life' \in [Ids -> LifecycleState] /\ slot' \in [Ids -> Slots] /\ m \in Ids /\ m \notin Comps
      /\ \A id \in Ids \ {m} : life'[id] = life[id] /\ slot'[id] = slot[id]
      /\ life'[m] = s
  BY ControlPlaneAssumption DEF PlaneInv, StoreTypes, Ids
<1>2. StoreTypes'
  BY <1>1 DEF PlaneInv, StoreTypes, Ids
<1>3. MemoryTypes'
  BY <1>1 DEF PlaneInv, MemoryTypes
<1>4. ASSUME NEW d \in Threads PROVE Spares(thread[d])
  <2>1. PICK x \in Jobs : x = thread[d] /\ JobSays(x)
    BY DEF PlaneInv, JobsInv
  <2>2. x.at \in {"reserved", "compensating"} => x.id \in Ids \ {m}
    BY <1>1, <2>1, JobIds DEF JobSays
  <2>3. Spares(x)
    BY <1>1, <2>1, <2>2 DEF Spares, JobSays
  <2> QED BY <2>1, <2>3
<1>5. JobsInv'
  BY <1>4, JobsKeep DEF PlaneInv, Apart
<1>6. OnceInv'
  BY <1>1 DEF PlaneInv, OnceInv, Ids
<1>7. ToldInv'
  BY ToldAll
<1>8. BoundInv'
  BY DEF PlaneInv, BoundInv, Behind
<1>9. CaughtInv'
  BY CaughtLasts
<1> QED BY <1>2, <1>3, <1>5, <1>6, <1>7, <1>8, <1>9 DEF PlaneInv

(***************************************************************************)
(* What happens to the row keeps RowInv: the version only rises within a   *)
(* generation, and an insert begins a new one.                             *)
(***************************************************************************)
LEMMA RowMoves ==
    ASSUME StoreTypes, RowInv, row' \in Rows, made' = made,
           \A k \in Forward : life'[k] # "proposed" <=> life[k] # "proposed",
           \/ row' = row /\ generation' = generation
           \/ ~row'.here /\ generation' = generation
           \/ ~row.here /\ row'.here /\ generation' = generation + 1
           \/ row.here /\ row'.here /\ row'.version = row.version + 1 /\ generation' = generation,
           \A a \in applied' : a \in applied \/ (a.id \in Forward /\ life[a.id] # "proposed"
                                                 /\ BuildsOnWhatItRead(a))
    PROVE  RowInv' /\ generation' \in Nat
<1>1. generation \in Nat /\ row.version \in Nat
  BY DEF StoreTypes, Rows
<1>2. ASSUME NEW m \in Forward, life'[m] # "proposed", made[m].effect.operation # "insert"
      PROVE  made[m].saw <= generation' /\ (made[m].saw = generation' => Current(m)')
  <2>1. made[m] \in RowManifests
    BY <1>2 DEF StoreTypes
  <2>2. made[m].saw \in Nat /\ made[m].effect.version \in Nat
    BY <2>1 DEF RowManifests, Effects
  <2>3. made[m].saw <= generation /\ (made[m].saw = generation => Current(m))
    BY <1>2 DEF RowInv
  <2> QED BY <1>1, <2>2, <2>3 DEF Current
<1>3. \A a : BuildsOnWhatItRead(a) => BuildsOnWhatItRead(a)'
  BY DEF BuildsOnWhatItRead
<1> QED BY <1>1, <1>2, <1>3 DEF RowInv

LEMMA CommittedRow ==
    ASSUME StoreTypes, RowInv, NEW m \in Forward, life[m] # "proposed",
           NEW d, d = CommitRow(made[m].effect, row), row' = d.row,
           generation' = IF d.row.here /\ ~row.here THEN generation + 1 ELSE generation,
           applied' = IF d.success THEN applied \cup {[id |-> m, found |-> row, in |-> generation]}
                      ELSE applied,
           made' = made, \A k \in Forward : life'[k] # "proposed" <=> life[k] # "proposed"
    PROVE  RowInv' /\ generation' \in Nat /\ row' \in Rows
<1>1. made[m] \in RowManifests /\ row \in Rows
  BY DEF StoreTypes
<1>2. PICK e \in Effects : e = made[m].effect
  BY <1>1 DEF RowManifests
<1>3. /\ d.row \in Rows /\ d.success \in BOOLEAN
      /\ ~d.success => d.row = row
      /\ d.success /\ e.operation # "insert" => row.here /\ row.version = e.version
      /\ \/ d.row = row
         \/ ~d.row.here
         \/ ~row.here /\ d.row.here
         \/ row.here /\ d.row.here /\ d.row.version = row.version + 1
  BY <1>1, <1>2, Commitment
<1>4. ASSUME d.success PROVE BuildsOnWhatItRead([id |-> m, found |-> row, in |-> generation])
  <2>1. row.version \in Nat /\ e.version \in Nat
    BY <1>1 DEF Rows, Effects
  <2> QED BY <1>2, <1>3, <1>4, <2>1 DEF RowInv, Current, BuildsOnWhatItRead
<1>5. \A a \in applied' : a \in applied \/ (a.id \in Forward /\ life[a.id] # "proposed"
                                            /\ BuildsOnWhatItRead(a))
  BY <1>4
<1>6. \/ row' = row /\ generation' = generation
      \/ ~row'.here /\ generation' = generation
      \/ ~row.here /\ row'.here /\ generation' = generation + 1
      \/ row.here /\ row'.here /\ row'.version = row.version + 1 /\ generation' = generation
  BY <1>3
<1> QED BY <1>3, <1>5, <1>6, RowMoves

\* One state moves, on to one that tells of no effect.
LEMMA ToldQuiet ==
    ASSUME PlaneInv, Grows, NEW m \in Ids, NEW s \in {"committing", "failed"},
           life' = [life EXCEPT ![m] = s], UNCHANGED <<results, proofs, undone>>
    PROVE  \A id \in Ids : Told(id)'
<1>1. \A id \in Ids : \/ life'[id] = life[id]
                      \/ life'[id] \notin {"committed", "verified", "compensating", "compensated"}
  BY DEF PlaneInv, StoreTypes
<1>2. ToldInv'
  BY <1>1, ToldUnmoved DEF PlaneInv
<1> QED BY <1>2 DEF ToldInv, Told

LEMMA CommitEnterKeeps ==
    ASSUME PlaneInv, NEW t \in Threads, CommitEnter(t)
    PROVE  PlaneInv'
<1>1. PICK x \in CommitJobs : /\ x = thread[t] /\ x.at = "entered" /\ thread[t] # Idle
                              /\ x.id \in Ids /\ life[x.id] # "proposed"
  BY AtWork, JobIds DEF CommitEnter, PlaneInv
<1>2. UNCHANGED <<row, made, memory, minted, generation, undid, applied>>
  BY DEF CommitEnter
<1>3. CASE Admitted(x) /\ Reservable(x.id) /\ Moves(x.id, "committing")
  <2>1. /\ slot' = [slot EXCEPT ![x.id].reserved = TRUE]
        /\ life' = [life EXCEPT ![x.id] = "committing"]
        /\ thread' = [thread EXCEPT ![t].at = "committing"]
        /\ ran' = ran \cup {[id |-> x.id, grant |-> x.grant, shown |-> x.shown]}
        /\ UNCHANGED caught
    BY <1>1, <1>3 DEF CommitEnter
  <2>2. PICK m \in Forward : m = x.id /\ m \in Ids
    BY <1>1, <1>3 DEF Admitted
  <2>3. PICK n : n = [x EXCEPT !.at = "committing"]
    OBVIOUS
  <2>4. /\ n \in CommitJobs /\ n.at = "committing" /\ n.id = m
        /\ thread' = [thread EXCEPT ![t] = n]
    BY <1>1, <2>1, <2>2, <2>3 DEF PlaneInv, JobsInv, CommitJobs
  <2>5. PICK z \in Slots : z = [slot[m] EXCEPT !.reserved = TRUE]
    BY <2>2 DEF PlaneInv, StoreTypes, Slots
  <2>6. slot' = [slot EXCEPT ![m] = z] /\ life' = [life EXCEPT ![m] = "committing"]
    BY <2>1, <2>2, <2>5 DEF PlaneInv, StoreTypes
  <2>7. /\ UNCHANGED <<made, known, grants, results, undone, proofs, kill, bundles, envelope, graphs,
                       statements, minted, undid>>
        /\ \A id \in Ids : life[id] # "proposed" <=> life'[id] # "proposed"
    BY <1>1, <1>2, <2>2, <2>6 DEF memory, PlaneInv, StoreTypes
  <2>8. Grows
    BY <1>2, <2>7 DEF Grows
  <2>9. RowInv'
    BY <1>2, <2>7, <2>8, RowStays DEF PlaneInv, Ids
  <2>10. JobSays(n)'
    BY <1>1, <2>2, <2>4, <2>7 DEF JobSays
  <2>11. \A r \in ran' : \A k \in DOMAIN Nothing : r.grant[k] \in {0, r.shown[k]}
    <3>1. \A k \in DOMAIN Nothing : x.grant[k] \in {0, x.shown[k]}
      BY <1>3 DEF Admitted, Shows
    <3> QED BY <2>1, <3>1 DEF PlaneInv, BoundInv
  <2>12. \A id \in Ids : Told(id)'
    BY <2>2, <2>6, <2>7, <2>8, ToldQuiet
  <2>13. "committing" \in LifecycleState /\ n \in Jobs /\ DOMAIN results' = Ids
         /\ DOMAIN proofs' = Ids /\ row' \in Rows /\ generation' \in Nat
    BY <1>2, <2>4, <2>7, StatesNamed DEF Jobs, PlaneInv, MemoryTypes, StoreTypes
  <2>14. PICK s \in LifecycleState : s = "committing"
    BY <2>13
  <2>15. CommitStep(t, n, m, z, s)
    BY <1>1, <2>1, <2>2, <2>4, <2>5, <2>6, <2>7, <2>8, <2>9, <2>10, <2>11, <2>12, <2>13, <2>14
       DEF CommitStep
  <2> QED BY <2>15, CommitStepKeeps
<1>4. CASE ~(Admitted(x) /\ Reservable(x.id) /\ Moves(x.id, "committing"))
  <2>1. Answer(t) /\ UNCHANGED <<slot, life, ran>>
    BY <1>1, <1>4 DEF CommitEnter
  <2>2. UNCHANGED stores
    BY <1>2, <2>1 DEF stores
  <2> QED BY <1>1, <1>2, <2>1, <2>2, AnswerKeeps
<1> QED BY <1>3, <1>4

(***************************************************************************)
(* The attempt ends in FAILED, whatever it did to the row.                 *)
(***************************************************************************)
LEMMA FailedKeeps ==
    ASSUME PlaneInv, NEW t \in Threads, thread[t].at \in {"committing", "checked"}, Failed(t),
           UNCHANGED <<made, memory, minted, undid, ran>>, applied \subseteq applied',
           row' \in Rows, generation' \in Nat, RowInv'
    PROVE  PlaneInv'
<1>1. PICK m \in Forward : m = thread[t].id /\ m \in Ids /\ life[m] # "proposed" /\ thread[t] # Idle
  BY AtWork DEF PlaneInv, JobSays
<1>2. slot' = [slot EXCEPT ![m].reserved = FALSE] /\ life' = [life EXCEPT ![m] = "failed"]
      /\ thread' = [thread EXCEPT ![t] = Idle] /\ caught' = caught \ {t}
  BY <1>1 DEF Failed, Answer
<1>3. PICK z \in Slots : z = [slot[m] EXCEPT !.reserved = FALSE]
  BY <1>1 DEF PlaneInv, StoreTypes, Slots
<1>4. slot' = [slot EXCEPT ![m] = z]
  BY <1>1, <1>2, <1>3 DEF PlaneInv, StoreTypes
<1>5. UNCHANGED <<known, grants, results, undone, proofs, kill, bundles, envelope, graphs, statements>>
  BY DEF memory
<1>6. Grows
  BY <1>1, <1>2 DEF Grows, PlaneInv, StoreTypes
<1>7. \A id \in Ids : Told(id)'
  BY <1>1, <1>2, <1>5, <1>6, ToldQuiet
<1>8. \A r \in ran' : \A k \in DOMAIN Nothing : r.grant[k] \in {0, r.shown[k]}
  BY DEF PlaneInv, BoundInv
<1>9. DOMAIN results' = Ids /\ DOMAIN proofs' = Ids /\ Idle.at = "idle"
  BY <1>5 DEF PlaneInv, MemoryTypes, Idle
<1>10. PICK s \in LifecycleState : s = "failed"
  BY StatesNamed
<1>11. PICK n \in Jobs : n = Idle /\ JobSays(n)' /\ n.at = "idle"
  BY <1>9, IdleJob
<1>12. CommitStep(t, n, m, z, s)
  BY <1>1, <1>2, <1>3, <1>4, <1>5, <1>6, <1>7, <1>8, <1>9, <1>10, <1>11 DEF CommitStep
<1> QED BY <1>12, CommitStepKeeps

\* The same, where the row was left alone.
LEMMA FailedEarlyKeeps ==
    ASSUME PlaneInv, NEW t \in Threads, thread[t].at \in {"committing", "checked"}, Failed(t),
           UNCHANGED <<row, made, memory, minted, generation, undid, applied, ran>>
    PROVE  PlaneInv'
<1>1. PICK m \in Ids : m = thread[t].id /\ life[m] # "proposed"
  BY AtWork DEF PlaneInv
<1>2. \A id \in Ids : life'[id] # "proposed" <=> life[id] # "proposed"
  BY <1>1 DEF Failed, PlaneInv, StoreTypes
<1>3. Grows
  BY <1>2 DEF Grows
<1>4. RowInv' /\ row' \in Rows /\ generation' \in Nat
  BY <1>2, <1>3, RowStays DEF PlaneInv, StoreTypes, Ids
<1> QED BY <1>4, FailedKeeps

LEMMA CommitCheckKeeps ==
    ASSUME PlaneInv, NEW t \in Threads, CommitCheck(t)
    PROVE  PlaneInv'
<1>1. PICK x \in CommitJobs : /\ x = thread[t] /\ x.at = "committing" /\ thread[t] # Idle
                              /\ x.id \in Forward /\ JobSays(x)
  BY AtWork, JobIds DEF CommitCheck, PlaneInv, JobSays
<1>2. UNCHANGED <<row, made, memory, minted, generation, undid, applied, ran>>
  BY DEF CommitCheck
<1>3. CASE thread' = [thread EXCEPT ![t].at = "checked"] /\ UNCHANGED <<slot, life, caught>>
  <2>1. PICK n : n = [x EXCEPT !.at = "checked"]
    OBVIOUS
  <2>2. n \in Jobs /\ n.at = "checked" /\ n.id = x.id /\ thread' = [thread EXCEPT ![t] = n]
    BY <1>1, <1>3, <2>1 DEF PlaneInv, JobsInv, Jobs, CommitJobs
  <2>3. JobSays(n)'
    BY <1>1, <1>3, <2>2 DEF JobSays
  <2>4. UNCHANGED stores /\ kill' = kill
    BY <1>2, <1>3 DEF stores, memory
  <2>5. CaughtInv'
    BY <1>1, <1>3, <2>2, <2>4, CaughtLasts
  <2> QED BY <1>2, <2>1, <2>2, <2>3, <2>4, <2>5, ThreadKeeps
<1>4. CASE Failed(t)
  BY <1>1, <1>2, <1>4, FailedEarlyKeeps
<1> QED BY <1>3, <1>4 DEF CommitCheck

LEMMA CommitCallKeeps ==
    ASSUME PlaneInv, NEW t \in Threads, CommitCall(t)
    PROVE  PlaneInv'
<1>1. PICK m \in Forward : /\ m = thread[t].id /\ thread[t].at = "checked" /\ thread[t] # Idle
                           /\ m \in Ids /\ life[m] # "proposed"
  BY AtWork DEF CommitCall, PlaneInv, JobSays
<1>2. PICK d : d = CommitRow(made[m].effect, row)
  OBVIOUS
<1>3. UNCHANGED <<made, memory, minted, undid, ran>>
  BY DEF CommitCall
<1>4. CASE Failed(t) /\ UNCHANGED <<row, generation, applied>>
  BY <1>1, <1>3, <1>4, FailedEarlyKeeps
<1>5. CASE /\ row' = d.row
           /\ generation' = IF d.row.here /\ ~row.here THEN generation + 1 ELSE generation
           /\ applied' = IF d.success
                         THEN applied \cup {[id |-> m, found |-> row, in |-> generation]}
                         ELSE applied
           /\ \/ d.success /\ Failed(t)
              \/ /\ thread' = [thread EXCEPT ![t] = [at |-> "called", id |-> m, ok |-> d.success]]
                 /\ UNCHANGED <<life, slot, caught>>
  <2>1. \A id \in Ids : life'[id] # "proposed" <=> life[id] # "proposed"
    BY <1>1, <1>5 DEF Failed, PlaneInv, StoreTypes
  <2>2. RowInv' /\ generation' \in Nat /\ row' \in Rows
    BY <1>1, <1>2, <1>3, <1>5, <2>1, CommittedRow DEF PlaneInv, Ids
  <2>3. applied \subseteq applied'
    BY <1>5
  <2>4. CASE Failed(t)
    BY <1>1, <1>3, <2>2, <2>3, <2>4, FailedKeeps
  <2>5. CASE /\ thread' = [thread EXCEPT ![t] = [at |-> "called", id |-> m, ok |-> d.success]]
             /\ UNCHANGED <<life, slot, caught>>
    <3>1. PICK n : n = [at |-> "called", id |-> m, ok |-> d.success]
      OBVIOUS
    <3>2. d.success \in BOOLEAN
      <4>1. made[m] \in RowManifests /\ row \in Rows
        BY <1>1 DEF PlaneInv, StoreTypes
      <4>2. made[m].effect \in Effects
        BY <4>1 DEF RowManifests
      <4> QED BY <1>2, <4>1, <4>2, Commitment
    <3>3. n \in Jobs /\ n.at = "called" /\ n.id = m /\ n.ok = d.success
      BY <1>1, <3>1, <3>2 DEF Jobs, CalledJobs
    <3>4. JobSays(n)'
      <4>1. d.success => [id |-> m, found |-> row, in |-> generation] \in applied'
        BY <1>5
      <4>2. n.ok => \E a \in applied' : a.id = n.id
        BY <3>3, <4>1
      <4>3. life'[n.id] # "proposed"
        BY <1>1, <2>5, <3>3
      <4> QED BY <1>1, <3>3, <4>2, <4>3 DEF JobSays
    <3>5. PICK z \in Slots : z = slot[m]
      BY <1>1 DEF PlaneInv, StoreTypes
    <3>6. PICK s \in LifecycleState : s = life[m]
      BY <1>1 DEF PlaneInv, StoreTypes
    <3>7. slot' = [slot EXCEPT ![m] = z] /\ life' = [life EXCEPT ![m] = s]
      BY <1>1, <2>5, <3>5, <3>6 DEF PlaneInv, StoreTypes
    <3>8. Grows
      BY <1>3, <2>3, <2>5 DEF Grows
    <3>9. UNCHANGED <<known, grants, results, proofs, undone, kill, bundles, envelope, graphs, statements>>
      BY <1>3 DEF memory
    <3>10. \A id \in Ids : Told(id)'
      <4>1. ToldInv'
        BY <2>5, <3>8, <3>9, ToldUnmoved DEF PlaneInv
      <4> QED BY <4>1 DEF ToldInv, Told
    <3>11. CommitStep(t, n, m, z, s)
      BY <1>1, <1>3, <2>2, <2>5, <3>1, <3>3, <3>4, <3>5, <3>6, <3>7, <3>8, <3>9, <3>10
         DEF CommitStep, PlaneInv, BoundInv, MemoryTypes
    <3> QED BY <3>11, CommitStepKeeps
  <2> QED BY <1>5, <2>4, <2>5
<1> QED BY <1>1, <1>2, <1>4, <1>5 DEF CommitCall

LEMMA CommitFinishKeeps ==
    ASSUME PlaneInv, NEW t \in Threads, CommitFinish(t)
    PROVE  PlaneInv'
<1>1. PICK x \in CalledJobs : /\ x = thread[t] /\ x.at = "called" /\ thread[t] # Idle
                              /\ JobSays(x) /\ x.id \in Forward /\ x.id \in Ids
                              /\ life[x.id] # "proposed"
  BY AtWork, JobIds DEF CommitFinish, PlaneInv, JobSays
<1>2. PICK m \in Forward : m = x.id /\ m \in Ids
  BY <1>1
<1>3. PICK s \in LifecycleState : s = IF x.ok THEN "committed" ELSE "failed"
  BY StatesNamed
<1>4. PICK z : z = [slot[m] EXCEPT !.reserved = FALSE, !.uses = IF x.ok THEN @ + 1 ELSE @]
  OBVIOUS
<1>5. z \in Slots
  <2>1. slot[m] \in Slots
    BY <1>2 DEF PlaneInv, StoreTypes
  <2>2. PICK k \in Nat : k = IF x.ok THEN slot[m].uses + 1 ELSE slot[m].uses
    BY <2>1 DEF Slots
  <2>3. z = [slot[m] EXCEPT !.reserved = FALSE, !.uses = k]
    BY <1>4, <2>1, <2>2 DEF Slots
  <2> QED BY <2>1, <2>3 DEF Slots
<1>6. /\ slot' = [slot EXCEPT ![m] = z] /\ life' = [life EXCEPT ![m] = s]
      /\ results' = [results EXCEPT ![m] = IF x.ok THEN "ok" ELSE "failed"]
      /\ thread' = [thread EXCEPT ![t] = Idle] /\ caught' = caught \ {t}
  <2>1. slot' = [slot EXCEPT ![m].reserved = FALSE, ![m].uses = IF x.ok THEN @ + 1 ELSE @]
    BY <1>1, <1>2 DEF CommitFinish
  <2>2. slot' = [slot EXCEPT ![m] = z]
    BY <1>2, <1>4, <2>1 DEF PlaneInv, StoreTypes
  <2> QED BY <1>1, <1>2, <1>3, <2>2 DEF CommitFinish, Answer
<1>7. UNCHANGED <<row, made, known, grants, proofs, undone, kill, bundles, envelope, graphs, statements,
                  minted, generation, undid, applied, ran>>
  BY DEF CommitFinish
<1>8. \A id \in Ids : life'[id] # "proposed" <=> life[id] # "proposed"
  BY <1>1, <1>2, <1>3, <1>6 DEF PlaneInv, StoreTypes
<1>9. Grows
  BY <1>7, <1>8 DEF Grows
<1>10. RowInv' /\ row' \in Rows /\ generation' \in Nat
  BY <1>7, <1>8, <1>9, RowStays DEF PlaneInv, StoreTypes, Ids
<1>11. x.ok => Happened(m)'
  BY <1>1, <1>2, <1>7 DEF JobSays, Happened
<1>12. ASSUME NEW id \in Ids PROVE Told(id)'
  <2>1. Told(id) /\ (Happened(id) => Happened(id)')
    BY <1>9, HappenedLasts DEF PlaneInv, ToldInv, Told
  <2>2. CASE id = m
    <3>1. /\ life'[m] = IF x.ok THEN "committed" ELSE "failed"
          /\ results'[m] = IF x.ok THEN "ok" ELSE "failed"
      BY <1>2, <1>3, <1>6 DEF PlaneInv, StoreTypes, MemoryTypes
    <3> QED BY <1>7, <1>11, <2>1, <2>2, <3>1 DEF Told
  <2>3. CASE id # m
    <3>1. life'[id] = life[id] /\ results'[id] = results[id]
      BY <1>6, <2>3 DEF PlaneInv, StoreTypes, MemoryTypes
    <3> QED BY <1>7, <2>1, <3>1 DEF Told
  <2> QED BY <2>2, <2>3
<1>13. PICK n \in Jobs : n = Idle /\ JobSays(n)' /\ n.at = "idle"
  BY IdleJob DEF Idle
<1>14. CommitStep(t, n, m, z, s)
  BY <1>1, <1>2, <1>3, <1>5, <1>6, <1>7, <1>9, <1>10, <1>12, <1>13
     DEF CommitStep, PlaneInv, BoundInv, MemoryTypes
<1> QED BY <1>14, CommitStepKeeps

LEMMA VerifyManifestKeeps ==
    ASSUME PlaneInv, NEW m \in Ids, VerifyManifest(m)
    PROVE  PlaneInv'
<1>1. m \in Forward /\ life[m] = "committed"
  BY MovesTo DEF VerifyManifest, Moves
<1>2. PICK p : /\ p \in {"match", "mismatch"} /\ proofs' = [proofs EXCEPT ![m] = p]
               /\ life' = [life EXCEPT ![m] = "verified"]
  BY DEF VerifyManifest
<1>3. UNCHANGED <<row, slot, made, known, grants, results, undone, kill, bundles, envelope, graphs,
                  statements, thread, minted, generation, undid, applied, ran, caught>>
  BY DEF VerifyManifest, history
<1>4. /\ life' \in [Ids -> LifecycleState] /\ DOMAIN proofs' = Ids
      /\ life'[m] = "verified" /\ \A id \in Ids \ {m} : life'[id] = life[id] /\ proofs'[id] = proofs[id]
  BY <1>2, StatesNamed DEF PlaneInv, StoreTypes, MemoryTypes
<1>5. StoreTypes' /\ MemoryTypes'
  BY <1>1, <1>3, <1>4 DEF PlaneInv, StoreTypes, MemoryTypes, Ids
<1>6. Grows
  BY <1>3, <1>4 DEF Grows
<1>7. RowInv' /\ OnceInv'
  <2>1. \A id \in Ids : /\ life'[id] # "proposed" => life[id] # "proposed"
                        /\ life[id] \notin Early => life'[id] \notin Early
    BY <1>1, <1>4 DEF Early
  <2> QED BY <1>3, <1>6, <2>1, RowStays, OnceStays DEF PlaneInv, Ids
<1>8. JobsInv'
  BY <1>1, <1>3, <1>4, <1>6, AllSpared, JobsStay DEF PlaneInv
<1>9. ToldInv'
  <2>1. ASSUME NEW id \in Ids PROVE Told(id)'
    <3>1. Told(id) /\ (Happened(id) => Happened(id)')
      BY <1>6, HappenedLasts DEF PlaneInv, ToldInv, Told
    <3> QED BY <1>1, <1>3, <1>4, <3>1 DEF Told
  <2> QED BY <2>1, ToldAll
<1>10. BoundInv' /\ CaughtInv'
  BY <1>3, BoundStays DEF PlaneInv, CaughtInv
<1> QED BY <1>5, <1>7, <1>8, <1>9, <1>10 DEF PlaneInv

-----------------------------------------------------------------------------
(* execute_compensation.                                                   *)

LEMMA ExecuteCompensationKeeps ==
    ASSUME PlaneInv, NEW t \in Threads, NEW o \in Ids, NEW c \in Comps, ExecuteCompensation(t, o, c)
    PROVE  PlaneInv'
<1>1. PICK g \in Bindings : g = grants[c]
  BY DEF ExecuteCompensation, PlaneInv, MemoryTypes, Ids
<1>2. PICK n : n = [at |-> "asked", id |-> c, of |-> o, grant |-> g]
  OBVIOUS
<1>3. n \in Jobs /\ n.at = "asked" /\ n.id = c /\ n.of = o
  BY <1>2 DEF Jobs, AskedJobs, Ids
<1>4. /\ thread' = [thread EXCEPT ![t] = n] /\ ~kill /\ o \in known /\ c \in known
      /\ UNCHANGED <<stores, made, memory, minted, generation, undid, applied, ran>>
  BY <1>1, <1>2 DEF ExecuteCompensation, history, KillSwitchOff
<1>5. JobSays(n)'
  BY <1>3, <1>4 DEF JobSays, PlaneInv, MemoryTypes, stores
<1>6. CaughtInv'
  BY <1>4 DEF CaughtInv, memory
<1> QED BY <1>3, <1>4, <1>5, <1>6, ThreadKeeps

(***************************************************************************)
(* A step of a compensation: the thread t goes on with n, and the slot of  *)
(* the compensation c to z.                                                *)
(***************************************************************************)
UndoStep(t, n, c, z) ==
    /\ t \in Threads /\ thread[t] # Idle
    /\ n \in Jobs /\ JobSays(n)'
    /\ c \in Comps /\ z \in Slots
    /\ thread' = [thread EXCEPT ![t] = n]
    /\ \A d \in Threads \ {t} : Spares(thread[d]) /\ Apart(n, thread[d])
    /\ slot' = [slot EXCEPT ![c] = z]
    /\ life' \in [Ids -> LifecycleState]
    /\ \A id \in Ids : life'[id] # "proposed" <=> life[id] # "proposed"
    /\ caught' = caught \/ (n = Idle /\ caught' = caught \ {t})
    /\ row' \in Rows /\ RowInv' /\ OnceInv' /\ undid \subseteq undid'
    /\ UNCHANGED <<made, known, grants, proofs, kill, bundles, envelope, graphs, statements, minted,
                   generation, applied, ran>>
    /\ DOMAIN results' = Ids /\ DOMAIN undone' = Ids
    /\ \A id \in Ids : Told(id)'

LEMMA UndoStepKeeps ==
    ASSUME PlaneInv, NEW t, NEW n, NEW c, NEW z, UndoStep(t, n, c, z)
    PROVE  PlaneInv'
<1> USE DEF UndoStep
<1>1. StoreTypes'
  BY DEF PlaneInv, StoreTypes, Ids
<1>2. MemoryTypes'
  BY DEF PlaneInv, MemoryTypes
<1>3. Grows
  BY DEF Grows
<1>4. JobsInv'
  BY <1>3, JobsKeep DEF PlaneInv
<1>5. ToldInv'
  BY ToldAll
<1>6. BoundInv'
  BY BoundStays DEF PlaneInv
<1>7. CaughtInv'
  BY CaughtLasts
<1> QED BY <1>1, <1>2, <1>4, <1>5, <1>6, <1>7 DEF PlaneInv

\* What the thread of a compensation knows.
LEMMA Undoer ==
    ASSUME PlaneInv, NEW t \in Threads,
           thread[t].at \in {"asked", "reserved", "compensating", "undone"}
    PROVE  /\ thread[t] # Idle /\ thread[t] \in Jobs /\ JobSays(thread[t])
           /\ thread[t].id \in Comps /\ thread[t].id \in Ids /\ thread[t].id \notin Forward
           /\ thread[t].of \in Ids
           /\ life[thread[t].id] # "proposed" /\ life[thread[t].of] # "proposed"
           /\ made[thread[t].id] \in CompManifests
<1>1. PICK x \in Jobs : x = thread[t] /\ JobSays(x) /\ x # Idle
  BY AtWork DEF PlaneInv
<1> QED BY <1>1, JobIds, ControlPlaneAssumption DEF JobSays, PlaneInv, StoreTypes, Ids

\* Nobody else holds the slot of c, and a step that leaves all but c alone
\* spares the others.
LEMMA OthersSpared ==
    ASSUME PlaneInv, NEW c \in Ids, NEW d \in Threads,
           thread[d].at \in {"reserved", "compensating"} => thread[d].id # c,
           \A id \in Ids \ {c} : slot[id].reserved => slot'[id].reserved,
           \A id \in Ids \ {c} : life[id] = "committing" => life'[id] = "committing",
           \A u \in undid' : u \in undid \/ u.by = c
    PROVE  Spares(thread[d])
<1>1. PICK x \in Jobs : x = thread[d] /\ JobSays(x)
  BY DEF PlaneInv, JobsInv
<1>2. Spares(x)
  BY <1>1, JobIds DEF Spares, JobSays
<1> QED BY <1>1, <1>2

LEMMA CompensateEnterKeeps ==
    ASSUME PlaneInv, NEW t \in Threads, CompensateEnter(t)
    PROVE  PlaneInv'
<1>1. PICK x \in Jobs : /\ x = thread[t] /\ x.at = "asked" /\ thread[t] # Idle /\ JobSays(x)
                        /\ x.id \in Comps /\ x.id \in Ids /\ x.of \in Ids
                        /\ life[x.id] # "proposed" /\ life[x.of] # "proposed"
  BY Undoer DEF CompensateEnter
<1>2. UNCHANGED <<row, made, memory, minted, generation, undid, applied, ran>>
  BY DEF CompensateEnter
<1>3. CASE CompensationAdmitted(x) /\ Reservable(x.id)
  <2>1. /\ slot' = [slot EXCEPT ![x.id].reserved = TRUE]
        /\ life' = IF life[x.of] = "verified"
                   THEN [life EXCEPT ![x.of] = "compensating"] ELSE life
        /\ thread' = [thread EXCEPT ![t] = [at |-> "reserved", id |-> x.id, of |-> x.of,
                                            was |-> life[x.of]]]
        /\ UNCHANGED caught
    BY <1>1, <1>3 DEF CompensateEnter
  <2>2. PICK z \in Slots : z = [slot[x.id] EXCEPT !.reserved = TRUE]
    BY <1>1 DEF PlaneInv, StoreTypes, Slots
  <2>3. slot' = [slot EXCEPT ![x.id] = z] /\ z.reserved
    BY <1>1, <2>1, <2>2 DEF PlaneInv, StoreTypes, Slots
  <2>4. PICK n : n = [at |-> "reserved", id |-> x.id, of |-> x.of, was |-> life[x.of]]
    OBVIOUS
  <2>5. n \in Jobs /\ n.at = "reserved" /\ n.id = x.id /\ n.of = x.of
    BY <1>1, <2>4 DEF Jobs, UndoJobs, PlaneInv, StoreTypes
  <2>6. /\ life' \in [Ids -> LifecycleState]
        /\ \A id \in Ids : \/ life'[id] = life[id]
                           \/ life[id] = "verified" /\ life'[id] = "compensating"
    BY <1>1, <2>1, StatesNamed DEF PlaneInv, StoreTypes
  <2>7. \A id \in Ids : life'[id] # "proposed" <=> life[id] # "proposed"
    BY <2>6
  <2>8. JobSays(n)'
    <3>1. slot'[x.id].reserved
      BY <1>1, <2>2, <2>3 DEF PlaneInv, StoreTypes
    <3>2. made'[x.id].of = x.of
      BY <1>2, <1>3 DEF CompensationAdmitted, BindsOriginal
    <3> QED BY <1>1, <2>5, <2>7, <3>1, <3>2 DEF JobSays
  <2>9. ASSUME NEW d \in Threads \ {t} PROVE Spares(thread[d]) /\ Apart(n, thread[d])
    <3>1. thread[d].at \in {"reserved", "compensating"} => thread[d].id # x.id
      BY <1>3 DEF Reservable, PlaneInv, JobsInv, JobSays
    <3>2. /\ \A id \in Ids \ {x.id} : slot[id].reserved => slot'[id].reserved
          /\ \A id \in Ids \ {x.id} : life[id] = "committing" => life'[id] = "committing"
      BY <2>3, <2>6 DEF PlaneInv, StoreTypes
    <3> QED BY <1>1, <1>2, <2>5, <3>1, <3>2, OthersSpared DEF Apart
  <2>10. Grows
    BY <1>2, <2>7 DEF Grows
  <2>11. RowInv' /\ OnceInv' /\ row' \in Rows
    <3>1. \A id \in Ids : life[id] \notin Early => life'[id] \notin Early
      BY <2>6 DEF Early
    <3> QED BY <1>2, <2>7, <2>10, <3>1, RowStays, OnceStays DEF PlaneInv, StoreTypes, Ids
  <2>12. UNCHANGED <<known, grants, results, proofs, undone, kill, bundles, envelope, graphs,
                     statements>>
    BY <1>2 DEF memory
  <2>13. ASSUME NEW id \in Ids PROVE Told(id)'
    <3>1. Told(id) /\ (Happened(id) => Happened(id)')
      BY <2>10, HappenedLasts DEF PlaneInv, ToldInv, Told
    <3> QED BY <1>2, <2>6, <2>12, <3>1 DEF Told
  <2>14. thread' = [thread EXCEPT ![t] = n]
    BY <2>1, <2>4
  <2>15. UndoStep(t, n, x.id, z)
    BY <1>1, <1>2, <2>1, <2>2, <2>3, <2>5, <2>6, <2>7, <2>8, <2>9, <2>11, <2>12, <2>13, <2>14
       DEF UndoStep, PlaneInv, MemoryTypes
  <2> QED BY <2>15, UndoStepKeeps
<1>4. CASE ~(CompensationAdmitted(x) /\ Reservable(x.id))
  <2>1. Answer(t) /\ UNCHANGED <<slot, life>>
    BY <1>1, <1>4 DEF CompensateEnter
  <2>2. UNCHANGED stores
    BY <1>2, <2>1 DEF stores
  <2> QED BY <1>1, <1>2, <2>1, <2>2, AnswerKeeps
<1> QED BY <1>3, <1>4

(***************************************************************************)
(* The holder of the slot of c gives it back or keeps it, c moves to the   *)
(* state s or stays, and the calls of the adapter are those in undid'.     *)
(***************************************************************************)
HolderStep(t, n, c, z, s) ==
    /\ t \in Threads /\ thread[t].at \in {"reserved", "compensating"} /\ thread[t].id = c
    /\ n \in Jobs /\ JobSays(n)'
    /\ n.at \in {"reserved", "compensating"} => n.id = c
    /\ z \in Slots /\ slot' = [slot EXCEPT ![c] = z]
    /\ s \in {life[c], "committing", "failed"} /\ life' = [life EXCEPT ![c] = s]
    /\ thread' = [thread EXCEPT ![t] = n]
    /\ caught' = caught \/ (n = Idle /\ caught' = caught \ {t})
    /\ row' \in Rows /\ RowInv'
    /\ undid \subseteq undid'
    /\ \A u \in undid' : u \in undid \/ (/\ u.by = c /\ s \notin Early
                                         /\ made[c].of = u.on /\ u.nth = 0)
    /\ UNCHANGED <<made, memory, minted, generation, applied, ran>>

LEMMA HolderStepKeeps ==
    ASSUME PlaneInv, NEW t, NEW n, NEW c, NEW z, NEW s, HolderStep(t, n, c, z, s)
    PROVE  PlaneInv'
<1> USE DEF HolderStep
<1>1. /\ thread[t] # Idle /\ c \in Comps /\ c \in Ids /\ c \notin Forward /\ life[c] # "proposed"
  BY Undoer
<1>2. /\ life' \in [Ids -> LifecycleState] /\ life'[c] = s /\ s # "proposed"
      /\ \A id \in Ids \ {c} : life'[id] = life[id] /\ slot'[id] = slot[id]
      /\ \A id \in Ids : life'[id] # "proposed" <=> life[id] # "proposed"
  BY <1>1, StatesNamed DEF PlaneInv, StoreTypes
<1>3. ASSUME NEW d \in Threads \ {t} PROVE Spares(thread[d]) /\ Apart(n, thread[d])
  <2>1. thread[d].at \in {"reserved", "compensating"} => thread[d].id # c
    BY DEF PlaneInv, JobsInv, Apart
  <2> QED BY <1>1, <1>2, <2>1, OthersSpared DEF Apart
<1>4. Grows
  BY <1>2 DEF Grows
<1>5. OnceInv'
  <2>1. ASSUME NEW u \in undid, u \in undid
        PROVE  /\ u.by \in Comps /\ life'[u.by] \notin Early /\ made[u.by].of = u.on /\ u.nth = 0
    BY <1>2, <2>1 DEF PlaneInv, OnceInv, Ids, Early
  <2> QED BY <1>1, <1>2, <2>1 DEF OnceInv
<1>6. UNCHANGED <<known, grants, results, proofs, undone, kill, bundles, envelope, graphs, statements>>
  BY DEF memory
<1>7. \A id \in Ids : Told(id)'
  <2>1. \A id \in Ids : \/ life'[id] = life[id]
                        \/ life'[id] \notin {"committed", "verified", "compensating", "compensated"}
    BY <1>2
  <2>2. ToldInv'
    BY <1>4, <1>6, <2>1, ToldUnmoved DEF PlaneInv
  <2> QED BY <2>2 DEF ToldInv, Told
<1>8. UndoStep(t, n, c, z)
  BY <1>1, <1>2, <1>3, <1>5, <1>6, <1>7 DEF UndoStep, PlaneInv, MemoryTypes
<1> QED BY <1>8, UndoStepKeeps

LEMMA CompensateCommittingKeeps ==
    ASSUME PlaneInv, NEW t \in Threads, CompensateCommitting(t)
    PROVE  PlaneInv'
<1>1. PICK x \in UndoJobs : /\ x = thread[t] /\ x.at = "reserved" /\ JobSays(x)
                            /\ x.id \in Comps /\ x.id \in Ids /\ x.of \in Ids /\ life[x.id] # "proposed"
  BY Undoer, JobIds DEF CompensateCommitting
<1>2. UNCHANGED <<row, made, memory, minted, generation, undid, applied, ran>>
  BY DEF CompensateCommitting
<1>3. PICK c \in Comps : c = x.id /\ c \in Ids
  BY <1>1
<1>4. ASSUME NEW s \in {life[c], "committing", "failed"}, life' = [life EXCEPT ![c] = s]
      PROVE  RowInv' /\ row' \in Rows
  <2>1. \A id \in Ids : life'[id] # "proposed" <=> life[id] # "proposed"
    BY <1>1, <1>3, <1>4 DEF PlaneInv, StoreTypes
  <2>2. Grows
    BY <1>2, <2>1 DEF Grows
  <2> QED BY <1>2, <2>1, <2>2, RowStays DEF PlaneInv, StoreTypes, Ids
<1>5. CASE Moves(c, "committing")
  <2>1. /\ life' = [life EXCEPT ![c] = "committing"]
        /\ thread' = [thread EXCEPT ![t].at = "compensating"]
        /\ UNCHANGED <<slot, caught>>
    BY <1>1, <1>3, <1>5 DEF CompensateCommitting
  <2>2. PICK n : n = [x EXCEPT !.at = "compensating"]
    OBVIOUS
  <2>3. /\ n \in Jobs /\ n.at = "compensating" /\ n.id = c /\ n.of = x.of
        /\ thread' = [thread EXCEPT ![t] = n]
    BY <1>1, <1>3, <2>1, <2>2 DEF PlaneInv, JobsInv, Jobs, UndoJobs
  <2>4. PICK z \in Slots : z = slot[c] /\ slot' = [slot EXCEPT ![c] = z]
    BY <1>3, <2>1 DEF PlaneInv, StoreTypes
  <2>5. JobSays(n)'
    <3>1. life[c] = "authorized"
      BY <1>5, MovesTo DEF Moves
    <3>2. Uncalled(c)'
      BY <1>2, <3>1 DEF PlaneInv, OnceInv, Early, Uncalled
    <3>3. life'[c] = "committing" /\ life'[x.of] # "proposed"
      BY <1>1, <1>3, <2>1 DEF PlaneInv, StoreTypes, JobSays
    <3> QED BY <1>1, <1>2, <1>3, <2>1, <2>3, <3>2, <3>3 DEF JobSays
  <2>6. PICK s \in {life[c], "committing", "failed"} : s = "committing"
    OBVIOUS
  <2>7. HolderStep(t, n, c, z, s)
    BY <1>1, <1>2, <1>3, <1>4, <2>1, <2>3, <2>4, <2>5, <2>6 DEF HolderStep
  <2> QED BY <2>7, HolderStepKeeps
<1>6. CASE ~Moves(c, "committing")
  <2>1. /\ slot' = [slot EXCEPT ![c].reserved = FALSE]
        /\ life' = IF Moves(c, "failed") THEN [life EXCEPT ![c] = "failed"] ELSE life
        /\ Answer(t)
    BY <1>1, <1>3, <1>6 DEF CompensateCommitting
  <2>2. PICK s \in {life[c], "committing", "failed"} : life' = [life EXCEPT ![c] = s]
    BY <1>3, <2>1 DEF PlaneInv, StoreTypes
  <2>3. PICK z \in Slots : z = [slot[c] EXCEPT !.reserved = FALSE]
    BY <1>3 DEF PlaneInv, StoreTypes, Slots
  <2>4. slot' = [slot EXCEPT ![c] = z]
    BY <1>3, <2>1, <2>3 DEF PlaneInv, StoreTypes
  <2>5. PICK n \in Jobs : n = Idle /\ JobSays(n)' /\ n.at = "idle"
    BY IdleJob DEF Idle
  <2>6. HolderStep(t, n, c, z, s)
    BY <1>1, <1>2, <1>3, <1>4, <2>1, <2>2, <2>4, <2>5 DEF HolderStep, Answer
  <2> QED BY <2>6, HolderStepKeeps
<1> QED BY <1>5, <1>6

(***************************************************************************)
(* The call of the adapter: before it, the compensation had made none.     *)
(***************************************************************************)
LEMMA CompensateCallKeeps ==
    ASSUME PlaneInv, NEW t \in Threads, CompensateCall(t)
    PROVE  PlaneInv'
<1>1. PICK x \in UndoJobs : /\ x = thread[t] /\ x.at = "compensating" /\ JobSays(x)
                            /\ x.id \in Comps /\ x.id \in Ids /\ x.of \in Ids
                            /\ life[x.of] # "proposed"
  BY Undoer, JobIds DEF CompensateCall
<1>2. PICK c \in Comps : c = x.id /\ c \in Ids /\ life[c] = "committing"
  BY <1>1 DEF JobSays
<1>3. PICK o \in Ids : o = x.of /\ made[c].of = o /\ life[o] # "proposed"
  BY <1>1, <1>2 DEF JobSays
<1>4. UNCHANGED <<made, memory, minted, generation, applied, ran>>
  BY DEF CompensateCall
<1>5. ASSUME NEW s \in {life[c], "committing", "failed"}, life' = [life EXCEPT ![c] = s]
      PROVE  \A id \in Ids : life'[id] # "proposed" <=> life[id] # "proposed"
  BY <1>2, <1>5 DEF PlaneInv, StoreTypes
<1>6. PICK i \in Jobs : i = Idle /\ JobSays(i)' /\ i.at = "idle"
  BY IdleJob DEF Idle
<1>7. PICK f \in {life[c], "committing", "failed"} : f = "failed"
  OBVIOUS
<1>8. PICK z \in Slots : z = [slot[c] EXCEPT !.reserved = FALSE]
  BY <1>2 DEF PlaneInv, StoreTypes, Slots
<1>9. ASSUME Failed(t)
      PROVE  /\ slot' = [slot EXCEPT ![c] = z] /\ life' = [life EXCEPT ![c] = f]
             /\ thread' = [thread EXCEPT ![t] = i] /\ caught' = caught \ {t}
  BY <1>1, <1>2, <1>6, <1>7, <1>8, <1>9 DEF Failed, Answer, PlaneInv, StoreTypes
<1>10. CASE Failed(t) /\ UNCHANGED <<row, undid>>
  <2>1. \A id \in Ids : life'[id] # "proposed" <=> life[id] # "proposed"
    BY <1>5, <1>9, <1>10
  <2>2. Grows
    BY <1>4, <1>10, <2>1 DEF Grows
  <2>3. RowInv' /\ row' \in Rows
    BY <1>4, <1>10, <2>1, <2>2, RowStays DEF PlaneInv, StoreTypes, Ids
  <2>4. HolderStep(t, i, c, z, f)
    BY <1>1, <1>2, <1>4, <1>6, <1>7, <1>9, <1>10, <2>3 DEF HolderStep
  <2> QED BY <2>4, HolderStepKeeps
<1>11. CASE ~(Failed(t) /\ UNCHANGED <<row, undid>>)
  <2>1. PICK d : d = Undo(o)
    OBVIOUS
  <2>2. PICK u : u = [by |-> c, on |-> o, ok |-> d.succeeded, from |-> life[o],
                      nth |-> Cardinality({v \in undid : v.by = c})]
    OBVIOUS
  <2>3. /\ made[o].effect # None
        /\ row' = d.row
        /\ undid' = undid \cup {u}
        /\ \/ Failed(t)
           \/ /\ slot' = [slot EXCEPT ![c].reserved = FALSE, ![c].uses = @ + 1]
              /\ thread' = [thread EXCEPT ![t] = [at |-> "undone", id |-> c, of |-> o,
                                                  was |-> x.was, ok |-> d.succeeded]]
              /\ UNCHANGED <<life, caught>>
    BY <1>1, <1>2, <1>3, <1>11, <2>1, <2>2 DEF CompensateCall
  <2>4. o \in Forward /\ made[o] \in RowManifests
    BY <1>3, <2>3 DEF PlaneInv, StoreTypes, Ids, CompManifests
  <2>5. /\ d.row \in Rows /\ d.succeeded \in BOOLEAN
        /\ \/ d.row = row
           \/ ~d.row.here
           \/ row.here /\ d.row.here /\ d.row.version = row.version + 1
    <3>1. PICK e \in Effects : e = made[o].effect
      BY <2>4 DEF RowManifests
    <3>2. d = CompensateRow(e, row) /\ row \in Rows
      BY <2>1, <2>3, <3>1 DEF Undo, PlaneInv, StoreTypes
    <3> QED BY <3>2, Compensation
  <2>6. PICK s \in {life[c], "committing", "failed"} :
            life' = [life EXCEPT ![c] = s] /\ s \in {"committing", "failed"}
    BY <1>2, <1>7, <1>9, <2>3 DEF PlaneInv, StoreTypes
  <2>7. \A id \in Ids : life'[id] # "proposed" <=> life[id] # "proposed"
    BY <1>5, <2>6
  <2>8. RowInv' /\ row' \in Rows
    BY <1>4, <2>3, <2>5, <2>7, RowMoves DEF PlaneInv, Ids
  <2>9. u.nth = 0 /\ u.by = c /\ u.on = o /\ u.ok = d.succeeded
    <3>1. {v \in undid : v.by = c} = {}
      BY <1>1, <1>2 DEF JobSays, Uncalled
    <3> QED BY <2>2, <3>1, FS_EmptySet
  <2>10. \A v \in undid' : v \in undid \/ (v.by = c /\ s \notin Early /\ made[c].of = v.on /\ v.nth = 0)
    BY <1>3, <2>3, <2>6, <2>9 DEF Early
  <2>11. CASE Failed(t)
    <3>1. life' = [life EXCEPT ![c] = f] /\ s = f
      BY <1>2, <1>9, <2>6, <2>11 DEF PlaneInv, StoreTypes
    <3>2. HolderStep(t, i, c, z, f)
      BY <1>1, <1>2, <1>4, <1>6, <1>7, <1>9, <2>3, <2>8, <2>10, <2>11, <3>1 DEF HolderStep
    <3> QED BY <3>2, HolderStepKeeps
  <2>12. CASE /\ slot' = [slot EXCEPT ![c].reserved = FALSE, ![c].uses = @ + 1]
              /\ thread' = [thread EXCEPT ![t] = [at |-> "undone", id |-> c, of |-> o,
                                                  was |-> x.was, ok |-> d.succeeded]]
              /\ UNCHANGED <<life, caught>>
    <3>1. PICK y \in Slots : slot' = [slot EXCEPT ![c] = y]
      <4>1. slot[c] \in Slots
        BY <1>2 DEF PlaneInv, StoreTypes
      <4>2. PICK k \in Nat : k = slot[c].uses + 1
        BY <4>1 DEF Slots
      <4>3. PICK y : y = [slot[c] EXCEPT !.reserved = FALSE, !.uses = k]
        OBVIOUS
      <4>4. y \in Slots
        BY <4>1, <4>3 DEF Slots
      <4>5. slot' = [slot EXCEPT ![c] = y]
        BY <1>2, <2>12, <4>2, <4>3 DEF PlaneInv, StoreTypes
      <4> QED BY <4>4, <4>5
    <3>2. PICK n : n = [at |-> "undone", id |-> c, of |-> o, was |-> x.was, ok |-> d.succeeded]
      OBVIOUS
    <3>3. /\ n \in Jobs /\ n.at = "undone" /\ n.id = c /\ n.of = o /\ n.ok = d.succeeded
          /\ thread' = [thread EXCEPT ![t] = n]
      BY <1>1, <1>2, <2>5, <2>12, <3>2 DEF Jobs, UndoneJobs, UndoJobs
    <3>4. Called(c, o, d.succeeded)'
      BY <2>3, <2>9 DEF Called
    <3>5. JobSays(n)'
      BY <1>2, <1>3, <1>4, <2>4, <2>12, <3>3, <3>4 DEF JobSays, Called
    <3>6. HolderStep(t, n, c, y, s)
      BY <1>1, <1>2, <1>4, <2>3, <2>6, <2>8, <2>10, <2>12, <3>1, <3>3, <3>5 DEF HolderStep
    <3> QED BY <3>6, HolderStepKeeps
  <2> QED BY <2>3, <2>11, <2>12
<1> QED BY <1>10, <1>11

(***************************************************************************)
(* The lifecycles: another thread that holds the slot of c by now has not  *)
(* reached COMMITTING, because c has called the adapter.                   *)
(***************************************************************************)
LEMMA CompensateFinishKeeps ==
    ASSUME PlaneInv, NEW t \in Threads, CompensateFinish(t)
    PROVE  PlaneInv'
<1>1. PICK x \in UndoneJobs : /\ x = thread[t] /\ x.at = "undone" /\ JobSays(x) /\ thread[t] # Idle
                              /\ x.id \in Comps /\ x.id \in Ids /\ x.of \in Ids
                              /\ x.id \notin Forward /\ life[x.id] # "proposed"
  BY Undoer, JobIds DEF CompensateFinish
<1>2. PICK c \in Comps : c = x.id /\ c \in Ids /\ c \notin Forward /\ life[c] # "proposed"
  BY <1>1
<1>3. PICK o \in Forward : o = x.of /\ o \in Ids /\ o # c /\ life[o] # "proposed"
  BY <1>1, <1>2 DEF JobSays
<1>4. Called(c, o, x.ok) /\ x.ok \in BOOLEAN
  BY <1>1, <1>2, <1>3 DEF JobSays, UndoneJobs
<1>5. PICK legal \in BOOLEAN, told \in BOOLEAN :
        /\ legal = (x.ok \/ x.was = "verified"
                    => Moves(o, IF x.ok THEN "compensated" ELSE "failed"))
        /\ told = (x.ok \/ x.was = "verified")
  OBVIOUS
<1>6. /\ life' = [life EXCEPT ![c] = IF x.ok THEN "committed" ELSE "failed",
                              ![o] = IF told /\ legal
                                     THEN IF x.ok THEN "compensated" ELSE "failed" ELSE @]
      /\ results' = IF legal THEN [results EXCEPT ![c] = IF x.ok THEN "ok" ELSE "failed"] ELSE results
      /\ undone' = IF legal THEN [undone EXCEPT ![o] = IF x.ok THEN "ok" ELSE "failed"] ELSE undone
      /\ thread' = [thread EXCEPT ![t] = Idle] /\ caught' = caught \ {t}
      /\ UNCHANGED <<row, slot, made, known, grants, proofs, kill, bundles, envelope, graphs, statements,
                     minted, generation, undid, applied, ran>>
  BY <1>1, <1>2, <1>3, <1>5 DEF CompensateFinish, Answer
<1>7. /\ life'[c] = IF x.ok THEN "committed" ELSE "failed"
      /\ life'[o] = IF told /\ legal THEN IF x.ok THEN "compensated" ELSE "failed" ELSE life[o]
      /\ \A id \in Ids \ {c, o} : life'[id] = life[id]
      /\ life' \in [Ids -> LifecycleState]
  BY <1>2, <1>3, <1>6, StatesNamed DEF PlaneInv, StoreTypes
<1>8. /\ DOMAIN results' = Ids /\ DOMAIN undone' = Ids
      /\ results'[c] = IF legal THEN IF x.ok THEN "ok" ELSE "failed" ELSE results[c]
      /\ undone'[o] = IF legal THEN IF x.ok THEN "ok" ELSE "failed" ELSE undone[o]
      /\ \A id \in Ids \ {c} : results'[id] = results[id]
      /\ \A id \in Ids \ {o} : undone'[id] = undone[id]
  BY <1>2, <1>3, <1>6 DEF PlaneInv, MemoryTypes
<1>9. \A id \in Ids : /\ life'[id] # "proposed" <=> life[id] # "proposed"
                      /\ life[id] \notin Early => life'[id] \notin Early
  BY <1>2, <1>3, <1>7 DEF Early
<1>10. Grows
  BY <1>6, <1>9 DEF Grows
<1>11. RowInv' /\ OnceInv' /\ row' \in Rows
  BY <1>6, <1>9, <1>10, RowStays, OnceStays DEF PlaneInv, StoreTypes, Ids
<1>12. ASSUME NEW d \in Threads \ {t} PROVE Spares(thread[d])
  <2>1. PICK y \in Jobs : y = thread[d] /\ JobSays(y)
    BY DEF PlaneInv, JobsInv
  <2>2. y.at = "compensating" => y.id \in Ids \ {c, o}
    <3>1. ~(Uncalled(c) /\ Called(c, o, x.ok))
      BY DEF Uncalled, Called
    <3>2. y.at = "compensating" => y.id \in Comps /\ y.id \in Ids /\ Uncalled(y.id)
      BY <2>1, JobIds DEF JobSays
    <3> QED BY <1>3, <1>4, <3>1, <3>2, ControlPlaneAssumption
  <2>3. Spares(y)
    BY <1>6, <1>7, <2>1, <2>2 DEF Spares, JobSays
  <2> QED BY <2>1, <2>3
<1>13. x.ok => Happened(c)' /\ \E u \in undid' : u.on = o /\ u.ok
  BY <1>4, <1>6 DEF Called, Happened
<1>14. x.ok /\ legal => Happened(o)'
  <2>1. x.ok /\ legal => life[o] \in {"verified", "compensating"}
    BY <1>5, MovesTo DEF Moves
  <2> QED BY <1>3, <1>10, <2>1, HappenedLasts DEF PlaneInv, ToldInv
<1>15. ASSUME NEW id \in Ids PROVE Told(id)'
  <2>1. Told(id) /\ (Happened(id) => Happened(id)')
    BY <1>10, HappenedLasts DEF PlaneInv, ToldInv, Told
  <2>2. CASE id = c
    BY <1>3, <1>6, <1>7, <1>8, <1>13, <2>1, <2>2 DEF Told
  <2>3. CASE id = o
    BY <1>3, <1>6, <1>7, <1>8, <1>13, <1>14, <2>1, <2>3 DEF Told
  <2>4. CASE id \notin {c, o}
    BY <1>6, <1>7, <1>8, <2>1, <2>4 DEF Told
  <2> QED BY <2>2, <2>3, <2>4
<1>16. PICK n \in Jobs : n = Idle /\ JobSays(n)' /\ n.at = "idle"
  BY IdleJob DEF Idle
<1>17. PICK z \in Slots : slot' = [slot EXCEPT ![c] = z]
  BY <1>2, <1>6 DEF PlaneInv, StoreTypes
<1>18. UndoStep(t, n, c, z)
  BY <1>1, <1>6, <1>7, <1>8, <1>9, <1>11, <1>12, <1>15, <1>16, <1>17 DEF UndoStep, Apart
<1> QED BY <1>18, UndoStepKeeps

-----------------------------------------------------------------------------
(* The whole control plane.                                                *)

LEMMA InitPlaneInv == ASSUME InitPlane PROVE PlaneInv
<1> USE DEF InitPlane, FreshMemory
<1>1. StoreTypes
  <2>1. Absent \in Rows /\ \A b \in Balances : Row(b, 0) \in Rows
    BY DEF Rows, Absent, Row
  <2>2. "proposed" \in LifecycleState
    BY StatesNamed
  <2>3. row \in Rows
    BY <2>1
  <2> QED BY <2>2, <2>3 DEF StoreTypes, FreeSlot, Slots, Ids
<1>2. MemoryTypes
  BY DEF MemoryTypes
<1>3. RowInv /\ OnceInv /\ CaughtInv
  BY DEF RowInv, OnceInv, CaughtInv, Ids
<1>4. JobsInv
  BY DEF JobsInv, Jobs, Idle, JobSays, Apart
<1>5. ToldInv
  BY ControlPlaneAssumption DEF ToldInv
<1>6. BoundInv
  BY FS_EmptySet DEF BoundInv, Ids
<1> QED BY <1>1, <1>2, <1>3, <1>4, <1>5, <1>6 DEF PlaneInv

LEMMA NextRowsKeeps == ASSUME PlaneInv, NextRows PROVE PlaneInv'
<1>1. CASE \E m \in Forward, operation \in Operations, new \in Balances :
             PrepareManifest(m, operation, new)
  BY <1>1, PrepareManifestKeeps
<1>2. CASE \E id \in Ids : ConsoleApprove(id)
  BY <1>2, ApproveManifestKeeps DEF ConsoleApprove
<1>3. CASE \E t \in Threads, m \in Ids : Execute(t, m, Nothing)
  <2>1. Nothing \in Shown
    BY DEF Nothing, Shown
  <2> QED BY <1>3, <2>1, ExecuteKeeps
<1>4. CASE \E m \in Ids : VerifyManifest(m)
  BY <1>4, VerifyManifestKeeps
<1>5. CASE \E o \in Ids, c \in Comps : PrepareCompensation(o, c) \/ AuthorizeCompensation(o, c)
  BY <1>5, PrepareCompensationKeeps, AuthorizeCompensationKeeps
<1>6. CASE \E t \in Threads, o \in Ids, c \in Comps : ExecuteCompensation(t, o, c)
  BY <1>6, ExecuteCompensationKeeps
<1>7. CASE \E t \in Threads : CompensateEnter(t) \/ CompensateCommitting(t)
                              \/ CompensateCall(t) \/ CompensateFinish(t)
  BY <1>7, CompensateEnterKeeps, CompensateCommittingKeeps, CompensateCallKeeps, CompensateFinishKeeps
<1> QED BY <1>1, <1>2, <1>3, <1>4, <1>5, <1>6, <1>7 DEF NextRows

LEMMA NextDeskKeeps == ASSUME PlaneInv, NextDesk PROVE PlaneInv'
<1>1. CASE \E m \in Forward, new \in Balances : PrepareManifest(m, "insert", new)
  BY <1>1, PrepareManifestKeeps DEF Operations
<1>2. CASE \E b \in BundleIds : \/ CreatePolicyBundle(b)
                                \/ CreateApprovalPolicyBundle(b)
                                \/ CreateSeparationPolicyBundle(b)
  BY <1>2, StoreBundleKeeps
     DEF CreatePolicyBundle, CreateApprovalPolicyBundle, CreateSeparationPolicyBundle
<1>3. CASE CreateEnvelope
  BY <1>3, CreateEnvelopeKeeps
<1>4. CASE \E m \in Forward : CreateGraph(m)
  BY <1>4, CreateGraphKeeps
<1>5. CASE \E m \in Forward, b \in BundleIds, who \in Approvers, decision \in Decisions :
             SubmitApproval(m, b, who, decision)
  BY <1>5, SubmitApprovalKeeps
<1>6. CASE \E m \in Forward, b \in BundleIds \cup {None}, withEnvelope \in BOOLEAN,
              graph \in graphs \cup {0} : ApproveManifest(m, b, withEnvelope, graph)
  <2>1. graphs \cup {0} \subseteq Nat /\ Forward \subseteq Ids
    BY DEF PlaneInv, MemoryTypes, Ids
  <2> QED BY <1>6, <2>1, ApproveManifestKeeps
<1>7. CASE \E m \in Forward, a \in BundleIds, b \in BundleIds \cup {None} : ApproveWithQuorum(m, a, b)
  BY <1>7, ApproveWithQuorumKeeps
<1>8. CASE \E t \in Threads, m \in Forward, shown \in [DOMAIN Nothing -> 0 .. minted] :
             Execute(t, m, shown)
  <2>1. PICK t \in Threads, m \in Forward, shown \in [DOMAIN Nothing -> 0 .. minted] :
            Execute(t, m, shown)
    BY <1>8
  <2>2. shown \in Shown /\ m \in Ids
    BY DEF Shown, PlaneInv, MemoryTypes, Ids
  <2> QED BY <2>1, <2>2, ExecuteKeeps
<1>9. CASE \E t \in Threads : CommitEnter(t)
  BY <1>9, CommitEnterKeeps
<1> QED BY <1>1, <1>2, <1>3, <1>4, <1>5, <1>6, <1>7, <1>8, <1>9 DEF NextDesk

LEMMA PlaneStays == ASSUME PlaneInv, UNCHANGED plane PROVE PlaneInv'
<1>1. /\ UNCHANGED <<stores, made, known, grants, results, proofs, undone, kill, bundles, envelope, graphs,
                     statements, thread, minted, generation, undid, applied, ran, caught>>
  BY DEF plane, memory, history
<1>2. MemoryTypes' /\ BoundInv'
  BY <1>1, BoundStays DEF PlaneInv, MemoryTypes, stores
<1> QED BY <1>1, <1>2, MemoryKeeps

LEMMA NextKeepsPlane == ASSUME PlaneInv, [Next]_service PROVE PlaneInv'
<1>1. CASE NextRows
  BY <1>1, NextRowsKeeps
<1>2. CASE NextSwitch
  BY <1>2, RevokeGrantKeeps, SwitchKeeps DEF NextSwitch
<1>3. CASE NextDesk
  BY <1>3, NextDeskKeeps
<1>4. CASE NextCommit
  BY <1>4, CommitEnterKeeps, CommitCheckKeeps, CommitCallKeeps, CommitFinishKeeps DEF NextCommit
<1>5. CASE UNCHANGED plane
  BY <1>5, PlaneStays
<1>6. CASE RestartPlane
  BY <1>6, RestartKeeps
<1> QED BY <1>1, <1>2, <1>3, <1>4, <1>5, <1>6 DEF Next, Restart, service

-----------------------------------------------------------------------------
(* The front door.                                                         *)

LEMMA UserOfType ==
    ASSUME AccessInv, NEW k, Live(k)
    PROVE  UserOf(k) \in Users
  BY DEF AccessInv, Live, UserOf

\* A member stays one, in the same organization.
LEMMA MembersStay ==
    ASSUME AccessInv, NEW u \in Users, NEW o \in Orgs, member[u] = Nobody,
           member' = [member EXCEPT ![u] = o],
           \A c \in Clients : pending'[c] \in {pending[c], NoRequest},
           pending' \in [Clients -> {NoRequest} \cup PlainRequests \cup UserRequests],
           sessions' = sessions, logins' = logins
    PROVE  AccessInv'
<1>1. /\ member' \in [Users -> Orgs \cup {Nobody}]
      /\ \A v \in Users : member[v] \in Orgs => member'[v] = member[v]
  BY AccessAssumption DEF AccessInv
<1>2. ASSUME NEW c \in Clients, pending'[c] # NoRequest
      PROVE  member'[pending'[c].user] = pending'[c].org
  <2>1. pending'[c] = pending[c] /\ pending[c] \in PlainRequests \cup UserRequests
    BY <1>2 DEF AccessInv
  <2>2. pending[c].user \in Users /\ pending[c].org \in Orgs
    BY <2>1 DEF PlainRequests, UserRequests
  <2> QED BY <1>1, <1>2, <2>1, <2>2 DEF AccessInv
<1> QED BY <1>1, <1>2 DEF AccessInv

\* Nothing happens to the members, and requests are only answered.
LEMMA DoorKeeps ==
    ASSUME AccessInv, member' = member,
           \A c \in Clients : pending'[c] \in {pending[c], NoRequest},
           pending' \in [Clients -> {NoRequest} \cup PlainRequests \cup UserRequests],
           sessions' \subseteq [token : Nat, user : Users], logins' \in Nat
    PROVE  AccessInv'
  BY DEF AccessInv

LEMMA SendKeeps ==
    ASSUME AccessInv, NEW c \in Clients, NEW r \in PlainRequests \cup UserRequests,
           member[r.user] = r.org, Send(c, r)
    PROVE  AccessInv'
  BY DEF AccessInv, Send

LEMMA PerformKeeps ==
    ASSUME AccessInv, NEW c \in Clients, Perform(c)
    PROVE  AccessInv'
<1>1. PICK r \in PlainRequests \cup UserRequests : r = pending[c]
  BY DEF Perform, AccessInv
<1>2. /\ pending' = [pending EXCEPT ![c] = NoRequest] /\ UNCHANGED <<sessions, logins>>
      /\ \/ r.what = "user" /\ AddUser(r)
         \/ member' = member
  BY <1>1 DEF Perform, AddAgent, AddAdapter, AddRefund, Hold
<1>3. /\ \A d \in Clients : pending'[d] \in {pending[d], NoRequest}
      /\ pending' \in [Clients -> {NoRequest} \cup PlainRequests \cup UserRequests]
  BY <1>2 DEF AccessInv
<1>4. CASE member' = member
  BY <1>2, <1>3, <1>4, DoorKeeps DEF AccessInv
<1>5. CASE r.what = "user" /\ AddUser(r) /\ member' # member
  <2>1. r.new \in Users /\ r.org \in Orgs
    BY <1>1, <1>5 DEF PlainRequests, UserRequests
  <2>2. member[r.new] = Nobody /\ member' = [member EXCEPT ![r.new] = r.org]
    BY <1>5 DEF AddUser
  <2> QED BY <1>2, <1>3, <2>1, <2>2, MembersStay
<1> QED BY <1>2, <1>4, <1>5

LEMMA NextKeepsAccess == ASSUME AccessInv, [Next]_service PROVE AccessInv'
<1> DEFINE Answered == /\ \A c \in Clients : pending'[c] \in {pending[c], NoRequest}
                       /\ pending' \in [Clients -> {NoRequest} \cup PlainRequests \cup UserRequests]
<1>1. CASE UNCHANGED access
  BY <1>1 DEF AccessInv, access
<1>2. CASE RestartGateway
  BY <1>2 DEF RestartGateway, AccessInv
<1>3. CASE NextGateway
  <2>1. CASE \E o \in Orgs : CreateOrganization(o) \/ CreateOwner(o) \/ CreateTenant(o)
    <3>1. PICK o \in Orgs : CreateOrganization(o) \/ CreateOwner(o) \/ CreateTenant(o)
      BY <2>1
    <3>2. UNCHANGED <<sessions, logins, pending>> /\ Answered
      BY <3>1 DEF CreateOrganization, CreateOwner, CreateTenant, AccessInv
    <3>3. CASE member' = member
      BY <3>2, <3>3, DoorKeeps DEF AccessInv
    <3>4. CASE member' # member
      <4>1. /\ member[OwnerOf(o)] = Nobody /\ member' = [member EXCEPT ![OwnerOf(o)] = o]
            /\ OwnerOf(o) \in Users
        BY <3>1, <3>4, AccessAssumption DEF CreateOrganization, CreateOwner, CreateTenant
      <4> QED BY <3>2, <4>1, MembersStay
    <3> QED BY <3>3, <3>4
  <2>2. CASE \E o \in Orgs, status \in {"active", "suspended"} : SetOrganizationStatus(o, status)
    BY <2>2, DoorKeeps DEF SetOrganizationStatus, AccessInv
  <2>3. CASE \E c \in Clients, u \in Users : Login(c, u)
    <3>1. PICK c \in Clients, u \in Users : Login(c, u)
      BY <2>3
    <3>2. /\ UNCHANGED <<member, pending>> /\ logins' = logins + 1
          /\ sessions' = sessions \cup {[token |-> logins + 1, user |-> u]}
      BY <3>1 DEF Login, IssueSession
    <3>3. Answered /\ sessions' \subseteq [token : Nat, user : Users] /\ logins' \in Nat
      BY <3>2 DEF AccessInv
    <3> QED BY <3>2, <3>3, DoorKeeps
  <2>4. CASE \E c \in Clients : Logout(c)
    BY <2>4, DoorKeeps DEF Logout, RevokeSession, AccessInv
  <2>5. CASE \E c \in Clients : Perform(c)
    BY <2>5, PerformKeeps
  <2>6. CASE \E s \in sessions : Expire(s)
    BY <2>6, DoorKeeps DEF Expire, AccessInv
  <2>7. CASE \E c \in Clients, o \in Orgs : AskAgent(c, o) \/ AskAdapter(c, o) \/ AskRefund(c, o)
    <3>1. PICK c \in Clients, o \in Orgs : AskAgent(c, o) \/ AskAdapter(c, o) \/ AskRefund(c, o)
      BY <2>7
    <3>2. PICK u \in Users : u = UserOf(token[c])
      BY <3>1, UserOfType DEF AskAgent, AskAdapter, AskRefund, CanSend
    <3>3. PICK w \in {"agent", "adapter", "refund"} : Send(c, [what |-> w, org |-> o, user |-> u])
      BY <3>1, <3>2 DEF AskAgent, AskAdapter, AskRefund
    <3>4. member[u] = o
      BY <3>1, <3>2
         DEF AskAgent, AskAdapter, AskRefund, MayRegisterAgent, MayRegisterAdapter, Resolves, InScope
    <3>5. PICK r \in PlainRequests : r = [what |-> w, org |-> o, user |-> u]
      BY DEF PlainRequests
    <3>6. member[r.user] = r.org /\ Send(c, r)
      BY <3>3, <3>4, <3>5
    <3> QED BY <3>6, SendKeeps
  <2>8. CASE \E c \in Clients, o \in Orgs, v \in Users : AskUser(c, o, v, "member")
    <3>1. PICK c \in Clients, o \in Orgs, v \in Users : AskUser(c, o, v, "member")
      BY <2>8
    <3>2. PICK u \in Users : u = UserOf(token[c])
      BY <3>1, UserOfType DEF AskUser, CanSend
    <3>3. member[u] = o
      BY <3>1, <3>2 DEF AskUser, MayCreateUser, InScope
    <3>4. PICK r \in UserRequests :
              r = [what |-> "user", org |-> o, user |-> u, new |-> v, role |-> "member"]
      BY DEF UserRequests
    <3>5. member[r.user] = r.org /\ Send(c, r)
      BY <3>1, <3>2, <3>3, <3>4 DEF AskUser
    <3> QED BY <3>5, SendKeeps
  <2> QED BY <1>3, <2>1, <2>2, <2>3, <2>4, <2>5, <2>6, <2>7, <2>8 DEF NextGateway
<1> QED BY <1>1, <1>2, <1>3 DEF Next, Restart, service

LEMMA InitAccessInv == ASSUME InitAccess PROVE AccessInv
  BY DEF InitAccess, AccessInv

-----------------------------------------------------------------------------
(* The theorems.                                                           *)

LEMMA ServiceInvariant == Spec => [](PlaneInv /\ AccessInv)
<1>1. Init => PlaneInv /\ AccessInv
  BY InitPlaneInv, InitAccessInv DEF Init
<1>2. PlaneInv /\ AccessInv /\ [Next]_service => (PlaneInv /\ AccessInv)'
  BY NextKeepsPlane, NextKeepsAccess
<1> QED BY <1>1, <1>2, PTL DEF Spec

(***************************************************************************)
(* An update or a deletion of the row is carried out only over the balance *)
(* its manifest was prepared on, unless the row was inserted again in      *)
(* between, for every number of threads and manifests, compensations and   *)
(* restarts included (sqlite_db.py, commit and compensate).                *)
(***************************************************************************)
THEOREM BuiltOnWhatWasRead == Spec => []UpdatesBuildOnWhatTheyRead
<1>1. PlaneInv => UpdatesBuildOnWhatTheyRead
  BY DEF PlaneInv, RowInv, BuildsOnWhatItRead, UpdatesBuildOnWhatTheyRead
<1> QED BY <1>1, ServiceInvariant, PTL

(***************************************************************************)
(* A compensation manifest calls the adapter at most once and only on the  *)
(* effect it is bound to, and an original is COMPENSATED only after such a *)
(* call succeeded (engine/core.py, commit_compensation).                   *)
(***************************************************************************)
THEOREM HonestCompensation == Spec => []CompensationIsHonest
<1>1. PlaneInv => CompensationIsHonest
  BY DEF PlaneInv, OnceInv, ToldInv, CompensationIsHonest
<1> QED BY <1>1, ServiceInvariant, PTL

(***************************************************************************)
(* A commit shows the artifacts its grant was bound to, whatever replaced  *)
(* them under their ids, and the quorum a grant names is still behind it   *)
(* (api/routes.py, approve_with_quorum and execute_manifest).              *)
(***************************************************************************)
THEOREM BoundGrants == Spec => []GrantsStayBound
<1>1. PlaneInv => GrantsStayBound
  BY DEF PlaneInv, BoundInv, Behind, GrantsStayBound
<1> QED BY <1>1, ServiceInvariant, PTL

(***************************************************************************)
(* A passport that says committed, verified or compensated is about an     *)
(* effect that was carried out or undone, and so is the passport of a      *)
(* compensation that says attempted (passports/v2.py, passport.py).        *)
(***************************************************************************)
THEOREM HonestPassports == Spec => []PassportsAreHonest
<1>1. ASSUME PlaneInv, NEW id \in known
      PROVE  LET outcome == GetPassport(id).outcome IN
             /\ outcome \in {"committed_unverified", "verified_match", "verified_mismatch",
                             "compensation_verified"} => Happened(id)
             /\ outcome = "compensation_verified" => \E u \in undid : u.on = id /\ u.ok
  <2>1. Told(id)
    BY <1>1 DEF PlaneInv, MemoryTypes, ToldInv, Told
  <2>2. PICK p : p = BuildPassport(id)
    OBVIOUS
  <2>3. p.answer = results[id] /\ p.observed = proofs[id] /\ p.compensation = undone[id]
    BY <2>2 DEF BuildPassport
  <2>4. GetPassport(id).outcome = DeriveOutcomeStatus(p)
    BY <2>2 DEF GetPassport, UpgradePassport
  <2> QED BY <2>1, <2>3, <2>4 DEF DeriveOutcomeStatus, Told
<1>2. ASSUME PlaneInv, NEW id \in known, NEW c \in known \cap Comps,
             CompensationPassport(id, c).binds, CompensationPassport(id, c).status # "refused"
      PROVE  \E u \in undid : u.by = c /\ u.on = id /\ u.ok
  <2>1. Told(c) /\ c \notin Forward
    BY <1>2, ControlPlaneAssumption DEF PlaneInv, MemoryTypes, ToldInv, Told
  <2>2. proofs[c] = "match" \/ results[c] = "ok"
    BY <1>2 DEF CompensationPassport, DeriveCompensationStatus
  <2>3. Happened(c)
    BY <2>1, <2>2 DEF Told
  <2>4. PICK u \in undid : u.by = c /\ u.ok
    BY <1>2, <2>1, <2>3 DEF Happened, PlaneInv, RowInv
  <2>5. made[c].of = id
    BY <1>2 DEF CompensationPassport, BindsOriginal
  <2> QED BY <1>2, <2>4, <2>5 DEF PlaneInv, OnceInv
<1>3. PlaneInv => PassportsAreHonest
  BY <1>1, <1>2 DEF PassportsAreHonest
<1> QED BY <1>3, ServiceInvariant, PTL

-----------------------------------------------------------------------------

\* An adapter is called by a thread that is at work, in one of two steps.
LEMMA Callers ==
    ASSUME PlaneInv, [Next]_service, <<undid, applied>>' # <<undid, applied>>
    PROVE  /\ kill' = kill
           /\ \E t \in Threads : thread[t] # Idle /\ thread'[t] # thread[t]
<1>1. CASE \E t \in Threads : CommitCall(t)
  <2>1. PICK t \in Threads : CommitCall(t)
    BY <1>1
  <2>2. /\ thread[t] \in Jobs /\ thread[t].at = "checked" /\ kill' = kill
        /\ \E n : n.at # "checked" /\ thread' = [thread EXCEPT ![t] = n]
    BY <2>1 DEF CommitCall, Failed, Answer, Idle, memory, PlaneInv, JobsInv
  <2> QED BY <2>2 DEF Idle, PlaneInv, JobsInv
<1>2. CASE \E t \in Threads : CompensateCall(t)
  <2>1. PICK t \in Threads : CompensateCall(t)
    BY <1>2
  <2>2. /\ thread[t] \in Jobs /\ thread[t].at = "compensating" /\ kill' = kill
        /\ \E n : n.at # "compensating" /\ thread' = [thread EXCEPT ![t] = n]
    BY <2>1 DEF CompensateCall, Failed, Answer, Idle, memory, PlaneInv, JobsInv
  <2> QED BY <2>2 DEF Idle, PlaneInv, JobsInv
<1>3. NextRows => UNCHANGED <<undid, applied>> \/ \E t \in Threads : CompensateCall(t)
  BY DEF NextRows, PrepareManifest, ConsoleApprove, ApproveManifest, Register, Execute, VerifyManifest,
         PrepareCompensation, AuthorizeCompensation, ExecuteCompensation, CompensateEnter,
         CompensateCommitting, CompensateFinish, history
<1>4. NextDesk => UNCHANGED <<undid, applied>>
  BY DEF NextDesk, PrepareManifest, CreatePolicyBundle, CreateApprovalPolicyBundle,
         CreateSeparationPolicyBundle, StoreBundle, CreateEnvelope, CreateGraph, SubmitApproval,
         ApproveManifest, ApproveWithQuorum, Register, Execute, CommitEnter, history
<1>5. NextCommit => UNCHANGED <<undid, applied>> \/ \E t \in Threads : CommitCall(t)
  BY DEF NextCommit, CommitEnter, CommitCheck, CommitFinish
<1>6. NextSwitch \/ RestartPlane \/ UNCHANGED plane => UNCHANGED <<undid, applied>>
  BY DEF NextSwitch, RevokeGrant, KillSwitchEngage, KillSwitchDisengage, RestartPlane, plane, history
<1> QED BY <1>1, <1>2, <1>3, <1>4, <1>5, <1>6 DEF Next, Restart, service

(***************************************************************************)
(* While the kill switch is engaged, only threads that had passed its      *)
(* check before call an adapter, and each of them once at most             *)
(* (api/routes.py, execute_manifest and execute_compensation).             *)
(***************************************************************************)
THEOREM SwitchDrains == Spec => KillSwitchDrains
<1> DEFINE Drains == kill /\ <<undid, applied>>' # <<undid, applied>>
                     => \E t \in caught : thread'[t] # thread[t]
<1>1. PlaneInv /\ [Next]_service => [Drains]_plane
  BY Callers DEF PlaneInv, CaughtInv
<1> QED BY <1>1, ServiceInvariant, PTL DEF Spec, KillSwitchDrains

(***************************************************************************)
(* Outside its own bootstrap, what belongs to an organization changes only *)
(* by a request of one of its members (gateway/api.py, _assert_org_scope). *)
(***************************************************************************)
THEOREM MembersOnly == Spec => OnlyMembersAct
<1> DEFINE Acts == \A o \in Orgs :
                     Belongings(o)' # Belongings(o) /\ boot[o] = "none"
                     => \E c \in Clients : /\ pending[c] # NoRequest /\ pending'[c] = NoRequest
                                           /\ pending[c].org = o /\ member[pending[c].user] = o
<1>1. ASSUME AccessInv, NEW c \in Clients, Perform(c), NEW o \in Orgs,
             Belongings(o)' # Belongings(o)
      PROVE  /\ pending[c] # NoRequest /\ pending'[c] = NoRequest
             /\ pending[c].org = o /\ member[pending[c].user] = o
  <2>1. PICK r \in PlainRequests \cup UserRequests : r = pending[c] /\ r # NoRequest
    BY <1>1 DEF Perform, AccessInv
  <2>2. pending'[c] = NoRequest /\ member[r.user] = r.org
    BY <1>1, <2>1 DEF Perform, AccessInv
  <2>3. ASSUME r.org # o PROVE FALSE
    <3>1. \/ r.what = "user" /\ AddUser(r) /\ r.new \in Users
          \/ member' = member /\ holdings' = holdings
          \/ \E w : member' = member /\ holdings' = holdings \cup {<<r.org, w>>}
      BY <1>1, <2>1 DEF Perform, AddAgent, AddAdapter, AddRefund, Hold, PlainRequests, UserRequests
    <3>2. {u \in Users : member'[u] = o} = {u \in Users : member[u] = o}
      BY <1>1, <2>3, <3>1, AccessAssumption DEF AddUser, AccessInv
    <3>3. {h \in holdings' : h[1] = o} = {h \in holdings : h[1] = o}
      BY <2>3, <3>1 DEF AddUser
    <3> QED BY <1>1, <3>2, <3>3 DEF Belongings
  <2> QED BY <2>1, <2>2, <2>3
<1>2. ASSUME AccessInv, NEW p \in Orgs, CreateOwner(p), NEW o \in Orgs, boot[o] = "none"
      PROVE  Belongings(o)' = Belongings(o)
  <2>1. p # o /\ holdings' = holdings /\ OwnerOf(p) \in Users
    BY <1>2, AccessAssumption DEF CreateOwner
  <2>2. {u \in Users : member'[u] = o} = {u \in Users : member[u] = o}
    BY <1>2, <2>1, AccessAssumption DEF CreateOwner, AccessInv
  <2> QED BY <2>1, <2>2 DEF Belongings
<1>3. ASSUME UNCHANGED <<member, holdings>> PROVE \A o \in Orgs : Belongings(o)' = Belongings(o)
  BY <1>3 DEF Belongings
<1>4. [Next]_service =>
        \/ UNCHANGED <<member, holdings>>
        \/ \E c \in Clients : Perform(c)
        \/ \E p \in Orgs : CreateOwner(p)
  <2>1. NextGateway => \/ UNCHANGED <<member, holdings>>
                       \/ \E c \in Clients : Perform(c)
                       \/ \E p \in Orgs : CreateOwner(p)
    BY DEF NextGateway, CreateOrganization, CreateTenant, SetOrganizationStatus, Login, Logout, Expire,
           AskAgent, AskAdapter, AskRefund, AskUser, Send
  <2>2. RestartGateway \/ UNCHANGED access => UNCHANGED <<member, holdings>>
    BY DEF RestartGateway, access
  <2> QED BY <2>1, <2>2 DEF Next, Restart, service
<1>5. AccessInv /\ [Next]_service => [Acts]_access
  <2> SUFFICES ASSUME AccessInv, [Next]_service PROVE Acts
    OBVIOUS
  <2>1. CASE UNCHANGED <<member, holdings>>
    BY <1>3, <2>1
  <2>2. CASE \E c \in Clients : Perform(c)
    BY <1>1, <2>2
  <2>3. CASE \E p \in Orgs : CreateOwner(p)
    <3>1. PICK p \in Orgs : CreateOwner(p)
      BY <2>3
    <3>2. \A o \in Orgs : boot[o] = "none" => Belongings(o)' = Belongings(o)
      BY <1>2, <3>1
    <3> QED BY <3>2
  <2> QED BY <1>4, <2>1, <2>2, <2>3
<1> QED BY <1>5, ServiceInvariant, PTL DEF Spec, OnlyMembersAct
=============================================================================
