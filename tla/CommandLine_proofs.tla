------------------------ MODULE CommandLine_proofs ------------------------
(***************************************************************************)
(* What the commands promise each other, for every number of processes,    *)
(* manifests and grants, every operation and every order of the steps.     *)
(*                                                                         *)
(* The inductive invariant has three parts.  FilesInv: every file of a     *)
(* manifest, and every process that works on it, is there only after       *)
(* prepare stored a state, and a process carries a state that the engine   *)
(* reached.  RowInv: a statement that was applied to the row that is there *)
(* now has left a version behind it that its manifest does not expect.     *)
(* LineInv: as long as no seed has put its state back, a manifest has one  *)
(* executing and one compensating process, and the state in lifecycle.db   *)
(* says how often its statement was applied and undone.                    *)
(***************************************************************************)
EXTENDS CommandLine, SequenceTheorems, TLAPS

\* The step a command takes after it has seeded the lifecycle state.
Firsts == {"seal", "issue", "revoke", "admit", "verify", "compensate"}

\* The steps of a process that moved its manifest to COMMITTING.
Executing == {"intend", "check", "call", "finish", "committed"}

\* The steps of a process that moved its manifest to COMPENSATING.
Undoing == {"undo", "compensated", "failed"}

Steps == Firsts \cup Executing \cup Undoing
         \cup {"seed", "save", "saveGrant", "stop", "reserve", "committing"}

Files == {"sealed", "grant", "commit", "proof", "compensation", None}

Jobs == [at : Steps, m : Manifests, rec : LifecycleState, then : Firsts,
         g : Grants \cup {None}, file : Files, quorum : BOOLEAN]

Rows == [here : BOOLEAN, balance : Nat, version : Nat]

Effects == [operation : Operations, new : Nat, version : Nat, restore : BOOLEAN, previous : Nat]

GrantFiles == [of : Manifests, above : SUBSET Grants]

Types ==
    /\ row \in Rows
    /\ life \in [Manifests -> LifecycleState \cup {None}]
    /\ reached \in [Manifests -> SUBSET LifecycleState]
    /\ DOMAIN effect = Manifests /\ DOMAIN files = Manifests
    /\ grant \in [Grants -> GrantFiles \cup {None}]
    /\ job \in [Procs -> Jobs \cup {Idle}]
    /\ generation \in Nat
    /\ applied \in [Manifests -> Seq(Nat)]
    /\ undone \in [Manifests -> Nat]

\* The process p works on m.
On(p, m) == job[p] # Idle /\ job[p].m = m

FilesInv ==
    /\ \A m \in Manifests :
          /\ life[m] # None => life[m] \in reached[m] /\ effect[m] \in Effects
          /\ life[m] = None => effect[m] = None /\ files[m] = {} /\ applied[m] = <<>>
    /\ \A g \in Grants : grant[g] # None => life[grant[g].of] # None
    /\ \A p \in Procs : job[p] # Idle =>
          /\ life[job[p].m] # None
          /\ job[p].rec \in reached[job[p].m]
          /\ job[p].at \in Executing => job[p].rec = "committing"
          /\ job[p].at \in Undoing => job[p].rec = "compensating"

\* An application in generation n of the row leaves no row, or a version, that
\* the manifest would accept, until the row is inserted again.
Spent(m, n) ==
    \/ n < generation
    \/ /\ n = generation /\ effect[m].operation # "insert"
       /\ ~row.here \/ row.version > effect[m].version

RowInv ==
    \A m \in Manifests :
        /\ \A i \in DOMAIN applied[m] : Spent(m, applied[m][i])
        /\ \A i, k \in DOMAIN applied[m] : applied[m][i] = applied[m][k] => i = k

\* What a state in lifecycle.db says of the calls of commit and compensate.
Counts(state, done, back) ==
    /\ done <= 1 /\ back <= done
    /\ state \in {None, "proposed", "prepared", "sealed", "authorized", "revoked"} => done = 0
    /\ state \in {"committing", "committed", "verified"} => back = 0
    /\ state \in {"committed", "verified", "compensating", "compensated"} => done = 1

\* What the process p, at work on m, says of m.
Part(m, p) ==
    /\ job[p].at \in Executing => life[m] = "committing"
    /\ job[p].at \in {"intend", "check", "call"} => Len(applied[m]) = 0
    /\ job[p].at \in {"finish", "committed"} => Len(applied[m]) = 1
    /\ job[p].at \in Undoing => life[m] = "compensating"
    /\ job[p].at = "undo" => undone[m] = 0

\* The processes p and q do not do the same to m.
Apart(m, p, q) ==
    /\ ~ (job[p].at \in Executing /\ job[q].at \in Executing)
    /\ ~ (job[p].at \in Undoing /\ job[q].at \in Undoing)

Line(m) ==
    /\ Counts(life[m], Len(applied[m]), undone[m])
    /\ m \in stopped => life[m] = "revoked"
    /\ \A p \in Procs : On(p, m) => Part(m, p)
    /\ \A p, q \in Procs : p # q /\ On(p, m) /\ On(q, m) => Apart(m, p, q)

LineInv == \A m \in Manifests \ rewound : Line(m)

CommandLineInv == Types /\ FilesInv /\ RowInv /\ LineInv

-----------------------------------------------------------------------------
(* Operators of the model.                                                 *)

(***************************************************************************)
(* The moves of the lifecycle that commands make, by their target.         *)
(***************************************************************************)
LEMMA MovesTo ==
    ASSUME NEW c, NEW t, IsLegalTransition(c, t)
    PROVE  /\ c \in LifecycleState /\ t \in LifecycleState
           /\ t = "sealed" => c = "prepared"
           /\ t = "authorized" => c = "sealed"
           /\ t = "committing" => c = "authorized"
           /\ t = "committed" => c = "committing"
           /\ t = "verified" => c = "committed"
           /\ t = "compensating" => c = "verified"
           /\ c = "committing" => t \in {"committed", "failed"}
           /\ c = "compensating" => t \in {"compensated", "failed"}
  BY DEF IsLegalTransition, TRANSITIONS, LifecycleState

(***************************************************************************)
(* A statement that is applied finds the row it expects, and an insert no  *)
(* row; the row it leaves is one it would not accept.                      *)
(***************************************************************************)
LEMMA Application ==
    ASSUME NEW e \in Effects, NEW r \in Rows, CommitRow(e, r).success
    PROVE  /\ CommitRow(e, r).row \in Rows
           /\ e.operation = "insert" => ~r.here
           /\ e.operation # "insert" => /\ r.here /\ r.version = e.version
                                        /\ \/ ~CommitRow(e, r).row.here
                                           \/ CommitRow(e, r).row.version = r.version + 1
<1>1. Satisfied(e, r)
  BY DEF CommitRow
<1>2. e.operation \in Operations /\ e.new \in Nat /\ r.version \in Nat
  BY DEF Effects, Rows
<1>3. CASE e.operation = "insert"
  BY <1>1, <1>2, <1>3 DEF CommitRow, Satisfied, Row, Rows
<1>4. CASE e.operation = "update"
  BY <1>1, <1>2, <1>4 DEF CommitRow, Satisfied, Row, Rows
<1>5. CASE e.operation = "delete"
  BY <1>1, <1>2, <1>5 DEF CommitRow, Satisfied, Absent, Rows
<1> QED BY <1>2, <1>3, <1>4, <1>5 DEF Operations

(***************************************************************************)
(* A compensation leaves the row, removes it, or raises its version.       *)
(***************************************************************************)
LEMMA Compensation ==
    ASSUME NEW e \in Effects, NEW r \in Rows, NEW s, s \in {r, CompensateRow(e, r).row}
    PROVE  /\ s \in Rows
           /\ s = r \/ ~s.here \/ (r.here /\ s.version = r.version + 1)
<1>1. r.version \in Nat /\ e.previous \in Nat
  BY DEF Rows, Effects
<1>2. CASE s = r
  BY <1>2
<1>3. CASE s = Absent
  BY <1>3 DEF Absent, Rows
<1>4. CASE s = Row(e.previous, r.version + 1) /\ r.here
  BY <1>1, <1>4 DEF Row, Rows
<1> QED BY <1>2, <1>3, <1>4 DEF CompensateRow, RestoreBalance

(***************************************************************************)
(* What prepare records is an effect.                                      *)
(***************************************************************************)
LEMMA Preparation ==
    ASSUME NEW operation \in Operations, NEW new \in Nat, NEW r \in Rows
    PROVE  PrepareRow(operation, new, r) \in Effects
  BY DEF PrepareRow, Effects, Rows

-----------------------------------------------------------------------------
(* RowInv, and the steps that are about one process.                       *)

(***************************************************************************)
(* RowInv is about the row, its generation and what was applied.           *)
(***************************************************************************)
LEMMA RowLasts ==
    ASSUME RowInv, UNCHANGED <<row, generation, applied, effect>>
    PROVE  RowInv'
  BY DEF RowInv, Spent

(***************************************************************************)
(* A step of a process that leaves the lifecycle alone: the process ends,  *)
(* or goes on with the same record within the same part of its command.    *)
(***************************************************************************)
SamePart(a, b) ==
    /\ b \in Executing => a \in Executing
    /\ b \in {"intend", "check", "call"} => a \in {"intend", "check", "call"}
    /\ b \in {"finish", "committed"} => a \in {"finish", "committed"}
    /\ b \notin Undoing

\* The files of a manifest and its grants are there only after prepare.
FilesAfterPrepare ==
    /\ DOMAIN files = Manifests
    /\ grant \in [Grants -> GrantFiles \cup {None}]
    /\ \A m \in Manifests : life[m] = None => files[m] = {}
    /\ \A g \in Grants : grant[g] # None => life[grant[g].of] # None

LEMMA QuietKeeps ==
    ASSUME CommandLineInv, NEW p \in Procs, NEW x \in Jobs \cup {Idle},
           job' = [job EXCEPT ![p] = x],
           x = Idle \/ (/\ job[p] # Idle /\ x.m = job[p].m /\ x.rec = job[p].rec
                        /\ SamePart(job[p].at, x.at)),
           UNCHANGED <<row, life, reached, effect, generation, applied, undone, rewound, stopped>>,
           FilesAfterPrepare'
    PROVE  CommandLineInv'
<1>1. RowInv'
  BY RowLasts DEF CommandLineInv
<1>2. Types'
  BY DEF CommandLineInv, Types, FilesAfterPrepare
<1>3. job'[p] = x /\ \A q \in Procs \ {p} : job'[q] = job[q]
  BY DEF CommandLineInv, Types
<1>4. FilesInv'
  BY <1>3 DEF CommandLineInv, FilesInv, FilesAfterPrepare, SamePart
<1>5. LineInv'
  <2> SUFFICES ASSUME NEW m \in Manifests \ rewound PROVE Line(m)'
    BY DEF LineInv
  <2>1. Line(m)
    BY DEF CommandLineInv, LineInv
  <2>2. \A q \in Procs : On(q, m)' => On(q, m) /\ (q # p => job'[q] = job[q])
    BY <1>3 DEF On
  <2>3. On(p, m)' => SamePart(job[p].at, job'[p].at)
    BY <1>3 DEF On
  <2>4. ASSUME NEW q \in Procs, On(q, m)' PROVE Part(m, q)'
    BY <2>1, <2>2, <2>3, <2>4 DEF Line, Part, SamePart, Undoing
  <2>5. ASSUME NEW q \in Procs, NEW r \in Procs, q # r, On(q, m)', On(r, m)'
        PROVE  Apart(m, q, r)'
    BY <2>1, <2>2, <2>3, <2>5 DEF Line, Apart, SamePart
  <2> QED BY <2>1, <2>4, <2>5 DEF Line
<1> QED BY <1>1, <1>2, <1>4, <1>5 DEF CommandLineInv

LEMMA FilesUnchanged ==
    ASSUME CommandLineInv, UNCHANGED <<life, files, grant>>
    PROVE  FilesAfterPrepare'
  BY DEF CommandLineInv, Types, FilesInv, FilesAfterPrepare

(***************************************************************************)
(* The record of a process at work.                                        *)
(***************************************************************************)
LEMMA JobTypes ==
    ASSUME CommandLineInv, NEW p \in Procs, job[p] # Idle
    PROVE  /\ job[p] \in Jobs /\ job[p].m \in Manifests /\ job[p].rec \in LifecycleState
           /\ job[p].at \in Steps /\ job[p].then \in Firsts
           /\ life[job[p].m] # None /\ effect[job[p].m] \in Effects
  BY DEF CommandLineInv, Types, FilesInv, Jobs

LEMMA AtWork ==
    ASSUME CommandLineInv, NEW p \in Procs, job[p].at # "idle"
    PROVE  job[p] # Idle
  BY DEF Idle

(***************************************************************************)
(* The other manifests do not notice what a process does to its own.       *)
(***************************************************************************)
LEMMA OthersKeep ==
    ASSUME CommandLineInv, NEW p \in Procs, NEW m \in Manifests, NEW k \in Manifests \ rewound,
           k # m,
           On(p, k)' => job'[p] = job[p],
           \A q \in Procs \ {p} : job'[q] = job[q],
           life'[k] = life[k], applied'[k] = applied[k], undone'[k] = undone[k],
           k \in stopped' => k \in stopped
    PROVE  Line(k)'
<1>1. Line(k)
  BY DEF CommandLineInv, LineInv
<1>2. \A q \in Procs : On(q, k)' => On(q, k) /\ job'[q] = job[q]
  BY DEF On
<1>3. \A q \in Procs : On(q, k)' => Part(k, q)'
  BY <1>1, <1>2 DEF Line, Part
<1>4. \A q, r \in Procs : q # r /\ On(q, k)' /\ On(r, k)' => Apart(k, q, r)'
  BY <1>1, <1>2 DEF Line, Apart
<1> QED BY <1>1, <1>3, <1>4 DEF Line

(***************************************************************************)
(* The transitions that end a part of a command, and how they fit the      *)
(* step they are made in.                                                  *)
(***************************************************************************)
Fits(at, target, next) ==
    /\ target \in {"sealed", "authorized", "committing", "committed", "verified", "failed",
                   "compensating", "compensated"}
    /\ target = "committing" => next = "intend"
    /\ target = "compensating" => next = "undo"
    /\ target \notin {"committing", "compensating"} => next \in {"idle", "save", "saveGrant"}
    /\ target = "committed" => at = "committed"
    /\ target = "failed" => at \in Executing \cup Undoing
    /\ target = "compensated" => at \in Undoing

(***************************************************************************)
(* A transition, refused or not; the call that failed may have applied its *)
(* statement first.                                                        *)
(***************************************************************************)
LEMMA MoveKeeps ==
    ASSUME CommandLineInv, NEW p \in Procs, job[p] # Idle,
           NEW target, NEW next, Fits(job[p].at, target, next),
           Transition(p, target, next),
           UNCHANGED <<effect, files, grant, undone, rewound, stopped>>,
           row' \in Rows, generation' \in Nat, RowInv',
           applied' \in [Manifests -> Seq(Nat)],
           \A k \in Manifests \ {job[p].m} : applied'[k] = applied[k],
           \/ applied'[job[p].m] = applied[job[p].m]
           \/ /\ job[p].at = "call" /\ target = "failed"
              /\ Len(applied'[job[p].m]) = Len(applied[job[p].m]) + 1
    PROVE  CommandLineInv'
<1>1. PICK x \in Jobs : x = job[p]
  BY JobTypes
<1>2. PICK m \in Manifests : m = x.m /\ m = job[p].m
  BY <1>1, JobTypes
<1>3. PICK y : y = IF CanMove(p, target) /\ next # "idle"
                   THEN [x EXCEPT !.at = next, !.rec = target] ELSE Idle
  OBVIOUS
<1>4. target \in LifecycleState
  BY DEF Fits, LifecycleState
<1>5. job' = [job EXCEPT ![p] = y]
  <2>1. CASE CanMove(p, target) /\ next # "idle"
    BY <1>1, <1>3, <2>1 DEF Transition, CommandLineInv, Types
  <2>2. CASE ~ (CanMove(p, target) /\ next # "idle")
    BY <1>1, <1>3, <2>2 DEF Transition, Ends
  <2> QED BY <2>1, <2>2
<1>6. /\ y \in Jobs \cup {Idle}
      /\ y # Idle => /\ CanMove(p, target) /\ y.m = m /\ y.at = next /\ y.rec = target
                     /\ next \in {"intend", "undo", "save", "saveGrant"}
  <2>1. CASE CanMove(p, target) /\ next # "idle"
    <3>1. next \in Steps /\ next \in {"intend", "undo", "save", "saveGrant"}
      BY <2>1 DEF Fits, Steps, Executing, Undoing
    <3>2. y \in Jobs /\ y.m = m /\ y.at = next /\ y.rec = target
      BY <1>2, <1>3, <1>4, <2>1, <3>1 DEF Jobs
    <3> QED BY <2>1, <3>1, <3>2
  <2>2. CASE ~ (CanMove(p, target) /\ next # "idle")
    BY <1>3, <2>2
  <2> QED BY <2>1, <2>2
<1>7. job'[p] = y /\ \A q \in Procs \ {p} : job'[q] = job[q]
  BY <1>5 DEF CommandLineInv, Types
<1>8. /\ CanMove(p, target) => /\ life' = [life EXCEPT ![m] = target]
                               /\ reached' = [reached EXCEPT ![m] = @ \cup {target}]
      /\ ~ CanMove(p, target) => life' = life /\ reached' = reached
  BY <1>2 DEF Transition, Moved, Refused
<1>9. Types'
  <2>1. life' \in [Manifests -> LifecycleState \cup {None}]
        /\ reached' \in [Manifests -> SUBSET LifecycleState]
    <3>1. CASE CanMove(p, target)
      <4>1. life' \in [Manifests -> LifecycleState \cup {None}]
        BY <1>4, <1>8, <3>1 DEF CommandLineInv, Types
      <4>2. reached[m] \cup {target} \in SUBSET LifecycleState
        BY <1>4 DEF CommandLineInv, Types
      <4>3. reached' \in [Manifests -> SUBSET LifecycleState]
        BY <1>8, <3>1, <4>2 DEF CommandLineInv, Types
      <4> QED BY <4>1, <4>3
    <3>2. CASE ~ CanMove(p, target)
      BY <1>8, <3>2 DEF CommandLineInv, Types
    <3> QED BY <3>1, <3>2
  <2>2. job' \in [Procs -> Jobs \cup {Idle}]
    BY <1>5, <1>6 DEF CommandLineInv, Types
  <2> QED BY <2>1, <2>2 DEF CommandLineInv, Types
<1>10. /\ \A k \in Manifests : reached[k] \subseteq reached'[k]
       /\ \A k \in Manifests : life'[k] = None <=> life[k] = None
       /\ life[m] # None /\ life'[m] \in reached'[m]
       /\ y # Idle => target \in reached'[m]
       /\ \A k \in Manifests \ {m} : life'[k] = life[k] /\ reached'[k] = reached[k]
  <2>1. life[m] # None /\ life[m] \in reached[m]
    BY <1>2, JobTypes DEF CommandLineInv, FilesInv
  <2>2. target # None
    BY <1>4, CommandLineAssumption
  <2>3. CASE CanMove(p, target)
    BY <1>8, <2>1, <2>2, <2>3 DEF CommandLineInv, Types
  <2>4. CASE ~ CanMove(p, target)
    BY <1>6, <1>8, <2>1, <2>4
  <2> QED BY <2>3, <2>4
<1>11. FilesInv'
  <2>1. ASSUME NEW k \in Manifests
        PROVE  /\ life'[k] # None => life'[k] \in reached'[k] /\ effect'[k] \in Effects
               /\ life'[k] = None => effect'[k] = None /\ files'[k] = {} /\ applied'[k] = <<>>
    <3>1. CASE k = m
      BY <1>2, <1>10, <3>1 DEF CommandLineInv, FilesInv
    <3>2. CASE k # m
      BY <1>2, <1>10, <3>2 DEF CommandLineInv, FilesInv
    <3> QED BY <3>1, <3>2
  <2>2. ASSUME NEW g \in Grants, grant'[g] # None PROVE life'[grant'[g].of] # None
    BY <1>10, <2>2 DEF CommandLineInv, FilesInv, Types, GrantFiles
  <2>3. ASSUME NEW q \in Procs, job'[q] # Idle
        PROVE  /\ life'[job'[q].m] # None
               /\ job'[q].rec \in reached'[job'[q].m]
               /\ job'[q].at \in Executing => job'[q].rec = "committing"
               /\ job'[q].at \in Undoing => job'[q].rec = "compensating"
    <3>1. CASE q = p
      BY <1>6, <1>7, <1>10, <2>3, <3>1 DEF Fits, Executing, Undoing
    <3>2. CASE q # p
      <4>1. job'[q] = job[q] /\ job[q].m \in Manifests
        BY <1>7, <2>3, <3>2, JobTypes
      <4>2. /\ life[job[q].m] # None /\ job[q].rec \in reached[job[q].m]
            /\ job[q].at \in Executing => job[q].rec = "committing"
            /\ job[q].at \in Undoing => job[q].rec = "compensating"
        BY <2>3, <4>1 DEF CommandLineInv, FilesInv
      <4> QED BY <1>10, <4>1, <4>2
    <3> QED BY <3>1, <3>2
  <2> QED BY <2>1, <2>2, <2>3 DEF FilesInv
<1>12. ASSUME NEW k \in Manifests \ rewound PROVE Line(k)'
  <2>1. CASE k # m
    <3>1. On(p, k)' => job'[p] = job[p]
      BY <1>6, <1>7, <2>1 DEF On
    <3> QED BY <1>2, <1>7, <1>10, <2>1, <3>1, OthersKeep
  <2>2. CASE k = m
    <3> SUFFICES Line(m)'
      BY <2>2
    <3>1. Line(m)
      BY <1>12, <2>2 DEF CommandLineInv, LineInv
    <3>2. On(p, m) /\ Part(m, p) /\ x.rec \in LifecycleState /\ job[p] = x
          /\ (x.at \in Executing => x.rec = "committing")
          /\ (x.at \in Undoing => x.rec = "compensating")
      BY <1>1, <1>2, <3>1 DEF Line, On, CommandLineInv, FilesInv, Jobs
    <3>3. CASE CanMove(p, target)
      <4>1. life[m] = x.rec /\ life'[m] = target /\ IsLegalTransition(x.rec, target)
        BY <1>1, <1>2, <1>8, <3>3 DEF CanMove, Persists, CommandLineInv, Types
      <4>2. \A q \in Procs \ {p} : On(q, m)' => /\ On(q, m) /\ job'[q] = job[q]
                                                /\ job[q].at \notin Executing \cup Undoing
        <5> SUFFICES ASSUME NEW q \in Procs \ {p}, On(q, m)'
                     PROVE  On(q, m) /\ job'[q] = job[q] /\ job[q].at \notin Executing \cup Undoing
          OBVIOUS
        <5>1. On(q, m) /\ job'[q] = job[q]
          BY <1>7 DEF On
        <5>2. Part(m, q) /\ Apart(m, p, q)
          BY <3>1, <3>2, <5>1 DEF Line
        <5>3. x.rec = "committing" => x.at \in Executing
          BY <3>2, <4>1, MovesTo DEF Fits, Executing
        <5>4. x.rec = "compensating" => x.at \in Undoing
          BY <3>2, <4>1, MovesTo DEF Fits
        <5> QED BY <3>2, <4>1, <5>1, <5>2, <5>3, <5>4 DEF Part, Apart
      <4>3. Len(applied[m]) \in Nat /\ undone[m] \in Nat
        BY DEF CommandLineInv, Types
      <4>4. Counts(life[m], Len(applied[m]), undone[m])' /\ m \notin stopped'
        <5>1. Counts(life[m], Len(applied[m]), undone[m]) /\ (m \in stopped => life[m] = "revoked")
          BY <3>1 DEF Line
        <5>2. x.rec # "revoked"
          BY <4>1 DEF IsLegalTransition, TRANSITIONS
        <5>3. Counts(target, Len(applied'[m]), undone[m])
          <6>1. CASE target = "failed"
            <7>1. x.at \in Executing \cup Undoing
              BY <3>2, <6>1 DEF Fits
            <7> QED BY <1>2, <3>2, <4>1, <4>3, <5>1, <6>1, <7>1, CommandLineAssumption
                    DEF Counts, Part, LifecycleState, Undoing
          <6>2. CASE target = "committed"
            BY <1>2, <3>2, <4>1, <4>3, <5>1, <6>2, CommandLineAssumption
            DEF Counts, Part, Fits, Executing, LifecycleState
          <6>3. CASE target = "compensated"
            BY <1>2, <3>2, <4>1, <4>3, <5>1, <6>3, CommandLineAssumption
            DEF Counts, Part, Fits, Undoing, LifecycleState
          <6>4. CASE target \in {"sealed", "authorized", "committing", "verified", "compensating"}
            BY <1>2, <3>2, <4>1, <4>3, <5>1, <6>4, MovesTo, CommandLineAssumption
            DEF Counts, LifecycleState
          <6> QED BY <6>1, <6>2, <6>3, <6>4 DEF Fits
        <5> QED BY <4>1, <5>1, <5>2, <5>3
      <4>5. On(p, m)' => Part(m, p)'
        <5>1. CASE y = Idle
          BY <1>7, <5>1 DEF On
        <5>2. CASE y # Idle /\ target = "committing"
          <6>1. life[m] = "authorized" /\ applied'[m] = applied[m]
            BY <1>2, <4>1, <5>2, MovesTo
          <6> QED BY <1>6, <1>7, <3>1, <4>1, <5>2, <6>1
                  DEF Part, Line, Counts, Fits, Executing, Undoing
        <5>3. CASE y # Idle /\ target = "compensating"
          <6>1. life[m] = "verified" /\ undone'[m] = undone[m]
            BY <1>2, <4>1, <5>3, MovesTo
          <6> QED BY <1>6, <1>7, <3>1, <4>1, <5>3, <6>1
                  DEF Part, Line, Counts, Fits, Executing, Undoing
        <5>4. CASE y # Idle /\ target \notin {"committing", "compensating"}
          BY <1>6, <1>7, <5>4 DEF Part, Fits, Executing, Undoing
        <5> QED BY <5>1, <5>2, <5>3, <5>4
      <4>6. \A q \in Procs : On(q, m)' => Part(m, q)'
        BY <4>2, <4>5 DEF Part, Executing, Undoing
      <4>7. \A q, r \in Procs : q # r /\ On(q, m)' /\ On(r, m)' => Apart(m, q, r)'
        BY <4>2 DEF Apart
      <4> QED BY <4>4, <4>6, <4>7 DEF Line
    <3>4. CASE ~ CanMove(p, target)
      <4>1. \A q \in Procs : On(q, m)' => q # p /\ On(q, m) /\ job'[q] = job[q]
        BY <1>6, <1>7, <3>4 DEF On
      <4>2. life'[m] = life[m] /\ undone' = undone /\ stopped' = stopped
        BY <1>8, <3>4
      <4>3. CASE applied'[m] = applied[m]
        <5>1. \A q \in Procs : On(q, m)' => Part(m, q)'
          BY <3>1, <4>1, <4>2, <4>3 DEF Line, Part
        <5>2. \A q, r \in Procs : q # r /\ On(q, m)' /\ On(r, m)' => Apart(m, q, r)'
          BY <3>1, <4>1 DEF Line, Apart
        <5> QED BY <3>1, <4>2, <4>3, <5>1, <5>2 DEF Line
      <4>4. CASE x.at = "call" /\ Len(applied'[m]) = Len(applied[m]) + 1
        <5>1. x.at \in Executing /\ Len(applied[m]) = 0 /\ Len(applied'[m]) = 1
              /\ life[m] = "committing" /\ undone[m] = 0
          BY <3>1, <3>2, <4>4 DEF Part, Executing, Line, Counts, CommandLineInv, Types
        <5>2. \A q \in Procs : On(q, m)' => job[q].at \notin Executing
          BY <3>1, <3>2, <4>1, <5>1 DEF Line, Apart
        <5>3. Counts(life[m], Len(applied[m]), undone[m])'
          BY <4>2, <5>1, CommandLineAssumption DEF Counts, LifecycleState
        <5>4. \A q \in Procs : On(q, m)' => Part(m, q)'
          BY <3>1, <4>1, <4>2, <5>2 DEF Part, Line, Executing
        <5>5. \A q, r \in Procs : q # r /\ On(q, m)' /\ On(r, m)' => Apart(m, q, r)'
          BY <3>1, <4>1 DEF Line, Apart
        <5> QED BY <3>1, <4>2, <5>3, <5>4, <5>5 DEF Line
      <4> QED BY <1>1, <1>2, <4>3, <4>4
    <3> QED BY <3>3, <3>4
  <2> QED BY <2>1, <2>2
<1> QED BY <1>9, <1>11, <1>12 DEF CommandLineInv, LineInv

-----------------------------------------------------------------------------
(* One lemma per step.                                                     *)

(***************************************************************************)
(* The next step of a process, and its end.                                *)
(***************************************************************************)
LEMMA GoesOn ==
    ASSUME CommandLineInv, NEW p \in Procs, job[p] # Idle, NEW step \in Steps, Goes(p, step)
    PROVE  \E x \in Jobs : /\ job' = [job EXCEPT ![p] = x] /\ x = [job[p] EXCEPT !.at = step]
                           /\ x.m = job[p].m /\ x.rec = job[p].rec /\ x.at = step
<1>1. job[p] \in Jobs
  BY JobTypes
<1>2. PICK x : x = [job[p] EXCEPT !.at = step]
  OBVIOUS
<1>3. x \in Jobs /\ x.m = job[p].m /\ x.rec = job[p].rec /\ x.at = step
  BY <1>1, <1>2 DEF Jobs
<1>4. job' = [job EXCEPT ![p] = x]
  BY <1>2 DEF Goes, CommandLineInv, Types
<1> QED BY <1>2, <1>3, <1>4

QuietVars == <<row, life, reached, effect, generation, applied, undone, rewound, stopped>>

LEMMA GoesQuietly ==
    ASSUME CommandLineInv, NEW p \in Procs, job[p] # Idle, NEW step \in Steps, Goes(p, step),
           SamePart(job[p].at, step), UNCHANGED QuietVars, UNCHANGED <<files, grant>>
    PROVE  CommandLineInv'
<1>1. PICK x \in Jobs : /\ job' = [job EXCEPT ![p] = x]
                        /\ x.m = job[p].m /\ x.rec = job[p].rec /\ x.at = step
  BY GoesOn
<1> QED BY <1>1, QuietKeeps, FilesUnchanged DEF QuietVars

LEMMA EndsQuietly ==
    ASSUME CommandLineInv, NEW p \in Procs, Ends(p), UNCHANGED QuietVars, FilesAfterPrepare'
    PROVE  CommandLineInv'
  BY QuietKeeps DEF Ends, QuietVars

LEMMA CrashKeeps ==
    ASSUME CommandLineInv, NEW p \in Procs, Crash(p)
    PROVE  CommandLineInv'
  BY EndsQuietly, FilesUnchanged DEF Crash, moves, disk, seeds, ghosts, QuietVars

LEMMA SaveKeeps ==
    ASSUME CommandLineInv, NEW p \in Procs, Save(p)
    PROVE  CommandLineInv'
<1>1. job[p] # Idle
  BY AtWork DEF Save
<1>2. life[job[p].m] # None
  BY <1>1, JobTypes
<1>3. FilesAfterPrepare'
  BY <1>2 DEF Save, moves, CommandLineInv, Types, FilesInv, FilesAfterPrepare
<1> QED BY <1>3, EndsQuietly DEF Save, moves, seeds, ghosts, QuietVars

LEMMA NewGrantFile ==
    ASSUME CommandLineInv, NEW h, NEW y \in GrantFiles, life[y.of] # None,
           grant' = [grant EXCEPT ![h] = y], UNCHANGED <<life, files>>
    PROVE  FilesAfterPrepare'
<1>1. grant' \in [Grants -> GrantFiles \cup {None}]
  BY DEF CommandLineInv, Types
<1>2. ASSUME NEW g \in Grants, grant'[g] # None PROVE life'[grant'[g].of] # None
  <2>1. grant'[g] = y \/ grant'[g] = grant[g]
    BY DEF CommandLineInv, Types
  <2> QED BY <1>2, <2>1 DEF CommandLineInv, FilesInv
<1> QED BY <1>1, <1>2 DEF CommandLineInv, Types, FilesInv, FilesAfterPrepare

LEMMA SaveGrantKeeps ==
    ASSUME CommandLineInv, NEW p \in Procs, SaveGrant(p)
    PROVE  CommandLineInv'
<1>1. job[p] # Idle
  BY AtWork DEF SaveGrant
<1>2. PICK m \in Manifests : m = job[p].m /\ life[m] # None
  BY <1>1, JobTypes
<1>3. PICK y \in GrantFiles : y = [of |-> m, above |-> {}]
  BY DEF GrantFiles
<1>4. PICK h : h = job[p].g
  OBVIOUS
<1>5. FilesAfterPrepare'
  <2>1. /\ grant' = [grant EXCEPT ![h] = y] /\ y.of = m /\ life[y.of] # None
        /\ UNCHANGED <<life, files>>
    BY <1>2, <1>3, <1>4 DEF SaveGrant, moves
  <2> QED BY <2>1, NewGrantFile
<1> QED BY <1>5, EndsQuietly DEF SaveGrant, moves, seeds, ghosts, QuietVars

LEMMA DelegateKeeps ==
    ASSUME CommandLineInv, NEW g \in Grants, NEW child \in Grants, Delegate(g, child)
    PROVE  CommandLineInv'
<1>1. PICK x \in GrantFiles : x = grant[g] /\ life[x.of] # None
  BY DEF Delegate, CommandLineInv, Types, FilesInv
<1>2. PICK y : y = [of |-> x.of, above |-> x.above \cup {g}]
  OBVIOUS
<1>3. y \in GrantFiles /\ y.of = x.of
  BY <1>1, <1>2 DEF GrantFiles
<1>4. grant' = [grant EXCEPT ![child] = y]
  BY <1>1, <1>2 DEF Delegate
<1>5. FilesAfterPrepare'
  <2>1. UNCHANGED <<life, files>> /\ life[y.of] # None
    BY <1>1, <1>3 DEF Delegate, moves
  <2> QED BY <1>3, <1>4, <2>1, NewGrantFile
<1>6. UNCHANGED <<QuietVars, job>>
  BY DEF Delegate, moves, seeds, ghosts, QuietVars
<1>7. RowInv'
  BY <1>6, RowLasts DEF CommandLineInv, QuietVars
<1>8. Types' /\ FilesInv'
  BY <1>5, <1>6 DEF CommandLineInv, QuietVars, FilesAfterPrepare, Types, FilesInv
<1>9. LineInv'
  BY <1>6 DEF CommandLineInv, QuietVars, LineInv, Line, On, Part, Apart
<1> QED BY <1>7, <1>8, <1>9 DEF CommandLineInv

\* Nothing that the invariant is about changes.
LEMMA StutterKeeps ==
    ASSUME CommandLineInv, UNCHANGED <<QuietVars, job, files, grant>>
    PROVE  CommandLineInv'
<1>1. RowInv'
  BY RowLasts DEF CommandLineInv, QuietVars
<1>2. Types' /\ FilesInv'
  BY DEF CommandLineInv, QuietVars, Types, FilesInv
<1>3. LineInv'
  BY DEF CommandLineInv, QuietVars, LineInv, Line, On, Part, Apart
<1> QED BY <1>1, <1>2, <1>3 DEF CommandLineInv

LEMMA ApproveKeeps ==
    ASSUME CommandLineInv, NEW m \in Manifests, NEW who, NEW d, Approve(m, who, d)
    PROVE  CommandLineInv'
  BY StutterKeeps DEF Approve, moves, seeds, ghosts, QuietVars

LEMMA RevokeGrantOnlyKeeps ==
    ASSUME CommandLineInv, NEW g \in Grants, RevokeGrantOnly(g)
    PROVE  CommandLineInv'
  BY StutterKeeps DEF RevokeGrantOnly, moves, disk, seeds, ghosts, QuietVars

(***************************************************************************)
(* prepare gives a manifest its first state; nobody works on it yet.       *)
(***************************************************************************)
LEMMA PrepareKeeps ==
    ASSUME CommandLineInv, NEW p \in Procs, NEW m \in Manifests, NEW operation \in Wanted,
           NEW new \in Nat, Prepare(p, m, operation, new)
    PROVE  CommandLineInv'
<1>1. PICK e \in Effects : effect' = [effect EXCEPT ![m] = e]
  BY Preparation, CommandLineAssumption DEF Prepare, CommandLineInv, Types
<1>2. /\ life' = [life EXCEPT ![m] = "prepared"] /\ life[m] = None
      /\ reached' = [reached EXCEPT ![m] = @ \cup {"prepared"}]
      /\ UNCHANGED <<row, files, grant, job, generation, applied, undone, rewound, stopped>>
  BY DEF Prepare, Moved, seeds, ghosts
<1>3. \A k \in Manifests \ {m} : life'[k] = life[k] /\ reached'[k] = reached[k]
                                 /\ effect'[k] = effect[k]
  BY <1>1, <1>2 DEF CommandLineInv, Types
<1>4. /\ life'[m] = "prepared" /\ effect'[m] = e /\ "prepared" \in reached'[m]
      /\ "prepared" \in LifecycleState /\ "prepared" # None /\ reached[m] \subseteq reached'[m]
  BY <1>1, <1>2, CommandLineAssumption DEF CommandLineInv, Types, LifecycleState
<1>5. Types'
  <2>1. reached[m] \cup {"prepared"} \in SUBSET LifecycleState
    BY <1>4 DEF CommandLineInv, Types
  <2>2. reached' \in [Manifests -> SUBSET LifecycleState]
    BY <1>2, <2>1 DEF CommandLineInv, Types
  <2>3. life' \in [Manifests -> LifecycleState \cup {None}]
    BY <1>2, <1>4 DEF CommandLineInv, Types
  <2>4. DOMAIN effect' = Manifests
    BY <1>1 DEF CommandLineInv, Types
  <2> QED BY <1>2, <2>2, <2>3, <2>4 DEF CommandLineInv, Types
<1>6. \A q \in Procs : job[q] # Idle => job[q].m # m
  BY <1>2 DEF CommandLineInv, FilesInv
<1>7. FilesInv'
  <2>1. \A k \in Manifests :
          /\ life'[k] # None => life'[k] \in reached'[k] /\ effect'[k] \in Effects
          /\ life'[k] = None => effect'[k] = None /\ files'[k] = {} /\ applied'[k] = <<>>
    BY <1>2, <1>3, <1>4 DEF CommandLineInv, FilesInv
  <2>2. ASSUME NEW g \in Grants, grant'[g] # None PROVE life'[grant'[g].of] # None
    BY <1>2, <1>3, <1>4, <2>2 DEF CommandLineInv, FilesInv, Types, GrantFiles
  <2>3. ASSUME NEW q \in Procs, job'[q] # Idle
        PROVE  /\ life'[job'[q].m] # None
               /\ job'[q].rec \in reached'[job'[q].m]
               /\ job'[q].at \in Executing => job'[q].rec = "committing"
               /\ job'[q].at \in Undoing => job'[q].rec = "compensating"
    <3>1. job'[q] = job[q] /\ job[q].m \in Manifests \ {m}
      BY <1>2, <1>6, <2>3, JobTypes
    <3> QED BY <1>3, <2>3, <3>1 DEF CommandLineInv, FilesInv
  <2> QED BY <2>1, <2>2, <2>3 DEF FilesInv
<1>8. RowInv'
  <2> SUFFICES ASSUME NEW k \in Manifests
               PROVE  /\ \A i \in DOMAIN applied[k] : Spent(k, applied[k][i])'
                      /\ \A i, l \in DOMAIN applied[k] : applied[k][i] = applied[k][l] => i = l
    BY <1>2 DEF RowInv
  <2>1. CASE k = m
    <3>1. applied[m] = << >>
      BY <1>2 DEF CommandLineInv, FilesInv
    <3> QED BY <2>1, <3>1
  <2>2. CASE k # m
    BY <1>2, <1>3, <2>2 DEF CommandLineInv, RowInv, Spent
  <2> QED BY <2>1, <2>2
<1>9. LineInv'
  <2> SUFFICES ASSUME NEW k \in Manifests \ rewound PROVE Line(k)'
    BY <1>2 DEF LineInv
  <2>1. Line(k)
    BY DEF CommandLineInv, LineInv
  <2>2. CASE k # m
    BY <1>2, <1>3, <2>2, OthersKeep
  <2>3. CASE k = m
    <3>1. \A q \in Procs : ~ On(q, k)'
      BY <1>2, <1>6, <2>3 DEF On
    <3>2. Counts(life[k], Len(applied[k]), undone[k])' /\ k \notin stopped'
      BY <1>2, <1>4, <2>1, <2>3, CommandLineAssumption
      DEF Line, Counts, LifecycleState, CommandLineInv, Types
    <3> QED BY <3>1, <3>2 DEF Line
  <2> QED BY <2>2, <2>3
<1> QED BY <1>5, <1>7, <1>8, <1>9 DEF CommandLineInv

(***************************************************************************)
(* A command begins: what it read is a state the engine reached.           *)
(***************************************************************************)
LEMMA StartsKeeps ==
    ASSUME CommandLineInv, NEW p \in Procs, NEW m \in Manifests, life[m] # None,
           NEW then \in Firsts, NEW g \in Grants \cup {None}, NEW file \in Files,
           NEW quorum \in BOOLEAN, Starts(p, m, then, g, file, quorum)
    PROVE  CommandLineInv'
<1>1. PICK x : x = [at |-> "seed", m |-> m, rec |-> life[m], then |-> then,
                    g |-> g, file |-> file, quorum |-> quorum]
  OBVIOUS
<1>2. life[m] \in LifecycleState
  BY DEF CommandLineInv, Types
<1>3. x \in Jobs /\ x.at = "seed" /\ x.m = m /\ x.rec = life[m] /\ x # Idle
  BY <1>1, <1>2 DEF Jobs, Steps, Idle
<1>4. /\ job' = [job EXCEPT ![p] = x] /\ job[p] = Idle
      /\ UNCHANGED QuietVars /\ UNCHANGED <<files, grant>>
  BY <1>1 DEF Starts, Reconstruct, moves, disk, ghosts, QuietVars
<1>5. job'[p] = x /\ \A q \in Procs \ {p} : job'[q] = job[q]
  BY <1>4 DEF CommandLineInv, Types
<1>6. RowInv'
  BY <1>4, RowLasts DEF CommandLineInv, QuietVars
<1>7. Types'
  BY <1>3, <1>4 DEF CommandLineInv, Types, QuietVars
<1>8. FilesInv'
  <2>1. life[m] \in reached[m]
    BY DEF CommandLineInv, FilesInv
  <2>2. "seed" \notin Executing /\ "seed" \notin Undoing
    BY DEF Executing, Undoing
  <2>3. ASSUME NEW q \in Procs, job'[q] # Idle
        PROVE  /\ life'[job'[q].m] # None
               /\ job'[q].rec \in reached'[job'[q].m]
               /\ job'[q].at \in Executing => job'[q].rec = "committing"
               /\ job'[q].at \in Undoing => job'[q].rec = "compensating"
    <3>1. CASE q = p
      BY <1>3, <1>4, <1>5, <2>1, <2>2, <3>1 DEF QuietVars
    <3>2. CASE q # p
      BY <1>4, <1>5, <2>3, <3>2 DEF QuietVars, CommandLineInv, FilesInv
    <3> QED BY <3>1, <3>2
  <2> QED BY <1>4, <2>3 DEF CommandLineInv, FilesInv, QuietVars
<1>9. LineInv'
  <2> SUFFICES ASSUME NEW k \in Manifests \ rewound PROVE Line(k)'
    BY <1>4 DEF LineInv, QuietVars
  <2>1. Line(k)
    BY DEF CommandLineInv, LineInv
  <2>2. \A q \in Procs \ {p} : On(q, k)' => On(q, k) /\ job'[q] = job[q]
    BY <1>5 DEF On
  <2>3. Part(k, p)' /\ \A q \in Procs : Apart(k, p, q)' /\ Apart(k, q, p)'
    BY <1>3, <1>5 DEF Part, Apart, Executing, Undoing
  <2>4. \A q \in Procs : On(q, k)' => Part(k, q)'
    BY <1>4, <2>1, <2>2, <2>3 DEF Line, Part, QuietVars
  <2>5. \A q, r \in Procs : q # r /\ On(q, k)' /\ On(r, k)' => Apart(k, q, r)'
    BY <2>1, <2>2, <2>3 DEF Line, Apart
  <2> QED BY <1>4, <2>1, <2>4, <2>5 DEF Line, QuietVars
<1> QED BY <1>6, <1>7, <1>8, <1>9 DEF CommandLineInv

(***************************************************************************)
(* The seed restores the state its command read; where that changes the    *)
(* stored state, the manifest counts as rewound.                           *)
(***************************************************************************)
LEMMA SeedKeeps ==
    ASSUME CommandLineInv, NEW p \in Procs, Seed(p)
    PROVE  CommandLineInv'
<1>1. job[p] # Idle /\ job[p].at = "seed"
  BY AtWork DEF Seed
<1>2. PICK m \in Manifests, rec \in LifecycleState, then \in Firsts :
        m = job[p].m /\ rec = job[p].rec /\ then = job[p].then /\ Goes(p, then)
        /\ rec \in reached[m] /\ life[m] # None /\ effect[m] \in Effects
  BY <1>1, JobTypes DEF Seed, CommandLineInv, FilesInv
<1>3. then \in Steps /\ SamePart("seed", then)
  BY DEF Firsts, Steps, SamePart, Executing, Undoing
<1>4. CASE life[m] = rec
  BY <1>1, <1>2, <1>3, <1>4, GoesQuietly DEF Seed, disk, ghosts, QuietVars
<1>5. CASE life[m] # rec
  <2>1. PICK x \in Jobs : /\ job' = [job EXCEPT ![p] = x]
                          /\ x.m = m /\ x.rec = rec /\ x.at = then
    BY <1>1, <1>2, <1>3, GoesOn
  <2>2. /\ life' = [life EXCEPT ![m] = rec] /\ rewound' = rewound \cup {m}
        /\ UNCHANGED <<row, reached, effect, files, grant, generation, applied, undone, stopped>>
    BY <1>2, <1>5 DEF Seed, disk, ghosts
  <2>3. job'[p] = x /\ (\A q \in Procs \ {p} : job'[q] = job[q])
        /\ life'[m] = rec /\ rec # None /\ \A k \in Manifests \ {m} : life'[k] = life[k]
    BY <2>1, <2>2, CommandLineAssumption DEF CommandLineInv, Types
  <2>4. RowInv'
    BY <2>2, RowLasts DEF CommandLineInv
  <2>5. Types'
    BY <2>1, <2>2 DEF CommandLineInv, Types
  <2>6. FilesInv'
    <3>1. \A k \in Manifests :
            /\ life'[k] # None => life'[k] \in reached'[k] /\ effect'[k] \in Effects
            /\ life'[k] = None => effect'[k] = None /\ files'[k] = {} /\ applied'[k] = <<>>
      BY <1>2, <2>2, <2>3 DEF CommandLineInv, FilesInv
    <3>2. ASSUME NEW g \in Grants, grant'[g] # None PROVE life'[grant'[g].of] # None
      BY <2>2, <2>3, <3>2 DEF CommandLineInv, FilesInv, Types, GrantFiles
    <3>3. ASSUME NEW q \in Procs, job'[q] # Idle
          PROVE  /\ life'[job'[q].m] # None
                 /\ job'[q].rec \in reached'[job'[q].m]
                 /\ job'[q].at \in Executing => job'[q].rec = "committing"
                 /\ job'[q].at \in Undoing => job'[q].rec = "compensating"
      <4>1. CASE q = p
        BY <1>2, <1>3, <2>1, <2>2, <2>3, <4>1 DEF Firsts, Executing, Undoing
      <4>2. CASE q # p
        <5>1. job'[q] = job[q] /\ job[q] # Idle /\ job[q].m \in Manifests
          BY <2>3, <3>3, <4>2, JobTypes
        <5> QED BY <2>2, <2>3, <5>1 DEF CommandLineInv, FilesInv
      <4> QED BY <4>1, <4>2
    <3> QED BY <3>1, <3>2, <3>3 DEF FilesInv
  <2>7. LineInv'
    <3> SUFFICES ASSUME NEW k \in Manifests \ rewound, k # m PROVE Line(k)'
      BY <2>2 DEF LineInv
    <3>1. On(p, k)' => job'[p] = job[p]
      BY <2>1, <2>3 DEF On
    <3> QED BY <2>2, <2>3, <3>1, OthersKeep
  <2> QED BY <2>4, <2>5, <2>6, <2>7 DEF CommandLineInv
<1> QED BY <1>4, <1>5

(***************************************************************************)
(* The steps that only go on, and those that are one transition.           *)
(***************************************************************************)
LEMMA PlainKeeps ==
    ASSUME CommandLineInv, NEW p \in Procs,
           RevokeSlot(p) \/ Admit(p) \/ Reserve(p) \/ RecordPending(p) \/ Finish(p)
    PROVE  CommandLineInv'
<1>1. job[p] # Idle /\ UNCHANGED QuietVars /\ UNCHANGED <<files, grant>>
  BY AtWork DEF RevokeSlot, Admit, Reserve, RecordPending, Finish, moves, disk, seeds, ghosts,
                QuietVars
<1>2. \/ Ends(p)
      \/ job[p].at = "revoke" /\ Goes(p, "stop")
      \/ job[p].at = "admit" /\ Goes(p, "reserve")
      \/ job[p].at = "reserve" /\ Goes(p, "committing")
      \/ job[p].at = "intend" /\ Goes(p, "check")
      \/ job[p].at = "finish" /\ Goes(p, "committed")
  BY DEF RevokeSlot, Admit, Reserve, RecordPending, Finish
<1>3. CASE Ends(p)
  BY <1>1, <1>3, EndsQuietly, FilesUnchanged DEF QuietVars
<1>4. ASSUME NEW a, NEW b, job[p].at = a, Goes(p, b),
             <<a, b>> \in {<<"revoke", "stop">>, <<"admit", "reserve">>, <<"reserve", "committing">>,
                           <<"intend", "check">>, <<"finish", "committed">>}
      PROVE  CommandLineInv'
  <2>1. b \in Steps /\ SamePart(a, b)
    BY <1>4 DEF Steps, SamePart, Executing, Undoing
  <2> QED BY <1>1, <1>4, <2>1, GoesQuietly
<1> QED BY <1>2, <1>3, <1>4

(***************************************************************************)
(* A transition that leaves the row alone.                                 *)
(***************************************************************************)
LEMMA TransitionKeeps ==
    ASSUME CommandLineInv, NEW p \in Procs, job[p] # Idle,
           NEW target, NEW next, Fits(job[p].at, target, next), Transition(p, target, next),
           UNCHANGED <<row, generation, applied, effect, files, grant, undone, rewound, stopped>>
    PROVE  CommandLineInv'
<1>1. RowInv'
  BY RowLasts DEF CommandLineInv
<1>2. row' \in Rows /\ generation' \in Nat /\ applied' \in [Manifests -> Seq(Nat)]
  BY DEF CommandLineInv, Types
<1> QED BY <1>1, <1>2, MoveKeeps

LEMMA MovesKeep ==
    ASSUME CommandLineInv, NEW p \in Procs,
           \/ SealMove(p) \/ Committing(p) \/ Committed(p) \/ VerifyMove(p)
           \/ CompensateMove(p) \/ CompensateResult(p)
    PROVE  CommandLineInv'
<1>1. /\ job[p] # Idle
      /\ UNCHANGED <<row, generation, applied, effect, files, grant, undone, rewound, stopped>>
  BY AtWork DEF SealMove, Committing, Committed, VerifyMove, CompensateMove, CompensateResult,
                disk, seeds, ghosts
<1>2. PICK at : at = job[p].at
  OBVIOUS
<1>3. \/ at = "seal" /\ Transition(p, "sealed", "save")
      \/ at = "committing" /\ Transition(p, "committing", "intend")
      \/ at = "committed" /\ Transition(p, "committed", "save")
      \/ at = "verify" /\ Transition(p, "verified", "save")
      \/ at = "compensate" /\ Transition(p, "compensating", "undo")
      \/ at = "compensated" /\ Transition(p, "compensated", "save")
      \/ at = "failed" /\ Transition(p, "failed", "save")
  BY <1>2 DEF SealMove, Committing, Committed, VerifyMove, CompensateMove, CompensateResult
<1>4. ASSUME NEW target, NEW next, Transition(p, target, next),
             <<at, target, next>> \in
                {<<"seal", "sealed", "save">>, <<"committing", "committing", "intend">>,
                 <<"committed", "committed", "save">>, <<"verify", "verified", "save">>,
                 <<"compensate", "compensating", "undo">>, <<"compensated", "compensated", "save">>,
                 <<"failed", "failed", "save">>}
      PROVE  CommandLineInv'
  <2>1. Fits(at, target, next)
    BY <1>4 DEF Fits, Executing, Undoing
  <2> QED BY <1>1, <1>2, <1>4, <2>1, TransitionKeeps
<1> QED BY <1>3, <1>4

LEMMA IssueMoveKeeps ==
    ASSUME CommandLineInv, NEW p \in Procs, IssueMove(p)
    PROVE  CommandLineInv'
<1>1. /\ job[p] # Idle /\ job[p].at = "issue"
      /\ UNCHANGED <<row, generation, applied, effect, files, grant, undone, rewound, stopped>>
  BY AtWork DEF IssueMove, disk, seeds, ghosts
<1>2. CASE Transition(p, "authorized", "saveGrant")
  <2>1. Fits("issue", "authorized", "saveGrant")
    BY DEF Fits
  <2> QED BY <1>1, <1>2, <2>1, TransitionKeeps
<1>3. CASE Ends(p) /\ UNCHANGED moves
  BY <1>1, <1>3, EndsQuietly, FilesUnchanged DEF moves, QuietVars
<1> QED BY <1>2, <1>3 DEF IssueMove

LEMMA CheckKeeps ==
    ASSUME CommandLineInv, NEW p \in Procs, Check(p)
    PROVE  CommandLineInv'
<1>1. /\ job[p] # Idle /\ job[p].at = "check"
      /\ UNCHANGED <<row, generation, applied, effect, files, grant, undone, rewound, stopped>>
  BY AtWork DEF Check, disk, seeds, ghosts
<1>2. CASE Goes(p, "call") /\ UNCHANGED moves
  <2>1. "call" \in Steps /\ SamePart("check", "call")
    BY DEF Steps, SamePart, Executing, Undoing
  <2> QED BY <1>1, <1>2, <2>1, GoesQuietly DEF moves, QuietVars
<1>3. CASE Fails(p, "abandoned", "idle")
  <2>1. Fits("check", "failed", "idle") /\ Transition(p, "failed", "idle")
    BY <1>3 DEF Fits, Fails, Executing
  <2> QED BY <1>1, <2>1, TransitionKeeps
<1> QED BY <1>2, <1>3 DEF Check

(***************************************************************************)
(* A revocation that answers "stopped" found a revocable state, and so no  *)
(* application.                                                            *)
(***************************************************************************)
LEMMA RevokeMoveKeeps ==
    ASSUME CommandLineInv, NEW p \in Procs, RevokeMove(p)
    PROVE  CommandLineInv'
<1>1. job[p] # Idle /\ job[p].at = "stop" /\ Ends(p)
      /\ UNCHANGED <<row, generation, applied, effect, files, grant, undone, rewound>>
  BY AtWork DEF RevokeMove, disk, seeds
<1>2. PICK m \in Manifests : m = job[p].m /\ life[m] # None
  BY <1>1, JobTypes
<1>3. CASE UNCHANGED <<life, reached, stopped>>
  BY <1>1, <1>3, EndsQuietly, FilesUnchanged DEF QuietVars
<1>4. CASE /\ IsRevocable(job[p].rec) /\ CanMove(p, "revoked")
           /\ Moved(m, "revoked") /\ stopped' = stopped \cup {m}
  <2>1. /\ life' = [life EXCEPT ![m] = "revoked"] /\ life[m] \in REVOCABLE_STATES
        /\ reached' = [reached EXCEPT ![m] = @ \cup {"revoked"}]
        /\ job' = [job EXCEPT ![p] = Idle]
    BY <1>1, <1>2, <1>4 DEF Moved, CanMove, Persists, IsRevocable, Ends
  <2>2. job'[p] = Idle /\ \A q \in Procs \ {p} : job'[q] = job[q]
    BY <2>1 DEF CommandLineInv, Types
  <2>3. /\ life'[m] = "revoked" /\ "revoked" # None /\ "revoked" \in LifecycleState
        /\ "revoked" \in reached'[m] /\ reached[m] \subseteq reached'[m]
        /\ \A k \in Manifests \ {m} : life'[k] = life[k] /\ reached'[k] = reached[k]
    BY <2>1, CommandLineAssumption DEF CommandLineInv, Types, LifecycleState
  <2>4. RowInv'
    BY <1>1, RowLasts DEF CommandLineInv
  <2>5. Types'
    <3>1. reached[m] \cup {"revoked"} \in SUBSET LifecycleState
      BY <2>3 DEF CommandLineInv, Types
    <3>2. reached' \in [Manifests -> SUBSET LifecycleState]
      BY <2>1, <3>1 DEF CommandLineInv, Types
    <3>3. life' \in [Manifests -> LifecycleState \cup {None}]
      BY <2>1, <2>3 DEF CommandLineInv, Types
    <3>4. job' \in [Procs -> Jobs \cup {Idle}]
      BY <2>1 DEF CommandLineInv, Types
    <3> QED BY <1>1, <3>2, <3>3, <3>4 DEF CommandLineInv, Types
  <2>6. FilesInv'
    <3>1. \A k \in Manifests :
            /\ life'[k] # None => life'[k] \in reached'[k] /\ effect'[k] \in Effects
            /\ life'[k] = None => effect'[k] = None /\ files'[k] = {} /\ applied'[k] = <<>>
      BY <1>1, <1>2, <2>3 DEF CommandLineInv, FilesInv
    <3>2. ASSUME NEW g \in Grants, grant'[g] # None PROVE life'[grant'[g].of] # None
      BY <1>1, <2>3, <3>2 DEF CommandLineInv, FilesInv, Types, GrantFiles
    <3>3. ASSUME NEW q \in Procs, job'[q] # Idle
          PROVE  /\ life'[job'[q].m] # None
                 /\ job'[q].rec \in reached'[job'[q].m]
                 /\ job'[q].at \in Executing => job'[q].rec = "committing"
                 /\ job'[q].at \in Undoing => job'[q].rec = "compensating"
      <4>1. job'[q] = job[q] /\ job[q] # Idle /\ job[q].m \in Manifests
        BY <2>2, <3>3, JobTypes
      <4>2. /\ life[job[q].m] # None /\ job[q].rec \in reached[job[q].m]
            /\ job[q].at \in Executing => job[q].rec = "committing"
            /\ job[q].at \in Undoing => job[q].rec = "compensating"
        BY <4>1 DEF CommandLineInv, FilesInv
      <4> QED BY <2>3, <4>1, <4>2
    <3> QED BY <3>1, <3>2, <3>3 DEF FilesInv
  <2>7. LineInv'
    <3> SUFFICES ASSUME NEW k \in Manifests \ rewound PROVE Line(k)'
      BY <1>1 DEF LineInv
    <3>1. CASE k # m
      BY <1>1, <1>4, <2>2, <2>3, <3>1, OthersKeep DEF On
    <3>2. CASE k = m
      <4>1. Line(m)
        BY <3>2 DEF CommandLineInv, LineInv
      <4>2. \A q \in Procs : On(q, m)' => /\ On(q, m) /\ job'[q] = job[q]
                                          /\ job[q].at \notin Executing \cup Undoing
        BY <2>1, <2>2, <4>1 DEF On, Line, Part, REVOCABLE_STATES
      <4>3. \A q \in Procs : On(q, m)' => Part(m, q)'
        BY <4>2 DEF Part, Executing, Undoing
      <4>4. \A q, r \in Procs : q # r /\ On(q, m)' /\ On(r, m)' => Apart(m, q, r)'
        BY <4>2 DEF Apart
      <4>5. Counts(life[m], Len(applied[m]), undone[m])'
        BY <1>1, <2>1, <2>3, <4>1 DEF Line, Counts, REVOCABLE_STATES, CommandLineInv, Types
      <4> QED BY <2>3, <3>2, <4>3, <4>4, <4>5 DEF Line
    <3> QED BY <3>1, <3>2
  <2> QED BY <2>4, <2>5, <2>6, <2>7 DEF CommandLineInv
<1> QED BY <1>2, <1>3, <1>4 DEF RevokeMove, Refused

(***************************************************************************)
(* A statement is applied.  It finds the row its manifest expects, which   *)
(* an earlier application in this generation would have taken from it.     *)
(***************************************************************************)
LEMMA AppliedNow ==
    ASSUME CommandLineInv, NEW m \in Manifests, effect[m] \in Effects,
           CommitRow(effect[m], row).success,
           row' = CommitRow(effect[m], row).row,
           generation' = (IF row.here THEN generation ELSE generation + 1),
           applied' = [applied EXCEPT ![m] = Append(@, generation)],
           effect' = effect
    PROVE  /\ RowInv' /\ row' \in Rows /\ generation' \in Nat
           /\ applied' \in [Manifests -> Seq(Nat)]
           /\ \A k \in Manifests \ {m} : applied'[k] = applied[k]
           /\ Len(applied'[m]) = Len(applied[m]) + 1
<1>1. PICK e \in Effects, r \in Rows, n \in Nat : e = effect[m] /\ r = row /\ n = generation
  BY DEF CommandLineInv, Types
<1>2. PICK s : s = CommitRow(e, r).row
  OBVIOUS
<1>3. /\ s \in Rows
      /\ e.operation = "insert" => ~r.here
      /\ e.operation # "insert" => /\ r.here /\ r.version = e.version
                                   /\ ~s.here \/ s.version = r.version + 1
  BY <1>1, <1>2, Application
<1>4. row' = s /\ generation' = (IF r.here THEN n ELSE n + 1)
      /\ applied' = [applied EXCEPT ![m] = Append(applied[m], n)]
  BY <1>1, <1>2
<1>5. PICK a \in Seq(Nat) : a = applied[m]
  BY DEF CommandLineInv, Types
<1>6. PICK b : b = Append(a, n)
  OBVIOUS
<1>7. /\ b \in Seq(Nat) /\ Len(b) = Len(a) + 1 /\ Len(a) \in Nat
      /\ DOMAIN a = 1..Len(a) /\ DOMAIN b = 1..(Len(a) + 1)
      /\ b[Len(a) + 1] = n /\ \A i \in 1..Len(a) : b[i] = a[i]
  BY <1>1, <1>5, <1>6
<1>8. /\ applied' = [applied EXCEPT ![m] = b] /\ applied'[m] = b
      /\ applied' \in [Manifests -> Seq(Nat)]
      /\ \A k \in Manifests \ {m} : applied'[k] = applied[k]
  BY <1>4, <1>5, <1>6, <1>7 DEF CommandLineInv, Types
<1>9. generation' \in Nat /\ generation' >= n
  BY <1>1, <1>4
<1>10. ASSUME NEW k \in Manifests, NEW v \in Nat, Spent(k, v), applied[k] # << >>
       PROVE  Spent(k, v)'
  <2>1. effect[k] \in Effects /\ effect[k].version \in Nat
    BY <1>10 DEF CommandLineInv, FilesInv, Effects
  <2>2. CASE v < n
    BY <1>1, <1>9, <2>2 DEF Spent
  <2>3. CASE v = n /\ ~r.here
    BY <1>1, <1>4, <2>3 DEF Spent
  <2>4. CASE v = n /\ r.here /\ r.version > effect[k].version
    <3>1. e.operation # "insert" /\ (~s.here \/ s.version = r.version + 1) /\ r.version \in Nat
      BY <1>3, <2>4 DEF Rows
    <3>2. generation' = n /\ effect[k].operation # "insert"
      BY <1>1, <1>4, <1>10, <2>4 DEF Spent
    <3> QED BY <1>1, <1>4, <2>1, <2>4, <3>1, <3>2 DEF Spent
  <2> QED BY <1>1, <1>10, <2>2, <2>3, <2>4 DEF Spent
<1>11. \A i \in DOMAIN a : a[i] # n
  <2> SUFFICES ASSUME NEW i \in DOMAIN a, a[i] = n PROVE FALSE
    OBVIOUS
  <2>1. Spent(m, n)
    BY <1>5 DEF CommandLineInv, RowInv
  <2>2. e.operation # "insert" /\ (~r.here \/ r.version > e.version)
    BY <1>1, <2>1 DEF Spent
  <2> QED BY <1>3, <2>2 DEF Rows, Effects
<1>12. Spent(m, n)'
  <2>1. CASE e.operation = "insert"
    BY <1>1, <1>3, <1>4, <2>1 DEF Spent
  <2>2. CASE e.operation # "insert"
    <3>1. r.here /\ r.version = e.version /\ (~s.here \/ s.version = r.version + 1)
          /\ e.version \in Nat
      BY <1>3, <2>2 DEF Effects
    <3> QED BY <1>1, <1>4, <2>2, <3>1 DEF Spent
  <2> QED BY <2>1, <2>2
<1>13. RowInv'
  <2> SUFFICES ASSUME NEW k \in Manifests
               PROVE  /\ \A i \in DOMAIN applied'[k] : Spent(k, applied[k][i])'
                      /\ \A i, j \in DOMAIN applied'[k] : applied'[k][i] = applied'[k][j] => i = j
    BY DEF RowInv
  <2>1. /\ \A i \in DOMAIN applied[k] : Spent(k, applied[k][i])
        /\ \A i, j \in DOMAIN applied[k] : applied[k][i] = applied[k][j] => i = j
    BY DEF CommandLineInv, RowInv
  <2>2. CASE k # m
    <3>1. applied'[k] = applied[k]
      BY <1>8, <2>2
    <3>2. ASSUME NEW i \in DOMAIN applied[k] PROVE Spent(k, applied[k][i])'
      <4>1. PICK v \in Nat : v = applied[k][i] /\ applied[k] # << >>
        BY DEF CommandLineInv, Types
      <4>2. Spent(k, v)'
        BY <1>10, <2>1, <4>1
      <4> QED BY <3>1, <4>1, <4>2
    <3> QED BY <2>1, <3>1, <3>2
  <2>3. CASE k = m
    <3>1. ASSUME NEW i \in 1..(Len(a) + 1) PROVE Spent(m, b[i])'
      <4>1. CASE i = Len(a) + 1
        BY <1>7, <1>12, <4>1
      <4>2. CASE i \in 1..Len(a)
        <5>1. PICK v \in Nat : v = a[i] /\ v = b[i] /\ applied[m] # << >>
          <6>1. a[i] \in Nat /\ a # << >>
            BY <1>7, <4>2
          <6> QED BY <1>5, <1>7, <4>2, <6>1
        <5>2. Spent(m, v)
          BY <1>5, <1>7, <2>1, <2>3, <4>2, <5>1
        <5> QED BY <1>10, <5>1, <5>2
      <4> QED BY <1>7, <4>1, <4>2
    <3>2. ASSUME NEW i \in 1..(Len(a) + 1), NEW j \in 1..(Len(a) + 1), b[i] = b[j] PROVE i = j
      <4>1. CASE i \in 1..Len(a) /\ j \in 1..Len(a)
        BY <1>5, <1>7, <2>1, <2>3, <3>2, <4>1
      <4>2. CASE i = Len(a) + 1 \/ j = Len(a) + 1
        BY <1>7, <1>11, <3>2, <4>2
      <4> QED BY <1>7, <4>1, <4>2
    <3>3. \A i \in DOMAIN applied'[k] : Spent(k, applied[k][i])'
      BY <1>7, <1>8, <2>3, <3>1
    <3>4. \A i, j \in DOMAIN applied'[k] : applied'[k][i] = applied'[k][j] => i = j
      BY <1>7, <1>8, <2>3, <3>2
    <3> QED BY <3>3, <3>4
  <2> QED BY <2>2, <2>3
<1> QED BY <1>3, <1>4, <1>5, <1>7, <1>8, <1>9, <1>13

LEMMA CallKeeps ==
    ASSUME CommandLineInv, NEW p \in Procs, Call(p)
    PROVE  CommandLineInv'
<1>1. job[p] # Idle /\ job[p].at = "call"
      /\ UNCHANGED <<effect, files, grant, undone, rewound, stopped>>
  BY AtWork DEF Call, disk, seeds
<1>2. PICK m \in Manifests : m = job[p].m /\ life[m] # None /\ effect[m] \in Effects
  BY <1>1, JobTypes
<1>3. Fits("call", "failed", "idle") /\ Fits("call", "failed", "save")
  BY DEF Fits, Executing
<1>4. CASE /\ Fails(p, "pending", "idle") \/ Fails(p, "abandoned", "save")
           /\ UNCHANGED <<row, generation, applied>>
  BY <1>1, <1>3, <1>4, TransitionKeeps DEF Fails
<1>5. CASE /\ CommitRow(effect[m], row).success
           /\ row' = CommitRow(effect[m], row).row
           /\ generation' = (IF row.here THEN generation ELSE generation + 1)
           /\ applied' = [applied EXCEPT ![m] = Append(@, generation)]
           /\ \/ Fails(p, "pending", "idle")
              \/ Goes(p, "finish") /\ UNCHANGED <<slot, outbox, moves>>
  <2>1. /\ RowInv' /\ row' \in Rows /\ generation' \in Nat
        /\ applied' \in [Manifests -> Seq(Nat)]
        /\ \A k \in Manifests \ {m} : applied'[k] = applied[k]
        /\ Len(applied'[m]) = Len(applied[m]) + 1
    BY <1>1, <1>2, <1>5, AppliedNow
  <2>2. CASE Fails(p, "pending", "idle")
    BY <1>1, <1>2, <1>3, <2>1, <2>2, MoveKeeps DEF Fails
  <2>3. CASE Goes(p, "finish") /\ UNCHANGED moves
    <3>1. "finish" \in Steps
      BY DEF Steps, Executing
    <3>2. PICK x \in Jobs : /\ job' = [job EXCEPT ![p] = x]
                            /\ x.m = job[p].m /\ x.rec = job[p].rec /\ x.at = "finish"
      BY <1>1, <2>3, <3>1, GoesOn
    <3>3. job'[p] = x /\ (\A q \in Procs \ {p} : job'[q] = job[q]) /\ x # Idle
          /\ UNCHANGED <<life, reached>>
      BY <2>3, <3>2 DEF CommandLineInv, Types, moves, Idle
    <3>4. Types'
      BY <1>1, <2>1, <3>2, <3>3 DEF CommandLineInv, Types
    <3>5. FilesInv'
      <4>1. \A k \in Manifests : life[k] = None => applied'[k] = <<>>
        BY <1>2, <2>1 DEF CommandLineInv, FilesInv
      <4>2. ASSUME NEW q \in Procs, job'[q] # Idle
            PROVE  /\ life'[job'[q].m] # None
                   /\ job'[q].rec \in reached'[job'[q].m]
                   /\ job'[q].at \in Executing => job'[q].rec = "committing"
                   /\ job'[q].at \in Undoing => job'[q].rec = "compensating"
        BY <1>1, <3>2, <3>3, <4>2 DEF CommandLineInv, FilesInv, Executing, Undoing
      <4> QED BY <1>1, <3>3, <4>1, <4>2 DEF CommandLineInv, FilesInv
    <3>6. ASSUME NEW k \in Manifests \ rewound PROVE Line(k)'
      <4>1. CASE k # m
        BY <1>1, <1>2, <2>1, <3>2, <3>3, <4>1, OthersKeep DEF On
      <4>2. CASE k = m
        <5>1. Line(m) /\ On(p, m)
          BY <1>1, <1>2, <3>6, <4>2 DEF CommandLineInv, LineInv, On
        <5>2. life[m] = "committing" /\ Len(applied[m]) = 0 /\ undone[m] = 0
              /\ Len(applied'[m]) = 1
          BY <1>1, <2>1, <5>1 DEF Line, Part, Executing, Counts, CommandLineInv, Types
        <5>3. \A q \in Procs \ {p} : On(q, m)' => /\ On(q, m) /\ job'[q] = job[q]
                                                  /\ job[q].at \notin Executing \cup Undoing
          BY <1>1, <3>3, <5>1, <5>2 DEF On, Line, Apart, Part, Executing
        <5>4. \A q \in Procs : On(q, m)' => Part(m, q)'
          BY <3>2, <3>3, <5>2, <5>3 DEF Part, Executing, Undoing
        <5>5. \A q, r \in Procs : q # r /\ On(q, m)' /\ On(r, m)' => Apart(m, q, r)'
          BY <5>3 DEF Apart
        <5>6. Counts(life[m], Len(applied[m]), undone[m])' /\ m \notin stopped'
          BY <1>1, <3>3, <5>1, <5>2, CommandLineAssumption DEF Line, Counts, LifecycleState
        <5> QED BY <4>2, <5>4, <5>5, <5>6 DEF Line
      <4> QED BY <4>1, <4>2
    <3> QED BY <1>1, <2>1, <3>4, <3>5, <3>6 DEF CommandLineInv, LineInv
  <2> QED BY <1>5, <2>2, <2>3
<1> QED BY <1>2, <1>4, <1>5 DEF Call

(***************************************************************************)
(* A compensation makes no statement acceptable again within the           *)
(* generation of the row.                                                  *)
(***************************************************************************)
LEMMA CompensateCallKeeps ==
    ASSUME CommandLineInv, NEW p \in Procs, CompensateCall(p)
    PROVE  CommandLineInv'
<1>1. /\ job[p] # Idle /\ job[p].at = "undo"
      /\ UNCHANGED <<life, reached, effect, files, grant, rewound, generation, applied, stopped>>
  BY AtWork DEF CompensateCall, moves, disk, seeds
<1>2. PICK m \in Manifests : m = job[p].m /\ life[m] # None /\ effect[m] \in Effects
  BY <1>1, JobTypes
<1>3. PICK e \in Effects, r \in Rows : e = effect[m] /\ r = row
  BY <1>2 DEF CommandLineInv, Types
<1>4. PICK s : s = row'
  OBVIOUS
<1>5. s \in {r, CompensateRow(e, r).row}
  BY <1>2, <1>3, <1>4 DEF CompensateCall
<1>6. s \in Rows /\ (s = r \/ ~s.here \/ (r.here /\ s.version = r.version + 1))
  BY <1>5, Compensation
<1>7. RowInv'
  <2> SUFFICES ASSUME NEW k \in Manifests, NEW i \in DOMAIN applied[k]
               PROVE  Spent(k, applied[k][i])'
    BY <1>1 DEF CommandLineInv, RowInv
  <2>1. Spent(k, applied[k][i])
    BY DEF CommandLineInv, RowInv
  <2>2. effect[k] \in Effects /\ effect[k].version \in Nat
    <3>1. applied[k] # << >>
      OBVIOUS
    <3> QED BY <3>1 DEF CommandLineInv, FilesInv, Effects
  <2>3. CASE applied[k][i] < generation
    BY <1>1, <2>3 DEF Spent
  <2>4. CASE ~ (applied[k][i] < generation)
    <3>1. applied[k][i] = generation /\ effect[k].operation # "insert"
          /\ (~r.here \/ r.version > effect[k].version)
      BY <1>3, <2>1, <2>4 DEF Spent
    <3>2. ~s.here \/ s.version > effect[k].version
      BY <1>6, <2>2, <3>1 DEF Rows
    <3> QED BY <1>1, <1>4, <3>1, <3>2 DEF Spent
  <2> QED BY <2>3, <2>4
<1>8. undone' = [undone EXCEPT ![m] = @ + 1] /\ undone' \in [Manifests -> Nat]
      /\ undone'[m] = undone[m] + 1 /\ \A k \in Manifests \ {m} : undone'[k] = undone[k]
  BY <1>2 DEF CompensateCall, CommandLineInv, Types
<1>9. \E x \in Jobs \cup {Idle} :
        /\ job' = [job EXCEPT ![p] = x]
        /\ x # Idle => x.m = m /\ x.rec = job[p].rec /\ x.at \in {"compensated", "failed"}
  <2>1. CASE Ends(p)
    BY <2>1 DEF Ends
  <2>2. ASSUME NEW step \in {"compensated", "failed"}, Goes(p, step)
        PROVE  \E x \in Jobs : /\ job' = [job EXCEPT ![p] = x]
                               /\ x.m = m /\ x.rec = job[p].rec /\ x.at \in {"compensated", "failed"}
    <3>1. step \in Steps
      BY <2>2 DEF Steps, Undoing
    <3> QED BY <1>1, <1>2, <2>2, <3>1, GoesOn
  <2>3. Ends(p) \/ Goes(p, "compensated") \/ Goes(p, "failed")
    BY DEF CompensateCall
  <2> QED BY <2>1, <2>2, <2>3
<1>10. PICK x \in Jobs \cup {Idle} :
        /\ job' = [job EXCEPT ![p] = x]
        /\ x # Idle => x.m = m /\ x.rec = job[p].rec /\ x.at \in {"compensated", "failed"}
  BY <1>9
<1>11. job'[p] = x /\ \A q \in Procs \ {p} : job'[q] = job[q]
  BY <1>10 DEF CommandLineInv, Types
<1>12. Types'
  BY <1>1, <1>4, <1>6, <1>8, <1>10 DEF CommandLineInv, Types
<1>13. FilesInv'
  <2>1. ASSUME NEW q \in Procs, job'[q] # Idle
        PROVE  /\ life'[job'[q].m] # None
               /\ job'[q].rec \in reached'[job'[q].m]
               /\ job'[q].at \in Executing => job'[q].rec = "committing"
               /\ job'[q].at \in Undoing => job'[q].rec = "compensating"
    <3>1. CASE q = p
      <4>1. job[p].rec \in reached[m] /\ job[p].rec = "compensating"
        BY <1>1, <1>2 DEF CommandLineInv, FilesInv, Undoing
      <4> QED BY <1>1, <1>2, <1>10, <1>11, <2>1, <3>1, <4>1 DEF Executing
    <3>2. CASE q # p
      BY <1>1, <1>11, <2>1, <3>2 DEF CommandLineInv, FilesInv
    <3> QED BY <3>1, <3>2
  <2> QED BY <1>1, <2>1 DEF CommandLineInv, FilesInv
<1>14. ASSUME NEW k \in Manifests \ rewound PROVE Line(k)'
  <2>1. CASE k # m
    BY <1>1, <1>2, <1>8, <1>10, <1>11, <2>1, OthersKeep DEF On
  <2>2. CASE k = m
    <3>1. Line(m) /\ On(p, m)
      BY <1>1, <1>2, <1>14, <2>2 DEF CommandLineInv, LineInv, On
    <3>2. life[m] = "compensating" /\ Len(applied[m]) = 1 /\ undone[m] = 0 /\ undone'[m] = 1
      BY <1>1, <1>8, <3>1 DEF Line, Part, Undoing, Counts
    <3>3. \A q \in Procs \ {p} : On(q, m)' => /\ On(q, m) /\ job'[q] = job[q]
                                              /\ job[q].at \notin Executing \cup Undoing
      BY <1>1, <1>11, <3>1, <3>2 DEF On, Line, Apart, Part, Undoing
    <3>4. \A q \in Procs : On(q, m)' => Part(m, q)'
      BY <1>1, <1>10, <1>11, <3>2, <3>3 DEF Part, On, Executing, Undoing
    <3>5. \A q, d \in Procs : q # d /\ On(q, m)' /\ On(d, m)' => Apart(m, q, d)'
      BY <3>3 DEF Apart
    <3>6. Counts(life[m], Len(applied[m]), undone[m])' /\ m \notin stopped'
      BY <1>1, <3>1, <3>2, CommandLineAssumption DEF Line, Counts, LifecycleState
    <3> QED BY <2>2, <3>4, <3>5, <3>6 DEF Line
  <2> QED BY <2>1, <2>2
<1> QED BY <1>1, <1>7, <1>12, <1>13, <1>14 DEF CommandLineInv, LineInv

-----------------------------------------------------------------------------
(* The invariant and the theorems.                                         *)

LEMMA BeginKeeps ==
    ASSUME CommandLineInv, NEW p \in Procs, Begin(p)
    PROVE  CommandLineInv'
<1>1. \A m \in Manifests : files[m] # {} \/ effect[m] # None => life[m] # None
  BY DEF CommandLineInv, FilesInv
<1>2. \A g \in Grants : grant[g] # None => grant[g].of \in Manifests /\ life[grant[g].of] # None
  BY DEF CommandLineInv, FilesInv, Types, GrantFiles
<1>3. ASSUME NEW m \in Manifests, NEW operation \in Wanted, Prepare(p, m, operation, 1)
      PROVE  CommandLineInv'
  BY <1>3, PrepareKeeps
<1>4. ASSUME NEW m \in Manifests, Seal(p, m) \/ Verify(p, m) \/ Compensate(p, m)
      PROVE  CommandLineInv'
  <2>1. life[m] # None
    BY <1>1, <1>4 DEF Seal, Verify, Compensate
  <2>2. \/ Starts(p, m, "seal", None, "sealed", FALSE)
        \/ Starts(p, m, "verify", None, "proof", FALSE)
        \/ Starts(p, m, "compensate", None, "compensation", FALSE)
    BY <1>4 DEF Seal, Verify, Compensate
  <2> QED BY <2>1, <2>2, StartsKeeps DEF Firsts, Files
<1>5. ASSUME NEW m \in Manifests, NEW g \in Grants, Issue(p, m, g) \/ IssueWithQuorum(p, m, g)
      PROVE  CommandLineInv'
  <2>1. PICK quorum \in BOOLEAN : Starts(p, m, "issue", g, "grant", quorum) /\ life[m] # None
    BY <1>1, <1>5 DEF Issue, IssueWithQuorum, Quorum
  <2> QED BY <2>1, StartsKeeps DEF Firsts, Files
<1>6. ASSUME NEW g \in Grants, Revoke(p, g) \/ Execute(p, g)
      PROVE  CommandLineInv'
  <2>1. PICK m \in Manifests : m = grant[g].of /\ life[m] # None
    BY <1>2, <1>6 DEF Revoke, Execute
  <2>2. Starts(p, m, "revoke", g, None, FALSE) \/ Starts(p, m, "admit", g, "commit", FALSE)
    BY <1>6, <2>1 DEF Revoke, Execute
  <2> QED BY <2>1, <2>2, StartsKeeps DEF Firsts, Files
<1> QED BY <1>3, <1>4, <1>5, <1>6 DEF Begin

LEMMA CommandLineStep == CommandLineInv /\ [Next]_vars => CommandLineInv'
<1> SUFFICES ASSUME CommandLineInv, [Next]_vars PROVE CommandLineInv'
  OBVIOUS
<1>1. ASSUME NEW p \in Procs, Continue(p) PROVE CommandLineInv'
  BY <1>1, SeedKeeps, IssueMoveKeeps, SaveGrantKeeps, RevokeMoveKeeps, PlainKeeps, MovesKeep,
     CheckKeeps, CallKeeps, CompensateCallKeeps, SaveKeeps DEF Continue
<1>2. ASSUME AtOnce PROVE CommandLineInv'
  BY <1>2, ApproveKeeps, DelegateKeeps, RevokeGrantOnlyKeeps DEF AtOnce
<1>3. CASE UNCHANGED vars
  BY <1>3, StutterKeeps DEF vars, moves, disk, seeds, ghosts, QuietVars
<1> QED BY <1>1, <1>2, <1>3, BeginKeeps, CrashKeeps DEF Next

LEMMA CommandLineInit == Init => CommandLineInv
<1> SUFFICES ASSUME Init PROVE CommandLineInv
  OBVIOUS
<1>1. PICK operation \in Wanted, m \in Manifests \cup {None}, g \in Grants \cup {None} :
        StartsFrom(m, g, operation) /\ (g \in Grants => m \in Manifests)
  BY CommandLineAssumption DEF Init
<1>2. row \in Rows
  BY <1>1 DEF StartsFrom, Absent, Row, Rows
<1>3. PICK e \in Effects : e = PrepareRow(operation, 1, row)
  BY <1>2, Preparation, CommandLineAssumption
<1>4. /\ life = [k \in Manifests |-> IF k = m THEN "authorized" ELSE None]
      /\ reached = [k \in Manifests |-> IF k = m THEN {"prepared", "sealed", "authorized"} ELSE {}]
      /\ effect = [k \in Manifests |-> IF k = m THEN e ELSE None]
      /\ files = [k \in Manifests |-> IF k = m THEN {"sealed"} ELSE {}]
      /\ grant = [h \in Grants |-> IF h = g THEN [of |-> m, above |-> {}] ELSE None]
  BY <1>1, <1>3 DEF StartsFrom
<1>5. /\ job = [p \in Procs |-> Idle] /\ generation = 0 /\ stopped = {}
      /\ applied = [k \in Manifests |-> << >>] /\ undone = [k \in Manifests |-> 0]
  BY DEF Init
<1>6. "authorized" \in LifecycleState /\ "authorized" # None
  BY CommandLineAssumption DEF LifecycleState
<1>7. grant \in [Grants -> GrantFiles \cup {None}]
  BY <1>1, <1>4 DEF GrantFiles
<1>8. Types
  <2>1. reached \in [Manifests -> SUBSET LifecycleState]
    BY <1>4 DEF LifecycleState
  <2>2. applied \in [Manifests -> Seq(Nat)] /\ undone \in [Manifests -> Nat]
    BY <1>5
  <2> QED BY <1>2, <1>4, <1>5, <1>6, <1>7, <2>1, <2>2 DEF Types
<1>9. FilesInv
  <2>1. \A k \in Manifests :
          /\ life[k] # None => life[k] \in reached[k] /\ effect[k] \in Effects
          /\ life[k] = None => effect[k] = None /\ files[k] = {} /\ applied[k] = <<>>
    BY <1>4, <1>5, <1>6
  <2>2. ASSUME NEW h \in Grants, grant[h] # None PROVE life[grant[h].of] # None
    BY <1>1, <1>4, <1>6, <2>2
  <2> QED BY <1>5, <2>1, <2>2 DEF FilesInv
<1>10. RowInv
  BY <1>5 DEF RowInv
<1>11. LineInv
  BY <1>4, <1>5, <1>6, CommandLineAssumption DEF LineInv, Line, Counts, On, LifecycleState
<1> QED BY <1>8, <1>9, <1>10, <1>11 DEF CommandLineInv

LEMMA CommandLineInvariant == Spec => []CommandLineInv
<1>1. Init => CommandLineInv
  BY CommandLineInit
<1>2. CommandLineInv /\ [Next]_vars => CommandLineInv'
  BY CommandLineStep
<1> QED BY <1>1, <1>2, PTL DEF Spec

(***************************************************************************)
(* No state in lifecycle.db is made up, whatever was seeded and refused    *)
(* (reconstruct_lifecycle_state, seed_lifecycle_state).                    *)
(***************************************************************************)
THEOREM NothingMadeUp == Spec => []NeverFabricated
<1>1. CommandLineInv => NeverFabricated
  BY DEF CommandLineInv, FilesInv, NeverFabricated
<1> QED BY <1>1, CommandLineInvariant, PTL

(***************************************************************************)
(* A statement takes effect at most once on the same row, whatever was     *)
(* rewound, retried, compensated or killed (execute, and the WHERE clauses *)
(* of the row adapter).                                                    *)
(***************************************************************************)
THEOREM OncePerRow == Spec => []AppliedOncePerRow
<1>1. CommandLineInv => AppliedOncePerRow
  BY DEF CommandLineInv, RowInv, AppliedOncePerRow
<1> QED BY <1>1, CommandLineInvariant, PTL

(***************************************************************************)
(* A manifest whose state no seed has put back is executed at most once,   *)
(* compensated at most once and only after that, and not executed at all   *)
(* when a revocation answered that it came in time.                        *)
(***************************************************************************)
THEOREM InLine == Spec => []InLineUnlessRewound
<1>1. ASSUME CommandLineInv, NEW m \in Manifests \ rewound
      PROVE  /\ undone[m] <= Len(applied[m]) /\ Len(applied[m]) <= 1
             /\ m \in stopped => applied[m] = <<>>
  <2>1. Line(m) /\ applied[m] \in Seq(Nat)
    BY <1>1 DEF CommandLineInv, LineInv, Types
  <2>2. m \in stopped => Len(applied[m]) = 0
    BY <2>1 DEF Line, Counts
  <2>3. m \in stopped => applied[m] = << >>
    BY <2>1, <2>2, EmptySeq
  <2> QED BY <2>1, <2>3 DEF Line, Counts
<1>2. CommandLineInv => InLineUnlessRewound
  BY <1>1 DEF InLineUnlessRewound
<1> QED BY <1>2, CommandLineInvariant, PTL
=============================================================================
