------------------------ MODULE AuditJournal_proofs ------------------------
(***************************************************************************)
(* The journal's chain, for any number of processes, threads and events.   *)
(*                                                                         *)
(* A writer that has read the last event may be outrun by another process. *)
(* Prepared says what its event is then still worth: it continues some     *)
(* prefix of the journal, so that a backend that takes it only when its    *)
(* sequence number is new appends exactly a continuation of the whole.     *)
(*                                                                         *)
(* Evidence packs are cut from such a journal: what is kept for a manifest *)
(* in the journal's order; an edited pack that is hashed again verifies   *)
(* only if it still tells what was signed and events of the journal.       *)
(***************************************************************************)
EXTENDS AuditJournal, SequenceTheorems, Sums_proofs

HashAt(k) == IF k = 0 THEN NoHash ELSE log[k].event_hash

\* An event that is built continues a prefix of the journal, the whole journal
\* when no other process writes.
Prepared ==
    \A w \in Writers : pc[w] = "built" =>
        /\ event[w].sequence \in 1..(Len(log) + 1)
        /\ event[w].previous_hash = HashAt(event[w].sequence - 1)
        /\ event[w].event_hash = ComputeEventHash(event[w])
        /\ OneProcess => event[w].sequence = Len(log) + 1

\* A writer inside record() holds the lock of its process.
Locked == \A w \in Writers : pc[w] # "idle" => lock[ProcOf[w]] = w

Inv == TypeOK /\ ChainVerifies /\ ReturnedIsStored /\ Prepared /\ Locked

\* What a deployment is, and that it stays.
LEMMA DeploymentFacts ==
    ASSUME Inv
    PROVE  /\ ProcOf \in [Writers -> Procs]
           /\ Backend \in {"memory", "sqlite", "redis"}
           /\ Backend = "memory" => OneProcess
           /\ MaxCalls \in Nat /\ Free \notin Writers
           /\ deployment' = deployment => ProcOf' = ProcOf /\ OneProcess' = OneProcess
  BY JournalAssumption DEF Inv, TypeOK, ProcOf, Backend, OneProcess

\* Appending keeps the sequence a sequence, and its old events in place.
LEMMA AppendFacts ==
    ASSUME NEW s, s \in Seq({s[i] : i \in DOMAIN s}), NEW e
    PROVE  /\ Len(s) \in Nat /\ DOMAIN s = 1..Len(s)
           /\ Len(Append(s, e)) = Len(s) + 1
           /\ DOMAIN Append(s, e) = 1..(Len(s) + 1)
           /\ \A i \in 1..Len(s) : Append(s, e)[i] = s[i]
           /\ Append(s, e)[Len(s) + 1] = e
           /\ Append(s, e) \in Seq({Append(s, e)[i] : i \in DOMAIN Append(s, e)})
<1> DEFINE S == {s[i] : i \in DOMAIN s} \cup {e}
<1> DEFINE t == Append(s, e)
<1>1. s \in Seq(S)
  BY DEF S
<1> HIDE DEF S
<1>2. e \in S
  BY DEF S
<1>3. /\ Len(s) \in Nat /\ DOMAIN s = 1..Len(s)
      /\ Len(t) = Len(s) + 1
      /\ t \in Seq(S)
      /\ \A i \in 1..Len(s) : t[i] = s[i]
      /\ t[Len(s) + 1] = e
  BY <1>1, <1>2
<1>4. DOMAIN t = 1..(Len(s) + 1)
  BY <1>3
<1> HIDE DEF t
<1>5. t \in Seq({t[i] : i \in DOMAIN t})
  <2>1. t \in [1..Len(t) -> {t[i] : i \in DOMAIN t}]
    BY <1>3, <1>4
  <2>2. Len(t) \in Nat
    BY <1>3
  <2> QED
    BY <2>1, <2>2, SeqDef
<1> QED
  BY <1>3, <1>4, <1>5 DEF t

\* What record() reads: the number and the hash that follow the whole journal.
LEMMA TipFacts ==
    ASSUME TypeOK, ChainVerifies
    PROVE  NextSequence = Len(log) + 1 /\ PreviousHash = HashAt(Len(log))
<1>1. Len(log) \in Nat /\ DOMAIN log = 1..Len(log)
  BY DEF TypeOK
<1>2. CASE log = <<>>
  BY <1>2, <1>1 DEF NextSequence, PreviousHash, HashAt
<1>3. CASE log # <<>>
  <2>1. Len(log) # 0
    BY <1>3, <1>1 DEF TypeOK
  <2>2. Len(log) \in DOMAIN log
    BY <2>1, <1>1
  <2>3. log[Len(log)].sequence = Len(log)
    BY <2>2 DEF ChainVerifies, VerifyEventChain
  <2> QED
    BY <1>3, <2>1, <2>3, <1>1 DEF NextSequence, PreviousHash, HashAt
<1> QED
  BY <1>2, <1>3

\* A taken event has the next sequence number: the step of the backend that the
\* chain rests on.
LEMMA AcceptedIsNext ==
    ASSUME Inv, NEW w \in Writers, pc[w] = "built", Accepts(event[w])
    PROVE  event[w].sequence = Len(log) + 1
<1>1. Len(log) \in Nat /\ DOMAIN log = 1..Len(log)
  BY DEF Inv, TypeOK
<1>2. event[w].sequence \in 1..(Len(log) + 1)
  BY DEF Inv, Prepared
<1>3. CASE Backend = "memory"
  <2>1. OneProcess
    BY <1>3, DeploymentFacts DEF OneProcess
  <2> QED
    BY <2>1 DEF Inv, Prepared
<1>4. CASE Backend = "sqlite"
  <2>1. \A i \in 1..Len(log) : log[i].sequence = i /\ log[i].sequence # event[w].sequence
    BY <1>1, <1>4 DEF Accepts, Inv, ChainVerifies, VerifyEventChain
  <2> QED
    BY <2>1, <1>1, <1>2
<1>5. CASE Backend = "redis"
  BY <1>5, <1>1, <1>2 DEF Accepts
<1> QED
  BY <1>3, <1>4, <1>5, DeploymentFacts

\* Taking an event: the journal is longer by it, and verifies.
LEMMA Appended ==
    ASSUME Inv, NEW w \in Writers, pc[w] = "built", Accepts(event[w]),
           log' = Append(log, event[w])
    PROVE  /\ Len(log) \in Nat /\ DOMAIN log = 1..Len(log)
           /\ Len(log') = Len(log) + 1 /\ DOMAIN log' = 1..(Len(log) + 1)
           /\ \A i \in 1..Len(log) : log'[i] = log[i]
           /\ log'[event[w].sequence] = event[w]
           /\ event[w].sequence \in DOMAIN log'
           /\ log' \in Seq({log'[i] : i \in DOMAIN log'})
           /\ \A i \in DOMAIN log' : log'[i].sequence \in Nat \ {0}
           /\ ChainVerifies'
<1>1. log \in Seq({log[i] : i \in DOMAIN log})
  BY DEF Inv, TypeOK
<1>2. /\ Len(log) \in Nat /\ DOMAIN log = 1..Len(log)
      /\ Len(log') = Len(log) + 1 /\ DOMAIN log' = 1..(Len(log) + 1)
      /\ \A i \in 1..Len(log) : log'[i] = log[i]
      /\ log'[Len(log) + 1] = event[w]
      /\ log' \in Seq({log'[i] : i \in DOMAIN log'})
  BY <1>1, AppendFacts
<1>3. event[w].sequence = Len(log) + 1
  BY AcceptedIsNext
<1>4. /\ event[w].previous_hash = HashAt(Len(log))
      /\ event[w].event_hash = ComputeEventHash(event[w])
  BY <1>2, <1>3 DEF Inv, Prepared
<1>5. \A i \in DOMAIN log' :
          /\ log'[i].sequence = i
          /\ log'[i].previous_hash = IF i = 1 THEN NoHash ELSE log'[i - 1].event_hash
          /\ log'[i].event_hash = ComputeEventHash(log'[i])
  <2> SUFFICES ASSUME NEW i \in DOMAIN log'
               PROVE  /\ log'[i].sequence = i
                      /\ log'[i].previous_hash = IF i = 1 THEN NoHash ELSE log'[i - 1].event_hash
                      /\ log'[i].event_hash = ComputeEventHash(log'[i])
    OBVIOUS
  <2>1. CASE i \in 1..Len(log)
    <3>1. /\ log[i].sequence = i
          /\ log[i].previous_hash = IF i = 1 THEN NoHash ELSE log[i - 1].event_hash
          /\ log[i].event_hash = ComputeEventHash(log[i])
      BY <2>1, <1>2 DEF Inv, ChainVerifies, VerifyEventChain
    <3>2. log'[i] = log[i] /\ (i # 1 => log'[i - 1] = log[i - 1])
      BY <2>1, <1>2
    <3> QED
      BY <3>1, <3>2
  <2>2. CASE i = Len(log) + 1
    <3>1. i - 1 = Len(log) /\ (i # 1 => i - 1 \in 1..Len(log))
      BY <2>2, <1>2
    <3>2. log'[i] = event[w]
      BY <2>2, <1>2
    <3>3. CASE i = 1
      BY <3>1, <3>2, <3>3, <2>2, <1>3, <1>4 DEF HashAt
    <3>4. CASE i # 1
      <4>1. log'[i - 1] = log[Len(log)]
        BY <3>1, <3>4, <1>2
      <4>2. Len(log) # 0
        BY <3>1, <3>4, <2>2
      <4> QED
        BY <4>1, <4>2, <3>2, <2>2, <3>4, <1>3, <1>4 DEF HashAt
    <3> QED
      BY <3>3, <3>4
  <2> QED
    BY <2>1, <2>2, <1>2
<1>6. ChainVerifies'
  BY <1>5 DEF ChainVerifies, VerifyEventChain
<1> QED
  BY <1>2, <1>3, <1>5, <1>6

\* Leaving record(): the other writers keep their events and locks.
LEMMA Left ==
    ASSUME Inv, NEW w \in Writers, Leave(w)
    PROVE  /\ lock' \in [Procs -> Writers \cup {Free}]
           /\ pc' \in [Writers -> {"idle", "locked", "built"}]
           /\ DOMAIN event' = Writers
           /\ \A v \in Writers : event'[v].sequence \in Nat \ {0}
           /\ made' \in [Writers -> 0..MaxCalls]
           /\ deployment' = deployment /\ ProcOf' = ProcOf /\ OneProcess' = OneProcess
           /\ pc'[w] = "idle"
           /\ \A v \in Writers : v # w => pc'[v] = pc[v] /\ event'[v] = event[v]
<1>1. Blank.sequence = 1
  BY DEF Blank
<1>2. ProcOf[w] \in Procs
  BY DeploymentFacts
<1>3. lock' \in [Procs -> Writers \cup {Free}]
  BY <1>2 DEF Leave, Inv, TypeOK
<1>4. pc' \in [Writers -> {"idle", "locked", "built"}] /\ made' \in [Writers -> 0..MaxCalls]
  BY DEF Leave, Inv, TypeOK
<1>5. /\ DOMAIN event' = Writers /\ event'[w] = Blank
      /\ \A v \in Writers : v # w => event'[v] = event[v]
  BY DEF Leave, Inv, TypeOK
<1>6. \A v \in Writers : event'[v].sequence \in Nat \ {0}
  <2>1. \A v \in Writers : event[v].sequence \in Nat \ {0}
    BY DEF Inv, TypeOK
  <2> QED
    BY <2>1, <1>1, <1>5
<1>7. pc'[w] = "idle" /\ \A v \in Writers : v # w => pc'[v] = pc[v]
  BY DEF Leave, Inv, TypeOK
<1>8. deployment' = deployment /\ ProcOf' = ProcOf /\ OneProcess' = OneProcess
  BY DeploymentFacts DEF Leave
<1> QED
  BY <1>3, <1>4, <1>5, <1>6, <1>7, <1>8

\* A writer inside record() is alone in its process.
LEMMA AloneInProcess ==
    ASSUME Inv, NEW v \in Writers, NEW w \in Writers, v # w,
           pc[v] # "idle", pc[w] # "idle"
    PROVE  ProcOf[v] # ProcOf[w]
  BY DEF Inv, Locked

LEMMA LeftLocked ==
    ASSUME Inv, NEW w \in Writers, Leave(w), pc[w] # "idle"
    PROVE  Locked'
<1> SUFFICES ASSUME NEW v \in Writers, pc'[v] # "idle" PROVE lock'[ProcOf[v]] = v
  BY Left DEF Locked
<1>1. v # w /\ pc[v] = pc'[v]
  BY Left
<1>2. ProcOf[v] # ProcOf[w]
  BY <1>1, AloneInProcess
<1> QED
  BY <1>1, <1>2, DeploymentFacts DEF Leave, Inv, Locked, TypeOK

\* An append, answered or not, keeps the invariant.
LEMMA AppendKeeps ==
    ASSUME Inv, NEW w \in Writers, pc[w] = "built", Accepts(event[w]),
           log' = Append(log, event[w]), Leave(w),
           returned' = returned \/ returned' = returned \cup {event[w]}
    PROVE  Inv'
<1>1. TypeOK'
  BY Appended, Left DEF Inv, TypeOK
<1>2. ReturnedIsStored'
  <2> SUFFICES ASSUME NEW e \in returned'
               PROVE  e.sequence \in DOMAIN log' /\ log'[e.sequence] = e
    BY DEF ReturnedIsStored
  <2>1. CASE e \in returned
    <3>1. e.sequence \in DOMAIN log /\ log[e.sequence] = e
      BY <2>1 DEF Inv, ReturnedIsStored
    <3> QED
      BY <3>1, Appended
  <2>2. CASE e = event[w]
    BY <2>2, Appended
  <2> QED
    BY <2>1, <2>2
<1>3. Prepared'
  <2> DEFINE Good(v) ==
        /\ event[v].sequence \in 1..(Len(log) + 1)
        /\ event[v].previous_hash = HashAt(event[v].sequence - 1)
        /\ event[v].event_hash = ComputeEventHash(event[v])
        /\ OneProcess => event[v].sequence = Len(log) + 1
  <2> SUFFICES ASSUME NEW v \in Writers, pc'[v] = "built"
               PROVE  Good(v)'
    BY DEF Prepared
  <2>1. v # w /\ pc[v] = "built" /\ event'[v] = event[v]
    BY Left
  <2>2. ~OneProcess
    BY <2>1, AloneInProcess DEF OneProcess
  <2>3. /\ event[v].sequence \in 1..(Len(log) + 1)
        /\ event[v].previous_hash = HashAt(event[v].sequence - 1)
        /\ event[v].event_hash = ComputeEventHash(event[v])
    BY <2>1 DEF Inv, Prepared
  <2>4. HashAt(event[v].sequence - 1)' = HashAt(event[v].sequence - 1)
    <3>1. event[v].sequence - 1 = 0 \/ event[v].sequence - 1 \in 1..Len(log)
      BY <2>3, Appended
    <3> QED
      BY <2>1, <3>1, Appended DEF HashAt
  <2>5. event'[v].sequence \in 1..(Len(log') + 1)
    BY <2>1, <2>3, Appended
  <2>6. ComputeEventHash(event[v])' = ComputeEventHash(event[v])
    BY <2>1 DEF ComputeEventHash
  <2>7. ~OneProcess'
    BY <2>2, Left
  <2> QED
    BY <2>1, <2>3, <2>4, <2>5, <2>6, <2>7
<1> QED
  BY <1>1, <1>2, <1>3, Appended, LeftLocked DEF Inv

\* A call that raises without an append keeps the invariant.
LEMMA RaiseKeeps ==
    ASSUME Inv, NEW w \in Writers, pc[w] # "idle", Leave(w), UNCHANGED <<log, returned>>
    PROVE  Inv'
<1>1. TypeOK' /\ ChainVerifies' /\ ReturnedIsStored'
  BY Left DEF Inv, TypeOK, ChainVerifies, ReturnedIsStored
<1>2. Prepared'
  <2> SUFFICES ASSUME NEW v \in Writers, pc'[v] = "built"
               PROVE  pc[v] = "built" /\ event'[v] = event[v]
    BY Left DEF Inv, Prepared, HashAt, ComputeEventHash
  <2> QED
    BY Left
<1> QED
  BY <1>1, <1>2, LeftLocked DEF Inv

LEMMA InitInv == Init => Inv
<1> SUFFICES ASSUME Init PROVE Inv
  OBVIOUS
<1>1. log = <<>> /\ DOMAIN log = {} /\ log \in Seq({log[i] : i \in DOMAIN log})
  BY DEF Init
<1>2. TypeOK
  BY <1>1, JournalAssumption DEF Init, TypeOK, Blank
<1> QED
  BY <1>1, <1>2 DEF Init, Inv, ChainVerifies, VerifyEventChain, ReturnedIsStored, Prepared, Locked

LEMMA RecordKeeps ==
    ASSUME Inv, NEW w \in Writers, NEW m \in ManifestIds, Record(w, m)
    PROVE  Inv'
<1>1. /\ \A v \in Writers : v # w => pc'[v] = pc[v] /\ event'[v] = event[v]
      /\ pc'[w] = "locked" /\ event'[w].sequence = 1
      /\ log' = log /\ returned' = returned
  BY DEF Record, Inv, TypeOK, Blank
<1>0. deployment' = deployment /\ ProcOf' = ProcOf /\ OneProcess' = OneProcess
  BY DeploymentFacts DEF Record
<1>2. TypeOK'
  <2>1. ProcOf[w] \in Procs /\ made[w] \in 0..MaxCalls /\ made[w] < MaxCalls /\ MaxCalls \in Nat
    BY DeploymentFacts DEF Record, Inv, TypeOK
  <2>2. lock' \in [Procs -> Writers \cup {Free}]
    BY <2>1 DEF Record, Inv, TypeOK
  <2>3. made[w] + 1 \in 0..MaxCalls
    BY <2>1
  <2>4. made' \in [Writers -> 0..MaxCalls]
    BY <2>3 DEF Record, Inv, TypeOK
  <2>5. pc' \in [Writers -> {"idle", "locked", "built"}] /\ DOMAIN event' = Writers
    BY DEF Record, Inv, TypeOK
  <2>6. \A v \in Writers : event'[v].sequence \in Nat \ {0}
    BY <1>1 DEF Inv, TypeOK
  <2> QED
    BY <1>0, <1>1, <2>2, <2>4, <2>5, <2>6 DEF Inv, TypeOK
<1>3. ChainVerifies' /\ ReturnedIsStored'
  BY <1>1 DEF Inv, ChainVerifies, ReturnedIsStored
<1>4. Prepared'
  BY <1>0, <1>1 DEF Inv, Prepared, HashAt, ComputeEventHash
<1>5. Locked'
  <2> SUFFICES ASSUME NEW v \in Writers, pc'[v] # "idle" PROVE lock'[ProcOf[v]] = v
    BY <1>0 DEF Locked
  <2>1. CASE v = w
    BY <2>1, DeploymentFacts DEF Record, Inv, TypeOK
  <2>2. CASE v # w
    <3>1. lock[ProcOf[v]] = v /\ lock[ProcOf[w]] = Free /\ v # Free
      BY <2>2, <1>1, DeploymentFacts DEF Inv, Locked, Record
    <3> QED
      BY <3>1, DeploymentFacts DEF Record, Inv, TypeOK
  <2> QED
    BY <2>1, <2>2
<1> QED
  BY <1>2, <1>3, <1>4, <1>5 DEF Inv

LEMMA BuildKeeps ==
    ASSUME Inv, NEW w \in Writers, Build(w)
    PROVE  Inv'
<1>1. /\ \A v \in Writers : v # w => pc'[v] = pc[v] /\ event'[v] = event[v]
      /\ pc'[w] = "built" /\ event'[w] = Built(event[w]) /\ pc[w] = "locked"
      /\ log' = log /\ returned' = returned /\ lock' = lock /\ made' = made
      /\ DOMAIN event' = Writers
  BY DEF Build, Inv, TypeOK
<1>0. deployment' = deployment /\ ProcOf' = ProcOf /\ OneProcess' = OneProcess
  BY DeploymentFacts DEF Build
<1>2. Len(log) \in Nat
  BY DEF Inv, TypeOK
<1>3. /\ event'[w].sequence = Len(log) + 1
      /\ event'[w].previous_hash = HashAt(Len(log))
      /\ event'[w].event_hash = ComputeEventHash(event'[w])
  BY <1>1, TipFacts DEF Inv, Built, ComputeEventHash
<1>4. TypeOK'
  BY <1>1, <1>2, <1>3 DEF Build, Inv, TypeOK
<1>5. ChainVerifies' /\ ReturnedIsStored'
  BY <1>1 DEF Inv, ChainVerifies, ReturnedIsStored
<1>6. Prepared'
  <2> SUFFICES ASSUME NEW v \in Writers, pc'[v] = "built"
               PROVE  /\ event'[v].sequence \in 1..(Len(log) + 1)
                      /\ event'[v].previous_hash = HashAt(event'[v].sequence - 1)
                      /\ event'[v].event_hash = ComputeEventHash(event'[v])
                      /\ OneProcess => event'[v].sequence = Len(log) + 1
    BY <1>0, <1>1 DEF Prepared, ComputeEventHash, HashAt
  <2>1. CASE v = w
    BY <2>1, <1>2, <1>3
  <2>2. CASE v # w
    BY <2>2, <1>1 DEF Inv, Prepared
  <2> QED
    BY <2>1, <2>2
<1>7. Locked'
  BY <1>0, <1>1 DEF Inv, Locked
<1> QED
  BY <1>4, <1>5, <1>6, <1>7 DEF Inv

LEMMA CrashKeeps ==
    ASSUME Inv, NEW p \in Procs, Crash(p)
    PROVE  Inv'
<1>1. /\ \A v \in Writers : pc'[v] # "idle" =>
            pc'[v] = pc[v] /\ event'[v] = event[v] /\ ProcOf[v] # p
      /\ log' = log /\ returned' = returned /\ made' = made
  BY DEF Crash, Inv, TypeOK
<1>0. deployment' = deployment /\ ProcOf' = ProcOf /\ OneProcess' = OneProcess
  BY DeploymentFacts DEF Crash
<1>2. TypeOK'
  BY <1>1, DeploymentFacts DEF Crash, Inv, TypeOK, Blank
<1>3. ChainVerifies' /\ ReturnedIsStored'
  BY <1>1 DEF Inv, ChainVerifies, ReturnedIsStored
<1>4. Prepared'
  BY <1>0, <1>1 DEF Inv, Prepared, HashAt, ComputeEventHash
<1>5. Locked'
  BY <1>0, <1>1, DeploymentFacts DEF Inv, Locked, Crash, TypeOK
<1> QED
  BY <1>2, <1>3, <1>4, <1>5 DEF Inv

LEMMA NextInv == Inv /\ [Next]_vars => Inv'
<1> SUFFICES ASSUME Inv, [Next]_vars PROVE Inv'
  OBVIOUS
<1>1. ASSUME NEW w \in Writers, Step(w) PROVE Inv'
  <2>1. ASSUME NEW m \in ManifestIds, Record(w, m) PROVE Inv'
    BY <2>1, RecordKeeps
  <2>2. CASE Build(w)
    BY <2>2, BuildKeeps
  <2>3. CASE AppendEvent(w)
    BY <2>3, AppendKeeps DEF AppendEvent
  <2>4. CASE AppendUnanswered(w)
    BY <2>4, AppendKeeps DEF AppendUnanswered
  <2>5. CASE AppendRefused(w)
    BY <2>5, RaiseKeeps DEF AppendRefused
  <2>6. CASE BackendFails(w)
    BY <2>6, RaiseKeeps DEF BackendFails
  <2> QED
    BY <1>1, <2>1, <2>2, <2>3, <2>4, <2>5, <2>6 DEF Step
<1>2. ASSUME NEW p \in Procs, Crash(p) PROVE Inv'
  BY <1>2, CrashKeeps
<1>3. CASE UNCHANGED vars
  <2>1. deployment' = deployment /\ ProcOf' = ProcOf /\ OneProcess' = OneProcess
    BY <1>3, DeploymentFacts DEF vars
  <2> QED
    BY <1>3, <2>1 DEF vars, Inv, TypeOK, ChainVerifies, ReturnedIsStored, Prepared, Locked,
                      HashAt, ComputeEventHash
<1> QED
  BY <1>1, <1>2, <1>3 DEF Next

LEMMA Invariant == Spec => []Inv
  BY InitInv, NextInv, PTL DEF Spec

\* Whatever processes and threads write and wherever they fail, the journal
\* verifies: verify_chain raises only if the store was changed from outside.
THEOREM JournalVerifies == Spec => []ChainVerifies
<1>1. Inv => ChainVerifies
  BY DEF Inv
<1> QED
  BY <1>1, Invariant, PTL

\* An event that AuditJournal.record returned stays in the journal at its place.
THEOREM NothingReturnedIsLost == Spec => []ReturnedIsStored
<1>1. Inv => ReturnedIsStored
  BY DEF Inv
<1> QED
  BY <1>1, Invariant, PTL

\* The threads of a process that has the journal for itself never conflict.
THEOREM LockPreventsConflicts == Spec => []NoConflictWithin
<1>1. Inv => NoConflictWithin
  <2> SUFFICES ASSUME Inv, OneProcess, NEW w \in Writers, pc[w] = "built"
               PROVE  event[w].sequence = NextSequence /\ event[w].previous_hash = PreviousHash
    BY DEF NoConflictWithin, OneProcess
  <2>1. Len(log) \in Nat
    BY DEF Inv, TypeOK
  <2>2. event[w].sequence = Len(log) + 1 /\ event[w].previous_hash = HashAt(event[w].sequence - 1)
    BY DEF Inv, Prepared
  <2> QED
    BY <2>1, <2>2, TipFacts DEF Inv
<1> QED
  BY <1>1, Invariant, PTL

\* No step of record() or of a crash changes or removes a stored event.
THEOREM JournalIsAppendOnly == Spec => AppendOnly
<1>1. Inv /\ [Next]_vars => [\A i \in DOMAIN log : i \in DOMAIN log' /\ log'[i] = log[i]]_vars
  <2> SUFFICES ASSUME Inv, Next, NEW i \in DOMAIN log
               PROVE  i \in DOMAIN log' /\ log'[i] = log[i]
    OBVIOUS
  <2>1. ASSUME NEW w \in Writers, AppendEvent(w) \/ AppendUnanswered(w)
        PROVE  i \in DOMAIN log' /\ log'[i] = log[i]
    <3>1. pc[w] = "built" /\ Accepts(event[w]) /\ log' = Append(log, event[w])
      BY <2>1 DEF AppendEvent, AppendUnanswered
    <3> QED
      BY <3>1, Appended
  <2>2. CASE log' = log
    BY <2>2
  <2> QED
    BY <2>1, <2>2 DEF Next, Step, Record, Build, AppendRefused, BackendFails, Crash
<1> QED
  BY <1>1, Invariant, PTL DEF Spec, AppendOnly

(***************************************************************************)
(* Edits of the stored journal.                                            *)
(***************************************************************************)
\* An event has all the fields of a SignedAuditEvent, and no other.
Whole(e) ==
    DOMAIN e = {"sequence", "event_id", "previous_hash", "manifest_id", "event_hash"}

AllWhole ==
    (\A i \in DOMAIN log : Whole(log[i])) /\ (\A w \in Writers : Whole(event[w]))

LEMMA NextWhole == Inv /\ AllWhole /\ [Next]_vars => AllWhole'
<1> SUFFICES ASSUME Inv, AllWhole, [Next]_vars PROVE AllWhole'
  OBVIOUS
<1>a. DOMAIN event = Writers
  BY DEF Inv, TypeOK
<1>b. Whole(Blank)
  BY DEF Whole, Blank
<1>1. ASSUME NEW w \in Writers, Leave(w) PROVE \A v \in Writers : Whole(event'[v])
  BY <1>1, <1>a, <1>b DEF Leave, AllWhole
<1>2. ASSUME NEW w \in Writers, AppendEvent(w) \/ AppendUnanswered(w) PROVE AllWhole'
  <2>1. Leave(w) /\ pc[w] = "built" /\ Accepts(event[w]) /\ log' = Append(log, event[w])
    BY <1>2 DEF AppendEvent, AppendUnanswered
  <2>2. \A i \in DOMAIN log' : Whole(log'[i])
    <3>1. log \in Seq({log[i] : i \in DOMAIN log})
      BY DEF Inv, TypeOK
    <3>2. \A i \in DOMAIN log' : log'[i] = event[w] \/ (i \in DOMAIN log /\ log'[i] = log[i])
      BY <2>1, <3>1, AppendFacts
    <3> QED
      BY <3>2, <1>2 DEF AllWhole
  <2> QED
    BY <1>1, <2>1, <2>2 DEF AllWhole
<1>3. ASSUME NEW w \in Writers, AppendRefused(w) \/ BackendFails(w) PROVE AllWhole'
  <2>1. Leave(w) /\ log' = log
    BY <1>3 DEF AppendRefused, BackendFails
  <2> QED
    BY <1>1, <2>1 DEF AllWhole
<1>4. ASSUME NEW w \in Writers, NEW m \in ManifestIds, Record(w, m) PROVE AllWhole'
  <2>1. /\ log' = log
        /\ event' = [event EXCEPT ![w] = [Blank EXCEPT !.event_id = <<w, made[w]>>,
                                                       !.manifest_id = m]]
    BY <1>4 DEF Record
  <2>2. Whole([Blank EXCEPT !.event_id = <<w, made[w]>>, !.manifest_id = m])
    BY DEF Whole, Blank
  <2> QED
    BY <2>1, <2>2, <1>a DEF AllWhole
<1>5. ASSUME NEW w \in Writers, Build(w) PROVE AllWhole'
  <2>1. Whole(Built(event[w]))
    BY DEF Whole, Built
  <2> QED
    BY <1>5, <2>1, <1>a DEF AllWhole, Build
<1>6. ASSUME NEW p \in Procs, Crash(p) PROVE AllWhole'
  BY <1>6, <1>b DEF Crash, AllWhole
<1>7. CASE UNCHANGED vars
  BY <1>7 DEF vars, AllWhole
<1> QED
  BY <1>2, <1>3, <1>4, <1>5, <1>6, <1>7 DEF Next, Step

\* The successor of a missing event moves up into its place.
LEMMA SuccessorMovesUp ==
    ASSUME NEW S, NEW s \in Seq(S), NEW i \in 1..Len(s), i < Len(s)
    PROVE  i \in DOMAIN Without(s, i) /\ Without(s, i)[i] = s[i + 1]
<1>1. Len(s) \in Nat /\ i \in Nat /\ i >= 1
  OBVIOUS
<1>2. /\ SubSeq(s, 1, i - 1) \in Seq(S) /\ Len(SubSeq(s, 1, i - 1)) = i - 1
  BY <1>1
<1>3. /\ SubSeq(s, i + 1, Len(s)) \in Seq(S) /\ Len(SubSeq(s, i + 1, Len(s))) = Len(s) - i
      /\ SubSeq(s, i + 1, Len(s))[1] = s[i + 1]
  BY <1>1
<1> HIDE DEF Without
<1> DEFINE a == SubSeq(s, 1, i - 1)
<1> DEFINE b == SubSeq(s, i + 1, Len(s))
<1>4. /\ a \in Seq(S) /\ Len(a) = i - 1 /\ b \in Seq(S) /\ Len(b) = Len(s) - i /\ b[1] = s[i + 1]
  BY <1>2, <1>3
<1>5. Without(s, i) = a \o b
  BY DEF Without
<1> HIDE DEF a, b
<1>6. /\ Len(a \o b) = Len(s) - 1 /\ a \o b \in Seq(S)
      /\ (a \o b)[i] = b[1]
  <2>1. /\ a \o b \in Seq(S) /\ Len(a \o b) = Len(a) + Len(b)
        /\ \A j \in 1..(Len(a) + Len(b)) :
              (a \o b)[j] = IF j <= Len(a) THEN a[j] ELSE b[j - Len(a)]
    BY <1>4, ConcatProperties
  <2>2. i \in 1..(Len(a) + Len(b)) /\ ~(i <= Len(a)) /\ i - Len(a) = 1
    BY <1>1, <1>4
  <2> QED
    BY <1>1, <1>4, <2>1, <2>2
<1> QED
  BY <1>1, <1>4, <1>5, <1>6

\* Whoever changes an event of a journal that record() wrote, takes out one that has a
\* successor or exchanges two is found out by verify_chain, however many writers raced.
THEOREM EditsShow == Spec => []EditsAreDetected
<1>1. Inv /\ AllWhole => EditsAreDetected
  <2> SUFFICES ASSUME Inv, AllWhole, NEW i \in DOMAIN log
               PROVE  /\ \A m \in ManifestIds \ {log[i].manifest_id} :
                            ~VerifyEventChain([log EXCEPT ![i].manifest_id = m])
                      /\ i < Len(log) => ~VerifyEventChain(Without(log, i))
                      /\ i < Len(log) =>
                            ~VerifyEventChain([log EXCEPT ![i] = log[i + 1], ![i + 1] = log[i]])
    BY DEF EditsAreDetected
  <2>1. /\ Len(log) \in Nat /\ DOMAIN log = 1..Len(log)
        /\ log \in Seq({log[k] : k \in DOMAIN log})
    BY DEF Inv, TypeOK
  <2>2. \A k \in DOMAIN log :
           log[k].sequence = k /\ log[k].event_hash = ComputeEventHash(log[k])
    BY DEF Inv, ChainVerifies, VerifyEventChain
  <2>3. ASSUME NEW m \in ManifestIds \ {log[i].manifest_id}
        PROVE  ~VerifyEventChain([log EXCEPT ![i].manifest_id = m])
    <3> DEFINE e == [log[i] EXCEPT !.manifest_id = m]
    <3>1. /\ e.sequence = log[i].sequence /\ e.event_id = log[i].event_id
          /\ e.previous_hash = log[i].previous_hash
          /\ e.manifest_id = m /\ e.event_hash = log[i].event_hash
      BY DEF AllWhole, Whole
    <3>2. e.event_hash # ComputeEventHash(e)
      BY <3>1, <2>2, <2>3 DEF ComputeEventHash, EventHash
    <3>3. /\ i \in DOMAIN [log EXCEPT ![i].manifest_id = m]
          /\ [log EXCEPT ![i].manifest_id = m][i] = e
      BY <2>1
    <3> HIDE DEF e
    <3> QED
      BY <3>2, <3>3 DEF VerifyEventChain
  <2>4. ASSUME i < Len(log) PROVE ~VerifyEventChain(Without(log, i))
    <3>1. i \in DOMAIN Without(log, i) /\ Without(log, i)[i] = log[i + 1]
      BY <2>1, <2>4, SuccessorMovesUp
    <3>2. log[i + 1].sequence = i + 1 /\ i + 1 # i
      BY <2>1, <2>2, <2>4
    <3> QED
      BY <3>1, <3>2 DEF VerifyEventChain
  <2>5. ASSUME i < Len(log)
        PROVE  ~VerifyEventChain([log EXCEPT ![i] = log[i + 1], ![i + 1] = log[i]])
    <3> DEFINE t == [log EXCEPT ![i] = log[i + 1], ![i + 1] = log[i]]
    <3>1. i \in DOMAIN t /\ t[i] = log[i + 1]
      BY <2>1, <2>5
    <3>2. log[i + 1].sequence = i + 1 /\ i + 1 # i
      BY <2>1, <2>2, <2>5
    <3> HIDE DEF t
    <3>3. ~VerifyEventChain(t)
      BY <3>1, <3>2 DEF VerifyEventChain
    <3> QED
      BY <3>3 DEF t
  <2> QED
    BY <2>3, <2>4, <2>5
<1>2. Init => AllWhole
  BY DEF Init, AllWhole, Whole, Blank
<1> QED
  BY <1>1, <1>2, NextWhole, Invariant, PTL DEF Spec

(***************************************************************************)
(* Evidence packs.  The events of a manifest are taken from the journal by *)
(* a loop over it, whose results so far are the values of a function.      *)
(***************************************************************************)
Keeps(g, s, m, n) ==
    g = [i \in 0..n |-> IF i = 0 THEN <<>>
                        ELSE IF s[i].manifest_id = m THEN Append(g[i - 1], s[i]) ELSE g[i - 1]]

LEMMA SomeKeeps ==
    ASSUME NEW s, NEW m, NEW n \in Nat
    PROVE  \E g : Keeps(g, s, m, n)
<1> DEFINE Bad == {k \in Nat : ~ \E g : Keeps(g, s, m, k)}
<1> SUFFICES ASSUME Bad # {} PROVE FALSE
  OBVIOUS
<1>1. PICK k \in Bad : \A j \in Bad : k <= j
  <2>1. Bad \subseteq Nat
    OBVIOUS
  <2> HIDE DEF Bad
  <2> QED
    BY <2>1, LeastNumber
<1>2. CASE k = 0
  <2> DEFINE h == [i \in 0..0 |-> <<>>]
  <2>1. Keeps(h, s, m, 0)
    BY DEF Keeps
  <2> QED
    BY <1>1, <1>2, <2>1
<1>3. CASE k # 0
  <2>1. k - 1 \in Nat /\ ~ (k <= k - 1)
    BY <1>1, <1>3
  <2>2. PICK g : Keeps(g, s, m, k - 1)
    BY <1>1, <2>1
  <2> DEFINE last == IF s[k].manifest_id = m THEN Append(g[k - 1], s[k]) ELSE g[k - 1]
             h == [i \in 0..k |-> IF i = k THEN last ELSE g[i]]
  <2>3. \A i \in 0..(k - 1) :
           g[i] = IF i = 0 THEN <<>>
                  ELSE IF s[i].manifest_id = m THEN Append(g[i - 1], s[i]) ELSE g[i - 1]
    BY <2>2 DEF Keeps
  <2>4. h[k] = last /\ \A i \in 0..(k - 1) : h[i] = g[i]
    BY <1>1, <2>1
  <2>5. DOMAIN h = 0..k /\ h = [i \in 0..k |-> h[i]]
    OBVIOUS
  <2> HIDE DEF h
  <2>6. ASSUME NEW i \in 0..k
        PROVE  h[i] = IF i = 0 THEN <<>>
                      ELSE IF s[i].manifest_id = m THEN Append(h[i - 1], s[i]) ELSE h[i - 1]
    <3>1. CASE i = k
      <4>1. k - 1 \in 0..(k - 1)
        BY <2>1
      <4> QED
        BY <1>3, <2>4, <3>1, <4>1
    <3>2. CASE i # k /\ i = 0
      <4>1. 0 \in 0..(k - 1)
        BY <2>1
      <4> QED
        BY <2>3, <2>4, <3>2, <4>1
    <3>3. CASE i # k /\ i # 0
      <4>1. i \in 0..(k - 1) /\ i - 1 \in 0..(k - 1)
        BY <1>1, <3>3
      <4> HIDE DEF last
      <4> QED
        BY <2>3, <2>4, <3>3, <4>1
    <3> QED
      BY <3>1, <3>2, <3>3
  <2>7. Keeps(h, s, m, k)
    BY <2>5, <2>6 DEF Keeps
  <2> QED
    BY <1>1, <2>7
<1> QED
  BY <1>2, <1>3

LEMMA KeptStepwise ==
    ASSUME NEW s, Len(s) \in Nat, NEW m
    PROVE  \E g : /\ EventsForManifest(s, m) = g[Len(s)] /\ g[0] = <<>>
                  /\ \A i \in 1..Len(s) :
                        g[i] = IF s[i].manifest_id = m THEN Append(g[i - 1], s[i]) ELSE g[i - 1]
<1> DEFINE g == CHOOSE f : Keeps(f, s, m, Len(s))
<1>1. EventsForManifest(s, m) = g[Len(s)]
  BY Zenon DEF EventsForManifest, Keeps
<1>2. Keeps(g, s, m, Len(s))
  BY SomeKeeps, Zenon
<1> HIDE DEF g
<1>3. \A i \in 0..Len(s) :
         g[i] = IF i = 0 THEN <<>>
                ELSE IF s[i].manifest_id = m THEN Append(g[i - 1], s[i]) ELSE g[i - 1]
  BY <1>2 DEF Keeps
<1>4. g[0] = <<>>
  BY <1>3
<1>5. \A i \in 1..Len(s) :
         g[i] = IF s[i].manifest_id = m THEN Append(g[i - 1], s[i]) ELSE g[i - 1]
  <2> TAKE i \in 1..Len(s)
  <2>1. i \in 0..Len(s) /\ i # 0
    OBVIOUS
  <2> QED
    BY <1>3, <2>1
<1> QED
  BY <1>1, <1>4, <1>5

\* The events of m in s, in the order of their numbers.
Ascending(t) == \A i, k \in 1..Len(t) : i < k => t[i].sequence < t[k].sequence

About(s, m) == {s[k] : k \in {i \in 1..Len(s) : s[i].manifest_id = m}}

LEMMA KeptInOrder ==
    ASSUME NEW E, NEW s \in Seq(E), \A k \in 1..Len(s) : s[k].sequence = k, NEW m
    PROVE  EventsForManifest(s, m) \in Seq(About(s, m)) /\ Ascending(EventsForManifest(s, m))
<1>1. Len(s) \in Nat
  OBVIOUS
<1>2. PICK g : /\ EventsForManifest(s, m) = g[Len(s)] /\ g[0] = <<>>
               /\ \A i \in 1..Len(s) :
                     g[i] = IF s[i].manifest_id = m THEN Append(g[i - 1], s[i]) ELSE g[i - 1]
  BY <1>1, KeptStepwise
<1> DEFINE A == About(s, m)
           Good(n) == /\ g[n] \in Seq(A) /\ Ascending(g[n])
                      /\ \A j \in 1..Len(g[n]) : g[n][j].sequence \in Nat /\ g[n][j].sequence <= n
           Bad == {n \in 0..Len(s) : ~ Good(n)}
<1>3. \A i \in 1..Len(s) : s[i].manifest_id = m => s[i] \in A
  BY DEF About
<1>4. Good(0)
  BY <1>2 DEF Ascending
<1>5. Bad = {}
  <2> SUFFICES ASSUME Bad # {} PROVE FALSE
    OBVIOUS
  <2>1. Bad \subseteq Nat
    BY <1>1
  <2>2. PICK n \in Bad : \A k \in Bad : n <= k
    <3> HIDE DEF Bad
    <3> QED
      BY <2>1, LeastNumber
  <2>3. n \in 1..Len(s) /\ n - 1 \in 0..Len(s) /\ ~ (n <= n - 1)
    <3>1. n # 0
      BY <1>4, <2>2
    <3>2. n \in 0..Len(s)
      BY <2>2
    <3> QED
      BY <1>1, <3>1, <3>2
  <2>4. Good(n - 1)
    BY <2>2, <2>3
  <2> HIDE DEF A
  <2>5. PICK a : a = g[n - 1]
    OBVIOUS
  <2>6. /\ a \in Seq(A) /\ Ascending(a)
        /\ \A j \in 1..Len(a) : a[j].sequence \in Nat /\ a[j].sequence <= n - 1
    BY <2>4, <2>5
  <2>7. CASE s[n].manifest_id # m
    <3>1. g[n] = a
      BY <1>2, <2>3, <2>5, <2>7
    <3>2. Good(n)
      BY <2>3, <2>6, <3>1
    <3> QED
      BY <2>2, <3>2
  <2>8. CASE s[n].manifest_id = m
    <3>1. g[n] = Append(a, s[n]) /\ s[n] \in A /\ s[n].sequence = n
      BY <1>2, <1>3, <2>3, <2>5, <2>8
    <3>2. /\ g[n] \in Seq(A) /\ Len(g[n]) = Len(a) + 1 /\ Len(a) \in Nat
          /\ g[n][Len(a) + 1] = s[n] /\ \A j \in 1..Len(a) : g[n][j] = a[j]
      BY <2>6, <3>1
    <3>3. \A j \in 1..(Len(a) + 1) : j = Len(a) + 1 \/ (j \in 1..Len(a) /\ g[n][j] = a[j])
      BY <3>2
    <3>4. \A j \in 1..Len(g[n]) : g[n][j].sequence \in Nat /\ g[n][j].sequence <= n
      BY <2>3, <2>6, <3>1, <3>2, <3>3
    <3>5. ASSUME NEW i \in 1..(Len(a) + 1), NEW k \in 1..(Len(a) + 1), i < k
          PROVE  g[n][i].sequence < g[n][k].sequence
      <4>1. i \in 1..Len(a) /\ g[n][i] = a[i]
        BY <3>2, <3>5
      <4>2. CASE k = Len(a) + 1
        BY <2>3, <2>6, <3>1, <3>2, <4>1, <4>2
      <4>3. CASE k # Len(a) + 1
        <5>1. k \in 1..Len(a) /\ g[n][k] = a[k]
          BY <3>3, <4>3
        <5> QED
          BY <2>6, <3>5, <4>1, <5>1 DEF Ascending
      <4> QED
        BY <4>2, <4>3
    <3>6. Ascending(g[n])
      BY <3>2, <3>5 DEF Ascending
    <3>7. Good(n)
      BY <3>2, <3>4, <3>6
    <3> QED
      BY <2>2, <3>7
  <2> QED
    BY <2>7, <2>8
<1>6. Len(s) \in 0..Len(s)
  BY <1>1
<1>7. Good(Len(s))
  BY <1>5, <1>6
<1> QED
  BY <1>2, <1>7

\* Numbers that grow from each event to the next grow from any event to any later one.
LEMMA Ascends ==
    ASSUME NEW E, NEW t \in Seq(E), \A i \in 1..Len(t) : t[i].sequence \in Nat,
           \A i \in 1..Len(t) : i > 1 => t[i].sequence > t[i - 1].sequence
    PROVE  Ascending(t)
<1> SUFFICES ASSUME NEW i \in 1..Len(t),
                    {k \in 1..Len(t) : i < k /\ ~ (t[i].sequence < t[k].sequence)} # {}
             PROVE  FALSE
  BY DEF Ascending
<1> DEFINE Bad == {k \in 1..Len(t) : i < k /\ ~ (t[i].sequence < t[k].sequence)}
<1>1. Len(t) \in Nat /\ Bad \subseteq Nat /\ Bad # {}
  OBVIOUS
<1>2. PICK k \in Bad : \A j \in Bad : k <= j
  <2> HIDE DEF Bad
  <2> QED
    BY <1>1, LeastNumber
<1>3. k \in 1..Len(t) /\ i < k /\ ~ (t[i].sequence < t[k].sequence) /\ k - 1 \in 1..Len(t) /\ ~ (k <= k - 1)
  BY <1>1, <1>2
<1>4. t[k].sequence > t[k - 1].sequence
  <2> HIDE DEF Bad
  <2>1. k > 1
    BY <1>3
  <2> QED
    BY <1>3, <2>1
<1>5. k - 1 = i \/ t[i].sequence < t[k - 1].sequence
  BY <1>1, <1>2, <1>3
<1>6. t[i].sequence \in Nat /\ t[k].sequence \in Nat /\ t[k - 1].sequence \in Nat
  BY <1>3
<1>7. CASE k - 1 = i
  BY <1>3, <1>4, <1>6, <1>7
<1>8. CASE t[i].sequence < t[k - 1].sequence
  BY <1>3, <1>4, <1>6, <1>8
<1> QED
  BY <1>5, <1>7, <1>8

\* What a pack is made of.
PackFields == {"manifest", "passport", "sealed", "grant", "events", "keys", "hash"}

IsPack(p) == DOMAIN p = PackFields /\ p = [f \in PackFields |-> p[f]]

LEMMA HashedFacts ==
    ASSUME NEW p, DOMAIN p = PackFields, p = [f \in PackFields |-> p[f]]
    PROVE  /\ Hashed(p).hash = PackHash(Hashed(p))
           /\ Hashed(p).manifest = p.manifest /\ Hashed(p).passport = p.passport
           /\ Hashed(p).sealed = p.sealed /\ Hashed(p).grant = p.grant
           /\ Hashed(p).events = p.events /\ Hashed(p).keys = p.keys
           /\ DOMAIN Hashed(p) = PackFields /\ Hashed(p) = [f \in PackFields |-> Hashed(p)[f]]
  BY DEF Hashed, PackHash, PackFields

LEMMA PackFacts ==
    ASSUME Inv, NEW x \in PackInputs,
           Assembles(log, x.passport, x.sealed, x.grant, x.keyring),
           NEW p, p = BuildEvidencePack(log, x.passport, x.sealed, x.grant, x.keyring)
    PROVE  /\ IsPack(p) /\ p.hash = PackHash(p)
           /\ p.manifest \in Manifests
           /\ p.sealed = SignedBy("sealer", p.manifest) /\ p.sealed = x.sealed
           /\ p.grant = x.grant /\ p.keys = x.keyring
           /\ p.passport = Passport(p.manifest, p.manifest, "committed_unverified")
           /\ \A g \in p.grant : \E n \in {None, p.manifest} : g = SignedBy("issuer", n)
           /\ p.events \in Seq(About(log, p.manifest)) /\ Ascending(p.events)
<1> DEFINE m == x.sealed.manifest
           draft == [manifest |-> m, passport |-> x.passport, sealed |-> x.sealed,
                     grant |-> x.grant, events |-> EventsForManifest(log, m),
                     keys |-> x.keyring, hash |-> NoHash]
<1>1. /\ DOMAIN draft = PackFields /\ draft = [f \in PackFields |-> draft[f]]
      /\ draft.manifest = m /\ draft.passport = x.passport /\ draft.sealed = x.sealed
      /\ draft.grant = x.grant /\ draft.keys = x.keyring /\ draft.events = EventsForManifest(log, m)
  BY DEF PackFields
<1>2. p = Hashed(draft)
  BY DEF BuildEvidencePack
<1> HIDE DEF draft
<1>3. /\ p.hash = PackHash(p) /\ p.manifest = m /\ p.passport = x.passport /\ p.sealed = x.sealed
      /\ p.grant = x.grant /\ p.keys = x.keyring /\ p.events = EventsForManifest(log, m)
      /\ IsPack(p)
  BY <1>1, <1>2, HashedFacts DEF IsPack
<1>4. PICK n \in Manifests : x.sealed = SignedBy("sealer", n)
  BY DEF PackInputs
<1>5. n = m
  BY <1>4 DEF SignedBy
<1>6. x.passport = Passport(m, m, "committed_unverified")
  <2>1. PICK k \in Manifests : x.passport = Passport(k, k, "committed_unverified")
    BY DEF PackInputs
  <2>2. x.passport.manifest = k
    BY <2>1 DEF Passport
  <2> QED
    BY <2>1, <2>2 DEF Assembles
<1>7. \A g \in x.grant : \E k \in {None, m} : g = SignedBy("issuer", k)
  <2> TAKE g \in x.grant
  <2>1. PICK k \in ManifestIds : g = SignedBy("issuer", k)
    BY DEF PackInputs
  <2>2. g.manifest = k
    BY <2>1 DEF SignedBy
  <2> QED
    BY <2>1, <2>2 DEF Assembles
<1>8. log \in Seq({log[i] : i \in DOMAIN log}) /\ DOMAIN log = 1..Len(log)
  BY DEF Inv, TypeOK
<1>9. \A k \in 1..Len(log) : log[k].sequence = k
  BY <1>8 DEF Inv, ChainVerifies, VerifyEventChain
<1>10. EventsForManifest(log, m) \in Seq(About(log, m)) /\ Ascending(EventsForManifest(log, m))
  BY <1>8, <1>9, KeptInOrder
<1> QED
  BY <1>3, <1>4, <1>5, <1>6, <1>7, <1>10

\* A sequence is one over whatever set holds its elements.
LEMMA SeqInto ==
    ASSUME NEW S, NEW T, NEW s \in Seq(S), \A i \in DOMAIN s : s[i] \in T
    PROVE  s \in Seq(T) /\ DOMAIN s = 1..Len(s)
<1>1. DOMAIN s = 1..Len(s) /\ Len(s) \in Nat /\ s = [i \in 1..Len(s) |-> s[i]]
  OBVIOUS
<1>2. s \in [1..Len(s) -> T]
  BY <1>1
<1> QED
  BY <1>1, <1>2, SeqDef

LEMMA SeqElement ==
    ASSUME NEW S, NEW s \in Seq(S), NEW i \in DOMAIN s
    PROVE  s[i] \in S
  OBVIOUS

\* What the verifier makes sure of, of a pack that was hashed again.
LEMMA VerifiedFacts ==
    ASSUME NEW e, IsPack(e), VerifyEvidencePack(Hashed(e))
    PROVE  /\ VerifyPassportHash(e.passport)
           /\ VerifySignature(e.sealed, e.keys)
           /\ \A g \in e.grant : VerifySignature(g, e.keys)
           /\ VerifySelfConsistency(e.events)
           /\ \A i \in DOMAIN e.events : e.events[i].manifest_id \in {e.manifest, None}
           /\ e.sealed.manifest = e.passport.manifest_hash
<1>1. PICK h : h = Hashed(e)
  OBVIOUS
<1>2. /\ h.manifest = e.manifest /\ h.passport = e.passport /\ h.sealed = e.sealed
      /\ h.grant = e.grant /\ h.events = e.events /\ h.keys = e.keys
  BY <1>1, HashedFacts DEF IsPack
<1>3. /\ VerifyPassportHash(h.passport)
      /\ \A x \in {h.sealed} \cup h.grant : VerifySignature(x, h.keys)
      /\ VerifySelfConsistency(h.events)
      /\ \A i \in DOMAIN h.events : h.events[i].manifest_id \in {h.manifest, None}
      /\ h.sealed.manifest = h.passport.manifest_hash
  BY Zenon, <1>1 DEF VerifyEvidencePack
<1> QED
  BY <1>2, <1>3

\* A pack with one of its fields changed is a pack with that field changed.
With(p, f, v) == [p EXCEPT ![f] = v]

LEMMA WithFacts ==
    ASSUME NEW p, IsPack(p), NEW f \in PackFields, NEW v
    PROVE  /\ IsPack(With(p, f, v)) /\ With(p, f, v)[f] = v
           /\ \A k \in PackFields : k # f => With(p, f, v)[k] = p[k]
  BY DEF IsPack, With

\* A journal's events in another order, some of them left out.
Journaled(t) == t \in Seq({log[i] : i \in DOMAIN log})

LEMMA WithoutIsSeq ==
    ASSUME NEW S, NEW s \in Seq(S), NEW i \in DOMAIN s
    PROVE  Without(s, i) \in Seq(S)
<1>1. Len(s) \in Nat /\ i \in 1..Len(s) /\ DOMAIN s = 1..Len(s)
  OBVIOUS
<1>2. \A k \in 1..Len(s) : s[k] \in S
  OBVIOUS
<1>3. SubSeq(s, 1, i - 1) \in Seq(S)
  BY <1>1, <1>2
<1>4. SubSeq(s, i + 1, Len(s)) \in Seq(S)
  BY <1>1, <1>2
<1> QED
  BY <1>3, <1>4, ConcatProperties DEF Without

\* One change of journaled events leaves journaled events, if their hashes still fit.
LEMMA EditedEvents ==
    ASSUME Inv, AllWhole, NEW s, Journaled(s), NEW t \in EventEdits(s), VerifySelfConsistency(t)
    PROVE  Journaled(t)
<1> DEFINE E == {log[k] : k \in DOMAIN log}
           D == DOMAIN s
           A1(i, m) == [s EXCEPT ![i].manifest_id = m]
           A2(i, k) == [s EXCEPT ![i] = log[k]]
           A3(i, k) == [s EXCEPT ![i] = s[k], ![k] = s[i]]
           W1 == UNION {{A1(i, m) : m \in ManifestIds \ {s[i].manifest_id}} : i \in D}
           W2 == UNION {{A2(i, k) : k \in DOMAIN log} : i \in D}
           W3 == UNION {{A3(i, k) : k \in 1..i} : i \in D}
           W4 == {Without(s, i) : i \in D}
<1>1. s \in Seq(E) /\ D = 1..Len(s) /\ Len(s) \in Nat
  BY DEF Journaled
<1>2. t \in W1 \/ t \in W2 \/ t \in W3 \/ t \in W4
  <2>1. t \in W1 \cup W2 \cup W3 \cup W4
    BY DEF EventEdits
  <2> HIDE DEF W1, W2, W3, W4
  <2> QED
    BY <2>1
<1>3. CASE t \in W1
  <2>1. \E i \in D : \E m \in ManifestIds \ {s[i].manifest_id} : t = A1(i, m)
    <3> HIDE DEF A1, D
    <3> QED
      BY Zenon, <1>3
  <2>2. PICK i \in D : \E m \in ManifestIds : /\ s[i].manifest_id # m
                            /\ t = [s EXCEPT ![i] = [s[i] EXCEPT !.manifest_id = m]]
    BY <2>1
  <2>a. PICK m \in ManifestIds : /\ s[i].manifest_id # m
                                 /\ t = [s EXCEPT ![i] = [s[i] EXCEPT !.manifest_id = m]]
    BY <2>2
  <2>3. PICK k \in DOMAIN log : s[i] = log[k]
    BY <1>1, <2>2
  <2>4. Whole(s[i]) /\ s[i].event_hash = ComputeEventHash(s[i])
    BY <2>3 DEF AllWhole, Inv, ChainVerifies, VerifyEventChain
  <2>5. PICK a : a = [s[i] EXCEPT !.manifest_id = m]
    OBVIOUS
  <2>6. /\ a.sequence = s[i].sequence /\ a.event_id = s[i].event_id
        /\ a.previous_hash = s[i].previous_hash /\ a.event_hash = s[i].event_hash
        /\ a.manifest_id = m
    BY <2>4, <2>5 DEF Whole
  <2>7. i \in DOMAIN t /\ t[i] = a
    BY <2>a, <2>5, <1>1
  <2>8. a.event_hash = ComputeEventHash(a)
    BY <2>7 DEF VerifySelfConsistency
  <2>9. s[i].manifest_id = m
    BY <2>4, <2>6, <2>8 DEF ComputeEventHash, EventHash
  <2> QED
    BY <2>a, <2>9
<1>4. CASE t \in W2
  <2>1. \E i \in D : \E k \in DOMAIN log : t = A2(i, k)
    <3> HIDE DEF A2, D
    <3> QED
      BY Zenon, <1>4
  <2>2. PICK i \in D, k \in DOMAIN log : t = [s EXCEPT ![i] = log[k]]
    BY <2>1
  <2> QED
    BY <1>1, <2>2 DEF Journaled
<1>5. CASE t \in W3
  <2>1. \E i \in D : \E k \in 1..i : t = A3(i, k)
    <3> HIDE DEF A3, D
    <3> QED
      BY Zenon, <1>5
  <2>2. PICK i \in D : \E k \in 1..i : t = [s EXCEPT ![i] = s[k], ![k] = s[i]]
    BY <2>1
  <2>3. PICK k \in D : t = [s EXCEPT ![i] = s[k], ![k] = s[i]]
    <3>1. \A k \in 1..i : k \in D
      BY <1>1
    <3> HIDE DEF D
    <3> QED
      BY Zenon, <2>2, <3>1
  <2> QED
    BY <1>1, <2>2, <2>3 DEF Journaled
<1>6. CASE t \in W4
  <2>1. PICK i \in D : t = Without(s, i)
    BY Zenon, <1>6
  <2> QED
    BY <1>1, <2>1, WithoutIsSeq DEF Journaled
<1> QED
  BY <1>2, <1>3, <1>4, <1>5, <1>6

\* An edit changes one field.
NewPassport(q, old) ==
    \/ \E m, h \in Manifests : \E o \in Outcomes : q = Passport(m, h, o)
    \/ \E o \in Outcomes : q = [old EXCEPT !.outcome = o]
NewSeal(s, old) == \E m \in Manifests : s = [old EXCEPT !.manifest = m]
NewGrant(g, old) == g = {} \/ \E m \in ManifestIds : g = {[x EXCEPT !.manifest = m] : x \in old}

LEMMA EditsAre ==
    ASSUME NEW p, NEW e \in Edits(p)
    PROVE  \/ \E m \in Manifests : e = With(p, "manifest", m)
           \/ \E q : NewPassport(q, p.passport) /\ e = With(p, "passport", q)
           \/ \E s : NewSeal(s, p.sealed) /\ e = With(p, "sealed", s)
           \/ \E g : NewGrant(g, p.grant) /\ e = With(p, "grant", g)
           \/ \E t \in EventEdits(p.events) : e = With(p, "events", t)
<1> DEFINE A1(m) == [p EXCEPT !.manifest = m]
           A2(m, h, o) == [p EXCEPT !.passport = Passport(m, h, o)]
           A3(o) == [p EXCEPT !.passport.outcome = o]
           A4(m) == [p EXCEPT !.sealed.manifest = m]
           A5(m) == [p EXCEPT !.grant = {[g EXCEPT !.manifest = m] : g \in p.grant}]
           A6 == [p EXCEPT !.grant = {}]
           A7(t) == [p EXCEPT !.events = t]
           W1 == {A1(m) : m \in Manifests}
           W2 == {A2(m, h, o) : m, h \in Manifests, o \in Outcomes}
           W3 == {A3(o) : o \in Outcomes}
           W4 == {A4(m) : m \in Manifests}
           W5 == {A5(m) : m \in ManifestIds}
           W6 == {A6}
           W7 == {A7(t) : t \in EventEdits(p.events)}
<1>1. e \in W1 \cup W2 \cup W3 \cup W4 \cup W5 \cup W6 \cup W7
  BY DEF Edits
<1>2. e \in W1 \/ e \in W2 \/ e \in W3 \/ e \in W4 \/ e \in W5 \/ e \in W6 \/ e \in W7
  <2> HIDE DEF W1, W2, W3, W4, W5, W6, W7
  <2> QED
    BY <1>1
<1>3. CASE e \in W1
  BY Zenon, <1>3 DEF With
<1>4. CASE e \in W2
  <2>1. \E m, h \in Manifests : \E o \in Outcomes : e = A2(m, h, o)
    <3> HIDE DEF A2
    <3> QED
      BY <1>4
  <2>2. PICK m \in Manifests, h \in Manifests, o \in Outcomes : e = A2(m, h, o)
    BY Zenon, <2>1
  <2>3. PICK q : q = Passport(m, h, o)
    OBVIOUS
  <2>4. NewPassport(q, p.passport)
    BY Zenon, <2>2, <2>3 DEF NewPassport
  <2>5. e = With(p, "passport", q)
    BY Zenon, <2>2, <2>3 DEF With
  <2> QED
    BY Zenon, <2>4, <2>5
<1>5. CASE e \in W3
  <2>1. PICK o \in Outcomes : e = A3(o)
    BY Zenon, <1>5
  <2>2. PICK q : q = [p.passport EXCEPT !.outcome = o]
    OBVIOUS
  <2>3. NewPassport(q, p.passport)
    BY Zenon, <2>1, <2>2 DEF NewPassport
  <2>4. e = With(p, "passport", q)
    BY <2>1, <2>2 DEF With
  <2> QED
    BY Zenon, <2>3, <2>4
<1>6. CASE e \in W4
  <2>1. PICK m \in Manifests : e = A4(m)
    BY Zenon, <1>6
  <2>2. PICK s : s = [p.sealed EXCEPT !.manifest = m]
    OBVIOUS
  <2>3. NewSeal(s, p.sealed)
    BY Zenon, <2>1, <2>2 DEF NewSeal
  <2>4. e = With(p, "sealed", s)
    BY <2>1, <2>2 DEF With
  <2> QED
    BY Zenon, <2>3, <2>4
<1>7. CASE e \in W5
  <2>1. PICK m \in ManifestIds : e = A5(m)
    BY Zenon, <1>7
  <2>2. PICK g : g = {[x EXCEPT !.manifest = m] : x \in p.grant}
    OBVIOUS
  <2>3. NewGrant(g, p.grant)
    BY Zenon, <2>1, <2>2 DEF NewGrant
  <2>4. e = With(p, "grant", g)
    BY Zenon, <2>1, <2>2 DEF With
  <2> QED
    BY Zenon, <2>3, <2>4
<1>8. CASE e \in W6
  <2>1. NewGrant({}, p.grant) /\ e = With(p, "grant", {})
    BY Zenon, <1>8 DEF NewGrant, With
  <2> QED
    BY Zenon, <2>1
<1>9. CASE e \in W7
  BY Zenon, <1>9 DEF With
<1> HIDE DEF W1, W2, W3, W4, W5, W6, W7
<1> QED
  BY <1>2, <1>3, <1>4, <1>5, <1>6, <1>7, <1>8, <1>9

\* Nothing that was signed can be changed, but a grant can be left out.
Restated(x, n) == [x EXCEPT !.manifest = n]

LEMMA SealStays ==
    ASSUME NEW m, NEW n, NEW k, NEW keys, NEW s, s = Restated(SignedBy(k, m), n),
           VerifySignature(s, keys)
    PROVE  s = SignedBy(k, m)
<1>1. s = [manifest |-> n, key |-> k, signature |-> <<k, m>>]
  BY DEF SignedBy, Restated
<1>2. <<k, m>> = <<k, n>>
  BY <1>1 DEF VerifySignature
<1>3. m = n
  BY <1>2
<1> QED
  BY <1>1, <1>3 DEF SignedBy

\* A passport that verifies and kept its hash says the same.
LEMMA PassportStays ==
    ASSUME NEW m, NEW c, NEW old, old = Passport(m, m, c), NEW q, NewPassport(q, old),
           VerifyPassportHash(q), q.hash = old.hash
    PROVE  q = old
<1>1. old = [manifest |-> m, manifest_hash |-> m, outcome |-> c, hash |-> <<m, m, c>>]
  BY DEF Passport
<1>2. ASSUME NEW a, NEW h, NEW o, q = Passport(a, h, o) PROVE q = old
  <2>1. q = [manifest |-> a, manifest_hash |-> h, outcome |-> o, hash |-> <<a, h, o>>]
    BY <1>2 DEF Passport
  <2>2. <<a, h, o>> = <<m, m, c>>
    BY <1>1, <2>1
  <2>3. a = m /\ h = m /\ o = c
    BY <2>2
  <2> QED
    BY <1>1, <2>1, <2>3
<1>3. ASSUME NEW o, q = [old EXCEPT !.outcome = o] PROVE q = old
  <2>1. q = [manifest |-> m, manifest_hash |-> m, outcome |-> o, hash |-> <<m, m, c>>]
    BY <1>1, <1>3
  <2>2. <<m, m, c>> = <<m, m, o>>
    BY <2>1 DEF VerifyPassportHash
  <2>3. c = o
    BY <2>2
  <2> QED
    BY <1>1, <2>1, <2>3
<1> QED
  BY <1>2, <1>3 DEF NewPassport

\* An edited pack that verifies still tells what it was made to tell.
LEMMA Tells ==
    ASSUME Inv, NEW p, NEW e, IsPack(e), VerifyEvidencePack(Hashed(e)),
           e.sealed = p.sealed, e.grant \subseteq p.grant,
           e.passport.hash = p.passport.hash => e.passport = p.passport,
           Journaled(e.events),
           e.manifest = p.sealed.manifest \/ \A i \in DOMAIN e.events : e.events[i].manifest_id = None
    PROVE  StillTells(e, p)
<1>1. PICK t : t = e.events
  OBVIOUS
<1>2. t \in Seq({log[k] : k \in DOMAIN log}) /\ DOMAIN t = 1..Len(t)
  BY <1>1 DEF Journaled
<1>3. \A i \in DOMAIN t : \E k \in DOMAIN log : log[k] = t[i]
  BY <1>2
<1>4. \A i \in 1..Len(t) : t[i].sequence \in Nat
  BY <1>2, <1>3 DEF Inv, TypeOK
<1>5. /\ VerifySelfConsistency(t) /\ e.passport.manifest_hash = p.sealed.manifest
      /\ \A i \in DOMAIN t : t[i].manifest_id \in {e.manifest, None}
  BY <1>1, VerifiedFacts
<1>6. Ascending(t)
  BY <1>2, <1>4, <1>5, Ascends DEF VerifySelfConsistency
<1>7. \A i, k \in DOMAIN t : i < k => t[i].sequence < t[k].sequence
  BY <1>2, <1>6 DEF Ascending
<1> QED
  BY Zenon, <1>1, <1>3, <1>5, <1>7 DEF StillTells

LEMMA PacksAreTrue == Inv /\ AllWhole => PacksTellTheTruth
<1> SUFFICES ASSUME Inv, AllWhole, NEW x \in PackInputs,
                    Assembles(log, x.passport, x.sealed, x.grant, x.keyring),
                    NEW p, p = BuildEvidencePack(log, x.passport, x.sealed, x.grant, x.keyring)
             PROVE  /\ VerifyEvidencePack(p) =
                          (({x.sealed.key} \cup {g.key : g \in x.grant}) \subseteq x.keyring)
                    /\ \A e \in Edits(p) : VerifyEvidencePack(Hashed(e)) => StillTells(e, p)
  BY Zenon DEF PacksTellTheTruth
<1> DEFINE m == p.manifest
           es == p.events
<1>1. /\ IsPack(p) /\ p.hash = PackHash(p)
      /\ m \in Manifests /\ p.sealed = SignedBy("sealer", m) /\ p.sealed = x.sealed
      /\ p.grant = x.grant /\ p.keys = x.keyring
      /\ p.passport = Passport(m, m, "committed_unverified")
      /\ \A g \in p.grant : \E n \in {None, m} : g = SignedBy("issuer", n)
      /\ es \in Seq(About(log, m)) /\ Ascending(es)
  BY PackFacts
<1>2. /\ p.sealed.manifest = m /\ p.sealed.key = "sealer" /\ p.sealed.signature = <<"sealer", m>>
      /\ p.passport.manifest_hash = m /\ VerifyPassportHash(p.passport)
  <2>1. p.sealed = SignedBy("sealer", m) /\ p.passport = Passport(m, m, "committed_unverified")
    BY <1>1
  <2> HIDE DEF m
  <2> QED
    BY <2>1 DEF SignedBy, Passport, VerifyPassportHash
<1>3. ASSUME NEW i \in DOMAIN es
      PROVE  \E k \in DOMAIN log : es[i] = log[k] /\ log[k].manifest_id = m
  <2>1. es[i] \in About(log, m)
    BY Zenon, <1>1, SeqElement
  <2>2. DOMAIN log = 1..Len(log)
    BY DEF Inv, TypeOK
  <2> QED
    BY <2>1, <2>2 DEF About
<1>4. Journaled(es) /\ DOMAIN es = 1..Len(es)
  <2>1. \A i \in DOMAIN es : es[i] \in {log[k] : k \in DOMAIN log}
    BY <1>3
  <2>2. PICK t : t = es
    OBVIOUS
  <2>3. t \in Seq(About(log, m)) /\ \A i \in DOMAIN t : t[i] \in {log[k] : k \in DOMAIN log}
    BY <1>1, <2>1, <2>2
  <2>4. t \in Seq({log[k] : k \in DOMAIN log}) /\ DOMAIN t = 1..Len(t)
    BY <2>3, SeqInto
  <2> QED
    BY <2>2, <2>4 DEF Journaled
<1>5. \A k \in DOMAIN log : /\ log[k].sequence = k /\ k \in Nat
                            /\ log[k].event_hash = ComputeEventHash(log[k])
  BY DEF Inv, TypeOK, ChainVerifies, VerifyEventChain
<1>6. VerifyEvidencePack(p) <=> (({x.sealed.key} \cup {g.key : g \in x.grant}) \subseteq x.keyring)
  <2>1. VerifySelfConsistency(es)
    <3> SUFFICES ASSUME NEW i \in DOMAIN es
                 PROVE  /\ i > 1 => es[i].sequence > es[i - 1].sequence
                        /\ es[i].event_hash = ComputeEventHash(es[i])
      BY DEF VerifySelfConsistency
    <3>1. PICK k \in DOMAIN log : es[i] = log[k]
      BY <1>3
    <3>2. es[i].event_hash = ComputeEventHash(es[i])
      BY <1>5, <3>1
    <3>3. ASSUME i > 1 PROVE es[i].sequence > es[i - 1].sequence
      <4>1. i - 1 \in DOMAIN es /\ i - 1 \in 1..Len(es) /\ i \in 1..Len(es) /\ i - 1 < i
        BY <1>4, <3>3
      <4>2. PICK j \in DOMAIN log : es[i - 1] = log[j]
        BY <1>3, <4>1
      <4>3. es[i - 1].sequence < es[i].sequence
        BY <1>1, <4>1 DEF Ascending
      <4> QED
        BY <1>5, <3>1, <4>2, <4>3
    <3> QED
      BY <3>2, <3>3
  <2>2. \A i \in DOMAIN es : es[i].manifest_id = m
    BY <1>3
  <2>3. \A g \in p.grant : g.manifest \in {None, m} /\ g.signature = <<g.key, g.manifest>>
    <3> TAKE g \in p.grant
    <3>1. PICK n \in {None, m} : g = SignedBy("issuer", n)
      BY <1>1
    <3> HIDE DEF m
    <3> QED
      BY <3>1 DEF SignedBy
  <2>4. (\A y \in {p.sealed} \cup p.grant : VerifySignature(y, p.keys))
           <=> (p.sealed.key \in p.keys /\ \A g \in p.grant : g.key \in p.keys)
    BY <1>2, <2>3 DEF VerifySignature
  <2>5. (p.sealed.key \in p.keys /\ \A g \in p.grant : g.key \in p.keys)
           <=> (({x.sealed.key} \cup {g.key : g \in x.grant}) \subseteq x.keyring)
    BY <1>1
  <2>6. VerifyEvidencePack(p) <=> \A y \in {p.sealed} \cup p.grant : VerifySignature(y, p.keys)
    BY Zenon, <1>1, <1>2, <2>1, <2>2, <2>3 DEF VerifyEvidencePack
  <2> QED
    BY Zenon, <2>4, <2>5, <2>6
<1>7. VerifyEvidencePack(p) = (({x.sealed.key} \cup {g.key : g \in x.grant}) \subseteq x.keyring)
  <2>1. VerifyEvidencePack(p) \in BOOLEAN
    BY Zenon DEF VerifyEvidencePack
  <2> QED
    BY <1>6, <2>1
<1>8. ASSUME NEW n \in Manifests, NEW e, e = With(p, "manifest", n), VerifyEvidencePack(Hashed(e))
      PROVE  StillTells(e, p)
  <2>1. /\ IsPack(e) /\ e.manifest = n /\ e.passport = p.passport /\ e.sealed = p.sealed
        /\ e.grant = p.grant /\ e.events = es
    BY <1>1, <1>8, WithFacts DEF PackFields
  <2>2. \A i \in DOMAIN es : es[i].manifest_id \in {n, None}
    BY <1>8, <2>1, VerifiedFacts
  <2>3. n = m \/ \A i \in DOMAIN es : es[i].manifest_id = None
    BY <1>3, <2>2
  <2> QED
    BY <1>2, <1>4, <1>8, <2>1, <2>3, Tells
<1>9. ASSUME NEW q, NewPassport(q, p.passport), NEW e, e = With(p, "passport", q),
             VerifyEvidencePack(Hashed(e))
      PROVE  StillTells(e, p)
  <2>1. /\ IsPack(e) /\ e.manifest = m /\ e.passport = q /\ e.sealed = p.sealed
        /\ e.grant = p.grant /\ e.events = es
    BY <1>1, <1>9, WithFacts DEF PackFields
  <2>2. VerifyPassportHash(q)
    BY <1>9, <2>1, VerifiedFacts
  <2>3. q.hash = p.passport.hash => q = p.passport
    BY <1>1, <1>9, <2>2, PassportStays
  <2> QED
    BY <1>2, <1>4, <1>9, <2>1, <2>3, Tells
<1>10. ASSUME NEW s, NewSeal(s, p.sealed), NEW e, e = With(p, "sealed", s),
              VerifyEvidencePack(Hashed(e))
       PROVE  StillTells(e, p)
  <2>1. /\ IsPack(e) /\ e.manifest = m /\ e.passport = p.passport /\ e.sealed = s
        /\ e.grant = p.grant /\ e.events = es
    BY <1>1, <1>10, WithFacts DEF PackFields
  <2>2. VerifySignature(s, e.keys)
    BY <1>10, <2>1, VerifiedFacts
  <2>3. PICK n \in Manifests : s = [p.sealed EXCEPT !.manifest = n]
    BY <1>10 DEF NewSeal
  <2>4. s = Restated(SignedBy("sealer", m), n)
    BY Zenon, <1>1, <2>3 DEF Restated
  <2>5. s = p.sealed
    BY <1>1, <2>2, <2>4, SealStays
  <2> QED
    BY <1>2, <1>4, <1>10, <2>1, <2>5, Tells
<1>11. ASSUME NEW gs, NewGrant(gs, p.grant), NEW e, e = With(p, "grant", gs),
              VerifyEvidencePack(Hashed(e))
       PROVE  StillTells(e, p)
  <2>1. /\ IsPack(e) /\ e.manifest = m /\ e.passport = p.passport /\ e.sealed = p.sealed
        /\ e.grant = gs /\ e.events = es
    BY <1>1, <1>11, WithFacts DEF PackFields
  <2>2. \A g \in gs : VerifySignature(g, e.keys)
    BY <1>11, <2>1, VerifiedFacts
  <2>3. ASSUME NEW n, gs = {[y EXCEPT !.manifest = n] : y \in p.grant} PROVE gs \subseteq p.grant
    <3> SUFFICES ASSUME NEW g \in gs PROVE g \in p.grant
      OBVIOUS
    <3>1. PICK y \in p.grant : g = [y EXCEPT !.manifest = n]
      BY Zenon, <2>3
    <3>2. PICK k \in {None, m} : y = SignedBy("issuer", k)
      BY <1>1
    <3>3. g = Restated(SignedBy("issuer", k), n)
      BY Zenon, <3>1, <3>2 DEF Restated
    <3>4. g = SignedBy("issuer", k)
      BY <2>2, <3>3, SealStays
    <3> QED
      BY Zenon, <3>1, <3>2, <3>4
  <2>4. gs \subseteq p.grant
    BY Zenon, <1>11, <2>3 DEF NewGrant
  <2> QED
    BY <1>2, <1>4, <1>11, <2>1, <2>4, Tells
<1>12. ASSUME NEW t \in EventEdits(es), NEW e, e = With(p, "events", t), VerifyEvidencePack(Hashed(e))
       PROVE  StillTells(e, p)
  <2>1. /\ IsPack(e) /\ e.manifest = m /\ e.passport = p.passport /\ e.sealed = p.sealed
        /\ e.grant = p.grant /\ e.events = t
    BY <1>1, <1>12, WithFacts DEF PackFields
  <2>2. VerifySelfConsistency(t)
    BY <1>12, <2>1, VerifiedFacts
  <2>3. Journaled(t)
    BY <1>4, <2>2, EditedEvents
  <2> QED
    BY <1>2, <1>12, <2>1, <2>3, Tells
<1>13. ASSUME NEW e \in Edits(p), VerifyEvidencePack(Hashed(e)) PROVE StillTells(e, p)
  BY Zenon, <1>8, <1>9, <1>10, <1>11, <1>12, <1>13, EditsAre
<1> QED
  BY <1>7, <1>13

\* A pack that is built at any moment verifies offline exactly if the keys of its seal and of its grant
\* were still on the keyring, and one that is edited and hashed again only if it still tells what was
\* signed and events of the journal in their order: for journals of any length and any number of racing
\* writers (portable/builder.py, portable/verify.py).
THEOREM PacksAreHonest == Spec => []PacksTellTheTruth
<1>1. Init => AllWhole
  BY DEF Init, AllWhole, Whole, Blank
<1> QED
  BY <1>1, PacksAreTrue, NextWhole, Invariant, PTL DEF Spec
=============================================================================
