---------------------------- MODULE AuditJournal ----------------------------
(***************************************************************************)
(* The hash-chained audit journal.  AuditJournal.record takes the process' *)
(* lock, reads the last event, builds the next one and appends it to the   *)
(* backend; the lock orders the threads of one process, and only the       *)
(* backend's rejection of a taken sequence number orders processes.        *)
(***************************************************************************)
EXTENDS Integers, Sequences, FiniteSets

CONSTANTS
    Writers,        \* threads that call record()
    Procs,          \* processes
    Deployments,    \* [backend, procOf]: the backend, and the process of each writer
    Manifests,      \* manifests the events are about
    None,           \* no manifest: of an event about none, of a grant bound to none
    Free,           \* no writer: the lock is not held
    MaxCalls        \* bound on the calls of a writer

\* A backend in memory serves one process.
ASSUME JournalAssumption ==
    /\ \A d \in Deployments :
          /\ d.backend \in {"memory", "sqlite", "redis"}
          /\ d.procOf \in [Writers -> Procs]
          /\ d.backend = "memory" => \A v, w \in Writers : d.procOf[v] = d.procOf[w]
    /\ MaxCalls \in Nat
    /\ Free \notin Writers /\ None \notin Manifests

NoHash == <<>>

\* What an event is about: that of a delegation or of a new graph, of no manifest.
ManifestIds == Manifests \cup {None}

VARIABLES
    deployment, \* the deployment the system runs in
    log,        \* the events of the backend, in order of insertion
    lock,       \* process -> writer that holds the journal's lock
    pc,         \* writer -> where it is in record()
    event,      \* writer -> the event it builds
    made,       \* writer -> number of its calls
    returned    \* the events that record() returned

vars == <<deployment, log, lock, pc, event, made, returned>>

Backend == deployment.backend
ProcOf == deployment.procOf

\* The hash is taken as free of collisions: the content it binds.
EventHash(sequence, event_id, previous_hash, manifest_id) ==
    <<sequence, event_id, previous_hash, manifest_id>>
ComputeEventHash(e) == EventHash(e.sequence, e.event_id, e.previous_hash, e.manifest_id)

Blank == [sequence |-> 1, event_id |-> <<>>, previous_hash |-> NoHash,
          manifest_id |-> None, event_hash |-> NoHash]

Init ==
    /\ deployment \in Deployments
    /\ log = <<>>
    /\ lock = [p \in Procs |-> Free]
    /\ pc = [w \in Writers |-> "idle"]
    /\ event = [w \in Writers |-> Blank]
    /\ made = [w \in Writers |-> 0]
    /\ returned = {}

-----------------------------------------------------------------------------
\* last_event, and what record() derives from it
NextSequence == IF log = <<>> THEN 1 ELSE log[Len(log)].sequence + 1
PreviousHash == IF log = <<>> THEN NoHash ELSE log[Len(log)].event_hash

\* Whether the backend takes an event: a list takes all, the primary key of the
\* table must be new, the Lua script compares the sequence with the length.
AcceptsAll(e) == TRUE     \* mutant
Accepts(e) ==
    \/ Backend = "memory"
    \/ Backend = "sqlite" /\ \A i \in DOMAIN log : log[i].sequence # e.sequence
    \/ Backend = "redis" /\ Len(log) + 1 = e.sequence

\* Leaving record(), with or without a result
Leave(w) ==
    /\ pc' = [pc EXCEPT ![w] = "idle"]
    /\ event' = [event EXCEPT ![w] = Blank]
    /\ lock' = [lock EXCEPT ![ProcOf[w]] = Free]
    /\ UNCHANGED <<deployment, made>>

Record(w, m) ==
    /\ pc[w] = "idle" /\ made[w] < MaxCalls
    /\ lock[ProcOf[w]] = Free
    /\ pc' = [pc EXCEPT ![w] = "locked"]
    /\ lock' = [lock EXCEPT ![ProcOf[w]] = w]
    /\ made' = [made EXCEPT ![w] = @ + 1]
    /\ event' = [event EXCEPT ![w] = [Blank EXCEPT !.event_id = <<w, made[w]>>,
                                                   !.manifest_id = m]]
    /\ UNCHANGED <<deployment, log, returned>>

Built(e) ==
    [sequence |-> NextSequence, event_id |-> e.event_id, previous_hash |-> PreviousHash,
     manifest_id |-> e.manifest_id,
     event_hash |-> EventHash(NextSequence, e.event_id, PreviousHash, e.manifest_id)]

\* Read the last event and build the next one
Build(w) ==
    /\ pc[w] = "locked"
    /\ pc' = [pc EXCEPT ![w] = "built"]
    /\ event' = [event EXCEPT ![w] = Built(event[w])]
    /\ UNCHANGED <<deployment, log, lock, made, returned>>

AppendSwallowing(w) ==     \* mutant: a refused insert is not an error
    /\ pc[w] = "built"
    /\ log' = IF Accepts(event[w]) THEN Append(log, event[w]) ELSE log
    /\ returned' = returned \cup {event[w]}
    /\ Leave(w)
AppendEvent(w) ==
    /\ pc[w] = "built"
    /\ Accepts(event[w])
    /\ log' = Append(log, event[w])
    /\ returned' = returned \cup {event[w]}
    /\ Leave(w)

\* The backend takes the event and its answer is lost: AuditWriteError
AppendUnanswered(w) ==
    /\ pc[w] = "built"
    /\ Backend = "redis"
    /\ Accepts(event[w])
    /\ log' = Append(log, event[w])
    /\ UNCHANGED returned
    /\ Leave(w)

\* The backend refuses the event: AuditWriteError
AppendRefused(w) ==
    /\ pc[w] = "built"
    /\ ~Accepts(event[w])
    /\ UNCHANGED <<log, returned>>
    /\ Leave(w)

\* The backend cannot be read or written: the call raises
BackendFails(w) ==
    /\ pc[w] \in {"locked", "built"}
    /\ Backend # "memory"
    /\ UNCHANGED <<log, returned>>
    /\ Leave(w)

\* A process dies and starts again over its durable backend
Crash(p) ==
    /\ Backend # "memory"
    /\ lock[p] # Free
    /\ pc' = [w \in Writers |-> IF ProcOf[w] = p THEN "idle" ELSE pc[w]]
    /\ event' = [w \in Writers |-> IF ProcOf[w] = p THEN Blank ELSE event[w]]
    /\ lock' = [lock EXCEPT ![p] = Free]
    /\ UNCHANGED <<deployment, log, made, returned>>

Step(w) ==
    \/ \E m \in ManifestIds : Record(w, m)
    \/ Build(w) \/ AppendEvent(w) \/ AppendUnanswered(w) \/ AppendRefused(w) \/ BackendFails(w)

Next == (\E w \in Writers : Step(w)) \/ (\E p \in Procs : Crash(p))

Spec == Init /\ [][Next]_vars

-----------------------------------------------------------------------------
(* Verification of stored events.                                          *)

\* verify_event_chain: a whole journal
VerifyUnhashed(events) ==     \* mutant: the hash of an event is not recomputed
    \A i \in DOMAIN events :
        /\ events[i].sequence = i
        /\ events[i].previous_hash = IF i = 1 THEN NoHash ELSE events[i - 1].event_hash
VerifyEventChain(events) ==
    \A i \in DOMAIN events :
        /\ events[i].sequence = i
        /\ events[i].previous_hash = IF i = 1 THEN NoHash ELSE events[i - 1].event_hash
        /\ events[i].event_hash = ComputeEventHash(events[i])

\* verify_event_self_consistency: the events of one manifest
VerifySelfConsistency(events) ==
    \A i \in DOMAIN events :
        /\ i > 1 => events[i].sequence > events[i - 1].sequence
        /\ events[i].event_hash = ComputeEventHash(events[i])

\* events_for_manifest: the events of one manifest, in their order
EventsForManifest(events, m) ==
    LET kept[i \in 0..Len(events)] ==
            IF i = 0 THEN <<>>
            ELSE IF events[i].manifest_id = m THEN Append(kept[i - 1], events[i]) ELSE kept[i - 1]
    IN  kept[Len(events)]

-----------------------------------------------------------------------------
(* Portable evidence packs.  A sealed manifest and a grant carry the key    *)
(* that signed them and its signature; a passport carries no signature,     *)
(* only a hash of what it says: which manifest it is about, by its id and   *)
(* by its hash, and how the effect ended.                                   *)

MAX_EMBEDDED_AUDIT_EVENTS == 10000
MAX_EMBEDDED_KEYS == 256

\* Two of the outcomes a passport may tell.
Outcomes == {"committed_unverified", "verified_match"}

SignedBy(key, m) == [manifest |-> m, key |-> key, signature |-> <<key, m>>]
Passport(m, h, outcome) ==
    [manifest |-> m, manifest_hash |-> h, outcome |-> outcome, hash |-> <<m, h, outcome>>]

\* compute_pack_hash: everything but the hash itself and the time.
PackHash(p) == <<p.manifest, p.passport, p.sealed, p.grant, p.events, p.keys>>
Hashed(p) == [p EXCEPT !.hash = PackHash(p)]

\* build_evidence_pack: what it refuses, and the pack.  grant is a set with at
\* most one element; whether the keys verify anything is not looked at.
Assembles(events, passport, sealed, grant, keyring) ==
    /\ passport.manifest = sealed.manifest
    /\ \A g \in grant : g.manifest \in {None, sealed.manifest}
    /\ Len(EventsForManifest(events, sealed.manifest)) <= MAX_EMBEDDED_AUDIT_EVENTS
    /\ Cardinality(keyring) <= MAX_EMBEDDED_KEYS

BuildEvidencePack(events, passport, sealed, grant, keyring) ==
    Hashed([manifest |-> sealed.manifest, passport |-> passport, sealed |-> sealed,
            grant |-> grant, events |-> EventsForManifest(events, sealed.manifest),
            keys |-> keyring, hash |-> NoHash])

\* verify_passport_hash; verify_seal and verify_grant_signature over embedded keys.
VerifyPassportHash(q) == q.hash = <<q.manifest, q.manifest_hash, q.outcome>>
VerifySignature(x, keys) == x.key \in keys /\ x.signature = <<x.key, x.manifest>>

\* verify_evidence_pack: all_verified, from nothing but the pack.
VerifyPackOfAnything(p) ==     \* mutant: events of another manifest will do
    /\ p.hash = PackHash(p)
    /\ VerifyPassportHash(p.passport)
    /\ \A x \in {p.sealed} \cup p.grant : VerifySignature(x, p.keys)
    /\ VerifySelfConsistency(p.events)
    /\ p.sealed.manifest = p.passport.manifest_hash
    /\ \A g \in p.grant : g.manifest \in {None, p.sealed.manifest}
VerifyEvidencePack(p) ==
    /\ p.hash = PackHash(p)
    /\ VerifyPassportHash(p.passport)
    /\ \A x \in {p.sealed} \cup p.grant : VerifySignature(x, p.keys)
    /\ VerifySelfConsistency(p.events)
    /\ \A i \in DOMAIN p.events : p.events[i].manifest_id \in {p.manifest, None}
    /\ p.sealed.manifest = p.passport.manifest_hash
    /\ \A g \in p.grant : g.manifest \in {None, p.sealed.manifest}

-----------------------------------------------------------------------------
TypeOK ==
    /\ deployment \in Deployments
    /\ log \in Seq({log[i] : i \in DOMAIN log})
    /\ \A i \in DOMAIN log : log[i].sequence \in Nat \ {0}
    /\ lock \in [Procs -> Writers \cup {Free}]
    /\ pc \in [Writers -> {"idle", "locked", "built"}]
    /\ DOMAIN event = Writers
    /\ \A w \in Writers : event[w].sequence \in Nat \ {0}
    /\ made \in [Writers -> 0..MaxCalls]

\* The journal verifies at every moment, whatever threads and processes race for
\* its next event and wherever one of them fails.
ChainVerifies == VerifyEventChain(log)

\* An event that record() returned is in the journal at its place: no append is
\* dropped or overwritten silently.
ReturnedIsStored ==
    \A e \in returned : e.sequence \in DOMAIN log /\ log[e.sequence] = e

\* The journal only grows: a step never changes or removes an event.
AppendOnly ==
    [][\A i \in DOMAIN log : i \in DOMAIN log' /\ log'[i] = log[i]]_vars

OneProcess == \A v, w \in Writers : ProcOf[v] = ProcOf[w]

\* A process that has the journal for itself never meets a conflict: its lock
\* keeps what a thread read up to date until its append.
NoConflictWithin ==
    OneProcess =>
        \A w \in Writers : pc[w] = "built" =>
            event[w].sequence = NextSequence /\ event[w].previous_hash = PreviousHash

Without(s, i) == SubSeq(s, 1, i - 1) \o SubSeq(s, i + 1, Len(s))

\* verify_chain notices a changed event, a missing event that has a successor and
\* two exchanged events.
EditsAreDetected ==
    \A i \in DOMAIN log :
        /\ \A m \in ManifestIds \ {log[i].manifest_id} :
              ~VerifyEventChain([log EXCEPT ![i].manifest_id = m])
        /\ i < Len(log) => ~VerifyEventChain(Without(log, i))
        /\ i < Len(log) => ~VerifyEventChain([log EXCEPT ![i] = log[i + 1], ![i + 1] = log[i]])

\* What a pack can be made of, besides the journal: a sealed manifest, the
\* passport of one, a grant for one or for any, and what is left of the keyring.
PackInputs ==
    [sealed : {SignedBy("sealer", m) : m \in Manifests},
     grant : {{}} \cup {{SignedBy("issuer", m)} : m \in ManifestIds},
     passport : {Passport(m, m, "committed_unverified") : m \in Manifests},
     keyring : SUBSET {"sealer", "issuer"}]

\* One change of the events of a pack: an event relabelled or put in the place of
\* another by one of the journal, two exchanged, one left out.
EventEdits(events) ==
    (UNION {{[events EXCEPT ![i].manifest_id = m] : m \in ManifestIds \ {events[i].manifest_id}}
               : i \in DOMAIN events})
    \cup (UNION {{[events EXCEPT ![i] = log[k]] : k \in DOMAIN log} : i \in DOMAIN events})
    \cup (UNION {{[events EXCEPT ![i] = events[k], ![k] = events[i]] : k \in 1..i} : i \in DOMAIN events})
    \cup {Without(events, i) : i \in DOMAIN events}

\* One change of a pack: of the manifest it is said to be about, of what its
\* passport says, with and without a new hash, of what was signed, or of its events.
Edits(p) ==
    {[p EXCEPT !.manifest = m] : m \in Manifests}
    \cup {[p EXCEPT !.passport = Passport(m, h, o)] : m, h \in Manifests, o \in Outcomes}
    \cup {[p EXCEPT !.passport.outcome = o] : o \in Outcomes}
    \cup {[p EXCEPT !.sealed.manifest = m] : m \in Manifests}
    \cup {[p EXCEPT !.grant = {[g EXCEPT !.manifest = m] : g \in p.grant}] : m \in ManifestIds}
    \cup {[p EXCEPT !.grant = {}]}
    \cup {[p EXCEPT !.events = t] : t \in EventEdits(p.events)}

\* What an edited pack e that verifies still tells of the pack p it was made from:
\* what was signed, unless the grant was left out; a passport of the sealed
\* manifest that kept its hash if it says the same; and events that are in the
\* journal, in its order, about no other manifest than the pack's, which is still
\* the sealed one unless all its events are about none.
StillTells(e, p) ==
    /\ e.sealed = p.sealed /\ e.grant \subseteq p.grant
    /\ e.passport.manifest_hash = p.sealed.manifest
    /\ e.passport.hash = p.passport.hash => e.passport = p.passport
    /\ \A i \in DOMAIN e.events : \E k \in DOMAIN log : log[k] = e.events[i]
    /\ \A i, k \in DOMAIN e.events : i < k => e.events[i].sequence < e.events[k].sequence
    /\ \A i \in DOMAIN e.events : e.events[i].manifest_id \in {e.manifest, None}
    /\ e.manifest = p.sealed.manifest \/ \A i \in DOMAIN e.events : e.events[i].manifest_id = None

\* A pack that is built at any moment, while writers race, fail and crash,
\* verifies offline exactly if the keys of its seal and of its grant were still
\* on the keyring.  One that is edited afterwards and hashed again verifies only
\* if it still tells what was signed and events of the journal in their order:
\* what the verifier lets through is another outcome in the passport with a new
\* hash, another manifest id where no event contradicts it, a grant or an event
\* left out, and events about no manifest (portable/builder.py, portable/verify.py).
PacksTellTheTruth ==
    \A x \in PackInputs : Assembles(log, x.passport, x.sealed, x.grant, x.keyring) =>
        LET p == BuildEvidencePack(log, x.passport, x.sealed, x.grant, x.keyring)
            needed == {x.sealed.key} \cup {g.key : g \in x.grant}
        IN  /\ VerifyEvidencePack(p) = (needed \subseteq x.keyring)
            /\ \A e \in Edits(p) : VerifyEvidencePack(Hashed(e)) => StillTells(e, p)
=============================================================================
