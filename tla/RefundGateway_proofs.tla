------------------------ MODULE RefundGateway_proofs ------------------------
(***************************************************************************)
(* Proofs about RefundGateway, for any number of members, refunds, threads *)
(* and policies, any number of required approvals, any funds and any       *)
(* number of restarts.                                                     *)
(***************************************************************************)
EXTENDS RefundGateway, FiniteSetTheorems, SequenceTheorems, TLAPS

(***************************************************************************)
(* Types.                                                                  *)
(***************************************************************************)
AnyHash == 0..MaxActivations
AnyGrant == [bound : AnyHash, asked : AnyHash, voters : SUBSET Members]

Stores ==
    [sealed : [Refunds -> BOOLEAN], assessment : [Refunds -> BOOLEAN],
     quorum : [Refunds -> BOOLEAN], frozen : [Refunds -> AnyHash],
     statements : [Refunds -> Seq(Members)], grant : [Refunds -> AnyGrant],
     index : [Refunds -> BOOLEAN], commit : [Refunds -> CommitResults],
     proof : [Refunds -> OutcomeProofs], bundle : [BundleIds -> AnyHash],
     active : [{"id"} -> BundleIds \cup {NoBundle}]]

\* The rows a handler may still have to write: never one that says nothing.
Items ==
    ({"sealed", "assessment", "quorum", "index"} \X Refunds \X {TRUE})
    \cup ({"frozen"} \X Refunds \X Hashes)
    \cup ({"statements"} \X Refunds \X Seq(Members))
    \cup ({"grant"} \X Refunds \X (AnyGrant \ {NoGrant}))
    \cup ({"commit"} \X Refunds \X (CommitResults \ {"none"}))
    \cup ({"proof"} \X Refunds \X OutcomeProofs)
    \cup ({"bundle"} \X BundleIds \X Hashes)
    \cup ({"active"} \X {"id"} \X BundleIds)

Pcs == {"sign", "count", "authorize", "register", "deny", "commit", "validate", "pay",
        "finish", "reverse"}
Words == Members \cup CommitResults

DoneTasks == [pc : {"done"}, save : Seq(Items)]
OpenTasks == [pc : Pcs, refund : Refunds, grant : AnyGrant, word : Words, save : Seq(Items)]

RefundTypes ==
    /\ life \in [Refunds -> LifecycleState]
    /\ denied \subseteq Refunds /\ ledger \subseteq Refunds
    /\ paid \in [Refunds -> Seq(AnyGrant)]
    /\ scored \in [Refunds -> AnyHash]
    /\ torn \subseteq Refunds
    /\ activations \in AnyHash

GatewayTypes ==
    /\ mem \in Stores /\ db \in Stores
    /\ RefundTypes
    /\ task \in [Threads -> {Idle} \cup DoneTasks \cup OpenTasks]

(***************************************************************************)
(* What a value of a dictionary says of its refund, wherever it is: in     *)
(* memory, in the database or in a row that is still to be written.        *)
(***************************************************************************)
Early == {"proposed", "sealed", "authorized"}
Closed(r) == life[r] \notin Early \cup {"committing"}
Quorate(g) == Cardinality(g.voters) >= Required

Decisions == {"sealed", "assessment", "quorum", "frozen", "grant", "index", "commit"}
Fields == Decisions \cup {"proof"}

Says(f, r, v) ==
    /\ f \in {"sealed", "assessment", "quorum"} => v = FALSE \/ life[r] # "proposed"
    /\ f = "frozen" => v = NoHash \/ (v = scored[r] /\ life[r] # "proposed")
    /\ f = "grant" => \/ v = NoGrant
                      \/ Quorate(v) /\ BoundRightly(r, v) /\ life[r] \notin {"proposed", "sealed"}
    /\ f = "index" => v = FALSE \/ life[r] \notin {"proposed", "sealed"}
    /\ f = "commit" => \/ v = "none"
                       \/ Closed(r) /\ (v = "failed" => paid[r] = << >>)
    /\ f = "proof" => (v = "match" => paid[r] # << >>)

StoreSays(s) == \A f \in Fields, r \in Refunds : Says(f, r, s[f][r])

RowsOf(x) == IF x = Idle THEN {} ELSE ToSet(x.save)
Rows(t) == RowsOf(task[t])

RowsSay(x) == \A i \in RowsOf(x) : i[1] \in Fields => Says(i[1], i[2], i[3])

\* What a handler knows of its refund between two of its steps.
Paying == {"validate", "pay", "finish"}

TaskSays(x) ==
    /\ x.pc = "sign" => x.word \in Members
    /\ x.pc \in {"sign", "count", "authorize", "register"} =>
          BoundRightly(x.refund, x.grant) /\ life[x.refund] # "proposed"
    /\ x.pc = "register" => /\ Quorate(x.grant) /\ life[x.refund] \notin {"proposed", "sealed"}
                            /\ mem.grant[x.refund] = NoGrant /\ mem.index[x.refund] = FALSE
    /\ x.pc \in {"commit", "validate", "pay"} => Quorate(x.grant)
    /\ x.pc \in Paying => life[x.refund] = "committing"
    /\ x.pc \in {"validate", "pay"} => paid[x.refund] = << >>
    /\ x.pc = "finish" => /\ x.word \in {"success", "failed", "ambiguous"}
                          /\ x.word = "failed" => paid[x.refund] = << >>

\* Two handlers register a grant, or pay, for different refunds.
Apart(x, y) ==
    /\ x.pc = "register" /\ y.pc = "register" => x.refund # y.refund
    /\ x.pc \in Paying /\ y.pc \in Paying => x.refund # y.refund

Money ==
    \A r \in Refunds :
        /\ life[r] \in Early => paid[r] = << >>
        /\ Len(paid[r]) <= 1
        /\ \A g \in ToSet(paid[r]) : Quorate(g)
        /\ r \in ledger => paid[r] # << >>
        /\ life[r] = "proposed" => scored[r] = NoHash

(***************************************************************************)
(* Write-through: a row still to be written has the value of the memory,   *)
(* and a value the database does not have is in such a row.                *)
(***************************************************************************)
RowsAreCurrent ==
    \A t \in Threads : \A i \in Rows(t) : i[1] \in Decisions => mem[i[1]][i[2]] = i[3]

NothingForgotten ==
    \A f \in Decisions, r \in Refunds :
        mem[f][r] = db[f][r] \/ \E t \in Threads : Item(f, r, mem[f][r]) \in Rows(t)

\* The memory has the policy that assessed a refund, unless a restart tore its
\* proposal.
Frozen ==
    \A r \in Refunds :
        life[r] = "proposed" \/ mem.frozen[r] = scored[r] \/ (r \in torn /\ mem.frozen[r] = NoHash)

GatewayInv ==
    /\ GatewayTypes
    /\ StoreSays(mem) /\ StoreSays(db)
    /\ \A t \in Threads : RowsSay(task[t]) /\ TaskSays(task[t])
    /\ \A t, d \in Threads : t # d => Apart(task[t], task[d])
    /\ Money
    /\ RowsAreCurrent /\ NothingForgotten /\ Frozen

(***************************************************************************)
(* Sequences of rows as sets.                                              *)
(***************************************************************************)
LEMMA NoRows == ToSet(<< >>) = {}
  BY DEF ToSet

LEMMA OneRow == ASSUME NEW a PROVE ToSet(<<a>>) = {a}
  BY DEF ToSet

LEMMA TwoRows == ASSUME NEW a, NEW b PROVE ToSet(<<a, b>>) = {a, b}
  BY DEF ToSet

LEMMA ThreeRows == ASSUME NEW a, NEW b, NEW c PROVE ToSet(<<a, b, c>>) = {a, b, c}
  BY DEF ToSet

LEMMA ItemParts ==
    ASSUME NEW f, NEW k, NEW v
    PROVE  Item(f, k, v)[1] = f /\ Item(f, k, v)[2] = k /\ Item(f, k, v)[3] = v
  BY DEF Item

LEMMA OneMoreRow ==
    ASSUME NEW S, NEW a \in S, NEW b \in S, NEW c \in S, NEW d \in S
    PROVE  /\ <<a, b, c>> \o <<d>> \in Seq(S)
           /\ ToSet(<<a, b, c>> \o <<d>>) = {a, b, c, d}
<1> DEFINE s == <<a, b, c>>
           x == s \o <<d>>
<1>1. s \in Seq(S) /\ <<d>> \in Seq(S) /\ Len(s) = 3 /\ Len(<<d>>) = 1
      /\ s[1] = a /\ s[2] = b /\ s[3] = c /\ <<d>>[1] = d
  OBVIOUS
<1> HIDE DEF s
<1>2. x \in Seq(S) /\ Len(x) = 4
      /\ \A i \in 1..4 : x[i] = IF i <= 3 THEN s[i] ELSE <<d>>[i - 3]
  <2>1. /\ x \in Seq(S) /\ Len(x) = Len(s) + Len(<<d>>)
        /\ \A i \in 1 .. Len(s) + Len(<<d>>) :
              x[i] = IF i <= Len(s) THEN s[i] ELSE <<d>>[i - Len(s)]
    BY <1>1, ConcatProperties, Zenon
  <2>2. Len(s) + Len(<<d>>) = 4
    BY <1>1
  <2> HIDE DEF x
  <2> QED BY <1>1, <2>1, <2>2
<1>3. x[1] = a /\ x[2] = b /\ x[3] = c /\ x[4] = d
  <2> HIDE DEF x
  <2> QED BY <1>1, <1>2
<1>4. DOMAIN x = 1..4
  BY <1>2
<1>5. ToSet(x) = {a, b, c, d}
  BY <1>3, <1>4 DEF ToSet
<1> QED BY <1>2, <1>5 DEF s

LEMMA FirstRow ==
    ASSUME NEW S, NEW s \in Seq(S), s # << >>
    PROVE  /\ Head(s) \in S /\ Tail(s) \in Seq(S)
           /\ ToSet(s) = {Head(s)} \cup ToSet(Tail(s))
<1>1. Head(s) \in S /\ Tail(s) \in Seq(S) /\ Len(s) \in Nat /\ Len(s) >= 1 /\ Len(Tail(s)) = Len(s) - 1
  OBVIOUS
<1>2. Head(s) = s[1] /\ \A i \in 1..Len(Tail(s)) : Tail(s)[i] = s[i + 1]
  OBVIOUS
<1>3. ASSUME NEW i \in 1..Len(s)
      PROVE  s[i] \in {Head(s)} \cup ToSet(Tail(s))
  <2>1. CASE i = 1
    BY <1>2, <2>1
  <2>2. CASE i # 1
    <3>1. i - 1 \in 1..Len(Tail(s)) /\ Tail(s)[i - 1] = s[i]
      BY <1>1, <1>2, <2>2
    <3>2. DOMAIN Tail(s) = 1..Len(Tail(s))
      BY <1>1
    <3> QED BY <3>1, <3>2 DEF ToSet
  <2> QED BY <2>1, <2>2
<1>4. ASSUME NEW i \in 1..Len(Tail(s))
      PROVE  i + 1 \in 1..Len(s) /\ Tail(s)[i] = s[i + 1]
  BY <1>1, <1>2
<1>5. DOMAIN s = 1..Len(s) /\ DOMAIN Tail(s) = 1..Len(Tail(s)) /\ 1 \in 1..Len(s)
  BY <1>1
<1> QED BY <1>1, <1>2, <1>3, <1>4, <1>5 DEF ToSet

LEMMA SetOfSeq ==
    ASSUME NEW S, NEW s \in Seq(S)
    PROVE  ToSet(s) \subseteq S
  BY DEF ToSet

LEMMA NoGrantIsNotQuorate == ~ Quorate(NoGrant)
  BY RefundAssumption, FS_EmptySet DEF Quorate, NoGrant, Grant

(***************************************************************************)
(* What a value says stays true while refunds evolve the way they do.      *)
(***************************************************************************)
Evolves ==
    \A r \in Refunds :
        /\ \/ scored'[r] = scored[r] /\ (life'[r] # "proposed" => life[r] # "proposed")
           \/ scored[r] = NoHash /\ life[r] = "proposed" /\ mem'.frozen[r] = scored'[r]
        /\ r \in torn => r \in torn'
        /\ life[r] # "proposed" => life'[r] # "proposed"
        /\ life[r] \notin {"proposed", "sealed"} => life'[r] \notin {"proposed", "sealed"}
        /\ Closed(r) => Closed(r)'
        /\ paid[r] # << >> => paid'[r] # << >>
        /\ Closed(r) /\ paid[r] = << >> => paid'[r] = << >>

LEMMA SaysLasts ==
    ASSUME Evolves, NEW f \in Fields, NEW r \in Refunds, NEW v, Says(f, r, v)
    PROVE  Says(f, r, v)'
  BY DEF Evolves, Says, BoundRightly, Quorate

Undisturbed(x) ==
    /\ x.pc = "register" => /\ mem'.grant[x.refund] = mem.grant[x.refund]
                            /\ mem'.index[x.refund] = mem.index[x.refund]
    /\ x.pc \in Paying => life'[x.refund] = life[x.refund] /\ paid'[x.refund] = paid[x.refund]

TaskTypes == {Idle} \cup DoneTasks \cup OpenTasks

LEMMA SomeHash == NoHash \in AnyHash /\ Hashes = AnyHash \ {NoHash}
  BY RefundAssumption DEF NoHash, AnyHash, Hashes

LEMMA TaskPcs ==
    ASSUME NEW x \in TaskTypes
    PROVE  /\ x = Idle => x.pc = "idle"
           /\ x \in DoneTasks => x.pc = "done" /\ x.save \in Seq(Items)
           /\ x \in OpenTasks => /\ x.pc \in Pcs /\ x.refund \in Refunds /\ x.grant \in AnyGrant
                                 /\ x.word \in Words /\ x.save \in Seq(Items)
           /\ x.pc \notin {"idle", "done"} => x \in OpenTasks
  BY DEF TaskTypes, Idle, DoneTasks, OpenTasks, Pcs

LEMMA TaskLasts ==
    ASSUME Evolves, NEW x \in TaskTypes, TaskSays(x), Undisturbed(x)
    PROVE  TaskSays(x)'
<1>1. CASE x.pc \in {"idle", "done"}
  BY <1>1 DEF TaskSays, Paying
<1>2. CASE x.pc \notin {"idle", "done"}
  <2>1. x.refund \in Refunds
    BY <1>2, TaskPcs
  <2> QED BY <2>1 DEF TaskSays, Undisturbed, Evolves, BoundRightly, Quorate, Paying
<1> QED BY <1>1, <1>2

(***************************************************************************)
(* A step of one handler, which had no row left to write, keeps the        *)
(* invariant if what it stores it also has to write, if no other handler   *)
(* still has to write the same, and if it disturbs no other handler.       *)
(***************************************************************************)
LEMMA Handler ==
    ASSUME GatewayInv, NEW t \in Threads, NEW n \in TaskTypes,
           Rows(t) = {}, task' = [task EXCEPT ![t] = n],
           db' = db, mem' \in Stores, RefundTypes', Evolves, Money',
           \A f \in Fields, r \in Refunds :
               mem'[f][r] = mem[f][r] \/ Item(f, r, mem'[f][r]) \in RowsOf(n),
           \A i \in RowsOf(n) : i[1] \in Fields => Says(i[1], i[2], i[3])' /\ mem'[i[1]][i[2]] = i[3],
           \A d \in Threads \ {t} : \A i \in Rows(d) :
               i[1] \in Decisions => mem'[i[1]][i[2]] = mem[i[1]][i[2]],
           TaskSays(n)',
           \A d \in Threads \ {t} : Undisturbed(task[d]) /\ Apart(n, task[d]) /\ Apart(task[d], n)
    PROVE  GatewayInv'
<1>1. task \in [Threads -> TaskTypes] /\ task'[t] = n /\ \A d \in Threads \ {t} : task'[d] = task[d]
  BY DEF GatewayInv, GatewayTypes, TaskTypes
<1>2. GatewayTypes'
  BY <1>1 DEF GatewayInv, GatewayTypes, TaskTypes
<1>3. StoreSays(db)'
  <2> SUFFICES ASSUME NEW f \in Fields, NEW r \in Refunds
               PROVE  Says(f, r, db[f][r])'
    BY DEF StoreSays
  <2>1. PICK v : v = db[f][r]
    OBVIOUS
  <2>2. Says(f, r, v)
    BY <2>1 DEF GatewayInv, StoreSays
  <2>3. Says(f, r, v)'
    BY <2>2, SaysLasts
  <2> QED BY <2>1, <2>3 DEF Says, BoundRightly
<1>4. StoreSays(mem)'
  <2> SUFFICES ASSUME NEW f \in Fields, NEW r \in Refunds
               PROVE  Says(f, r, mem[f][r])'
    BY DEF StoreSays
  <2>1. PICK v : v = mem'[f][r]
    OBVIOUS
  <2>2. Says(f, r, v)'
    <3>1. CASE v = mem[f][r]
      <4>1. Says(f, r, v)
        BY <3>1 DEF GatewayInv, StoreSays
      <4> QED BY <4>1, SaysLasts
    <3>2. CASE Item(f, r, v) \in RowsOf(n)
      <4>1. PICK i \in RowsOf(n) : i = Item(f, r, v)
        BY <3>2
      <4>2. i[1] = f /\ i[2] = r /\ i[3] = v
        BY <4>1 DEF Item
      <4> QED BY <4>1, <4>2 DEF Says, BoundRightly
    <3> QED BY <2>1, <3>1, <3>2
  <2> QED BY <2>1, <2>2 DEF Says, BoundRightly
<1>5. ASSUME NEW d \in Threads
      PROVE  (RowsSay(task[d]) /\ TaskSays(task[d]))'
  <2>1. CASE d = t
    BY <1>1, <2>1 DEF RowsSay, RowsOf, TaskSays, BoundRightly, Says
  <2>2. CASE d # t
    <3>1. PICK x \in TaskTypes : x = task[d]
      BY <1>1
    <3>2. TaskSays(x)'
      BY <2>2, <3>1, TaskLasts DEF GatewayInv
    <3>3. ASSUME NEW i \in RowsOf(x), i[1] \in Fields
          PROVE  Says(i[1], i[2], i[3])'
      <4>1. x \in DoneTasks \cup OpenTasks /\ i \in Items
        BY <3>1, <3>3, TaskPcs, SetOfSeq DEF TaskTypes, RowsOf
      <4>2. i[2] \in Refunds
        BY <3>3, <4>1 DEF Items, Fields, Decisions
      <4>3. Says(i[1], i[2], i[3])
        BY <3>1, <3>3 DEF GatewayInv, RowsSay
      <4> QED BY <3>3, <4>2, <4>3, SaysLasts
    <3>4. task'[d] = x
      BY <1>1, <2>2, <3>1
    <3> QED BY <3>2, <3>3, <3>4 DEF RowsSay, RowsOf, TaskSays, BoundRightly, Says
  <2> QED BY <2>1, <2>2
<1>6. (\A c, d \in Threads : c # d => Apart(task[c], task[d]))'
  BY <1>1 DEF GatewayInv, Apart
<1>7. RowsAreCurrent'
  <2> SUFFICES ASSUME NEW d \in Threads, NEW i \in RowsOf(task'[d]), i[1] \in Decisions
               PROVE  mem'[i[1]][i[2]] = i[3]
    BY DEF RowsAreCurrent, Rows, RowsOf
  <2>1. CASE d = t
    BY <1>1, <2>1 DEF Fields
  <2>2. CASE d # t
    <3>1. i \in Rows(d)
      BY <1>1, <2>2 DEF Rows
    <3> QED BY <2>2, <3>1 DEF GatewayInv, RowsAreCurrent
  <2> QED BY <2>1, <2>2
<1>8. NothingForgotten'
  <2> SUFFICES ASSUME NEW f \in Decisions, NEW r \in Refunds, mem'[f][r] # db[f][r]
               PROVE  \E d \in Threads : Item(f, r, mem'[f][r]) \in RowsOf(task'[d])
    BY DEF NothingForgotten, Rows, RowsOf, Item
  <2>1. CASE Item(f, r, mem'[f][r]) \in RowsOf(n)
    BY <1>1, <2>1
  <2>2. CASE mem'[f][r] = mem[f][r]
    <3>1. PICK d \in Threads : Item(f, r, mem[f][r]) \in Rows(d)
      BY <2>2 DEF GatewayInv, NothingForgotten
    <3>2. d # t
      BY <3>1
    <3> QED BY <1>1, <2>2, <3>1, <3>2 DEF Rows
  <2> QED BY <2>1, <2>2 DEF Fields
<1>9. Frozen'
  <2> SUFFICES ASSUME NEW r \in Refunds, life'[r] # "proposed"
               PROVE  mem'.frozen[r] = scored'[r] \/ (r \in torn' /\ mem'.frozen[r] = NoHash)
    BY DEF Frozen
  <2>1. PICK v : v = mem'["frozen"][r]
    OBVIOUS
  <2>2. CASE mem'["frozen"][r] = mem["frozen"][r]
    BY <2>2 DEF Evolves, GatewayInv, Frozen
  <2>3. CASE Item("frozen", r, v) \in RowsOf(n)
    <3>1. PICK i \in RowsOf(n) : i = Item("frozen", r, v)
      BY <2>3
    <3>2. i[1] = "frozen" /\ i[2] = r /\ i[3] = v
      BY <3>1, ItemParts
    <3>3. Says("frozen", r, v)'
      BY <3>2 DEF Fields, Decisions, Says, BoundRightly
    <3>4. i \in Items
      BY TaskPcs, SetOfSeq DEF RowsOf, TaskTypes
    <3>5. v # NoHash
      BY <3>2, <3>4, SomeHash DEF Items
    <3>6. v = scored'[r]
      BY <3>3, <3>5 DEF Says
    <3> QED BY <2>1, <3>6
  <2> QED BY <2>1, <2>2, <2>3 DEF Fields, Decisions
<1> QED BY <1>2, <1>3, <1>4, <1>5, <1>6, <1>7, <1>8, <1>9 DEF GatewayInv

\* A step of one handler that touches neither the memory nor the database.
LEMMA QuietHandler ==
    ASSUME GatewayInv, NEW t \in Threads, NEW n \in TaskTypes,
           Rows(t) = {}, task' = [task EXCEPT ![t] = n], RowsOf(n) = {},
           UNCHANGED stores, RefundTypes', Evolves, Money',
           TaskSays(n)',
           \A d \in Threads \ {t} : Undisturbed(task[d]) /\ Apart(n, task[d]) /\ Apart(task[d], n)
    PROVE  GatewayInv'
<1>1. db' = db /\ mem' = mem /\ mem \in Stores
  BY DEF stores, GatewayInv, GatewayTypes
<1> QED BY <1>1, Handler

LEMMA FreeHasNoRows ==
    ASSUME NEW t \in Threads, Free(t)
    PROVE  Rows(t) = {} /\ task[t].pc = "idle"
  BY DEF Free, Rows, RowsOf, Idle

LEMMA AtHasNoRows ==
    ASSUME GatewayInv, NEW t \in Threads, NEW p \in Pcs, At(t, p)
    PROVE  /\ Rows(t) = {} /\ task[t] \in OpenTasks /\ task[t].pc = p /\ task[t].save = << >>
           /\ task[t].refund \in Refunds /\ task[t].grant \in AnyGrant /\ task[t].word \in Words
           /\ TaskSays(task[t])
<1>1. task[t] \in TaskTypes /\ task[t].pc = p /\ task[t].save = << >> /\ p \notin {"idle", "done"}
  BY DEF GatewayInv, GatewayTypes, TaskTypes, At, Pcs
<1>2. Rows(t) = {}
  BY <1>1, NoRows DEF Rows, RowsOf
<1> QED BY <1>1, <1>2, TaskPcs DEF GatewayInv

(***************************************************************************)
(* How refunds change: not at all but for names and denials, or by a move  *)
(* of the lifecycle of one of them.                                        *)
(***************************************************************************)
LEMMA SameRefunds ==
    ASSUME GatewayInv, UNCHANGED <<life, ledger, paid, scored>>,
           denied' \subseteq Refunds, activations' \in AnyHash,
           UNCHANGED torn
    PROVE  Evolves /\ Money' /\ RefundTypes'
<1>1. Evolves
  BY DEF Evolves, Closed
<1>2. Money'
  BY DEF GatewayInv, Money, Quorate
<1>3. RefundTypes'
  BY DEF GatewayInv, GatewayTypes, RefundTypes
<1> QED BY <1>1, <1>2, <1>3

LEMMA LifeMove ==
    ASSUME GatewayInv, NEW r \in Refunds, NEW to \in LifecycleState,
           life' = [life EXCEPT ![r] = to],
           UNCHANGED <<denied, ledger, paid, scored, torn, activations>>,
           \/ life[r] = "sealed" /\ to = "authorized"
           \/ life[r] = "authorized" /\ to = "committing"
           \/ life[r] \notin Early /\ to \notin Early \cup {"committing"}
    PROVE  Evolves /\ Money' /\ RefundTypes'
<1>1. life \in [Refunds -> LifecycleState] /\ Money
  BY DEF GatewayInv, GatewayTypes, RefundTypes
<1>2. life'[r] = to /\ \A q \in Refunds \ {r} : life'[q] = life[q]
  BY <1>1
<1>3. Evolves
  BY <1>2 DEF Evolves, Closed, Early
<1>4. Money'
  BY <1>1, <1>2 DEF Money, Quorate, Early
<1>5. RefundTypes'
  BY <1>1 DEF GatewayInv, GatewayTypes, RefundTypes
<1> QED BY <1>3, <1>4, <1>5

\* A handler that pays holds the lifecycle of its refund at committing.
LEMMA MoveDisturbsNone ==
    ASSUME GatewayInv, NEW t \in Threads, NEW r \in Refunds, NEW to,
           life' = [life EXCEPT ![r] = to], UNCHANGED <<mem, paid>>,
           life[r] = "committing" => task[t].pc \in Paying /\ task[t].refund = r
    PROVE  \A d \in Threads \ {t} : Undisturbed(task[d])
<1> SUFFICES ASSUME NEW d \in Threads \ {t} PROVE Undisturbed(task[d])
  OBVIOUS
<1>1. life \in [Refunds -> LifecycleState] /\ TaskSays(task[d]) /\ Apart(task[t], task[d])
      /\ task[d] \in TaskTypes
  BY DEF GatewayInv, GatewayTypes, RefundTypes, TaskTypes
<1>2. ASSUME task[d].pc \in Paying
      PROVE  life'[task[d].refund] = life[task[d].refund]
  <2>1. task[d].refund \in Refunds
    BY <1>1, <1>2, TaskPcs DEF Paying
  <2>2. task[d].refund # r
    BY <1>1, <1>2 DEF TaskSays, Apart
  <2> QED BY <1>1, <2>1, <2>2
<1> QED BY <1>2 DEF Undisturbed

LEMMA NobodyDisturbed ==
    ASSUME UNCHANGED <<mem, life, paid>>
    PROVE  \A x : Undisturbed(x)
  BY DEF Undisturbed

\* The records a handler goes through.
LEMMA NewTasks ==
    /\ Idle \in TaskTypes /\ RowsOf(Idle) = {} /\ Idle.pc = "idle"
    /\ \A p \in Pcs, r \in Refunds, g \in AnyGrant, w \in Words :
          LET n == Task(p, r, g, w, << >>) IN
          /\ n \in TaskTypes /\ RowsOf(n) = {}
          /\ n.pc = p /\ n.refund = r /\ n.grant = g /\ n.word = w
    /\ NoGrant \in AnyGrant /\ "none" \in Words
<1>1. Idle \in TaskTypes /\ RowsOf(Idle) = {} /\ Idle.pc = "idle"
  BY DEF TaskTypes, RowsOf, Idle
<1>2. ASSUME NEW p \in Pcs, NEW r \in Refunds, NEW g \in AnyGrant, NEW w \in Words
      PROVE  LET n == Task(p, r, g, w, << >>) IN
             /\ n \in TaskTypes /\ RowsOf(n) = {}
             /\ n.pc = p /\ n.refund = r /\ n.grant = g /\ n.word = w
  BY NoRows DEF Task, TaskTypes, OpenTasks, RowsOf, Idle
<1>3. NoGrant \in AnyGrant /\ "none" \in Words
  BY RefundAssumption DEF NoGrant, Grant, AnyGrant, AnyHash, NoHash, Words, CommitResults
<1> QED BY <1>1, <1>2, <1>3

(***************************************************************************)
(* The handlers that store nothing.                                        *)
(***************************************************************************)

\* A handler that ends or gives up between two steps.
LEMMA EndsQuietly ==
    ASSUME GatewayInv, NEW t \in Threads, Rows(t) = {}, Ends(t), UNCHANGED stores,
           RefundTypes', Evolves, Money', \A d \in Threads \ {t} : Undisturbed(task[d])
    PROVE  GatewayInv'
<1>1. TaskSays(Idle)' /\ \A x : Apart(Idle, x) /\ Apart(x, Idle)
  BY NewTasks DEF TaskSays, Apart, Paying
<1> QED BY <1>1, NewTasks, QuietHandler DEF Ends

LEMMA RefuseKeeps ==
    ASSUME GatewayInv, NEW t \in Threads, Refuse(t)
    PROVE  GatewayInv'
<1>1. Rows(t) = {}
  BY AtHasNoRows DEF Refuse, Pcs
<1>2. UNCHANGED <<life, ledger, paid, scored, denied, torn, activations, mem>>
  BY DEF Refuse, refund, stores
<1>3. RefundTypes' /\ Evolves /\ Money'
  BY <1>2, SameRefunds DEF GatewayInv, GatewayTypes, RefundTypes
<1> QED BY <1>1, <1>2, <1>3, NobodyDisturbed, EndsQuietly DEF Refuse

LEMMA ApproveKeeps ==
    ASSUME GatewayInv, NEW t \in Threads, NEW u \in Members, NEW r \in Refunds,
           NEW b \in BundleIds \cup {NoBundle}, ApproveRefund(t, u, r, b)
    PROVE  GatewayInv'
<1> DEFINE g == Grant(BoundPolicy(r, b), NamedPolicy(r, b), {})
<1>1. Rows(t) = {}
  BY FreeHasNoRows DEF ApproveRefund
<1>2. /\ mem.frozen[r] \in AnyHash /\ (b # NoBundle => mem.bundle[b] \in AnyHash \ {NoHash})
      /\ denied \subseteq Refunds /\ activations \in AnyHash
  BY DEF GatewayInv, GatewayTypes, RefundTypes, Stores, ApproveRefund
<1>3. /\ g \in AnyGrant /\ g.bound = BoundPolicy(r, b) /\ g.asked = NamedPolicy(r, b)
  BY <1>2, SomeHash DEF BoundPolicy, NamedPolicy, AnyGrant, Grant
<1>4. UNCHANGED <<life, ledger, paid, scored, denied, torn, activations, mem>> /\ UNCHANGED stores
  BY DEF ApproveRefund, stores
<1>5. RefundTypes' /\ Evolves /\ Money'
  BY <1>2, <1>4, SameRefunds
<1>6. life[r] # "proposed"
  BY DEF ApproveRefund, GatewayInv, StoreSays, Says, Fields, Decisions
<1>7. BoundRightly(r, g)
  <2>1. mem.frozen[r] = scored[r] \/ (r \in torn /\ mem.frozen[r] = NoHash)
    BY <1>6 DEF GatewayInv, Frozen
  <2> QED BY <1>2, <1>3, <2>1 DEF BoundPolicy, NamedPolicy, BoundRightly
<1>8. PICK n \in TaskTypes : /\ n = Task("sign", r, g, u, << >>) /\ RowsOf(n) = {}
                             /\ n.pc = "sign" /\ n.refund = r /\ n.grant = g /\ n.word = u
  BY <1>3, NewTasks DEF Pcs, Words
<1>9. task' = [task EXCEPT ![t] = n]
  BY <1>8 DEF ApproveRefund
<1> HIDE DEF g
<1>10. TaskSays(n)' /\ \A x : Apart(n, x) /\ Apart(x, n)
  BY <1>4, <1>6, <1>7, <1>8 DEF TaskSays, Apart, Paying, BoundRightly
<1> QED BY <1>1, <1>4, <1>5, <1>8, <1>9, <1>10, NobodyDisturbed, QuietHandler

\* A handler goes on with the same data: only the name of its next step changes.
LEMMA GoesOn ==
    ASSUME GatewayInv, NEW t \in Threads, NEW p \in Pcs, NEW q \in Pcs, At(t, p), Goes(t, q)
    PROVE  \E n \in TaskTypes :
              /\ task' = [task EXCEPT ![t] = n] /\ RowsOf(n) = {}
              /\ n.pc = q /\ n.refund = task[t].refund /\ n.grant = task[t].grant
              /\ n.word = task[t].word
<1>1. task[t] \in OpenTasks /\ task[t].save = << >> /\ task \in [Threads -> TaskTypes]
  BY AtHasNoRows DEF GatewayInv, GatewayTypes, TaskTypes
<1>2. PICK n : n = [task[t] EXCEPT !.pc = q]
  OBVIOUS
<1>3. n \in OpenTasks /\ n.pc = q /\ n.refund = task[t].refund /\ n.grant = task[t].grant
      /\ n.word = task[t].word /\ n.save = << >>
  BY <1>1, <1>2 DEF OpenTasks
<1>4. RowsOf(n) = {}
  BY <1>3, NoRows DEF RowsOf
<1>5. task' = [task EXCEPT ![t] = n]
  BY <1>1, <1>2 DEF Goes
<1> QED BY <1>3, <1>4, <1>5 DEF TaskTypes

LEMMA CountKeeps ==
    ASSUME GatewayInv, NEW t \in Threads, CountStatements(t)
    PROVE  GatewayInv'
<1>1. Rows(t) = {} /\ TaskSays(task[t]) /\ At(t, "count") /\ task[t].pc = "count"
      /\ task[t].refund \in Refunds
  BY AtHasNoRows DEF CountStatements, Pcs
<1>2. UNCHANGED <<life, ledger, paid, scored, denied, torn, activations, mem>> /\ UNCHANGED stores
  BY DEF CountStatements, refund, stores
<1>3. RefundTypes' /\ Evolves /\ Money'
  BY <1>2, SameRefunds DEF GatewayInv, GatewayTypes, RefundTypes
<1>4. CASE Ends(t)
  BY <1>1, <1>2, <1>3, <1>4, NobodyDisturbed, EndsQuietly
<1>5. CASE Goes(t, "authorize")
  <2>1. PICK n \in TaskTypes :
              /\ task' = [task EXCEPT ![t] = n] /\ RowsOf(n) = {}
              /\ n.pc = "authorize" /\ n.refund = task[t].refund /\ n.grant = task[t].grant
    BY <1>1, <1>5, GoesOn DEF Pcs
  <2>2. BoundRightly(n.refund, n.grant) /\ life[n.refund] # "proposed"
    BY <1>1, <2>1 DEF TaskSays, BoundRightly
  <2>3. TaskSays(n)' /\ \A x : Apart(n, x) /\ Apart(x, n)
    BY <1>2, <2>1, <2>2 DEF TaskSays, Apart, Paying, BoundRightly
  <2> QED BY <1>1, <1>2, <1>3, <2>1, <2>3, NobodyDisturbed, QuietHandler
<1> QED BY <1>4, <1>5 DEF CountStatements

LEMMA AuthorizeKeeps ==
    ASSUME GatewayInv, NEW t \in Threads, AuthorizeWithQuorum(t)
    PROVE  GatewayInv'
<1>1. PICK r \in Refunds : r = task[t].refund
  BY AtHasNoRows DEF AuthorizeWithQuorum, Pcs
<1>2. Rows(t) = {} /\ TaskSays(task[t]) /\ task[t].pc = "authorize" /\ task[t].grant \in AnyGrant
  BY AtHasNoRows DEF AuthorizeWithQuorum, Pcs
<1>3. PICK g : g = [task[t].grant EXCEPT !.voters = ToSet(mem.statements[r])]
  OBVIOUS
<1>4. g \in AnyGrant /\ Quorate(g) /\ BoundRightly(r, g)
  <2>1. mem.statements[r] \in Seq(Members)
    BY DEF GatewayInv, GatewayTypes, Stores
  <2>2. ToSet(mem.statements[r]) \subseteq Members
    BY <2>1, SetOfSeq
  <2>3. /\ g \in AnyGrant /\ g.voters = ToSet(mem.statements[r])
        /\ g.bound = task[t].grant.bound /\ g.asked = task[t].grant.asked
    BY <1>2, <1>3, <2>2 DEF AnyGrant
  <2>4. Quorate(g)
    BY <1>1, <2>3 DEF AuthorizeWithQuorum, QuorumMet, Quorate
  <2>5. BoundRightly(r, g)
    BY <1>1, <1>2, <2>3 DEF TaskSays, BoundRightly
  <2> QED BY <2>3, <2>4, <2>5
<1>5. /\ life[r] = "sealed" /\ life' = [life EXCEPT ![r] = "authorized"]
      /\ UNCHANGED <<denied, ledger, paid, scored, torn, activations, mem>> /\ UNCHANGED stores
  BY <1>1 DEF AuthorizeWithQuorum, Move, stores
<1>6. RefundTypes' /\ Evolves /\ Money' /\ life'[r] = "authorized"
  BY <1>5, LifeMove DEF LifecycleState, GatewayInv, GatewayTypes, RefundTypes
<1>7. \A d \in Threads \ {t} : Undisturbed(task[d])
  BY <1>5, MoveDisturbsNone
<1>8. mem.grant[r] = NoGrant /\ mem.index[r] = FALSE
  BY <1>5 DEF GatewayInv, StoreSays, Says, Fields, Decisions
<1>9. PICK n \in TaskTypes : /\ n = Task("register", r, g, "none", << >>) /\ RowsOf(n) = {}
                             /\ n.pc = "register" /\ n.refund = r /\ n.grant = g
  BY <1>4, NewTasks DEF Pcs
<1>10. task' = [task EXCEPT ![t] = n]
  BY <1>1, <1>3, <1>9 DEF AuthorizeWithQuorum
<1>11. TaskSays(n)'
  BY <1>4, <1>5, <1>6, <1>8, <1>9 DEF TaskSays, Paying, BoundRightly, Quorate
<1>12. ASSUME NEW d \in Threads \ {t}
       PROVE  Apart(n, task[d]) /\ Apart(task[d], n)
  BY <1>5, <1>9 DEF GatewayInv, TaskSays, Apart, Paying
<1> QED BY <1>2, <1>5, <1>6, <1>7, <1>9, <1>10, <1>11, <1>12, QuietHandler

LEMMA DenyKeeps ==
    ASSUME GatewayInv, NEW t \in Threads, NEW r \in Refunds, DenyRefund(t, r)
    PROVE  GatewayInv'
<1>1. Rows(t) = {}
  BY FreeHasNoRows DEF DenyRefund
<1>2. UNCHANGED <<life, ledger, paid, scored, denied, torn, activations, mem>> /\ UNCHANGED stores
  BY DEF DenyRefund, refund, stores
<1>3. RefundTypes' /\ Evolves /\ Money'
  BY <1>2, SameRefunds DEF GatewayInv, GatewayTypes, RefundTypes
<1>4. PICK n \in TaskTypes : n = Task("deny", r, NoGrant, "none", << >>) /\ RowsOf(n) = {} /\ n.pc = "deny"
  BY NewTasks DEF Pcs
<1>5. task' = [task EXCEPT ![t] = n]
  BY <1>4 DEF DenyRefund
<1>6. TaskSays(n)' /\ \A x : Apart(n, x) /\ Apart(x, n)
  BY <1>4 DEF TaskSays, Apart, Paying
<1> QED BY <1>1, <1>2, <1>3, <1>4, <1>5, <1>6, NobodyDisturbed, QuietHandler

LEMMA RecordDenialKeeps ==
    ASSUME GatewayInv, NEW t \in Threads, RecordDenial(t)
    PROVE  GatewayInv'
<1>1. Rows(t) = {} /\ task[t].refund \in Refunds
  BY AtHasNoRows DEF RecordDenial, Pcs
<1>2. UNCHANGED <<life, ledger, paid, scored, torn, activations, mem>> /\ UNCHANGED stores
      /\ denied' = denied \cup {task[t].refund} /\ Ends(t)
  BY DEF RecordDenial, stores
<1>3. RefundTypes' /\ Evolves /\ Money'
  BY <1>1, <1>2, SameRefunds DEF GatewayInv, GatewayTypes, RefundTypes
<1> QED BY <1>1, <1>2, <1>3, NobodyDisturbed, EndsQuietly

LEMMA ExecuteKeeps ==
    ASSUME GatewayInv, NEW t \in Threads, NEW r \in Refunds, ExecuteRefund(t, r)
    PROVE  GatewayInv'
<1>1. Rows(t) = {}
  BY FreeHasNoRows DEF ExecuteRefund
<1>2. UNCHANGED <<life, ledger, paid, scored, denied, torn, activations, mem>> /\ UNCHANGED stores
  BY DEF ExecuteRefund, refund, stores
<1>3. RefundTypes' /\ Evolves /\ Money'
  BY <1>2, SameRefunds DEF GatewayInv, GatewayTypes, RefundTypes
<1>4. PICK g \in AnyGrant : g = mem.grant[r]
  BY DEF GatewayInv, GatewayTypes, Stores
<1>5. Quorate(g)
  BY <1>4 DEF ExecuteRefund, GatewayInv, StoreSays, Says, Fields, Decisions
<1>6. PICK n \in TaskTypes : /\ n = Task("commit", r, g, "none", << >>) /\ RowsOf(n) = {}
                             /\ n.pc = "commit" /\ n.grant = g
  BY NewTasks DEF Pcs
<1>7. task' = [task EXCEPT ![t] = n]
  BY <1>4, <1>6 DEF ExecuteRefund
<1>8. TaskSays(n)' /\ \A x : Apart(n, x) /\ Apart(x, n)
  BY <1>5, <1>6 DEF TaskSays, Apart, Paying, Quorate
<1> QED BY <1>1, <1>2, <1>3, <1>6, <1>7, <1>8, NobodyDisturbed, QuietHandler

LEMMA StartCommitKeeps ==
    ASSUME GatewayInv, NEW t \in Threads, StartCommit(t)
    PROVE  GatewayInv'
<1>1. PICK r \in Refunds : r = task[t].refund
  BY AtHasNoRows DEF StartCommit, Pcs
<1>2. Rows(t) = {} /\ TaskSays(task[t]) /\ At(t, "commit") /\ task[t].pc = "commit"
  BY AtHasNoRows DEF StartCommit, Pcs
<1>3. /\ life[r] = "authorized" /\ life' = [life EXCEPT ![r] = "committing"]
      /\ UNCHANGED <<denied, ledger, paid, scored, torn, activations, mem>> /\ UNCHANGED stores
  BY <1>1 DEF StartCommit, BeginCommit, Move, stores
<1>4. RefundTypes' /\ Evolves /\ Money' /\ life'[r] = "committing" /\ paid[r] = << >>
  BY <1>3, LifeMove DEF LifecycleState, GatewayInv, GatewayTypes, RefundTypes, Money, Early
<1>5. \A d \in Threads \ {t} : Undisturbed(task[d])
  BY <1>3, MoveDisturbsNone
<1>6. PICK n \in TaskTypes :
              /\ task' = [task EXCEPT ![t] = n] /\ RowsOf(n) = {}
              /\ n.pc = "validate" /\ n.refund = r /\ n.grant = task[t].grant
  BY <1>1, <1>2, GoesOn DEF StartCommit, Pcs
<1>7. TaskSays(n)'
  BY <1>2, <1>3, <1>4, <1>6 DEF TaskSays, Paying, Quorate
<1>8. ASSUME NEW d \in Threads \ {t}
      PROVE  Apart(n, task[d]) /\ Apart(task[d], n)
  BY <1>3, <1>6 DEF GatewayInv, TaskSays, Apart, Paying
<1> QED BY <1>2, <1>3, <1>4, <1>5, <1>6, <1>7, <1>8, QuietHandler

LEMMA ValidateKeeps ==
    ASSUME GatewayInv, NEW t \in Threads, ValidatePreconditions(t)
    PROVE  GatewayInv'
<1>1. PICK r \in Refunds : r = task[t].refund
  BY AtHasNoRows DEF ValidatePreconditions, Pcs
<1>2. Rows(t) = {} /\ TaskSays(task[t]) /\ At(t, "validate") /\ task[t].pc = "validate"
  BY AtHasNoRows DEF ValidatePreconditions, Pcs
<1>3. UNCHANGED <<denied, ledger, paid, scored, torn, activations, mem>> /\ UNCHANGED stores
  BY DEF ValidatePreconditions, stores
<1>4. CASE Goes(t, "pay") /\ UNCHANGED life
  <2>1. RefundTypes' /\ Evolves /\ Money'
    BY <1>3, <1>4, SameRefunds DEF GatewayInv, GatewayTypes, RefundTypes
  <2>2. PICK n \in TaskTypes :
              /\ task' = [task EXCEPT ![t] = n] /\ RowsOf(n) = {}
              /\ n.pc = "pay" /\ n.refund = r /\ n.grant = task[t].grant
    BY <1>1, <1>2, <1>4, GoesOn DEF Pcs
  <2>3. TaskSays(n)'
    BY <1>1, <1>2, <1>3, <1>4, <2>2 DEF TaskSays, Paying, Quorate
  <2>4. ASSUME NEW d \in Threads \ {t}
        PROVE  Apart(n, task[d]) /\ Apart(task[d], n)
    BY <1>1, <1>2, <2>2 DEF GatewayInv, Apart, Paying
  <2> QED BY <1>2, <1>3, <1>4, <2>1, <2>2, <2>3, <2>4, NobodyDisturbed, QuietHandler
<1>5. CASE Ends(t) /\ Move(r, "committing", "failed")
  <2>1. life[r] = "committing" /\ life' = [life EXCEPT ![r] = "failed"]
    BY <1>5 DEF Move
  <2>2. RefundTypes' /\ Evolves /\ Money'
    BY <1>3, <2>1, LifeMove DEF LifecycleState, Early
  <2>3. \A d \in Threads \ {t} : Undisturbed(task[d])
    BY <1>1, <1>2, <1>3, <2>1, MoveDisturbsNone DEF Paying
  <2> QED BY <1>2, <1>3, <1>5, <2>2, <2>3, EndsQuietly
<1> QED BY <1>1, <1>4, <1>5 DEF ValidatePreconditions

LEMMA SubmitKeeps ==
    ASSUME GatewayInv, NEW t \in Threads, SubmitPayment(t)
    PROVE  GatewayInv'
<1>1. PICK r \in Refunds : r = task[t].refund
  BY AtHasNoRows DEF SubmitPayment, Pcs
<1>2. Rows(t) = {} /\ TaskSays(task[t]) /\ task[t].pc = "pay" /\ task[t].grant \in AnyGrant
  BY AtHasNoRows DEF SubmitPayment, Pcs
<1>3. /\ UNCHANGED <<life, denied, scored, torn, activations, mem>> /\ UNCHANGED stores
      /\ life[r] = "committing" /\ paid[r] = << >> /\ Quorate(task[t].grant)
  BY <1>1, <1>2 DEF SubmitPayment, stores, TaskSays, Paying
<1>4. /\ paid \in [Refunds -> Seq(AnyGrant)] /\ ledger \subseteq Refunds /\ Money
      /\ \A d \in Threads \ {t} : Apart(task[t], task[d]) /\ task[d] \in TaskTypes
  BY DEF GatewayInv, GatewayTypes, RefundTypes, TaskTypes
<1>5. PICK w \in {"success", "ambiguous", "failed"} :
         /\ task' = [task EXCEPT ![t] = Task("finish", r, NoGrant, w, << >>)]
         /\ IF w = "failed" THEN UNCHANGED <<ledger, paid>>
            ELSE ledger' = ledger \cup {r} /\ paid' = [paid EXCEPT ![r] = Append(@, task[t].grant)]
  BY <1>1 DEF SubmitPayment
<1>6. PICK n \in TaskTypes : /\ n = Task("finish", r, NoGrant, w, << >>) /\ RowsOf(n) = {}
                             /\ n.pc = "finish" /\ n.refund = r /\ n.word = w
  BY NewTasks DEF Pcs, Words, CommitResults
<1>7. \A q \in Refunds \ {r} : paid'[q] = paid[q]
  BY <1>4, <1>5
<1>8. w # "failed" => paid'[r] = <<task[t].grant>> /\ r \in ledger'
  BY <1>3, <1>4, <1>5
<1>9. RefundTypes'
  <2>1. Append(paid[r], task[t].grant) \in Seq(AnyGrant)
    BY <1>2, <1>4
  <2>2. paid' \in [Refunds -> Seq(AnyGrant)] /\ ledger' \subseteq Refunds
    BY <1>4, <1>5, <2>1
  <2> QED BY <1>3, <2>2 DEF GatewayInv, GatewayTypes, RefundTypes
<1>10. Evolves
  BY <1>3, <1>5, <1>7, <1>8 DEF Evolves, Closed, Early
<1>11. Money'
  <2>1. Len(<<task[t].grant>>) = 1 /\ ToSet(<<task[t].grant>>) = {task[t].grant}
        /\ <<task[t].grant>> # << >>
    BY OneRow
  <2>2. CASE w = "failed"
    BY <1>3, <1>4, <1>5, <2>2 DEF Money, Quorate, Early
  <2>3. CASE w # "failed"
    <3> SUFFICES ASSUME NEW q \in Refunds
                 PROVE  /\ life'[q] \in Early => paid'[q] = << >>
                        /\ Len(paid'[q]) <= 1
                        /\ \A g \in ToSet(paid'[q]) : Quorate(g)
                        /\ q \in ledger' => paid'[q] # << >>
                        /\ life'[q] = "proposed" => scored'[q] = NoHash
      BY DEF Money, Quorate
    <3>1. CASE q = r
      <4>1. paid'[q] = <<task[t].grant>> /\ life'[q] = "committing"
        BY <1>3, <1>8, <2>3, <3>1
      <4>2. Len(paid'[q]) = 1 /\ paid'[q] # << >> /\ \A g \in ToSet(paid'[q]) : g = task[t].grant
        BY <2>1, <4>1
      <4> QED BY <1>3, <4>1, <4>2 DEF Early
    <3>2. CASE q # r
      <4>1. paid'[q] = paid[q] /\ life'[q] = life[q] /\ scored'[q] = scored[q]
            /\ (q \in ledger' <=> q \in ledger)
        BY <1>3, <1>5, <1>7, <2>3, <3>2
      <4> QED BY <1>4, <4>1 DEF Money
    <3> QED BY <3>1, <3>2
  <2> QED BY <2>2, <2>3
<1>12. ASSUME NEW d \in Threads \ {t}
       PROVE  Undisturbed(task[d]) /\ Apart(n, task[d]) /\ Apart(task[d], n)
  <2>1. task[d].pc \in Paying => task[d].refund \in Refunds \ {r}
    BY <1>1, <1>2, <1>4, TaskPcs DEF Apart, Paying
  <2> QED BY <1>3, <1>6, <1>7, <2>1 DEF Undisturbed, Apart, Paying
<1>13. TaskSays(n)'
  BY <1>3, <1>5, <1>6 DEF TaskSays, Paying
<1> QED BY <1>2, <1>3, <1>5, <1>6, <1>9, <1>10, <1>11, <1>12, <1>13, QuietHandler

LEMMA CompensateKeeps ==
    ASSUME GatewayInv, NEW t \in Threads, NEW u \in Members, NEW r \in Refunds,
           CompensateRefund(t, u, r)
    PROVE  GatewayInv'
<1>1. Rows(t) = {}
  BY FreeHasNoRows DEF CompensateRefund
<1>2. /\ UNCHANGED <<denied, ledger, paid, scored, torn, activations, mem>> /\ UNCHANGED stores
      /\ life[r] = "verified" /\ life' = [life EXCEPT ![r] = "compensating"]
  BY DEF CompensateRefund, Move, stores
<1>3. PICK n \in TaskTypes : /\ n = Task("reverse", r, NoGrant, "none", << >>) /\ RowsOf(n) = {}
                             /\ n.pc = "reverse"
  BY NewTasks DEF Pcs
<1>4. task' = [task EXCEPT ![t] = n]
  BY <1>3 DEF CompensateRefund
<1>5. TaskSays(n)' /\ \A x : Apart(n, x) /\ Apart(x, n)
  BY <1>3 DEF TaskSays, Apart, Paying
<1>6. /\ RefundTypes' /\ Evolves /\ Money'
      /\ \A d \in Threads \ {t} : Undisturbed(task[d])
  BY <1>2, LifeMove, MoveDisturbsNone DEF LifecycleState, Early
<1> QED BY <1>1, <1>2, <1>3, <1>4, <1>5, <1>6, QuietHandler

LEMMA FinishCompensationKeeps ==
    ASSUME GatewayInv, NEW t \in Threads, FinishCompensation(t)
    PROVE  GatewayInv'
<1>1. Rows(t) = {} /\ task[t].refund \in Refunds /\ Ends(t)
  BY AtHasNoRows DEF FinishCompensation, Pcs
<1>2. UNCHANGED <<denied, ledger, paid, scored, torn, activations, mem>> /\ UNCHANGED stores
  BY DEF FinishCompensation, stores
<1>3. PICK r \in Refunds : r = task[t].refund
  BY <1>1
<1>4. life[r] = "compensating" /\ life' = [life EXCEPT ![r] = "failed"]
  BY <1>3 DEF FinishCompensation, Move
<1>5. /\ RefundTypes' /\ Evolves /\ Money'
      /\ \A d \in Threads \ {t} : Undisturbed(task[d])
  BY <1>2, <1>4, LifeMove, MoveDisturbsNone DEF LifecycleState, Early
<1> QED BY <1>1, <1>2, <1>5, EndsQuietly

(***************************************************************************)
(* The handlers that store something, and the rows it goes into.           *)
(***************************************************************************)

\* A handler with rows to write and nothing else to do.
LEMMA NewDone ==
    ASSUME NEW save \in Seq(Items)
    PROVE  /\ Done(save) \in TaskTypes /\ RowsOf(Done(save)) = ToSet(save)
           /\ TaskSays(Done(save))' /\ \A x : Apart(Done(save), x) /\ Apart(x, Done(save))
<1>1. Done(save) \in DoneTasks /\ Done(save) # Idle /\ Done(save).pc = "done" /\ Done(save).save = save
  BY DEF Done, DoneTasks, Idle
<1>2. PICK x : x = Done(save)
  OBVIOUS
<1>3. TaskSays(x)'
  BY <1>1, <1>2 DEF TaskSays, Paying
<1> QED BY <1>1, <1>2, <1>3 DEF TaskTypes, RowsOf, Apart, Paying

LEMMA ActivateKeeps ==
    ASSUME GatewayInv, NEW t \in Threads, NEW b \in BundleIds, ActivatePolicy(t, b)
    PROVE  GatewayInv'
<1>1. Rows(t) = {}
  BY FreeHasNoRows DEF ActivatePolicy
<1>2. PICK h : h = activations + 1
  OBVIOUS
<1>3. h \in Hashes /\ h \in AnyHash
  BY <1>2, RefundAssumption DEF ActivatePolicy, GatewayInv, GatewayTypes, RefundTypes, AnyHash, Hashes
<1>4. PICK save : save = <<Item("bundle", b, h), Item("active", "id", b)>>
  OBVIOUS
<1>5. Item("bundle", b, h) \in Items /\ Item("active", "id", b) \in Items
  BY <1>3 DEF Items, Item
<1>6. save \in Seq(Items) /\ ToSet(save) = {Item("bundle", b, h), Item("active", "id", b)}
  BY <1>4, <1>5, TwoRows
<1>7. /\ UNCHANGED <<life, ledger, paid, scored, denied, torn>> /\ db' = db /\ activations' = h
      /\ mem' = [mem EXCEPT !.bundle[b] = h, !.active["id"] = b]
      /\ task' = [task EXCEPT ![t] = Done(save)]
  BY <1>2, <1>4 DEF ActivatePolicy, refund
<1>8. mem \in Stores
  BY DEF GatewayInv, GatewayTypes
<1>9. mem' \in Stores /\ \A f \in Fields : mem'[f] = mem[f]
  BY <1>3, <1>7, <1>8 DEF Stores, Fields, Decisions
<1>10. RefundTypes' /\ Evolves /\ Money'
  BY <1>3, <1>7, SameRefunds DEF GatewayInv, GatewayTypes, RefundTypes
<1>11. \A x : Undisturbed(x)
  BY <1>7, <1>9 DEF Undisturbed, Fields, Decisions
<1>12. \A i \in ToSet(save) : i[1] \notin Fields
  BY <1>6 DEF Item, Fields, Decisions
<1>13. PICK n \in TaskTypes : /\ n = Done(save) /\ RowsOf(n) = ToSet(save)
                              /\ TaskSays(n)' /\ \A x : Apart(n, x) /\ Apart(x, n)
  BY <1>6, NewDone DEF TaskSays, BoundRightly
<1> HIDE DEF Fields
<1>14. \A i \in RowsOf(n) : i[1] \in Fields => Says(i[1], i[2], i[3])' /\ mem'[i[1]][i[2]] = i[3]
  BY <1>12, <1>13
<1>15. \A d \in Threads \ {t} : \A i \in Rows(d) :
               i[1] \in Decisions => mem'[i[1]][i[2]] = mem[i[1]][i[2]]
  BY <1>9 DEF Fields
<1> QED BY <1>1, <1>7, <1>9, <1>10, <1>11, <1>13, <1>14, <1>15, Handler

LEMMA ProposeKeeps ==
    ASSUME GatewayInv, NEW t \in Threads, NEW r \in Refunds, ProposeRefund(t, r)
    PROVE  GatewayInv'
<1>1. Rows(t) = {}
  BY FreeHasNoRows DEF ProposeRefund
<1>2. mem \in Stores /\ RefundTypes /\ Money
  BY DEF GatewayInv, GatewayTypes
<1>3. PICK h \in AnyHash : h = ActiveBundle
  BY <1>2, SomeHash DEF ActiveBundle, Stores
<1>4. PICK i1, i2, i3, i4, save :
         /\ i1 = Item("sealed", r, TRUE) /\ i2 = Item("assessment", r, TRUE)
         /\ i3 = Item("quorum", r, TRUE) /\ i4 = Item("frozen", r, h)
         /\ save = <<i1, i2, i3>> \o IF h = NoHash THEN << >> ELSE <<i4>>
  OBVIOUS
<1>5. /\ UNCHANGED <<ledger, paid, denied, torn, activations>> /\ db' = db
      /\ life[r] = "proposed" /\ life' = [life EXCEPT ![r] = "sealed"]
      /\ scored' = [scored EXCEPT ![r] = h]
      /\ mem' = [mem EXCEPT !.sealed[r] = TRUE, !.assessment[r] = TRUE,
                            !.quorum[r] = TRUE, !.frozen[r] = h]
      /\ task' = [task EXCEPT ![t] = Done(save)]
  BY <1>3, <1>4 DEF ProposeRefund
<1>6. save \in Seq(Items) /\ ToSet(save) = {i1, i2, i3} \cup IF h = NoHash THEN {} ELSE {i4}
  <2>1. i1 \in Items /\ i2 \in Items /\ i3 \in Items
    BY <1>4 DEF Items, Item
  <2>2. h # NoHash => i4 \in Items
    BY <1>4, SomeHash DEF Items, Item
  <2>3. CASE h = NoHash
    <3>1. save = <<i1, i2, i3>>
      BY <1>4, <2>3
    <3> QED BY <2>1, <2>3, <3>1, ThreeRows
  <2>4. CASE h # NoHash
    <3>1. save = <<i1, i2, i3>> \o <<i4>>
      BY <1>4, <2>4
    <3> QED BY <2>1, <2>2, <2>4, <3>1, OneMoreRow
  <2> QED BY <2>3, <2>4
<1>7. mem' \in Stores
  BY <1>2, <1>5 DEF Stores
<1>8. /\ \A q \in Refunds \ {r} : \A f \in Fields : mem'[f][q] = mem[f][q]
      /\ \A f \in {"grant", "index", "commit", "proof"} : mem'[f] = mem[f]
      /\ mem'["sealed"][r] = TRUE /\ mem'["assessment"][r] = TRUE /\ mem'["quorum"][r] = TRUE
      /\ mem'["frozen"][r] = h
  BY <1>2, <1>5 DEF Stores, Fields, Decisions
<1>9. mem["frozen"][r] = NoHash
  BY <1>5 DEF GatewayInv, StoreSays, Says, Fields, Decisions
<1>10. /\ life'[r] = "sealed" /\ \A q \in Refunds \ {r} : life'[q] = life[q]
       /\ scored'[r] = h /\ \A q \in Refunds \ {r} : scored'[q] = scored[q]
       /\ scored[r] = NoHash /\ paid[r] = << >>
  BY <1>2, <1>5 DEF RefundTypes, Money, Early
<1>11. RefundTypes'
  BY <1>2, <1>5 DEF RefundTypes, LifecycleState
<1>12. Evolves
  BY <1>5, <1>8, <1>10 DEF Evolves, Closed, Early
<1>13. Money'
  BY <1>2, <1>5, <1>10 DEF Money, Quorate, Early
<1>14. ASSUME NEW d \in Threads \ {t}
       PROVE  Undisturbed(task[d])
  <2>1. task[d] \in TaskTypes /\ TaskSays(task[d])
    BY DEF GatewayInv, GatewayTypes, TaskTypes
  <2>2. task[d].pc \in Paying => task[d].refund \in Refunds \ {r}
    BY <1>5, <2>1, TaskPcs DEF TaskSays, Paying
  <2> QED BY <1>5, <1>8, <1>10, <2>2 DEF Undisturbed
<1>15. PICK n \in TaskTypes : /\ n = Done(save) /\ RowsOf(n) = ToSet(save)
                              /\ TaskSays(n)' /\ \A x : Apart(n, x) /\ Apart(x, n)
  BY <1>6, NewDone DEF TaskSays, BoundRightly
<1>16. ASSUME NEW i \in RowsOf(n)
       PROVE  Says(i[1], i[2], i[3])' /\ mem'[i[1]][i[2]] = i[3]
  <2>1. \/ \E f \in {"sealed", "assessment", "quorum"} : i = Item(f, r, TRUE)
        \/ i = Item("frozen", r, h)
    BY <1>4, <1>6, <1>15
  <2>2. /\ i[2] = r
        /\ \/ i[1] \in {"sealed", "assessment", "quorum"} /\ i[3] = TRUE
           \/ i[1] = "frozen" /\ i[3] = h
    <3>1. CASE i = Item("frozen", r, h)
      BY <3>1, ItemParts
    <3>2. ASSUME NEW f \in {"sealed", "assessment", "quorum"}, i = Item(f, r, TRUE)
          PROVE  i[1] = f /\ i[2] = r /\ i[3] = TRUE
      <4>1. PICK v : v = TRUE /\ i = Item(f, r, v)
        BY <3>2
      <4>2. i = Item(f, r, v)
        BY <4>1
      <4>3. i[1] = f /\ i[2] = r /\ i[3] = v
        BY <4>2, ItemParts
      <4> QED BY <4>1, <4>3
    <3> QED BY <2>1, <3>1, <3>2
  <2> QED BY <1>8, <1>10, <2>2 DEF Says
<1>17. ASSUME NEW f \in Fields, NEW q \in Refunds
       PROVE  mem'[f][q] = mem[f][q] \/ Item(f, q, mem'[f][q]) \in RowsOf(n)
  <2>1. CASE q # r \/ f \in {"grant", "index", "commit", "proof"}
    BY <1>8, <2>1
  <2>2. CASE q = r /\ f \in {"sealed", "assessment", "quorum"}
    BY <1>4, <1>6, <1>8, <1>15, <2>2
  <2>3. CASE q = r /\ f = "frozen"
    <3>1. mem'[f][q] = h /\ mem[f][q] = NoHash
      BY <1>8, <1>9, <2>3
    <3>2. CASE h = NoHash
      BY <3>1, <3>2
    <3>3. CASE h # NoHash
      <4>1. Item(f, q, mem'[f][q]) = i4
        BY <1>4, <2>3, <3>1
      <4> QED BY <1>6, <1>15, <3>3, <4>1
    <3> QED BY <3>2, <3>3
  <2> QED BY <2>1, <2>2, <2>3 DEF Fields, Decisions
<1>18. ASSUME NEW d \in Threads \ {t}, NEW i \in Rows(d), i[1] \in Decisions
       PROVE  mem'[i[1]][i[2]] = mem[i[1]][i[2]]
  <2>1. i \in Items
    BY TaskPcs, SetOfSeq DEF GatewayInv, GatewayTypes, TaskTypes, Rows, RowsOf
  <2>2. i[2] \in Refunds /\ Says(i[1], i[2], i[3])
    BY <1>18, <2>1 DEF Items, GatewayInv, RowsSay, Rows, Fields, Decisions
  <2>3. CASE i[2] # r
    BY <1>8, <1>18, <2>2, <2>3 DEF Fields
  <2>4. CASE i[2] = r
    <3>1. i[1] \in {"grant", "index", "commit"}
      BY <1>5, <1>18, <2>1, <2>2, <2>4, SomeHash DEF Says, Items, Decisions
    <3> QED BY <1>8, <3>1
  <2> QED BY <2>3, <2>4
<1> QED BY <1>1, <1>5, <1>7, <1>11, <1>12, <1>13, <1>14, <1>15, <1>16, <1>17, <1>18, Handler

LEMMA RecordStatementKeeps ==
    ASSUME GatewayInv, NEW t \in Threads, RecordStatement(t)
    PROVE  GatewayInv'
<1>1. PICK r \in Refunds : r = task[t].refund
  BY AtHasNoRows DEF RecordStatement, Pcs
<1>2. PICK g \in AnyGrant : g = task[t].grant
  BY AtHasNoRows DEF RecordStatement, Pcs
<1>3. Rows(t) = {} /\ task[t].pc = "sign" /\ task[t].word \in Members /\ BoundRightly(r, g)
      /\ life[r] # "proposed" /\ task \in [Threads -> TaskTypes]
  BY <1>1, <1>2, AtHasNoRows DEF RecordStatement, Pcs, TaskSays, GatewayInv, GatewayTypes, TaskTypes
<1>4. mem \in Stores /\ mem.statements[r] \in Seq(Members)
  BY DEF GatewayInv, GatewayTypes, Stores
<1>5. PICK list \in Seq(Members) : list = Append(mem.statements[r], task[t].word)
  <2>1. Append(mem.statements[r], task[t].word) \in Seq(Members)
    BY <1>3, <1>4
  <2> QED BY <2>1
<1>6. PICK save : save = <<Item("statements", r, list)>>
  OBVIOUS
<1>7. save \in Seq(Items) /\ ToSet(save) = {Item("statements", r, list)}
  <2>1. Item("statements", r, list) \in Items
    BY DEF Items, Item
  <2> QED BY <1>6, <2>1, OneRow
<1>8. PICK n : n = Task("count", r, g, "none", save)
  OBVIOUS
<1>9. n \in TaskTypes /\ n.pc = "count" /\ n.refund = r /\ n.grant = g /\ RowsOf(n) = ToSet(save)
  BY <1>7, <1>8 DEF Task, TaskTypes, OpenTasks, Pcs, Words, CommitResults, RowsOf, Idle
<1>10. /\ UNCHANGED <<life, ledger, paid, scored, denied, torn, activations>> /\ db' = db
       /\ mem' = [mem EXCEPT !.statements[r] = list]
       /\ task' = [task EXCEPT ![t] = n]
  BY <1>1, <1>2, <1>3, <1>5, <1>6, <1>8 DEF RecordStatement, refund
<1>11. mem' \in Stores /\ \A f \in Fields : mem'[f] = mem[f]
  BY <1>4, <1>10 DEF Stores, Fields, Decisions
<1>12. RefundTypes' /\ Evolves /\ Money'
  BY <1>10, SameRefunds DEF GatewayInv, GatewayTypes, RefundTypes
<1>13. \A x : Undisturbed(x)
  BY <1>10, <1>11 DEF Undisturbed, Fields, Decisions
<1>14. TaskSays(n)' /\ \A x : Apart(n, x) /\ Apart(x, n)
  BY <1>3, <1>9, <1>10 DEF TaskSays, Apart, Paying, BoundRightly
<1>15. \A i \in RowsOf(n) : i[1] \notin Fields
  BY <1>7, <1>9, ItemParts DEF Fields, Decisions
<1>16. \A d \in Threads \ {t} : \A i \in Rows(d) :
               i[1] \in Decisions => mem'[i[1]][i[2]] = mem[i[1]][i[2]]
  BY <1>11 DEF Fields
<1> QED BY <1>3, <1>9, <1>10, <1>11, <1>12, <1>13, <1>14, <1>15, <1>16, Handler

\* The only handler that registers a grant for its refund, and the first.
LEMMA RegisterKeeps ==
    ASSUME GatewayInv, NEW t \in Threads, RegisterGrant(t)
    PROVE  GatewayInv'
<1>1. PICK r \in Refunds : r = task[t].refund
  BY AtHasNoRows DEF RegisterGrant, Pcs
<1>2. PICK g \in AnyGrant : g = task[t].grant
  BY AtHasNoRows DEF RegisterGrant, Pcs
<1>3. /\ Rows(t) = {} /\ task[t].pc = "register" /\ BoundRightly(r, g) /\ Quorate(g)
      /\ life[r] \notin {"proposed", "sealed"} /\ mem.grant[r] = NoGrant /\ mem.index[r] = FALSE
      /\ task \in [Threads -> TaskTypes] /\ mem \in Stores
  BY <1>1, <1>2, AtHasNoRows DEF RegisterGrant, Pcs, TaskSays, GatewayInv, GatewayTypes, TaskTypes
<1>4. g # NoGrant
  BY <1>3, NoGrantIsNotQuorate
<1>5. PICK i1, i2, save : /\ i1 = Item("grant", r, g) /\ i2 = Item("index", r, TRUE)
                          /\ save = <<i1, i2>>
  OBVIOUS
<1>6. save \in Seq(Items) /\ ToSet(save) = {i1, i2}
  <2>1. i1 \in Items /\ i2 \in Items
    BY <1>4, <1>5 DEF Items, Item
  <2>2. save = <<i1, i2>>
    BY <1>5
  <2> QED BY <2>1, <2>2, TwoRows
<1>7. PICK n \in TaskTypes : /\ n = Done(save) /\ RowsOf(n) = ToSet(save)
                             /\ TaskSays(n)' /\ \A x : Apart(n, x) /\ Apart(x, n)
  BY <1>6, NewDone DEF TaskSays, BoundRightly
<1>8. /\ UNCHANGED <<life, ledger, paid, scored, denied, torn, activations>> /\ db' = db
      /\ mem' = [mem EXCEPT !.grant[r] = g, !.index[r] = TRUE]
      /\ task' = [task EXCEPT ![t] = n]
  BY <1>1, <1>2, <1>3, <1>5, <1>7 DEF RegisterGrant, GrantRows, refund
<1>9. /\ mem' \in Stores
      /\ mem'["grant"][r] = g /\ mem'["index"][r] = TRUE
      /\ \A f \in Fields : \A q \in Refunds :
            ~ (f \in {"grant", "index"} /\ q = r) => mem'[f][q] = mem[f][q]
  BY <1>3, <1>8 DEF Stores, Fields, Decisions
<1>10. RefundTypes' /\ Evolves /\ Money'
  BY <1>8, SameRefunds DEF GatewayInv, GatewayTypes, RefundTypes
<1>11. ASSUME NEW d \in Threads \ {t}
       PROVE  Undisturbed(task[d])
  <2>1. task[d] \in TaskTypes /\ Apart(task[t], task[d])
    BY <1>3 DEF GatewayInv
  <2>2. task[d].pc = "register" => task[d].refund \in Refunds \ {r}
    BY <1>1, <1>3, <2>1, TaskPcs DEF Apart
  <2> QED BY <1>8, <1>9, <2>2 DEF Undisturbed, Fields, Decisions
<1>12. ASSUME NEW i \in RowsOf(n)
       PROVE  Says(i[1], i[2], i[3])' /\ mem'[i[1]][i[2]] = i[3]
  <2>1. CASE i = i1
    <3>1. i[1] = "grant" /\ i[2] = r /\ i[3] = g
      BY <1>5, <2>1, ItemParts
    <3> QED BY <1>3, <1>8, <1>9, <3>1 DEF Says, BoundRightly, Quorate
  <2>2. CASE i = i2
    <3>1. PICK v : v = TRUE /\ i = Item("index", r, v)
      BY <1>5, <2>2
    <3>2. i = Item("index", r, v)
      BY <3>1
    <3>3. i[1] = "index" /\ i[2] = r /\ i[3] = v
      BY <3>2, ItemParts
    <3> QED BY <1>3, <1>8, <1>9, <3>1, <3>3 DEF Says
  <2> QED BY <1>6, <1>7, <2>1, <2>2
<1>13. ASSUME NEW f \in Fields, NEW q \in Refunds
       PROVE  mem'[f][q] = mem[f][q] \/ Item(f, q, mem'[f][q]) \in RowsOf(n)
  <2>1. CASE f = "grant" /\ q = r
    BY <1>5, <1>6, <1>7, <1>9, <2>1
  <2>2. CASE f = "index" /\ q = r
    BY <1>5, <1>6, <1>7, <1>9, <2>2
  <2> QED BY <1>9, <2>1, <2>2
<1>14. ASSUME NEW d \in Threads \ {t}, NEW i \in Rows(d), i[1] \in Decisions
       PROVE  mem'[i[1]][i[2]] = mem[i[1]][i[2]]
  <2>1. i \in Items
    BY TaskPcs, SetOfSeq DEF GatewayInv, GatewayTypes, TaskTypes, Rows, RowsOf
  <2>2. i[2] \in Refunds /\ mem[i[1]][i[2]] = i[3]
    BY <1>14, <2>1 DEF Items, GatewayInv, RowsAreCurrent, Decisions
  <2>3. i[1] = "grant" => i[3] # NoGrant
    BY <2>1 DEF Items
  <2>4. i[1] = "index" => i[3] = TRUE
    BY <2>1 DEF Items
  <2>5. ~ (i[1] \in {"grant", "index"} /\ i[2] = r)
    BY <1>3, <2>2, <2>3, <2>4
  <2> QED BY <1>9, <1>14, <2>2, <2>5 DEF Fields
<1> QED BY <1>3, <1>7, <1>8, <1>9, <1>10, <1>11, <1>12, <1>13, <1>14, Handler

LEMMA FinishCommitKeeps ==
    ASSUME GatewayInv, NEW t \in Threads, FinishCommit(t)
    PROVE  GatewayInv'
<1>1. PICK r \in Refunds : r = task[t].refund
  BY AtHasNoRows DEF FinishCommit, Pcs
<1>2. PICK w \in {"success", "failed", "ambiguous"} : w = task[t].word
  BY AtHasNoRows DEF FinishCommit, Pcs, TaskSays
<1>3. /\ Rows(t) = {} /\ task[t].pc = "finish" /\ life[r] = "committing"
      /\ w = "failed" => paid[r] = << >>
      /\ task \in [Threads -> TaskTypes] /\ mem \in Stores /\ life \in [Refunds -> LifecycleState]
  BY <1>1, <1>2, AtHasNoRows
     DEF FinishCommit, Pcs, TaskSays, Paying, GatewayInv, GatewayTypes, RefundTypes, TaskTypes
<1>4. PICK i1, save : i1 = Item("commit", r, w) /\ save = <<i1>>
  OBVIOUS
<1>5. save \in Seq(Items) /\ ToSet(save) = {i1}
  <2>1. i1 \in Items
    BY <1>4 DEF Items, Item, CommitResults
  <2> QED BY <1>4, <2>1, OneRow
<1>6. PICK n \in TaskTypes : /\ n = Done(save) /\ RowsOf(n) = ToSet(save)
                             /\ TaskSays(n)' /\ \A x : Apart(n, x) /\ Apart(x, n)
  BY <1>5, NewDone DEF TaskSays, BoundRightly
<1>7. PICK to \in {"committed", "failed"} :
         /\ life' = [life EXCEPT ![r] = to]
         /\ UNCHANGED <<ledger, paid, scored, denied, torn, activations>> /\ db' = db
         /\ mem' = [mem EXCEPT !.commit[r] = w]
         /\ task' = [task EXCEPT ![t] = n]
  BY <1>1, <1>2, <1>4, <1>6 DEF FinishCommit, Move
<1>8. /\ mem' \in Stores
      /\ mem'["commit"][r] = w
      /\ \A f \in Fields : \A q \in Refunds :
            ~ (f = "commit" /\ q = r) => mem'[f][q] = mem[f][q]
      /\ mem'["grant"] = mem["grant"] /\ mem'["index"] = mem["index"]
  BY <1>3, <1>7 DEF Stores, Fields, Decisions, CommitResults
<1>9. RefundTypes' /\ Evolves /\ Money'
  BY <1>3, <1>7, LifeMove DEF LifecycleState, Early
<1>10. ASSUME NEW d \in Threads \ {t}
       PROVE  Undisturbed(task[d])
  <2>1. task[d] \in TaskTypes /\ Apart(task[t], task[d])
    BY <1>3 DEF GatewayInv
  <2>2. task[d].pc \in Paying => task[d].refund \in Refunds \ {r}
    BY <1>1, <1>3, <2>1, TaskPcs DEF Apart, Paying
  <2> QED BY <1>3, <1>7, <1>8, <2>2 DEF Undisturbed
<1>11. ASSUME NEW i \in RowsOf(n)
       PROVE  Says(i[1], i[2], i[3])' /\ mem'[i[1]][i[2]] = i[3]
  <2>1. i[1] = "commit" /\ i[2] = r /\ i[3] = w
    BY <1>4, <1>5, <1>6, ItemParts
  <2>2. life'[r] = to
    BY <1>3, <1>7
  <2> QED BY <1>3, <1>7, <1>8, <2>1, <2>2 DEF Says, Closed, Early
<1>12. ASSUME NEW f \in Fields, NEW q \in Refunds
       PROVE  mem'[f][q] = mem[f][q] \/ Item(f, q, mem'[f][q]) \in RowsOf(n)
  BY <1>4, <1>5, <1>6, <1>8
<1>13. ASSUME NEW d \in Threads \ {t}, NEW i \in Rows(d), i[1] \in Decisions
       PROVE  mem'[i[1]][i[2]] = mem[i[1]][i[2]]
  <2>1. i \in Items
    BY TaskPcs, SetOfSeq DEF GatewayInv, GatewayTypes, TaskTypes, Rows, RowsOf
  <2>2. i[2] \in Refunds /\ Says(i[1], i[2], i[3])
    BY <1>13, <2>1 DEF Items, GatewayInv, RowsSay, Rows, Fields, Decisions
  <2>3. i[1] = "commit" => i[2] # r
    BY <1>3, <2>1, <2>2 DEF Says, Closed, Items
  <2> QED BY <1>8, <1>13, <2>2, <2>3 DEF Fields
<1> QED BY <1>3, <1>6, <1>7, <1>8, <1>9, <1>10, <1>11, <1>12, <1>13, Handler

\* verify_refund and recover_refund keep a proof of what they observed.
LEMMA KeepProofKeeps ==
    ASSUME GatewayInv, NEW t \in Threads, Free(t), NEW r \in Refunds, NEW p \in OutcomeProofs,
           KeepProof(t, r, p), p = "match" => r \in ledger,
           \/ UNCHANGED life
           \/ /\ life[r] \notin Early \cup {"committing"}
              /\ \E to \in LifecycleState \ (Early \cup {"committing"}) :
                    life' = [life EXCEPT ![r] = to]
    PROVE  GatewayInv'
<1>1. Rows(t) = {} /\ mem \in Stores /\ life \in [Refunds -> LifecycleState]
      /\ task \in [Threads -> TaskTypes]
  BY FreeHasNoRows DEF GatewayInv, GatewayTypes, RefundTypes, TaskTypes
<1>2. PICK i1, save : i1 = Item("proof", r, p) /\ save = <<i1>>
  OBVIOUS
<1>3. save \in Seq(Items) /\ ToSet(save) = {i1}
  <2>1. i1 \in Items
    BY <1>2 DEF Items, Item
  <2> QED BY <1>2, <2>1, OneRow
<1>4. PICK n \in TaskTypes : /\ n = Done(save) /\ RowsOf(n) = ToSet(save)
                             /\ TaskSays(n)' /\ \A x : Apart(n, x) /\ Apart(x, n)
  BY <1>3, NewDone DEF TaskSays, BoundRightly
<1>5. /\ UNCHANGED <<ledger, paid, scored, denied, torn, activations>> /\ db' = db
      /\ mem' = [mem EXCEPT !.proof[r] = p]
      /\ task' = [task EXCEPT ![t] = n]
  BY <1>2, <1>4 DEF KeepProof
<1>6. /\ mem' \in Stores
      /\ mem'["proof"][r] = p
      /\ \A f \in Fields : \A q \in Refunds :
            ~ (f = "proof" /\ q = r) => mem'[f][q] = mem[f][q]
      /\ \A f \in Decisions : mem'[f] = mem[f]
  BY <1>1, <1>5 DEF Stores, Fields, Decisions
<1>7. /\ RefundTypes' /\ Evolves /\ Money'
      /\ \A d \in Threads \ {t} : Undisturbed(task[d])
  <2>1. CASE UNCHANGED life
    <3>1. RefundTypes' /\ Evolves /\ Money'
      BY <1>5, <2>1, SameRefunds DEF GatewayInv, GatewayTypes, RefundTypes
    <3> QED BY <1>5, <1>6, <2>1, <3>1 DEF Undisturbed, Decisions
  <2>2. ASSUME NEW to \in LifecycleState \ (Early \cup {"committing"}),
               life[r] \notin Early \cup {"committing"}, life' = [life EXCEPT ![r] = to]
        PROVE  /\ RefundTypes' /\ Evolves /\ Money'
               /\ \A d \in Threads \ {t} : Undisturbed(task[d])
    <3>1. RefundTypes' /\ Evolves /\ Money'
      BY <1>5, <2>2, LifeMove
    <3>2. ASSUME NEW d \in Threads \ {t}
          PROVE  Undisturbed(task[d])
      <4>1. task[d] \in TaskTypes /\ TaskSays(task[d])
        BY <1>1 DEF GatewayInv
      <4>2. task[d].pc \in Paying => task[d].refund \in Refunds \ {r}
        BY <2>2, <4>1, TaskPcs DEF TaskSays, Paying
      <4> QED BY <1>1, <1>5, <1>6, <2>2, <4>2 DEF Undisturbed, Decisions
    <3> QED BY <3>1, <3>2
  <2> QED BY <2>1, <2>2
<1>8. ASSUME NEW i \in RowsOf(n)
      PROVE  Says(i[1], i[2], i[3])' /\ mem'[i[1]][i[2]] = i[3]
  <2>1. i[1] = "proof" /\ i[2] = r /\ i[3] = p
    BY <1>2, <1>3, <1>4, ItemParts
  <2>2. p = "match" => paid'[r] # << >>
    BY <1>5 DEF GatewayInv, Money
  <2> QED BY <1>6, <2>1, <2>2 DEF Says
<1>9. ASSUME NEW f \in Fields, NEW q \in Refunds
      PROVE  mem'[f][q] = mem[f][q] \/ Item(f, q, mem'[f][q]) \in RowsOf(n)
  BY <1>2, <1>3, <1>4, <1>6
<1>10. \A d \in Threads \ {t} : \A i \in Rows(d) :
               i[1] \in Decisions => mem'[i[1]][i[2]] = mem[i[1]][i[2]]
  BY <1>6
<1> QED BY <1>1, <1>4, <1>5, <1>6, <1>7, <1>8, <1>9, <1>10, Handler

LEMMA VerifyKeeps ==
    ASSUME GatewayInv, NEW t \in Threads, NEW r \in Refunds, VerifyRefund(t, r)
    PROVE  GatewayInv'
<1>1. PICK p \in OutcomeProofs : p = Observed(r)
  BY DEF Observed, OutcomeProofs
<1>2. p = "match" => r \in ledger
  BY <1>1 DEF Observed
<1>3. life[r] = "committed" /\ life' = [life EXCEPT ![r] = "verified"] /\ Free(t) /\ KeepProof(t, r, p)
  BY <1>1 DEF VerifyRefund, Move
<1> QED BY <1>2, <1>3, KeepProofKeeps DEF LifecycleState, Early

LEMMA RecoverKeeps ==
    ASSUME GatewayInv, NEW t \in Threads, NEW r \in Refunds, RecoverRefund(t, r)
    PROVE  GatewayInv'
<1>1. PICK p \in OutcomeProofs : p = RecoveryProbe(r)
  BY DEF RecoveryProbe, Observed, OutcomeProofs
<1>2. p = "match" => r \in ledger
  BY <1>1 DEF RecoveryProbe, Observed
<1>3. Free(t) /\ KeepProof(t, r, p)
  BY <1>1 DEF RecoverRefund
<1>4. \/ UNCHANGED life
      \/ life[r] = "failed" /\ life' = [life EXCEPT ![r] = "recovered_committed"]
  BY DEF RecoverRefund, IsLegalTransition, TRANSITIONS
<1> QED BY <1>2, <1>3, <1>4, KeepProofKeeps DEF LifecycleState, Early

(***************************************************************************)
(* A row reaches the database.                                             *)
(***************************************************************************)
PutInto(s, i, z) ==
    /\ z \in Stores
    /\ i[1] \in Fields => i[2] \in Refunds /\ z[i[1]][i[2]] = i[3]
    /\ \A f \in Fields, r \in Refunds : ~ (f = i[1] /\ r = i[2]) => z[f][r] = s[f][r]

LEMMA PutTypes ==
    \A s \in Stores, i \in Items : PutInto(s, i, [s EXCEPT ![i[1]][i[2]] = i[3]])
<1> SUFFICES ASSUME NEW s \in Stores, NEW i \in Items, NEW z, z = [s EXCEPT ![i[1]][i[2]] = i[3]]
             PROVE  PutInto(s, i, z)
  OBVIOUS
<1>1. CASE i \in {"sealed", "assessment", "quorum", "index"} \X Refunds \X {TRUE}
  BY <1>1 DEF PutInto, Stores, Fields, Decisions
<1>2. CASE i \in {"frozen"} \X Refunds \X Hashes
  BY <1>2, SomeHash DEF PutInto, Stores, Fields, Decisions
<1>3. CASE i \in {"statements"} \X Refunds \X Seq(Members)
  BY <1>3 DEF PutInto, Stores, Fields, Decisions
<1>4. CASE i \in {"grant"} \X Refunds \X (AnyGrant \ {NoGrant})
  BY <1>4 DEF PutInto, Stores, Fields, Decisions
<1>5. CASE i \in {"commit"} \X Refunds \X (CommitResults \ {"none"})
  BY <1>5 DEF PutInto, Stores, Fields, Decisions
<1>6. CASE i \in {"proof"} \X Refunds \X OutcomeProofs
  BY <1>6 DEF PutInto, Stores, Fields, Decisions
<1>7. CASE i \in {"bundle"} \X BundleIds \X Hashes
  BY <1>7, SomeHash DEF PutInto, Stores, Fields, Decisions
<1>8. CASE i \in {"active"} \X {"id"} \X BundleIds
  BY <1>8 DEF PutInto, Stores, Fields, Decisions
<1> QED BY <1>1, <1>2, <1>3, <1>4, <1>5, <1>6, <1>7, <1>8 DEF Items

LEMMA PutKeeps ==
    ASSUME GatewayInv, NEW t \in Threads, Put(t)
    PROVE  GatewayInv'
<1>1. PICK x \in TaskTypes : x = task[t]
  BY DEF GatewayInv, GatewayTypes, TaskTypes
<1>2. x # Idle /\ x.save # << >> /\ x.save \in Seq(Items) /\ task \in [Threads -> TaskTypes]
      /\ RowsSay(x) /\ TaskSays(x)
  BY <1>1, TaskPcs DEF Put, TaskTypes, GatewayInv, GatewayTypes
<1>3. PICK i \in Items, rest \in Seq(Items) : /\ i = Head(x.save) /\ rest = Tail(x.save)
                                             /\ ToSet(x.save) = {i} \cup ToSet(rest)
  <2>1. /\ Head(x.save) \in Items /\ Tail(x.save) \in Seq(Items)
        /\ ToSet(x.save) = {Head(x.save)} \cup ToSet(Tail(x.save))
    BY <1>2, FirstRow
  <2> QED BY <2>1
<1>4. PICK n : n = IF rest = << >> /\ x.pc = "done" THEN Idle ELSE [x EXCEPT !.save = rest]
  OBVIOUS
<1>5. /\ n \in TaskTypes /\ RowsOf(n) = ToSet(rest)
      /\ \/ n.pc = "idle"
         \/ n.pc = x.pc /\ n.pc = "done"
         \/ n.pc = x.pc /\ n.refund = x.refund /\ n.grant = x.grant /\ n.word = x.word
  <2>1. CASE rest = << >> /\ x.pc = "done"
    BY <1>4, <2>1, NoRows, NewTasks
  <2>2. CASE ~ (rest = << >> /\ x.pc = "done")
    <3>1. n = [x EXCEPT !.save = rest]
      BY <1>4, <2>2
    <3>2. CASE x \in DoneTasks
      <4>1. n \in DoneTasks /\ n.pc = "done" /\ n.save = rest /\ x.pc = "done"
        BY <3>1, <3>2 DEF DoneTasks
      <4> QED BY <4>1 DEF TaskTypes, RowsOf, Idle
    <3>3. CASE x \in OpenTasks
      <4>1. /\ n \in OpenTasks /\ n.save = rest /\ n.pc \in Pcs
            /\ n.pc = x.pc /\ n.refund = x.refund /\ n.grant = x.grant /\ n.word = x.word
        BY <3>1, <3>3 DEF OpenTasks
      <4> QED BY <4>1 DEF TaskTypes, RowsOf, Idle, Pcs
    <3> QED BY <1>2, <3>2, <3>3 DEF TaskTypes
  <2> QED BY <2>1, <2>2
<1>6. /\ db' = [db EXCEPT ![i[1]][i[2]] = i[3]] /\ task' = [task EXCEPT ![t] = n]
      /\ UNCHANGED <<mem, life, ledger, paid, scored, denied, torn, activations>>
  BY <1>1, <1>2, <1>3, <1>4 DEF Put, refund
<1>7. /\ db' \in Stores /\ db \in Stores
      /\ i[1] \in Fields => i[2] \in Refunds /\ db'[i[1]][i[2]] = i[3]
      /\ \A f \in Fields, r \in Refunds : ~ (f = i[1] /\ r = i[2]) => db'[f][r] = db[f][r]
  <2>1. PICK s \in Stores : s = db
    BY DEF GatewayInv, GatewayTypes
  <2>2. PICK z : z = [s EXCEPT ![i[1]][i[2]] = i[3]]
    OBVIOUS
  <2>3. PutInto(s, i, z)
    BY <2>2, PutTypes
  <2>4. z = db'
    BY <1>6, <2>1, <2>2
  <2> QED BY <2>1, <2>3, <2>4 DEF PutInto
<1>8. Says(i[1], i[2], i[3]) \/ i[1] \notin Fields
  BY <1>2, <1>3 DEF RowsSay, RowsOf
<1>9. GatewayTypes'
  BY <1>5, <1>6, <1>7 DEF GatewayInv, GatewayTypes, RefundTypes, TaskTypes
<1>10. StoreSays(mem)' /\ Money'
  BY <1>6 DEF GatewayInv, StoreSays, Says, BoundRightly, Quorate, Closed, Money
<1>11. StoreSays(db)'
  <2> SUFFICES ASSUME NEW f \in Fields, NEW r \in Refunds
               PROVE  Says(f, r, db[f][r])'
    BY DEF StoreSays
  <2>1. PICK v : v = db'[f][r]
    OBVIOUS
  <2>2. Says(f, r, v)
    <3>1. CASE f = i[1] /\ r = i[2]
      BY <1>7, <1>8, <2>1, <3>1
    <3>2. CASE ~ (f = i[1] /\ r = i[2])
      BY <1>7, <2>1, <3>2 DEF GatewayInv, StoreSays
    <3> QED BY <3>1, <3>2
  <2> QED BY <1>6, <2>1, <2>2 DEF Says, BoundRightly, Quorate, Closed
<1>12. task'[t] = n /\ \A d \in Threads \ {t} : task'[d] = task[d]
  BY <1>2, <1>6
<1>13. RowsOf(n) \subseteq RowsOf(x) /\ RowsOf(x) = {i} \cup RowsOf(n)
  BY <1>2, <1>3, <1>5 DEF RowsOf
<1>14. TaskSays(n) /\ \A y : (Apart(x, y) => Apart(n, y)) /\ (Apart(y, x) => Apart(y, n))
  BY <1>2, <1>5 DEF TaskSays, Apart, Paying
<1>15. ASSUME NEW d \in Threads
       PROVE  (RowsSay(task[d]) /\ TaskSays(task[d]))'
  <2>1. CASE d = t
    <3>1. RowsSay(n)
      BY <1>2, <1>13 DEF RowsSay
    <3> QED BY <1>6, <1>12, <1>14, <2>1, <3>1
            DEF RowsSay, RowsOf, Says, TaskSays, BoundRightly, Quorate, Closed
  <2>2. CASE d # t
    <3>1. RowsSay(task[d]) /\ TaskSays(task[d]) /\ task'[d] = task[d]
      BY <1>12, <2>2 DEF GatewayInv
    <3> QED BY <1>6, <3>1 DEF RowsSay, RowsOf, Says, TaskSays, BoundRightly, Quorate, Closed
  <2> QED BY <2>1, <2>2
<1>16. (\A c, d \in Threads : c # d => Apart(task[c], task[d]))'
  <2> SUFFICES ASSUME NEW c \in Threads, NEW d \in Threads, c # d
               PROVE  Apart(task'[c], task'[d])
    BY DEF Apart
  <2>1. Apart(task[c], task[d])
    BY DEF GatewayInv
  <2>2. CASE c = t
    BY <1>1, <1>12, <1>14, <2>1, <2>2
  <2>3. CASE d = t
    BY <1>1, <1>12, <1>14, <2>1, <2>3
  <2>4. CASE c # t /\ d # t
    BY <1>12, <2>1, <2>4
  <2> QED BY <2>2, <2>3, <2>4
<1>17. \A d \in Threads : RowsOf(task'[d]) \subseteq Rows(d)
  BY <1>1, <1>12, <1>13 DEF Rows
<1>18. RowsAreCurrent'
  BY <1>6, <1>17 DEF GatewayInv, RowsAreCurrent, Rows, RowsOf
<1>19. NothingForgotten'
  <2> SUFFICES ASSUME NEW f \in Decisions, NEW r \in Refunds, mem[f][r] # db'[f][r]
               PROVE  \E d \in Threads : Item(f, r, mem[f][r]) \in RowsOf(task'[d])
    BY <1>6 DEF NothingForgotten, Rows, RowsOf, Item
  <2>1. i \in Rows(t)
    BY <1>1, <1>13 DEF Rows
  <2>2. ~ (f = i[1] /\ r = i[2])
    BY <1>7, <2>1 DEF GatewayInv, RowsAreCurrent, Fields
  <2>3. db'[f][r] = db[f][r]
    BY <1>7, <2>2 DEF Fields
  <2>4. PICK d \in Threads : Item(f, r, mem[f][r]) \in Rows(d)
    BY <2>3 DEF GatewayInv, NothingForgotten
  <2>5. CASE d = t
    <3>1. Item(f, r, mem[f][r]) # i
      BY <2>2, ItemParts
    <3> QED BY <1>1, <1>12, <1>13, <2>4, <2>5, <3>1 DEF Rows
  <2>6. CASE d # t
    BY <1>12, <2>4, <2>6 DEF Rows
  <2> QED BY <2>5, <2>6
<1>20. Frozen'
  BY <1>6 DEF GatewayInv, Frozen
<1> QED BY <1>9, <1>10, <1>11, <1>15, <1>16, <1>18, <1>19, <1>20 DEF GatewayInv

(***************************************************************************)
(* The invariant is inductive.                                             *)
(***************************************************************************)
LEMMA GatewayInit == Init => GatewayInv
<1> SUFFICES ASSUME Init PROVE GatewayInv
  OBVIOUS
<1>1. Empty \in Stores
  BY SomeHash, NewTasks DEF Empty, Stores, CommitResults, OutcomeProofs
<1>2. GatewayTypes
  <2>1. RefundTypes
    BY SomeHash DEF Init, RefundTypes, LifecycleState, NoHash
  <2> QED BY <1>1, <2>1, NewTasks DEF Init, GatewayTypes, TaskTypes
<1>3. StoreSays(Empty)
  BY DEF StoreSays, Says, Empty, Fields, Decisions
<1>4. \A t \in Threads : RowsOf(task[t]) = {} /\ task[t].pc = "idle"
  BY NewTasks DEF Init
<1>5. Money
  BY NoRows DEF Init, Money, Early
<1>6. RowsAreCurrent /\ NothingForgotten
  BY <1>4 DEF RowsAreCurrent, NothingForgotten, Rows, Init
<1>7. \A t, d \in Threads : Apart(task[t], task[d])
  BY <1>4 DEF Apart, Paying
<1>8. \A t \in Threads : RowsSay(task[t]) /\ TaskSays(task[t])
  BY <1>4 DEF RowsSay, TaskSays, Paying
<1>9. Frozen
  BY DEF Frozen, Init
<1> QED BY <1>2, <1>3, <1>5, <1>6, <1>7, <1>8, <1>9 DEF GatewayInv, Init

LEMMA OtherPaymentKeeps ==
    ASSUME GatewayInv, OtherPayment
    PROVE  GatewayInv'
  BY DEF OtherPayment, stores, GatewayInv, GatewayTypes, RefundTypes, StoreSays, Says, Closed, BoundRightly,
       Quorate, RowsSay, RowsOf, Rows, TaskSays, Apart, Money, RowsAreCurrent, NothingForgotten,
       Frozen

LEMMA RestartKeeps ==
    ASSUME GatewayInv, Restart
    PROVE  GatewayInv'
<1>1. /\ mem' = db /\ db' = db /\ ledger' = {}
      /\ UNCHANGED <<life, denied, paid, scored, activations>>
      /\ torn \subseteq torn' /\ (torn \subseteq Refunds => torn' \subseteq Refunds)
      /\ \A t \in Threads : RowsOf(task'[t]) = {} /\ task'[t].pc = "idle"
  BY NewTasks DEF Restart
<1>2. GatewayTypes'
  BY <1>1 DEF Restart, GatewayInv, GatewayTypes, RefundTypes
<1>3. StoreSays(db)' /\ StoreSays(mem)'
  <2> SUFFICES ASSUME NEW f \in Fields, NEW r \in Refunds
               PROVE  Says(f, r, db[f][r])' /\ Says(f, r, mem[f][r])'
    BY DEF StoreSays
  <2>1. PICK v : v = db[f][r]
    OBVIOUS
  <2>2. Says(f, r, v)
    BY <2>1 DEF GatewayInv, StoreSays
  <2>3. Says(f, r, v)'
    BY <1>1, <2>2 DEF Says, Closed, BoundRightly, Quorate
  <2> QED BY <1>1, <2>1, <2>3 DEF Says, BoundRightly
<1>4. Money'
  BY <1>1 DEF GatewayInv, Money, Quorate
<1>5. (\A t \in Threads : RowsSay(task[t]) /\ TaskSays(task[t]))'
  BY <1>1 DEF RowsSay, RowsOf, TaskSays, Paying
<1>6. (\A t, d \in Threads : Apart(task[t], task[d]))'
  BY <1>1 DEF Apart, Paying
<1>7. RowsAreCurrent' /\ NothingForgotten'
  BY <1>1 DEF RowsAreCurrent, NothingForgotten, Rows, RowsOf
<1>8. Frozen'
  <2> SUFFICES ASSUME NEW r \in Refunds, life[r] # "proposed"
               PROVE  db.frozen[r] = scored[r] \/ (r \in torn' /\ db.frozen[r] = NoHash)
    BY <1>1 DEF Frozen
  <2>1. CASE db["frozen"][r] = mem["frozen"][r]
    BY <1>1, <2>1 DEF GatewayInv, Frozen
  <2>2. CASE db["frozen"][r] # mem["frozen"][r]
    <3>1. PICK t \in Threads : Item("frozen", r, mem["frozen"][r]) \in Rows(t)
      BY <2>2 DEF GatewayInv, NothingForgotten, Decisions
    <3>2. PICK i \in Rows(t) : i = Item("frozen", r, mem["frozen"][r])
      BY <3>1
    <3>3. /\ i[1] = "frozen" /\ i[2] = r
          /\ task[t] # Idle /\ i \in ToSet(task[t].save)
      BY <3>2, ItemParts DEF Rows, RowsOf
    <3>4. r \in torn'
      BY <3>3 DEF Restart
    <3>5. db["frozen"][r] \in {NoHash, scored[r]}
      BY DEF GatewayInv, StoreSays, Says, Fields, Decisions
    <3> QED BY <3>4, <3>5
  <2> QED BY <2>1, <2>2
<1> QED BY <1>2, <1>3, <1>4, <1>5, <1>6, <1>7, <1>8 DEF GatewayInv

LEMMA GatewayStep == GatewayInv /\ [Next]_vars => GatewayInv'
<1> SUFFICES ASSUME GatewayInv, [Next]_vars PROVE GatewayInv'
  OBVIOUS
<1>1. ASSUME NEW t \in Threads, Requests(t) PROVE GatewayInv'
  BY <1>1, ActivateKeeps, ProposeKeeps, ApproveKeeps, DenyKeeps, ExecuteKeeps, VerifyKeeps,
     RecoverKeeps, CompensateKeeps DEF Requests
<1>2. ASSUME NEW t \in Threads, Continues(t) PROVE GatewayInv'
  BY <1>2, PutKeeps, RefuseKeeps, RecordStatementKeeps, CountKeeps, AuthorizeKeeps, RegisterKeeps,
     RecordDenialKeeps, StartCommitKeeps, ValidateKeeps, SubmitKeeps, FinishCommitKeeps,
     FinishCompensationKeeps DEF Continues
<1>3. CASE OtherPayment
  BY <1>3, OtherPaymentKeeps
<1>4. CASE Restart
  BY <1>4, RestartKeeps
<1>5. CASE UNCHANGED vars
  BY <1>5 DEF vars, stores, refund, GatewayInv, GatewayTypes, RefundTypes, StoreSays, Says, Closed,
       BoundRightly, Quorate, RowsSay, RowsOf, Rows, TaskSays, Apart, Money, RowsAreCurrent,
       NothingForgotten, Frozen
<1> QED BY <1>1, <1>2, <1>3, <1>4, <1>5 DEF Next

LEMMA GatewayInvariant == Spec => []GatewayInv
  BY GatewayInit, GatewayStep, PTL DEF Spec

(***************************************************************************)
(* Theorems.                                                               *)
(***************************************************************************)

\* Money moves only behind a quorum of different users: any number of approvers,
\* threads and restarts between the approvals and the payment.
THEOREM QuorumBehindPayment == Spec => []PaidBehindQuorum
<1>1. GatewayInv => PaidBehindQuorum
  BY DEF GatewayInv, Money, Quorate, PaidBehindQuorum
<1> QED BY <1>1, GatewayInvariant, PTL

\* The money of a refund moves at most once, whatever requests are repeated and
\* whichever answers and ledgers are lost.
THEOREM OnePayment == Spec => []PaidAtMostOnce
<1>1. GatewayInv => PaidAtMostOnce
  BY DEF GatewayInv, Money, PaidAtMostOnce
<1> QED BY <1>1, GatewayInvariant, PTL

\* The status page shows verified_match only for a payment that was made, and
\* failed only for one that was not, in whatever order handlers stored results.
THEOREM HonestStatus == Spec => []StatusIsHonest
<1>1. GatewayInv => StatusIsHonest
  <2> SUFFICES ASSUME GatewayInv, NEW r \in Refunds
               PROVE  /\ VerificationStatus(r) = "verified_match" => paid[r] # << >>
                      /\ VerificationStatus(r) = "failed" => paid[r] = << >>
    BY DEF StatusIsHonest
  <2>1. mem.proof[r] \in OutcomeProofs /\ mem.commit[r] \in CommitResults
    BY DEF GatewayInv, GatewayTypes, Stores
  <2>2. /\ mem.proof[r] = "match" => paid[r] # << >>
        /\ mem.commit[r] = "failed" => paid[r] = << >>
    BY DEF GatewayInv, StoreSays, Says, Fields, Decisions
  <2>3. /\ VerificationStatus(r) = "verified_match" => mem.proof[r] = "match"
        /\ VerificationStatus(r) = "failed" => mem.commit[r] = "failed"
    BY <2>1 DEF VerificationStatus, OutcomeProofs, CommitResults
  <2> QED BY <2>2, <2>3
<1> QED BY <1>1, GatewayInvariant, PTL

\* A grant is bound to the policy that assessed its refund unless its approver
\* asked for another, however policies are activated between proposal and approval
\* and however often the process is restarted; it is bound to none only if none was
\* active at the proposal, or a restart tore the rows of the proposal.
THEOREM NoRebinding == Spec => []NoSilentRebinding
<1>1. GatewayInv => NoSilentRebinding
  BY DEF GatewayInv, StoreSays, Says, Fields, Decisions, NoSilentRebinding
<1> QED BY <1>1, GatewayInvariant, PTL

\* Once no request is in flight, a restart would find every decision the memory
\* holds in the database.
THEOREM DurableDecisions == Spec => []DecisionsAreDurable
<1>1. GatewayInv => DecisionsAreDurable
  <2> SUFFICES ASSUME GatewayInv, \A t \in Threads : task[t] = Idle, NEW f \in Decisions
               PROVE  mem[f] = db[f]
    BY DEF DecisionsAreDurable, Decisions
  <2>1. \A r \in Refunds : mem[f][r] = db[f][r]
    BY DEF GatewayInv, NothingForgotten, Rows, RowsOf
  <2>2. \E V : mem[f] \in [Refunds -> V] /\ db[f] \in [Refunds -> V]
    BY DEF GatewayInv, GatewayTypes, Stores, Decisions
  <2> QED BY <2>1, <2>2
<1> QED BY <1>1, GatewayInvariant, PTL
=============================================================================
