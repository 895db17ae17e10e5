---------------------------- MODULE BootstrapProofs ----------------------------
(***************************************************************************)
(* Proofs about DemoBootstrap for any cases, assets and processes, any     *)
(* order of the corpora, and any number of starts, attempts and mishaps.   *)
(***************************************************************************)
EXTENDS DemoBootstrap, FiniteSetTheorems, TLAPS

---------------------------------------------------------------------------
(* Types. *)

Done == Ended("COMPLETED")
Rows == [status : {"PENDING", "COMPLETED", "FAILED"}, attempts : Nat]
IsOutbox(f) ==
  /\ f = [k \in DOMAIN f |-> f[k]]
  /\ DOMAIN f \subseteq Items \X Nat /\ IsFiniteSet(DOMAIN f)
  /\ \A k \in DOMAIN f : f[k] \in Rows

\* What a session has of the tables.
Tables(outboxes) ==
  [roots : BOOLEAN, stored : SUBSET Assets, active : SUBSET Assets,
   bound : SUBSET Bindings, outbox : outboxes]
IsTables(t) == t \in Tables({t.outbox}) /\ IsOutbox(t.outbox)

Seeding == {"seeding", "indexing", "repairing", "committing"}
Seeded == {"facts", "inserting", "inspecting", "inspecting_stores"}
Places == {"idle", "gate", "rooting", "creating"} \union Seeding \union Seeded

TypeInv ==
  /\ IsTables(db) /\ \A p \in Processes : IsTables(mine[p])
  /\ mine = [p \in Processes |-> mine[p]]
  /\ facts \in [Cases -> {0, 1}]
  /\ points \in [Items -> (SUBSET Cases) \union {None}]
  /\ hardened \in BOOLEAN
  /\ pc \in [Processes -> Places]
  /\ mode \in [Processes -> {"prepare", "check"}]
  /\ step \in [Processes -> Nat]
  /\ \A p \in Processes : pc[p] \in Seeding =>
       step[p] \in 1..Steps + 1 /\ (step[p] = Steps + 1 <=> pc[p] = "committing")
  /\ \A p \in Processes : pc[p] = "creating" => step[p] = 1
  /\ missing \in [Processes -> SUBSET Cases]
  /\ checked \in [Processes -> SUBSET {"qdrant", "minio"}]
  /\ passed \in [Processes -> BOOLEAN]
  /\ report \in [Processes -> {None, "ready", "not_ready", "failed"}]
  /\ calm \in [Processes -> BOOLEAN] /\ ready \in BOOLEAN

---------------------------------------------------------------------------
(* What is ready stays ready. *)

AllExact == \A i \in Items : Exact(i)
AllStored == Assets \subseteq objects

\* The lock holder has looked, and nobody has changed the facts since.
LockInv ==
  \A p \in Processes :
    pc[p] = "inserting" => lock = p /\ missing[p] = {c \in Cases : facts[c] = 0}

\* What a passing inspection has seen holds while it goes on, in the stores as
\* long as nothing is lost.
InspectInv ==
  \A p \in Processes :
    /\ pc[p] # "inspecting_stores" => checked[p] = {}
    /\ pc[p] = "inspecting_stores" /\ passed[p] =>
         /\ FactsOnce /\ AssetsReady
         /\ p \in intact => /\ "minio" \in checked[p] => AllStored
                            /\ "qdrant" \in checked[p] => AllExact

ReadyInv == TypeInv /\ LockInv /\ InspectInv /\ ReadyStays

---------------------------------------------------------------------------
(* An undisturbed preparation ends ready. *)

\* The seed is committed whole or not at all, and one process at most seeds an
\* empty database, while nobody else seeds.
RootsOk(p) ==
  /\ pc[p] \notin Seeding => mine[p] = NoRows
  /\ pc[p] \in Seeding => (db.roots <=> ~ mine[p].roots)
  /\ mine[p].roots => \A q \in Processes \ {p} : pc[q] \notin Seeding
RootsInv ==
  /\ IF db.roots THEN AssetsReady ELSE db = NoRows
  /\ \A p \in Processes : RootsOk(p)

\* What a seed has done before its step n; it repairs an asset when all its
\* bindings are there.
Before(p, n) ==
  /\ \A m \in 1..n - 1 : m <= Len(Corpora) => /\ Corpora[m] \in View(p).bound
                                              /\ Corpora[m][2] \in View(p).stored
  /\ \A m \in 1..n - 1 : m > Len(Corpora) => AssetAt(m) \in View(p).active
BoundWhole(p, a) == \A b \in Bindings : b[2] = a => b \in View(p).bound

\* An asset of an empty database was stored by one of the steps of its seed.
StoredBy(p, a) ==
  \E m \in 1..Len(Corpora) :
    /\ Corpora[m][2] = a
    /\ m < step[p] \/ (m = step[p] /\ pc[p] \in {"indexing", "repairing"})

StepOk(p) ==
  /\ pc[p] \in Seeding => Before(p, step[p])
  /\ pc[p] = "indexing" => step[p] <= Len(Corpora)
  /\ pc[p] \in {"indexing", "repairing"} /\ step[p] <= Len(Corpora) =>
       Corpora[step[p]] \in View(p).bound /\ AssetAt(step[p]) \in View(p).stored
  /\ pc[p] = "repairing" =>
       AssetAt(step[p]) \in View(p).active /\ BoundWhole(p, AssetAt(step[p]))
  /\ pc[p] \in Seeding /\ mine[p].roots => \A a \in View(p).stored : StoredBy(p, a)
StepInv == \A p \in Processes : StepOk(p)

\* A row nobody has tried yet is its writer's own, and gone when the seed goes
\* on to its next step.
FreshOk(p) ==
  \A k \in DOMAIN mine[p].outbox : mine[p].outbox[k] = Fresh =>
    /\ pc[p] \in {"indexing", "repairing"}
    /\ k \notin DOMAIN db.outbox
    /\ \A q \in Processes \ {p} : k \notin DOMAIN mine[q].outbox
FreshInv ==
  /\ \A k \in DOMAIN db.outbox : db.outbox[k] # Fresh
  /\ \A p \in Processes : FreshOk(p)

Clean(outbox) == \A k \in DOMAIN outbox : outbox[k] \in {Fresh, Done}
SaidDone(outbox, i) == \E k \in DOMAIN outbox : k[1] = i /\ outbox[k] = Done
SaidFresh(outbox, i) == \E k \in DOMAIN outbox : k[1] = i /\ outbox[k] = Fresh

\* While nothing disturbs a preparation, no row waits and no object is lost.
Quiet ==
  /\ hardened /\ Clean(db.outbox) /\ db.stored \subseteq objects
  /\ \A q \in Processes : Clean(mine[q].outbox) /\ mine[q].stored \subseteq objects
QuietInv ==
  \A p \in Processes : calm[p] => Quiet /\ (pc[p] # "idle" => mode[p] = "prepare")

\* What it has stored is active, what it repairs is right or about to be
\* written, and what it has gone over is right.
Right(p, i) == Exact(i) /\ SaidDone(View(p).outbox, i)
StoredActive(p) ==
  \A a \in View(p).stored :
    a \in View(p).active \/ (pc[p] = "indexing" /\ a = AssetAt(step[p]))
Repairing(p) ==
  pc[p] = "repairing" =>
    \A i \in ItemsOf(AssetAt(step[p])) : Right(p, i) \/ SaidFresh(View(p).outbox, i)
GoneOver(p) ==
  \A m \in Len(Corpora) + 1..step[p] - 1 : \A i \in ItemsOf(AssetAt(m)) : Right(p, i)
CalmOk(p) ==
  /\ pc[p] \in Seeding => StoredActive(p) /\ Repairing(p) /\ GoneOver(p)
  /\ pc[p] \in Seeded => db.roots /\ \A i \in Items : Right(p, i)
  /\ pc[p] \in {"inspecting", "inspecting_stores"} => FactsOnce
  /\ pc[p] = "inspecting_stores" => passed[p]
CalmInv == \A p \in Processes : calm[p] => CalmOk(p)

PrepareInv ==
  /\ TypeInv /\ LockInv /\ RootsInv /\ StepInv /\ FreshInv /\ QuietInv /\ CalmInv
  /\ RepeatedPrepareIsReady

---------------------------------------------------------------------------
(* Rows and tables. *)

\* The steps of a seed.
LEMMA StepsType ==
  /\ Len(Corpora) \in Nat /\ Len(Finals) \in Nat /\ Steps = Len(Corpora) + Len(Finals)
  /\ DOMAIN Corpora = 1..Len(Corpora) /\ Steps \in Nat /\ 1 <= Steps
  /\ \A n \in 1..Len(Corpora) : /\ Corpora[n] \in Bindings
                              /\ AssetAt(n) = Corpora[n][2] /\ AssetAt(n) \in Assets
  /\ \A n \in Len(Corpora) + 1..Steps : AssetAt(n) \in Assets
<1>1. Corpora \in Seq(Cases \X Assets) /\ Finals \in Seq(Assets)
  BY BootstrapAssumption
<1>2. /\ Len(Corpora) \in Nat /\ Len(Finals) \in Nat /\ Steps = Len(Corpora) + Len(Finals)
      /\ DOMAIN Corpora = 1..Len(Corpora) /\ DOMAIN Finals = 1..Len(Finals)
      /\ Steps \in Nat
  BY <1>1 DEF Steps
<1>3. 1 <= Len(Finals)
  <2>1. PICK a \in Assets : TRUE
    BY BootstrapAssumption
  <2>2. PICK n \in DOMAIN Finals : Finals[n] = a
    BY BootstrapAssumption
  <2> QED
    BY <1>2, <2>2
<1>4. \A n \in 1..Len(Corpora) : /\ Corpora[n] \in Bindings
                               /\ AssetAt(n) = Corpora[n][2] /\ AssetAt(n) \in Assets
  BY <1>1, <1>2 DEF AssetAt, Bindings
<1>5. \A n \in Len(Corpora) + 1..Steps : AssetAt(n) \in Assets
  BY <1>1, <1>2 DEF AssetAt
<1> QED
  BY <1>2, <1>3, <1>4, <1>5

LEMMA NoRowsType == IsTables(NoRows) /\ DOMAIN NoRows.outbox = {}
<1>1. DOMAIN <<>> = {} /\ <<>> = [k \in DOMAIN <<>> |-> <<>>[k]]
  OBVIOUS
<1>2. IsOutbox(<<>>)
  BY <1>1, FS_EmptySet DEF IsOutbox
<1> QED
  BY <1>1, <1>2 DEF NoRows, IsTables, Tables

\* Rows written over others.
LEMMA OverType ==
  ASSUME NEW f, NEW g, IsOutbox(f), IsOutbox(g)
  PROVE  /\ IsOutbox(Over(f, g))
         /\ DOMAIN Over(f, g) = DOMAIN f \union DOMAIN g
         /\ \A k \in DOMAIN f : Over(f, g)[k] = f[k]
         /\ \A k \in DOMAIN g \ DOMAIN f : Over(f, g)[k] = g[k]
<1>1. IsFiniteSet(DOMAIN f \union DOMAIN g)
  BY FS_Union DEF IsOutbox
<1> QED
  BY <1>1 DEF Over, IsOutbox

LEMMA ViewType ==
  ASSUME TypeInv, NEW p \in Processes
  PROVE  /\ IsTables(View(p))
         /\ View(p).roots = (db.roots \/ mine[p].roots)
         /\ View(p).stored = db.stored \union mine[p].stored
         /\ View(p).active = db.active \union mine[p].active
         /\ View(p).bound = db.bound \union mine[p].bound
         /\ View(p).outbox = Over(mine[p].outbox, db.outbox)
<1>1. IsTables(db) /\ IsTables(mine[p])
  BY DEF TypeInv
<1>2. IsOutbox(Over(mine[p].outbox, db.outbox))
  BY <1>1, OverType DEF IsTables
<1> QED
  BY <1>1, <1>2 DEF View, IsTables, Tables

\* A new row is in nobody's view: there are more numbers than rows.
LEMMA NewRowIsNew ==
  ASSUME TypeInv, NEW i \in Items
  PROVE  /\ NewRow(i) \in Items \X Nat /\ NewRow(i)[1] = i
         /\ \A p \in Processes : NewRow(i) \notin DOMAIN View(p).outbox
<1> DEFINE keys == UNION {DOMAIN View(p).outbox : p \in Processes}
           taken == {k[2] : k \in keys}
           N == Cardinality(taken)
<1>1. IsFiniteSet(keys) /\ keys \subseteq Items \X Nat
  <2>1. \A p \in Processes : /\ IsFiniteSet(DOMAIN View(p).outbox)
                             /\ DOMAIN View(p).outbox \subseteq Items \X Nat
    BY ViewType DEF IsTables, IsOutbox
  <2> DEFINE D == {DOMAIN View(p).outbox : p \in Processes}
             d == [p \in Processes |-> DOMAIN View(p).outbox]
  <2>2. IsFiniteSet(D)
    <3>1. d \in Surjection(Processes, D)
      BY DEF Surjection
    <3> QED
      BY <3>1, FS_Surjection, BootstrapAssumption
  <2>3. \A S \in D : IsFiniteSet(S)
    BY <2>1
  <2>4. IsFiniteSet(UNION D)
    BY <2>2, <2>3, FS_UNION
  <2> QED
    BY <2>1, <2>4
<1>2. IsFiniteSet(taken) /\ taken \subseteq Nat
  <2> DEFINE num == [k \in keys |-> k[2]]
  <2>1. num \in Surjection(keys, taken)
    BY DEF Surjection
  <2>2. \A k \in keys : k[2] \in Nat
    BY <1>1
  <2> QED
    BY <1>1, <2>1, <2>2, FS_Surjection
<1>3. N \in Nat
  BY <1>2, FS_CardinalityType
<1>4. \E n \in 1..N + 1 : n \notin taken
  <2> SUFFICES ASSUME 1..N + 1 \subseteq taken PROVE FALSE
    OBVIOUS
  <2>1. Cardinality(1..N + 1) = N + 1
    BY <1>3, FS_Interval
  <2>2. Cardinality(1..N + 1) <= N
    BY <1>2, FS_Subset
  <2> QED
    BY <1>3, <2>1, <2>2
<1>5. NewRow(i) = <<i, CHOOSE n \in 1..N + 1 : n \notin taken>>
  BY DEF NewRow
<1> DEFINE n == CHOOSE n \in 1..N + 1 : n \notin taken
<1>6. n \in 1..N + 1 /\ n \notin taken
  BY <1>4
<1> HIDE DEF n, N
<1>7. NewRow(i) = <<i, n>> /\ n \in Nat
  BY <1>3, <1>5, <1>6 DEF n, N
<1>8. ASSUME NEW p \in Processes, <<i, n>> \in DOMAIN View(p).outbox PROVE FALSE
  <2>1. <<i, n>> \in keys
    BY <1>8
  <2>2. <<i, n>>[2] \in taken
    BY <2>1
  <2> QED
    BY <1>6, <2>2
<1> QED
  BY <1>7, <1>8

---------------------------------------------------------------------------
(* What a session writes to the outbox. *)

\* Rows are added that nobody has, or a pending one that it sees is set; its
\* own are kept otherwise.
Unseen(k) == \A q \in Processes : k \notin DOMAIN View(q).outbox
RowStep(p, old, new) ==
  /\ IsOutbox(new) /\ DOMAIN old \subseteq DOMAIN new
  /\ \A k \in DOMAIN new :
       \/ k \in DOMAIN old /\ new[k] = old[k]
       \/ Unseen(k) /\ new[k] \in {Fresh, Done}
       \/ /\ k \in DOMAIN View(p).outbox /\ View(p).outbox[k].status = "PENDING"
          /\ new[k] # Fresh

LEMMA RowTypes == Fresh \in Rows /\ Done \in Rows /\ Ended("FAILED") \in Rows
                  /\ Fresh # Done
                  /\ Fresh.status = "PENDING" /\ Done.status = "COMPLETED"
                  /\ \A r \in Rows : r = Fresh <=> r.status = "PENDING" /\ r.attempts = 0
BY DEF Fresh, Done, Ended, Rows

\* A set of new rows.
LEMMA NewRowsType ==
  ASSUME TypeInv, NEW S, S \subseteq Items
  PROVE  /\ {NewRow(i) : i \in S} \subseteq Items \X Nat
         /\ IsFiniteSet({NewRow(i) : i \in S})
         /\ \A k \in {NewRow(i) : i \in S} : Unseen(k) /\ k[1] \in S
<1> DEFINE D == {NewRow(i) : i \in S}
           d == [i \in S |-> NewRow(i)]
<1>1. IsFiniteSet(S)
  BY FS_Subset, BootstrapAssumption
<1>2. d \in Surjection(S, D)
  BY DEF Surjection
<1>3. IsFiniteSet(D)
  BY <1>1, <1>2, FS_Surjection
<1> QED
  BY <1>3, NewRowIsNew DEF Unseen

LEMMA IngestRows ==
  ASSUME TypeInv, NEW p \in Processes, NEW S, S \subseteq Items
  PROVE  LET old == mine[p].outbox
             new == Over([k \in {NewRow(i) : i \in S} |-> Fresh], old)
         IN /\ RowStep(p, old, new)
            /\ \A k \in DOMAIN new : (k \in DOMAIN old /\ new[k] = old[k]) \/ new[k] = Fresh
<1> DEFINE D == {NewRow(i) : i \in S}
           old == mine[p].outbox
           rows == [k \in D |-> Fresh]
           new == Over(rows, old)
<1>1. D \subseteq Items \X Nat /\ IsFiniteSet(D) /\ \A k \in D : Unseen(k)
  BY NewRowsType
<1>2. IsOutbox(old)
  BY DEF TypeInv, IsTables
<1>3. IsOutbox(rows) /\ DOMAIN rows = D /\ \A k \in D : rows[k] = Fresh
  BY <1>1, RowTypes DEF IsOutbox
<1> HIDE DEF rows, D, old
<1>4. /\ IsOutbox(new) /\ DOMAIN new = D \union DOMAIN old
      /\ \A k \in D : new[k] = rows[k]
      /\ \A k \in DOMAIN old \ D : new[k] = old[k]
  BY <1>2, <1>3, OverType
<1> HIDE DEF new
<1>5. /\ RowStep(p, old, new)
      /\ \A k \in DOMAIN new :
           (k \in DOMAIN old /\ new[k] = old[k]) \/ new[k] = Fresh
  BY <1>1, <1>3, <1>4 DEF RowStep
<1> QED
  BY <1>5 DEF new, rows, D, old

\* One row is set.
LEMMA SetRowStep ==
  ASSUME TypeInv, NEW p \in Processes, NEW k \in DOMAIN View(p).outbox,
         View(p).outbox[k].status = "PENDING", NEW row \in Rows, row # Fresh
  PROVE  LET old == mine[p].outbox
             new == Over([j \in {k} |-> row], old)
         IN /\ RowStep(p, old, new)
            /\ k \in DOMAIN new /\ new[k] = row
            /\ \A j \in DOMAIN new : j # k => j \in DOMAIN old /\ new[j] = old[j]
<1> DEFINE old == mine[p].outbox
           rows == [j \in {k} |-> row]
           new == Over(rows, old)
<1>1. {k} \subseteq Items \X Nat /\ IsFiniteSet({k})
  BY ViewType, FS_Singleton DEF IsTables, IsOutbox
<1>2. IsOutbox(old)
  BY DEF TypeInv, IsTables
<1>3. IsOutbox(rows) /\ DOMAIN rows = {k} /\ rows[k] = row
  BY <1>1 DEF IsOutbox
<1> HIDE DEF rows, old
<1>6. /\ IsOutbox(new) /\ DOMAIN new = DOMAIN rows \union DOMAIN old
      /\ \A j \in DOMAIN rows : new[j] = rows[j]
      /\ \A j \in DOMAIN old \ DOMAIN rows : new[j] = old[j]
  BY <1>2, <1>3, OverType
<1> HIDE DEF new
<1>4. /\ IsOutbox(new) /\ DOMAIN new = {k} \union DOMAIN old
      /\ new[k] = row /\ \A j \in DOMAIN old \ {k} : new[j] = old[j]
  BY <1>3, <1>6
<1> HIDE DEF new
<1>5. /\ RowStep(p, old, new) /\ k \in DOMAIN new /\ new[k] = row
      /\ \A j \in DOMAIN new : j # k => j \in DOMAIN old /\ new[j] = old[j]
  BY <1>4 DEF RowStep
<1> QED
  BY <1>5 DEF new, rows, old

\* A reconciliation leaves a pending row for every point that is wrong and a
\* completed one for every point that is right.
LEMMA ReconciledRows ==
  ASSUME TypeInv, NEW p \in Processes, NEW a \in Assets
  PROVE  LET old == mine[p].outbox
             new == Reconciled(p, a, old)
             seen == Over(new, db.outbox)
         IN /\ RowStep(p, old, new)
            /\ \A k \in DOMAIN new :
                 (k \in DOMAIN old /\ new[k] = old[k]) \/ new[k] \in {Fresh, Done}
            /\ \A i \in ItemsOf(a) : \E k \in DOMAIN seen :
                 /\ k[1] = i
                 /\ seen[k].status = IF Exact(i) THEN "COMPLETED" ELSE "PENDING"
<1> DEFINE old == mine[p].outbox
           view == View(p).outbox
           missed == {i \in ItemsOf(a) : ~ Exact(i) /\ RowsOf(view, i, "PENDING") = {}}
           unsaid == {i \in ItemsOf(a) : Exact(i) /\ RowsOf(view, i, "COMPLETED") = {}}
           said(i) == IF RowsOf(view, i, "PENDING") = {} THEN NewRow(i)
                      ELSE CHOOSE k \in RowsOf(view, i, "PENDING") : TRUE
           M == {NewRow(i) : i \in missed}
           U == {said(i) : i \in unsaid}
           fresh == [k \in M |-> Fresh]
           done == [k \in U |-> Done]
           new == Over(fresh, Over(done, old))
           seen == Over(new, db.outbox)
<1>1. new = Reconciled(p, a, old)
  BY DEF Reconciled, Done
<1>2. ItemsOf(a) \subseteq Items /\ missed \subseteq Items /\ unsaid \subseteq Items
  BY DEF Items
<1>3. IsOutbox(view) /\ IsOutbox(old) /\ IsOutbox(db.outbox) /\ view = Over(old, db.outbox)
  BY ViewType DEF TypeInv, IsTables
<1>4. M \subseteq Items \X Nat /\ IsFiniteSet(M) /\ \A k \in M : Unseen(k) /\ k[1] \in missed
  BY <1>2, NewRowsType
<1>5. ASSUME NEW i \in unsaid
      PROVE  /\ said(i) \in Items \X Nat /\ said(i)[1] = i
             /\ \/ Unseen(said(i))
                \/ said(i) \in DOMAIN view /\ view[said(i)].status = "PENDING"
  <2>1. CASE RowsOf(view, i, "PENDING") = {}
    BY <1>2, <2>1, NewRowIsNew DEF Unseen
  <2>2. CASE RowsOf(view, i, "PENDING") # {}
    <3>1. said(i) \in RowsOf(view, i, "PENDING")
      BY <2>2
    <3> QED
      BY <1>3, <3>1 DEF RowsOf, IsOutbox
  <2> QED
    BY <2>1, <2>2
<1>6. IsFiniteSet(U)
  <2> DEFINE u == [i \in unsaid |-> said(i)]
  <2>1. u \in Surjection(unsaid, U)
    BY DEF Surjection
  <2>2. IsFiniteSet(unsaid)
    BY <1>2, FS_Subset, BootstrapAssumption
  <2> QED
    BY <2>1, <2>2, FS_Surjection
<1> HIDE DEF said, unsaid
<1>7. U \subseteq Items \X Nat
  BY <1>5
<1>8. \A k \in U : /\ k[1] \in unsaid
                   /\ Unseen(k) \/ (k \in DOMAIN view /\ view[k].status = "PENDING")
  BY <1>5
<1>9. \A i \in unsaid : said(i) \in U /\ said(i)[1] = i
  BY <1>5
<1>10. \A i \in missed : NewRow(i) \in M /\ NewRow(i)[1] = i
  BY <1>2, NewRowIsNew
<1>11. /\ IsOutbox(fresh) /\ DOMAIN fresh = M
       /\ \A k \in M : fresh[k] = Fresh
       /\ IsOutbox(done) /\ DOMAIN done = U /\ \A k \in U : done[k] = Done
  BY <1>4, <1>6, <1>7, RowTypes DEF IsOutbox
<1>20. old = mine[p].outbox
  OBVIOUS
<1> HIDE DEF M, U, fresh, done, old
<1>12. /\ IsOutbox(new) /\ DOMAIN new = M \union U \union DOMAIN old
       /\ \A k \in M : new[k] = Fresh
       /\ \A k \in U \ M : new[k] = Done
       /\ \A k \in DOMAIN old \ (M \union U) : new[k] = old[k]
  <2> DEFINE both == Over(done, old)
  <2>1. /\ IsOutbox(both) /\ DOMAIN both = U \union DOMAIN old
        /\ \A k \in U : both[k] = done[k]
        /\ \A k \in DOMAIN old \ U : both[k] = old[k]
    BY ZenonT(60), <1>3, <1>11, OverType
  <2> HIDE DEF both
  <2>2. new = Over(fresh, both)
    BY DEF both
  <2>3. /\ IsOutbox(new) /\ DOMAIN new = DOMAIN fresh \union DOMAIN both
        /\ \A k \in DOMAIN fresh : new[k] = fresh[k]
        /\ \A k \in DOMAIN both \ DOMAIN fresh : new[k] = both[k]
    <3>1. IsOutbox(fresh) /\ IsOutbox(both)
      BY <1>11, <2>1
    <3>2. /\ IsOutbox(Over(fresh, both))
          /\ DOMAIN Over(fresh, both) = DOMAIN fresh \union DOMAIN both
          /\ \A k \in DOMAIN fresh : Over(fresh, both)[k] = fresh[k]
          /\ \A k \in DOMAIN both \ DOMAIN fresh : Over(fresh, both)[k] = both[k]
      BY <3>1, OverType
    <3> QED
      BY <2>2, <3>2
  <2> HIDE DEF new
  <2> QED
    BY <1>11, <2>1, <2>3
<1> HIDE DEF new
<1>13. RowStep(p, old, new)
  BY <1>4, <1>8, <1>12, RowTypes DEF RowStep
<1>14. /\ IsOutbox(seen) /\ DOMAIN seen = DOMAIN new \union DOMAIN db.outbox
       /\ \A k \in DOMAIN new : seen[k] = new[k]
       /\ \A k \in DOMAIN db.outbox \ DOMAIN new : seen[k] = db.outbox[k]
  <2>1. IsOutbox(new) /\ IsOutbox(db.outbox)
    BY <1>3, <1>12
  <2> QED
    BY <2>1, OverType
<1>15. /\ DOMAIN view = DOMAIN old \union DOMAIN db.outbox
       /\ \A k \in DOMAIN old : view[k] = old[k]
       /\ \A k \in DOMAIN db.outbox \ DOMAIN old : view[k] = db.outbox[k]
  <2>1. IsOutbox(old) /\ IsOutbox(db.outbox)
    BY <1>3
  <2>2. /\ DOMAIN Over(old, db.outbox) = DOMAIN old \union DOMAIN db.outbox
        /\ \A k \in DOMAIN old : Over(old, db.outbox)[k] = old[k]
        /\ \A k \in DOMAIN db.outbox \ DOMAIN old : Over(old, db.outbox)[k] = db.outbox[k]
    BY <2>1, OverType
  <2>3. view = Over(old, db.outbox)
    BY <1>3
  <2> HIDE DEF view
  <2> QED
    BY <2>2, <2>3
<1>16. \A k \in DOMAIN view : k \notin M \union U => k \in DOMAIN seen /\ seen[k] = view[k]
  BY <1>12, <1>14, <1>15
<1> HIDE DEF seen
<1>17. ASSUME NEW i \in ItemsOf(a)
       PROVE  \E k \in DOMAIN seen :
                k[1] = i /\ seen[k].status = IF Exact(i) THEN "COMPLETED" ELSE "PENDING"
  <2>1. CASE i \in missed
    <3>1. NewRow(i) \in DOMAIN seen /\ seen[NewRow(i)] = Fresh
      BY <1>10, <1>12, <1>14, <2>1
    <3> QED
      BY <1>10, <2>1, <3>1, RowTypes
  <2>2. CASE i \in unsaid
    <3>1. said(i) \in U /\ said(i)[1] = i
      BY <1>9, <2>2
    <3>2. said(i) \notin M
      BY <1>4, <2>2, <3>1 DEF unsaid
    <3>3. said(i) \in DOMAIN seen /\ seen[said(i)] = Done
      BY <1>12, <1>14, <3>1, <3>2
    <3> QED
      BY <2>2, <3>1, <3>3, RowTypes DEF unsaid
  <2>3. CASE Exact(i) /\ i \notin unsaid
    <3>1. PICK k \in RowsOf(view, i, "COMPLETED") : TRUE
      BY <2>3 DEF unsaid
    <3>2. k \in DOMAIN view /\ k[1] = i /\ view[k].status = "COMPLETED"
      BY <3>1 DEF RowsOf
    <3>3. k \notin M \union U
      BY <1>4, <1>8, <2>3, <3>2 DEF unsaid
    <3> QED
      BY <1>16, <2>3, <3>2, <3>3
  <2>4. CASE ~ Exact(i) /\ i \notin missed
    <3>1. PICK k \in RowsOf(view, i, "PENDING") : TRUE
      BY <2>4
    <3>2. k \in DOMAIN view /\ k[1] = i /\ view[k].status = "PENDING"
      BY <3>1 DEF RowsOf
    <3>3. k \notin M \union U
      BY <1>4, <1>8, <2>4, <3>2 DEF unsaid
    <3> QED
      BY <1>16, <2>4, <3>2, <3>3
  <2> QED
    BY <2>1, <2>2, <2>3, <2>4
<1>18. \A k \in DOMAIN new :
         (k \in DOMAIN old /\ new[k] = old[k]) \/ new[k] \in {Fresh, Done}
  BY <1>12
<1>19. seen = Over(new, db.outbox)
  BY DEF seen
<1> QED
  BY <1>1, <1>13, <1>17, <1>18, <1>19, <1>20

---------------------------------------------------------------------------
(* The types. *)

\* Tables of a session with other rows, or others stored and bound.
LEMMA TablesExcept ==
  ASSUME NEW t, IsTables(t)
  PROVE  /\ IsTables([t EXCEPT !.roots = TRUE])
         /\ [t EXCEPT !.roots = TRUE].outbox = t.outbox
         /\ \A a \in Assets : IsTables([t EXCEPT !.active = @ \union {a}])
<1>1. t \in Tables({t.outbox}) /\ IsOutbox(t.outbox)
  BY DEF IsTables
<1>2. [t EXCEPT !.roots = TRUE] \in Tables({t.outbox})
  BY <1>1 DEF Tables
<1>3. \A a \in Assets : [t EXCEPT !.active = @ \union {a}] \in Tables({t.outbox})
  BY <1>1 DEF Tables
<1>4. \A u \in Tables({t.outbox}) : u.outbox = t.outbox
  BY DEF Tables
<1> QED
  BY <1>1, <1>2, <1>3, <1>4 DEF IsTables

\* A process that writes its tables leaves those of the others.
LEMMA WriteType ==
  ASSUME TypeInv, NEW p \in Processes, NEW rows, IsTables(rows), Write(p, rows)
  PROVE  /\ \A q \in Processes : IsTables(mine'[q])
         /\ mine' = [q \in Processes |-> mine'[q]]
         /\ mine'[p] = rows /\ \A q \in Processes \ {p} : mine'[q] = mine[q]
BY DEF TypeInv, Write

\* What the steps of a seed write.
LEMMA IngestWrites ==
  ASSUME TypeInv, NEW p \in Processes, Ingest(p)
  PROVE  LET a == AssetAt(step[p])
         IN /\ step[p] \in DOMAIN Corpora /\ a = Corpora[step[p]][2] /\ a \in Assets
            /\ Write(p, mine'[p]) /\ IsTables(mine'[p])
            /\ mine'[p].roots = mine[p].roots /\ mine'[p].active = mine[p].active
            /\ mine'[p].stored = mine[p].stored \union {a}
            /\ mine'[p].bound = mine[p].bound \union {Corpora[step[p]]}
            /\ RowStep(p, mine[p].outbox, mine'[p].outbox)
            /\ \A k \in DOMAIN mine'[p].outbox :
                 \/ k \in DOMAIN mine[p].outbox /\ mine'[p].outbox[k] = mine[p].outbox[k]
                 \/ mine'[p].outbox[k] = Fresh
<1> DEFINE a == AssetAt(step[p])
           old == mine[p].outbox
           new == Over([k \in {NewRow(i) : i \in ItemsOf(a)} |-> Fresh], old)
           S == mine[p].stored \union {a}
           B == mine[p].bound \union {Corpora[step[p]]}
           u == [mine[p] EXCEPT !.stored = S, !.bound = B, !.outbox = new]
<1>1. /\ step[p] \in DOMAIN Corpora /\ a = Corpora[step[p]][2] /\ a \in Assets
      /\ Corpora[step[p]] \in Bindings
  <2>1. step[p] \in Nat /\ 1 <= step[p] /\ step[p] <= Len(Corpora)
    BY DEF Ingest, TypeInv, Seeding
  <2> QED
    BY <2>1, StepsType
<1>2. ItemsOf(a) \subseteq Items
  BY <1>1 DEF Items
<1>3. /\ RowStep(p, old, new)
      /\ \A k \in DOMAIN new :
           (k \in DOMAIN old /\ new[k] = old[k]) \/ new[k] = Fresh
  BY <1>2, IngestRows
<1>4. IsOutbox(new) /\ IsTables(mine[p])
  BY <1>3 DEF RowStep, TypeInv
<1>5. S \subseteq Assets /\ B \subseteq Bindings
  BY <1>1, <1>4 DEF IsTables, Tables
<1>6. Write(p, u) /\ mine'[p] = u
  BY DEF Ingest, Write, TypeInv
<1>9. u = [mine[p] EXCEPT !.stored = S, !.bound = B, !.outbox = new]
  OBVIOUS
<1> HIDE DEF new, a, S, B, u
<1>7. /\ IsTables(u) /\ u.outbox = new /\ u.roots = mine[p].roots
      /\ u.active = mine[p].active /\ u.stored = S /\ u.bound = B
  <2>1. mine[p] \in Tables({mine[p].outbox})
    BY <1>4 DEF IsTables
  <2>2. /\ u \in Tables({new}) /\ u.stored = S /\ u.bound = B /\ u.roots = mine[p].roots
        /\ u.active = mine[p].active
    BY <1>5, <1>9, <2>1 DEF Tables
  <2>3. u.outbox = new
    BY <2>2 DEF Tables
  <2> QED
    BY <1>4, <2>2, <2>3 DEF IsTables
<1>8. /\ Write(p, mine'[p]) /\ IsTables(mine'[p])
      /\ mine'[p].roots = mine[p].roots /\ mine'[p].active = mine[p].active
      /\ mine'[p].stored = mine[p].stored \union {a}
      /\ mine'[p].bound = mine[p].bound \union {Corpora[step[p]]}
      /\ RowStep(p, mine[p].outbox, mine'[p].outbox)
      /\ \A k \in DOMAIN mine'[p].outbox :
           \/ k \in DOMAIN mine[p].outbox /\ mine'[p].outbox[k] = mine[p].outbox[k]
           \/ mine'[p].outbox[k] = Fresh
  BY <1>3, <1>6, <1>7 DEF S, B
<1> QED
  BY <1>1, <1>8 DEF a

LEMMA ReconcileWrites ==
  ASSUME TypeInv, NEW p \in Processes, Reconcile(p), AssetAt(step[p]) \in View(p).active
  PROVE  LET a == AssetAt(step[p])
         IN /\ a \in Assets /\ BoundHere(p) \subseteq Bindings
            /\ Write(p, mine'[p]) /\ IsTables(mine'[p])
            /\ mine'[p].roots = mine[p].roots /\ mine'[p].active = mine[p].active
            /\ mine'[p].stored = mine[p].stored
            /\ mine'[p].bound = mine[p].bound \union BoundHere(p)
            /\ mine'[p].outbox = Reconciled(p, a, mine[p].outbox)
            /\ IsOutbox(Reconciled(p, a, mine[p].outbox))
<1> DEFINE a == AssetAt(step[p])
           old == mine[p].outbox
           new == Reconciled(p, a, old)
           B == mine[p].bound \union BoundHere(p)
           u == [mine[p] EXCEPT !.bound = B, !.outbox = new]
<1>1. a \in Assets
  BY ViewType DEF IsTables, Tables
<1>2. BoundHere(p) \subseteq Bindings
  <2>1. step[p] \in Nat /\ 1 <= step[p]
    BY DEF TypeInv, Seeding, Reconcile
  <2> QED
    BY <2>1, StepsType DEF BoundHere
<1>3. RowStep(p, old, new)
  BY <1>1, ReconciledRows
<1>4. IsOutbox(new) /\ IsTables(mine[p])
  BY <1>3 DEF RowStep, TypeInv
<1>5. B \subseteq Bindings
  BY <1>2, <1>4 DEF IsTables, Tables
<1>6. Write(p, u) /\ mine'[p] = u
  BY DEF Reconcile, Write, TypeInv
<1>7. u = [mine[p] EXCEPT !.bound = B, !.outbox = new]
  OBVIOUS
<1> HIDE DEF new, a, B, u
<1>8. /\ IsTables(u) /\ u.outbox = new /\ u.roots = mine[p].roots
      /\ u.active = mine[p].active /\ u.stored = mine[p].stored /\ u.bound = B
  <2>1. mine[p] \in Tables({mine[p].outbox})
    BY <1>4 DEF IsTables
  <2>2. /\ u \in Tables({new}) /\ u.bound = B /\ u.roots = mine[p].roots
        /\ u.active = mine[p].active /\ u.stored = mine[p].stored
    BY <1>5, <1>7, <2>1 DEF Tables
  <2>3. u.outbox = new
    BY <2>2 DEF Tables
  <2> QED
    BY <1>4, <2>2, <2>3 DEF IsTables
<1> QED
  BY <1>1, <1>2, <1>4, <1>6, <1>8 DEF a, B, new

LEMMA SetRowWrites ==
  ASSUME TypeInv, NEW p \in Processes, NEW k \in DOMAIN View(p).outbox, NEW row \in Rows,
         SetRow(p, k, row)
  PROVE  /\ Write(p, mine'[p]) /\ IsTables(mine'[p])
         /\ mine'[p].roots = mine[p].roots /\ mine'[p].active = mine[p].active
         /\ mine'[p].stored = mine[p].stored /\ mine'[p].bound = mine[p].bound
         /\ mine'[p].outbox = Over([j \in {k} |-> row], mine[p].outbox)
<1> DEFINE new == Over([j \in {k} |-> row], mine[p].outbox)
           u == [mine[p] EXCEPT !.outbox = new]
<1>1. IsTables(mine[p]) /\ IsOutbox(mine[p].outbox) /\ mine[p] \in Tables({mine[p].outbox})
  BY DEF TypeInv, IsTables
<1>2. IsOutbox([j \in {k} |-> row])
  BY ViewType, FS_Singleton DEF IsTables, IsOutbox
<1>3. IsOutbox(new)
  BY <1>1, <1>2, OverType
<1>4. Write(p, u) /\ mine'[p] = u
  BY DEF SetRow, Write, TypeInv
<1>5. u = [mine[p] EXCEPT !.outbox = new]
  OBVIOUS
<1> HIDE DEF new, u
<1>6. /\ u \in Tables({new}) /\ u.bound = mine[p].bound /\ u.roots = mine[p].roots
      /\ u.active = mine[p].active /\ u.stored = mine[p].stored
  BY <1>1, <1>5 DEF Tables
<1>7. u.outbox = new
  BY <1>6 DEF Tables
<1> QED
  BY <1>3, <1>4, <1>6, <1>7 DEF IsTables, new

LEMMA ActivateWrites ==
  ASSUME TypeInv, NEW p \in Processes, Activate(p), AssetAt(step[p]) \in Assets
  PROVE  LET a == AssetAt(step[p])
             done == \A k \in DOMAIN View(p).outbox :
                       k[1] \in Sections[a] => View(p).outbox[k] = Done
         IN /\ Write(p, mine'[p]) /\ IsTables(mine'[p])
            /\ mine'[p].roots = mine[p].roots /\ mine'[p].stored = mine[p].stored
            /\ mine'[p].bound = mine[p].bound /\ mine'[p].outbox = mine[p].outbox
            /\ mine'[p].active = IF done THEN mine[p].active \union {a} ELSE mine[p].active
<1> DEFINE a == AssetAt(step[p])
           done == \A k \in DOMAIN View(p).outbox :
                     k[1] \in Sections[a] => View(p).outbox[k] = Done
           u == [mine[p] EXCEPT !.active = @ \union {a}]
<1>1. mine[p] \in Tables({mine[p].outbox}) /\ IsTables(mine[p])
  BY DEF TypeInv, IsTables
<1>2. IF done THEN Write(p, u) /\ mine'[p] = u ELSE Write(p, mine[p]) /\ mine'[p] = mine[p]
  BY DEF Activate, Write, TypeInv, Done
<1>3. u = [mine[p] EXCEPT !.active = @ \union {a}]
  OBVIOUS
<1> HIDE DEF done, u
<1>4. /\ u \in Tables({mine[p].outbox}) /\ u.roots = mine[p].roots
      /\ u.stored = mine[p].stored /\ u.bound = mine[p].bound
      /\ u.active = mine[p].active \union {a}
  BY <1>1, <1>3 DEF Tables
<1>5. u.outbox = mine[p].outbox
  BY <1>4 DEF Tables
<1>6. IsTables(u)
  BY <1>1, <1>4, <1>5 DEF IsTables
<1>7. /\ Write(p, mine'[p]) /\ IsTables(mine'[p])
      /\ mine'[p].roots = mine[p].roots /\ mine'[p].stored = mine[p].stored
      /\ mine'[p].bound = mine[p].bound /\ mine'[p].outbox = mine[p].outbox
      /\ mine'[p].active = IF done THEN mine[p].active \union {a} ELSE mine[p].active
  BY <1>1, <1>2, <1>4, <1>5, <1>6
<1> QED
  BY <1>7 DEF done

LEMMA CreateWrites ==
  ASSUME TypeInv, NEW p \in Processes, CreateRoots(p), ~ db.roots
  PROVE  /\ Write(p, mine'[p]) /\ IsTables(mine'[p])
         /\ mine'[p].roots /\ mine'[p].stored = mine[p].stored
         /\ mine'[p].active = mine[p].active
         /\ mine'[p].bound = mine[p].bound /\ mine'[p].outbox = mine[p].outbox
<1> DEFINE u == [mine[p] EXCEPT !.roots = TRUE]
<1>1. mine[p] \in Tables({mine[p].outbox}) /\ IsTables(mine[p])
  BY DEF TypeInv, IsTables
<1>2. Write(p, u) /\ mine'[p] = u
  BY DEF CreateRoots, Write, TypeInv
<1>3. IsTables(u) /\ u.outbox = mine[p].outbox
  BY <1>1, TablesExcept
<1>4. /\ u.roots /\ u.stored = mine[p].stored /\ u.active = mine[p].active
      /\ u.bound = mine[p].bound
  BY <1>1 DEF Tables
<1> QED
  BY <1>2, <1>3, <1>4

---------------------------------------------------------------------------
\* The types are kept.

LEMMA TypeInit == Init => TypeInv
<1> SUFFICES ASSUME Init PROVE TypeInv
  OBVIOUS
<1>1. IsTables(NoRows)
  BY NoRowsType
<1>2. IsTables(Prepared)
  <2> DEFINE S == Items \X {1}
             o == [k \in S |-> Done]
  <2>1. IsFiniteSet(S) /\ S \subseteq Items \X Nat
    <3>1. IsFiniteSet({1})
      BY FS_Singleton
    <3>2. IsFiniteSet(Items \X {1})
      BY <3>1, FS_Product, BootstrapAssumption
    <3> QED
      BY <3>2
  <2>2. IsOutbox(o)
    BY <2>1, RowTypes DEF IsOutbox
  <2> HIDE DEF o
  <2>3. Prepared = [roots |-> TRUE, stored |-> Assets, active |-> Assets,
                    bound |-> Bindings, outbox |-> o]
    BY DEF Prepared, Done, o
  <2>4. Prepared \in Tables({o}) /\ Prepared.outbox = o
    BY <2>3 DEF Tables
  <2> QED
    BY <2>2, <2>4 DEF IsTables
<1>3. points \in [Items -> (SUBSET Cases) \union {None}]
  <2>1. \A i \in Items : Payload(Bindings, i) \in SUBSET Cases
    BY DEF Payload, BoundTo
  <2>2. Manifest \in [Items -> (SUBSET Cases) \union {None}]
    BY <2>1 DEF Manifest
  <2>3. points = Manifest \/ points = [i \in Items |-> None]
    BY DEF Init
  <2>4. [i \in Items |-> None] \in [Items -> (SUBSET Cases) \union {None}]
    OBVIOUS
  <2> QED
    BY <2>2, <2>3, <2>4
<1> QED
  BY <1>1, <1>2, <1>3 DEF Init, TypeInv, Places, Seeding

\* Exit of a process.
LEMMA ExitType ==
  ASSUME TypeInv, NEW p \in Processes, NEW r \in {"ready", "not_ready", "failed"},
         Exit(p, r), calm' \in [Processes -> BOOLEAN], ready' \in BOOLEAN
  PROVE  TypeInv'
<1>1. /\ \A q \in Processes : IsTables(mine'[q])
      /\ mine' = [q \in Processes |-> mine'[q]]
  BY NoRowsType, WriteType DEF Exit
<1>2. db' = db
  BY DEF Exit
<1> QED
  BY <1>1, <1>2 DEF Exit, Goto, TypeInv, Places, Seeding

\* A step of a seed.
LEMMA SeedType ==
  ASSUME TypeInv, NEW p \in Processes, Write(p, mine'[p]), IsTables(mine'[p]),
         \/ Goto(p, pc'[p]) /\ step' = step
              /\ \/ pc'[p] \in {"indexing", "repairing"} /\ pc[p] = "seeding"
                 \/ pc'[p] = pc[p]
         \/ Goto(p, "seeding") /\ step' = step /\ pc[p] = "creating"
         \/ NextStep(p) /\ pc[p] \in {"indexing", "repairing"},
         points' \in [Items -> (SUBSET Cases) \union {None}],
         calm' \in [Processes -> BOOLEAN],
         UNCHANGED <<db, facts, hardened, mode, missing, checked, passed, report, ready>>
  PROVE  TypeInv'
<1>1. /\ \A q \in Processes : IsTables(mine'[q])
      /\ mine' = [q \in Processes |-> mine'[q]]
  BY WriteType
<1>2. Steps \in Nat /\ 1 <= Steps
  BY StepsType
<1>3. /\ pc' \in [Processes -> Places] /\ step' \in [Processes -> Nat]
      /\ \A q \in Processes : pc'[q] \in Seeding =>
           step'[q] \in 1..Steps + 1 /\ (step'[q] = Steps + 1 <=> pc'[q] = "committing")
      /\ \A q \in Processes : pc'[q] = "creating" => step'[q] = 1
  BY SMTT(30), <1>2 DEF NextStep, Goto, TypeInv, Places, Seeding
<1> QED
  BY <1>1, <1>3 DEF TypeInv

\* Every step keeps the types.
LEMMA TypeNext == TypeInv /\ LockInv /\ [Next]_vars => TypeInv'
<1> SUFFICES ASSUME TypeInv, LockInv, [Next]_vars PROVE TypeInv'
  OBVIOUS
<1> USE DEF shared, own, bounds
<1>1. CASE UNCHANGED vars
  BY <1>1 DEF vars, TypeInv
<1>2. ASSUME NEW p \in Processes, Start(p) PROVE TypeInv'
  <2>1. calm' \in [Processes -> BOOLEAN] /\ ready' \in BOOLEAN
    BY <1>2 DEF Start, TypeInv
  <2>2. CASE Exit(p, "failed")
    BY <2>1, <2>2, ExitType
  <2>3. CASE ~ Exit(p, "failed")
    BY <1>2, <2>1, <2>3 DEF Start, Goto, TypeInv, Places, Seeding
  <2> QED
    BY <2>2, <2>3
<1>3. ASSUME NEW p \in Processes, Gate(p) PROVE TypeInv'
  <2>1. calm' \in [Processes -> BOOLEAN] /\ ready' \in BOOLEAN
    BY <1>3 DEF Gate, TypeInv
  <2>2. CASE hardened
    <3>1. PICK place \in {"rooting", "inspecting"} :
            /\ Goto(p, place)
            /\ UNCHANGED <<shared, mode, step, mine, missing, checked, passed, report>>
      BY <1>3, <2>2 DEF Gate
    <3>2. UNCHANGED <<calm, ready>>
      BY <1>3 DEF Gate
    <3> QED
      BY <3>1, <3>2 DEF Goto, TypeInv, Places, Seeding, Seeded
  <2> QED
    BY <1>3, <2>1, <2>2, ExitType DEF Gate
<1>4. ASSUME NEW p \in Processes, LookForRoots(p) PROVE TypeInv'
  <2>1. Steps \in Nat /\ 1 <= Steps
    BY StepsType
  <2> QED
    BY <1>4, <2>1 DEF LookForRoots, Goto, TypeInv, Places, Seeding
<1>5. ASSUME NEW p \in Processes, CreateRoots(p) PROVE TypeInv'
  <2>1. CASE db.roots
    BY <1>5, <2>1, ExitType DEF CreateRoots, TypeInv
  <2>2. CASE ~ db.roots
    <3>1. Write(p, mine'[p]) /\ IsTables(mine'[p])
      BY <1>5, <2>2, CreateWrites
    <3>2. step' = step /\ Goto(p, "seeding") /\ pc[p] = "creating"
      BY <1>5, <2>2 DEF CreateRoots
    <3> QED
      BY <1>5, <2>2, <3>1, <3>2, SeedType DEF CreateRoots, TypeInv
  <2> QED
    BY <2>1, <2>2
<1>6. ASSUME NEW p \in Processes, Ingest(p) PROVE TypeInv'
  <2>1. Write(p, mine'[p]) /\ IsTables(mine'[p])
    BY <1>6, IngestWrites
  <2>2. Goto(p, pc'[p]) /\ step' = step /\ pc'[p] = "indexing" /\ pc[p] = "seeding"
    BY <1>6 DEF Ingest, Goto, TypeInv
  <2> QED
    BY <1>6, <2>1, <2>2, SeedType DEF Ingest, TypeInv
<1>7. ASSUME NEW p \in Processes, Reconcile(p) PROVE TypeInv'
  <2>1. CASE AssetAt(step[p]) \in View(p).active
    <3>1. Write(p, mine'[p]) /\ IsTables(mine'[p])
      BY <1>7, <2>1, ReconcileWrites
    <3>2. Goto(p, pc'[p]) /\ step' = step /\ pc'[p] = "repairing" /\ pc[p] = "seeding"
      BY <1>7, <2>1 DEF Reconcile, Goto, TypeInv
    <3> QED
      BY <1>7, <2>1, <3>1, <3>2, SeedType DEF Reconcile, TypeInv
  <2>2. CASE AssetAt(step[p]) \notin View(p).active
    BY <1>7, <2>2, ExitType DEF Reconcile, TypeInv
  <2> QED
    BY <2>1, <2>2
<1>8. ASSUME NEW p \in Processes, NEW k \in DOMAIN View(p).outbox,
             Upsert(p, k) \/ UpsertFails(p, k)
      PROVE  TypeInv'
  <2>1. PICK row \in Rows : SetRow(p, k, row)
    <3>1. CASE Upsert(p, k)
      BY <3>1, RowTypes DEF Upsert, Done
    <3>2. CASE UpsertFails(p, k)
      <4>1. View(p).outbox[k].attempts \in Nat
        BY ViewType DEF IsTables, IsOutbox, Rows
      <4> QED
        BY <3>2, <4>1, RowTypes DEF UpsertFails, Rows
    <3> QED
      BY <1>8, <3>1, <3>2
  <2>2. Write(p, mine'[p]) /\ IsTables(mine'[p])
    BY <2>1, SetRowWrites
  <2>3. Goto(p, pc'[p]) /\ step' = step /\ pc'[p] = pc[p]
    BY <1>8 DEF Upsert, UpsertFails, Goto, TypeInv
  <2>4. points' \in [Items -> (SUBSET Cases) \union {None}]
    <3>1. Payload(View(p).bound, k[1]) \in SUBSET Cases
      BY DEF Payload, BoundTo
    <3>2. Written(p, k) \in [Items -> (SUBSET Cases) \union {None}]
      BY <3>1 DEF TypeInv, Written
    <3> QED
      BY <1>8, <3>2 DEF Upsert, UpsertFails, TypeInv
  <2>5. calm' \in [Processes -> BOOLEAN]
    BY ZenonT(60), <1>8 DEF Upsert, UpsertFails, TypeInv
  <2>6. UNCHANGED <<db, facts, hardened, mode, missing, checked, passed, report, ready>>
    BY <1>8 DEF Upsert, UpsertFails
  <2> QED
    BY <2>2, <2>3, <2>4, <2>5, <2>6, SeedType
<1>9. ASSUME NEW p \in Processes, Activate(p) PROVE TypeInv'
  <2>1. IsTables(mine'[p]) /\ Write(p, mine'[p])
    <3>1. CASE AssetAt(step[p]) \in Assets
      BY <1>9, <3>1, ActivateWrites
    <3>2. AssetAt(step[p]) \in Assets
      <4>1. step[p] \in 1..Steps
        BY <1>9, StepsType DEF Activate, TypeInv, Seeding
      <4> QED
        BY <4>1, StepsType
    <3> QED
      BY <3>1, <3>2
  <2> QED
    BY <1>9, <2>1, SeedType DEF Activate, TypeInv
<1>10. ASSUME NEW p \in Processes, Verify(p) PROVE TypeInv'
  <2>1. CASE /\ NextStep(p)
             /\ UNCHANGED <<shared, mode, mine, missing, checked, passed, report>>
    <3>1. Write(p, mine'[p]) /\ IsTables(mine'[p])
      BY <2>1 DEF Write, TypeInv
    <3> QED
      BY <1>10, <2>1, <3>1, SeedType DEF Verify, TypeInv
  <2>2. CASE Exit(p, "failed")
    BY <1>10, <2>2, ExitType DEF Verify, TypeInv
  <2> QED
    BY <1>10, <2>1, <2>2 DEF Verify
<1>11. ASSUME NEW p \in Processes, SeedRaises(p) \/ Kill(p) PROVE TypeInv'
  BY <1>11, ExitType DEF SeedRaises, Kill, TypeInv
<1>12. ASSUME NEW p \in Processes, CommitSeed(p) PROVE TypeInv'
  <2>1. /\ \A q \in Processes : IsTables(mine'[q])
        /\ mine' = [q \in Processes |-> mine'[q]]
    BY <1>12, NoRowsType, WriteType DEF CommitSeed
  <2>2. IsTables(db')
    BY <1>12, ViewType DEF CommitSeed
  <2> QED
    BY <1>12, <2>1, <2>2 DEF CommitSeed, Goto, TypeInv, Places, Seeding, Seeded
<1>13. ASSUME NEW p \in Processes, LookForFacts(p) PROVE TypeInv'
  BY <1>13 DEF LookForFacts, Goto, TypeInv, Places, Seeding, Seeded
<1>14. ASSUME NEW p \in Processes, CommitFacts(p) PROVE TypeInv'
  <2>1. facts' \in [Cases -> {0, 1}]
    BY <1>14 DEF CommitFacts, TypeInv, LockInv
  <2> QED
    BY <1>14, <2>1 DEF CommitFacts, Goto, TypeInv, Places, Seeding, Seeded
<1>15. ASSUME NEW p \in Processes, InspectPostgres(p) PROVE TypeInv'
  BY <1>15 DEF InspectPostgres, Goto, TypeInv, Places, Seeding, Seeded
<1>16. ASSUME NEW p \in Processes, InspectQdrant(p) \/ InspectMinio(p) PROVE TypeInv'
  <2>1. PICK store \in {"qdrant", "minio"}, ok \in BOOLEAN : InspectStore(p, store, ok)
    BY <1>16 DEF InspectQdrant, InspectMinio
  <2>2. CASE checked[p] = {}
    <3>1. /\ checked' = [checked EXCEPT ![p] = {store}]
          /\ passed' = [passed EXCEPT ![p] = @ /\ ok]
          /\ UNCHANGED <<shared, pc, mode, step, mine, missing, report, ready, calm>>
      BY <2>1, <2>2 DEF InspectStore
    <3>2. passed' \in [Processes -> BOOLEAN]
      BY <3>1 DEF TypeInv
    <3> QED
      BY <2>1, <3>1, <3>2 DEF TypeInv
  <2>3. CASE checked[p] # {}
    BY <2>1, <2>3, ExitType DEF InspectStore, TypeInv
  <2> QED
    BY <2>2, <2>3
<1>17. ASSUME Lose PROVE TypeInv'
  <2>1. points' \in [Items -> (SUBSET Cases) \union {None}]
    <3>1. points' = points \/ \E i \in Items : points' = [points EXCEPT ![i] = None]
      BY <1>17 DEF Lose
    <3> QED
      BY <3>1 DEF TypeInv
  <2>2. /\ hardened' \in BOOLEAN /\ calm' \in [Processes -> BOOLEAN] /\ ready' \in BOOLEAN
        /\ UNCHANGED <<db, facts, lock, own>>
    BY <1>17 DEF Lose, TypeInv
  <2> QED
    BY <2>1, <2>2 DEF TypeInv
<1> QED
  BY <1>1, <1>2, <1>3, <1>4, <1>5, <1>6, <1>7, <1>8, <1>9, <1>10, <1>11, <1>12, <1>13,
     <1>14, <1>15, <1>16, <1>17 DEF Next, Proceed, Retry
---------------------------------------------------------------------------
(* What a step changes. *)

\* What a process may do, in a row.
Act(p) ==
  \/ Start(p) \/ Gate(p) \/ LookForRoots(p) \/ CreateRoots(p) \/ Ingest(p) \/ Reconcile(p)
  \/ \E k \in DOMAIN View(p).outbox : Upsert(p, k) \/ UpsertFails(p, k)
  \/ Activate(p) \/ Verify(p) \/ SeedRaises(p) \/ CommitSeed(p)
  \/ LookForFacts(p) \/ CommitFacts(p)
  \/ InspectPostgres(p) \/ InspectQdrant(p) \/ InspectMinio(p) \/ Kill(p)

LEMMA ActOrLose ==
  ASSUME [Next]_vars
  PROVE  UNCHANGED vars \/ Lose \/ \E p \in Processes : Act(p)
BY DEF Next, Proceed, Retry, Act

\* An exit, and who may be calm after it.
LEMMA ExitKeeps ==
  ASSUME TypeInv, NEW p \in Processes, NEW r, Exit(p, r)
  PROVE  /\ pc'[p] = "idle" /\ mine'[p] = NoRows /\ report'[p] = r /\ checked'[p] = {}
         /\ lock' # p /\ (lock # p => lock' = lock)
         /\ UNCHANGED <<db, facts, points, objects, hardened>>
         /\ \A q \in Processes \ {p} :
              /\ pc'[q] = pc[q] /\ mode'[q] = mode[q] /\ step'[q] = step[q]
              /\ mine'[q] = mine[q] /\ missing'[q] = missing[q] /\ checked'[q] = checked[q]
              /\ passed'[q] = passed[q] /\ report'[q] = report[q]
<1>1. None # p
  BY BootstrapAssumption
<1> QED
  BY <1>1 DEF Exit, Goto, Write, TypeInv

\* What is another's stays, and nobody else becomes calm or has just looked.
LEMMA OthersKeep ==
  ASSUME TypeInv, NEW p \in Processes, Act(p), NEW q \in Processes \ {p}
  PROVE  /\ pc'[q] = pc[q] /\ mode'[q] = mode[q] /\ step'[q] = step[q]
         /\ mine'[q] = mine[q] /\ missing'[q] = missing[q] /\ checked'[q] = checked[q]
         /\ passed'[q] = passed[q] /\ report'[q] = report[q]
         /\ calm'[q] => calm[q]
         /\ q \in intact' => q \in intact
<1> USE DEF shared, own
<1> DEFINE Kept == /\ pc'[q] = pc[q] /\ mode'[q] = mode[q] /\ step'[q] = step[q]
                   /\ mine'[q] = mine[q] /\ missing'[q] = missing[q]
                   /\ checked'[q] = checked[q]
                   /\ passed'[q] = passed[q] /\ report'[q] = report[q]
<1>1. ASSUME NEW r, Exit(p, r) PROVE Kept
  BY <1>1, ExitKeeps
<1>2. calm'[q] => calm[q]
  BY DEF Act, Start, Gate, LookForRoots, CreateRoots, Ingest, Reconcile, Upsert, UpsertFails,
         Activate, Verify, SeedRaises, CommitSeed, LookForFacts, CommitFacts,
         InspectPostgres, InspectQdrant, InspectMinio, InspectStore, Kill, TypeInv
<1>10. q \in intact' => q \in intact
  BY DEF Act, Start, Gate, LookForRoots, CreateRoots, Ingest, Reconcile, Upsert, UpsertFails,
         Activate, Verify, SeedRaises, CommitSeed, LookForFacts, CommitFacts,
         InspectPostgres, InspectQdrant, InspectMinio, InspectStore, Kill
<1> HIDE DEF Kept
<1>3. CASE Start(p) \/ Gate(p) \/ LookForRoots(p) \/ CreateRoots(p)
  BY <1>1, <1>2, <1>10, <1>3
     DEF Kept, Start, Gate, LookForRoots, CreateRoots, Goto, Write, TypeInv
<1>4. CASE Ingest(p) \/ Reconcile(p)
  BY <1>1, <1>2, <1>10, <1>4 DEF Kept, Ingest, Reconcile, Goto, Write, TypeInv
<1>5. CASE \E k \in DOMAIN View(p).outbox : Upsert(p, k) \/ UpsertFails(p, k)
  BY <1>2, <1>10, <1>5 DEF Kept, Upsert, UpsertFails, SetRow, Goto, Write, TypeInv
<1>6. CASE Activate(p) \/ Verify(p)
  BY <1>1, <1>2, <1>10, <1>6 DEF Kept, Activate, Verify, NextStep, Goto, Write, TypeInv
<1>7. CASE SeedRaises(p) \/ Kill(p)
  BY <1>1, <1>2, <1>10, <1>7 DEF Kept, SeedRaises, Kill
<1>8. CASE CommitSeed(p) \/ LookForFacts(p) \/ CommitFacts(p) \/ InspectPostgres(p)
  BY <1>2, <1>10, <1>8 DEF Kept, CommitSeed, LookForFacts, CommitFacts, InspectPostgres,
     Goto, Write, TypeInv
<1>9. CASE InspectQdrant(p) \/ InspectMinio(p)
  BY <1>1, <1>2, <1>10, <1>9 DEF Kept, InspectQdrant, InspectMinio, InspectStore, TypeInv
<1> QED
  BY <1>3, <1>4, <1>5, <1>6, <1>7, <1>8, <1>9 DEF Act

\* Who changes what is shared.
LEMMA SharedKept ==
  ASSUME TypeInv, NEW p \in Processes, Act(p)
  PROVE  /\ db' = db \/ CommitSeed(p)
         /\ facts' = facts \/ CommitFacts(p)
         /\ \/ points' = points
            \/ \E k \in DOMAIN View(p).outbox : Claimable(p, k) /\ points' = Written(p, k)
         /\ objects \subseteq objects' /\ hardened' = hardened
<1> USE DEF shared, own
<1> DEFINE All == /\ db' = db \/ CommitSeed(p)
                  /\ facts' = facts \/ CommitFacts(p)
                  /\ \/ points' = points
                     \/ \E k \in DOMAIN View(p).outbox :
                          Claimable(p, k) /\ points' = Written(p, k)
                  /\ objects \subseteq objects' /\ hardened' = hardened
<1> SUFFICES All
  OBVIOUS
<1>1. ASSUME NEW r, Exit(p, r) PROVE All
  BY <1>1, ExitKeeps
<1>2. CASE UNCHANGED <<db, facts, points, objects, hardened>>
  BY <1>2
<1> HIDE DEF All
<1>3. CASE Start(p) \/ Gate(p) \/ LookForRoots(p) \/ CreateRoots(p)
  BY <1>1, <1>2, <1>3 DEF Start, Gate, LookForRoots, CreateRoots
<1>4. CASE Ingest(p) \/ Reconcile(p)
  BY <1>1, <1>2, <1>4 DEF All, Ingest, Reconcile
<1>5. CASE \E k \in DOMAIN View(p).outbox : Upsert(p, k) \/ UpsertFails(p, k)
  BY <1>5 DEF All, Upsert, UpsertFails
<1>6. CASE Activate(p) \/ Verify(p) \/ SeedRaises(p) \/ Kill(p)
  BY <1>1, <1>2, <1>6 DEF Activate, Verify, SeedRaises, Kill
<1>8. CASE CommitSeed(p) \/ LookForFacts(p) \/ CommitFacts(p) \/ InspectPostgres(p)
  BY <1>2, <1>8 DEF All, CommitSeed, LookForFacts, CommitFacts, InspectPostgres
<1>9. CASE InspectQdrant(p) \/ InspectMinio(p)
  BY <1>1, <1>2, <1>9 DEF InspectQdrant, InspectMinio, InspectStore
<1> QED
  BY <1>3, <1>4, <1>5, <1>6, <1>8, <1>9 DEF Act

---------------------------------------------------------------------------
\* What is ready stays ready.

\* Tables committed or bound whole stay so, and then every point written is the
\* manifest's.
LEMMA AssetsStay ==
  ASSUME TypeInv, NEW p \in Processes, Act(p), AssetsReady
  PROVE  AssetsReady'
<1>1. CASE CommitSeed(p)
  <2>1. db' = View(p)
    BY <1>1 DEF CommitSeed
  <2>2. mine[p].stored \subseteq Assets /\ mine[p].active \subseteq Assets
        /\ mine[p].bound \subseteq Bindings
    BY DEF TypeInv, IsTables, Tables
  <2> QED
    BY <2>1, <2>2, ViewType DEF AssetsReady
<1> QED
  BY <1>1, SharedKept DEF AssetsReady

LEMMA AllBound ==
  ASSUME TypeInv, NEW p \in Processes, AssetsReady
  PROVE  View(p).bound = Bindings
<1>1. mine[p].bound \subseteq Bindings
  BY DEF TypeInv, IsTables, Tables
<1>2. View(p).bound = Bindings \union mine[p].bound
  BY ViewType DEF AssetsReady
<1> QED
  BY <1>1, <1>2

LEMMA WrittenPoint ==
  ASSUME TypeInv, NEW p \in Processes, NEW k \in DOMAIN View(p).outbox,
         points' = Written(p, k)
  PROVE  /\ k[1] \in Items
         /\ \A i \in Items \ {k[1]} : points'[i] = points[i]
         /\ points'[k[1]] = Payload(View(p).bound, k[1])
<1>1. k[1] \in Items
  BY ViewType DEF IsTables, IsOutbox
<1> QED
  BY <1>1 DEF TypeInv, Written

LEMMA ExactStays ==
  ASSUME TypeInv, NEW p \in Processes, Act(p), AssetsReady
  PROVE  \A i \in Items : Exact(i) => Exact(i)'
<1>1. CASE points' = points
  BY <1>1 DEF Exact
<1>2. ASSUME NEW k \in DOMAIN View(p).outbox, points' = Written(p, k)
      PROVE  \A i \in Items : Exact(i) => Exact(i)'
  BY <1>2, WrittenPoint, AllBound DEF Exact, Manifest
<1> QED
  BY <1>1, <1>2, SharedKept

LEMMA LockNext == TypeInv /\ LockInv /\ [Next]_vars => LockInv'
<1> SUFFICES ASSUME TypeInv, LockInv, [Next]_vars PROVE LockInv'
  OBVIOUS
<1>1. CASE UNCHANGED vars \/ Lose
  BY <1>1 DEF vars, shared, own, Lose, LockInv
<1>2. ASSUME NEW p \in Processes, Act(p) PROVE LockInv'
  <2> USE DEF shared, own
  <2>1. ASSUME NEW q \in Processes \ {p}, pc'[q] = "inserting"
        PROVE  pc[q] = "inserting" /\ lock = q /\ missing[q] = {c \in Cases : facts[c] = 0}
               /\ missing'[q] = missing[q] /\ lock # p /\ lock # None
    BY <1>2, <2>1, OthersKeep, BootstrapAssumption DEF LockInv
  <2>2. lock' = lock \/ lock = p \/ lock = None
    BY <1>2, ExitKeeps DEF Act, Start, Gate, LookForRoots, CreateRoots, Ingest, Reconcile,
       Upsert, UpsertFails, Activate, Verify, SeedRaises, CommitSeed, LookForFacts,
       CommitFacts, InspectPostgres, InspectQdrant, InspectMinio, InspectStore, Kill,
       LockInv
  <2>3. facts' = facts \/ lock = p
    BY <1>2, SharedKept DEF LockInv, CommitFacts
  <2>4. ASSUME pc'[p] = "inserting"
        PROVE  lock' = p /\ missing'[p] = {c \in Cases : facts'[c] = 0}
    <3>1. LookForFacts(p)
      BY ZenonT(60), <1>2, <2>4, ExitKeeps DEF Act, Start, Gate, LookForRoots, CreateRoots, Ingest,
         Reconcile, Upsert, UpsertFails, Activate, Verify, NextStep, SeedRaises, CommitSeed,
         CommitFacts, InspectPostgres, InspectQdrant, InspectMinio, InspectStore, Kill,
         Goto, TypeInv, Claimable
    <3> QED
      BY <3>1 DEF LookForFacts, TypeInv
  <2> QED
    BY <2>1, <2>2, <2>3, <2>4 DEF LockInv
<1> QED
  BY <1>1, <1>2, ActOrLose

LEMMA FactsStay ==
  ASSUME TypeInv, LockInv, NEW p \in Processes, Act(p), FactsOnce
  PROVE  FactsOnce'
<1>1. CASE CommitFacts(p)
  BY <1>1 DEF CommitFacts, LockInv, FactsOnce
<1> QED
  BY <1>1, SharedKept DEF FactsOnce

LEMMA InspectNext == TypeInv /\ LockInv /\ InspectInv /\ [Next]_vars => InspectInv'
<1> SUFFICES ASSUME TypeInv, LockInv, InspectInv, [Next]_vars PROVE InspectInv'
  OBVIOUS
<1> USE DEF shared, own
<1>1. CASE UNCHANGED vars
  BY <1>1 DEF vars, InspectInv, FactsOnce, AssetsReady, AllStored, AllExact, Exact
<1>2. CASE Lose
  BY <1>2 DEF Lose, InspectInv, FactsOnce, AssetsReady
<1>3. ASSUME NEW p \in Processes, Act(p) PROVE InspectInv'
  <2>1. /\ FactsOnce => FactsOnce'
        /\ AssetsReady => AssetsReady'
        /\ AllStored => AllStored'
        /\ AssetsReady /\ AllExact => AllExact'
    BY <1>3, FactsStay, AssetsStay, ExactStays, SharedKept DEF AllStored, AllExact
  <2> DEFINE Good(q) ==
        /\ pc[q] # "inspecting_stores" => checked[q] = {}
        /\ pc[q] = "inspecting_stores" /\ passed[q] =>
             /\ FactsOnce /\ AssetsReady
             /\ q \in intact => /\ "minio" \in checked[q] => AllStored
                                /\ "qdrant" \in checked[q] => AllExact
  <2>2. \A q \in Processes : Good(q)
    BY DEF InspectInv
  <2>3. ASSUME NEW q \in Processes \ {p} PROVE Good(q)'
    BY <1>3, <2>1, <2>2, <2>3, OthersKeep
  <2>4. Good(p)'
    <3>1. ASSUME NEW r, Exit(p, r) PROVE Good(p)'
      BY <3>1, ExitKeeps
    <3>2. CASE /\ pc[p] # "inspecting_stores" /\ pc'[p] # "inspecting_stores"
               /\ checked' = checked
      BY <2>2, <3>2
    <3>3. CASE InspectPostgres(p)
      <4>1. /\ checked'[p] = {}
            /\ passed'[p] => FactsOnce /\ AssetsReady
        BY <2>2, <3>3 DEF InspectPostgres, TypeInv
      <4> QED
        BY <2>1, <3>3, <4>1 DEF InspectPostgres, Goto, TypeInv
    <3>4. ASSUME NEW store \in {"qdrant", "minio"}, NEW ok \in BOOLEAN,
                 InspectStore(p, store, ok), UNCHANGED <<points, objects>>,
                 ok => IF store = "qdrant" THEN AllExact ELSE AllStored
          PROVE  Good(p)'
      <4>1. CASE checked[p] = {}
        <5>1. /\ checked'[p] = {store}
              /\ passed'[p] => passed[p] /\ ok
              /\ pc'[p] = "inspecting_stores" /\ pc[p] = "inspecting_stores"
          BY <3>4, <4>1 DEF InspectStore, TypeInv
        <5> QED
          BY <2>1, <2>2, <3>4, <5>1
      <4>2. CASE checked[p] # {}
        BY <3>1, <3>4, <4>2 DEF InspectStore
      <4> QED
        BY <4>1, <4>2
    <3> HIDE DEF Good
    <3>5. CASE Start(p) \/ Gate(p) \/ LookForRoots(p) \/ CreateRoots(p)
      BY <3>1, <3>2, <3>5 DEF Start, Gate, LookForRoots, CreateRoots, Goto, TypeInv
    <3>6. CASE Ingest(p) \/ Reconcile(p)
      BY <3>1, <3>2, <3>6 DEF Ingest, Reconcile, Goto, TypeInv
    <3>7. CASE \E k \in DOMAIN View(p).outbox : Upsert(p, k) \/ UpsertFails(p, k)
      BY <3>2, <3>7 DEF Upsert, UpsertFails, Claimable
    <3>8. CASE Activate(p) \/ Verify(p)
      BY <3>1, <3>2, <3>8 DEF Activate, Verify, NextStep, Goto, TypeInv
    <3>9. CASE SeedRaises(p) \/ Kill(p)
      BY <3>1, <3>9 DEF SeedRaises, Kill
    <3>10. CASE CommitSeed(p) \/ LookForFacts(p) \/ CommitFacts(p)
      BY <3>2, <3>10 DEF CommitSeed, LookForFacts, CommitFacts, Goto, TypeInv
    <3>11. CASE InspectQdrant(p) \/ InspectMinio(p)
      <4>1. UNCHANGED <<points, objects>>
        BY <3>11, ExitKeeps DEF InspectQdrant, InspectMinio, InspectStore
      <4> QED
        BY <3>4, <3>11, <4>1 DEF InspectQdrant, InspectMinio, AllExact, AllStored
    <3> QED
      BY <1>3, <3>3, <3>5, <3>6, <3>7, <3>8, <3>9, <3>10, <3>11 DEF Act
  <2> HIDE DEF Good
  <2>5. \A q \in Processes : Good(q)'
    BY <2>3, <2>4
  <2> QED
    BY <2>5 DEF Good, InspectInv
<1> QED
  BY <1>1, <1>2, <1>3, ActOrLose

LEMMA ReadyNext == ReadyInv /\ [Next]_vars => ReadyStays'
<1> SUFFICES ASSUME ReadyInv, [Next]_vars PROVE ReadyStays'
  OBVIOUS
<1> USE DEF ReadyInv, shared, own
<1>1. CASE UNCHANGED vars
  BY <1>1 DEF vars, ReadyStays, FactsOnce, AssetsReady, Exact
<1>2. CASE Lose
  BY <1>2 DEF Lose, ReadyStays
<1>3. ASSUME NEW p \in Processes, Act(p) PROVE ReadyStays'
  <2> DEFINE Whole == FactsOnce /\ AssetsReady /\ AllStored /\ AllExact
  <2>1. Whole => Whole'
    BY <1>3, FactsStay, AssetsStay, ExactStays, SharedKept DEF AllStored, AllExact
  <2>2. ASSUME NEW store \in {"qdrant", "minio"}, NEW ok \in BOOLEAN,
               InspectStore(p, store, ok),
               ok => IF store = "qdrant" THEN AllExact ELSE AllStored
        PROVE  ready' => ready \/ Whole
    <3>1. CASE checked[p] # {} /\ passed[p] /\ ok /\ p \in intact
      <4>1. pc[p] = "inspecting_stores" /\ store \notin checked[p]
        BY <2>2 DEF InspectStore
      <4>2. checked[p] \subseteq {"qdrant", "minio"}
        BY DEF TypeInv
      <4>3. IF store = "qdrant" THEN "minio" \in checked[p] ELSE "qdrant" \in checked[p]
        BY <3>1, <4>1, <4>2
      <4> QED
        BY <2>2, <3>1, <4>1, <4>3 DEF InspectInv
    <3> QED
      BY <2>2, <3>1 DEF InspectStore
  <2> HIDE DEF Whole
  <2>3. ready' => ready \/ Whole
    <3>1. CASE InspectQdrant(p) \/ InspectMinio(p)
      BY <2>2, <3>1 DEF InspectQdrant, InspectMinio, AllExact, AllStored
    <3>2. CASE ~ (InspectQdrant(p) \/ InspectMinio(p))
      BY <1>3, <3>2 DEF Act, Start, Gate, LookForRoots, CreateRoots, Ingest, Reconcile,
         Upsert, UpsertFails, Activate, Verify, SeedRaises, CommitSeed, LookForFacts,
         CommitFacts, InspectPostgres, Kill
    <3> QED
      BY <3>1, <3>2
  <2>4. ready => Whole
    BY DEF ReadyStays, Whole, AllStored, AllExact
  <2>5. ready' => Whole'
    BY <2>1, <2>3, <2>4
  <2> QED
    BY <2>5 DEF Whole, ReadyStays, AllStored, AllExact
<1> QED
  BY <1>1, <1>2, <1>3, ActOrLose

LEMMA ReadyInit == Init => ReadyInv
<1> SUFFICES ASSUME Init PROVE ReadyInv
  OBVIOUS
<1> QED
  BY TypeInit DEF Init, ReadyInv, LockInv, InspectInv, ReadyStays

\* What any ready report found, of a check alone too and of a preparation beside
\* which others failed, stays as long as nothing is lost.  The seed of another
\* process is added to tables that are whole, every point written from whole
\* bindings is the manifest's, and what the lock holder inserts is what is
\* missing still; what a report has inspected holds while it goes on, unless
\* something is lost under it.
THEOREM ReadyIsKept == Spec => []ReadyStays
<1>1. Init => ReadyInv
  BY ReadyInit
<1>2. ReadyInv /\ [Next]_vars => ReadyInv'
  BY TypeNext, LockNext, InspectNext, ReadyNext DEF ReadyInv
<1>3. ReadyInv => ReadyStays
  BY DEF ReadyInv
<1> QED
  BY <1>1, <1>2, <1>3, PTL DEF Spec

---------------------------------------------------------------------------
(* What a session sees, and how a seed moves on. *)

LEMMA ViewRows ==
  ASSUME TypeInv, NEW p \in Processes
  PROVE  /\ DOMAIN View(p).outbox = DOMAIN mine[p].outbox \union DOMAIN db.outbox
         /\ \A k \in DOMAIN mine[p].outbox : View(p).outbox[k] = mine[p].outbox[k]
         /\ \A k \in DOMAIN db.outbox \ DOMAIN mine[p].outbox :
              View(p).outbox[k] = db.outbox[k]
         /\ \A k \in DOMAIN View(p).outbox : k \in Items \X Nat /\ View(p).outbox[k] \in Rows
<1>1. IsOutbox(mine[p].outbox) /\ IsOutbox(db.outbox)
  BY DEF TypeInv, IsTables
<1>2. View(p).outbox = Over(mine[p].outbox, db.outbox) /\ IsOutbox(View(p).outbox)
  BY ViewType DEF IsTables
<1>3. /\ DOMAIN Over(mine[p].outbox, db.outbox) =
           DOMAIN mine[p].outbox \union DOMAIN db.outbox
      /\ \A k \in DOMAIN mine[p].outbox :
           Over(mine[p].outbox, db.outbox)[k] = mine[p].outbox[k]
      /\ \A k \in DOMAIN db.outbox \ DOMAIN mine[p].outbox :
           Over(mine[p].outbox, db.outbox)[k] = db.outbox[k]
  BY <1>1, OverType
<1>4. \A k \in DOMAIN View(p).outbox : k \in Items \X Nat /\ View(p).outbox[k] \in Rows
  BY <1>2 DEF IsOutbox
<1> QED
  BY <1>2, <1>3, <1>4

\* The same of the state that follows.
LEMMA ViewThen ==
  ASSUME TypeInv', NEW p \in Processes
  PROVE  /\ View(p)'.roots = (db'.roots \/ mine'[p].roots)
         /\ View(p)'.stored = db'.stored \union mine'[p].stored
         /\ View(p)'.active = db'.active \union mine'[p].active
         /\ View(p)'.bound = db'.bound \union mine'[p].bound
         /\ DOMAIN View(p)'.outbox = DOMAIN mine'[p].outbox \union DOMAIN db'.outbox
         /\ \A k \in DOMAIN mine'[p].outbox : View(p)'.outbox[k] = mine'[p].outbox[k]
         /\ \A k \in DOMAIN db'.outbox \ DOMAIN mine'[p].outbox :
              View(p)'.outbox[k] = db'.outbox[k]
<1>1. IsOutbox(mine'[p].outbox) /\ IsOutbox(db'.outbox)
  BY DEF TypeInv, IsTables
<1>2. /\ View(p)'.outbox = Over(mine'[p].outbox, db'.outbox)
      /\ View(p)'.roots = (db'.roots \/ mine'[p].roots)
      /\ View(p)'.stored = db'.stored \union mine'[p].stored
      /\ View(p)'.active = db'.active \union mine'[p].active
      /\ View(p)'.bound = db'.bound \union mine'[p].bound
  BY DEF View
<1>3. /\ DOMAIN Over(mine'[p].outbox, db'.outbox) =
           DOMAIN mine'[p].outbox \union DOMAIN db'.outbox
      /\ \A k \in DOMAIN mine'[p].outbox :
           Over(mine'[p].outbox, db'.outbox)[k] = mine'[p].outbox[k]
      /\ \A k \in DOMAIN db'.outbox \ DOMAIN mine'[p].outbox :
           Over(mine'[p].outbox, db'.outbox)[k] = db'.outbox[k]
  BY <1>1, OverType
<1> QED
  BY <1>2, <1>3

\* A step after which a process seeds.
LEMMA SeedMoves ==
  ASSUME TypeInv, NEW p \in Processes, Act(p), pc'[p] \in Seeding
  PROVE  /\ db' = db /\ pc[p] \in Seeding \union {"rooting", "creating"}
         /\ pc[p] = "rooting" => db.roots /\ mine'[p] = mine[p]
         /\ pc[p] = "creating" =>
              ~ db.roots /\ mine'[p].roots /\ \A q \in Processes : ~ mine[q].roots
         /\ pc[p] \in Seeding => mine'[p].roots = mine[p].roots
         /\ mine[p].stored \subseteq mine'[p].stored
         /\ mine[p].active \subseteq mine'[p].active
         /\ mine[p].bound \subseteq mine'[p].bound
         /\ RowStep(p, mine[p].outbox, mine'[p].outbox)
         /\ \/ \E k \in DOMAIN View(p).outbox : UpsertFails(p, k)
            \/ \A k \in DOMAIN mine'[p].outbox :
                 \/ k \in DOMAIN mine[p].outbox /\ mine'[p].outbox[k] = mine[p].outbox[k]
                 \/ mine'[p].outbox[k] \in {Fresh, Done}
         /\ mine'[p].stored \subseteq mine[p].stored \union objects'
<1> DEFINE Moved ==
      /\ db' = db /\ pc[p] \in Seeding \union {"rooting", "creating"}
      /\ pc[p] = "rooting" => db.roots /\ mine'[p] = mine[p]
      /\ pc[p] = "creating" =>
           ~ db.roots /\ mine'[p].roots /\ \A q \in Processes : ~ mine[q].roots
      /\ pc[p] \in Seeding => mine'[p].roots = mine[p].roots
      /\ mine[p].stored \subseteq mine'[p].stored
      /\ mine[p].active \subseteq mine'[p].active
      /\ mine[p].bound \subseteq mine'[p].bound
      /\ RowStep(p, mine[p].outbox, mine'[p].outbox)
      /\ \/ \E k \in DOMAIN View(p).outbox : UpsertFails(p, k)
         \/ \A k \in DOMAIN mine'[p].outbox :
              \/ k \in DOMAIN mine[p].outbox /\ mine'[p].outbox[k] = mine[p].outbox[k]
              \/ mine'[p].outbox[k] \in {Fresh, Done}
      /\ mine'[p].stored \subseteq mine[p].stored \union objects'
<1> SUFFICES Moved
  OBVIOUS
<1> USE DEF shared, own
<1>1. RowStep(p, mine[p].outbox, mine[p].outbox)
  BY DEF RowStep, TypeInv, IsTables
<1>2. ASSUME NEW r, Exit(p, r) PROVE FALSE
  BY <1>2, ExitKeeps DEF Seeding
<1>3. CASE Start(p) \/ Gate(p) \/ CommitSeed(p) \/ LookForFacts(p) \/ CommitFacts(p)
  BY <1>2, <1>3 DEF Start, Gate, CommitSeed, LookForFacts, CommitFacts, Goto, TypeInv, Seeding
<1>4. CASE InspectPostgres(p) \/ InspectQdrant(p) \/ InspectMinio(p)
  BY <1>2, <1>4 DEF InspectPostgres, InspectQdrant, InspectMinio, InspectStore, Goto, TypeInv,
     Seeding
<1>5. CASE SeedRaises(p) \/ Kill(p)
  BY <1>2, <1>5 DEF SeedRaises, Kill
<1>6. CASE LookForRoots(p)
  BY <1>1, <1>6 DEF LookForRoots, Goto, TypeInv, Seeding
<1>7. CASE CreateRoots(p)
  <2>1. ~ db.roots /\ db' = db /\ pc[p] = "creating"
        /\ \A q \in Processes : ~ mine[q].roots
    BY <1>2, <1>7 DEF CreateRoots
  <2> QED
    BY <1>1, <1>7, <2>1, CreateWrites DEF Seeding
<1>8. CASE Ingest(p)
  BY <1>8, IngestWrites DEF Ingest, Seeding
<1>9. CASE Reconcile(p)
  <2>1. /\ AssetAt(step[p]) \in View(p).active /\ db' = db /\ pc[p] = "seeding"
    BY <1>2, <1>9 DEF Reconcile
  <2>2. AssetAt(step[p]) \in Assets
    BY <2>1, ViewType DEF IsTables, Tables
  <2>3. RowStep(p, mine[p].outbox, Reconciled(p, AssetAt(step[p]), mine[p].outbox))
    BY <2>2, ReconciledRows
  <2>4. /\ mine'[p].outbox = Reconciled(p, AssetAt(step[p]), mine[p].outbox)
        /\ mine'[p].stored = mine[p].stored /\ mine'[p].active = mine[p].active
        /\ mine[p].bound \subseteq mine'[p].bound /\ mine'[p].roots = mine[p].roots
    BY <1>9, <2>1, ReconcileWrites
  <2>5. \A k \in DOMAIN mine'[p].outbox :
          \/ k \in DOMAIN mine[p].outbox /\ mine'[p].outbox[k] = mine[p].outbox[k]
          \/ mine'[p].outbox[k] \in {Fresh, Done}
    <3>1. \A k \in DOMAIN Reconciled(p, AssetAt(step[p]), mine[p].outbox) :
            \/ /\ k \in DOMAIN mine[p].outbox
               /\ Reconciled(p, AssetAt(step[p]), mine[p].outbox)[k] = mine[p].outbox[k]
            \/ Reconciled(p, AssetAt(step[p]), mine[p].outbox)[k] \in {Fresh, Done}
      BY <2>2, ReconciledRows
    <3> QED
      BY <2>4, <3>1
  <2> QED
    BY <2>1, <2>3, <2>4, <2>5 DEF Seeding
<1>10. ASSUME NEW k \in DOMAIN View(p).outbox, Upsert(p, k) \/ UpsertFails(p, k) PROVE Moved
  <2>1. PICK row \in Rows : SetRow(p, k, row) /\ row # Fresh
    <3>1. CASE Upsert(p, k)
      BY <3>1, RowTypes DEF Upsert, Done
    <3>2. CASE UpsertFails(p, k)
      <4>1. View(p).outbox[k].attempts \in Nat
        BY ViewRows DEF Rows
      <4> QED
        BY <3>2, <4>1, RowTypes DEF UpsertFails, Rows, Fresh, Ended
    <3> QED
      BY <1>10, <3>1, <3>2
  <2>2. View(p).outbox[k].status = "PENDING" /\ db' = db
        /\ pc[p] \in {"indexing", "repairing"}
    BY <1>10 DEF Upsert, UpsertFails, Claimable
  <2>3. RowStep(p, mine[p].outbox, Over([j \in {k} |-> row], mine[p].outbox))
    BY <2>1, <2>2, SetRowStep
  <2>4. /\ mine'[p].outbox = Over([j \in {k} |-> row], mine[p].outbox)
        /\ mine'[p].stored = mine[p].stored /\ mine'[p].active = mine[p].active
        /\ mine'[p].bound = mine[p].bound /\ mine'[p].roots = mine[p].roots
    BY <2>1, SetRowWrites
  <2>5. \/ UpsertFails(p, k)
        \/ \A j \in DOMAIN mine'[p].outbox :
             \/ j \in DOMAIN mine[p].outbox /\ mine'[p].outbox[j] = mine[p].outbox[j]
             \/ mine'[p].outbox[j] \in {Fresh, Done}
    <3> SUFFICES ASSUME Upsert(p, k), NEW j \in DOMAIN mine'[p].outbox
                 PROVE  \/ /\ j \in DOMAIN mine[p].outbox
                           /\ mine'[p].outbox[j] = mine[p].outbox[j]
                        \/ mine'[p].outbox[j] \in {Fresh, Done}
      BY <1>10
    <3>1. SetRow(p, k, Done)
      BY DEF Upsert, Done
    <3>2. mine'[p].outbox = Over([x \in {k} |-> Done], mine[p].outbox)
      BY <3>1, RowTypes, SetRowWrites
    <3>3. /\ Over([x \in {k} |-> Done], mine[p].outbox)[k] = Done
          /\ \A i \in DOMAIN Over([x \in {k} |-> Done], mine[p].outbox) : i # k =>
               /\ i \in DOMAIN mine[p].outbox
               /\ Over([x \in {k} |-> Done], mine[p].outbox)[i] = mine[p].outbox[i]
      BY <2>2, RowTypes, SetRowStep
    <3> QED
      BY <3>2, <3>3
  <2> QED
    BY <1>10, <2>2, <2>3, <2>4, <2>5 DEF Seeding
<1>11. CASE Activate(p)
  <2>1. AssetAt(step[p]) \in Assets
    <3>1. step[p] \in 1..Steps
      BY <1>11, StepsType DEF Activate, TypeInv, Seeding
    <3> QED
      BY <3>1, StepsType
  <2>2. pc[p] = "indexing" /\ db' = db
    BY <1>11 DEF Activate
  <2> QED
    BY <1>1, <1>11, <2>1, <2>2, ActivateWrites DEF Seeding
<1>12. CASE Verify(p)
  <2>1. pc[p] = "repairing" /\ db' = db /\ mine' = mine
    BY <1>2, <1>12 DEF Verify
  <2> QED
    BY <1>1, <2>1 DEF Seeding
<1> HIDE DEF Moved
<1> QED
  BY <1>3, <1>4, <1>5, <1>6, <1>7, <1>8, <1>9, <1>10, <1>11, <1>12 DEF Act

\* A step after which it does not.
LEMMA SeedLeaves ==
  ASSUME TypeInv, NEW p \in Processes, Act(p), pc'[p] \notin Seeding
  PROVE  mine'[p] = NoRows \/ (mine'[p] = mine[p] /\ pc[p] \notin Seeding)
<1> USE DEF shared, own
<1>1. ASSUME NEW r, Exit(p, r) PROVE mine'[p] = NoRows
  BY <1>1, ExitKeeps
<1>2. CASE Start(p) \/ Gate(p) \/ LookForRoots(p) \/ CreateRoots(p)
  BY <1>1, <1>2 DEF Start, Gate, LookForRoots, CreateRoots, Goto, TypeInv, Seeding
<1>3. CASE Ingest(p) \/ Reconcile(p) \/ SeedRaises(p) \/ Kill(p)
  BY <1>1, <1>3 DEF Ingest, Reconcile, SeedRaises, Kill, Goto, TypeInv, Seeding
<1>4. CASE \E k \in DOMAIN View(p).outbox : Upsert(p, k) \/ UpsertFails(p, k)
  BY <1>4 DEF Upsert, UpsertFails, Claimable, Seeding
<1>5. CASE Activate(p) \/ Verify(p)
  BY <1>1, <1>5 DEF Activate, Verify, NextStep, Goto, TypeInv, Seeding
<1>6. CASE CommitSeed(p)
  BY <1>6 DEF CommitSeed, Write, TypeInv
<1>7. CASE LookForFacts(p) \/ CommitFacts(p) \/ InspectPostgres(p)
  BY <1>7 DEF LookForFacts, CommitFacts, InspectPostgres, Seeding
<1>8. CASE InspectQdrant(p) \/ InspectMinio(p)
  BY <1>1, <1>8 DEF InspectQdrant, InspectMinio, InspectStore, Seeding
<1> QED
  BY <1>2, <1>3, <1>4, <1>5, <1>6, <1>7, <1>8 DEF Act

\* What a seed sees grows.
LEMMA ViewGrows ==
  ASSUME TypeInv, TypeInv', NEW q \in Processes, Act(q), NEW p \in Processes,
         pc'[p] \in Seeding
  PROVE  /\ View(p).stored \subseteq View(p)'.stored
         /\ View(p).active \subseteq View(p)'.active
         /\ View(p).bound \subseteq View(p)'.bound
<1>1. CASE p = q
  BY <1>1, SeedMoves, ViewType, ViewThen
<1>2. CASE p # q
  <2>1. mine'[p] = mine[p]
    BY <1>2, OthersKeep
  <2>2. db' = db \/ db' = View(q)
    BY SharedKept DEF CommitSeed
  <2>3. /\ db.stored \subseteq db'.stored /\ db.active \subseteq db'.active
        /\ db.bound \subseteq db'.bound
    BY <2>2, ViewType
  <2> QED
    BY <2>1, <2>3, ViewType, ViewThen
<1> QED
  BY <1>1, <1>2

---------------------------------------------------------------------------
\* The roots.

LEMMA CommitsWhole ==
  ASSUME TypeInv, RootsInv, StepInv, NEW p \in Processes, CommitSeed(p)
  PROVE  db'.roots /\ AssetsReady'
<1>1. pc[p] = "committing" /\ db' = View(p) /\ step[p] = Steps + 1
  BY DEF CommitSeed, TypeInv, Seeding
<1>2. Before(p, Steps + 1)
  BY <1>1 DEF StepInv, StepOk, Seeding
<1>3. \A m \in 1..Len(Corpora) : /\ Corpora[m] \in View(p).bound
                               /\ Corpora[m][2] \in View(p).stored
  BY <1>2, StepsType DEF Before
<1>4. \A m \in 1..Len(Finals) : Finals[m] \in View(p).active
  <2> SUFFICES ASSUME NEW m \in 1..Len(Finals) PROVE Finals[m] \in View(p).active
    OBVIOUS
  <2>1. Len(Corpora) + m \in 1..Steps /\ Len(Corpora) + m > Len(Corpora)
    BY StepsType
  <2>2. AssetAt(Len(Corpora) + m) = Finals[m]
    BY StepsType DEF AssetAt
  <2> QED
    BY <1>2, <2>1, <2>2, StepsType DEF Before
<1>5. Assets \subseteq View(p).stored /\ Assets \subseteq View(p).active
  <2> SUFFICES ASSUME NEW a \in Assets PROVE a \in View(p).stored /\ a \in View(p).active
    OBVIOUS
  <2>1. PICK n \in DOMAIN Corpora : Corpora[n][2] = a
    BY BootstrapAssumption
  <2>2. PICK m \in DOMAIN Finals : Finals[m] = a
    BY BootstrapAssumption
  <2>3. DOMAIN Finals = 1..Len(Finals)
    BY BootstrapAssumption
  <2> QED
    BY <1>3, <1>4, <2>1, <2>2, <2>3, StepsType
<1>6. Bindings \subseteq View(p).bound
  BY <1>3, StepsType DEF Bindings
<1>7. /\ View(p).stored \subseteq Assets /\ View(p).active \subseteq Assets
      /\ View(p).bound \subseteq Bindings
  BY ViewType DEF IsTables, Tables
<1>8. View(p).roots
  BY <1>1, ViewType DEF RootsInv, RootsOk, Seeding
<1> QED
  BY <1>1, <1>5, <1>6, <1>7, <1>8 DEF AssetsReady

LEMMA RootsNext == TypeInv /\ RootsInv /\ StepInv /\ [Next]_vars => RootsInv'
<1> SUFFICES ASSUME TypeInv, RootsInv, StepInv, [Next]_vars PROVE RootsInv'
  OBVIOUS
<1>1. CASE UNCHANGED vars \/ Lose
  BY <1>1 DEF vars, shared, own, Lose, RootsInv, RootsOk, AssetsReady
<1>2. ASSUME NEW q \in Processes, Act(q) PROVE RootsInv'
  <2>1. db' = db \/ (CommitSeed(q) /\ db'.roots /\ AssetsReady')
    BY <1>2, SharedKept, CommitsWhole
  <2>2. IF db'.roots THEN AssetsReady' ELSE db' = NoRows
    BY <2>1 DEF RootsInv, AssetsReady
  <2>3. ~ NoRows.roots
    BY DEF NoRows
  <2>4. ASSUME NEW p \in Processes, mine[p].roots
        PROVE  /\ pc[p] \in Seeding /\ ~ db.roots
               /\ \A r \in Processes \ {p} : pc[r] \notin Seeding
    BY <2>3, <2>4 DEF RootsInv, RootsOk
  <2>5. ASSUME NEW p \in Processes, pc'[p] \notin Seeding PROVE mine'[p] = NoRows
    <3>1. CASE p = q
      BY <1>2, <2>5, <3>1, SeedLeaves DEF RootsInv, RootsOk
    <3>2. CASE p # q
      BY <1>2, <2>5, <3>2, OthersKeep DEF RootsInv, RootsOk
    <3> QED
      BY <3>1, <3>2
  <2>6. ASSUME NEW p \in Processes, pc'[p] \in Seeding PROVE db'.roots <=> ~ mine'[p].roots
    <3>1. CASE p = q
      <4>1. db' = db
        BY <1>2, <2>6, <3>1, SeedMoves
      <4>2. CASE pc[p] = "rooting"
        BY <1>2, <2>3, <2>6, <3>1, <4>1, <4>2, SeedMoves DEF RootsInv, RootsOk, Seeding
      <4>3. CASE pc[p] = "creating"
        BY <1>2, <2>6, <3>1, <4>1, <4>3, SeedMoves
      <4>4. CASE pc[p] \in Seeding
        <5>1. mine'[p].roots = mine[p].roots
          BY <1>2, <2>6, <3>1, <4>4, SeedMoves
        <5> QED
          BY <4>1, <4>4, <5>1 DEF RootsInv, RootsOk
      <4> QED
        BY <1>2, <2>6, <3>1, <4>2, <4>3, <4>4, SeedMoves
    <3>2. CASE p # q
      <4>1. mine'[p] = mine[p] /\ pc[p] \in Seeding
        BY <1>2, <2>6, <3>2, OthersKeep
      <4>2. db.roots <=> ~ mine[p].roots
        BY <4>1 DEF RootsInv, RootsOk
      <4>3. CASE CommitSeed(q)
        BY <2>1, <2>4, <3>2, <4>1, <4>2, <4>3 DEF CommitSeed, Seeding
      <4> QED
        BY <2>1, <4>1, <4>2, <4>3
    <3> QED
      BY <3>1, <3>2
  <2>7. ASSUME NEW p \in Processes, NEW r \in Processes \ {p}, mine'[p].roots,
               pc'[r] \in Seeding
        PROVE  FALSE
    <3>1. pc'[p] \in Seeding
      BY <2>3, <2>5, <2>7
    <3>2. CASE p = q
      <4>1. pc[r] \in Seeding
        BY <1>2, <2>7, <3>2, OthersKeep
      <4>2. mine[p].roots \/ pc[p] = "creating"
        BY <1>2, <2>3, <2>7, <3>1, <3>2, SeedMoves DEF RootsInv, RootsOk, Seeding
      <4>3. CASE pc[p] = "creating"
        BY <1>2, <3>1, <3>2, <4>1, <4>3, SeedMoves DEF RootsInv, RootsOk
      <4> QED
        BY <2>4, <4>1, <4>2, <4>3
    <3>3. CASE p # q
      <4>1. mine[p].roots
        BY <1>2, <2>7, <3>3, OthersKeep
      <4>2. pc[r] \notin Seeding /\ ~ db.roots
        BY <2>4, <4>1
      <4>3. r = q
        BY <1>2, <2>7, <4>2, OthersKeep
      <4> QED
        BY <1>2, <2>7, <4>1, <4>2, <4>3, SeedMoves
    <3> QED
      BY <3>2, <3>3
  <2> QED
    BY <2>2, <2>5, <2>6, <2>7 DEF RootsInv, RootsOk
<1> QED
  BY <1>1, <1>2, ActOrLose

---------------------------------------------------------------------------
\* The steps of a seed.

\* Nothing of it changes while the process stays where it is.
LEMMA StepFrame ==
  ASSUME TypeInv, TypeInv', NEW q \in Processes, Act(q), NEW p \in Processes, StepOk(p),
         pc'[p] = pc[p], step'[p] = step[p], mine'[p].roots = mine[p].roots,
         mine[p].roots => View(p)'.stored \subseteq View(p).stored
  PROVE  StepOk(p)'
<1>1. CASE pc'[p] \notin Seeding
  BY <1>1 DEF StepOk, Seeding
<1>2. CASE pc'[p] \in Seeding
  <2>1. /\ View(p).stored \subseteq View(p)'.stored
        /\ View(p).active \subseteq View(p)'.active
        /\ View(p).bound \subseteq View(p)'.bound
    BY <1>2, ViewGrows
  <2>2. Before(p, step[p]) => Before(p, step[p])'
    BY <2>1 DEF Before
  <2>3. \A a : BoundWhole(p, a) => BoundWhole(p, a)'
    BY <2>1 DEF BoundWhole
  <2>4. ASSUME NEW a, StoredBy(p, a) PROVE StoredBy(p, a)'
    <3>1. PICK m \in 1..Len(Corpora) :
            /\ Corpora[m][2] = a
            /\ m < step[p] \/ (m = step[p] /\ pc[p] \in {"indexing", "repairing"})
      BY <2>4 DEF StoredBy
    <3> QED
      BY <3>1 DEF StoredBy
  <2> QED
    BY <2>1, <2>2, <2>3, <2>4 DEF StepOk
<1> QED
  BY <1>1, <1>2

\* The next step of a seed.
LEMMA BeforeNext ==
  ASSUME TypeInv, TypeInv', NEW p \in Processes, Act(p), NextStep(p), pc'[p] \in Seeding,
         pc[p] \in {"indexing", "repairing"}, StepOk(p)
  PROVE  /\ Before(p, step[p])' /\ step'[p] = step[p] + 1 /\ step[p] \in 1..Steps
<1>1. /\ View(p).stored \subseteq View(p)'.stored
      /\ View(p).active \subseteq View(p)'.active
      /\ View(p).bound \subseteq View(p)'.bound
  BY ViewGrows
<1>2. step[p] \in 1..Steps /\ step'[p] = step[p] + 1
  BY StepsType DEF NextStep, TypeInv, Seeding
<1>3. Before(p, step[p])
  BY DEF StepOk, Seeding
<1>4. ASSUME NEW m \in 1..step'[p] - 1, m <= Len(Corpora)
      PROVE  Corpora[m] \in View(p).bound /\ Corpora[m][2] \in View(p).stored
  <2>1. CASE m = step[p]
    BY <1>2, <1>4, <2>1, StepsType DEF StepOk
  <2>2. CASE m # step[p]
    <3>1. m \in 1..step[p] - 1
      BY <1>2, <2>2
    <3> QED
      BY <1>3, <1>4, <3>1 DEF Before
  <2> QED
    BY <2>1, <2>2
<1>5. ASSUME NEW m \in 1..step'[p] - 1, m > Len(Corpora)
      PROVE  AssetAt(m) \in View(p).active
  <2>1. CASE m = step[p]
    BY <1>2, <1>5, <2>1, StepsType DEF StepOk
  <2>2. CASE m # step[p]
    <3>1. m \in 1..step[p] - 1
      BY <1>2, <2>2
    <3> QED
      BY <1>3, <1>5, <3>1 DEF Before
  <2> QED
    BY <2>1, <2>2
<1> QED
  BY <1>1, <1>2, <1>4, <1>5 DEF Before

\* When a seed reconciles the index of an asset it sees all its bindings: those of
\* the database are whole, and in a seed of an empty one the asset was stored by
\* another corpus, of the two it has at most.
LEMMA ReconcileBinds ==
  ASSUME TypeInv, TypeInv', RootsInv, StepInv, NEW p \in Processes, Reconcile(p),
         AssetAt(step[p]) \in View(p).active, View(p).bound \subseteq View(p)'.bound
  PROVE  BoundWhole(p, AssetAt(step[p]))'
<1> DEFINE a == AssetAt(step[p])
           n == step[p]
<1>1. /\ pc[p] = "seeding" /\ n \in 1..Steps /\ a \in Assets
      /\ n <= Len(Corpora) => a \in View(p).stored
  <2>1. pc[p] = "seeding" /\ n \in 1..Steps
    BY StepsType DEF Reconcile, TypeInv, Seeding
  <2>2. n <= Len(Corpora) => a \in View(p).stored
    BY DEF Reconcile
  <2> QED
    BY <2>1, <2>2, ReconcileWrites
<1>2. n <= Len(Corpora) => Corpora[n] \in View(p)'.bound /\ Corpora[n][2] = a
  <2> SUFFICES ASSUME n <= Len(Corpora)
               PROVE  Corpora[n] \in View(p)'.bound /\ Corpora[n][2] = a
    OBVIOUS
  <2>1. mine'[p].bound = mine[p].bound \union BoundHere(p)
    BY ReconcileWrites
  <2>2. Corpora[n] \in View(p).bound \union BoundHere(p)
    BY DEF BoundHere
  <2>3. View(p).bound = db.bound \union mine[p].bound /\ db' = db
    BY ViewType DEF Reconcile, shared
  <2> QED
    BY <1>1, <2>1, <2>2, <2>3, ViewThen, StepsType
<1>3. Before(p, n)
  BY <1>1 DEF StepInv, StepOk, Seeding
<1> SUFFICES \A b \in Bindings : b[2] = a => b \in View(p)'.bound
  <2>1. step' = step
    BY DEF Reconcile
  <2> QED
    BY <2>1 DEF BoundWhole
<1>4. CASE db.roots
  <2>1. View(p).bound = Bindings
    BY <1>4, AllBound DEF RootsInv
  <2> QED
    BY <2>1
<1>5. CASE ~ db.roots
  <2>1. \A b \in View(p).stored : StoredBy(p, b)
    BY <1>1, <1>5 DEF RootsInv, RootsOk, StepInv, StepOk, Seeding
  <2> SUFFICES ASSUME NEW b \in Bindings, b[2] = a PROVE b \in View(p)'.bound
    OBVIOUS
  <2>2. PICK l \in DOMAIN Corpora : b = Corpora[l]
    BY DEF Bindings
  <2>3. l \in 1..Len(Corpora)
    BY <2>2, StepsType
  <2>4. CASE l < n
    BY <1>1, <1>3, <2>2, <2>3, <2>4, StepsType DEF Before
  <2>5. CASE l >= n
    <3>1. n <= Len(Corpora) /\ n \in 1..Len(Corpora)
      BY <1>1, <2>3, <2>5, StepsType
    <3>2. PICK m \in 1..Len(Corpora) : Corpora[m][2] = a /\ m < n
      BY <1>1, <2>1, <3>1 DEF StoredBy
    <3>3. m \in DOMAIN Corpora /\ n \in DOMAIN Corpora
      BY <3>1, <3>2, StepsType
    <3>4. l = n
      BY <1>1, <1>2, <2>2, <2>3, <2>5, <3>1, <3>2, <3>3, ManifestAssumption
    <3> QED
      BY <1>2, <2>2, <3>1, <3>4
  <2> QED
    BY <1>1, <2>3, <2>4, <2>5
<1> QED
  BY <1>4, <1>5

LEMMA StepOfSeed ==
  ASSUME TypeInv, TypeInv', RootsInv, StepInv, NEW p \in Processes, Act(p)
  PROVE  StepOk(p)'
<1> USE DEF shared, own
<1>1. StepOk(p)
  BY DEF StepInv
<1>2. CASE pc'[p] \notin Seeding
  BY <1>2 DEF StepOk, Seeding
<1> SUFFICES ASSUME pc'[p] \in Seeding PROVE StepOk(p)'
  BY <1>2
<1>3. /\ View(p).stored \subseteq View(p)'.stored
      /\ View(p).active \subseteq View(p)'.active
      /\ View(p).bound \subseteq View(p)'.bound
      /\ db' = db
  BY ViewGrows, SeedMoves
<1>4. pc[p] \in Seeding => Before(p, step[p])
  BY <1>1 DEF StepOk
<1>5. CASE LookForRoots(p)
  <2>1. pc'[p] = "seeding" /\ step'[p] = 1 /\ mine'[p] = mine[p] /\ mine[p] = NoRows
    BY <1>5 DEF LookForRoots, Goto, TypeInv, RootsInv, RootsOk, Seeding
  <2>2. ~ NoRows.roots
    BY DEF NoRows
  <2> QED
    BY <2>1, <2>2 DEF StepOk, Before
<1>6. CASE CreateRoots(p)
  <2>1. /\ ~ db.roots /\ pc[p] = "creating" /\ pc'[p] = "seeding" /\ step'[p] = 1
    <3>1. pc[p] = "creating"
      BY <1>6 DEF CreateRoots
    <3>2. ~ db.roots
      BY <3>1, SeedMoves
    <3> QED
      BY <1>6, <3>1, <3>2 DEF CreateRoots, Goto, TypeInv
  <2>2. db = NoRows /\ mine[p] = NoRows
    BY <2>1 DEF RootsInv, RootsOk, Seeding
  <2>3. mine'[p].stored = {} /\ db'.stored = {}
    BY <1>3, <1>6, <2>1, <2>2, CreateWrites DEF NoRows
  <2>4. View(p)'.stored = {}
    BY <2>3, ViewThen
  <2> QED
    BY <2>1, <2>4 DEF StepOk, Before
<1>7. CASE Ingest(p)
  <2>1. /\ pc'[p] = "indexing" /\ step' = step /\ pc[p] = "seeding"
    BY <1>7 DEF Ingest, Goto, TypeInv
  <2>2. /\ step[p] \in 1..Len(Corpora) /\ AssetAt(step[p]) = Corpora[step[p]][2]
        /\ mine'[p].stored = mine[p].stored \union {AssetAt(step[p])}
        /\ mine'[p].bound = mine[p].bound \union {Corpora[step[p]]}
        /\ mine'[p].roots = mine[p].roots
    BY <1>7, IngestWrites, StepsType
  <2>3. /\ Corpora[step[p]] \in View(p)'.bound /\ AssetAt(step[p]) \in View(p)'.stored
        /\ View(p)'.stored = View(p).stored \union {AssetAt(step[p])}
    BY <1>3, <2>2, ViewThen, ViewType
  <2>4. Before(p, step[p])'
    BY <1>3, <1>4, <2>1 DEF Before, Seeding
  <2>5. ASSUME mine'[p].roots, NEW a \in View(p)'.stored PROVE StoredBy(p, a)'
    <3>1. CASE a = AssetAt(step[p])
      BY <2>1, <2>2, <3>1 DEF StoredBy
    <3>2. CASE a \in View(p).stored
      <4>1. StoredBy(p, a)
        BY <1>1, <2>1, <2>2, <2>5, <3>2 DEF StepOk, Seeding
      <4>2. PICK m \in 1..Len(Corpora) : Corpora[m][2] = a /\ m < step[p]
        BY <2>1, <4>1 DEF StoredBy
      <4> QED
        BY <2>1, <4>2 DEF StoredBy
    <3> QED
      BY <2>3, <2>5, <3>1, <3>2
  <2> QED
    BY <2>1, <2>2, <2>3, <2>4, <2>5, StepsType DEF StepOk
<1>8. CASE Reconcile(p)
  <2>1. /\ AssetAt(step[p]) \in View(p).active /\ pc'[p] = "repairing" /\ step' = step
        /\ pc[p] = "seeding"
        /\ step[p] <= Len(Corpora) => AssetAt(step[p]) \in View(p).stored
    BY <1>8, ExitKeeps DEF Reconcile, Goto, TypeInv, Seeding
  <2>2. /\ mine'[p].stored = mine[p].stored /\ mine'[p].roots = mine[p].roots
        /\ mine'[p].bound = mine[p].bound \union BoundHere(p)
    BY <1>8, <2>1, ReconcileWrites
  <2>3. View(p)'.stored = View(p).stored
    BY <1>3, <2>2, ViewThen, ViewType
  <2>4. step[p] <= Len(Corpora) => Corpora[step[p]] \in View(p)'.bound
    <3>1. step[p] <= Len(Corpora) => Corpora[step[p]] \in View(p).bound \union BoundHere(p)
      BY DEF BoundHere
    <3> QED
      BY <1>3, <2>2, <3>1, ViewThen
  <2>5. BoundWhole(p, AssetAt(step[p]))'
    BY <1>3, <1>8, <2>1, ReconcileBinds
  <2>6. Before(p, step[p])'
    BY <1>3, <1>4, <2>1 DEF Before, Seeding
  <2>7. ASSUME mine'[p].roots, NEW a \in View(p)'.stored PROVE StoredBy(p, a)'
    <3>1. StoredBy(p, a)
      BY <1>1, <2>1, <2>2, <2>3, <2>7 DEF StepOk, Seeding
    <3>2. PICK m \in 1..Len(Corpora) : Corpora[m][2] = a /\ m < step[p]
      BY <2>1, <3>1 DEF StoredBy
    <3> QED
      BY <2>1, <3>2 DEF StoredBy
  <2> QED
    BY <1>3, <2>1, <2>3, <2>4, <2>5, <2>6, <2>7 DEF StepOk
<1>9. ASSUME NEW k \in DOMAIN View(p).outbox, Upsert(p, k) \/ UpsertFails(p, k)
      PROVE  StepOk(p)'
  <2>1. PICK row \in Rows : SetRow(p, k, row)
    <3>1. View(p).outbox[k].attempts \in Nat
      BY ViewRows DEF Rows
    <3> QED
      BY <1>9, <3>1, RowTypes DEF Upsert, UpsertFails, Rows, Done
  <2>2. /\ mine'[p].stored = mine[p].stored /\ mine'[p].roots = mine[p].roots
    BY <2>1, SetRowWrites
  <2>3. View(p)'.stored = View(p).stored /\ pc' = pc /\ step' = step
    BY <1>3, <1>9, <2>2, ViewThen, ViewType DEF Upsert, UpsertFails
  <2> QED
    BY <1>1, <2>2, <2>3, StepFrame
<1>10. CASE NextStep(p) /\ (Activate(p) \/ Verify(p))
  <2>1. pc[p] \in {"indexing", "repairing"} /\ pc'[p] \in {"seeding", "committing"}
    BY <1>10 DEF Activate, Verify, NextStep, Goto, TypeInv
  <2>2. Before(p, step[p])' /\ step'[p] = step[p] + 1 /\ step[p] \in 1..Steps
    BY <1>1, <1>10, <2>1, BeforeNext
  <2>3. mine'[p].stored = mine[p].stored /\ mine'[p].roots = mine[p].roots
    <3>1. AssetAt(step[p]) \in Assets
      BY <2>2, StepsType
    <3>2. CASE Activate(p)
      BY <3>1, <3>2, ActivateWrites
    <3>3. CASE Verify(p)
      BY <3>3, ExitKeeps DEF Verify, Seeding
    <3> QED
      BY <1>10, <3>2, <3>3
  <2>4. View(p)'.stored = View(p).stored
    BY <1>3, <2>3, ViewThen, ViewType
  <2>5. ASSUME mine'[p].roots, NEW a \in View(p)'.stored PROVE StoredBy(p, a)'
    <3>1. StoredBy(p, a)
      BY <1>1, <2>1, <2>3, <2>4, <2>5 DEF StepOk, Seeding
    <3>2. PICK m \in 1..Len(Corpora) : Corpora[m][2] = a /\ m <= step[p]
      BY <2>2, <3>1, StepsType DEF StoredBy
    <3>3. m < step'[p]
      BY <2>2, <3>2, StepsType
    <3> QED
      BY <3>2, <3>3 DEF StoredBy
  <2> QED
    BY <2>1, <2>2, <2>5 DEF StepOk
<1>11. ASSUME NEW r, Exit(p, r) PROVE FALSE
  BY <1>11, ExitKeeps DEF Seeding
<1>12. LookForRoots(p) \/ CreateRoots(p) \/ Ingest(p) \/ Reconcile(p)
       \/ (\E k \in DOMAIN View(p).outbox : Upsert(p, k) \/ UpsertFails(p, k))
       \/ (NextStep(p) /\ (Activate(p) \/ Verify(p)))
  <2>1. CASE Start(p) \/ Gate(p) \/ CommitSeed(p) \/ LookForFacts(p) \/ CommitFacts(p)
    BY <1>11, <2>1 DEF Start, Gate, CommitSeed, LookForFacts, CommitFacts, Goto, TypeInv,
       Seeding
  <2>2. CASE InspectPostgres(p) \/ InspectQdrant(p) \/ InspectMinio(p)
    BY <1>11, <2>2 DEF InspectPostgres, InspectQdrant, InspectMinio, InspectStore, Goto,
       TypeInv, Seeding
  <2>3. CASE SeedRaises(p) \/ Kill(p) \/ Activate(p) \/ Verify(p)
    BY <1>11, <2>3 DEF SeedRaises, Kill, Activate, Verify
  <2> QED
    BY <2>1, <2>2, <2>3 DEF Act
<1> QED
  BY <1>5, <1>6, <1>7, <1>8, <1>9, <1>10, <1>12

LEMMA StepNext == TypeInv /\ TypeInv' /\ RootsInv /\ StepInv /\ [Next]_vars => StepInv'
<1> SUFFICES ASSUME TypeInv, TypeInv', RootsInv, StepInv, [Next]_vars PROVE StepInv'
  OBVIOUS
<1>1. CASE UNCHANGED vars \/ Lose
  BY <1>1 DEF vars, shared, own, Lose, StepInv, StepOk, Before, BoundWhole, StoredBy, View
<1>2. ASSUME NEW q \in Processes, Act(q) PROVE StepInv'
  <2>1. ASSUME NEW p \in Processes \ {q} PROVE StepOk(p)'
    <3>1. pc'[p] = pc[p] /\ step'[p] = step[p] /\ mine'[p] = mine[p]
      BY <1>2, OthersKeep
    <3>2. mine[p].roots => View(p)'.stored \subseteq View(p).stored
      <4>1. mine[p].roots => ~ CommitSeed(q)
        BY DEF RootsInv, RootsOk, CommitSeed, Seeding
      <4>2. mine[p].roots => db' = db
        BY <1>2, <4>1, SharedKept
      <4> QED
        BY <3>1, <4>2, ViewThen, ViewType
    <3> QED
      BY <1>2, <3>1, <3>2, StepFrame DEF StepInv
  <2> QED
    BY <1>2, <2>1, StepOfSeed DEF StepInv
<1> QED
  BY <1>1, <1>2, ActOrLose

---------------------------------------------------------------------------
\* Fresh rows.

\* The worker goes on to no other step while it sees a fresh row: the row is its
\* own, and nobody has locked it.
LEMMA DrainedOfFresh ==
  ASSUME TypeInv, FreshInv, NEW p \in Processes, Drained(p),
         pc[p] \in {"indexing", "repairing"}
  PROVE  \A k \in DOMAIN View(p).outbox : View(p).outbox[k] # Fresh
<1> SUFFICES ASSUME NEW k \in DOMAIN View(p).outbox, View(p).outbox[k] = Fresh
             PROVE  FALSE
  OBVIOUS
<1>1. k \in DOMAIN mine[p].outbox /\ mine[p].outbox[k] = Fresh
  BY ViewRows DEF FreshInv
<1>2. k \notin Locked(p)
  BY <1>1 DEF FreshInv, FreshOk, Locked
<1>3. Due(p, k)
  BY <1>2, RowTypes DEF Due, Claimable
<1> QED
  BY <1>3 DEF Drained

\* A step after which the seed is at none of its rows.
LEMMA NoFreshAfter ==
  ASSUME TypeInv, RootsInv, FreshInv, NEW p \in Processes, Act(p),
         pc'[p] \in {"seeding", "committing"}
  PROVE  \A k \in DOMAIN mine'[p].outbox : mine'[p].outbox[k] # Fresh
<1> USE DEF shared, own
<1>1. ASSUME NEW r, Exit(p, r) PROVE FALSE
  BY <1>1, ExitKeeps DEF Seeding
<1>2. CASE LookForRoots(p)
  BY <1>2, NoRowsType DEF LookForRoots, RootsInv, RootsOk, Seeding
<1>3. CASE CreateRoots(p)
  <2>1. pc[p] = "creating" /\ ~ db.roots
    BY <1>1, <1>3 DEF CreateRoots
  <2>2. mine'[p].outbox = NoRows.outbox
    BY <1>3, <2>1, CreateWrites DEF RootsInv, RootsOk, Seeding
  <2> QED
    BY <2>2, NoRowsType
<1>4. CASE Activate(p) \/ Verify(p)
  <2>1. Drained(p) /\ pc[p] \in {"indexing", "repairing"}
    BY <1>4 DEF Activate, Verify
  <2>2. mine'[p].outbox = mine[p].outbox
    <3>1. step[p] \in 1..Steps
      BY <2>1, StepsType DEF TypeInv, Seeding
    <3>2. AssetAt(step[p]) \in Assets
      BY <3>1, StepsType
    <3>3. CASE Activate(p)
      BY <3>2, <3>3, ActivateWrites
    <3>4. CASE Verify(p)
      BY <1>1, <3>4 DEF Verify
    <3> QED
      BY <1>4, <3>3, <3>4
  <2> QED
    BY <2>1, <2>2, DrainedOfFresh, ViewRows
<1>5. LookForRoots(p) \/ CreateRoots(p) \/ Activate(p) \/ Verify(p)
  <2>1. CASE Start(p) \/ Gate(p) \/ CommitSeed(p) \/ LookForFacts(p) \/ CommitFacts(p)
    BY <1>1, <2>1 DEF Start, Gate, CommitSeed, LookForFacts, CommitFacts, Goto, TypeInv
  <2>2. CASE InspectPostgres(p) \/ InspectQdrant(p) \/ InspectMinio(p)
    BY <1>1, <2>2 DEF InspectPostgres, InspectQdrant, InspectMinio, InspectStore, Goto,
       TypeInv
  <2>3. CASE SeedRaises(p) \/ Kill(p) \/ Ingest(p) \/ Reconcile(p)
    BY <1>1, <2>3 DEF SeedRaises, Kill, Ingest, Reconcile, Goto, TypeInv
  <2>4. CASE \E k \in DOMAIN View(p).outbox : Upsert(p, k) \/ UpsertFails(p, k)
    BY <2>4 DEF Upsert, UpsertFails, Claimable
  <2> QED
    BY <2>1, <2>2, <2>3, <2>4 DEF Act
<1> QED
  BY <1>2, <1>3, <1>4, <1>5

LEMMA FreshNext ==
  TypeInv /\ RootsInv /\ FreshInv /\ [Next]_vars => FreshInv'
<1> SUFFICES ASSUME TypeInv, RootsInv, FreshInv, [Next]_vars PROVE FreshInv'
  OBVIOUS
<1>1. CASE UNCHANGED vars \/ Lose
  BY <1>1 DEF vars, shared, own, Lose, FreshInv, FreshOk
<1>2. ASSUME NEW q \in Processes, Act(q) PROVE FreshInv'
  <2>1. db' = db \/ (pc[q] = "committing" /\ db' = View(q))
    BY <1>2, SharedKept DEF CommitSeed
  <2>2. \A k \in DOMAIN db'.outbox :
          /\ db'.outbox[k] # Fresh
          /\ k \in DOMAIN db.outbox \/ k \in DOMAIN mine[q].outbox
    <3>1. CASE db' = db
      BY <3>1 DEF FreshInv
    <3>2. CASE pc[q] = "committing" /\ db' = View(q)
      BY <1>2, <3>2, ViewRows DEF FreshInv, FreshOk
    <3> QED
      BY <2>1, <3>1, <3>2
  <2>3. \A k \in DOMAIN mine'[q].outbox :
          \/ k \in DOMAIN mine[q].outbox /\ mine'[q].outbox[k] = mine[q].outbox[k]
          \/ Unseen(k)
          \/ k \in DOMAIN View(q).outbox /\ mine'[q].outbox[k] # Fresh
    <3>1. CASE pc'[q] \in Seeding
      BY <1>2, <3>1, SeedMoves DEF RowStep
    <3>2. CASE pc'[q] \notin Seeding
      BY <1>2, <3>2, SeedLeaves, NoRowsType
    <3> QED
      BY <3>1, <3>2
  <2>4. ASSUME NEW p \in Processes \ {q} PROVE FreshOk(p)'
    <3>1. mine'[p] = mine[p] /\ pc'[p] = pc[p]
      BY <1>2, OthersKeep
    <3> SUFFICES ASSUME NEW k \in DOMAIN mine[p].outbox, mine[p].outbox[k] = Fresh
                 PROVE  /\ pc[p] \in {"indexing", "repairing"}
                        /\ k \notin DOMAIN db'.outbox
                        /\ \A r \in Processes \ {p} : k \notin DOMAIN mine'[r].outbox
      BY <3>1 DEF FreshOk
    <3>2. /\ pc[p] \in {"indexing", "repairing"} /\ k \notin DOMAIN db.outbox
          /\ \A r \in Processes \ {p} : k \notin DOMAIN mine[r].outbox
      BY DEF FreshInv, FreshOk
    <3>3. k \in DOMAIN View(p).outbox /\ k \notin DOMAIN View(q).outbox
      BY <1>2, <3>2, ViewRows
    <3>4. k \notin DOMAIN mine'[q].outbox
      BY <1>2, <2>3, <3>2, <3>3 DEF Unseen
    <3>5. \A r \in Processes \ {p} : k \notin DOMAIN mine'[r].outbox
      BY <1>2, <3>2, <3>4, OthersKeep
    <3> QED
      BY <1>2, <2>2, <3>2, <3>5
  <2>5. FreshOk(q)'
    <3> SUFFICES ASSUME NEW k \in DOMAIN mine'[q].outbox, mine'[q].outbox[k] = Fresh
                 PROVE  /\ pc'[q] \in {"indexing", "repairing"}
                        /\ k \notin DOMAIN db'.outbox
                        /\ \A r \in Processes \ {q} : k \notin DOMAIN mine'[r].outbox
      BY DEF FreshOk
    <3>1. pc'[q] \in Seeding
      BY <1>2, SeedLeaves, NoRowsType DEF RootsInv, RootsOk
    <3>2. db' = db /\ RowStep(q, mine[q].outbox, mine'[q].outbox)
      BY <1>2, <3>1, SeedMoves
    <3>3. pc'[q] \in {"indexing", "repairing"}
      BY <1>2, <3>1, NoFreshAfter DEF Seeding
    <3>4. \/ k \in DOMAIN mine[q].outbox /\ mine[q].outbox[k] = Fresh
          \/ Unseen(k)
      BY <3>2 DEF RowStep
    <3>5. /\ k \notin DOMAIN db.outbox
          /\ \A r \in Processes \ {q} : k \notin DOMAIN mine[r].outbox
      BY <1>2, <3>4, ViewRows DEF FreshInv, FreshOk, Unseen
    <3> QED
      BY <1>2, <3>2, <3>3, <3>5, OthersKeep
  <2> QED
    BY <2>2, <2>4, <2>5 DEF FreshInv
<1> QED
  BY <1>1, <1>2, ActOrLose

---------------------------------------------------------------------------
\* While nothing disturbs a preparation.

\* One becomes calm when it starts, and stays so only while nothing happens to it.
LEMMA CalmFrom ==
  ASSUME TypeInv, NEW p \in Processes, Act(p), NEW q \in Processes, calm'[q]
  PROVE  /\ ~ \E k \in DOMAIN View(p).outbox : UpsertFails(p, k)
         /\ \/ calm[q]
            \/ /\ q = p /\ pc[p] = "idle" /\ pc'[p] = "gate" /\ mode'[p] = "prepare"
               /\ report'[p] = None /\ hardened /\ UNCHANGED <<shared, mine>>
               /\ \A r \in Processes : Undisturbed(View(r))
<1> USE DEF shared, own
<1>1. ~ \E k \in DOMAIN View(p).outbox : UpsertFails(p, k)
  BY DEF UpsertFails
<1>2. CASE q # p
  BY <1>1, <1>2, OthersKeep
<1>3. CASE q = p /\ Start(p)
  <2>1. PICK m \in {"prepare", "check"}, profile \in Profiles :
          IF ValidSettings(profile)
          THEN /\ Goto(p, "gate") /\ mode' = [mode EXCEPT ![p] = m]
               /\ report' = [report EXCEPT ![p] = None]
               /\ calm' = [calm EXCEPT ![p] =
                    /\ m = "prepare" /\ hardened
                    /\ \A r \in Processes : Undisturbed(View(r))]
               /\ UNCHANGED <<shared, step, mine, missing, checked, passed>>
          ELSE Exit(p, "failed") /\ calm' = [calm EXCEPT ![p] = FALSE]
    BY <1>3 DEF Start
  <2>2. ValidSettings(profile)
    BY <1>3, <2>1 DEF TypeInv
  <2>3. m = "prepare" /\ hardened /\ \A r \in Processes : Undisturbed(View(r))
    BY <1>3, <2>1, <2>2 DEF TypeInv
  <2>4. pc[p] = "idle"
    BY <1>3 DEF Start
  <2> QED
    BY <1>1, <1>3, <2>1, <2>2, <2>3, <2>4 DEF Goto, TypeInv
<1>4. CASE q = p /\ ~ Start(p)
  BY <1>1, <1>4 DEF Act, Gate, LookForRoots, CreateRoots, Ingest, Reconcile, Upsert,
     Activate, Verify, SeedRaises, CommitSeed, LookForFacts, CommitFacts,
     InspectPostgres, InspectQdrant, InspectMinio, InspectStore, Kill, TypeInv
<1> QED
  BY <1>2, <1>3, <1>4

LEMMA QuietStays ==
  ASSUME TypeInv, RootsInv, Quiet, NEW q \in Processes, Act(q),
         ~ \E k \in DOMAIN View(q).outbox : UpsertFails(q, k)
  PROVE  Quiet'
<1>1. /\ hardened /\ Clean(db.outbox) /\ db.stored \subseteq objects
      /\ \A p \in Processes : Clean(mine[p].outbox) /\ mine[p].stored \subseteq objects
  BY DEF Quiet
<1>2. hardened' /\ objects \subseteq objects'
  BY <1>1, SharedKept
<1>3. Clean(db'.outbox) /\ db'.stored \subseteq objects'
  <2>1. CASE db' = db
    BY <1>1, <1>2, <2>1
  <2>2. CASE db' = View(q)
    <3>1. View(q).stored = db.stored \union mine[q].stored
      BY ViewType
    <3>2. Clean(View(q).outbox)
      BY <1>1, ViewRows DEF Clean
    <3> QED
      BY <1>1, <1>2, <2>2, <3>1, <3>2
  <2> QED
    BY <2>1, <2>2, SharedKept DEF CommitSeed
<1>4. ASSUME NEW p \in Processes
      PROVE  Clean(mine'[p].outbox) /\ mine'[p].stored \subseteq objects'
  <2>1. CASE p # q
    BY <1>1, <1>2, <2>1, OthersKeep
  <2>2. CASE p = q /\ pc'[q] \notin Seeding
    <3>1. mine'[p] = NoRows \/ mine'[p] = mine[p]
      BY <2>2, SeedLeaves
    <3>2. Clean(NoRows.outbox) /\ NoRows.stored = {}
      BY NoRowsType DEF Clean, NoRows
    <3> QED
      BY <1>1, <1>2, <3>1, <3>2
  <2>3. CASE p = q /\ pc'[q] \in Seeding
    <3>1. /\ \A k \in DOMAIN mine'[p].outbox :
               \/ k \in DOMAIN mine[p].outbox /\ mine'[p].outbox[k] = mine[p].outbox[k]
               \/ mine'[p].outbox[k] \in {Fresh, Done}
          /\ mine'[p].stored \subseteq mine[p].stored \union objects'
      BY <2>3, SeedMoves
    <3> QED
      BY <1>1, <1>2, <3>1 DEF Clean
  <2> QED
    BY <2>1, <2>2, <2>3
<1> QED
  BY <1>2, <1>3, <1>4 DEF Quiet

LEMMA QuietNext == TypeInv /\ RootsInv /\ QuietInv /\ [Next]_vars => QuietInv'
<1> SUFFICES ASSUME TypeInv, RootsInv, QuietInv, [Next]_vars PROVE QuietInv'
  OBVIOUS
<1>1. CASE UNCHANGED vars
  BY <1>1 DEF vars, shared, own, QuietInv, Quiet
<1>2. CASE Lose
  BY <1>2 DEF Lose, QuietInv
<1>3. ASSUME NEW q \in Processes, Act(q) PROVE QuietInv'
  <2> SUFFICES ASSUME NEW p \in Processes, calm'[p]
               PROVE  Quiet' /\ (pc'[p] # "idle" => mode'[p] = "prepare")
    BY DEF QuietInv
  <2>1. Quiet
    <3>1. CASE calm[p]
      BY <3>1 DEF QuietInv
    <3>2. CASE /\ pc[q] = "idle" /\ hardened
               /\ \A r \in Processes : Undisturbed(View(r))
      <4>1. mine[q] = NoRows
        BY <1>3, <3>2 DEF RootsInv, RootsOk, Seeding
      <4>2. Clean(db.outbox)
        <5>1. \A k \in DOMAIN db.outbox :
                k \in DOMAIN View(q).outbox /\ View(q).outbox[k] = db.outbox[k]
          BY <1>3, <4>1, ViewRows, NoRowsType
        <5> QED
          BY <1>3, <3>2, <5>1 DEF Clean, Undisturbed, Done
      <4>3. db.stored \subseteq objects
        BY <1>3, <3>2, ViewType DEF Undisturbed
      <4>4. ASSUME NEW r \in Processes
            PROVE  Clean(mine[r].outbox) /\ mine[r].stored \subseteq objects
        BY <3>2, ViewType, ViewRows DEF Clean, Undisturbed, Done
      <4> QED
        BY <3>2, <4>2, <4>3, <4>4 DEF Quiet
    <3> QED
      BY <1>3, <3>1, <3>2, CalmFrom
  <2>2. Quiet'
    BY <1>3, <2>1, CalmFrom, QuietStays
  <2>3. pc'[p] # "idle" => mode'[p] = "prepare"
    <3>1. CASE p # q
      BY <1>3, <3>1, OthersKeep, CalmFrom DEF QuietInv
    <3>2. CASE p = q /\ calm[p]
      <4>1. (pc'[p] # "idle" => pc[p] # "idle" /\ mode'[p] = mode[p]) \/ Start(p)
        BY <1>3, <3>2, ExitKeeps DEF Act, Gate, LookForRoots, CreateRoots, Ingest, Reconcile,
           Upsert, UpsertFails, Claimable, Activate, Verify, SeedRaises, CommitSeed,
           LookForFacts, CommitFacts, InspectPostgres, InspectQdrant, InspectMinio,
           InspectStore, Kill, shared, own
      <4>2. Start(p) /\ pc'[p] # "idle" => mode'[p] = "prepare"
        BY <3>2, ExitKeeps DEF Start, TypeInv
      <4> QED
        BY <3>2, <4>1, <4>2 DEF QuietInv
    <3>3. CASE p = q /\ ~ calm[p]
      BY <1>3, <3>3, CalmFrom
    <3> QED
      BY <3>1, <3>2, <3>3
  <2> QED
    BY <2>2, <2>3
<1> QED
  BY <1>1, <1>2, <1>3, ActOrLose

---------------------------------------------------------------------------
\* What an undisturbed preparation has done stays right.

\* The payload of a section whose asset is bound whole.
LEMMA PayloadWhole ==
  ASSUME TypeInv, NEW p \in Processes, NEW a \in Assets, NEW i \in ItemsOf(a),
         BoundWhole(p, a)
  PROVE  i \in Items /\ Payload(View(p).bound, i) = Manifest[i]
<1>1. i \in Items
  BY DEF Items
<1>2. AssetOf(i) = a
  <2>1. \E b \in Assets : i \in ItemsOf(b)
    OBVIOUS
  <2>2. AssetOf(i) \in Assets /\ i \in ItemsOf(AssetOf(i))
    BY <2>1 DEF AssetOf
  <2> QED
    BY <2>2, ManifestAssumption
<1>3. View(p).bound \subseteq Bindings
  BY ViewType DEF IsTables, Tables
<1>4. BoundTo(View(p).bound, a) = BoundTo(Bindings, a)
  <2>1. ASSUME NEW c \in Cases, <<c, a>> \in Bindings PROVE <<c, a>> \in View(p).bound
    <3>1. <<c, a>>[2] = a
      OBVIOUS
    <3> QED
      BY <2>1, <3>1 DEF BoundWhole
  <2> QED
    BY <1>3, <2>1 DEF BoundTo
<1> QED
  BY <1>1, <1>2, <1>4 DEF Payload, Manifest

\* When the corpora are gone through, everything is bound.
LEMMA LateWhole ==
  ASSUME NEW p \in Processes, StepInv, pc[p] \in Seeding,
         step[p] \in Nat, step[p] > Len(Corpora)
  PROVE  \A a : BoundWhole(p, a)
<1>1. \A m \in 1..Len(Corpora) : Corpora[m] \in View(p).bound
  BY StepsType DEF StepInv, StepOk, Before
<1> QED
  BY <1>1, StepsType DEF BoundWhole, Bindings

\* From its seed on, a process leaves it by its commit.
LEMMA LeavesByCommit ==
  ASSUME TypeInv, NEW p \in Processes, Act(p), pc[p] \in Seeding, pc'[p] \in Seeded
  PROVE  CommitSeed(p)
<1> USE DEF shared, own
<1>1. ASSUME NEW r, Exit(p, r) PROVE FALSE
  BY <1>1, ExitKeeps DEF Seeded
<1>2. CASE Start(p) \/ Gate(p) \/ LookForRoots(p) \/ CreateRoots(p)
  BY <1>2 DEF Start, Gate, LookForRoots, CreateRoots, Seeding
<1>3. CASE Ingest(p) \/ Reconcile(p) \/ SeedRaises(p) \/ Kill(p)
  BY <1>1, <1>3 DEF Ingest, Reconcile, SeedRaises, Kill, Goto, TypeInv, Seeded
<1>4. CASE \E k \in DOMAIN View(p).outbox : Upsert(p, k) \/ UpsertFails(p, k)
  BY <1>4 DEF Upsert, UpsertFails, Claimable, Seeded
<1>5. CASE Activate(p) \/ Verify(p)
  BY <1>1, <1>5 DEF Activate, Verify, NextStep, Goto, TypeInv, Seeded
<1>6. CASE LookForFacts(p) \/ CommitFacts(p) \/ InspectPostgres(p)
  BY <1>6 DEF LookForFacts, CommitFacts, InspectPostgres, Seeding
<1>7. CASE InspectQdrant(p) \/ InspectMinio(p)
  BY <1>7 DEF InspectQdrant, InspectMinio, InspectStore, Seeding
<1> QED
  BY <1>2, <1>3, <1>4, <1>5, <1>6, <1>7 DEF Act

\* A row that is done stays done, in the seed of another process and its own.
LEMMA DoneStays ==
  ASSUME TypeInv, TypeInv', RootsInv, FreshInv, Quiet, NEW q \in Processes, Act(q),
         NEW p \in Processes, {pc[p], pc'[p]} \subseteq Seeding \union Seeded,
         NEW k \in DOMAIN View(p).outbox, View(p).outbox[k] = Done
  PROVE  k \in DOMAIN View(p)'.outbox /\ View(p)'.outbox[k] = Done
<1>1. \/ k \in DOMAIN mine[p].outbox /\ mine[p].outbox[k] = Done
      \/ /\ k \in DOMAIN db.outbox \ DOMAIN mine[p].outbox
         /\ db.outbox[k] = Done
  BY ViewRows
<1>2. CASE p # q
  <2>1. mine'[p] = mine[p]
    BY <1>2, OthersKeep
  <2>2. db' = db \/ (db' = View(q) /\ pc[q] = "committing")
    BY SharedKept DEF CommitSeed
  <2>3. ASSUME k \in DOMAIN db.outbox, db.outbox[k] = Done
        PROVE  k \in DOMAIN db'.outbox /\ db'.outbox[k] = Done
    <3>1. ASSUME k \in DOMAIN mine[q].outbox, pc[q] = "committing"
          PROVE  mine[q].outbox[k] = Done
      BY <3>1 DEF FreshInv, FreshOk, Quiet, Clean
    <3> QED
      BY <2>2, <2>3, <3>1, ViewRows
  <2> QED
    BY <1>1, <2>1, <2>3, ViewThen
<1>3. CASE p = q /\ pc'[p] \in Seeding
  <2>1. db' = db /\ RowStep(p, mine[p].outbox, mine'[p].outbox)
    BY <1>3, SeedMoves
  <2>2. k \in DOMAIN mine'[p].outbox =>
          k \in DOMAIN mine[p].outbox /\ mine'[p].outbox[k] = mine[p].outbox[k]
    BY <2>1, RowTypes DEF RowStep, Unseen
  <2>3. k \in DOMAIN mine[p].outbox => k \in DOMAIN mine'[p].outbox
    BY <2>1 DEF RowStep
  <2> QED
    BY <1>1, <2>1, <2>2, <2>3, ViewThen
<1>4. CASE p = q /\ pc'[p] \in Seeded /\ pc[p] \in Seeding
  <2>1. db' = View(p) /\ mine'[p] = NoRows
    <3>1. CommitSeed(p)
      BY <1>4, LeavesByCommit
    <3> QED
      BY <3>1 DEF CommitSeed, Write, TypeInv
  <2> QED
    BY <2>1, ViewThen, NoRowsType
<1>5. CASE p = q /\ pc'[p] \in Seeded /\ pc[p] \in Seeded
  <2>1. mine[p] = NoRows /\ mine'[p] = NoRows
    BY <1>5, SeedLeaves DEF RootsInv, RootsOk, Seeding, Seeded
  <2>2. db' = db
    BY <1>5, SharedKept DEF CommitSeed, Seeded
  <2> QED
    BY <1>1, <2>1, <2>2, ViewThen, NoRowsType
<1> QED
  BY <1>2, <1>3, <1>4, <1>5

\* A fresh row is not touched by others.
LEMMA FreshStays ==
  ASSUME TypeInv, TypeInv', FreshInv, NEW q \in Processes, Act(q),
         NEW p \in Processes \ {q},
         NEW k \in DOMAIN View(p).outbox, View(p).outbox[k] = Fresh
  PROVE  k \in DOMAIN View(p)'.outbox /\ View(p)'.outbox[k] = Fresh
<1>1. k \in DOMAIN mine[p].outbox /\ mine[p].outbox[k] = Fresh
  BY ViewRows DEF FreshInv
<1> QED
  BY <1>1, OthersKeep, ViewThen

\* A point that is right stays right: others write to the index when the tables
\* are whole, the process itself when the asset is bound whole.
LEMMA RightStays ==
  ASSUME TypeInv, TypeInv', RootsInv, FreshInv, Quiet, NEW q \in Processes, Act(q),
         NEW p \in Processes, {pc[p], pc'[p]} \subseteq Seeding \union Seeded,
         NEW a \in Assets, NEW i \in ItemsOf(a), Right(p, i),
         db.roots \/ (pc[p] \in Seeding /\ BoundWhole(p, a))
  PROVE  Right(p, i)'
<1>1. SaidDone(View(p)'.outbox, i)
  BY DoneStays DEF Right, SaidDone
<1>2. Exact(i) /\ i \in Items
  BY DEF Right, Items
<1>3. Exact(i)'
  <2>1. CASE db.roots
    BY <1>2, <2>1, ExactStays DEF RootsInv
  <2>2. CASE ~ db.roots /\ p # q
    <3>1. pc[q] \notin Seeding
      BY <2>2 DEF RootsInv, RootsOk
    <3>2. points' = points
      BY <3>1, SharedKept DEF Claimable, Seeding
    <3> QED
      BY <1>2, <3>2 DEF Exact
  <2>3. CASE ~ db.roots /\ p = q
    <3>1. Payload(View(p).bound, i) = Manifest[i]
      BY <2>3, PayloadWhole
    <3>2. CASE points' = points
      BY <1>2, <3>2 DEF Exact
    <3>3. ASSUME NEW k \in DOMAIN View(p).outbox, points' = Written(p, k) PROVE Exact(i)'
      BY <1>2, <3>1, <3>3, WrittenPoint DEF Exact
    <3> QED
      BY <2>3, <3>2, <3>3, SharedKept
  <2> QED
    BY <2>1, <2>2, <2>3
<1> QED
  BY <1>1, <1>3 DEF Right

\* The steps of other processes.
LEMMA CalmOfOthers ==
  ASSUME TypeInv, TypeInv', LockInv, RootsInv, StepInv, FreshInv, Quiet,
         NEW q \in Processes, Act(q), NEW p \in Processes \ {q}, CalmOk(p)
  PROVE  CalmOk(p)'
<1>1. /\ pc'[p] = pc[p] /\ step'[p] = step[p] /\ mine'[p] = mine[p] /\ passed'[p] = passed[p]
  BY OthersKeep
<1>2. db' = db \/ (db'.roots /\ AssetsReady')
  BY SharedKept, CommitsWhole
<1>3. ASSUME pc[p] \in Seeding PROVE StoredActive(p)'
  <2>1. StoredActive(p)
    BY <1>3 DEF CalmOk
  <2>2. CASE db' = db
    <3>1. /\ View(p)'.stored = db.stored \union mine[p].stored
          /\ View(p)'.active = db.active \union mine[p].active
      BY <1>1, <2>2, ViewThen
    <3>2. /\ View(p).stored = db.stored \union mine[p].stored
          /\ View(p).active = db.active \union mine[p].active
      BY ViewType
    <3> QED
      BY <1>1, <2>1, <3>1, <3>2 DEF StoredActive
  <2>3. CASE AssetsReady'
    <3>1. View(p)'.stored \subseteq Assets /\ Assets \subseteq View(p)'.active
      BY <2>3, ViewThen DEF AssetsReady, TypeInv, IsTables, Tables
    <3> QED
      BY <3>1 DEF StoredActive
  <2> QED
    BY <1>2, <2>2, <2>3
<1>4. ASSUME pc[p] = "repairing" PROVE Repairing(p)'
  <2>1. step[p] \in 1..Steps
    BY <1>4, StepsType DEF TypeInv, Seeding
  <2>2. AssetAt(step[p]) \in Assets
    BY <2>1, StepsType
  <2>3. BoundWhole(p, AssetAt(step[p]))
    BY <1>4 DEF StepInv, StepOk
  <2> SUFFICES ASSUME NEW i \in ItemsOf(AssetAt(step[p]))
               PROVE  Right(p, i)' \/ SaidFresh(View(p)'.outbox, i)
    BY <1>1 DEF Repairing
  <2>4. CASE Right(p, i)
    BY <1>1, <1>4, <2>2, <2>3, <2>4, RightStays DEF Seeding
  <2>5. CASE SaidFresh(View(p).outbox, i)
    BY <2>5, FreshStays DEF SaidFresh
  <2> QED
    BY <1>4, <2>4, <2>5 DEF CalmOk, Repairing, Seeding
<1>5. ASSUME pc[p] \in Seeding PROVE GoneOver(p)'
  <2> SUFFICES ASSUME NEW m \in Len(Corpora) + 1..step[p] - 1, NEW i \in ItemsOf(AssetAt(m))
               PROVE  Right(p, i)'
    BY <1>1 DEF GoneOver
  <2>1. step[p] \in Nat /\ step[p] > Len(Corpora) /\ m \in Len(Corpora) + 1..Steps
    BY <1>5, StepsType DEF TypeInv
  <2>2. AssetAt(m) \in Assets /\ BoundWhole(p, AssetAt(m))
    BY <1>5, <2>1, LateWhole, StepsType
  <2>3. Right(p, i)
    BY <1>5 DEF CalmOk, GoneOver
  <2> QED
    BY <1>1, <1>5, <2>2, <2>3, RightStays
<1>6. ASSUME pc[p] \in Seeded PROVE db'.roots /\ \A i \in Items : Right(p, i)'
  <2>1. db.roots /\ \A i \in Items : Right(p, i)
    BY <1>6 DEF CalmOk
  <2>2. ASSUME NEW i \in Items PROVE Right(p, i)'
    <3>1. PICK a \in Assets : i \in ItemsOf(a)
      BY DEF Items
    <3> QED
      BY <1>1, <1>6, <2>1, <3>1, RightStays
  <2> QED
    BY <1>2, <2>1, <2>2
<1>7. FactsOnce => FactsOnce'
  BY FactsStay
<1>8. pc[p] # "repairing" => Repairing(p)'
  BY <1>1 DEF Repairing
<1>9. pc'[p] \in Seeding => StoredActive(p)' /\ Repairing(p)' /\ GoneOver(p)'
  BY <1>1, <1>3, <1>4, <1>5, <1>8
<1> QED
  BY <1>1, <1>6, <1>7, <1>9 DEF CalmOk

\* The steps of its own seed.
LEMMA GoneOverStays ==
  ASSUME TypeInv, TypeInv', RootsInv, StepInv, FreshInv, Quiet,
         NEW p \in Processes, Act(p), CalmOk(p), pc[p] \in Seeding, pc'[p] \in Seeding,
         NEW m \in Len(Corpora) + 1..step[p] - 1, NEW i \in ItemsOf(AssetAt(m))
  PROVE  Right(p, i)'
<1>1. step[p] \in Nat /\ step[p] > Len(Corpora) /\ m \in Len(Corpora) + 1..Steps
  BY StepsType DEF TypeInv
<1>2. AssetAt(m) \in Assets /\ BoundWhole(p, AssetAt(m))
  BY <1>1, LateWhole, StepsType
<1>3. Right(p, i)
  BY DEF CalmOk, GoneOver
<1> QED
  BY <1>2, <1>3, RightStays

\* A row that it sees is fresh or done, and none is fresh when it goes on.
LEMMA CleanView ==
  ASSUME TypeInv, Quiet, NEW p \in Processes
  PROVE  Clean(View(p).outbox)
BY ViewRows DEF Quiet, Clean

\* After a reconciliation the points of the asset are right or about to be
\* written.
LEMMA RepairingFrom ==
  ASSUME TypeInv, TypeInv', Quiet, Quiet', NEW p \in Processes, Reconcile(p),
         AssetAt(step[p]) \in View(p).active
  PROVE  \A i \in ItemsOf(AssetAt(step[p])) :
           Right(p, i)' \/ SaidFresh(View(p)'.outbox, i)
<1> USE DEF shared
<1> DEFINE a == AssetAt(step[p])
           new == Reconciled(p, a, mine[p].outbox)
           seen == Over(new, db.outbox)
<1>1. a \in Assets /\ mine'[p].outbox = new /\ db' = db /\ points' = points
  BY ReconcileWrites DEF Reconcile
<1>2. View(p)'.outbox = seen
  BY <1>1 DEF View
<1>3. \A i \in ItemsOf(a) : \E k \in DOMAIN seen :
        k[1] = i /\ seen[k].status = IF Exact(i) THEN "COMPLETED" ELSE "PENDING"
  BY <1>1, ReconciledRows
<1>4. \A k \in DOMAIN View(p)'.outbox : View(p)'.outbox[k] \in {Fresh, Done}
  BY ViewThen DEF Quiet, Clean
<1> HIDE DEF seen
<1> SUFFICES ASSUME NEW i \in ItemsOf(a) PROVE Right(p, i)' \/ SaidFresh(View(p)'.outbox, i)
  OBVIOUS
<1>5. PICK k \in DOMAIN View(p)'.outbox :
        /\ k[1] = i
        /\ View(p)'.outbox[k].status = IF Exact(i) THEN "COMPLETED" ELSE "PENDING"
  BY <1>2, <1>3
<1>6. CASE Exact(i)
  <2>1. View(p)'.outbox[k] = Done
    BY <1>4, <1>5, <1>6, RowTypes
  <2>2. Exact(i)'
    BY <1>1, <1>6 DEF Exact
  <2> QED
    BY <1>5, <2>1, <2>2 DEF Right, SaidDone
<1>7. CASE ~ Exact(i)
  <2>1. View(p)'.outbox[k] = Fresh
    BY <1>4, <1>5, <1>7, RowTypes
  <2> QED
    BY <1>5, <2>1 DEF SaidFresh
<1> QED
  BY <1>6, <1>7

\* After an upsert the point is the manifest's; the others are as they were.
LEMMA RepairingOn ==
  ASSUME TypeInv, TypeInv', RootsInv, StepInv, FreshInv, Quiet,
         NEW p \in Processes, Act(p), Repairing(p), pc[p] = "repairing",
         NEW k \in DOMAIN View(p).outbox, Upsert(p, k)
  PROVE  \A i \in ItemsOf(AssetAt(step[p])) :
           Right(p, i)' \/ SaidFresh(View(p)'.outbox, i)
<1> DEFINE a == AssetAt(step[p])
<1>1. a \in Assets /\ BoundWhole(p, a)
  <2>1. step[p] \in 1..Steps
    BY StepsType DEF TypeInv, Seeding
  <2> QED
    BY <2>1, StepsType DEF StepInv, StepOk
<1>2. /\ points' = Written(p, k) /\ SetRow(p, k, Done) /\ db' = db /\ pc' = pc
      /\ View(p).outbox[k].status = "PENDING"
  BY DEF Upsert, Claimable, Done
<1>3. mine'[p].outbox = Over([j \in {k} |-> Done], mine[p].outbox)
  BY <1>2, RowTypes, SetRowWrites
<1>4. /\ k \in DOMAIN mine'[p].outbox /\ mine'[p].outbox[k] = Done
      /\ \A j \in DOMAIN mine'[p].outbox :
           j # k => j \in DOMAIN mine[p].outbox /\ mine'[p].outbox[j] = mine[p].outbox[j]
      /\ DOMAIN mine[p].outbox \subseteq DOMAIN mine'[p].outbox
  <2>1. /\ RowStep(p, mine[p].outbox, Over([j \in {k} |-> Done], mine[p].outbox))
        /\ Over([j \in {k} |-> Done], mine[p].outbox)[k] = Done
        /\ k \in DOMAIN Over([j \in {k} |-> Done], mine[p].outbox)
        /\ \A i \in DOMAIN Over([j \in {k} |-> Done], mine[p].outbox) : i # k =>
             /\ i \in DOMAIN mine[p].outbox
             /\ Over([j \in {k} |-> Done], mine[p].outbox)[i] = mine[p].outbox[i]
    BY <1>2, RowTypes, SetRowStep
  <2> QED
    BY <1>3, <2>1 DEF RowStep
<1>5. \A j \in DOMAIN View(p).outbox : j # k =>
        j \in DOMAIN View(p)'.outbox /\ View(p)'.outbox[j] = View(p).outbox[j]
  BY <1>2, <1>4, ViewRows, ViewThen
<1>6. k \in DOMAIN View(p)'.outbox /\ View(p)'.outbox[k] = Done
  BY <1>4, ViewThen
<1> SUFFICES ASSUME NEW i \in ItemsOf(a)
             PROVE  Right(p, i)' \/ SaidFresh(View(p)'.outbox, i)
  OBVIOUS
<1>7. CASE k[1] = i
  <2>1. Payload(View(p).bound, i) = Manifest[i]
    BY <1>1, PayloadWhole
  <2>2. Exact(i)'
    BY <1>2, <1>7, <2>1, WrittenPoint DEF Exact
  <2> QED
    BY <1>6, <1>7, <2>2 DEF Right, SaidDone
<1>8. CASE k[1] # i
  <2>1. CASE Right(p, i)
    BY <1>1, <1>2, <2>1, RightStays DEF Seeding
  <2>2. CASE SaidFresh(View(p).outbox, i)
    BY <1>5, <1>8, <2>2 DEF SaidFresh
  <2> QED
    BY <2>1, <2>2 DEF Repairing
<1> QED
  BY <1>7, <1>8

\* Once it is drained, what it repairs is right, and the sections of the asset it
\* indexes are done.
LEMMA DrainedIsRight ==
  ASSUME TypeInv, FreshInv, Quiet, NEW p \in Processes, Drained(p), Repairing(p),
         pc[p] = "repairing"
  PROVE  \A i \in ItemsOf(AssetAt(step[p])) :
           Right(p, i) /\ RowsOf(View(p).outbox, i, "COMPLETED") # {}
<1> SUFFICES ASSUME NEW i \in ItemsOf(AssetAt(step[p]))
             PROVE  Right(p, i) /\ RowsOf(View(p).outbox, i, "COMPLETED") # {}
  OBVIOUS
<1>1. ~ SaidFresh(View(p).outbox, i)
  BY DrainedOfFresh DEF SaidFresh
<1>2. Right(p, i)
  BY <1>1 DEF Repairing
<1>3. RowsOf(View(p).outbox, i, "COMPLETED") # {}
  BY <1>2, RowTypes DEF Right, SaidDone, RowsOf
<1> QED
  BY <1>2, <1>3

LEMMA DrainedIsDone ==
  ASSUME TypeInv, FreshInv, Quiet, NEW p \in Processes, Drained(p),
         pc[p] \in {"indexing", "repairing"}
  PROVE  \A k \in DOMAIN View(p).outbox : View(p).outbox[k] = Done
BY DrainedOfFresh, CleanView DEF Clean

LEMMA CalmInSeed ==
  ASSUME TypeInv, TypeInv', RootsInv, StepInv, FreshInv, Quiet, Quiet',
         NEW p \in Processes, Act(p), CalmOk(p), pc'[p] \in Seeding,
         ~ \E k \in DOMAIN View(p).outbox : UpsertFails(p, k)
  PROVE  StoredActive(p)' /\ Repairing(p)' /\ GoneOver(p)'
<1> USE DEF shared, own
<1>1. /\ View(p).active \subseteq View(p)'.active /\ db' = db
      /\ View(p).stored = db.stored \union mine[p].stored
      /\ View(p)'.stored = db'.stored \union mine'[p].stored
      /\ View(p)'.active = db'.active \union mine'[p].active
  BY ViewGrows, SeedMoves, ViewType, ViewThen
<1>2. pc[p] \in Seeding => StoredActive(p) /\ Repairing(p) /\ GoneOver(p)
  BY DEF CalmOk
<1>3. pc[p] \in Seeding /\ step'[p] = step[p] => GoneOver(p)'
  BY GoneOverStays DEF GoneOver
<1>4. ASSUME NEW r, Exit(p, r) PROVE FALSE
  BY <1>4, ExitKeeps DEF Seeding
<1>5. CASE LookForRoots(p)
  <2>1. pc'[p] = "seeding" /\ step'[p] = 1 /\ mine'[p] = NoRows /\ db.roots
    BY <1>5 DEF LookForRoots, Goto, TypeInv, RootsInv, RootsOk, Seeding
  <2>2. StoredActive(p)'
    BY <1>1, <2>1 DEF StoredActive, RootsInv, AssetsReady, NoRows
  <2> QED
    BY <2>1, <2>2, StepsType DEF Repairing, GoneOver
<1>6. CASE CreateRoots(p)
  <2>1. /\ ~ db.roots /\ pc[p] = "creating" /\ pc'[p] = "seeding" /\ step'[p] = 1
    <3>1. pc[p] = "creating"
      BY <1>6 DEF CreateRoots
    <3>2. ~ db.roots
      BY <3>1, SeedMoves
    <3> QED
      BY <1>6, <3>1, <3>2 DEF CreateRoots, Goto, TypeInv
  <2>2. db = NoRows /\ mine[p] = NoRows
    BY <2>1 DEF RootsInv, RootsOk, Seeding
  <2>3. mine'[p].stored = {} /\ db.stored = {}
    BY <1>6, <2>1, <2>2, CreateWrites DEF NoRows
  <2> QED
    BY <1>1, <2>1, <2>3, StepsType DEF StoredActive, Repairing, GoneOver
<1>7. CASE Ingest(p)
  <2>1. pc[p] = "seeding" /\ pc'[p] = "indexing" /\ step' = step
    BY <1>7 DEF Ingest, Goto, TypeInv
  <2>2. mine'[p].stored = mine[p].stored \union {AssetAt(step[p])}
    BY <1>7, IngestWrites
  <2> QED
    BY <1>1, <1>2, <1>3, <2>1, <2>2 DEF StoredActive, Repairing, Seeding
<1>8. CASE Reconcile(p)
  <2>1. /\ AssetAt(step[p]) \in View(p).active /\ pc[p] = "seeding"
        /\ pc'[p] = "repairing" /\ step' = step
    BY <1>4, <1>8 DEF Reconcile, Goto, TypeInv
  <2>2. mine'[p].stored = mine[p].stored
    BY <1>8, <2>1, ReconcileWrites
  <2>3. Repairing(p)'
    BY <1>8, <2>1, RepairingFrom DEF Repairing
  <2> QED
    BY <1>1, <1>2, <1>3, <2>1, <2>2, <2>3 DEF StoredActive, Seeding
<1>9. ASSUME NEW k \in DOMAIN View(p).outbox, Upsert(p, k)
      PROVE  StoredActive(p)' /\ Repairing(p)' /\ GoneOver(p)'
  <2>1. SetRow(p, k, Done) /\ pc' = pc /\ step' = step
        /\ pc[p] \in {"indexing", "repairing"}
    BY <1>9 DEF Upsert, Claimable, Done
  <2>2. mine'[p].stored = mine[p].stored
    BY <2>1, RowTypes, SetRowWrites
  <2>3. StoredActive(p)'
    BY <1>1, <1>2, <2>1, <2>2 DEF StoredActive, Seeding
  <2>4. Repairing(p)'
    <3>1. CASE pc[p] = "repairing"
      BY <1>2, <1>9, <2>1, <3>1, RepairingOn DEF Repairing, Seeding
    <3> QED
      BY <2>1, <3>1 DEF Repairing
  <2> QED
    BY <1>3, <2>1, <2>3, <2>4 DEF Seeding
<1>10. CASE Activate(p)
  <2>1. pc[p] = "indexing" /\ pc'[p] \in {"seeding", "committing"} /\ Drained(p)
        /\ step'[p] = step[p] + 1
    BY <1>10 DEF Activate, NextStep, Goto, TypeInv
  <2>2. step[p] \in 1..Len(Corpora) /\ AssetAt(step[p]) \in Assets
    <3>1. step[p] \in 1..Len(Corpora)
      BY <2>1, StepsType DEF StepInv, StepOk, TypeInv, Seeding
    <3> QED
      BY <3>1, StepsType
  <2>3. \A k \in DOMAIN View(p).outbox : View(p).outbox[k] = Done
    BY <2>1, DrainedIsDone
  <2>4. /\ mine'[p].active = mine[p].active \union {AssetAt(step[p])}
        /\ mine'[p].stored = mine[p].stored
    BY <1>10, <2>2, <2>3, ActivateWrites
  <2>5. StoredActive(p)'
    BY <1>1, <1>2, <2>1, <2>4 DEF StoredActive, Seeding
  <2> QED
    BY <2>1, <2>2, <2>5, StepsType DEF Repairing, GoneOver
<1>11. CASE Verify(p)
  <2>1. pc[p] = "repairing" /\ pc'[p] \in {"seeding", "committing"} /\ Drained(p)
        /\ step'[p] = step[p] + 1 /\ mine' = mine
    BY <1>4, <1>11 DEF Verify, NextStep, Goto, TypeInv
  <2>2. step[p] \in 1..Steps
    BY <2>1, StepsType DEF TypeInv, Seeding
  <2>3. AssetAt(step[p]) \in Assets /\ BoundWhole(p, AssetAt(step[p]))
    BY <2>1, <2>2, StepsType DEF StepInv, StepOk
  <2>4. StoredActive(p)'
    BY <1>1, <1>2, <2>1 DEF StoredActive, Seeding
  <2>5. GoneOver(p)'
    <3> SUFFICES ASSUME NEW m \in Len(Corpora) + 1..step[p], NEW i \in ItemsOf(AssetAt(m))
                 PROVE  Right(p, i)'
      BY <2>1, <2>2, StepsType DEF GoneOver
    <3>1. CASE m = step[p]
      <4>1. Right(p, i)
        BY <1>2, <2>1, <3>1, DrainedIsRight DEF Seeding
      <4> QED
        BY <2>1, <2>3, <3>1, <4>1, RightStays DEF Seeding
    <3>2. CASE m # step[p]
      <4>1. m \in Len(Corpora) + 1..step[p] - 1
        BY <2>2, <3>2, StepsType
      <4> QED
        BY <2>1, <4>1, GoneOverStays DEF Seeding
    <3> QED
      BY <3>1, <3>2
  <2> QED
    BY <2>1, <2>4, <2>5 DEF Repairing
<1>12. LookForRoots(p) \/ CreateRoots(p) \/ Ingest(p) \/ Reconcile(p) \/ Activate(p)
       \/ Verify(p) \/ \E k \in DOMAIN View(p).outbox : Upsert(p, k)
  <2>1. CASE Start(p) \/ Gate(p) \/ CommitSeed(p) \/ LookForFacts(p) \/ CommitFacts(p)
    BY <1>4, <2>1 DEF Start, Gate, CommitSeed, LookForFacts, CommitFacts, Goto, TypeInv,
       Seeding
  <2>2. CASE InspectPostgres(p) \/ InspectQdrant(p) \/ InspectMinio(p)
    BY <1>4, <2>2 DEF InspectPostgres, InspectQdrant, InspectMinio, InspectStore, Goto,
       TypeInv, Seeding
  <2>3. CASE SeedRaises(p) \/ Kill(p)
    BY <1>4, <2>3 DEF SeedRaises, Kill
  <2> QED
    BY <2>1, <2>2, <2>3 DEF Act
<1> QED
  BY <1>5, <1>6, <1>7, <1>8, <1>9, <1>10, <1>11, <1>12

\* Its steps from the commit on.
LEMMA CalmAfterSeed ==
  ASSUME TypeInv, TypeInv', LockInv, RootsInv, StepInv, FreshInv, Quiet,
         NEW p \in Processes, Act(p), CalmOk(p), pc'[p] \in Seeded,
         mode[p] = "prepare"
  PROVE  CalmOk(p)'
<1> USE DEF shared, own
<1>1. ASSUME NEW r, Exit(p, r) PROVE FALSE
  BY <1>1, ExitKeeps DEF Seeded
<1>2. CASE CommitSeed(p)
  <2>1. pc[p] = "committing" /\ pc'[p] = "facts" /\ step[p] = Steps + 1
    BY <1>2 DEF CommitSeed, Goto, TypeInv, Seeding
  <2>2. db'.roots
    BY <1>2, CommitsWhole
  <2>3. ASSUME NEW i \in Items PROVE Right(p, i)'
    <3>1. PICK a \in Assets : i \in ItemsOf(a)
      BY DEF Items
    <3>2. PICK n \in DOMAIN Finals : Finals[n] = a
      BY BootstrapAssumption
    <3>3. n \in 1..Len(Finals)
      BY <3>2, BootstrapAssumption
    <3>4. /\ Len(Corpora) + n \in Len(Corpora) + 1..step[p] - 1
          /\ AssetAt(Len(Corpora) + n) = a
      BY <2>1, <3>2, <3>3, StepsType DEF AssetAt
    <3>5. Right(p, i)
      BY <2>1, <3>1, <3>4 DEF CalmOk, GoneOver, Seeding
    <3>6. step[p] \in Nat /\ step[p] > Len(Corpora)
      BY <2>1, StepsType
    <3>7. BoundWhole(p, a)
      BY <2>1, <3>6, LateWhole DEF Seeding
    <3> QED
      BY <2>1, <3>1, <3>5, <3>7, RightStays DEF Seeding, Seeded
  <2> QED
    BY <2>1, <2>2, <2>3 DEF CalmOk, Seeding
<1>3. CASE ~ CommitSeed(p)
  <2>1. pc[p] \in Seeded
    <3>1. CASE Start(p) \/ LookForRoots(p) \/ CreateRoots(p) \/ SeedRaises(p) \/ Kill(p)
      BY <1>1, <3>1 DEF Start, LookForRoots, CreateRoots, SeedRaises, Kill, Goto, TypeInv,
         Seeded
    <3>2. CASE Gate(p)
      BY <1>1, <3>2 DEF Gate, Goto, TypeInv, Seeded
    <3>3. CASE Ingest(p) \/ Reconcile(p) \/ Activate(p) \/ Verify(p)
               \/ \E k \in DOMAIN View(p).outbox : Upsert(p, k) \/ UpsertFails(p, k)
      <4>1. pc[p] \in Seeding
        BY <3>3 DEF Ingest, Reconcile, Activate, Verify, Upsert, UpsertFails, Claimable,
           Seeding
      <4> QED
        BY <1>3, <4>1, LeavesByCommit
    <3>4. CASE LookForFacts(p) \/ CommitFacts(p) \/ InspectPostgres(p)
      BY <3>4 DEF LookForFacts, CommitFacts, InspectPostgres, Seeded
    <3>5. CASE InspectQdrant(p) \/ InspectMinio(p)
      BY <3>5 DEF InspectQdrant, InspectMinio, InspectStore, Seeded
    <3> QED
      BY <1>3, <3>1, <3>2, <3>3, <3>4, <3>5 DEF Act
  <2>2. db.roots /\ \A i \in Items : Right(p, i)
    BY <2>1 DEF CalmOk
  <2>3. db' = db /\ ~ mine[p].roots
    BY <1>3, <2>1, SharedKept DEF RootsInv, RootsOk, NoRows, Seeding, Seeded
  <2>4. ASSUME NEW i \in Items PROVE Right(p, i)'
    <3>1. PICK a \in Assets : i \in ItemsOf(a)
      BY DEF Items
    <3> QED
      BY <2>1, <2>2, <3>1, RightStays
  <2>5. pc'[p] \notin Seeding
    BY DEF Seeding, Seeded
  <2>6. pc[p] \notin {"idle", "gate", "rooting", "creating"} \union Seeding
    BY <2>1 DEF Seeding, Seeded
  <2>7. pc[p] \in {"inspecting", "inspecting_stores"} => FactsOnce'
    BY FactsStay DEF CalmOk
  <2>8. CASE LookForFacts(p)
    <3>1. pc'[p] = "inserting"
      BY <2>8 DEF LookForFacts, Goto, TypeInv
    <3> QED
      BY <2>2, <2>3, <2>4, <2>5, <3>1 DEF CalmOk
  <2>9. CASE CommitFacts(p)
    <3>1. pc'[p] = "inspecting" /\ pc[p] = "inserting"
      BY <2>9 DEF CommitFacts, Goto, TypeInv
    <3>2. FactsOnce'
      <4>1. missing[p] = {c \in Cases : facts[c] = 0} /\ facts \in [Cases -> {0, 1}]
        BY <3>1 DEF LockInv, TypeInv
      <4> QED
        BY <2>9, <4>1 DEF CommitFacts, FactsOnce
    <3> QED
      BY <2>2, <2>3, <2>4, <2>5, <3>1, <3>2 DEF CalmOk
  <2>10. CASE InspectPostgres(p)
    <3>1. pc'[p] = "inspecting_stores" /\ pc[p] = "inspecting"
      BY <2>10 DEF InspectPostgres, Goto, TypeInv
    <3>2. FactsOnce /\ AssetsReady /\ hardened
      BY <2>2, <3>1 DEF CalmOk, RootsInv, Quiet
    <3>3. LedgerCompleted
      <4>1. mine[p] = NoRows
        BY <2>6, <2>1 DEF RootsInv, RootsOk
      <4>2. DOMAIN View(p).outbox = DOMAIN db.outbox
            /\ \A k \in DOMAIN db.outbox : View(p).outbox[k] = db.outbox[k]
        BY <4>1, NoRowsType, ViewRows
      <4>3. \A i \in Items : \E k \in DOMAIN db.outbox : k[1] = i /\ db.outbox[k] = Done
        BY <2>2, <4>2 DEF Right, SaidDone
      <4>4. \A k \in DOMAIN db.outbox : db.outbox[k] = Done
        BY DEF Quiet, Clean, FreshInv
      <4> QED
        BY <4>3, <4>4, RowTypes DEF LedgerCompleted, RowsOf
    <3>4. passed'[p]
      BY ZenonT(60), <2>10, <3>2, <3>3 DEF InspectPostgres, TypeInv
    <3> QED
      BY <2>2, <2>3, <2>4, <2>5, <2>7, <3>1, <3>4 DEF CalmOk
  <2>11. ASSUME NEW store, NEW ok, InspectStore(p, store, ok), ok PROVE CalmOk(p)'
    <3>1. pc' = pc /\ passed' = [passed EXCEPT ![p] = @ /\ ok] /\ pc[p] = "inspecting_stores"
      BY <1>1, <2>11 DEF InspectStore
    <3>2. passed[p] /\ FactsOnce'
      BY <2>7, <3>1 DEF CalmOk
    <3>3. passed'[p]
      BY <2>11, <3>1, <3>2 DEF TypeInv
    <3> QED
      BY <2>2, <2>3, <2>4, <2>5, <3>1, <3>2, <3>3 DEF CalmOk
  <2>12. AllExact /\ AllStored
    BY <2>2 DEF Right, AllExact, AllStored, Quiet, RootsInv, AssetsReady
  <2>13. LookForFacts(p) \/ CommitFacts(p) \/ InspectPostgres(p) \/ InspectQdrant(p)
         \/ InspectMinio(p)
    <3>1. ~ (SeedRaises(p) \/ Kill(p) \/ Start(p))
      BY <1>1, <2>6 DEF SeedRaises, Kill, Start
    <3>2. ~ (Gate(p) \/ LookForRoots(p) \/ CreateRoots(p) \/ Ingest(p) \/ Reconcile(p)
             \/ Activate(p) \/ Verify(p)
             \/ \E k \in DOMAIN View(p).outbox : Upsert(p, k) \/ UpsertFails(p, k))
      BY <2>6 DEF Gate, LookForRoots, CreateRoots, Ingest, Reconcile, Activate, Verify,
         Upsert, UpsertFails, Claimable, Seeding
    <3> QED
      BY <1>3, <3>1, <3>2 DEF Act
  <2> QED
    BY <2>8, <2>9, <2>10, <2>11, <2>12, <2>13
       DEF InspectQdrant, InspectMinio, AllExact, AllStored
<1> QED
  BY <1>2, <1>3

LEMMA CalmNext ==
  /\ TypeInv /\ TypeInv' /\ LockInv /\ RootsInv /\ StepInv /\ FreshInv
  /\ QuietInv /\ QuietInv' /\ CalmInv /\ [Next]_vars
  => CalmInv'
<1> SUFFICES ASSUME TypeInv, TypeInv', LockInv, RootsInv, StepInv, FreshInv, QuietInv,
                    QuietInv', CalmInv, [Next]_vars
             PROVE  CalmInv'
  OBVIOUS
<1> USE DEF shared, own
<1>1. CASE UNCHANGED vars
  BY <1>1 DEF vars, CalmInv, CalmOk, StoredActive, Repairing, GoneOver, Right, Exact, View,
     FactsOnce
<1>2. CASE Lose
  BY <1>2 DEF Lose, CalmInv
<1>3. ASSUME NEW q \in Processes, Act(q), NEW p \in Processes, calm'[p] PROVE CalmOk(p)'
  <2>1. CASE ~ calm[p]
    <3>1. pc'[p] = "gate"
      BY <1>3, <2>1, CalmFrom
    <3> QED
      BY <3>1 DEF CalmOk, Seeding, Seeded
  <2>2. CASE calm[p]
    <3>1. Quiet /\ Quiet' /\ CalmOk(p) /\ (pc[p] # "idle" => mode[p] = "prepare")
      BY <1>3, <2>2 DEF QuietInv, CalmInv
    <3>2. CASE p # q
      BY <1>3, <3>1, <3>2, CalmOfOthers
    <3>3. CASE p = q /\ pc'[p] \in Seeding
      <4>1. StoredActive(p)' /\ Repairing(p)' /\ GoneOver(p)'
        BY <1>3, <3>1, <3>3, CalmFrom, CalmInSeed
      <4> QED
        BY <3>3, <4>1 DEF CalmOk, Seeding, Seeded
    <3>4. CASE p = q /\ pc'[p] \in Seeded
      <4>1. pc[p] # "idle"
        <5>1. pc[p] = "idle" => Start(p)
          BY <1>3, <3>4 DEF Act, Gate, LookForRoots, CreateRoots, Ingest, Reconcile, Upsert,
             UpsertFails, Claimable, Activate, Verify, SeedRaises, CommitSeed, LookForFacts,
             CommitFacts, InspectPostgres, InspectQdrant, InspectMinio, InspectStore, Kill
        <5>2. Start(p) => pc'[p] \in {"gate", "idle"}
          BY ExitKeeps DEF Start, Goto, TypeInv
        <5> QED
          BY <3>4, <5>1, <5>2 DEF Seeded
      <4> QED
        BY <1>3, <3>1, <3>4, <4>1, CalmAfterSeed
    <3>5. CASE p = q /\ pc'[p] \notin Seeding \union Seeded
      BY <3>5 DEF CalmOk, Seeding, Seeded
    <3> QED
      BY <3>2, <3>3, <3>4, <3>5
  <2> QED
    BY <2>1, <2>2
<1>4. ASSUME NEW q \in Processes, Act(q) PROVE CalmInv'
  BY <1>3, <1>4 DEF CalmInv
<1> QED
  BY <1>1, <1>2, <1>4, ActOrLose

\* What an undisturbed preparation reports.
LEMMA ReportNext == PrepareInv /\ [Next]_vars => RepeatedPrepareIsReady'
<1> SUFFICES ASSUME PrepareInv, [Next]_vars PROVE RepeatedPrepareIsReady'
  OBVIOUS
<1> USE DEF shared, own, PrepareInv
<1>1. CASE UNCHANGED vars
  BY <1>1 DEF vars, RepeatedPrepareIsReady
<1>2. CASE Lose
  BY <1>2 DEF Lose, RepeatedPrepareIsReady
<1>3. ASSUME NEW q \in Processes, Act(q), NEW p \in Processes, report'[p] # None, calm'[p]
      PROVE  report'[p] = "ready"
  <2>1. CASE p # q
    BY <1>3, <2>1, OthersKeep DEF RepeatedPrepareIsReady
  <2>2. CASE p = q /\ ~ calm[p]
    BY <1>3, <2>2, CalmFrom
  <2>3. CASE p = q /\ calm[p]
    <3>1. Quiet /\ CalmOk(p)
      BY <2>3 DEF QuietInv, CalmInv
    <3>2. CASE report' = report
      BY <1>3, <2>3, <3>2 DEF RepeatedPrepareIsReady
    <3>3. CASE Start(p)
      BY <1>3, <3>3 DEF Start, TypeInv
    <3>4. CASE Gate(p)
      BY <3>1, <3>2, <3>4 DEF Gate, Quiet
    <3>5. CASE CreateRoots(p) \/ SeedRaises(p) \/ Kill(p)
      BY <1>3, <3>2, <3>5 DEF CreateRoots, SeedRaises, Kill, TypeInv
    <3>6. CASE Reconcile(p)
      <4>1. pc[p] = "seeding" /\ step[p] \in 1..Steps /\ Before(p, step[p]) /\ StoredActive(p)
        BY <3>1, <3>6, StepsType DEF Reconcile, TypeInv, StepInv, StepOk, CalmOk, Seeding
      <4>2. AssetAt(step[p]) \in View(p).stored
        <5>1. CASE step[p] <= Len(Corpora)
          BY <3>6, <5>1 DEF Reconcile
        <5>2. CASE step[p] > Len(Corpora)
          <6>1. AssetAt(step[p]) \in Assets
            BY <4>1, <5>2, StepsType
          <6>2. PICK n \in DOMAIN Corpora : Corpora[n][2] = AssetAt(step[p])
            BY <6>1, BootstrapAssumption
          <6>3. n \in 1..step[p] - 1 /\ n <= Len(Corpora)
            BY <4>1, <5>2, <6>2, StepsType
          <6> QED
            BY <4>1, <6>2, <6>3 DEF Before
        <5> QED
          BY <4>1, <5>1, <5>2, StepsType
      <4>3. AssetAt(step[p]) \in View(p).active
        BY <4>1, <4>2 DEF StoredActive
      <4> QED
        BY <3>2, <3>6, <4>3 DEF Reconcile
    <3>7. CASE Verify(p)
      <4>1. Drained(p) /\ pc[p] = "repairing" /\ Repairing(p)
        BY <3>1, <3>7 DEF Verify, CalmOk, Seeding
      <4>2. \A i \in ItemsOf(AssetAt(step[p])) :
              Right(p, i) /\ RowsOf(View(p).outbox, i, "COMPLETED") # {}
        BY <3>1, <4>1, DrainedIsRight
      <4> QED
        BY <3>2, <3>7, <4>2 DEF Verify, Right
    <3>8. ASSUME NEW store, NEW ok, InspectStore(p, store, ok), ok PROVE report'[p] = "ready"
      <4>1. passed[p]
        BY <3>1, <3>8 DEF InspectStore, CalmOk
      <4> QED
        BY <1>3, <2>3, <3>2, <3>8, <4>1, ExitKeeps DEF InspectStore
    <3>9. CASE InspectQdrant(p) \/ InspectMinio(p)
      <4>1. AllExact /\ AllStored
        BY <3>1, <3>9 DEF InspectQdrant, InspectMinio, InspectStore, CalmOk, Seeded, Right,
           AllExact, AllStored, Quiet, RootsInv, AssetsReady
      <4> QED
        BY <3>8, <3>9, <4>1 DEF InspectQdrant, InspectMinio, AllExact, AllStored
    <3>10. CASE \/ LookForRoots(p) \/ Ingest(p) \/ Activate(p) \/ CommitSeed(p)
                \/ LookForFacts(p) \/ CommitFacts(p) \/ InspectPostgres(p)
                \/ \E k \in DOMAIN View(p).outbox : Upsert(p, k) \/ UpsertFails(p, k)
      BY <3>2, <3>10 DEF LookForRoots, Ingest, Activate, CommitSeed, LookForFacts,
         CommitFacts, InspectPostgres, Upsert, UpsertFails
    <3> QED
      BY <1>3, <2>3, <3>3, <3>4, <3>5, <3>6, <3>7, <3>9, <3>10 DEF Act
  <2> QED
    BY <2>1, <2>2, <2>3
<1>4. ASSUME NEW q \in Processes, Act(q) PROVE RepeatedPrepareIsReady'
  BY <1>3, <1>4 DEF RepeatedPrepareIsReady
<1> QED
  BY <1>1, <1>2, <1>4, ActOrLose

LEMMA PrepareInit == Init => PrepareInv
<1> SUFFICES ASSUME Init PROVE PrepareInv
  OBVIOUS
<1>1. /\ \A p \in Processes : /\ pc[p] = "idle" /\ mine[p] = NoRows /\ report[p] = None
                              /\ ~ calm[p] /\ checked[p] = {}
  BY DEF Init
<1>2. db = NoRows \/ db = Prepared
  BY DEF Init
<1>3. RootsInv
  BY <1>1, <1>2 DEF RootsInv, RootsOk, AssetsReady, Prepared, NoRows, Seeding
<1>4. FreshInv
  <2>1. \A k \in DOMAIN NoRows.outbox : FALSE
    BY NoRowsType
  <2>2. \A k \in DOMAIN Prepared.outbox : Prepared.outbox[k] = Done
    BY DEF Prepared, Done
  <2> QED
    BY <1>1, <1>2, <2>1, <2>2, RowTypes DEF FreshInv, FreshOk
<1>5. LockInv /\ StepInv /\ QuietInv /\ CalmInv /\ RepeatedPrepareIsReady
  BY <1>1 DEF LockInv, StepInv, StepOk, QuietInv, CalmInv, RepeatedPrepareIsReady,
     Seeding
<1> QED
  BY <1>3, <1>4, <1>5, TypeInit DEF PrepareInv

\* A preparation that nothing disturbs ends ready.  The tables it starts from are
\* whole or empty, and in an empty database it is alone; every row it leaves behind
\* at a step is done, for no other session has locked a fresh row of its own; the
\* point of an asset it repairs is right or has such a row, and what is written is
\* right because all bindings of the asset are there by then.
THEOREM PreparedIsReady == Spec => []RepeatedPrepareIsReady
<1>1. Init => PrepareInv
  BY PrepareInit
<1>2. PrepareInv /\ [Next]_vars => PrepareInv'
  <2> SUFFICES ASSUME PrepareInv, [Next]_vars PROVE PrepareInv'
    OBVIOUS
  <2>1. TypeInv' /\ LockInv'
    BY TypeNext, LockNext DEF PrepareInv
  <2>2. RootsInv' /\ StepInv' /\ FreshInv' /\ QuietInv'
    BY <2>1, RootsNext, StepNext, FreshNext, QuietNext DEF PrepareInv
  <2>3. CalmInv'
    BY <2>1, <2>2, CalmNext DEF PrepareInv
  <2> QED
    BY <2>1, <2>2, <2>3, ReportNext DEF PrepareInv
<1>3. PrepareInv => RepeatedPrepareIsReady
  BY DEF PrepareInv
<1> QED
  BY <1>1, <1>2, <1>3, PTL DEF Spec
=============================================================================
