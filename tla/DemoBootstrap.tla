---------------------------- MODULE DemoBootstrap ----------------------------
(***************************************************************************)
(* The repeatable preparation of the demonstration: scripts/bootstrap_demo *)
(* seeds the frozen assets (seed_synthetic_data.py), adds the financial    *)
(* facts and inspects the result (demo_bootstrap.py); with --check-only it *)
(* inspects alone.  Several processes may do this at a time, and die.      *)
(*                                                                         *)
(* The seed is one transaction: what it has written is in mine until it    *)
(* commits.  Objects and points are written outside of it and stay when it *)
(* rolls back.  A point is the set of cases whose borrowers its payload    *)
(* names; the payload of a summary names none.                             *)
(***************************************************************************)
EXTENDS Integers, Sequences, FiniteSets

CONSTANTS
  Cases, Assets,
  Corpora,      \* the corpora of the cases in a row: a sequence of <<case, asset>>
  Finals,       \* the assets in the order of the last reconciliation
  Sections, Summaries,  \* the nodes of an asset that are indexed
  Processes,
  Profiles,     \* the settings a process may be started with
  MaxAttempts,  \* MAX_ATTEMPTS of the index worker
  MaxStarts,    \* bound on the processes started
  MaxMishaps,   \* bound on the errors, kills and losses together
  None

ItemsOf(a) == Sections[a] \union Summaries[a]
Items == UNION {ItemsOf(a) : a \in Assets}

(* The frozen manifest: the cases an asset is bound to, and the points.     *)
Bindings == {Corpora[n] : n \in DOMAIN Corpora}
BoundTo(bindings, a) == {c \in Cases : <<c, a>> \in bindings}
AssetOf(i) == CHOOSE a \in Assets : i \in ItemsOf(a)
Payload(bindings, i) ==
  IF i \in Sections[AssetOf(i)] THEN BoundTo(bindings, AssetOf(i)) ELSE {}
Manifest == [i \in Items |-> Payload(Bindings, i)]

ASSUME BootstrapAssumption ==
  /\ Corpora \in Seq(Cases \X Assets) /\ Finals \in Seq(Assets) /\ Assets # {}
  /\ \A a \in Assets : /\ \E n \in DOMAIN Corpora : Corpora[n][2] = a
                       /\ \E n \in DOMAIN Finals : Finals[n] = a
                       /\ Sections[a] # {} /\ Summaries[a] # {}
  /\ MaxAttempts \in Nat \ {0}
  /\ IsFiniteSet(Items) /\ IsFiniteSet(Processes) /\ None \notin Processes

(* Nodes belong to one asset, and the manifest binds an asset to two cases   *)
(* at most.  A third would find the first two bindings written, and neither *)
(* its point nor that of the manifest.                                      *)
ASSUME ManifestAssumption ==
  /\ \A a, b \in Assets : a # b => ItemsOf(a) \cap ItemsOf(b) = {}
  /\ \A l, m, n \in DOMAIN Corpora :
       Corpora[l][2] = Corpora[m][2] /\ Corpora[m][2] = Corpora[n][2]
       => l = m \/ m = n \/ l = n

VARIABLES
  db,       \* what is committed, see Rows
  facts,    \* committed rows of the facts of each case
  points,   \* the vector index: the payload of each item, or None
  objects,  \* the raw objects in the object store
  hardened, \* do role, migrations, policies and grants of the database match?
  lock,     \* who holds the advisory lock of the facts
  pc, mode,
  step,     \* the step of the seed, from 1
  mine,     \* what the seed of a process has written and not committed
  missing,  \* the cases whose facts it inserts
  checked,  \* the components it has inspected
  passed,   \* whether they all passed
  report,   \* what it reported last
  calm,     \* nothing has disturbed this preparation (see RepeatedPrepareIsReady)
  intact,   \* the processes since whose look at the database nothing was lost
  ready,    \* such a process reported ready, and nothing has been lost since
  starts, mishaps

shared == <<db, facts, points, objects, hardened, lock>>
own == <<pc, mode, step, mine, missing, checked, passed, report>>
bounds == <<starts, mishaps>>
vars == <<shared, own, calm, intact, ready, bounds>>

(* Tenant, users, entities and cases (roots), the versions stored and active, *)
(* their bindings, and the outbox: a row of an item is numbered, and attempts *)
(* are kept while it is PENDING.  No session commits a row in PROCESSING.     *)
Fresh == [status |-> "PENDING", attempts |-> 0]
Ended(how) == [status |-> how, attempts |-> 0]
NoRows == [roots |-> FALSE, stored |-> {}, active |-> {}, bound |-> {}, outbox |-> <<>>]

(* Rows written over others.                                                *)
Over(new, old) ==
  [k \in DOMAIN new \union DOMAIN old |-> IF k \in DOMAIN new THEN new[k] ELSE old[k]]

(* What a session sees: the committed rows and what it has written itself.  *)
View(p) ==
  LET w == mine[p] IN
  [roots |-> db.roots \/ w.roots, stored |-> db.stored \union w.stored,
   active |-> db.active \union w.active, bound |-> db.bound \union w.bound,
   outbox |-> Over(w.outbox, db.outbox)]

(* Rows of an item by their status, the number of a new one, and the rows   *)
(* that another session has locked.                                         *)
RowsOf(outbox, i, status) == {k \in DOMAIN outbox : k[1] = i /\ outbox[k].status = status}
NewRow(i) ==
  LET taken == {k[2] : k \in UNION {DOMAIN View(p).outbox : p \in Processes}}
  IN <<i, CHOOSE n \in 1..Cardinality(taken) + 1 : n \notin taken>>
Locked(p) == UNION {DOMAIN mine[q].outbox : q \in Processes \ {p}}

Exact(i) == points[i] = Manifest[i]

(* What a preparation leaves that nothing disturbed.                        *)
Prepared ==
  [roots |-> TRUE, stored |-> Assets, active |-> Assets, bound |-> Bindings,
   outbox |-> [k \in Items \X {1} |-> Ended("COMPLETED")]]

Init ==
  /\ \/ /\ db = NoRows /\ facts = [c \in Cases |-> 0]
        /\ points = [i \in Items |-> None] /\ objects = {}
     \/ /\ db = Prepared /\ facts = [c \in Cases |-> 1]
        /\ points = Manifest /\ objects = Assets
  /\ hardened \in BOOLEAN /\ lock = None
  /\ pc = [p \in Processes |-> "idle"] /\ mode = [p \in Processes |-> "check"]
  /\ step = [p \in Processes |-> 0] /\ mine = [p \in Processes |-> NoRows]
  /\ missing = [p \in Processes |-> {}] /\ checked = [p \in Processes |-> {}]
  /\ passed = [p \in Processes |-> FALSE] /\ report = [p \in Processes |-> None]
  /\ calm = [p \in Processes |-> FALSE] /\ intact = {} /\ ready = FALSE
  /\ starts = 0 /\ mishaps = 0

Goto(p, place) == pc' = [pc EXCEPT ![p] = place]
Write(p, rows) == mine' = [mine EXCEPT ![p] = rows]

(* The process prints its report and exits; what it has not committed is    *)
(* rolled back, and its lock released with the transaction.                 *)
Exit(p, result) ==
  /\ Goto(p, "idle") /\ Write(p, NoRows)
  /\ report' = [report EXCEPT ![p] = result]
  /\ step' = [step EXCEPT ![p] = 0] /\ missing' = [missing EXCEPT ![p] = {}]
  /\ checked' = [checked EXCEPT ![p] = {}] /\ passed' = [passed EXCEPT ![p] = FALSE]
  /\ lock' = IF lock = p THEN None ELSE lock
  /\ mode' = [mode EXCEPT ![p] = "check"]
  /\ UNCHANGED <<db, facts, points, objects, hardened>>

(***************************************************************************)
(* The two gates before anything is written                                *)
(***************************************************************************)
(* Infrastructure of this machine alone, complete settings, and external    *)
(* models only if they were allowed on the command line.                    *)
ValidSettings(profile) ==
  /\ profile.local /\ profile.complete
  /\ profile.external # {} => profile.allowed

(* A preparation may count on no object being lost, and on no row waiting   *)
(* to be tried again or given up, in the database or in a running session.  *)
Undisturbed(view) ==
  /\ view.stored \subseteq objects
  /\ \A k \in DOMAIN view.outbox : view.outbox[k] \in {Fresh, Ended("COMPLETED")}

Start(p) ==
  /\ starts < MaxStarts /\ pc[p] = "idle"
  /\ \E m \in {"prepare", "check"}, profile \in Profiles :
       IF ValidSettings(profile)
       THEN /\ Goto(p, "gate") /\ mode' = [mode EXCEPT ![p] = m]
            /\ report' = [report EXCEPT ![p] = None]
            /\ calm' = [calm EXCEPT ![p] =
                 /\ m = "prepare" /\ hardened
                 /\ \A q \in Processes : Undisturbed(View(q))]
            /\ UNCHANGED <<shared, step, mine, missing, checked, passed>>
       ELSE Exit(p, "failed") /\ calm' = [calm EXCEPT ![p] = FALSE]
  /\ starts' = starts + 1 /\ UNCHANGED <<intact, ready, mishaps>>

Gate(p) ==
  /\ pc[p] = "gate"
  /\ IF hardened
     THEN /\ Goto(p, IF mode[p] = "prepare" THEN "rooting" ELSE "inspecting")
          /\ UNCHANGED <<shared, mode, step, mine, missing, checked, passed, report>>
     ELSE Exit(p, "failed")
  /\ UNCHANGED <<calm, intact, ready, bounds>>

(***************************************************************************)
(* The seed                                                                *)
(***************************************************************************)
Steps == Len(Corpora) + Len(Finals)
AssetAt(n) == IF n <= Len(Corpora) THEN Corpora[n][2] ELSE Finals[n - Len(Corpora)]

NextStep(p) ==
  /\ step' = [step EXCEPT ![p] = @ + 1]
  /\ Goto(p, IF step[p] = Steps THEN "committing" ELSE "seeding")

(* The roots are looked up first; on an empty database they are inserted,   *)
(* which waits for another session that has inserted them, and fails if     *)
(* that one commits.                                                        *)
LookForRoots(p) ==
  /\ pc[p] = "rooting"
  /\ Goto(p, IF db.roots THEN "seeding" ELSE "creating")
  /\ step' = [step EXCEPT ![p] = 1]
  /\ UNCHANGED <<shared, mode, mine, missing, checked, passed, report, calm, intact,
                 ready, bounds>>

CreateRoots(p) ==
  /\ pc[p] = "creating" /\ \A q \in Processes : ~ mine[q].roots
  /\ IF db.roots
     THEN Exit(p, "failed") /\ calm' = [calm EXCEPT ![p] = FALSE]
     ELSE /\ Goto(p, "seeding") /\ Write(p, [mine[p] EXCEPT !.roots = TRUE])
          /\ UNCHANGED <<shared, mode, step, missing, checked, passed, report, calm>>
  /\ UNCHANGED <<intact, ready, bounds>>

(* A new asset: upload, ingestion and its outbox rows.                      *)
Ingest(p) ==
  LET a == AssetAt(step[p]) IN
  /\ pc[p] = "seeding" /\ step[p] <= Len(Corpora) /\ a \notin View(p).stored
  /\ objects' = objects \union {a}
  /\ Write(p, [mine[p] EXCEPT !.stored = @ \union {a}, !.bound = @ \union {Corpora[step[p]]},
                 !.outbox = Over([k \in {NewRow(i) : i \in ItemsOf(a)} |-> Fresh], @)])
  /\ Goto(p, "indexing")
  /\ UNCHANGED <<db, facts, points, hardened, lock, mode, step, missing, checked, passed,
                 report, calm, intact, ready, bounds>>

(* An asset that is there is bound to the case and its index reconciled; at *)
(* the end every asset is reconciled once more.  Without an active parse    *)
(* run that fails.                                                          *)
(* Mistaken: the asset is bound only after its index was reconciled.        *)
BoundTooLate(p) == {}

BoundHere(p) ==
  IF step[p] <= Len(Corpora) THEN {Corpora[step[p]]} \ View(p).bound ELSE {}

(* A row for each item whose point is not the manifest's, unless one is     *)
(* pending; where the point is right and no row says so, a completed one.   *)
Reconciled(p, a, outbox) ==
  LET missed == {i \in ItemsOf(a) : ~ Exact(i) /\ RowsOf(View(p).outbox, i, "PENDING") = {}}
      unsaid == {i \in ItemsOf(a) : Exact(i) /\ RowsOf(View(p).outbox, i, "COMPLETED") = {}}
      said(i) == IF RowsOf(View(p).outbox, i, "PENDING") = {} THEN NewRow(i)
                 ELSE CHOOSE k \in RowsOf(View(p).outbox, i, "PENDING") : TRUE
  IN Over([k \in {NewRow(i) : i \in missed} |-> Fresh],
          Over([k \in {said(i) : i \in unsaid} |-> Ended("COMPLETED")], outbox))

Reconcile(p) ==
  LET a == AssetAt(step[p]) IN
  /\ pc[p] = "seeding" /\ (step[p] <= Len(Corpora) => a \in View(p).stored)
  /\ IF a \in View(p).active
     THEN /\ Write(p, [mine[p] EXCEPT !.bound = @ \union BoundHere(p),
                                    !.outbox = Reconciled(p, a, @)])
          /\ Goto(p, "repairing")
          /\ UNCHANGED <<shared, mode, step, missing, checked, passed, report>>
     ELSE Exit(p, "failed")
  /\ UNCHANGED <<calm, intact, ready, bounds>>

(* The index worker, driven until no row is due; it skips rows that another *)
(* session has locked.  The payload of a section names the borrowers of the *)
(* cases that the session sees bound.                                       *)
Claimable(p, k) ==
  /\ pc[p] \in {"indexing", "repairing"}
  /\ View(p).outbox[k].status = "PENDING" /\ k \notin Locked(p)
Written(p, k) == [points EXCEPT ![k[1]] = Payload(View(p).bound, k[1])]
SetRow(p, k, row) == Write(p, [mine[p] EXCEPT !.outbox = Over([j \in {k} |-> row], @)])

Upsert(p, k) ==
  /\ Claimable(p, k)
  /\ points' = Written(p, k) /\ SetRow(p, k, Ended("COMPLETED"))
  /\ UNCHANGED <<db, facts, objects, hardened, lock, pc, mode, step, missing, checked,
                 passed, report, calm, intact, ready, bounds>>

(* It fails, perhaps after the point was written; the row waits, or is      *)
(* given up.                                                                *)
UpsertFails(p, k) ==
  /\ mishaps < MaxMishaps /\ Claimable(p, k)
  /\ points' \in {points, Written(p, k)}
  /\ LET tried == View(p).outbox[k].attempts + 1 IN
       SetRow(p, k, IF tried >= MaxAttempts THEN Ended("FAILED")
                    ELSE [status |-> "PENDING", attempts |-> tried])
  /\ mishaps' = mishaps + 1 /\ calm' = [q \in Processes |-> FALSE]
  /\ UNCHANGED <<db, facts, objects, hardened, lock, pc, mode, step, missing, checked,
                 passed, report, intact, ready, starts>>

(* Rows that wait are not due; the loop ends when it has processed none.    *)
Due(p, k) == Claimable(p, k) /\ View(p).outbox[k].attempts = 0

(* Mistaken: the loop goes on while any row is pending.                     *)
DrainedAll(p) == \A k \in DOMAIN View(p).outbox : ~ Claimable(p, k)

Drained(p) == \A k \in DOMAIN View(p).outbox : ~ Due(p, k)

Activate(p) ==
  LET a == AssetAt(step[p]) IN
  /\ pc[p] = "indexing" /\ Drained(p)
  /\ Write(p, IF \A k \in DOMAIN View(p).outbox :
                   k[1] \in Sections[a] => View(p).outbox[k] = Ended("COMPLETED")
              THEN [mine[p] EXCEPT !.active = @ \union {a}] ELSE mine[p])
  /\ NextStep(p)
  /\ UNCHANGED <<shared, mode, missing, checked, passed, report, calm, intact, ready,
                 bounds>>

Verify(p) ==
  /\ pc[p] = "repairing" /\ Drained(p)
  /\ IF \A i \in ItemsOf(AssetAt(step[p])) :
          Exact(i) /\ RowsOf(View(p).outbox, i, "COMPLETED") # {}
     THEN /\ NextStep(p)
          /\ UNCHANGED <<shared, mode, mine, missing, checked, passed, report>>
     ELSE Exit(p, "failed")
  /\ UNCHANGED <<calm, intact, ready, bounds>>

(* Any other error of the seed rolls all of it back.                        *)
SeedRaises(p) ==
  /\ mishaps < MaxMishaps /\ pc[p] \in {"seeding", "indexing", "repairing", "committing"}
  /\ Exit(p, "failed") /\ calm' = [calm EXCEPT ![p] = FALSE]
  /\ mishaps' = mishaps + 1 /\ UNCHANGED <<intact, ready, starts>>

CommitSeed(p) ==
  /\ pc[p] = "committing"
  /\ db' = View(p) /\ Write(p, NoRows) /\ Goto(p, "facts")
  /\ UNCHANGED <<facts, points, objects, hardened, lock, mode, step, missing, checked,
                 passed, report, calm, intact, ready, bounds>>

(***************************************************************************)
(* The financial facts                                                     *)
(***************************************************************************)
(* Mistaken: nothing serialises the look and the insert.                    *)
LookForFactsUnlocked(p) ==
  /\ pc[p] = "facts"
  /\ lock' = p /\ missing' = [missing EXCEPT ![p] = {c \in Cases : facts[c] = 0}]
  /\ Goto(p, "inserting")
  /\ UNCHANGED <<db, facts, points, objects, hardened, mode, step, mine, checked, passed,
                 report, calm, intact, ready, bounds>>

LookForFacts(p) ==
  /\ pc[p] = "facts" /\ lock = None
  /\ lock' = p /\ missing' = [missing EXCEPT ![p] = {c \in Cases : facts[c] = 0}]
  /\ Goto(p, "inserting")
  /\ UNCHANGED <<db, facts, points, objects, hardened, mode, step, mine, checked, passed,
                 report, calm, intact, ready, bounds>>

CommitFacts(p) ==
  /\ pc[p] = "inserting"
  /\ facts' = [c \in Cases |-> facts[c] + (IF c \in missing[p] THEN 1 ELSE 0)]
  /\ missing' = [missing EXCEPT ![p] = {}] /\ lock' = None
  /\ Goto(p, "inspecting")
  /\ UNCHANGED <<db, points, objects, hardened, mode, step, mine, checked, passed, report,
                 calm, intact, ready, bounds>>

(***************************************************************************)
(* The inspection                                                          *)
(***************************************************************************)
FactsOnce == \A c \in Cases : facts[c] = 1
AssetsReady == db.stored = Assets /\ db.active = Assets /\ db.bound = Bindings
LedgerCompleted ==
  /\ \A i \in Items : RowsOf(db.outbox, i, "COMPLETED") # {}
  /\ \A k \in DOMAIN db.outbox : db.outbox[k].status = "COMPLETED"

InspectPostgres(p) ==
  /\ pc[p] = "inspecting"
  /\ passed' = [passed EXCEPT ![p] = hardened /\ FactsOnce /\ AssetsReady /\ LedgerCompleted]
  /\ Goto(p, "inspecting_stores") /\ intact' = intact \union {p}
  /\ UNCHANGED <<shared, mode, step, mine, missing, checked, report, calm, ready, bounds>>

(* The vector index and the object store are inspected beside each other;   *)
(* neither passes without the manifest that a passing database inspection   *)
(* hands over.  The last of them makes the report.                          *)
InspectStore(p, store, ok) ==
  /\ pc[p] = "inspecting_stores" /\ store \notin checked[p]
  /\ IF checked[p] = {}
     THEN /\ checked' = [checked EXCEPT ![p] = {store}]
          /\ passed' = [passed EXCEPT ![p] = @ /\ ok]
          /\ UNCHANGED <<shared, pc, mode, step, mine, missing, report,
                         intact, ready>>
     ELSE /\ Exit(p, IF passed[p] /\ ok THEN "ready" ELSE "not_ready")
          /\ ready' = (ready \/ (passed[p] /\ ok /\ p \in intact))
          /\ intact' = intact \ {p}
  /\ UNCHANGED <<calm, bounds>>

InspectQdrant(p) == InspectStore(p, "qdrant", \A i \in Items : Exact(i))
InspectMinio(p) == InspectStore(p, "minio", Assets \subseteq objects)

(***************************************************************************)
(* The environment                                                         *)
(***************************************************************************)
Kill(p) ==
  /\ mishaps < MaxMishaps /\ pc[p] # "idle"
  /\ Exit(p, "failed") /\ calm' = [calm EXCEPT ![p] = FALSE]
  /\ mishaps' = mishaps + 1 /\ UNCHANGED <<intact, ready, starts>>

(* A store loses something, or the database is altered.                     *)
Lose ==
  /\ mishaps < MaxMishaps /\ mishaps' = mishaps + 1
  /\ calm' = [p \in Processes |-> FALSE] /\ intact' = {} /\ ready' = FALSE
  /\ \/ \E i \in Items : points[i] # None /\ points' = [points EXCEPT ![i] = None]
                         /\ UNCHANGED <<objects, hardened>>
     \/ \E a \in objects : objects' = objects \ {a} /\ UNCHANGED <<points, hardened>>
     \/ hardened' = ~ hardened /\ UNCHANGED <<points, objects>>
  /\ UNCHANGED <<db, facts, lock, own, starts>>

(* What a process does once it is started.                                  *)
Proceed(p) ==
  \/ Gate(p) \/ LookForRoots(p) \/ CreateRoots(p) \/ Ingest(p) \/ Reconcile(p)
  \/ \E k \in DOMAIN View(p).outbox : Due(p, k) /\ (Upsert(p, k) \/ UpsertFails(p, k))
  \/ Activate(p) \/ Verify(p) \/ CommitSeed(p)
  \/ LookForFacts(p) \/ CommitFacts(p)
  \/ InspectPostgres(p) \/ InspectQdrant(p) \/ InspectMinio(p)

(* A row that waits becomes due while the loop runs, or does not.           *)
Retry(p) ==
  \E k \in DOMAIN View(p).outbox : ~ Due(p, k) /\ (Upsert(p, k) \/ UpsertFails(p, k))

Next ==
  \/ \E p \in Processes : Start(p) \/ Proceed(p) \/ Retry(p) \/ SeedRaises(p) \/ Kill(p)
  \/ Lose

Spec == Init /\ [][Next]_vars
FairSpec == Spec /\ \A p \in Processes : WF_vars(Proceed(p))

-----------------------------------------------------------------------------
(* A preparation that nothing disturbs ends ready, on an empty database as  *)
(* on one prepared before, however the points were left by preparations that *)
(* failed or were killed and whatever runs beside it: it neither stumbles   *)
(* over what it finds nor over its own steps for a shared asset.  Disturbed *)
(* is one that an error, a kill or a loss hits, that loses the race for the *)
(* roots, or that starts when a row waits for another attempt or was given  *)
(* up (Undisturbed): then the inspection of the ledger fails (scripts/      *)
(* bootstrap_demo.py:72-130, seed_environment, run_preflight).              *)
RepeatedPrepareIsReady ==
  \A p \in Processes : report[p] # None /\ calm[p] => report[p] = "ready"

(* Once any process has reported ready, be it a check alone or a            *)
(* preparation beside which others failed, the assets are stored, active    *)
(* and bound, every fact is there once, and every point has the payload of  *)
(* the manifest, until something is lost, whatever preparations run later   *)
(* or beside it, fail half way or are killed.  The inspection is not one    *)
(* moment: a report says nothing when something was lost after the process  *)
(* had looked at the database, for a store already inspected may be what    *)
(* lost it (inspect_postgres, inspect_qdrant, inspect_minio).               *)
ReadyStays == ready => FactsOnce /\ AssetsReady /\ Assets \subseteq objects
                       /\ \A i \in Items : Exact(i)

(* Every process that was started ends: neither the roots nor the lock of   *)
(* the facts is waited for in vain, and a row that waits to be tried again  *)
(* does not keep the seed from going on (seed_synthetic_data.py:316-319).   *)
BootstrapEnds == \A p \in Processes : pc[p] # "idle" ~> pc[p] = "idle"
=============================================================================
