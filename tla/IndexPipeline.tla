---------------------------- MODULE IndexPipeline ----------------------------
(***************************************************************************)
(* Ingestion of one document version: parse runs, the outbox of entries    *)
(* owed to the vector index, and the activation of a run for retrieval.    *)
(*                                                                         *)
(* A session is one database transaction (READ COMMITTED) and the program  *)
(* text that drives it.  A loader ingests the version under a parser       *)
(* configuration, drains the outbox and activates the run, all in one      *)
(* transaction; a worker drains one batch.  What a session has written and *)
(* not committed is in mine and plan, invisible to the others, and lost    *)
(* when it rolls back.  The vector index takes part in no transaction: a   *)
(* point written by a session that rolls back stays.                       *)
(***************************************************************************)
EXTENDS Integers, FiniteSets

CONSTANTS
  Runs,         \* ids of parse runs, never used twice
  Configs,      \* parser configurations (config_hash)
  Leaves,       \* leaf sections the document may be split into
  Summaries,    \* summary nodes built for a run
  Loaders, Workers,
  Snapshots,    \* case snapshots that name the document version
  MaxAttempts,  \* failed attempts before an entry is given up
  BatchSize,    \* entries claimed at a time
  MaxLoads,     \* bound on the loads started
  MaxCrashes,   \* bound on the sessions that die
  None          \* no run, configuration or value

Sessions == Loaders \union Workers
Items == Leaves \union Summaries
Rows == Runs \X Items

EntryStatus == {"none", "PENDING", "PROCESSING", "COMPLETED", "FAILED"}
Entry == [status : EntryStatus, attempts : 0..MaxAttempts]
NoEntry == [status |-> "none", attempts |-> 0]

Run == [status : {"INDEX_PENDING", "SUCCEEDED"},
        mark : {"CANDIDATE", "ACTIVE", "SUPERSEDED"},
        config : Configs, generation : Nat \ {0}, sections : SUBSET Leaves]

ASSUME IndexAssumption ==
  /\ Leaves \intersect Summaries = {} /\ Loaders \intersect Workers = {}
  /\ MaxAttempts \in Nat \ {0} /\ BatchSize \in Nat \ {0}
  /\ MaxLoads \in Nat /\ MaxCrashes \in Nat
  /\ None \notin Runs /\ None \notin Configs /\ None \notin Run /\ None \notin Entry

VARIABLES
  runs,     \* parse_runs as committed, or None
  entries,  \* index_outbox as committed, NoEntry where there is no row
  version,  \* the document_versions row: active run and processing_status
  points,   \* the points in the vector index
  frozen,   \* the run each snapshot has frozen
  pc,       \* where each session is
  config,   \* the configuration a loader ingests with
  target,   \* the run it ingests or reuses
  number,   \* the generation number of a run it creates, 0 if it reuses one
  loaded,   \* processing_status as the loader read it first
  parsed,   \* the leaf sections of a run it creates
  mine,     \* the outbox rows a session wrote or locked, None for the others
  batch,    \* claimed rows it has not processed
  plan,     \* what it writes to the version and its run when it commits
  demoted,  \* the run it marks as superseded then, or None
  loads, crashes

database == <<runs, entries, version>>
place == <<config, target, number, loaded, parsed>>
work == <<mine, batch, plan, demoted>>
bounds == <<loads, crashes>>
vars == <<database, points, frozen, pc, place, work, bounds>>

Places == {"idle", "looking", "numbering", "inserting", "parsing", "draining",
           "working", "activating", "committing"}

Writes == {"indexing", "ready", "active", "marked"}
NoRows == [x \in Rows |-> None]

Init ==
  /\ runs = [r \in Runs |-> None]
  /\ entries = [x \in Rows |-> NoEntry]
  /\ version = [active |-> None, processing |-> "STORED"]
  /\ points = {}
  /\ frozen = [f \in Snapshots |-> None]
  /\ pc = [s \in Sessions |-> "idle"]
  /\ config = [s \in Sessions |-> None]
  /\ target = [s \in Sessions |-> None]
  /\ number = [s \in Sessions |-> 0]
  /\ loaded = [s \in Sessions |-> None]
  /\ parsed = [s \in Sessions |-> {}]
  /\ mine = [s \in Sessions |-> NoRows]
  /\ batch = [s \in Sessions |-> {}]
  /\ plan = [s \in Sessions |-> {}]
  /\ demoted = [s \in Sessions |-> None]
  /\ loads = 0 /\ crashes = 0

Goto(s, to) == pc' = [pc EXCEPT ![s] = to]

\* What a session sees of the outbox: its own writes over what is committed.
View(s, x) == IF mine[s][x] # None THEN mine[s][x] ELSE entries[x]

Released(s) ==
  /\ Goto(s, "idle")
  /\ config' = [config EXCEPT ![s] = None]
  /\ target' = [target EXCEPT ![s] = None]
  /\ number' = [number EXCEPT ![s] = 0]
  /\ loaded' = [loaded EXCEPT ![s] = None]
  /\ parsed' = [parsed EXCEPT ![s] = {}]
  /\ mine' = [mine EXCEPT ![s] = NoRows]
  /\ batch' = [batch EXCEPT ![s] = {}]
  /\ plan' = [plan EXCEPT ![s] = {}]
  /\ demoted' = [demoted EXCEPT ![s] = None]

Rollback(s) == Released(s) /\ UNCHANGED <<database, points, frozen>>

---------------------------------------------------------------------------
(* Ingestion. *)

Start(s, c) ==
  /\ pc[s] = "idle" /\ loads < MaxLoads
  /\ Goto(s, "looking")
  /\ config' = [config EXCEPT ![s] = c]
  /\ loaded' = [loaded EXCEPT ![s] = version.processing]
  /\ loads' = loads + 1
  /\ UNCHANGED <<database, points, frozen, target, number, parsed, work, crashes>>

\* A RUNNING run is never committed, so no other session sees one.
Reusable(c) == {r \in Runs : runs[r] # None /\ runs[r].config = c}

LookForRun(s) ==
  /\ pc[s] = "looking"
  /\ IF Reusable(config[s]) = {}
     THEN Goto(s, "numbering") /\ UNCHANGED target
     ELSE /\ \E r \in Reusable(config[s]) : target' = [target EXCEPT ![s] = r]
          /\ Goto(s, "draining")
  /\ UNCHANGED <<database, points, frozen, config, number, loaded, parsed, work, bounds>>

Generations == {runs[r].generation : r \in {q \in Runs : runs[q] # None}}
Latest(n) == \A g \in Generations : g <= n

Unused(r) ==
  /\ runs[r] = None
  /\ \A s \in Sessions : target[s] # r
  /\ \A i \in Items : <<r, i>> \notin points

NumberRun(s) ==
  /\ pc[s] = "numbering"
  /\ \E r \in Runs : Unused(r) /\ target' = [target EXCEPT ![s] = r]
  /\ \E n \in Generations \union {0} : /\ Latest(n)
                                      /\ number' = [number EXCEPT ![s] = n + 1]
  /\ Goto(s, "inserting")
  /\ UNCHANGED <<database, points, frozen, config, loaded, parsed, work, bounds>>

Inserted(s) == number[s] # 0 /\ pc[s] \notin {"idle", "inserting"}

\* The insert waits for another session that has inserted the same generation
\* and not ended; if that one committed, the unique constraint fails.
InsertRun(s) ==
  /\ pc[s] = "inserting"
  /\ \A t \in Sessions \ {s} : Inserted(t) => number[t] # number[s]
  /\ number[s] \notin Generations
  /\ Goto(s, "parsing")
  /\ UNCHANGED <<database, points, frozen, place, work, bounds>>

\* Mistaken: the same insert is tried again.
ConflictIsRetried(s) ==
  /\ pc[s] = "inserting" /\ number[s] \in Generations
  /\ UNCHANGED vars

InsertConflicts(s) ==
  /\ pc[s] = "inserting"
  /\ number[s] \in Generations
  /\ Rollback(s) /\ UNCHANGED bounds

\* The run is set to FAILED and the error raised; with it the session rolls back.
ParseFails(s) ==
  /\ pc[s] = "parsing"
  /\ Rollback(s) /\ UNCHANGED bounds

Owed == [status |-> "PENDING", attempts |-> 0]

\* Every leaf section and every summary owes a point.
OwedItems(leaves) == Summaries \union leaves

\* The document is split into sections.  processing_status is written if it is
\* not what was loaded.
Parse(s, leaves) ==
  /\ pc[s] = "parsing"
  /\ parsed' = [parsed EXCEPT ![s] = leaves]
  /\ mine' = [mine EXCEPT ![s] =
       [x \in Rows |-> IF x[1] = target[s] /\ x[2] \in OwedItems(leaves)
                       THEN Owed ELSE None]]
  /\ plan' = [plan EXCEPT ![s] = IF loaded[s] = "INDEXING" THEN {} ELSE {"indexing"}]
  /\ Goto(s, "draining")
  /\ UNCHANGED <<database, points, frozen, config, target, number, loaded, batch,
                 demoted, bounds>>

---------------------------------------------------------------------------
(* Draining the outbox. *)

\* Mistaken: a row that another session has locked is not skipped.
LockIgnored(s, x) == FALSE

Locked(s, x) == \E t \in Sessions \ {s} : mine[t][x] # None

Pending(s) == {x \in Rows : View(s, x).status = "PENDING" /\ ~ Locked(s, x)}

\* A row that failed before is due again only after its backoff.
Fresh(s) == {x \in Pending(s) : View(s, x).attempts = 0}

Take(s, rows) ==
  /\ mine' = [mine EXCEPT ![s] =
       [x \in Rows |-> IF x \in rows
                       THEN [status |-> "PROCESSING", attempts |-> View(s, x).attempts + 1]
                       ELSE mine[s][x]]]
  /\ batch' = [batch EXCEPT ![s] = rows]
  /\ Goto(s, "working")

\* The batch is limited, and filled from all that is due; which rows come first
\* is left open.
Claim(s) ==
  /\ pc[s] = IF s \in Loaders THEN "draining" ELSE "idle"
  /\ \E again \in SUBSET (Pending(s) \ Fresh(s)) :
       LET due == Fresh(s) \union again
       IN \E rows \in (SUBSET due) \ {{}} :
            /\ Cardinality(rows) <= BatchSize
            /\ Cardinality(rows) < BatchSize => rows = due
            /\ Take(s, rows)
  /\ UNCHANGED <<database, points, frozen, place, plan, demoted, bounds>>

\* The last row of the batch ends it.
EndEntry(s, x, entry) ==
  /\ mine' = [mine EXCEPT ![s][x] = entry]
  /\ batch' = [batch EXCEPT ![s] = @ \ {x}]
  /\ IF batch[s] = {x}
     THEN Goto(s, IF s \in Loaders THEN "draining" ELSE "committing")
     ELSE UNCHANGED pc
  /\ UNCHANGED <<database, frozen, place, plan, demoted, bounds>>

\* The point is written at once; the entry is completed when the session commits.
Index(s, x) ==
  /\ points' = points \union {x}
  /\ EndEntry(s, x, [mine[s][x] EXCEPT !.status = "COMPLETED"])

\* Mistaken: the failure passes for a success.
FailureIsSwallowed(s, x) ==
  /\ points' \in {points, points \union {x}}
  /\ EndEntry(s, x, [mine[s][x] EXCEPT !.status = "COMPLETED"])

\* The embedding or the index failed, the latter perhaps after it took the point.
IndexFails(s, x) ==
  /\ points' \in {points, points \union {x}}
  /\ EndEntry(s, x, [mine[s][x] EXCEPT
       !.status = IF mine[s][x].attempts >= MaxAttempts THEN "FAILED" ELSE "PENDING"])

\* Nothing is pending, or what is pending is locked or not due yet.
StopDraining(s) ==
  /\ s \in Loaders /\ pc[s] = "draining" /\ Fresh(s) = {}
  /\ Goto(s, "activating")
  /\ UNCHANGED <<database, points, frozen, place, work, bounds>>

---------------------------------------------------------------------------
(* Activation, commit and readers. *)

\* Mistaken: a section that was given up no longer counts.
CompleteOrGivenUp(s) ==
  \A l \in Leaves :
    View(s, <<target[s], l>>).status \notin {"PENDING", "PROCESSING"}

\* Every entry of a section of the run is completed; the entries of summaries
\* are not looked at.
Complete(s) ==
  \A l \in Leaves : View(s, <<target[s], l>>).status \in {"none", "COMPLETED"}

\* Mistaken: the run that was active keeps its mark.
NobodySuperseded(s) == None

\* The run that was active, unless its mark says already that it is not.
Superseded(s) ==
  IF version.active \in {None, target[s]} \/ runs[version.active].mark = "SUPERSEDED"
  THEN None ELSE version.active

\* A value that is not new is not written.
ActivationWrites(s) ==
  LET r == target[s]
      processing == IF "indexing" \in plan[s] THEN "INDEXING" ELSE version.processing
  IN (IF version.active # r THEN {"active"} ELSE {})
     \union (IF processing # "READY" THEN {"ready"} ELSE {})
     \union (IF runs[r] = None \/ runs[r].mark # "ACTIVE" THEN {"marked"} ELSE {})

\* The run is activated or left as it is, and the session goes on to commit.
Activate(s) ==
  /\ pc[s] = "activating"
  /\ IF Complete(s)
     THEN /\ plan' = [plan EXCEPT ![s] = @ \union ActivationWrites(s)]
          /\ demoted' = [demoted EXCEPT ![s] = Superseded(s)]
     ELSE UNCHANGED <<plan, demoted>>
  /\ Goto(s, "committing")
  /\ UNCHANGED <<database, points, frozen, place, mine, batch, bounds>>

\* The row of the session's run as it leaves it.
Marked(s, run) ==
  IF "marked" \in plan[s] THEN [run EXCEPT !.status = "SUCCEEDED", !.mark = "ACTIVE"]
  ELSE run

RunOf(s) ==
  IF number[s] = 0 THEN runs[target[s]]
  ELSE [status |-> "INDEX_PENDING", mark |-> "CANDIDATE",
        config |-> config[s], generation |-> number[s], sections |-> parsed[s]]

Commit(s) ==
  /\ pc[s] = "committing"
  /\ entries' = [x \in Rows |-> View(s, x)]
  /\ runs' = [r \in Runs |->
               IF r = target[s] THEN Marked(s, RunOf(s))
               ELSE IF r = demoted[s] THEN [runs[r] EXCEPT !.mark = "SUPERSEDED"]
               ELSE runs[r]]
  /\ version' =
       [active |-> IF "active" \in plan[s] THEN target[s] ELSE version.active,
        processing |-> IF "ready" \in plan[s] THEN "READY"
                       ELSE IF "indexing" \in plan[s] THEN "INDEXING"
                       ELSE version.processing]
  /\ Released(s)
  /\ UNCHANGED <<points, frozen, bounds>>

\* The process dies, or the database refuses: what was not committed is gone.
Crash(s) ==
  /\ pc[s] # "idle" /\ crashes < MaxCrashes
  /\ crashes' = crashes + 1
  /\ Rollback(s) /\ UNCHANGED loads

\* A snapshot takes the run that is active when it is made, and keeps it.
Freeze(f) ==
  /\ frozen[f] = None /\ version.active # None
  /\ frozen' = [frozen EXCEPT ![f] = version.active]
  /\ UNCHANGED <<database, points, pc, place, work, bounds>>

---------------------------------------------------------------------------
Load(s) ==
  \/ LookForRun(s) \/ NumberRun(s) \/ InsertRun(s) \/ InsertConflicts(s)
  \/ ParseFails(s) \/ \E leaves \in SUBSET Leaves : Parse(s, leaves)
  \/ StopDraining(s) \/ Activate(s)

Drain(s) ==
  \/ Claim(s)
  \/ \E x \in batch[s] : Index(s, x) \/ IndexFails(s, x)
  \/ Commit(s)

Next ==
  \/ \E s \in Loaders : Load(s) \/ \E c \in Configs : Start(s, c)
  \/ \E s \in Sessions : Drain(s) \/ Crash(s)
  \/ \E f \in Snapshots : Freeze(f)

Spec == Init /\ [][Next]_vars

\* A load that was started, and a batch that was claimed, goes on.
FairSpec ==
  /\ Spec
  /\ \A s \in Loaders : WF_vars(Load(s) \/ Drain(s))
  /\ \A s \in Workers : WF_vars(pc[s] # "idle" /\ Drain(s))

---------------------------------------------------------------------------
(* Properties. *)

TypeOK ==
  /\ runs \in [Runs -> Run \union {None}]
  /\ entries \in [Rows -> Entry]
  /\ version \in [active : Runs \union {None},
                 processing : {"STORED", "INDEXING", "READY"}]
  /\ points \in SUBSET Rows
  /\ frozen \in [Snapshots -> Runs \union {None}]
  /\ pc \in [Sessions -> Places]
  /\ config \in [Sessions -> Configs \union {None}]
  /\ target \in [Sessions -> Runs \union {None}]
  /\ number \in [Sessions -> Nat]
  /\ loaded \in [Sessions -> {"STORED", "INDEXING", "READY", None}]
  /\ mine \in [Sessions -> [Rows -> Entry \union {None}]]
  /\ parsed \in [Sessions -> SUBSET Leaves]
  /\ batch \in [Sessions -> SUBSET Rows]
  /\ plan \in [Sessions -> SUBSET Writes]
  /\ demoted \in [Sessions -> Runs \union {None}]
  /\ loads \in 0..MaxLoads /\ crashes \in 0..MaxCrashes

\* A snapshot reads a run that was committed and of which every section can be
\* found, whatever sessions died, retried or overtook each other on the way.
FrozenRunsAreIndexed ==
  \A f \in Snapshots : frozen[f] # None =>
    /\ runs[frozen[f]] # None /\ runs[frozen[f]].status = "SUCCEEDED"
    /\ \A l \in runs[frozen[f]].sections : <<frozen[f], l>> \in points

\* No entry is in the hands of two sessions.
EntriesHaveOneHolder ==
  \A s, t \in Sessions : \A x \in Rows :
    mine[s][x] # None /\ mine[t][x] # None => s = t

\* The version names the one run that is marked as active.
OneActiveRun == \A r \in Runs :
  runs[r] # None => (runs[r].mark = "ACTIVE" <=> version.active = r)

\* What readers are promised.
Published == INSTANCE PublishedIndex
  WITH indexed <- {r \in Runs : /\ runs[r] # None
                               /\ \A l \in runs[r].sections : <<r, l>> \in points},
       active <- version.active, pinned <- frozen
KeepsPublished == Published!Spec

\* Every load and every batch comes to its end.
SessionsEnd == \A s \in Sessions : pc[s] # "idle" ~> pc[s] = "idle"
=============================================================================
