----------------------------- MODULE IndexProofs -----------------------------
(***************************************************************************)
(* Proofs about IndexPipeline for any runs, sessions and snapshots.        *)
(***************************************************************************)
EXTENDS IndexPipeline, TLAPS

\* A completed entry has its point, committed or not, and one that is to be tried
\* has an attempt left.
EntryInv(x, e) ==
  /\ e.status = "COMPLETED" => x \in points
  /\ e.status = "PENDING" => e.attempts < MaxAttempts

\* Every section of a committed run has its entry, only committed runs have
\* committed entries, and a run that was ever active succeeded.
RunInv ==
  /\ \A x \in Rows : EntryInv(x, entries[x])
  /\ \A r \in Runs : runs[r] # None =>
       /\ \A l \in runs[r].sections : entries[<<r, l>>].status # "none"
       /\ runs[r].mark # "CANDIDATE" => runs[r].status = "SUCCEEDED"
  /\ \A x \in Rows : entries[x].status # "none" => runs[x[1]] # None

\* What a session holds: entries that are committed, or those of the run it has
\* created and no one else knows of.
HoldInv(s) ==
  /\ \A x \in Rows : mine[s][x] # None =>
       /\ EntryInv(x, mine[s][x]) /\ mine[s][x].status # "none"
       /\ entries[x].status # "none" \/ (number[s] # 0 /\ x[1] = target[s])
  /\ \A x \in batch[s] : mine[s][x] # None

\* The sections of the run a session works on.
SectionsOf(s) == IF number[s] = 0 THEN runs[target[s]].sections ELSE parsed[s]

\* Which run a session works on, and what it may have decided about it.
LoadInv(s) ==
  /\ pc[s] \in {"idle", "looking", "numbering", "inserting", "parsing"} =>
       mine[s] = NoRows /\ parsed[s] = {} /\ plan[s] = {} /\ demoted[s] = None
  /\ pc[s] # "working" => batch[s] = {}
  /\ pc[s] \in {"looking", "numbering", "inserting", "parsing"} => config[s] \in Configs
  /\ pc[s] \in {"idle", "looking", "numbering"} => number[s] = 0
  /\ pc[s] \in {"inserting", "parsing"} => number[s] # 0
  /\ pc[s] \notin {"idle", "working", "committing"} => s \in Loaders
  /\ s \in Loaders /\ pc[s] \in {"draining", "working", "activating", "committing"} =>
       /\ target[s] \in Runs
       /\ number[s] = 0 => runs[target[s]] # None
  /\ s \in Workers => target[s] = None /\ number[s] = 0
  /\ number[s] # 0 => /\ target[s] \in Runs /\ runs[target[s]] = None
                      /\ config[s] \in Configs
  /\ \A l \in parsed[s] : mine[s][<<target[s], l>>] # None
  /\ plan[s] \intersect {"active", "marked"} # {} =>
       /\ s \in Loaders /\ pc[s] = "committing"
       /\ \A l \in SectionsOf(s) : <<target[s], l>> \in points
       /\ "marked" \in plan[s] \/ (number[s] = 0 /\ runs[target[s]].status = "SUCCEEDED")
  /\ demoted[s] # None => /\ runs[demoted[s]] # None
                          /\ runs[demoted[s]].status = "SUCCEEDED"

\* No two sessions create the same run.
TargetsDiffer ==
  \A s, t \in Sessions : number[s] # 0 /\ number[t] # 0 /\ target[s] = target[t] => s = t

Readable(r) ==
  /\ runs[r] # None /\ runs[r].status = "SUCCEEDED"
  /\ \A l \in runs[r].sections : <<r, l>> \in points

ReadInv ==
  /\ version.active # None => Readable(version.active)
  /\ \A f \in Snapshots : frozen[f] # None => Readable(frozen[f])

IInv ==
  /\ TypeOK /\ RunInv /\ TargetsDiffer /\ EntriesHaveOneHolder /\ ReadInv
  /\ \A s \in Sessions : HoldInv(s) /\ LoadInv(s)

---------------------------------------------------------------------------
(* Types. *)

\* What a session sees of an entry is an entry, and what it knows of one holds.
LEMMA ViewType ==
  ASSUME TypeOK, NEW s \in Sessions, NEW x \in Rows
  PROVE  View(s, x) \in Entry
BY IndexAssumption DEF TypeOK, View

LEMMA ViewInv ==
  ASSUME TypeOK, RunInv, NEW s \in Sessions, HoldInv(s), NEW x \in Rows
  PROVE  EntryInv(x, View(s, x))
BY DEF RunInv, HoldInv, View

\* A session that ends keeps nothing.
LEMMA ReleasedType ==
  ASSUME TypeOK, NEW s \in Sessions, Released(s)
  PROVE  /\ pc' \in [Sessions -> Places]
         /\ config' \in [Sessions -> Configs \union {None}]
         /\ target' \in [Sessions -> Runs \union {None}]
         /\ number' \in [Sessions -> Nat]
         /\ loaded' \in [Sessions -> {"STORED", "INDEXING", "READY", None}]
         /\ parsed' \in [Sessions -> SUBSET Leaves]
         /\ mine' \in [Sessions -> [Rows -> Entry \union {None}]]
         /\ batch' \in [Sessions -> SUBSET Rows]
         /\ plan' \in [Sessions -> SUBSET Writes]
         /\ demoted' \in [Sessions -> Runs \union {None}]
<1>1. NoRows \in [Rows -> Entry \union {None}]
  BY DEF NoRows
<1>2. QED
  BY <1>1 DEF TypeOK, Released, Goto, Places

\* The row a loader leaves of its run is a run.
LEMMA MarkedType ==
  ASSUME TypeOK, NEW s \in Sessions, LoadInv(s), pc[s] = "committing",
         target[s] \in Runs
  PROVE  Marked(s, RunOf(s)) \in Run
<1>1. s \in Loaders
  BY IndexAssumption DEF LoadInv, Sessions, TypeOK
<1>2. RunOf(s) \in Run
  <2>1. CASE number[s] = 0
    <3>1. runs[target[s]] # None
      BY <1>1, <2>1 DEF LoadInv
    <3>2. QED
      BY <2>1, <3>1 DEF RunOf, TypeOK
  <2>2. CASE number[s] # 0
    BY <2>2 DEF RunOf, TypeOK, LoadInv, Run
  <2>3. QED
    BY <2>1, <2>2
<1>3. QED
  BY <1>2 DEF Marked, Run

\* The type invariant holds of the first state.
LEMMA TypeInit == Init => TypeOK
<1> SUFFICES ASSUME Init PROVE TypeOK
  OBVIOUS
<1>1. NoEntry \in Entry
  BY IndexAssumption DEF NoEntry, Entry, EntryStatus
<1>2. NoRows \in [Rows -> Entry \union {None}]
  BY DEF NoRows
<1>3. QED
  BY <1>1, <1>2, IndexAssumption DEF Init, TypeOK, Places

\* It is kept by the steps of an ingestion.
LEMMA TypeLoad ==
  ASSUME TypeOK, NEW s \in Loaders, LoadInv(s),
         Load(s) \/ (\E c \in Configs : Start(s, c))
  PROVE  TypeOK'
<1> s \in Sessions
  BY DEF Sessions
<1>1. ASSUME NEW c \in Configs, Start(s, c) PROVE TypeOK'
  BY <1>1, IndexAssumption DEF Start, Goto, TypeOK, Places, database, work
<1>2. CASE LookForRun(s)
  <2>1. target' \in [Sessions -> Runs \union {None}]
    <3>1. CASE Reusable(config[s]) = {}
      BY <1>2, <3>1 DEF LookForRun, TypeOK
    <3>2. CASE Reusable(config[s]) # {}
      <4>1. PICK r \in Reusable(config[s]) : target' = [target EXCEPT ![s] = r]
        BY <1>2, <3>2 DEF LookForRun
      <4>2. r \in Runs
        BY DEF Reusable
      <4>3. QED
        BY <4>1, <4>2 DEF TypeOK
    <3>3. QED
      BY <3>1, <3>2
  <2>2. pc' \in [Sessions -> Places]
    <3>1. Goto(s, "numbering") \/ Goto(s, "draining")
      BY <1>2 DEF LookForRun
    <3>2. QED
      BY <3>1 DEF Goto, TypeOK, Places
  <2>3. QED
    BY <1>2, <2>1, <2>2 DEF LookForRun, TypeOK, database, work, bounds
<1>3. CASE NumberRun(s)
  <2>1. Generations \subseteq Nat
    BY DEF Generations, TypeOK, Run
  <2>2. number' \in [Sessions -> Nat]
    BY <1>3, <2>1 DEF NumberRun, TypeOK
  <2>3. QED
    BY <1>3, <2>2 DEF NumberRun, Goto, TypeOK, Places, database, work, bounds
<1>4. CASE InsertRun(s)
  BY <1>4 DEF InsertRun, Goto, TypeOK, Places, database, place, work, bounds
<1>5. CASE InsertConflicts(s) \/ ParseFails(s)
  <2>1. Rollback(s) /\ UNCHANGED bounds
    BY <1>5 DEF InsertConflicts, ParseFails
  <2>2. QED
    BY <2>1, ReleasedType DEF Rollback, TypeOK, database, bounds
<1>6. ASSUME NEW leaves \in SUBSET Leaves, Parse(s, leaves) PROVE TypeOK'
  <2>1. Owed \in Entry
    BY IndexAssumption DEF Owed, Entry, EntryStatus
  <2>2. mine' \in [Sessions -> [Rows -> Entry \union {None}]]
    BY <1>6, <2>1 DEF Parse, TypeOK
  <2>3. plan' \in [Sessions -> SUBSET Writes]
    BY <1>6 DEF Parse, TypeOK, Writes
  <2>4. QED
    BY <1>6, <2>2, <2>3 DEF Parse, Goto, TypeOK, Places, database, bounds
<1>7. CASE StopDraining(s)
  BY <1>7 DEF StopDraining, Goto, TypeOK, Places, database, place, work, bounds
<1>8. CASE Activate(s)
  <2>1. plan' \in [Sessions -> SUBSET Writes]
    BY <1>8 DEF Activate, ActivationWrites, TypeOK, Writes
  <2>2. demoted' \in [Sessions -> Runs \union {None}]
    BY <1>8 DEF Activate, Superseded, TypeOK
  <2>3. QED
    BY <1>8, <2>1, <2>2 DEF Activate, Goto, TypeOK, Places, database, place, bounds
<1>9. QED
  BY <1>1, <1>2, <1>3, <1>4, <1>5, <1>6, <1>7, <1>8 DEF Load

\* It is kept by draining and committing.
LEMMA TypeEnd ==
  ASSUME TypeOK, NEW s \in Sessions, NEW x \in batch[s], mine[s][x] # None,
         NEW e \in Entry, EndEntry(s, x, e), points' \in SUBSET Rows
  PROVE  TypeOK'
<1>1. x \in Rows
  BY DEF TypeOK
<1>2. mine' \in [Sessions -> [Rows -> Entry \union {None}]]
  BY <1>1 DEF EndEntry, TypeOK
<1>3. pc' \in [Sessions -> Places]
  BY DEF EndEntry, Goto, TypeOK, Places
<1>4. QED
  BY <1>2, <1>3 DEF EndEntry, TypeOK, database, place, bounds

LEMMA TypeDrain ==
  ASSUME TypeOK, RunInv, NEW s \in Sessions, HoldInv(s), LoadInv(s), Drain(s)
  PROVE  TypeOK'
<1>1. CASE Claim(s)
  <2>1. PICK rows \in SUBSET Pending(s) : Take(s, rows)
    BY <1>1 DEF Claim, Fresh
  <2>2. ASSUME NEW x \in rows
        PROVE  [status |-> "PROCESSING", attempts |-> View(s, x).attempts + 1] \in Entry
    <3>1. x \in Rows /\ View(s, x).status = "PENDING"
      BY <2>1 DEF Pending
    <3>2. View(s, x).attempts \in 0..MaxAttempts /\ View(s, x).attempts < MaxAttempts
      BY <3>1, ViewType, ViewInv DEF EntryInv, Entry
    <3>3. QED
      BY <3>2, IndexAssumption DEF Entry, EntryStatus
  <2>3. mine' \in [Sessions -> [Rows -> Entry \union {None}]]
    BY <2>1, <2>2 DEF Take, TypeOK
  <2>4. pc' \in [Sessions -> Places] /\ batch' \in [Sessions -> SUBSET Rows]
    BY <2>1 DEF Take, Goto, TypeOK, Places, Pending
  <2>5. QED
    BY <1>1, <2>3, <2>4 DEF Claim, TypeOK, database, place, bounds
<1>2. ASSUME NEW x \in batch[s], Index(s, x) \/ IndexFails(s, x) PROVE TypeOK'
  <2>1. x \in Rows /\ mine[s][x] # None /\ mine[s][x] \in Entry
    BY DEF TypeOK, HoldInv
  <2>2. points' \in SUBSET Rows
    BY <1>2, <2>1 DEF Index, IndexFails, TypeOK
  <2>3. \A v \in {"COMPLETED", "FAILED", "PENDING"} :
          [mine[s][x] EXCEPT !.status = v] \in Entry
    BY <2>1 DEF Entry, EntryStatus
  <2>4. PICK e \in Entry : EndEntry(s, x, e)
    BY <1>2, <2>3 DEF Index, IndexFails
  <2>5. QED
    BY <2>1, <2>2, <2>4, TypeEnd
<1>3. CASE Commit(s)
  <2>1. entries' \in [Rows -> Entry]
    BY <1>3, ViewType DEF Commit
  <2>2. runs' \in [Runs -> Run \union {None}]
    <3>1. ASSUME NEW r \in Runs PROVE runs'[r] \in Run \union {None}
      <4>1. CASE r = target[s]
        BY <1>3, <4>1, MarkedType DEF Commit
      <4>2. CASE r # target[s] /\ r = demoted[s]
        <5>1. runs[r] \in Run
          BY <4>2, IndexAssumption DEF LoadInv, TypeOK
        <5>2. [runs[r] EXCEPT !.mark = "SUPERSEDED"] \in Run
          BY <5>1 DEF Run
        <5>3. QED
          BY <1>3, <4>2, <5>2 DEF Commit
      <4>3. CASE r # target[s] /\ r # demoted[s]
        BY <1>3, <4>3 DEF Commit, TypeOK
      <4>4. QED
        BY <4>1, <4>2, <4>3
    <3>2. QED
      BY <1>3, <3>1 DEF Commit
  <2>3. version'.active \in Runs \union {None}
    BY <1>3 DEF Commit, TypeOK
  <2>4. version' \in [active : Runs \union {None},
                      processing : {"STORED", "INDEXING", "READY"}]
    BY <1>3, <2>3 DEF Commit, TypeOK
  <2>5. QED
    BY <1>3, <2>1, <2>2, <2>4, ReleasedType DEF Commit, TypeOK, bounds
<1>4. QED
  BY <1>1, <1>2, <1>3 DEF Drain

---------------------------------------------------------------------------
(* Steps and the sessions that do not take them. *)

Kept(t) ==
  /\ pc'[t] = pc[t] /\ config'[t] = config[t] /\ target'[t] = target[t]
  /\ number'[t] = number[t] /\ parsed'[t] = parsed[t]
  /\ mine'[t] = mine[t] /\ batch'[t] = batch[t]
  /\ plan'[t] = plan[t] /\ demoted'[t] = demoted[t]

\* The database and the index never take back what a session relies on.
Grows ==
  /\ points \subseteq points'
  /\ \A x \in Rows : entries[x].status # "none" => entries'[x].status # "none"
  /\ \A r \in Runs : runs[r] # None =>
       /\ runs'[r] # None /\ runs'[r].sections = runs[r].sections
       /\ runs[r].status = "SUCCEEDED" => runs'[r].status = "SUCCEEDED"

LEMMA OthersKeep ==
  ASSUME TypeOK, NEW t \in Sessions, HoldInv(t), LoadInv(t), Kept(t), Grows,
         number[t] # 0 => runs'[target[t]] = None
  PROVE  HoldInv(t)' /\ LoadInv(t)'
<1>1. HoldInv(t)'
  <2>1. ASSUME NEW x \in Rows, mine'[t][x] # None
        PROVE  /\ EntryInv(x, mine[t][x])' /\ mine'[t][x].status # "none"
               /\ entries'[x].status # "none" \/ (number'[t] # 0 /\ x[1] = target'[t])
    BY <2>1 DEF Kept, Grows, HoldInv, EntryInv
  <2>2. QED
    BY <2>1 DEF HoldInv, Kept
<1>2. LoadInv(t)'
  <2>1. t \in Loaders /\ pc[t] \in {"draining", "working", "activating", "committing"} =>
          target[t] \in Runs /\ (number[t] = 0 => runs'[target[t]] # None)
    BY DEF LoadInv, Grows
  <2>2. plan[t] \intersect {"active", "marked"} # {} =>
          /\ \A l \in SectionsOf(t)' : <<target[t], l>> \in points'
          /\ "marked" \in plan[t]
             \/ (number[t] = 0 /\ runs'[target[t]].status = "SUCCEEDED")
    <3> SUFFICES ASSUME plan[t] \intersect {"active", "marked"} # {}
                 PROVE  /\ \A l \in SectionsOf(t)' : <<target[t], l>> \in points'
                        /\ "marked" \in plan[t]
                           \/ (number[t] = 0 /\ runs'[target[t]].status = "SUCCEEDED")
      OBVIOUS
    <3>1. t \in Loaders /\ pc[t] = "committing" /\ target[t] \in Runs
      BY DEF LoadInv
    <3>2. number[t] = 0 => runs[target[t]] # None
      BY <3>1 DEF LoadInv
    <3>3. SectionsOf(t)' = SectionsOf(t)
      BY <3>1, <3>2 DEF SectionsOf, Kept, Grows
    <3>4. QED
      BY <3>1, <3>2, <3>3 DEF LoadInv, Grows
  <2>3. demoted[t] # None =>
          runs'[demoted[t]] # None /\ runs'[demoted[t]].status = "SUCCEEDED"
    BY DEF LoadInv, Grows, TypeOK
  <2>4. NoRows' = NoRows
    BY DEF NoRows
  <2>5. QED
    BY <2>1, <2>2, <2>3, <2>4 DEF LoadInv, Kept
<1>3. QED
  BY <1>1, <1>2

\* A step of one session that leaves the database alone.
LEMMA Quiet ==
  ASSUME IInv, NEW s \in Sessions, TypeOK', UNCHANGED <<database, frozen>>,
         points \subseteq points', \A t \in Sessions \ {s} : Kept(t),
         HoldInv(s)', LoadInv(s)',
         \/ number'[s] = 0
         \/ number'[s] = number[s] /\ target'[s] = target[s]
         \/ \A t \in Sessions \ {s} : target[t] # target'[s],
         \A x \in Rows : mine'[s][x] # None =>
           \A t \in Sessions \ {s} : mine[t][x] = None
  PROVE  IInv'
<1>1. RunInv'
  BY DEF IInv, RunInv, EntryInv, database
<1>2. ReadInv'
  BY DEF IInv, ReadInv, Readable, database
<1>3. Grows
  BY DEF Grows, database
<1>4. \A t \in Sessions : HoldInv(t)' /\ LoadInv(t)'
  <2>1. ASSUME NEW t \in Sessions \ {s} PROVE HoldInv(t)' /\ LoadInv(t)'
    <3>1. number[t] # 0 => runs'[target[t]] = None
      BY DEF IInv, LoadInv, database
    <3>2. QED
      BY <1>3, <3>1, OthersKeep DEF IInv
  <2>2. QED
    BY <2>1
<1>5. TargetsDiffer'
  <2> SUFFICES ASSUME NEW t \in Sessions, NEW u \in Sessions, number'[t] # 0,
                      number'[u] # 0, target'[t] = target'[u]
               PROVE  t = u
    BY DEF TargetsDiffer
  <2>1. CASE t # s /\ u # s
    BY <2>1 DEF IInv, TargetsDiffer, Kept
  <2>2. CASE t = s \/ u = s
    BY <2>2 DEF IInv, TargetsDiffer, Kept
  <2>3. QED
    BY <2>1, <2>2
<1>6. EntriesHaveOneHolder'
  BY DEF IInv, EntriesHaveOneHolder, Kept
<1>7. QED
  BY <1>1, <1>2, <1>4, <1>5, <1>6 DEF IInv

\* A rollback is one: it only gives up what the session held.
LEMMA RollbackQuiet ==
  ASSUME IInv, NEW s \in Sessions, Rollback(s), TypeOK'
  PROVE  IInv'
<1>1. \A t \in Sessions \ {s} : Kept(t)
  BY DEF IInv, TypeOK, Rollback, Released, Goto, Kept
<1>2. /\ pc'[s] = "idle" /\ target'[s] = None /\ number'[s] = 0
      /\ parsed'[s] = {} /\ mine'[s] = NoRows /\ batch'[s] = {}
      /\ plan'[s] = {} /\ demoted'[s] = None
  BY DEF IInv, TypeOK, Rollback, Released, Goto
<1>3. NoRows' = NoRows
  BY DEF NoRows
<1>4. \A x \in Rows : mine'[s][x] = None
  BY <1>2 DEF NoRows
<1>5. HoldInv(s)' /\ LoadInv(s)'
  BY <1>2, <1>3, <1>4 DEF HoldInv, LoadInv, SectionsOf
<1>6. UNCHANGED <<database, points, frozen>>
  BY DEF Rollback
<1>7. QED
  BY <1>1, <1>2, <1>4, <1>5, <1>6, Quiet

---------------------------------------------------------------------------
(* The steps of an ingestion. *)

LEMMA Ingesting ==
  ASSUME IInv, TypeOK', NEW s \in Loaders,
         \/ \E c \in Configs : Start(s, c)
         \/ LookForRun(s) \/ NumberRun(s) \/ InsertRun(s)
  PROVE  IInv'
<1> s \in Sessions
  BY DEF Sessions
<1>1. /\ pc[s] \in {"idle", "looking", "numbering", "inserting"}
      /\ mine[s] = NoRows /\ batch[s] = {} /\ parsed[s] = {}
      /\ plan[s] = {} /\ demoted[s] = None
  BY DEF Start, LookForRun, NumberRun, InsertRun, IInv, LoadInv
<1>2. /\ mine' = mine /\ batch' = batch /\ parsed' = parsed
      /\ plan' = plan /\ demoted' = demoted
      /\ UNCHANGED <<database, frozen, points>>
  BY DEF Start, LookForRun, NumberRun, InsertRun, place, work
<1>3. \A x \in Rows : mine[s][x] = None
  BY <1>1 DEF NoRows
<1>4. HoldInv(s)'
  BY <1>1, <1>2, <1>3 DEF HoldInv
<1>5. NoRows' = NoRows
  BY DEF NoRows
<1>6. s \notin Workers
  BY IndexAssumption
<1>7. ASSUME NEW c \in Configs, Start(s, c) PROVE IInv'
  <2>1. \A t \in Sessions \ {s} : Kept(t)
    BY <1>2, <1>7 DEF Start, Goto, Kept, IInv, TypeOK
  <2>2. pc'[s] = "looking" /\ config'[s] = c /\ number'[s] = number[s] /\ number[s] = 0
        /\ target'[s] = target[s]
    BY <1>7 DEF Start, Goto, IInv, TypeOK, LoadInv
  <2>3. LoadInv(s)'
    BY <1>1, <1>2, <1>5, <1>6, <2>2 DEF LoadInv
  <2>4. QED
    BY <1>2, <1>3, <1>4, <2>1, <2>2, <2>3, Quiet
<1>8. CASE LookForRun(s)
  <2>1. config' = config /\ number' = number /\ number[s] = 0 /\ config[s] \in Configs
    BY <1>8 DEF LookForRun, IInv, LoadInv
  <2>2. CASE Reusable(config[s]) = {}
    <3>1. pc' = [pc EXCEPT ![s] = "numbering"] /\ target' = target
      BY <1>8, <2>2 DEF LookForRun, Goto
    <3>2. \A t \in Sessions \ {s} : Kept(t)
      BY <1>2, <2>1, <3>1 DEF Kept, IInv, TypeOK
    <3>3. pc'[s] = "numbering"
      BY <3>1 DEF IInv, TypeOK
    <3>4. LoadInv(s)'
      BY <1>1, <1>2, <1>5, <1>6, <2>1, <3>3 DEF LoadInv
    <3>5. QED
      BY <1>2, <1>3, <1>4, <2>1, <3>2, <3>4, Quiet
  <2>3. CASE Reusable(config[s]) # {}
    <3>1. PICK r \in Reusable(config[s]) : target' = [target EXCEPT ![s] = r]
      BY <1>8, <2>3 DEF LookForRun
    <3>2. r \in Runs /\ runs[r] # None
      BY DEF Reusable
    <3>3. pc' = [pc EXCEPT ![s] = "draining"]
      BY <1>8, <2>3 DEF LookForRun, Goto
    <3>4. \A t \in Sessions \ {s} : Kept(t)
      BY <1>2, <2>1, <3>1, <3>3 DEF Kept, IInv, TypeOK
    <3>5. pc'[s] = "draining" /\ target'[s] = r /\ runs'[r] # None
      BY <1>2, <3>1, <3>2, <3>3 DEF IInv, TypeOK, database
    <3>6. LoadInv(s)'
      BY <1>1, <1>2, <1>5, <1>6, <2>1, <3>2, <3>5 DEF LoadInv
    <3>7. QED
      BY <1>2, <1>3, <1>4, <2>1, <3>4, <3>6, Quiet
  <2>4. QED
    BY <2>2, <2>3
<1>9. CASE NumberRun(s)
  <2>1. PICK r \in Runs : Unused(r) /\ target' = [target EXCEPT ![s] = r]
    BY <1>9 DEF NumberRun
  <2>2. PICK n \in Generations \union {0} : number' = [number EXCEPT ![s] = n + 1]
    BY <1>9 DEF NumberRun
  <2>3. n \in Nat
    BY DEF Generations, IInv, TypeOK, Run
  <2>4. config' = config /\ pc' = [pc EXCEPT ![s] = "inserting"]
    BY <1>9 DEF NumberRun, Goto
  <2>5. \A t \in Sessions \ {s} : Kept(t)
    BY <1>2, <2>1, <2>2, <2>4 DEF Kept, IInv, TypeOK
  <2>6. /\ pc'[s] = "inserting" /\ target'[s] = r /\ number'[s] = n + 1
        /\ config'[s] \in Configs /\ runs'[r] = None
    BY <1>2, <1>9, <2>1, <2>2, <2>4 DEF NumberRun, IInv, TypeOK, LoadInv, Unused, database
  <2>7. \A t \in Sessions \ {s} : target[t] # target'[s]
    BY <2>1, <2>6 DEF Unused
  <2>8. LoadInv(s)'
    BY <1>1, <1>2, <1>5, <1>6, <2>3, <2>6 DEF LoadInv
  <2>9. QED
    BY <1>2, <1>3, <1>4, <2>5, <2>7, <2>8, Quiet
<1>10. CASE InsertRun(s)
  <2>1. /\ config' = config /\ target' = target /\ number' = number
        /\ pc' = [pc EXCEPT ![s] = "parsing"]
    BY <1>10 DEF InsertRun, Goto, place
  <2>2. \A t \in Sessions \ {s} : Kept(t)
    BY <1>2, <2>1 DEF Kept, IInv, TypeOK
  <2>3. pc'[s] = "parsing" /\ pc[s] = "inserting"
    BY <1>10, <2>1 DEF InsertRun, IInv, TypeOK
  <2>4. runs' = runs /\ LoadInv(s)
    BY <1>2 DEF database, IInv
  <2>5. LoadInv(s)'
    BY <1>1, <1>2, <1>5, <1>6, <2>1, <2>3, <2>4 DEF LoadInv
  <2>6. QED
    BY <1>2, <1>3, <1>4, <2>1, <2>2, <2>5, Quiet
<1>11. QED
  BY <1>7, <1>8, <1>9, <1>10

\* The entries of the run it creates are its own: nobody else knows the run.
LEMMA Parsing ==
  ASSUME IInv, TypeOK', NEW s \in Loaders, NEW leaves \in SUBSET Leaves, Parse(s, leaves)
  PROVE  IInv'
<1> s \in Sessions
  BY DEF Sessions
<1>1. /\ pc[s] = "parsing" /\ batch[s] = {} /\ demoted[s] = None /\ number[s] # 0
      /\ target[s] \in Runs /\ runs[target[s]] = None /\ config[s] \in Configs
  BY DEF Parse, IInv, LoadInv
<1>2. /\ config' = config /\ target' = target /\ number' = number
      /\ batch' = batch /\ demoted' = demoted
      /\ UNCHANGED <<database, frozen, points>>
  BY DEF Parse
<1>3. \A t \in Sessions \ {s} : Kept(t)
  BY <1>2 DEF Parse, Goto, Kept, IInv, TypeOK
<1>4. /\ pc'[s] = "draining" /\ parsed'[s] = leaves
      /\ plan'[s] \intersect {"active", "marked"} = {}
      /\ \A x \in Rows : mine'[s][x] = IF x[1] = target[s] /\ x[2] \in OwedItems(leaves)
                                       THEN Owed ELSE None
  BY DEF Parse, Goto, IInv, TypeOK
<1>5. Owed \in Entry /\ Owed.status = "PENDING" /\ Owed.attempts < MaxAttempts
  BY IndexAssumption DEF Owed, Entry, EntryStatus
<1>6. HoldInv(s)'
  BY <1>1, <1>2, <1>4, <1>5 DEF HoldInv, EntryInv
<1>7. \A l \in leaves : mine'[s][<<target[s], l>>] # None
  <2> SUFFICES ASSUME NEW l \in leaves PROVE mine'[s][<<target[s], l>>] # None
    OBVIOUS
  <2>1. <<target[s], l>> \in Rows /\ l \in OwedItems(leaves)
    BY <1>1 DEF Rows, Items, OwedItems
  <2>2. QED
    BY <1>4, <1>5, <2>1, IndexAssumption
<1>8. LoadInv(s)'
  BY <1>1, <1>2, <1>4, <1>7, IndexAssumption DEF LoadInv, database
<1>9. ASSUME NEW x \in Rows, mine'[s][x] # None, NEW t \in Sessions \ {s}
      PROVE  mine[t][x] = None
  <2>1. x[1] = target[s]
    BY <1>4, <1>9
  <2>2. entries[x].status = "none"
    BY <1>1, <2>1 DEF IInv, RunInv
  <2>3. ~ (number[t] # 0 /\ target[t] = target[s])
    BY <1>1 DEF IInv, TargetsDiffer
  <2>4. QED
    BY <2>1, <2>2, <2>3 DEF IInv, HoldInv
<1>10. QED
  BY <1>2, <1>3, <1>6, <1>8, <1>9, Quiet

---------------------------------------------------------------------------
(* The steps of draining. *)

\* What is claimed is held by nobody else.
LEMMA Claiming ==
  ASSUME IInv, TypeOK', NEW s \in Sessions, Claim(s)
  PROVE  IInv'
<1>1. PICK rows \in SUBSET Pending(s) : Take(s, rows)
  BY DEF Claim, Fresh
<1>2. UNCHANGED <<database, frozen, points, config, target, number, parsed, plan, demoted>>
  BY DEF Claim, place
<1>3. \A t \in Sessions \ {s} : Kept(t)
  BY <1>1, <1>2 DEF Take, Goto, Kept, IInv, TypeOK
<1>4. /\ pc'[s] = "working" /\ batch'[s] = rows
      /\ \A x \in Rows : mine'[s][x] =
           IF x \in rows
           THEN [status |-> "PROCESSING", attempts |-> View(s, x).attempts + 1]
           ELSE mine[s][x]
  BY <1>1 DEF Take, Goto, IInv, TypeOK
<1>5. ASSUME NEW x \in rows
      PROVE  /\ x \in Rows /\ mine'[s][x] # None /\ mine'[s][x].status = "PROCESSING"
             /\ \A t \in Sessions \ {s} : mine[t][x] = None
             /\ mine[s][x] = None => entries[x].status # "none"
  <2>1. x \in Rows /\ View(s, x).status = "PENDING" /\ ~ Locked(s, x)
    BY DEF Pending
  <2>2. mine'[s][x] = [status |-> "PROCESSING", attempts |-> View(s, x).attempts + 1]
    BY <1>4, <2>1
  <2>3. mine'[s][x] # None
    <3>1. View(s, x) \in Entry /\ View(s, x).attempts < MaxAttempts
      BY <2>1, ViewType, ViewInv DEF IInv, EntryInv
    <3>2. mine'[s][x] \in Entry
      BY <2>2, <3>1, IndexAssumption DEF Entry, EntryStatus
    <3>3. QED
      BY <3>2, IndexAssumption
  <2>4. QED
    BY <2>1, <2>2, <2>3 DEF Locked, View
<1>6. HoldInv(s)'
  <2>1. ASSUME NEW x \in Rows, mine'[s][x] # None
        PROVE  /\ EntryInv(x, mine[s][x])' /\ mine'[s][x].status # "none"
               /\ entries'[x].status # "none" \/ (number'[s] # 0 /\ x[1] = target'[s])
    <3>1. CASE x \in rows
      BY <1>2, <1>5, <3>1 DEF EntryInv, IInv, HoldInv, database
    <3>2. CASE x \notin rows
      BY <1>2, <1>4, <2>1, <3>2 DEF EntryInv, IInv, HoldInv, database
    <3>3. QED
      BY <3>1, <3>2
  <2>2. QED
    BY <1>4, <1>5, <2>1 DEF HoldInv
<1>7. LoadInv(s)'
  <2>1. \A l \in parsed[s] : mine'[s][<<target[s], l>>] # None
    <3> SUFFICES ASSUME NEW l \in parsed[s] PROVE mine'[s][<<target[s], l>>] # None
      OBVIOUS
    <3>1. mine[s][<<target[s], l>>] # None
      BY DEF IInv, LoadInv
    <3>2. pc[s] # "idle" /\ target[s] \in Runs
      BY IndexAssumption DEF Claim, IInv, LoadInv, Sessions
    <3>3. <<target[s], l>> \in Rows
      BY <3>2 DEF IInv, TypeOK, Rows, Items
    <3>4. QED
      BY <1>4, <1>5, <3>1, <3>3
  <2>2. pc[s] = "idle" \/ (s \in Loaders /\ pc[s] = "draining")
    BY DEF Claim
  <2>3. s \in Loaders => pc[s] = "draining"
    BY DEF Claim
  <2>4. plan[s] \intersect {"active", "marked"} = {}
    BY <2>2 DEF IInv, LoadInv
  <2>5. QED
    BY <1>2, <1>4, <2>1, <2>2, <2>3, <2>4 DEF IInv, LoadInv, database
<1>8. \A x \in Rows : mine'[s][x] # None =>
        \A t \in Sessions \ {s} : mine[t][x] = None
  BY <1>4, <1>5 DEF IInv, EntriesHaveOneHolder
<1>9. QED
  BY <1>2, <1>3, <1>6, <1>7, <1>8, Quiet

\* An entry ends with a value that holds of it, and with its point if completed.
LEMMA Ending ==
  ASSUME IInv, TypeOK', NEW s \in Sessions, NEW x \in batch[s], NEW e \in Entry,
         EndEntry(s, x, e), pc[s] = "working", e.status # "none",
         points \subseteq points', EntryInv(x, e)'
  PROVE  IInv'
<1>1. x \in Rows /\ mine[s][x] # None
  BY DEF IInv, TypeOK, HoldInv
<1>2. UNCHANGED <<database, frozen, config, target, number, parsed, plan, demoted>>
  BY DEF EndEntry, place
<1>3. /\ pc'[s] \in {"working", "draining", "committing"}
      /\ pc'[s] = "draining" => s \in Loaders
      /\ pc'[s] # "working" => batch[s] = {x}
  BY DEF EndEntry, Goto, IInv, TypeOK
<1>4. \A t \in Sessions \ {s} : pc'[t] = pc[t]
  BY DEF EndEntry, Goto, IInv, TypeOK
<1>5. \A t \in Sessions \ {s} : Kept(t)
  BY <1>2, <1>4 DEF EndEntry, Kept, IInv, TypeOK
<1>6. /\ batch'[s] = batch[s] \ {x}
      /\ \A y \in Rows : mine'[s][y] = IF y = x THEN e ELSE mine[s][y]
  BY <1>1 DEF EndEntry, IInv, TypeOK
<1>7. e # None
  BY IndexAssumption
<1>8. \A y \in Rows : mine'[s][y] # None => mine[s][y] # None
  BY <1>1, <1>6
<1>9. HoldInv(s)'
  <2>1. ASSUME NEW y \in Rows, mine'[s][y] # None
        PROVE  /\ EntryInv(y, mine[s][y])' /\ mine'[s][y].status # "none"
               /\ entries'[y].status # "none" \/ (number'[s] # 0 /\ y[1] = target'[s])
    <3>1. entries'[y].status # "none" \/ (number'[s] # 0 /\ y[1] = target'[s])
      BY <1>2, <1>8, <2>1 DEF IInv, HoldInv, database
    <3>2. CASE y = x
      BY <1>1, <1>6, <3>1, <3>2 DEF EntryInv
    <3>3. CASE y # x
      BY <1>6, <2>1, <3>1, <3>3 DEF EntryInv, IInv, HoldInv
    <3>4. QED
      BY <3>2, <3>3
  <2>2. \A y \in batch'[s] : mine'[s][y] # None
    BY <1>6 DEF IInv, HoldInv, TypeOK
  <2>3. QED
    BY <2>1, <2>2 DEF HoldInv
<1>10. LoadInv(s)'
  <2>1. \A l \in parsed[s] : mine'[s][<<target[s], l>>] # None
    BY <1>6, <1>7 DEF IInv, LoadInv, EndEntry, TypeOK
  <2>2. plan[s] \intersect {"active", "marked"} = {}
    BY DEF IInv, LoadInv
  <2>3. QED
    BY <1>2, <1>3, <1>6, <2>1, <2>2 DEF IInv, LoadInv, database
<1>11. \A y \in Rows : mine'[s][y] # None =>
         \A t \in Sessions \ {s} : mine[t][y] = None
  BY <1>8 DEF IInv, EntriesHaveOneHolder
<1>12. QED
  BY <1>2, <1>5, <1>9, <1>10, <1>11, Quiet

LEMMA Working ==
  ASSUME IInv, TypeOK', NEW s \in Sessions, NEW x \in batch[s],
         Index(s, x) \/ IndexFails(s, x)
  PROVE  IInv'
<1>1. x \in Rows /\ mine[s][x] \in Entry
  BY DEF IInv, TypeOK, HoldInv
<1>2. pc[s] = "working"
  BY DEF IInv, LoadInv
<1>3. CASE Index(s, x)
  <2>1. PICK e \in Entry : e.status = "COMPLETED" /\ EndEntry(s, x, e)
    <3>1. [mine[s][x] EXCEPT !.status = "COMPLETED"] \in Entry
      BY <1>1 DEF Entry, EntryStatus
    <3>2. [mine[s][x] EXCEPT !.status = "COMPLETED"].status = "COMPLETED"
      BY <1>1 DEF Entry
    <3>3. QED
      BY <1>3, <3>1, <3>2 DEF Index
  <2>2. points' = points \union {x}
    BY <1>3 DEF Index
  <2>3. EntryInv(x, e)'
    BY <2>1, <2>2 DEF EntryInv
  <2>4. QED
    BY <1>2, <2>1, <2>2, <2>3, Ending
<1>4. CASE IndexFails(s, x)
  <2>1. PICK e \in Entry :
          /\ e.status \in {"FAILED", "PENDING"} /\ EndEntry(s, x, e)
          /\ e.status = "PENDING" => e.attempts < MaxAttempts
    <3> DEFINE v == IF mine[s][x].attempts >= MaxAttempts THEN "FAILED" ELSE "PENDING"
               e == [mine[s][x] EXCEPT !.status = v]
    <3>1. e \in Entry /\ e.status = v /\ e.attempts = mine[s][x].attempts
      BY <1>1 DEF Entry, EntryStatus
    <3>2. v = "PENDING" => mine[s][x].attempts < MaxAttempts
      BY <1>1, IndexAssumption DEF Entry
    <3>3. EndEntry(s, x, e)
      BY <1>4 DEF IndexFails
    <3>4. v \in {"FAILED", "PENDING"}
      OBVIOUS
    <3>5. QED
      BY <3>1, <3>2, <3>3, <3>4
  <2>2. points \subseteq points'
    BY <1>4 DEF IndexFails
  <2>3. EntryInv(x, e)'
    BY <2>1 DEF EntryInv
  <2>4. QED
    BY <1>2, <2>1, <2>2, <2>3, Ending
<1>5. QED
  BY <1>3, <1>4

\* A loader that stops draining, and what it decides then.
LEMMA Deciding ==
  ASSUME IInv, TypeOK', NEW s \in Loaders, StopDraining(s) \/ Activate(s)
  PROVE  IInv'
<1> s \in Sessions /\ s \notin Workers
  BY IndexAssumption DEF Sessions
<1>1. /\ UNCHANGED <<database, frozen, points, config, target, number, parsed, mine, batch>>
      /\ \/ pc[s] = "draining" /\ pc' = [pc EXCEPT ![s] = "activating"]
         \/ pc[s] = "activating" /\ pc' = [pc EXCEPT ![s] = "committing"]
  BY DEF StopDraining, Activate, Goto, place, work
<1>2. \A t \in Sessions \ {s} : plan'[t] = plan[t] /\ demoted'[t] = demoted[t]
  BY DEF StopDraining, Activate, work, IInv, TypeOK
<1>3. \A t \in Sessions \ {s} : Kept(t)
  BY <1>1, <1>2 DEF Kept, IInv, TypeOK
<1>4. HoldInv(s)'
  BY <1>1 DEF IInv, HoldInv, EntryInv, database
<1>5. /\ target[s] \in Runs /\ (number[s] = 0 => runs[target[s]] # None)
      /\ plan[s] \intersect {"active", "marked"} = {} /\ batch[s] = {}
  BY <1>1 DEF IInv, LoadInv
<1>6. /\ plan'[s] \intersect {"active", "marked"} # {} =>
           /\ pc'[s] = "committing"
           /\ \A l \in SectionsOf(s)' : <<target[s], l>> \in points
           /\ "marked" \in plan'[s]
              \/ (number[s] = 0 /\ runs[target[s]].status = "SUCCEEDED")
      /\ demoted'[s] # None =>
           runs[demoted'[s]] # None /\ runs[demoted'[s]].status = "SUCCEEDED"
  <2>1. CASE UNCHANGED <<plan, demoted>>
    BY <1>5, <2>1 DEF IInv, LoadInv
  <2>2. CASE Activate(s) /\ Complete(s)
    <3>1. plan'[s] = plan[s] \union ActivationWrites(s) /\ demoted'[s] = Superseded(s)
      BY <2>2 DEF Activate, IInv, TypeOK
    <3>2. pc'[s] = "committing"
      BY <2>2 DEF Activate, Goto, IInv, TypeOK
    <3>3. SectionsOf(s)' = SectionsOf(s)
      BY <1>1 DEF SectionsOf, database
    <3>4. ASSUME NEW l \in SectionsOf(s) PROVE <<target[s], l>> \in points
      <4>1. l \in Leaves
        BY <1>5 DEF SectionsOf, IInv, TypeOK, Run
      <4>2. <<target[s], l>> \in Rows
        BY <1>5, <4>1 DEF Rows, Items
      <4>3. View(s, <<target[s], l>>).status # "none"
        <5>1. CASE number[s] = 0
          <6>1. entries[<<target[s], l>>].status # "none"
            BY <1>5, <5>1 DEF SectionsOf, IInv, RunInv
          <6>2. QED
            BY <4>2, <6>1 DEF View, IInv, HoldInv
        <5>2. CASE number[s] # 0
          <6>1. mine[s][<<target[s], l>>] # None
            BY <5>2 DEF SectionsOf, IInv, LoadInv
          <6>2. QED
            BY <4>2, <6>1 DEF View, IInv, HoldInv
        <5>3. QED
          BY <5>1, <5>2
      <4>4. View(s, <<target[s], l>>).status = "COMPLETED"
        BY <2>2, <4>1, <4>3 DEF Complete
      <4>5. QED
        BY <4>2, <4>4, ViewInv DEF EntryInv, IInv
    <3>5. "marked" \notin plan'[s] =>
            number[s] = 0 /\ runs[target[s]].status = "SUCCEEDED"
      <4> SUFFICES ASSUME "marked" \notin plan'[s]
                   PROVE  number[s] = 0 /\ runs[target[s]].status = "SUCCEEDED"
        OBVIOUS
      <4>1. runs[target[s]] # None /\ runs[target[s]].mark = "ACTIVE"
        BY <3>1 DEF ActivationWrites
      <4>2. number[s] = 0
        BY <4>1 DEF IInv, LoadInv
      <4>3. QED
        BY <1>5, <4>1, <4>2 DEF IInv, RunInv
    <3>6. demoted'[s] # None =>
            runs[demoted'[s]] # None /\ runs[demoted'[s]].status = "SUCCEEDED"
      BY <3>1 DEF Superseded, IInv, ReadInv, Readable
    <3>7. QED
      BY <3>2, <3>3, <3>4, <3>5, <3>6
  <2>3. QED
    BY <2>1, <2>2 DEF StopDraining, Activate, work
<1>7. pc'[s] \in {"activating", "committing"}
  BY <1>1 DEF IInv, TypeOK
<1>8. LoadInv(s)'
  <2>1. \A l \in parsed'[s] : mine'[s][<<target'[s], l>>] # None
    BY <1>1 DEF IInv, LoadInv
  <2>2. number[s] # 0 => runs[target[s]] = None /\ config[s] \in Configs
    BY DEF IInv, LoadInv
  <2>3. QED
    BY <1>1, <1>5, <1>6, <1>7, <2>1, <2>2 DEF LoadInv, database
<1>9. QED
  BY <1>1, <1>3, <1>4, <1>8, Quiet DEF IInv, EntriesHaveOneHolder

---------------------------------------------------------------------------
(* The commit. *)

\* A run that can be read stays so.
LEMMA ReadableStays ==
  ASSUME Grows, NEW r \in Runs, Readable(r)
  PROVE  Readable(r)'
BY DEF Grows, Readable

\* What a commit leaves of each run.
LEMMA CommittedRuns ==
  ASSUME IInv, NEW s \in Sessions, Commit(s)
  PROVE  /\ target[s] # None => /\ s \in Loaders /\ target[s] \in Runs
                                /\ number[s] = 0 => runs[target[s]] \in Run
         /\ \A r \in Runs : r # target[s] =>
              \/ runs'[r] = runs[r]
              \/ /\ runs[r] \in Run /\ runs[r].status = "SUCCEEDED"
                 /\ runs'[r] \in Run /\ runs'[r].status = "SUCCEEDED"
                 /\ runs'[r].sections = runs[r].sections
         /\ target[s] # None =>
              /\ runs'[target[s]] \in Run
              /\ runs'[target[s]].sections = SectionsOf(s)
              /\ number[s] = 0 /\ runs[target[s]].status = "SUCCEEDED"
                   => runs'[target[s]].status = "SUCCEEDED"
              /\ "marked" \in plan[s] => runs'[target[s]].status = "SUCCEEDED"
              /\ runs'[target[s]].mark # "CANDIDATE"
                   => runs'[target[s]].status = "SUCCEEDED"
<1>1. target[s] # None => s \in Loaders /\ target[s] \in Runs /\ pc[s] = "committing"
  BY DEF IInv, LoadInv, TypeOK, Commit, Sessions
<1>2. target[s] # None /\ number[s] = 0 => runs[target[s]] \in Run
  BY <1>1 DEF IInv, LoadInv, TypeOK
<1>3. ASSUME NEW r \in Runs, r # target[s]
      PROVE  \/ runs'[r] = runs[r]
             \/ /\ runs[r] \in Run /\ runs[r].status = "SUCCEEDED"
                /\ runs'[r] \in Run /\ runs'[r].status = "SUCCEEDED"
                /\ runs'[r].sections = runs[r].sections
  <2>1. CASE r = demoted[s]
    <3>1. runs[r] \in Run /\ runs[r].status = "SUCCEEDED"
      BY <2>1, IndexAssumption DEF IInv, LoadInv, TypeOK
    <3>2. runs'[r] = [runs[r] EXCEPT !.mark = "SUPERSEDED"]
      BY <1>3, <2>1 DEF Commit
    <3>3. QED
      BY <3>1, <3>2 DEF Run
  <2>2. CASE r # demoted[s]
    BY <1>3, <2>2 DEF Commit
  <2>3. QED
    BY <2>1, <2>2
<1>4. ASSUME target[s] # None
      PROVE  /\ runs'[target[s]] \in Run
             /\ runs'[target[s]].sections = SectionsOf(s)
             /\ number[s] = 0 /\ runs[target[s]].status = "SUCCEEDED"
                  => runs'[target[s]].status = "SUCCEEDED"
             /\ "marked" \in plan[s] => runs'[target[s]].status = "SUCCEEDED"
             /\ runs'[target[s]].mark # "CANDIDATE"
                  => runs'[target[s]].status = "SUCCEEDED"
  <2>1. runs'[target[s]] = Marked(s, RunOf(s))
    BY <1>1, <1>4 DEF Commit
  <2>2. Marked(s, RunOf(s)) \in Run
    BY <1>1, <1>4, MarkedType DEF IInv
  <2>3. /\ RunOf(s) \in Run /\ RunOf(s).sections = SectionsOf(s)
        /\ number[s] = 0 => RunOf(s).status = runs[target[s]].status
        /\ RunOf(s).mark # "CANDIDATE" => RunOf(s).status = "SUCCEEDED"
    <3>1. CASE number[s] = 0
      BY <1>1, <1>2, <1>4, <3>1, IndexAssumption DEF RunOf, SectionsOf, IInv, RunInv
    <3>2. CASE number[s] # 0
      <4>1. config[s] \in Configs /\ number[s] \in Nat \ {0} /\ parsed[s] \in SUBSET Leaves
        BY <3>2 DEF IInv, LoadInv, TypeOK
      <4>2. QED
        BY <3>2, <4>1 DEF RunOf, SectionsOf, Run
    <3>3. QED
      BY <3>1, <3>2
  <2>4. QED
    BY <2>1, <2>2, <2>3 DEF Marked, Run
<1>5. QED
  BY <1>1, <1>2, <1>3, <1>4

\* A commit takes nothing back.
LEMMA CommitGrows ==
  ASSUME IInv, NEW s \in Sessions, Commit(s)
  PROVE  Grows
<1>1. \A x \in Rows : entries[x].status # "none" => entries'[x].status # "none"
  BY DEF Commit, View, IInv, HoldInv
<1>2. ASSUME NEW r \in Runs, runs[r] # None
      PROVE  /\ runs'[r] # None /\ runs'[r].sections = runs[r].sections
             /\ runs[r].status = "SUCCEEDED" => runs'[r].status = "SUCCEEDED"
  <2>1. CASE r = target[s]
    <3>1. number[s] = 0
      BY <1>2, <2>1 DEF IInv, LoadInv
    <3>2. QED
      BY <1>2, <2>1, <3>1, CommittedRuns, IndexAssumption DEF SectionsOf
  <2>2. CASE r # target[s]
    BY <1>2, <2>2, CommittedRuns, IndexAssumption
  <2>3. QED
    BY <2>1, <2>2
<1>3. QED
  BY <1>1, <1>2 DEF Commit, Grows

\* It keeps the invariant.
LEMMA Committing ==
  ASSUME IInv, TypeOK', NEW s \in Sessions, Commit(s)
  PROVE  IInv'
<1>1. /\ points' = points /\ frozen' = frozen /\ pc[s] = "committing"
      /\ entries' = [x \in Rows |-> View(s, x)]
  BY DEF Commit
<1>2. \A t \in Sessions \ {s} : Kept(t)
  BY DEF IInv, TypeOK, Commit, Released, Goto, Kept
<1>3. /\ pc'[s] = "idle" /\ target'[s] = None /\ number'[s] = 0
      /\ parsed'[s] = {} /\ mine'[s] = NoRows /\ batch'[s] = {}
      /\ plan'[s] = {} /\ demoted'[s] = None
  BY DEF IInv, TypeOK, Commit, Released, Goto
<1>4. HoldInv(s)' /\ LoadInv(s)'
  <2>1. NoRows' = NoRows /\ \A x \in Rows : mine'[s][x] = None
    BY <1>3 DEF NoRows
  <2>2. QED
    BY <1>3, <2>1 DEF HoldInv, LoadInv, SectionsOf
<1>5. Grows
  BY CommitGrows
<1>6. \A t \in Sessions : HoldInv(t)' /\ LoadInv(t)'
  <2>1. ASSUME NEW t \in Sessions \ {s} PROVE HoldInv(t)' /\ LoadInv(t)'
    <3>1. ASSUME number[t] # 0 PROVE runs'[target[t]] = None
      <4>1. target[t] \in Runs /\ runs[target[t]] = None
        BY <3>1 DEF IInv, LoadInv
      <4>2. target[t] # target[s]
        <5> SUFFICES ASSUME target[t] = target[s] PROVE FALSE
          OBVIOUS
        <5>1. s \in Loaders
          BY <4>1, IndexAssumption DEF IInv, LoadInv, Sessions
        <5>2. number[s] # 0
          BY <1>1, <4>1, <5>1 DEF IInv, LoadInv
        <5>3. QED
          BY <3>1, <5>2 DEF IInv, TargetsDiffer
      <4>3. QED
        BY <4>1, <4>2, CommittedRuns, IndexAssumption
    <3>2. QED
      BY <1>2, <1>5, <3>1, OthersKeep DEF IInv
  <2>2. QED
    BY <1>4, <2>1
<1>7. RunInv'
  <2>1. \A x \in Rows : EntryInv(x, entries[x])'
    <3>1. ASSUME NEW x \in Rows PROVE EntryInv(x, entries[x])'
      <4>1. EntryInv(x, View(s, x))
        BY ViewInv DEF IInv
      <4>2. QED
        BY <1>1, <4>1 DEF EntryInv
    <3>2. QED
      BY <3>1
  <2>2. ASSUME NEW r \in Runs, runs'[r] # None
        PROVE  /\ \A l \in runs'[r].sections : entries'[<<r, l>>].status # "none"
               /\ runs'[r].mark # "CANDIDATE" => runs'[r].status = "SUCCEEDED"
    <3>1. runs'[r] \in Run
      BY <2>2 DEF TypeOK
    <3>2. \A l \in runs'[r].sections : <<r, l>> \in Rows
      BY <3>1 DEF Run, Rows, Items
    <3>3. CASE runs[r] # None
      <4>1. \A l \in runs[r].sections : entries[<<r, l>>].status # "none"
        BY <3>3 DEF IInv, RunInv
      <4>2. \A l \in runs'[r].sections : entries'[<<r, l>>].status # "none"
        BY <1>5, <3>2, <3>3, <4>1 DEF Grows
      <4>3. runs'[r].mark # "CANDIDATE" => runs'[r].status = "SUCCEEDED"
        BY <3>3, CommittedRuns, IndexAssumption DEF IInv, RunInv
      <4>4. QED
        BY <4>2, <4>3
    <3>4. CASE runs[r] = None
      <4>1. r = target[s]
        BY <2>2, <3>4, CommittedRuns, IndexAssumption
      <4>2. number[s] # 0 /\ runs'[r].sections = parsed[s]
        BY <3>4, <4>1, CommittedRuns, IndexAssumption DEF SectionsOf
      <4>3. ASSUME NEW l \in parsed[s] PROVE entries'[<<r, l>>].status # "none"
        <5>1. mine[s][<<r, l>>] # None
          BY <4>1 DEF IInv, LoadInv
        <5>2. <<r, l>> \in Rows
          BY <3>2, <4>2
        <5>3. QED
          BY <1>1, <5>1, <5>2 DEF View, IInv, HoldInv
      <4>4. runs'[r].mark # "CANDIDATE" => runs'[r].status = "SUCCEEDED"
        BY <4>1, CommittedRuns, IndexAssumption
      <4>5. QED
        BY <4>2, <4>3, <4>4
    <3>5. QED
      BY <3>3, <3>4
  <2>3. ASSUME NEW x \in Rows, entries'[x].status # "none" PROVE runs'[x[1]] # None
    <3>1. x[1] \in Runs
      BY DEF Rows
    <3>2. CASE entries[x].status # "none"
      BY <1>5, <3>1, <3>2 DEF IInv, RunInv, Grows
    <3>3. CASE entries[x].status = "none"
      <4>1. mine[s][x] # None
        BY <1>1, <2>3, <3>3 DEF View
      <4>2. x[1] = target[s]
        BY <3>3, <4>1 DEF IInv, HoldInv
      <4>3. QED
        BY <3>1, <4>2, CommittedRuns, IndexAssumption
    <3>4. QED
      BY <3>2, <3>3
  <2>4. QED
    BY <2>1, <2>2, <2>3 DEF RunInv
<1>8. ReadInv'
  <2>1. ASSUME NEW f \in Snapshots, frozen'[f] # None PROVE Readable(frozen[f])'
    <3>1. frozen[f] \in Runs /\ Readable(frozen[f])
      BY <1>1, <2>1 DEF IInv, ReadInv, TypeOK
    <3>2. Readable(frozen[f])'
      BY <1>1, <1>5, <3>1, ReadableStays DEF Readable
    <3>3. QED
      BY <3>2
  <2>2. ASSUME version'.active # None PROVE Readable(version.active)'
    <3>1. CASE "active" \in plan[s]
      <4>1. /\ s \in Loaders /\ target[s] \in Runs
            /\ \A l \in SectionsOf(s) : <<target[s], l>> \in points
            /\ "marked" \in plan[s]
               \/ (number[s] = 0 /\ runs[target[s]].status = "SUCCEEDED")
        BY <1>1, <3>1 DEF IInv, LoadInv
      <4>2. version'.active = target[s]
        BY <3>1 DEF Commit
      <4>3. runs'[target[s]] \in Run /\ runs'[target[s]].status = "SUCCEEDED"
            /\ runs'[target[s]].sections = SectionsOf(s)
        BY <4>1, CommittedRuns, IndexAssumption
      <4>4. QED
        BY <1>1, <4>1, <4>2, <4>3, IndexAssumption DEF Readable
    <3>2. CASE "active" \notin plan[s]
      <4>1. version'.active = version.active
        BY <3>2 DEF Commit
      <4>2. version.active \in Runs /\ Readable(version.active)
        BY <2>2, <4>1 DEF IInv, ReadInv, TypeOK
      <4>3. QED
        BY <1>5, <4>1, <4>2 DEF Grows, Readable
    <3>3. QED
      BY <3>1, <3>2
  <2>3. QED
    BY <2>1, <2>2 DEF ReadInv
<1>9. TargetsDiffer'
  BY <1>2, <1>3 DEF IInv, TargetsDiffer, Kept
<1>10. EntriesHaveOneHolder'
  <2>1. \A x \in Rows : mine'[s][x] = None
    BY <1>3 DEF NoRows
  <2>2. QED
    BY <1>2, <2>1 DEF IInv, EntriesHaveOneHolder, Kept
<1>11. QED
  BY <1>6, <1>7, <1>8, <1>9, <1>10 DEF IInv

---------------------------------------------------------------------------
(* The theorems. *)

\* The invariant holds of the first state.
LEMMA InvInit == Init => IInv
<1> SUFFICES ASSUME Init PROVE IInv
  OBVIOUS
<1>1. TypeOK
  BY TypeInit
<1>2. \A x \in Rows : entries[x] = NoEntry
  BY DEF Init
<1>3. \A r \in Runs : runs[r] = None
  BY DEF Init
<1>4. RunInv
  BY <1>2, <1>3 DEF RunInv, EntryInv, NoEntry
<1>5. ReadInv
  BY DEF Init, ReadInv
<1>6. ASSUME NEW s \in Sessions
      PROVE  /\ pc[s] = "idle" /\ target[s] = None /\ number[s] = 0
             /\ parsed[s] = {} /\ mine[s] = NoRows /\ batch[s] = {}
             /\ plan[s] = {} /\ demoted[s] = None
             /\ \A x \in Rows : mine[s][x] = None
  BY DEF Init, NoRows
<1>7. \A s \in Sessions : HoldInv(s) /\ LoadInv(s)
  BY <1>6 DEF HoldInv, LoadInv
<1>8. TargetsDiffer /\ EntriesHaveOneHolder
  BY <1>6 DEF TargetsDiffer, EntriesHaveOneHolder
<1>9. QED
  BY <1>1, <1>4, <1>5, <1>7, <1>8 DEF IInv

\* It is kept when a snapshot freezes the active run, which can be read.
LEMMA Freezing ==
  ASSUME IInv, NEW f \in Snapshots, Freeze(f)
  PROVE  IInv'
<1>1. UNCHANGED <<runs, entries, version, points, pc, config, target, number, loaded,
                  parsed, mine, batch, plan, demoted, loads, crashes>>
  BY DEF Freeze, database, place, work, bounds
<1>2. version.active \in Runs /\ Readable(version.active)
  BY DEF Freeze, IInv, ReadInv, TypeOK
<1>3. TypeOK'
  BY <1>1, <1>2 DEF IInv, TypeOK, Freeze
<1>4. ReadInv'
  BY <1>1, <1>2 DEF IInv, ReadInv, TypeOK, Freeze, Readable
<1>5. RunInv' /\ TargetsDiffer' /\ EntriesHaveOneHolder'
  BY <1>1 DEF IInv, RunInv, EntryInv, TargetsDiffer, EntriesHaveOneHolder
<1>6. ASSUME NEW s \in Sessions PROVE HoldInv(s)' /\ LoadInv(s)'
  BY <1>1 DEF IInv, HoldInv, LoadInv, EntryInv, SectionsOf
<1>7. QED
  BY <1>3, <1>4, <1>5, <1>6 DEF IInv

\* Every step keeps it.
LEMMA InvNext == IInv /\ [Next]_vars => IInv'
<1> SUFFICES ASSUME IInv, [Next]_vars PROVE IInv'
  OBVIOUS
<1>1. ASSUME NEW s \in Loaders, Load(s) \/ (\E c \in Configs : Start(s, c))
      PROVE  IInv'
  <2> s \in Sessions
    BY DEF Sessions
  <2>1. TypeOK'
    BY <1>1, TypeLoad DEF IInv
  <2>2. CASE \/ \E c \in Configs : Start(s, c)
             \/ LookForRun(s) \/ NumberRun(s) \/ InsertRun(s)
    BY <2>1, <2>2, Ingesting
  <2>3. CASE InsertConflicts(s) \/ ParseFails(s)
    BY <2>1, <2>3, RollbackQuiet DEF InsertConflicts, ParseFails
  <2>4. CASE \E leaves \in SUBSET Leaves : Parse(s, leaves)
    BY <2>1, <2>4, Parsing
  <2>5. CASE StopDraining(s) \/ Activate(s)
    BY <2>1, <2>5, Deciding
  <2>6. QED
    BY <1>1, <2>2, <2>3, <2>4, <2>5 DEF Load
<1>2. ASSUME NEW s \in Sessions, Drain(s) PROVE IInv'
  <2>1. TypeOK'
    BY <1>2, TypeDrain DEF IInv
  <2>2. QED
    BY <1>2, <2>1, Claiming, Working, Committing DEF Drain
<1>3. ASSUME NEW s \in Sessions, Crash(s) PROVE IInv'
  <2>1. Rollback(s) /\ crashes' \in 0..MaxCrashes /\ loads' = loads
    BY <1>3, IndexAssumption DEF Crash, IInv, TypeOK
  <2>2. TypeOK'
    BY <2>1, ReleasedType DEF Rollback, IInv, TypeOK, database
  <2>3. QED
    BY <2>1, <2>2, RollbackQuiet
<1>4. CASE \E f \in Snapshots : Freeze(f)
  BY <1>4, Freezing
<1>5. CASE UNCHANGED vars
  <2>1. UNCHANGED <<runs, entries, version, points, frozen, pc, config, target, number,
                    loaded, parsed, mine, batch, plan, demoted, loads, crashes>>
    BY <1>5 DEF vars, database, place, work, bounds
  <2>2. TypeOK'
    BY <2>1 DEF IInv, TypeOK
  <2>3. RunInv' /\ ReadInv' /\ TargetsDiffer' /\ EntriesHaveOneHolder'
    BY <2>1 DEF IInv, RunInv, EntryInv, ReadInv, Readable, TargetsDiffer,
                EntriesHaveOneHolder
  <2>4. ASSUME NEW s \in Sessions PROVE HoldInv(s)' /\ LoadInv(s)'
    BY <2>1 DEF IInv, HoldInv, LoadInv, EntryInv, SectionsOf
  <2>5. QED
    BY <2>2, <2>3, <2>4 DEF IInv
<1>6. QED
  BY <1>1, <1>2, <1>3, <1>4, <1>5 DEF Next

\* It holds of every run of the program.
LEMMA InvHolds == Spec => []IInv
<1>1. QED
  BY InvInit, InvNext, PTL DEF Spec

\* Every variable keeps its type: an entry is never tried more than MaxAttempts
\* times, whoever tries it and whatever rolls back.
THEOREM TypeCorrect == Spec => []TypeOK
<1>1. IInv => TypeOK
  BY DEF IInv
<1>2. QED
  BY <1>1, InvHolds, PTL

\* A snapshot reads a succeeded run all of whose sections are in the vector index
\* (activate, freeze_snapshot).
THEOREM FrozenIndexed == Spec => []FrozenRunsAreIndexed
<1>1. IInv => FrozenRunsAreIndexed
  BY DEF IInv, ReadInv, Readable, FrozenRunsAreIndexed
<1>2. QED
  BY <1>1, InvHolds, PTL

\* No outbox entry is in the hands of two sessions (claim_batch).
THEOREM OneHolder == Spec => []EntriesHaveOneHolder
<1>1. IInv => EntriesHaveOneHolder
  BY DEF IInv
<1>2. QED
  BY <1>1, InvHolds, PTL

---------------------------------------------------------------------------
(* The promise to readers. *)

Indexed == {r \in Runs : /\ runs[r] # None
                         /\ \A l \in runs[r].sections : <<r, l>> \in points}

\* A step that takes nothing back and activates at most a run that can be read
\* publishes.
LEMMA Publishes ==
  ASSUME TypeOK', ReadInv', Grows, UNCHANGED frozen,
         version'.active # None \/ version'.active = version.active
  PROVE  Published!Publish
<1>1. Indexed \subseteq Indexed'
  BY DEF Indexed, Grows
<1>2. version'.active \in Indexed' \union {version.active}
  BY DEF ReadInv, Readable, TypeOK, Indexed
<1>3. Indexed' \in SUBSET Runs
  BY DEF Indexed
<1>4. QED
  BY <1>1, <1>2, <1>3 DEF Published!Publish, Indexed

\* Every step publishes, pins the active run or changes nothing a reader sees.
LEMMA StepKeepsPromise ==
  ASSUME IInv, IInv', [Next]_vars
  PROVE  [Published!Next]_(Published!vars)
<1>1. CASE \E f \in Snapshots : Freeze(f)
  BY <1>1 DEF Freeze, database, Published!Next, Published!Pin
<1>2. CASE \E s \in Sessions : Commit(s)
  <2>1. PICK s \in Sessions : Commit(s)
    BY <1>2
  <2>2. version'.active # None \/ version'.active = version.active
    <3>1. CASE "active" \in plan[s]
      <4>1. target[s] \in Runs /\ version'.active = target[s]
        BY <2>1, <3>1 DEF IInv, LoadInv, Commit
      <4>2. QED
        BY <4>1, IndexAssumption
    <3>2. CASE "active" \notin plan[s]
      BY <2>1, <3>2 DEF Commit
    <3>3. QED
      BY <3>1, <3>2
  <2>3. QED
    BY <2>1, <2>2, CommitGrows, Publishes DEF Commit, IInv, Published!Next
<1>3. CASE UNCHANGED <<database, frozen>> /\ points \subseteq points'
  <2>1. Grows
    BY <1>3 DEF Grows, database
  <2>2. QED
    BY <1>3, <2>1, Publishes DEF IInv, Published!Next, database
<1>4. \/ \E f \in Snapshots : Freeze(f)
      \/ \E s \in Sessions : Commit(s)
      \/ UNCHANGED <<database, frozen>> /\ points \subseteq points'
  <2>1. ASSUME NEW s \in Loaders, Load(s) \/ (\E c \in Configs : Start(s, c))
        PROVE  UNCHANGED <<database, points, frozen>>
    BY <2>1 DEF Load, Start, LookForRun, NumberRun, InsertRun, InsertConflicts,
                ParseFails, Parse, StopDraining, Activate, Rollback
  <2>2. ASSUME NEW s \in Sessions, Drain(s)
        PROVE  Commit(s) \/ (UNCHANGED <<database, frozen>> /\ points \subseteq points')
    BY <2>2 DEF Drain, Claim, Index, IndexFails, EndEntry
  <2>3. ASSUME NEW s \in Sessions, Crash(s) PROVE UNCHANGED <<database, points, frozen>>
    BY <2>3 DEF Crash, Rollback
  <2>4. CASE UNCHANGED vars
    BY <2>4 DEF vars
  <2>5. QED
    BY <2>1, <2>2, <2>3, <2>4 DEF Next
<1>5. QED
  BY <1>1, <1>2, <1>3, <1>4

\* The pipeline keeps what PublishedIndex promises to readers.
THEOREM KeepsPromise == Spec => KeepsPublished
<1>1. Init => Published!Init
  BY DEF Init, Published!Init
<1>2. IInv /\ IInv' /\ [Next]_vars => [Published!Next]_(Published!vars)
  BY StepKeepsPromise
<1>3. QED
  BY <1>1, <1>2, InvHolds, PTL DEF Spec, KeepsPublished, Published!Spec

---------------------------------------------------------------------------
(* One loader at a time. *)

OneLoader == \A s, t \in Loaders : s = t

\* With one loader, what it has decided is still right when it commits.
OneInv ==
  /\ OneActiveRun
  /\ \A s \in Sessions :
       /\ plan[s] \intersect {"active", "marked"} = {} => demoted[s] = None
       /\ plan[s] \intersect {"active", "marked"} # {} =>
            {"active", "marked"} \subseteq plan[s] /\ demoted[s] = Superseded(s)

\* A step that leaves the database alone, and decides nothing, keeps it.
LEMMA UndecidedStep ==
  ASSUME OneInv, NEW s \in Sessions, UNCHANGED database,
         \A t \in Sessions \ {s} :
           plan'[t] = plan[t] /\ demoted'[t] = demoted[t] /\ target'[t] = target[t],
         \/ plan'[s] \intersect {"active", "marked"} = {} /\ demoted'[s] = None
         \/ plan'[s] = plan[s] /\ demoted'[s] = demoted[s] /\ target'[s] = target[s]
  PROVE  OneInv'
<1>1. OneActiveRun'
  BY DEF OneInv, OneActiveRun, database
<1>2. \A t \in Sessions : target'[t] = target[t] => Superseded(t)' = Superseded(t)
  BY DEF Superseded, database
<1>3. QED
  BY <1>1, <1>2 DEF OneInv

\* The decision agrees with the database as it is read.
LEMMA DecidedStep ==
  ASSUME IInv, OneInv, NEW s \in Loaders, Activate(s)
  PROVE  OneInv'
<1> s \in Sessions
  BY DEF Sessions
<1>1. /\ pc[s] = "activating" /\ target[s] \in Runs
      /\ plan[s] \intersect {"active", "marked"} = {}
      /\ UNCHANGED <<runs, entries, version, target>>
  BY DEF Activate, IInv, LoadInv, database, place
<1>2. CASE ~ Complete(s)
  BY <1>1, <1>2, UndecidedStep DEF Activate, database
<1>3. CASE Complete(s)
  <2>1. /\ plan'[s] = plan[s] \union ActivationWrites(s)
        /\ demoted'[s] = Superseded(s) /\ Superseded(s)' = Superseded(s)
        /\ \A t \in Sessions \ {s} : plan'[t] = plan[t] /\ demoted'[t] = demoted[t]
    BY <1>1, <1>3 DEF Activate, Superseded, IInv, TypeOK
  <2>2. version.active = target[s] <=>
          runs[target[s]] # None /\ runs[target[s]].mark = "ACTIVE"
    BY <1>1, IndexAssumption DEF OneInv, OneActiveRun, IInv, ReadInv, Readable
  <2>3. CASE version.active = target[s]
    <3>1. plan'[s] \intersect {"active", "marked"} = {}
      BY <1>1, <2>1, <2>2, <2>3 DEF ActivationWrites
    <3>2. demoted'[s] = None
      BY <2>1, <2>3 DEF Superseded
    <3>3. QED
      BY <1>1, <2>1, <3>1, <3>2, UndecidedStep DEF database
  <2>4. CASE version.active # target[s]
    <3>1. {"active", "marked"} \subseteq ActivationWrites(s)
      BY <2>2, <2>4 DEF ActivationWrites
    <3>2. {"active", "marked"} \subseteq plan'[s]
      BY <2>1, <3>1
    <3>3. OneActiveRun'
      BY <1>1 DEF OneInv, OneActiveRun
    <3>4. \A t \in Sessions \ {s} : Superseded(t)' = Superseded(t)
      BY <1>1 DEF Superseded
    <3>5. QED
      BY <2>1, <3>2, <3>3, <3>4 DEF OneInv
  <2>5. QED
    BY <2>3, <2>4
<1>4. QED
  BY <1>2, <1>3

\* And still agrees when the only loader commits; a worker changes no run.
LEMMA CommittedStep ==
  ASSUME OneLoader, IInv, OneInv, NEW s \in Sessions, Commit(s)
  PROVE  OneInv'
<1>1. /\ plan'[s] = {} /\ demoted'[s] = None
      /\ \A t \in Sessions \ {s} :
           plan'[t] = plan[t] /\ demoted'[t] = demoted[t] /\ target'[t] = target[t]
  BY DEF Commit, Released, IInv, TypeOK
<1>2. ASSUME NEW t \in Sessions \ {s}
      PROVE  /\ plan'[t] \intersect {"active", "marked"} = {} => demoted'[t] = None
             /\ plan'[t] \intersect {"active", "marked"} # {} =>
                  {"active", "marked"} \subseteq plan'[t] /\ demoted'[t] = Superseded(t)'
  <2>1. CASE plan[t] \intersect {"active", "marked"} = {}
    BY <1>1, <2>1 DEF OneInv
  <2>2. CASE plan[t] \intersect {"active", "marked"} # {}
    <3>1. t \in Loaders /\ s \notin Loaders /\ s \in Workers
      BY <2>2 DEF IInv, LoadInv, OneLoader, Sessions
    <3>2. target[s] = None /\ plan[s] \intersect {"active", "marked"} = {} /\ demoted[s] = None
      BY <3>1, IndexAssumption DEF IInv, LoadInv, OneInv
    <3>3. runs' = runs /\ version'.active = version.active
      BY <3>2, IndexAssumption DEF Commit, IInv, TypeOK
    <3>4. Superseded(t)' = Superseded(t)
      BY <1>1, <3>3 DEF Superseded
    <3>5. QED
      BY <1>1, <2>2, <3>4 DEF OneInv
  <2>3. QED
    BY <2>1, <2>2
<1>3. OneActiveRun'
  <2>1. CASE plan[s] \intersect {"active", "marked"} = {}
    <3>1. demoted[s] = None /\ version'.active = version.active
      BY <2>1 DEF OneInv, Commit
    <3>2. ASSUME NEW r \in Runs, r # target[s] PROVE runs'[r] = runs[r]
      BY <3>1, <3>2, IndexAssumption DEF Commit
    <3>3. ASSUME target[s] \in Runs, runs'[target[s]] # None
          PROVE  runs'[target[s]].mark = "ACTIVE" <=> version'.active = target[s]
      <4>1. runs'[target[s]] = RunOf(s)
        BY <2>1, <3>3 DEF Commit, Marked
      <4>2. CASE number[s] = 0
        BY <3>1, <3>3, <4>1, <4>2 DEF RunOf, OneInv, OneActiveRun
      <4>3. CASE number[s] # 0
        <5>1. runs'[target[s]].mark = "CANDIDATE" /\ runs[target[s]] = None
          BY <4>1, <4>3 DEF RunOf, IInv, LoadInv
        <5>2. QED
          BY <3>1, <3>3, <5>1, IndexAssumption DEF IInv, ReadInv, Readable
      <4>4. QED
        BY <4>2, <4>3
    <3>4. QED
      BY <3>1, <3>2, <3>3 DEF OneInv, OneActiveRun
  <2>2. CASE plan[s] \intersect {"active", "marked"} # {}
    <3>1. /\ {"active", "marked"} \subseteq plan[s] /\ demoted[s] = Superseded(s)
          /\ s \in Loaders /\ pc[s] = "committing" /\ target[s] \in Runs
      BY <2>2 DEF OneInv, IInv, LoadInv
    <3>2. version'.active = target[s] /\ runs'[target[s]].mark = "ACTIVE"
      <4>1. runs'[target[s]] \in Run /\ runs'[target[s]] = Marked(s, RunOf(s))
        BY <3>1, MarkedType DEF Commit, IInv
      <4>2. RunOf(s) \in Run
        <5>1. CASE number[s] = 0
          BY <3>1, <5>1 DEF RunOf, IInv, LoadInv, TypeOK
        <5>2. CASE number[s] # 0
          BY <5>2 DEF RunOf, IInv, LoadInv, TypeOK, Run
        <5>3. QED
          BY <5>1, <5>2
      <4>3. QED
        BY <3>1, <4>1, <4>2 DEF Commit, Marked, Run
    <3>3. ASSUME NEW r \in Runs, r # target[s], runs'[r] # None
          PROVE  runs'[r].mark # "ACTIVE"
      <4>1. CASE r = demoted[s]
        <5>1. runs[r] \in Run
          BY <4>1, IndexAssumption DEF IInv, LoadInv, TypeOK
        <5>2. runs'[r] = [runs[r] EXCEPT !.mark = "SUPERSEDED"]
          BY <3>3, <4>1 DEF Commit
        <5>3. QED
          BY <5>1, <5>2 DEF Run
      <4>2. CASE r # demoted[s]
        <5>1. runs'[r] = runs[r]
          BY <3>3, <4>2 DEF Commit
        <5>2. version.active # r \/ runs[r].mark = "SUPERSEDED"
          BY <3>1, <3>3, <4>2, IndexAssumption DEF Superseded
        <5>3. QED
          BY <3>3, <5>1, <5>2 DEF OneInv, OneActiveRun
      <4>3. QED
        BY <4>1, <4>2
    <3>4. QED
      BY <3>2, <3>3 DEF OneActiveRun
  <2>3. QED
    BY <2>1, <2>2
<1>4. QED
  BY <1>1, <1>2, <1>3 DEF OneInv

\* Every step keeps it.
LEMMA OneNext ==
  ASSUME OneLoader, IInv, OneInv, [Next]_vars
  PROVE  OneInv'
<1>1. ASSUME NEW s \in Sessions, Rollback(s) PROVE OneInv'
  BY <1>1, UndecidedStep DEF Rollback, Released, IInv, TypeOK
<1>2. ASSUME NEW s \in Loaders, Load(s) \/ (\E c \in Configs : Start(s, c))
      PROVE  OneInv'
  <2> s \in Sessions
    BY DEF Sessions
  <2>1. CASE InsertConflicts(s) \/ ParseFails(s)
    BY <1>1, <2>1 DEF InsertConflicts, ParseFails
  <2>2. CASE Activate(s)
    BY <2>2, DecidedStep
  <2>3. CASE LookForRun(s) \/ NumberRun(s)
    <3>1. plan[s] = {} /\ demoted[s] = None
      BY <2>3 DEF LookForRun, NumberRun, IInv, LoadInv
    <3>2. /\ UNCHANGED <<database, plan, demoted>>
          /\ \A t \in Sessions \ {s} : target'[t] = target[t]
      BY <2>3 DEF LookForRun, NumberRun, work, IInv, TypeOK
    <3>3. QED
      BY <3>1, <3>2, UndecidedStep
  <2>4. CASE \E leaves \in SUBSET Leaves : Parse(s, leaves)
    <3>1. pc[s] = "parsing" /\ demoted' = demoted /\ UNCHANGED <<database, target>>
      BY <2>4 DEF Parse
    <3>2. demoted[s] = None
      BY <3>1 DEF IInv, LoadInv
    <3>3. /\ plan'[s] \intersect {"active", "marked"} = {}
          /\ \A t \in Sessions \ {s} : plan'[t] = plan[t]
      BY <2>4 DEF Parse, IInv, TypeOK
    <3>4. QED
      BY <3>1, <3>2, <3>3, UndecidedStep
  <2>5. CASE \/ \E c \in Configs : Start(s, c)
             \/ InsertRun(s) \/ StopDraining(s)
    BY <2>5, UndecidedStep DEF Start, InsertRun, StopDraining, place, work
  <2>6. QED
    BY <1>2, <2>1, <2>2, <2>3, <2>4, <2>5 DEF Load
<1>3. ASSUME NEW s \in Sessions, Drain(s) PROVE OneInv'
  <2>1. CASE Claim(s) \/ \E x \in batch[s] : Index(s, x) \/ IndexFails(s, x)
    <3>1. UNCHANGED <<database, target, plan, demoted>>
      BY <2>1 DEF Claim, Index, IndexFails, EndEntry, place
    <3>2. QED
      BY <3>1, UndecidedStep
  <2>2. QED
    BY <1>3, <2>1, CommittedStep DEF Drain
<1>4. ASSUME NEW s \in Sessions, Crash(s) PROVE OneInv'
  BY <1>1, <1>4 DEF Crash
<1>5. CASE (\E f \in Snapshots : Freeze(f)) \/ UNCHANGED vars
  <2>1. UNCHANGED <<runs, version, target, plan, demoted>>
    BY <1>5 DEF Freeze, vars, database, place, work
  <2>2. QED
    BY <2>1 DEF OneInv, OneActiveRun, Superseded
<1>6. QED
  BY <1>2, <1>3, <1>4, <1>5 DEF Next

\* As long as no two loads overlap, the version names the one run that is marked
\* as active (activate): what run index_two_active shows of two loads at once does
\* not come from workers, crashes or retries.
THEOREM OneActive ==
  ASSUME OneLoader
  PROVE  Spec => []OneActiveRun
<1>1. Init => OneInv
  BY DEF Init, OneInv, OneActiveRun
<1>2. IInv /\ OneInv /\ [Next]_vars => OneInv'
  BY OneNext
<1>3. OneInv => OneActiveRun
  BY DEF OneInv
<1>4. QED
  BY <1>1, <1>2, <1>3, InvHolds, PTL DEF Spec
=============================================================================
