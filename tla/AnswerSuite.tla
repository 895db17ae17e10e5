----------------------------- MODULE AnswerSuite -----------------------------
(***************************************************************************)
(* The frozen re-evaluation of the answers: a suite                        *)
(* (run_v16_answer_reevaluation.py) that runs a smoke stage and, only if   *)
(* that passes, the full one.  Each stage is a generator process           *)
(* (generate_answer_predictions.py), which asks the questions and maps the *)
(* answers, and a scorer process (run_answer_evaluation.py); the suite     *)
(* validates what they leave and keeps a record of the stage.  Meanwhile   *)
(* sources, data sets and settings may be edited, files replaced by those  *)
(* of another run, and the processes fail, be interrupted or killed.       *)
(*                                                                         *)
(* A hash is the content it is taken of.  The question ids are 1, 2, ... in *)
(* the order of the query data set, of which a stage takes a prefix.       *)
(***************************************************************************)
EXTENDS Integers, Sequences

CONSTANTS
  Limit,      \* the number of questions of each stage
  Profiles,   \* the settings that affect a generation
  MaxEdits,   \* bound on the edits of sources, data sets and settings
  MaxFaults,  \* bound on failures, interrupts, kills and foreign files
  None

ASSUME SuiteAssumption ==
  Limit["smoke"] \in Nat \ {0} /\ Limit["full"] \in Nat /\ Limit["smoke"] <= Limit["full"]

StageNames == {"smoke", "full"}

VARIABLES
  tree,      \* the sources and the git state, and the data sets among them, by version
  settings,  \* the settings a process started now would read
  stored,    \* the answers the service keeps: <<nonce, profile, question>>
  files,     \* the predictions, scoring data set and report of each stage
  request,   \* the stages asked for: smoke, all, or none yet
  stage, pc, \* where the suite is
  phase,     \* the failure it has run into, or None
  left,      \* where it was when an interrupt went uncaught or it was killed, or None
  run,       \* its record, as stored
  held,      \* what it holds in memory of the predictions of each stage
  child,     \* the generator or scorer that is running, or the last one
  asked,     \* under which sources and settings questions were asked
  edits, faults

disk == <<tree, settings, stored, files>>
suite == <<request, stage, pc, phase, left, run, held>>
vars == <<disk, suite, child, asked, edits, faults>>

(* A prediction: an answer, which says whether the service replayed it, or a *)
(* technical failure, which does not.                                       *)
Fresh == [kind |-> "answer", replay |-> FALSE]
Replayed == [kind |-> "answer", replay |-> TRUE]
Failure == [kind |-> "failure", replay |-> FALSE]

(* The score of predictions against a data set.                             *)
Score(data, predictions) == <<data, [q \in DOMAIN predictions |-> predictions[q].kind]>>

NoFiles == [predictions |-> None, scoring |-> None, report |-> None]
NoChild == [pc |-> "none", code |-> 0, query |-> None, tree |-> None, profile |-> None,
            labels |-> None, raw |-> <<>>, mapped |-> <<>>]
Planned == [status |-> "PLANNED", phase |-> None, tree |-> None, profile |-> None,
            data |-> None, predictions |-> None, scoring |-> None, summary |-> None]

Init ==
  /\ tree = [code |-> 0, data |-> 0] /\ settings \in Profiles /\ stored = {}
  /\ files = [s \in StageNames |-> NoFiles]
  /\ request = "none" /\ stage = "smoke" /\ pc = "idle"
  /\ phase = None /\ left = None
  /\ run = [s \in StageNames |-> Planned]
  /\ held = [s \in StageNames |-> [predictions |-> None, labels |-> None, data |-> None,
                                 hash |-> None]]
  /\ child = NoChild /\ asked = [s \in StageNames |-> {}]
  /\ edits = 0 /\ faults = 0

(* Every stage of a run has a nonce of its own.                             *)
Nonce(s) == s

(* What verifies that nothing was edited since the sources were captured.   *)
(* Mistaken: only the data sets are compared.                               *)
DataUnchanged(captured) == tree.data = captured.data

Unchanged(captured) == tree = captured

Selected == IF request = "all" THEN StageNames ELSE {"smoke"}

Goto(place) == pc' = place /\ UNCHANGED <<phase, left>>

(* The record of the stage is revalidated and replaced as a whole.  A        *)
(* failure is recorded by a handler, which an interrupt may hit as well.    *)
Update(r) == run' = [run EXCEPT ![stage] = r]
Fail(p) == pc' = "recording" /\ phase' = p /\ UNCHANGED <<run, left>>

(***************************************************************************)
(* The generator                                                           *)
(***************************************************************************)
Child(place) == child' = [child EXCEPT !.pc = place]
ChildExits(code) == child' = [child EXCEPT !.pc = "exited", !.code = code]

(* It reads its settings and the questions, then captures the sources; for  *)
(* the full stage both must be those of the smoke stage.                    *)
ReadQueries ==
  /\ child.pc = "starting"
  /\ child' = [child EXCEPT !.pc = "capturing", !.query = tree.data, !.profile = settings]
  /\ UNCHANGED <<disk, suite, asked, edits, faults>>

(* Mistaken: the settings are not compared with those of the smoke stage.   *)
AsSmokedSources(captured, profile) == stage = "full" => captured = run["smoke"].tree

AsSmoked(captured, profile) ==
  stage = "full" => captured = run["smoke"].tree /\ profile = run["smoke"].profile

Capture ==
  /\ child.pc = "capturing"
  /\ IF AsSmoked(tree, child.profile)
     THEN child' = [child EXCEPT !.pc = "asking", !.tree = tree]
     ELSE ChildExits(1)
  /\ UNCHANGED <<disk, suite, asked, edits, faults>>

(* One question after another, each under a key of its own, into which go   *)
(* the nonce and every setting that matters; the service answers afresh,    *)
(* replays what it has stored under the key, or fails.  The raw results are *)
(* checkpointed after each.                                                 *)
Key(q) == <<Nonce(stage), child.profile, q>>

Ask ==
  /\ child.pc = "asking"
  /\ LET q == Len(child.raw) + 1 IN
     IF q > Limit[stage]
     THEN Child("opening") /\ UNCHANGED <<stored, asked>>
     ELSE /\ \E p \in {Failure, IF Key(q) \in stored THEN Replayed ELSE Fresh} :
               child' = [child EXCEPT !.raw = Append(@, p)]
          /\ stored' = stored \union {Key(q)}
          /\ asked' = [asked EXCEPT ![stage] = @ \union
               {[tree |-> tree, captured |-> child.tree, profile |-> child.profile]}]
  /\ UNCHANGED <<tree, settings, files, suite, edits, faults>>

(* Only then the expected answers and the gold are opened.  The questions   *)
(* must be a projection of them, which data sets of another version may be. *)
Projects(query, labels) == IF query = labels THEN {TRUE} ELSE BOOLEAN

OpenGold ==
  /\ child.pc = "opening"
  /\ \E sound \in Projects(child.query, tree.data) :
       IF sound THEN child' = [child EXCEPT !.pc = "mapping", !.labels = tree.data]
       ELSE ChildExits(1)
  /\ UNCHANGED <<disk, suite, asked, edits, faults>>

Predictions ==
  [nonce |-> Nonce(stage), tree |-> child.tree, profile |-> child.profile,
   query |-> child.query, labels |-> child.labels, list |-> child.mapped]
WritePredictions(p) == files' = [files EXCEPT ![stage].predictions = p]

(* The citations of an answer are mapped to the keys of the gold, or it     *)
(* becomes a failure; the predictions so far are checkpointed.              *)
Mapped(result) == {result, Failure}

Map ==
  /\ child.pc = "mapping"
  /\ LET q == Len(child.mapped) + 1 IN
     IF q > Len(child.raw)
     THEN Child("closing") /\ UNCHANGED files
     ELSE \E p \in Mapped(child.raw[q]) :
            /\ child' = [child EXCEPT !.mapped = Append(@, p)]
            /\ WritePredictions([Predictions EXCEPT !.list = Append(@, p)])
  /\ UNCHANGED <<tree, settings, stored, suite, asked, edits, faults>>

(* The sources are verified before and after the final predictions are      *)
(* written; then these are written once more.                               *)
Close ==
  /\ child.pc = "closing"
  /\ IF Unchanged(child.tree)
     THEN Child("closed") /\ WritePredictions(Predictions)
     ELSE ChildExits(1) /\ UNCHANGED files
  /\ UNCHANGED <<tree, settings, stored, suite, asked, edits, faults>>

Closed ==
  /\ child.pc = "closed"
  /\ IF Unchanged(child.tree)
     THEN ChildExits(0) /\ WritePredictions(Predictions)
     ELSE ChildExits(1) /\ UNCHANGED files
  /\ UNCHANGED <<tree, settings, stored, suite, asked, edits, faults>>

(***************************************************************************)
(* The scorer                                                              *)
(***************************************************************************)
ScoreFiles ==
  /\ child.pc = "scoring"
  /\ LET f == files[stage] IN
       files' = [files EXCEPT ![stage].report =
                  [scoring |-> f.scoring, predictions |-> f.predictions,
                   score |-> Score(f.scoring, f.predictions.list)]]
  /\ ChildExits(0)
  /\ UNCHANGED <<tree, settings, stored, suite, asked, edits, faults>>

(* Either process may fail, whatever it has written by then.                *)
ChildFails ==
  /\ faults < MaxFaults /\ child.pc \notin {"none", "exited"}
  /\ ChildExits(1) /\ faults' = faults + 1
  /\ UNCHANGED <<disk, suite, asked, edits>>

(***************************************************************************)
(* The suite                                                               *)
(***************************************************************************)
(* All stages or the smoke stage are executed; the full stage alone is      *)
(* refused, and without --execute nothing but a plan is written.            *)
Start(stages) ==
  /\ request = "none" /\ request' = stages
  /\ Goto("staging")
  /\ UNCHANGED <<disk, stage, run, held, child, asked, edits, faults>>

(* Before the full stage the sources and the data sets must still be those  *)
(* of the smoke stage.                                                      *)
SmokeIsCurrent == Unchanged(run["smoke"].tree) /\ run["smoke"].data = tree.data

Stage ==
  /\ pc = "staging"
  /\ IF stage = "full" /\ ~ SmokeIsCurrent
     THEN Fail("VALIDATION")
     ELSE Update([run[stage] EXCEPT !.status = "RUNNING"]) /\ Goto("launching")
  /\ UNCHANGED <<disk, request, stage, held, child, asked, edits, faults>>

Launch ==
  /\ pc = "launching" /\ Goto("generating")
  /\ child' = [NoChild EXCEPT !.pc = "starting"]
  /\ UNCHANGED <<disk, request, stage, run, held, asked, edits, faults>>

Generated ==
  /\ pc = "generating" /\ child.pc = "exited"
  /\ IF child.code = 0 THEN Goto("reading") /\ UNCHANGED run ELSE Fail("GENERATION")
  /\ UNCHANGED <<disk, request, stage, held, child, asked, edits, faults>>

(* The predictions must be those of the questions of the stage; the data    *)
(* set they are scored against is cut from the expected answers.            *)
ReadResults ==
  /\ pc = "reading"
  /\ LET p == files[stage].predictions IN
     IF Len(p.list) = Limit[stage]
     THEN /\ held' = [held EXCEPT ![stage].predictions = p, ![stage].labels = tree.data]
          /\ Goto("hashing") /\ UNCHANGED run
     ELSE Fail("VALIDATION") /\ UNCHANGED held
  /\ UNCHANGED <<disk, request, stage, child, asked, edits, faults>>

HashInputs ==
  /\ pc = "hashing"
  /\ held' = [held EXCEPT ![stage].data = tree.data,
                          ![stage].hash = files[stage].predictions]
  /\ Goto("binding")
  /\ UNCHANGED <<disk, request, stage, run, child, asked, edits, faults>>

(* What the predictions say of themselves: made of the sources that are     *)
(* there now, which for the full stage are those of the smoke stage, with   *)
(* its settings; of the data sets that are there; by this stage's own       *)
(* generation, of no stored answers, and in the smoke stage without a       *)
(* technical failure.                                                       *)
Bound(p) ==
  /\ Unchanged(p.tree) /\ AsSmoked(p.tree, p.profile)
  /\ p.nonce = Nonce(stage)
  /\ \A q \in DOMAIN p.list : ~ p.list[q].replay
  /\ stage = "smoke" => \A q \in DOMAIN p.list : p.list[q].kind # "failure"
  /\ held[stage].data = p.query /\ held[stage].data = p.labels

Bind ==
  /\ pc = "binding"
  /\ LET p == held[stage].predictions IN
     IF Bound(p)
     THEN /\ files' = [files EXCEPT ![stage].scoring = held[stage].labels]
          /\ Update([run[stage] EXCEPT !.tree = p.tree, !.profile = p.profile,
                       !.data = held[stage].data, !.predictions = held[stage].hash,
                       !.scoring = held[stage].labels])
          /\ child' = [child EXCEPT !.pc = "scoring"] /\ Goto("scoring")
     ELSE Fail("VALIDATION") /\ UNCHANGED <<files, child>>
  /\ UNCHANGED <<tree, settings, stored, request, stage, held, asked, edits, faults>>

Scored ==
  /\ pc = "scoring" /\ child.pc = "exited"
  /\ IF child.code = 0 THEN Goto("verifying") /\ UNCHANGED run ELSE Fail("SCORING")
  /\ UNCHANGED <<disk, request, stage, held, child, asked, edits, faults>>

(* After the scoring the sources, the predictions and the scoring data set  *)
(* must be what they were.                                                  *)
Verify ==
  /\ pc = "verifying"
  /\ IF Unchanged(run[stage].tree) THEN Goto("rehashing") /\ UNCHANGED run
     ELSE Fail("VALIDATION")
  /\ UNCHANGED <<disk, request, stage, held, child, asked, edits, faults>>

Rehash ==
  /\ pc = "rehashing"
  /\ IF /\ files[stage].predictions = run[stage].predictions
        /\ files[stage].scoring = run[stage].scoring
     THEN Goto("rescoring") /\ UNCHANGED run
     ELSE Fail("VALIDATION")
  /\ UNCHANGED <<disk, request, stage, held, child, asked, edits, faults>>

(* The report must name both and agree with a second computation of the     *)
(* scores, from what the suite holds in memory.                             *)
(* Mistaken: the report is believed.                                        *)
ConfirmedByItself(report) ==
  /\ report.predictions = run[stage].predictions /\ report.scoring = run[stage].scoring

Confirmed(report) ==
  /\ report.predictions = run[stage].predictions /\ report.scoring = run[stage].scoring
  /\ report.score = Score(held[stage].labels, held[stage].predictions.list)

Complete ==
  /\ pc = "rescoring"
  /\ LET report == files[stage].report IN
     IF Confirmed(report)
     THEN /\ Update([run[stage] EXCEPT !.status = "COMPLETED", !.summary = report.score])
          /\ Goto("completed")
     ELSE Fail("VALIDATION")
  /\ UNCHANGED <<disk, request, stage, held, child, asked, edits, faults>>

NextStage ==
  /\ pc = "completed"
  /\ IF stage = "smoke" /\ request = "all"
     THEN stage' = "full" /\ Goto("staging")
     ELSE Goto("done") /\ UNCHANGED stage
  /\ UNCHANGED <<disk, request, run, held, child, asked, edits, faults>>

RecordFailure ==
  /\ pc = "recording"
  /\ Update([run[stage] EXCEPT !.status = "FAILED", !.phase = phase])
  /\ Goto(IF phase = "INTERRUPTED" THEN "interrupted" ELSE "failed")
  /\ UNCHANGED <<disk, request, stage, held, child, asked, edits, faults>>

(* An interrupt is caught and recorded in the try statements that await a   *)
(* process or validate its results, up to the end of the one that writes    *)
(* COMPLETED.  It ends the suite with the record as it stands while a stage *)
(* is prepared, after RUNNING is written and before the process is started, *)
(* and where a failure is recorded.  It is delivered where something is     *)
(* called, so not between two try statements that follow each other.  The   *)
(* process awaited is killed with it.                                       *)
(* Mistaken: an interrupt while a process runs is not recorded.             *)
RecordedBetween(place) ==
  place \in {"reading", "hashing", "binding", "verifying", "rehashing", "rescoring",
             "completed"}

Recorded(place) ==
  place \in {"generating", "reading", "hashing", "binding",
             "scoring", "verifying", "rehashing", "rescoring", "completed"}

Running == pc \notin {"idle", "done", "failed", "interrupted", "uncaught", "killed"}

Interrupt ==
  /\ faults < MaxFaults /\ Running /\ faults' = faults + 1
  /\ IF Recorded(pc) THEN Fail("INTERRUPTED")
     ELSE pc' = "uncaught" /\ left' = pc /\ UNCHANGED <<run, phase>>
  /\ child' = NoChild
  /\ UNCHANGED <<disk, request, stage, held, asked, edits>>

(* A process that a killed suite has started goes on.                       *)
Kill ==
  /\ faults < MaxFaults /\ Running /\ faults' = faults + 1
  /\ pc' = "killed" /\ left' = pc
  /\ UNCHANGED <<disk, request, stage, run, held, phase, child, asked, edits>>

(***************************************************************************)
(* The environment                                                         *)
(***************************************************************************)
(* Sources or data sets are edited, which makes a version that was not      *)
(* there before, or the settings.                                           *)
Edit ==
  /\ edits < MaxEdits /\ edits' = edits + 1
  /\ \/ tree' = [tree EXCEPT !.code = @ + 1] /\ UNCHANGED settings
     \/ tree' = [tree EXCEPT !.code = @ + 1, !.data = @ + 1] /\ UNCHANGED settings
     \/ settings' \in Profiles \ {settings} /\ UNCHANGED tree
  /\ UNCHANGED <<stored, files, suite, child, asked, faults>>

(* The generator is also started by hand, with the nonce of this stage.     *)
AskElsewhere ==
  /\ faults < MaxFaults /\ faults' = faults + 1 /\ Running
  /\ \E q \in 1..Limit[stage] : stored' = stored \union {<<Nonce(stage), settings, q>>}
  /\ UNCHANGED <<tree, settings, files, suite, child, asked, edits>>

(* A file of the stage is replaced by that of another run: predictions with *)
(* other answers or a checkpoint of them, or the report of such predictions. *)
Foreign(p, n) == [p EXCEPT !.nonce = "another", !.list = [q \in 1..n |-> Fresh]]

Replace ==
  /\ faults < MaxFaults /\ faults' = faults + 1 /\ Running
  /\ LET f == files[stage] IN
     \/ /\ f.predictions # None
        /\ \E n \in 1..Limit[stage] :
             files' = [files EXCEPT ![stage].predictions = Foreign(f.predictions, n)]
     \/ /\ f.scoring # None
        /\ files' = [files EXCEPT ![stage].scoring = f.scoring + 1]
     \/ /\ f.report # None
        /\ files' = [files EXCEPT ![stage].report.score =
                        Score(f.scoring, Foreign(f.predictions, Limit[stage]).list)]
  /\ UNCHANGED <<tree, settings, stored, suite, child, asked, edits>>

Generate == ReadQueries \/ Capture \/ Ask \/ OpenGold \/ Map \/ Close \/ Closed
Proceed ==
  \/ Stage \/ Launch \/ Generated \/ ReadResults \/ HashInputs \/ Bind
  \/ Scored \/ Verify \/ Rehash \/ Complete \/ NextStage \/ RecordFailure

Next ==
  \/ Start("smoke") \/ Start("all") \/ Proceed
  \/ Generate \/ ScoreFiles \/ ChildFails
  \/ Interrupt \/ Kill \/ Edit \/ AskElsewhere \/ Replace

Spec == Init /\ [][Next]_vars

-----------------------------------------------------------------------------
Completed == {s \in StageNames : run[s].status = "COMPLETED"}

(* The summary of a completed stage is the score of predictions that its own *)
(* generation made for exactly its questions, none of them an answer of an  *)
(* earlier run, against the data sets whose hashes are recorded, whatever   *)
(* was edited, asked or put in the place of its files meanwhile (main,      *)
(* build_scoring_dataset, _validate_scoring_report).                        *)
SummaryIsOfItsOwn ==
  \A s \in Completed :
    LET p == held[s].predictions IN
    /\ p.nonce = Nonce(s) /\ Len(p.list) = Limit[s]
    /\ \A q \in DOMAIN p.list : ~ p.list[q].replay
    /\ run[s].summary = Score(run[s].data, p.list)

(* The questions of a completed stage were all asked while the sources and  *)
(* data sets were those its record names, under the settings it names; an   *)
(* edit that is undone before the next verification is not seen by a hash   *)
(* and not meant here (verify_captured_source_state).                       *)
AskedOnRecordedSources ==
  \A s \in Completed : \A a \in asked[s] :
    a.tree = run[s].tree /\ a.profile = run[s].profile

(* No question of the full stage is paid for unless the smoke stage has     *)
(* completed without a technical failure, with the settings and on the      *)
(* sources this generation has, and a completed full stage is about the     *)
(* same data sets (the smoke baseline of main and generate).                *)
FullRestsOnSmoke ==
  /\ \A a \in asked["full"] :
       /\ "smoke" \in Completed
       /\ \A q \in DOMAIN held["smoke"].predictions.list :
            held["smoke"].predictions.list[q].kind = "answer"
       /\ a.captured = run["smoke"].tree /\ a.profile = run["smoke"].profile
  /\ "full" \in Completed => run["full"].data = run["smoke"].data

(* What the record of a suite that has ended says: it ends well only if      *)
(* every stage asked for has completed; when it exits with a failure the    *)
(* stage it was in has failed, with the phase; and the full stage was not   *)
(* begun, nor recorded as failed, unless the smoke stage has completed.  A  *)
(* stage may stay RUNNING when the suite is killed, or by an interrupt, but *)
(* by one only that arrives between the record of RUNNING and the start of  *)
(* the generator or while another failure or interrupt is being recorded:   *)
(* never while a process is awaited or its results are validated (main).    *)
EndIsRecorded ==
  /\ pc = "done" => Selected \subseteq Completed
  /\ pc \in {"failed", "interrupted"} =>
       /\ run[stage].status = "FAILED"
       /\ run[stage].phase \in {"GENERATION", "VALIDATION", "SCORING", "INTERRUPTED"}
       /\ run[stage].phase = "INTERRUPTED" <=> pc = "interrupted"
  /\ run["full"] # Planned => "smoke" \in Completed
  /\ pc = "uncaught" /\ run[stage].status = "RUNNING" => left \in {"launching", "recording"}
=============================================================================
