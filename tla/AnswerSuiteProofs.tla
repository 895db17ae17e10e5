-------------------------- MODULE AnswerSuiteProofs --------------------------
(***************************************************************************)
(* Proofs about AnswerSuite for stages of any length, any settings and any *)
(* number of edits and faults.                                             *)
(***************************************************************************)
EXTENDS AnswerSuite, TLAPS

Version == [code : Nat, data : Nat]

(* Versions of the sources and data sets only grow, and no two have the same *)
(* number.                                                                   *)
Earlier(t, u) == t.code <= u.code /\ t.data <= u.data /\ (t.code = u.code => t = u)

Prediction == {Fresh, Replayed, Failure}
PredictionFile ==
  [nonce : StageNames \union {"another"}, tree : Version, profile : Profiles,
   query : Nat, labels : Nat, list : Seq(Prediction)]
Question == [tree : Version, captured : Version, profile : Profiles]

Asking == {"starting", "capturing", "asking", "opening"}
Generating == Asking \union {"mapping", "closing", "closed"}
Places ==
  {"idle", "staging", "launching", "generating", "reading", "hashing", "binding", "scoring",
   "verifying", "rehashing", "rescoring", "completed", "recording", "done", "failed",
   "interrupted", "uncaught", "killed"}
Phases == {"GENERATION", "VALIDATION", "SCORING", "INTERRUPTED"}

ChildState ==
  [pc : Generating \union {"none", "scoring", "exited"}, code : 0 .. 1,
   query : Nat \union {None}, tree : Version \union {None},
   profile : Profiles \union {None}, labels : Nat \union {None},
   raw : Seq(Prediction), mapped : Seq(Prediction)]

TypeInv ==
  /\ tree \in Version /\ settings \in Profiles /\ stage \in StageNames /\ pc \in Places
  /\ files \in [StageNames -> {files[s] : s \in StageNames}]
  /\ \A s \in StageNames : /\ DOMAIN files[s] = DOMAIN NoFiles
                           /\ files[s].predictions \in PredictionFile \union {None}
  /\ run \in [StageNames -> {run[s] : s \in StageNames}]
  /\ \A s \in StageNames : DOMAIN run[s] = DOMAIN Planned
  /\ held \in [StageNames -> [predictions : PredictionFile \union {None},
                              labels : Nat \union {None}, data : Nat \union {None},
                              hash : PredictionFile \union {None}]]
  /\ child \in ChildState
  /\ asked \in [StageNames -> SUBSET Question]

(* Where the suite and its processes are, and how the record says so.  A     *)
(* process outlives a suite that is killed.                                  *)
ControlInv ==
  /\ child.pc \in Generating => pc \in {"generating", "killed"}
  /\ child.pc = "scoring" => pc \in {"scoring", "killed"}
  /\ child.pc \in Generating \union {"scoring"} => stage \notin Completed
  /\ request \in {"none", "smoke", "all"} /\ (request = "none" <=> pc = "idle")
  /\ stage = "smoke" =>
       /\ run["full"] = Planned /\ asked["full"] = {} /\ files["full"].predictions = None
       /\ pc = "done" => request = "smoke"
  /\ stage = "full" => "smoke" \in Completed
  /\ pc \in {"idle", "staging"} => run[stage] = Planned
  /\ pc \in {"idle", "staging", "launching"} =>
       asked[stage] = {} /\ files[stage].predictions = None
  /\ pc \in {"completed", "done"} => stage \in Completed
  /\ stage \in Completed => pc \in {"completed", "done", "recording", "uncaught", "killed"}

(* What the record says of an end, or will say.                              *)
EndInv ==
  /\ pc = "recording" => phase \in Phases
  /\ pc \in {"failed", "interrupted"} =>
       /\ run[stage].status = "FAILED" /\ run[stage].phase \in Phases
       /\ run[stage].phase = "INTERRUPTED" <=> pc = "interrupted"
  /\ pc = "uncaught" /\ run[stage].status = "RUNNING" => left \in {"launching", "recording"}

(* The generation of the stage has its predictions, or goes on to have them. *)
Delivered == pc = "generating" /\ child.pc = "exited" /\ child.code = 0
Labelled ==
  \/ child.pc \in {"mapping", "closing", "closed"}
  \/ Delivered \/ pc \in {"reading", "hashing", "binding"}
Captured == Labelled \/ child.pc \in {"asking", "opening"}
Queried == Captured \/ child.pc = "capturing"

(* Predictions that are not replaced but by others of the same generation.   *)
OfChild(p) ==
  /\ p \in PredictionFile /\ p.tree = child.tree /\ p.profile = child.profile
  /\ p.query = child.query /\ p.labels = child.labels

(* The versions a generation has seen, in the order it saw them.             *)
GenerationInv ==
  /\ Queried =>
       child.query \in Nat /\ child.query <= tree.data /\ child.profile \in Profiles
  /\ Captured =>
       /\ child.tree \in Version /\ Earlier(child.tree, tree)
       /\ child.query <= child.tree.data /\ AsSmoked(child.tree, child.profile)
  /\ Labelled =>
       child.labels \in Nat /\ child.tree.data <= child.labels /\ child.labels <= tree.data
  /\ child.pc \in {"starting", "capturing"} => asked[stage] = {}
  /\ child.pc \in Asking => files[stage].predictions = None
  /\ child.pc \in Generating \/ pc \in {"generating", "reading", "hashing", "binding"} =>
       \A a \in asked[stage] :
         /\ a.captured = child.tree /\ a.profile = child.profile
         /\ Earlier(a.captured, a.tree) /\ Earlier(a.tree, tree)
  /\ child.pc \in Generating \/ pc = "generating" =>
       files[stage].predictions = None \/ OfChild(files[stage].predictions)
  /\ Delivered \/ pc = "reading" => OfChild(files[stage].predictions)

(* What the suite has read of it.                                            *)
HeldInv ==
  /\ pc \in {"hashing", "binding"} =>
       /\ OfChild(held[stage].predictions) /\ held[stage].labels \in Nat
       /\ Len(held[stage].predictions.list) = Limit[stage]
       /\ child.labels <= held[stage].labels /\ held[stage].labels <= tree.data
  /\ pc = "binding" =>
       /\ held[stage].data \in Nat
       /\ held[stage].labels <= held[stage].data /\ held[stage].data <= tree.data

(* What the suite has checked of a stage it scores or has completed.         *)
IsBound(s) ==
  LET p == held[s].predictions IN
  /\ run[s].data = run[s].tree.data /\ run[s].data = held[s].labels
  /\ p.nonce = Nonce(s) /\ Len(p.list) = Limit[s]
  /\ \A q \in DOMAIN p.list : ~ p.list[q].replay
  /\ s = "smoke" => \A q \in DOMAIN p.list : p.list[q].kind = "answer"
  /\ \A a \in asked[s] : a.tree = run[s].tree /\ a.profile = run[s].profile
  /\ s = "full" => run[s].tree = run["smoke"].tree

BoundInv ==
  /\ pc \in {"scoring", "verifying", "rehashing", "rescoring"} => IsBound(stage)
  /\ \A s \in Completed :
       IsBound(s) /\ run[s].summary = Score(run[s].data, held[s].predictions.list)

SmokedInv ==
  \A a \in asked["full"] : a.captured = run["smoke"].tree /\ a.profile = run["smoke"].profile

SuiteInv ==
  TypeInv /\ ControlInv /\ EndInv /\ GenerationInv /\ HeldInv /\ BoundInv /\ SmokedInv

-----------------------------------------------------------------------------
(* Versions, predictions and records.                                        *)

(* The order of versions.                                                    *)
LEMMA EarlierOrder ==
  ASSUME NEW t \in Version, NEW u \in Version, NEW w \in Version
  PROVE  /\ Earlier(t, t)
         /\ Earlier(t, u) /\ Earlier(u, w) => Earlier(t, w)
         /\ Earlier(t, u) /\ Earlier(u, t) => t = u
BY DEF Earlier, Version

(* What the record of a stage becomes, and that the other is left alone.     *)
LEMMA UpdateGives ==
  ASSUME TypeInv, NEW r, Update(r), DOMAIN r = DOMAIN Planned
  PROVE  /\ run'[stage] = r /\ \A s \in StageNames \ {stage} : run'[s] = run[s]
         /\ run' \in [StageNames -> {run'[s] : s \in StageNames}]
         /\ \A s \in StageNames : DOMAIN run'[s] = DOMAIN Planned
BY DEF TypeInv, Update

(* A stage that is under way, or that a process works for, has not completed. *)
LEMMA UnderWay ==
  ASSUME ControlInv,
         \/ pc \notin {"completed", "done", "recording", "uncaught", "killed"}
         \/ child.pc \in Generating \union {"scoring"}
  PROVE  stage \notin Completed
BY DEF ControlInv

-----------------------------------------------------------------------------
(* The processes.                                                            *)

(* A generator touches only what is of its own stage, which is not complete. *)
LEMMA GeneratorKeeps ==
  ASSUME SuiteInv, child.pc \in Generating, UNCHANGED <<tree, settings, suite>>, TypeInv',
         child'.pc \in Generating \union {"exited"},
         \A s \in StageNames \ {stage} : asked'[s] = asked[s] /\ files'[s] = files[s],
         GenerationInv', SmokedInv'
  PROVE  SuiteInv'
<1>1. UNCHANGED <<request, stage, pc, phase, left, run, held>> /\ stage \in StageNames
  BY DEF suite, SuiteInv, TypeInv
<1>2. Completed' = Completed /\ stage \notin Completed
  BY <1>1, UnderWay DEF Completed, SuiteInv
<1>3. ControlInv' /\ EndInv'
  BY <1>1, <1>2 DEF SuiteInv, ControlInv, EndInv, Generating, Asking, StageNames
<1>4. pc \in {"generating", "killed"} /\ HeldInv'
  BY <1>1 DEF SuiteInv, ControlInv, HeldInv
<1>5. BoundInv'
  <2>1. \A s \in Completed : s \in StageNames \ {stage}
    BY <1>2 DEF Completed
  <2>2. ASSUME NEW s \in Completed
        PROVE  IsBound(s)' /\ run'[s].summary = Score(run'[s].data, held'[s].predictions.list)
    <3>1. IsBound(s) /\ run[s].summary = Score(run[s].data, held[s].predictions.list)
      BY DEF SuiteInv, BoundInv
    <3>2. asked'[s] = asked[s] /\ run' = run /\ held' = held
      BY <1>1, <2>1
    <3> QED
      BY <3>1, <3>2 DEF IsBound, Nonce
  <2> QED
    BY <1>1, <1>2, <1>4, <2>2 DEF BoundInv
<1> QED
  BY <1>3, <1>4, <1>5 DEF SuiteInv

(* A generator that exits with an error leaves what it wrote.                *)
LEMMA GeneratorExits ==
  ASSUME SuiteInv, child.pc \in Generating, ChildExits(1),
         UNCHANGED <<disk, suite, asked>>
  PROVE  SuiteInv'
<1>1. /\ child' \in ChildState /\ child'.pc = "exited" /\ child'.code = 1
      /\ child'.tree = child.tree /\ child'.profile = child.profile
      /\ child'.query = child.query /\ child'.labels = child.labels
  <2>1. child \in ChildState /\ child' = [child EXCEPT !.pc = "exited", !.code = 1]
    BY DEF SuiteInv, TypeInv, ChildExits
  <2>2. 1 \in 0 .. 1
    OBVIOUS
  <2> QED
    BY <2>1, <2>2 DEF ChildState
<1>2. UNCHANGED <<tree, settings, files, asked, request, stage, pc, phase, left, run, held>>
  BY DEF disk, suite
<1>3. TypeInv'
  BY <1>1, <1>2 DEF SuiteInv, TypeInv
<1>4. ~Queried' /\ ~Delivered' /\ child'.pc \notin Generating /\ pc \in {"generating", "killed"}
  BY <1>1, <1>2
     DEF Queried, Captured, Labelled, Delivered, Generating, Asking, SuiteInv, ControlInv
<1>5. GenerationInv'
  BY <1>1, <1>2, <1>4 DEF SuiteInv, GenerationInv, OfChild, Queried, Captured, Generating
<1>6. SmokedInv'
  BY <1>2 DEF SuiteInv, SmokedInv
<1> QED
  BY <1>1, <1>2, <1>3, <1>5, <1>6, GeneratorKeeps DEF suite

(* It reads its settings and the questions.                                  *)
LEMMA ReadQueriesKeeps ==
  ASSUME SuiteInv, ReadQueries
  PROVE  SuiteInv'
<1>1. child.pc = "starting" /\ child.pc \in Generating /\ pc \in {"generating", "killed"}
  BY DEF SuiteInv, ControlInv, ReadQueries, Generating, Asking
<1>2. UNCHANGED <<tree, settings, files, asked, request, stage, pc, phase, left, run, held>>
  BY DEF ReadQueries, disk, suite
<1>3. /\ child' \in ChildState /\ child'.pc = "capturing"
      /\ child'.query = tree.data /\ child'.profile = settings
      /\ tree.data \in Nat /\ settings \in Profiles
  BY DEF SuiteInv, TypeInv, ChildState, ReadQueries, Version, Generating, Asking
<1>4. asked[stage] = {} /\ files[stage].predictions = None
  BY <1>1 DEF SuiteInv, GenerationInv, Asking
<1>5. TypeInv'
  BY <1>2, <1>3 DEF SuiteInv, TypeInv
<1>6. ~Captured' /\ ~Delivered'
  BY <1>1, <1>2, <1>3 DEF Captured, Labelled, Delivered
<1>7. GenerationInv'
  BY <1>1, <1>2, <1>3, <1>4, <1>6 DEF GenerationInv, Captured
<1>8. SmokedInv'
  BY <1>2 DEF SuiteInv, SmokedInv
<1> QED
  BY <1>1, <1>2, <1>3, <1>5, <1>7, <1>8, GeneratorKeeps DEF suite, Generating, Asking

(* It captures the sources, which are those of the smoke stage.              *)
LEMMA CaptureKeeps ==
  ASSUME SuiteInv, Capture
  PROVE  SuiteInv'
<1>1. child.pc = "capturing" /\ child.pc \in Generating /\ pc \in {"generating", "killed"}
  BY DEF SuiteInv, ControlInv, Capture, Generating, Asking
<1>2. UNCHANGED <<tree, settings, files, asked, request, stage, pc, phase, left, run, held>>
  BY DEF Capture, disk, suite
<1>3. CASE AsSmoked(tree, child.profile)
  <2>1. /\ child' \in ChildState /\ child'.pc = "asking" /\ child'.tree = tree
        /\ child'.query = child.query /\ child'.profile = child.profile
    BY ZenonT(60), <1>3 DEF SuiteInv, TypeInv, ChildState, Capture, Generating, Asking
  <2>2. asked[stage] = {} /\ files[stage].predictions = None
    BY <1>1 DEF SuiteInv, GenerationInv, Asking
  <2>3. /\ child.query \in Nat /\ child.query <= tree.data /\ child.profile \in Profiles
        /\ tree \in Version /\ Earlier(tree, tree)
    BY <1>1, EarlierOrder DEF SuiteInv, GenerationInv, Queried, TypeInv
  <2>4. TypeInv'
    BY <1>2, <2>1 DEF SuiteInv, TypeInv
  <2>5. ~Labelled' /\ ~Delivered' /\ AsSmoked(child.tree, child.profile)'
    BY <1>1, <1>2, <1>3, <2>1 DEF Labelled, Delivered, AsSmoked
  <2>6. GenerationInv'
    BY <1>1, <1>2, <2>1, <2>2, <2>3, <2>5 DEF GenerationInv
  <2>7. SmokedInv'
    BY <1>2 DEF SuiteInv, SmokedInv
  <2> QED
    BY <1>1, <1>2, <2>1, <2>4, <2>6, <2>7, GeneratorKeeps DEF suite, Generating, Asking
<1>4. CASE ~AsSmoked(tree, child.profile)
  BY <1>1, <1>4, GeneratorExits DEF Capture
<1> QED
  BY <1>3, <1>4

(* It asks a question under the settings it has read, while the sources may  *)
(* be edited, or has asked them all.                                         *)
LEMMA AskKeeps ==
  ASSUME SuiteInv, Ask
  PROVE  SuiteInv'
<1>1. child.pc = "asking" /\ child.pc \in Generating /\ pc \in {"generating", "killed"}
  BY DEF SuiteInv, ControlInv, Ask, Generating, Asking
<1>2. UNCHANGED <<tree, settings, files, request, stage, pc, phase, left, run, held>>
  BY DEF Ask, suite
<1>3. /\ child.query \in Nat /\ child.query <= tree.data /\ child.profile \in Profiles
      /\ child.tree \in Version /\ Earlier(child.tree, tree) /\ Earlier(tree, tree)
      /\ child.query <= child.tree.data /\ AsSmoked(child.tree, child.profile)
      /\ files[stage].predictions = None /\ tree \in Version /\ stage \in StageNames
  BY <1>1, EarlierOrder DEF SuiteInv, GenerationInv, Queried, Captured, TypeInv, Asking
<1> DEFINE a == [tree |-> tree, captured |-> child.tree, profile |-> child.profile]
<1>4. /\ child' \in ChildState /\ child'.pc \in {"asking", "opening"}
      /\ child'.tree = child.tree /\ child'.query = child.query
      /\ child'.profile = child.profile
      /\ asked' \in {asked, [asked EXCEPT ![stage] = @ \union {a}]}
  <2>1. CASE Len(child.raw) + 1 > Limit[stage]
    BY <2>1 DEF SuiteInv, TypeInv, ChildState, Ask, Child, Generating, Asking
  <2>2. CASE ~(Len(child.raw) + 1 > Limit[stage])
    <3>1. PICK p \in Prediction : child' = [child EXCEPT !.raw = Append(@, p)]
      BY <2>2 DEF Ask, Prediction
    <3>2. asked' = [asked EXCEPT ![stage] = @ \union {a}]
      BY <2>2 DEF Ask
    <3>3. child \in ChildState /\ Append(child.raw, p) \in Seq(Prediction)
      BY <3>1 DEF SuiteInv, TypeInv, ChildState
    <3> QED
      BY <1>1, <3>1, <3>2, <3>3 DEF ChildState
  <2> QED
    BY <2>1, <2>2
<1>5. a \in Question /\ a.tree = tree /\ a.captured = child.tree /\ a.profile = child.profile
  BY <1>3 DEF Question
<1> HIDE DEF a
<1>6. /\ asked' \in [StageNames -> SUBSET Question]
      /\ asked'[stage] \subseteq asked[stage] \union {a}
      /\ \A s \in StageNames \ {stage} : asked'[s] = asked[s]
  <2>1. asked \in [StageNames -> SUBSET Question]
    BY DEF SuiteInv, TypeInv
  <2>2. CASE asked' = asked
    BY <1>3, <2>1, <2>2
  <2>3. CASE asked' = [asked EXCEPT ![stage] = @ \union {a}]
    BY <1>3, <1>5, <2>1, <2>3
  <2> QED
    BY <1>4, <2>2, <2>3
<1>7. TypeInv'
  BY <1>2, <1>4, <1>6 DEF SuiteInv, TypeInv
<1>8. ~Labelled' /\ ~Delivered' /\ AsSmoked(child.tree, child.profile)'
  BY <1>1, <1>2, <1>3, <1>4 DEF Labelled, Delivered, AsSmoked
<1>9. \A b \in asked'[stage] :
         /\ b.captured = child.tree /\ b.profile = child.profile
         /\ Earlier(b.captured, b.tree) /\ Earlier(b.tree, tree)
  BY <1>1, <1>3, <1>5, <1>6 DEF SuiteInv, GenerationInv
<1>10. GenerationInv'
  BY <1>1, <1>2, <1>3, <1>4, <1>8, <1>9 DEF GenerationInv
<1>11. SmokedInv'
  <2>1. CASE stage = "full"
    BY <1>2, <1>3, <1>9, <2>1 DEF SmokedInv, AsSmoked
  <2>2. CASE stage # "full"
    BY <1>2, <1>6, <2>2 DEF SuiteInv, SmokedInv, StageNames
  <2> QED
    BY <2>1, <2>2
<1> QED
  BY <1>1, <1>2, <1>4, <1>6, <1>7, <1>10, <1>11, GeneratorKeeps
     DEF suite, Generating, Asking

(* It opens the gold, of a version no earlier than the one it captured.      *)
LEMMA OpenGoldKeeps ==
  ASSUME SuiteInv, OpenGold
  PROVE  SuiteInv'
<1>1. child.pc = "opening" /\ child.pc \in Generating /\ pc \in {"generating", "killed"}
  BY DEF SuiteInv, ControlInv, OpenGold, Generating, Asking
<1>2. UNCHANGED <<tree, settings, files, asked, request, stage, pc, phase, left, run, held>>
  BY DEF OpenGold, disk, suite
<1>3. CASE child' = [child EXCEPT !.pc = "mapping", !.labels = tree.data]
  <2>1. /\ child.query \in Nat /\ child.query <= tree.data /\ child.profile \in Profiles
        /\ child.tree \in Version /\ Earlier(child.tree, tree)
        /\ child.query <= child.tree.data /\ AsSmoked(child.tree, child.profile)
        /\ files[stage].predictions = None /\ tree \in Version
    BY <1>1 DEF SuiteInv, GenerationInv, Queried, Captured, TypeInv, Asking
  <2>2. /\ child' \in ChildState /\ child'.pc = "mapping" /\ child'.tree = child.tree
        /\ child'.query = child.query /\ child'.profile = child.profile
        /\ child'.labels = tree.data
    BY <1>3, <2>1 DEF SuiteInv, TypeInv, ChildState, Generating, Version
  <2>3. TypeInv'
    BY <1>2, <2>2 DEF SuiteInv, TypeInv
  <2>4. tree.data \in Nat /\ child.tree.data <= tree.data
    BY <2>1 DEF Earlier, Version
  <2>5. ~Delivered' /\ AsSmoked(child.tree, child.profile)' /\ child'.pc \notin Asking
    BY <1>1, <1>2, <2>1, <2>2 DEF Delivered, AsSmoked, Asking
  <2>6. GenerationInv'
    BY <1>1, <1>2, <2>1, <2>2, <2>4, <2>5 DEF SuiteInv, GenerationInv
  <2>7. SmokedInv'
    BY <1>2 DEF SuiteInv, SmokedInv
  <2> QED
    BY <1>1, <1>2, <2>2, <2>3, <2>6, <2>7, GeneratorKeeps DEF suite, Generating
<1>4. CASE ChildExits(1)
  BY <1>1, <1>2, <1>4, GeneratorExits DEF OpenGold
<1> QED
  BY <1>3, <1>4 DEF OpenGold

(* Writing the predictions of the stage leaves its other files, and those of *)
(* the other stage, alone.                                                   *)
LEMMA WriteGives ==
  ASSUME TypeInv, NEW p \in PredictionFile, WritePredictions(p)
  PROVE  /\ files'[stage].predictions = p
         /\ \A s \in StageNames \ {stage} : files'[s] = files[s]
         /\ files' \in [StageNames -> {files'[s] : s \in StageNames}]
         /\ \A s \in StageNames : /\ DOMAIN files'[s] = DOMAIN NoFiles
                                  /\ files'[s].predictions \in PredictionFile \union {None}
<1>1. /\ stage \in StageNames /\ files = [s \in StageNames |-> files[s]]
      /\ \A s \in StageNames : "predictions" \in DOMAIN files[s]
  BY DEF TypeInv, NoFiles
<1>2. /\ files'[stage] = [files[stage] EXCEPT !.predictions = p]
      /\ \A s \in StageNames \ {stage} : files'[s] = files[s]
      /\ files' \in [StageNames -> {files'[s] : s \in StageNames}]
  BY <1>1 DEF WritePredictions
<1> QED
  BY <1>1, <1>2 DEF TypeInv

(* A generator that has opened the gold writes predictions of what it holds, *)
(* goes on, or exits.                                                        *)
LEMMA WriterKeeps ==
  ASSUME SuiteInv, child.pc \in {"mapping", "closing", "closed"},
         UNCHANGED <<tree, settings, suite, asked>>,
         NEW list \in Seq(Prediction), WritePredictions([Predictions EXCEPT !.list = list]),
         child' \in ChildState, child'.pc \in {"mapping", "closing", "closed", "exited"},
         child'.tree = child.tree, child'.profile = child.profile,
         child'.query = child.query, child'.labels = child.labels
  PROVE  SuiteInv'
<1>1. /\ pc \in {"generating", "killed"} /\ child.pc \in Generating /\ Labelled
      /\ child.pc \notin Asking
  BY DEF SuiteInv, ControlInv, Generating, Labelled, Asking
<1>2. UNCHANGED <<request, stage, pc, phase, left, run, held>>
  BY DEF suite
<1>3. /\ child.query \in Nat /\ child.query <= tree.data /\ child.profile \in Profiles
      /\ child.tree \in Version /\ Earlier(child.tree, tree)
      /\ child.query <= child.tree.data /\ AsSmoked(child.tree, child.profile)
      /\ child.labels \in Nat /\ child.tree.data <= child.labels /\ child.labels <= tree.data
  BY <1>1 DEF SuiteInv, GenerationInv, Queried, Captured
<1> DEFINE p == [Predictions EXCEPT !.list = list]
<1>4. /\ p \in PredictionFile /\ p.tree = child.tree /\ p.profile = child.profile
      /\ p.query = child.query /\ p.labels = child.labels
  <2>1. Nonce(stage) \in StageNames
    BY DEF SuiteInv, TypeInv, Nonce
  <2> QED
    BY <1>3, <2>1 DEF Predictions, PredictionFile
<1>5. WritePredictions(p)
  OBVIOUS
<1> HIDE DEF p
<1>6. /\ files'[stage].predictions = p
      /\ \A s \in StageNames \ {stage} : files'[s] = files[s]
      /\ files' \in [StageNames -> {files'[s] : s \in StageNames}]
      /\ \A s \in StageNames : /\ DOMAIN files'[s] = DOMAIN NoFiles
                               /\ files'[s].predictions \in PredictionFile \union {None}
  BY <1>4, <1>5, WriteGives DEF SuiteInv
<1>7. TypeInv'
  BY <1>2, <1>6 DEF SuiteInv, TypeInv
<1>8. /\ OfChild(files[stage].predictions)' /\ AsSmoked(child.tree, child.profile)'
      /\ child'.pc \notin Asking
  BY <1>2, <1>3, <1>4, <1>6 DEF OfChild, AsSmoked, Asking
<1>9. GenerationInv'
  BY <1>1, <1>2, <1>3, <1>8 DEF SuiteInv, GenerationInv
<1>10. SmokedInv'
  BY <1>2 DEF SuiteInv, SmokedInv
<1> QED
  BY <1>1, <1>6, <1>7, <1>9, <1>10, GeneratorKeeps DEF Generating

(* It maps an answer, or verifies the sources before and after the end.      *)
LEMMA WritersKeep ==
  ASSUME SuiteInv, Map \/ Close \/ Closed
  PROVE  SuiteInv'
<1>1. /\ child.pc \in {"mapping", "closing", "closed"} /\ pc \in {"generating", "killed"}
      /\ child.pc \in Generating
      /\ UNCHANGED <<tree, settings, stored, suite, asked>> /\ child \in ChildState
  BY DEF SuiteInv, ControlInv, TypeInv, Map, Close, Closed, Generating
<1>2. ASSUME NEW place \in {"closing", "closed"}, Child(place)
      PROVE  /\ child' \in ChildState /\ child'.pc = place
             /\ child'.tree = child.tree /\ child'.profile = child.profile
             /\ child'.query = child.query /\ child'.labels = child.labels
  BY <1>1, <1>2 DEF Child, ChildState, Generating
<1>3. child.mapped \in Seq(Prediction) /\ child.raw \in Seq(Prediction)
      /\ Predictions = [Predictions EXCEPT !.list = child.mapped]
  BY <1>1 DEF ChildState, Predictions
<1>4. CASE Map /\ Len(child.mapped) + 1 > Len(child.raw)
  <2>1. Child("closing") /\ files' = files
    BY <1>4 DEF Map
  <2>2. /\ child' \in ChildState /\ child'.pc = "closing"
        /\ child'.tree = child.tree /\ child'.profile = child.profile
        /\ child'.query = child.query /\ child'.labels = child.labels
    BY <1>2, <2>1
  <2>3. UNCHANGED <<tree, settings, asked, request, stage, pc, phase, left, run, held>>
    BY <1>1 DEF suite
  <2>4. TypeInv'
    BY <2>1, <2>2, <2>3 DEF SuiteInv, TypeInv
  <2>5. Labelled /\ AsSmoked(child.tree, child.profile)' /\ ~Delivered' /\ Queried
        /\ child'.pc \notin Asking /\ Captured
    <3>1. Labelled /\ Captured /\ Queried
      BY <1>1 DEF Labelled, Captured, Queried
    <3> QED
      BY <2>2, <2>3, <3>1 DEF SuiteInv, GenerationInv, AsSmoked, Delivered, Asking
  <2>6. GenerationInv'
    BY <1>1, <2>1, <2>2, <2>3, <2>5 DEF SuiteInv, GenerationInv, OfChild
  <2>7. SmokedInv'
    BY <2>3 DEF SuiteInv, SmokedInv
  <2> QED
    BY <1>1, <2>1, <2>2, <2>3, <2>4, <2>6, <2>7, GeneratorKeeps DEF suite, Generating
<1>5. CASE Map /\ ~(Len(child.mapped) + 1 > Len(child.raw))
  <2>1. PICK p \in Mapped(child.raw[Len(child.mapped) + 1]) :
          /\ child' = [child EXCEPT !.mapped = Append(@, p)]
          /\ WritePredictions([Predictions EXCEPT !.list = Append(@, p)])
    BY <1>5 DEF Map
  <2>2. child.raw[Len(child.mapped) + 1] \in Prediction
    BY <1>3, <1>5
  <2>3. Append(child.mapped, p) \in Seq(Prediction)
    BY <1>3, <2>1, <2>2 DEF Mapped, Prediction
  <2>4. [Predictions EXCEPT !.list = Append(@, p)]
          = [Predictions EXCEPT !.list = Append(child.mapped, p)]
    BY DEF Predictions
  <2>5. /\ child' \in ChildState /\ child'.pc = child.pc
        /\ child'.tree = child.tree /\ child'.profile = child.profile
        /\ child'.query = child.query /\ child'.labels = child.labels
    BY <1>1, <2>1, <2>3 DEF ChildState
  <2> QED
    BY <1>1, <2>1, <2>3, <2>4, <2>5, WriterKeeps
<1>6. CASE (Close \/ Closed) /\ ChildExits(1) /\ files' = files
  BY <1>1, <1>6, GeneratorExits DEF disk
<1>7. CASE Close /\ Child("closed") /\ WritePredictions(Predictions)
  BY <1>1, <1>2, <1>3, <1>7, WriterKeeps
<1>8. CASE Closed /\ ChildExits(0) /\ WritePredictions(Predictions)
  <2>1. /\ child' \in ChildState /\ child'.pc = "exited"
        /\ child'.tree = child.tree /\ child'.profile = child.profile
        /\ child'.query = child.query /\ child'.labels = child.labels
    <3>1. child' = [child EXCEPT !.pc = "exited", !.code = 0] /\ 0 \in 0 .. 1
      BY <1>8 DEF ChildExits
    <3> QED
      BY <1>1, <3>1 DEF ChildState
  <2> QED
    BY <1>1, <1>3, <1>8, <2>1, WriterKeeps
<1> QED
  BY <1>4, <1>5, <1>6, <1>7, <1>8 DEF Close, Closed

(* The scorer writes a report, or fails.                                     *)
LEMMA ScorerKeeps ==
  ASSUME SuiteInv, ScoreFiles \/ (ChildFails /\ child.pc = "scoring")
  PROVE  SuiteInv'
<1>1. /\ pc \in {"scoring", "killed"} /\ stage \in StageNames
      /\ UNCHANGED <<tree, settings, asked, request, stage, pc, phase, left, run, held>>
  BY DEF SuiteInv, ControlInv, TypeInv, ScoreFiles, ChildFails, suite, disk
<1>2. child' \in ChildState /\ child'.pc = "exited"
  <2>1. PICK code \in 0 .. 1 : ChildExits(code)
    BY DEF ScoreFiles, ChildFails
  <2> QED
    BY <2>1 DEF SuiteInv, TypeInv, ChildExits, ChildState
<1>3. /\ files' \in [StageNames -> {files'[s] : s \in StageNames}]
      /\ \A s \in StageNames : /\ DOMAIN files'[s] = DOMAIN files[s]
                               /\ files'[s].predictions = files[s].predictions
  <2>1. PICK x : files' \in {files, [files EXCEPT ![stage].report = x]}
    BY DEF ScoreFiles, ChildFails, disk
  <2>2. files = [s \in StageNames |-> files[s]]
        /\ \A s \in StageNames : {"predictions", "report"} \subseteq DOMAIN files[s]
    BY DEF SuiteInv, TypeInv, NoFiles
  <2> QED
    BY <1>1, <2>1, <2>2
<1>4. TypeInv'
  BY <1>1, <1>2, <1>3 DEF SuiteInv, TypeInv
<1>5. Completed' = Completed
  BY <1>1 DEF Completed
<1>6. ControlInv' /\ EndInv'
  BY <1>1, <1>2, <1>3, <1>5 DEF SuiteInv, ControlInv, EndInv, StageNames, Generating, Asking
<1>7. GenerationInv' /\ HeldInv'
  BY <1>1, <1>2
     DEF GenerationInv, HeldInv, Queried, Captured, Labelled, Delivered, Generating, Asking
<1>8. BoundInv' /\ SmokedInv'
  BY <1>1, <1>5 DEF SuiteInv, BoundInv, IsBound, SmokedInv, Nonce
<1> QED
  BY <1>4, <1>6, <1>7, <1>8 DEF SuiteInv

(* A process that fails, at whatever point.                                  *)
LEMMA ChildFailsKeeps ==
  ASSUME SuiteInv, ChildFails
  PROVE  SuiteInv'
<1>1. CASE child.pc = "scoring"
  BY <1>1, ScorerKeeps
<1>2. CASE child.pc # "scoring"
  BY <1>2, GeneratorExits DEF SuiteInv, TypeInv, ControlInv, ChildState, ChildFails
<1> QED
  BY <1>1, <1>2

-----------------------------------------------------------------------------
(* The suite.                                                                *)

(* A step on a stage leaves the other as it is: only the smoke stage can      *)
(* have completed before, and what was asked since rests on it.              *)
LEMMA OthersKept ==
  ASSUME SuiteInv, UNCHANGED <<stage, asked>>,
         run'[stage].status # "COMPLETED",
         \A s \in StageNames \ {stage} : run'[s] = run[s] /\ held'[s] = held[s]
  PROVE  /\ Completed' = Completed \ {stage} /\ SmokedInv'
         /\ \A s \in Completed' :
              IsBound(s)' /\ run'[s].summary = Score(run'[s].data, held'[s].predictions.list)
         /\ stage = "smoke" => run'["full"] = run["full"]
<1>1. Completed \subseteq StageNames /\ stage \in StageNames
  BY DEF Completed, SuiteInv, TypeInv
<1>2. Completed' = Completed \ {stage}
  BY <1>1 DEF Completed
<1>3. stage = "smoke" => run["full"].status = "PLANNED" /\ asked["full"] = {}
  BY DEF SuiteInv, ControlInv, Planned
<1>4. stage = "full" => run'["smoke"] = run["smoke"]
  BY DEF StageNames
<1>5. Completed \ {stage} \subseteq {"smoke"}
  BY <1>1, <1>3 DEF Completed, StageNames
<1>6. ASSUME NEW s \in Completed'
      PROVE  IsBound(s)' /\ run'[s].summary = Score(run'[s].data, held'[s].predictions.list)
  <2>1. IsBound(s) /\ run[s].summary = Score(run[s].data, held[s].predictions.list)
    BY <1>2 DEF SuiteInv, BoundInv
  <2>2. run'[s] = run[s] /\ held'[s] = held[s] /\ asked' = asked /\ s = "smoke"
    BY <1>1, <1>2, <1>5
  <2> QED
    BY ZenonT(60), <2>1, <2>2 DEF IsBound, Nonce
<1>7. SmokedInv'
  BY <1>1, <1>3, <1>4 DEF SuiteInv, SmokedInv, StageNames
<1> QED
  BY <1>1, <1>2, <1>6, <1>7 DEF StageNames

(* So does one that leaves the record, and what it is about.                 *)
LEMMA RecordKept ==
  ASSUME SuiteInv, UNCHANGED <<run, held, asked>>
  PROVE  /\ Completed' = Completed /\ SmokedInv'
         /\ \A s \in Completed' :
              IsBound(s)' /\ run'[s].summary = Score(run'[s].data, held'[s].predictions.list)
BY DEF SuiteInv, SmokedInv, BoundInv, Completed, IsBound, Nonce

(* No process runs.                                                          *)
LEMMA NoChildIs == NoChild \in ChildState /\ NoChild.pc = "none" /\ NoChild.labels = None
BY DEF NoChild, ChildState

(* A stage that fails, or is interrupted, is about to be recorded as such.    *)
LEMMA FailKeeps ==
  ASSUME SuiteInv, Running, NEW p \in Phases, Fail(p), child' \in {child, NoChild},
         child'.pc \notin Generating \union {"scoring"},
         UNCHANGED <<disk, request, stage, held, asked>>
  PROVE  SuiteInv'
<1>1. /\ UNCHANGED <<tree, settings, files, request, stage, run, held, asked>>
      /\ pc' = "recording" /\ phase' \in Phases
  BY DEF disk, Fail
<1>2. /\ Completed' = Completed /\ SmokedInv'
      /\ \A s \in Completed' :
           IsBound(s)' /\ run'[s].summary = Score(run'[s].data, held'[s].predictions.list)
  BY <1>1, RecordKept
<1>3. TypeInv'
  BY <1>1, NoChildIs DEF SuiteInv, TypeInv, Places
<1>4. ControlInv' /\ EndInv'
  BY <1>1, <1>2 DEF SuiteInv, ControlInv, EndInv, Running
<1>5. GenerationInv' /\ HeldInv'
  BY <1>1 DEF GenerationInv, HeldInv, Queried, Captured, Labelled, Delivered, Generating, Asking
<1>6. BoundInv'
  BY <1>1, <1>2 DEF BoundInv
<1> QED
  BY <1>2, <1>3, <1>4, <1>5, <1>6 DEF SuiteInv

(* It is recorded, and is not a completed stage, if it was one.              *)
LEMMA RecordFailureKeeps ==
  ASSUME SuiteInv, RecordFailure
  PROVE  SuiteInv'
<1>1. /\ pc = "recording" /\ stage \in StageNames /\ phase \in Phases
      /\ pc' = IF phase = "INTERRUPTED" THEN "interrupted" ELSE "failed"
      /\ UNCHANGED <<tree, settings, files, request, stage, held, child, asked>>
      /\ child.pc \notin Generating \union {"scoring"}
  BY DEF SuiteInv, TypeInv, ControlInv, EndInv, RecordFailure, Goto, disk
<1> DEFINE r == [run[stage] EXCEPT !.status = "FAILED", !.phase = phase]
<1>2. r.status = "FAILED" /\ r.phase = phase /\ DOMAIN r = DOMAIN Planned
  BY <1>1 DEF SuiteInv, TypeInv, Planned
<1>3. Update(r)
  BY DEF RecordFailure
<1> HIDE DEF r
<1>4. /\ run'[stage] = r /\ \A s \in StageNames \ {stage} : run'[s] = run[s]
      /\ run' \in [StageNames -> {run'[s] : s \in StageNames}]
      /\ \A s \in StageNames : DOMAIN run'[s] = DOMAIN Planned
  BY <1>2, <1>3, UpdateGives DEF SuiteInv
<1>5. /\ Completed' = Completed \ {stage} /\ SmokedInv'
      /\ \A s \in Completed' :
           IsBound(s)' /\ run'[s].summary = Score(run'[s].data, held'[s].predictions.list)
      /\ stage = "smoke" => run'["full"] = run["full"]
  BY <1>1, <1>2, <1>4, OthersKept
<1>6. TypeInv'
  BY <1>1, <1>4 DEF SuiteInv, TypeInv, Places
<1>7. ControlInv' /\ EndInv'
  BY <1>1, <1>2, <1>4, <1>5 DEF SuiteInv, ControlInv, EndInv, Phases
<1>8. GenerationInv' /\ HeldInv'
  BY <1>1 DEF GenerationInv, HeldInv, Queried, Captured, Labelled, Delivered, Generating, Asking
<1>9. BoundInv'
  BY <1>1, <1>5 DEF BoundInv
<1> QED
  BY <1>5, <1>6, <1>7, <1>8, <1>9 DEF SuiteInv

(* An interrupt ends the process that is awaited; a kill does not.  Neither   *)
(* changes the record.                                                       *)
LEMMA EndsKeep ==
  ASSUME SuiteInv, Interrupt \/ Kill
  PROVE  SuiteInv'
<1>1. /\ Running /\ UNCHANGED <<tree, settings, files, request, stage, run, held, asked>>
      /\ child' \in {child, NoChild}
  BY DEF Interrupt, Kill, Fail, disk
<1>2. /\ Completed' = Completed /\ SmokedInv'
      /\ \A s \in Completed' :
           IsBound(s)' /\ run'[s].summary = Score(run'[s].data, held'[s].predictions.list)
  BY <1>1, RecordKept
<1>3. CASE Interrupt /\ Recorded(pc)
  <2>1. Fail("INTERRUPTED") /\ child' = NoChild
        /\ UNCHANGED <<disk, request, stage, held, asked>>
    BY <1>3 DEF Interrupt, Recorded
  <2> QED
    BY <1>1, <2>1, NoChildIs, FailKeeps DEF Generating, Asking, Phases
<1>4. CASE Interrupt /\ ~Recorded(pc)
  <2>1. /\ pc' = "uncaught" /\ left' = pc /\ child' = NoChild
        /\ pc \in {"staging", "launching", "recording"}
    BY <1>1, <1>4 DEF Interrupt, Recorded, Running, SuiteInv, TypeInv, Places
  <2>2. TypeInv'
    BY <1>1, <2>1, NoChildIs DEF SuiteInv, TypeInv, Places
  <2>3. pc = "staging" => run[stage].status # "RUNNING"
    BY DEF SuiteInv, ControlInv, Planned
  <2>4. ControlInv' /\ EndInv'
    BY <1>1, <1>2, <2>1, <2>3, NoChildIs
       DEF SuiteInv, ControlInv, EndInv, Generating, Asking
  <2>5. GenerationInv' /\ HeldInv' /\ BoundInv'
    BY <1>2, <2>1, NoChildIs DEF GenerationInv, HeldInv, BoundInv, Queried, Captured, Labelled,
       Delivered, Generating, Asking
  <2> QED
    BY <1>2, <2>2, <2>4, <2>5 DEF SuiteInv
<1>5. CASE Kill
  <2>1. pc' = "killed" /\ child' = child /\ pc \notin {"idle", "done"}
    BY <1>5 DEF Kill, Running
  <2>2. TypeInv'
    BY <1>1, <2>1 DEF SuiteInv, TypeInv, Places
  <2>3. ControlInv' /\ EndInv'
    BY <1>1, <1>2, <2>1 DEF SuiteInv, ControlInv, EndInv
  <2>4. /\ Labelled' => Labelled
        /\ Captured' => Captured
        /\ Queried' => Queried
        /\ ~Delivered' /\ HeldInv' /\ BoundInv'
    BY <1>2, <2>1 DEF Queried, Captured, Labelled, Delivered, HeldInv, BoundInv
  <2>5. AsSmoked(child.tree, child.profile)' = AsSmoked(child.tree, child.profile)
        /\ OfChild(files[stage].predictions)' = OfChild(files[stage].predictions)
    BY <1>1, <2>1 DEF AsSmoked, OfChild
  <2>6. GenerationInv'
    BY <1>1, <2>1, <2>4, <2>5 DEF SuiteInv, GenerationInv
  <2> QED
    BY <1>2, <2>2, <2>3, <2>4, <2>6 DEF SuiteInv
<1> QED
  BY <1>3, <1>4, <1>5

(* The suite begins, with a stage that was not begun.                        *)
LEMMA StartKeeps ==
  ASSUME SuiteInv, NEW stages \in {"smoke", "all"}, Start(stages)
  PROVE  SuiteInv'
<1>1. /\ pc = "idle"
      /\ UNCHANGED <<tree, settings, files, stage, run, held, child, asked>>
      /\ pc' = "staging" /\ request' \in {"smoke", "all"}
  BY DEF SuiteInv, ControlInv, Start, Goto, disk
<1>2. /\ Completed' = Completed /\ SmokedInv'
      /\ \A s \in Completed' :
           IsBound(s)' /\ run'[s].summary = Score(run'[s].data, held'[s].predictions.list)
  BY <1>1, RecordKept
<1>3. TypeInv'
  BY <1>1 DEF SuiteInv, TypeInv, Places
<1>4. ControlInv' /\ EndInv'
  BY <1>1, <1>2 DEF SuiteInv, ControlInv, EndInv, Generating, Asking
<1>5. GenerationInv' /\ HeldInv'
  BY <1>1 DEF SuiteInv, ControlInv, GenerationInv, HeldInv, Queried, Captured, Labelled,
              Delivered, Generating, Asking
<1>6. BoundInv'
  BY <1>1, <1>2 DEF BoundInv
<1> QED
  BY <1>2, <1>3, <1>4, <1>5, <1>6 DEF SuiteInv

(* A stage is begun; before the full one what was smoked is current.         *)
LEMMA StageKeeps ==
  ASSUME SuiteInv, Stage
  PROVE  SuiteInv'
<1>1. /\ pc = "staging" /\ Running /\ child.pc \notin Generating \union {"scoring"}
      /\ UNCHANGED <<tree, settings, files, request, stage, held, child, asked>>
      /\ UNCHANGED <<disk>>
  BY DEF Stage, Running, disk, SuiteInv, ControlInv
<1>2. CASE Fail("VALIDATION")
  BY <1>1, <1>2, FailKeeps DEF Phases
<1>3. CASE Update([run[stage] EXCEPT !.status = "RUNNING"]) /\ pc' = "launching"
  <2> DEFINE r == [run[stage] EXCEPT !.status = "RUNNING"]
  <2>1. r.status = "RUNNING" /\ DOMAIN r = DOMAIN Planned /\ stage \in StageNames
    BY DEF SuiteInv, TypeInv, Planned
  <2>2. Update(r)
    BY <1>3
  <2> HIDE DEF r
  <2>3. /\ run'[stage] = r /\ \A s \in StageNames \ {stage} : run'[s] = run[s]
        /\ run' \in [StageNames -> {run'[s] : s \in StageNames}]
        /\ \A s \in StageNames : DOMAIN run'[s] = DOMAIN Planned
    BY <2>1, <2>2, UpdateGives DEF SuiteInv
  <2>4. stage \notin Completed
    BY <1>1, UnderWay DEF SuiteInv
  <2>5. TypeInv'
    BY <1>1, <1>3, <2>3 DEF SuiteInv, TypeInv, Places
  <2>6. /\ Completed' = Completed \ {stage} /\ SmokedInv'
        /\ \A s \in Completed' :
             IsBound(s)' /\ run'[s].summary = Score(run'[s].data, held'[s].predictions.list)
        /\ stage = "smoke" => run'["full"] = run["full"]
    BY <1>1, <2>1, <2>3, OthersKept
  <2>7. ControlInv' /\ EndInv'
    BY <1>1, <1>3, <2>1, <2>4, <2>6 DEF SuiteInv, ControlInv, EndInv
  <2>8. GenerationInv' /\ HeldInv'
    BY <1>1, <1>3 DEF GenerationInv, HeldInv, Queried, Captured, Labelled, Delivered,
       Generating, Asking
  <2>9. BoundInv'
    BY <1>3, <2>6 DEF BoundInv
  <2> QED
    BY <2>5, <2>6, <2>7, <2>8, <2>9 DEF SuiteInv
<1> QED
  BY <1>2, <1>3 DEF Stage, Goto

(* Its generator is started, with nothing asked or written yet.              *)
LEMMA LaunchKeeps ==
  ASSUME SuiteInv, Launch
  PROVE  SuiteInv'
<1>1. /\ pc = "launching" /\ pc' = "generating"
      /\ UNCHANGED <<tree, settings, files, request, stage, run, held, asked>>
      /\ asked[stage] = {} /\ files[stage].predictions = None
  BY DEF SuiteInv, ControlInv, Launch, Goto, disk
<1>2. child' \in ChildState /\ child'.pc = "starting"
  BY NoChildIs DEF Launch, ChildState, Generating, Asking
<1>3. /\ Completed' = Completed /\ SmokedInv'
      /\ \A s \in Completed' :
           IsBound(s)' /\ run'[s].summary = Score(run'[s].data, held'[s].predictions.list)
  BY <1>1, RecordKept
<1>4. stage \notin Completed
  BY <1>1, UnderWay DEF SuiteInv
<1>5. TypeInv'
  BY <1>1, <1>2 DEF SuiteInv, TypeInv, Places
<1>6. ControlInv' /\ EndInv'
  BY <1>1, <1>2, <1>3, <1>4 DEF SuiteInv, ControlInv, EndInv
<1>7. GenerationInv' /\ HeldInv'
  BY <1>1, <1>2 DEF GenerationInv, HeldInv, Queried, Captured, Labelled, Delivered
<1>8. BoundInv'
  BY <1>1, <1>3 DEF BoundInv
<1> QED
  BY <1>3, <1>5, <1>6, <1>7, <1>8 DEF SuiteInv

(* A stage goes on to the next place, with nothing changed but that.         *)
LEMMA GoesOnKeeps ==
  ASSUME SuiteInv, UNCHANGED <<disk, request, stage, run, held, child, asked>>,
         \/ pc = "generating" /\ child.pc = "exited" /\ child.code = 0 /\ pc' = "reading"
         \/ pc = "scoring" /\ child.pc = "exited" /\ pc' = "verifying"
         \/ pc = "verifying" /\ pc' = "rehashing"
         \/ pc = "rehashing" /\ pc' = "rescoring"
  PROVE  SuiteInv'
<1>1. UNCHANGED <<tree, settings, files, request, stage, run, held, child, asked>>
  BY DEF disk
<1>2. stage \notin Completed
  BY UnderWay DEF SuiteInv
<1>3. /\ Completed' = Completed /\ SmokedInv'
      /\ \A s \in Completed' :
           IsBound(s)' /\ run'[s].summary = Score(run'[s].data, held'[s].predictions.list)
  BY <1>1, RecordKept
<1>4. TypeInv'
  BY <1>1 DEF SuiteInv, TypeInv, Places
<1>5. ControlInv' /\ EndInv'
  BY <1>1, <1>2, <1>3 DEF SuiteInv, ControlInv, EndInv, Generating, Asking
<1>6. HeldInv'
  BY DEF HeldInv
<1>7. CASE pc' = "reading"
  <2>1. /\ pc = "generating" /\ child.pc = "exited" /\ child.code = 0
        /\ Delivered /\ Labelled /\ Captured /\ Queried
    BY <1>7 DEF Delivered, Labelled, Captured, Queried
  <2>2. AsSmoked(child.tree, child.profile)' = AsSmoked(child.tree, child.profile)
        /\ OfChild(files[stage].predictions)' = OfChild(files[stage].predictions)
    BY <1>1 DEF AsSmoked, OfChild
  <2>3. GenerationInv'
    BY <1>1, <1>7, <2>1, <2>2 DEF SuiteInv, GenerationInv, Generating, Asking
  <2>4. BoundInv'
    BY <1>3, <1>7 DEF BoundInv
  <2> QED
    BY <1>3, <1>4, <1>5, <1>6, <2>3, <2>4 DEF SuiteInv
<1>8. CASE pc' # "reading"
  <2>1. pc \in {"scoring", "verifying", "rehashing"} /\ child.pc \notin Generating
    BY <1>8 DEF SuiteInv, ControlInv
  <2>2. GenerationInv'
    BY <1>1, <1>8, <2>1
       DEF GenerationInv, Queried, Captured, Labelled, Delivered, Generating, Asking
  <2>3. IsBound(stage)
    BY <2>1 DEF SuiteInv, BoundInv
  <2>4. IsBound(stage)'
    BY <1>1, <2>3 DEF IsBound, Nonce
  <2>5. BoundInv'
    BY <1>3, <2>4 DEF BoundInv
  <2> QED
    BY <1>3, <1>4, <1>5, <1>6, <2>2, <2>5 DEF SuiteInv
<1> QED
  BY <1>7, <1>8

LEMMA StepsKeep ==
  ASSUME SuiteInv, Generated \/ Scored \/ Verify \/ Rehash
  PROVE  SuiteInv'
<1>1. /\ UNCHANGED <<disk, request, stage, held, child, asked>> /\ Running
      /\ pc \in {"generating", "scoring"} => child.pc = "exited"
      /\ pc \in {"generating", "scoring", "verifying", "rehashing"}
  BY DEF Generated, Scored, Verify, Rehash, Running, Fail
<1>2. ASSUME NEW p \in Phases, Fail(p) PROVE SuiteInv'
  <2>1. child.pc \notin Generating \union {"scoring"}
    BY <1>1 DEF SuiteInv, ControlInv, Generating, Asking
  <2> QED
    BY <1>1, <1>2, <2>1, FailKeeps
<1>3. CASE Generated
  BY <1>1, <1>2, <1>3, GoesOnKeeps DEF Generated, Goto, Phases
<1>4. CASE Scored
  BY <1>1, <1>2, <1>4, GoesOnKeeps DEF Scored, Goto, Phases
<1>5. CASE Verify
  BY <1>1, <1>2, <1>5, GoesOnKeeps DEF Verify, Goto, Phases
<1>6. CASE Rehash
  BY <1>1, <1>2, <1>6, GoesOnKeeps DEF Rehash, Goto, Phases
<1> QED
  BY <1>3, <1>4, <1>5, <1>6

(* The predictions of the generation are read, and then the data sets.       *)
LEMMA ReadResultsKeeps ==
  ASSUME SuiteInv, ReadResults
  PROVE  SuiteInv'
<1>1. /\ pc = "reading" /\ Running /\ stage \in StageNames /\ tree \in Version
      /\ UNCHANGED <<tree, settings, files, request, stage, child, asked>>
      /\ child.pc \notin Generating \union {"scoring"}
  BY DEF SuiteInv, TypeInv, ControlInv, ReadResults, Running, disk
<1> DEFINE p == files[stage].predictions
<1>2. CASE Fail("VALIDATION") /\ held' = held
  BY <1>1, <1>2, FailKeeps DEF ReadResults, Phases
<1>3. CASE /\ held' = [held EXCEPT ![stage].predictions = p, ![stage].labels = tree.data]
           /\ Len(p.list) = Limit[stage] /\ pc' = "hashing" /\ run' = run
  <2>1. OfChild(p) /\ Labelled /\ Captured /\ Queried
    BY <1>1 DEF SuiteInv, GenerationInv, Labelled, Captured, Queried
  <2>2. /\ held'[stage].predictions = p /\ held'[stage].labels = tree.data
        /\ \A s \in StageNames \ {stage} : held'[s] = held[s]
        /\ held' \in [StageNames -> [predictions : PredictionFile \union {None},
                               labels : Nat \union {None}, data : Nat \union {None},
                               hash : PredictionFile \union {None}]]
    <3> DEFINE h == [held[stage] EXCEPT !.predictions = p, !.labels = tree.data]
    <3>1. p \in PredictionFile /\ tree.data \in Nat
      BY <1>1, <2>1 DEF OfChild, Version
    <3>2. held' = [held EXCEPT ![stage] = h]
      BY <1>3
    <3>3. held \in [StageNames -> [predictions : PredictionFile \union {None},
                              labels : Nat \union {None}, data : Nat \union {None},
                              hash : PredictionFile \union {None}]]
      BY DEF SuiteInv, TypeInv
    <3> HIDE DEF p
    <3>4. /\ h.predictions = p /\ h.labels = tree.data
          /\ h \in [predictions : PredictionFile \union {None},
                    labels : Nat \union {None}, data : Nat \union {None},
                    hash : PredictionFile \union {None}]
      BY <1>1, <3>1, <3>3
    <3> HIDE DEF h
    <3> QED
      BY <1>1, <3>2, <3>3, <3>4
  <2>3. stage \notin Completed /\ run[stage].status # "COMPLETED"
    BY <1>1, UnderWay DEF SuiteInv, TypeInv, Completed
  <2>4. /\ Completed' = Completed \ {stage} /\ SmokedInv'
        /\ \A s \in Completed' :
             IsBound(s)' /\ run'[s].summary = Score(run'[s].data, held'[s].predictions.list)
    BY <1>1, <1>3, <2>2, <2>3, OthersKept
  <2> HIDE DEF p
  <2>5. TypeInv'
    <3>1. pc' = "hashing" /\ run' = run
      BY <1>3
    <3> QED
      BY <1>1, <2>2, <3>1 DEF SuiteInv, TypeInv, Places
  <2>6. ControlInv' /\ EndInv'
    BY <1>1, <1>3, <2>3, <2>4 DEF SuiteInv, ControlInv, EndInv, Generating, Asking
  <2>7. AsSmoked(child.tree, child.profile)' = AsSmoked(child.tree, child.profile)
    BY <1>1, <1>3 DEF AsSmoked
  <2>8. GenerationInv'
    BY <1>1, <1>3, <2>1, <2>7 DEF SuiteInv, GenerationInv, Delivered, Generating, Asking, p
  <2>9. HeldInv'
    <3>1. child.labels <= tree.data /\ tree.data \in Nat
      BY <1>1, <2>1 DEF SuiteInv, GenerationInv, Version
    <3>2. OfChild(held[stage].predictions)' = OfChild(p)
      BY <1>1, <2>2 DEF OfChild
    <3> QED
      BY <1>1, <1>3, <2>1, <2>2, <3>1, <3>2 DEF HeldInv
  <2>10. BoundInv'
    BY <1>3, <2>4 DEF BoundInv
  <2> QED
    BY <2>4, <2>5, <2>6, <2>8, <2>9, <2>10 DEF SuiteInv
<1> QED
  BY <1>2, <1>3 DEF ReadResults, Goto

(* The inputs are hashed: the data sets of a later moment.                   *)
LEMMA HashInputsKeeps ==
  ASSUME SuiteInv, HashInputs
  PROVE  SuiteInv'
<1>1. /\ pc = "hashing" /\ pc' = "binding" /\ Running /\ stage \in StageNames
      /\ tree \in Version /\ child.pc \notin Generating
      /\ UNCHANGED <<tree, settings, files, request, stage, run, child, asked>>
  BY DEF SuiteInv, TypeInv, ControlInv, HashInputs, Running, Goto, disk
<1>2. /\ held'[stage].predictions = held[stage].predictions
      /\ held'[stage].labels = held[stage].labels /\ held'[stage].data = tree.data
      /\ \A s \in StageNames \ {stage} : held'[s] = held[s]
      /\ held' \in [StageNames -> [predictions : PredictionFile \union {None},
                             labels : Nat \union {None}, data : Nat \union {None},
                             hash : PredictionFile \union {None}]]
  BY ZenonT(60), <1>1 DEF SuiteInv, TypeInv, HashInputs, Version
<1>3. stage \notin Completed /\ run[stage].status # "COMPLETED"
  BY <1>1, UnderWay DEF SuiteInv, TypeInv, Completed
<1>4. /\ Completed' = Completed \ {stage} /\ SmokedInv'
      /\ \A s \in Completed' :
           IsBound(s)' /\ run'[s].summary = Score(run'[s].data, held'[s].predictions.list)
  BY <1>1, <1>2, <1>3, OthersKept
<1>5. TypeInv'
  BY <1>1, <1>2 DEF SuiteInv, TypeInv, Places
<1>6. ControlInv' /\ EndInv'
  BY <1>1, <1>3, <1>4 DEF SuiteInv, ControlInv, EndInv
<1>7. /\ Labelled /\ Captured /\ Queried
      /\ AsSmoked(child.tree, child.profile)' = AsSmoked(child.tree, child.profile)
  BY <1>1 DEF AsSmoked, Labelled, Captured, Queried
<1>8. GenerationInv'
  BY <1>1, <1>7 DEF SuiteInv, GenerationInv, Delivered, Generating
<1>9. HeldInv'
  <2>1. OfChild(held[stage].predictions)' = OfChild(held[stage].predictions)
    BY <1>1, <1>2 DEF OfChild
  <2> QED
    BY <1>1, <1>2, <2>1 DEF SuiteInv, HeldInv, Version
<1>10. BoundInv'
  BY <1>1, <1>4 DEF BoundInv
<1> QED
  BY <1>4, <1>5, <1>6, <1>8, <1>9, <1>10 DEF SuiteInv

(* What is bound was generated, asked and read under one version: nothing    *)
(* was edited from the capture to the check, and the data sets were those of *)
(* the questions from first to last.                                         *)
LEMMA BoundIs ==
  ASSUME SuiteInv, pc = "binding", Bound(held[stage].predictions)
  PROVE  LET p == held[stage].predictions IN
         /\ p.tree = tree /\ p.profile = child.profile /\ AsSmoked(p.tree, p.profile)
         /\ held[stage].data = tree.data /\ held[stage].labels = tree.data
         /\ p.nonce = Nonce(stage) /\ Len(p.list) = Limit[stage]
         /\ \A q \in DOMAIN p.list : ~ p.list[q].replay
         /\ stage = "smoke" => \A q \in DOMAIN p.list : p.list[q].kind = "answer"
         /\ \A a \in asked[stage] : a.tree = tree /\ a.profile = p.profile
<1> DEFINE p == held[stage].predictions
<1>1. /\ p.tree = tree /\ AsSmoked(p.tree, p.profile) /\ p.nonce = Nonce(stage)
      /\ \A q \in DOMAIN p.list : ~ p.list[q].replay
      /\ stage = "smoke" => \A q \in DOMAIN p.list : p.list[q].kind # "failure"
      /\ held[stage].data = p.query /\ held[stage].data = p.labels
  BY DEF Bound, Unchanged
<1>2. /\ OfChild(p) /\ held[stage].labels \in Nat /\ held[stage].data \in Nat
      /\ Len(p.list) = Limit[stage]
      /\ child.labels <= held[stage].labels /\ held[stage].labels <= held[stage].data
  BY DEF SuiteInv, HeldInv
<1>3. /\ Labelled /\ Captured /\ Queried /\ tree \in Version
      /\ child.query <= child.tree.data /\ child.tree.data <= child.labels
      /\ child.query \in Nat /\ child.labels \in Nat
  <2>1. Labelled /\ Captured /\ Queried
    BY DEF Labelled, Captured, Queried
  <2> QED
    BY <2>1 DEF SuiteInv, GenerationInv, TypeInv
<1>4. child.tree = tree /\ child.profile = p.profile /\ tree.data \in Nat
  BY <1>1, <1>2, <1>3 DEF OfChild, Version
<1>5. held[stage].data = tree.data /\ held[stage].labels = tree.data
  <2>1. held[stage].data = child.query /\ held[stage].data = child.labels
    BY <1>1, <1>2 DEF OfChild
  <2>2. child.query <= tree.data /\ tree.data <= child.labels
    BY <1>3, <1>4
  <2> HIDE DEF p
  <2> QED
    BY <1>2, <1>3, <1>4, <2>1, <2>2
<1>6. \A a \in asked[stage] : a.tree = tree /\ a.profile = p.profile
  <2> SUFFICES ASSUME NEW a \in asked[stage] PROVE a.tree = tree /\ a.profile = p.profile
    OBVIOUS
  <2>1. /\ a.captured = child.tree /\ a.profile = child.profile
        /\ Earlier(a.captured, a.tree) /\ Earlier(a.tree, tree)
    BY DEF SuiteInv, GenerationInv
  <2>2. a.tree \in Version
    BY DEF SuiteInv, TypeInv, Question
  <2> QED
    BY <1>3, <1>4, <2>1, <2>2, EarlierOrder
<1>7. stage = "smoke" => \A q \in DOMAIN p.list : p.list[q].kind = "answer"
  <2> SUFFICES ASSUME stage = "smoke", NEW q \in DOMAIN p.list PROVE p.list[q].kind = "answer"
    OBVIOUS
  <2>1. p.list[q] \in Prediction
    BY <1>2 DEF OfChild, PredictionFile
  <2> QED
    BY <1>1, <2>1 DEF Prediction, Fresh, Replayed, Failure
<1> QED
  BY <1>1, <1>2, <1>4, <1>5, <1>6, <1>7

(* What the predictions say is checked, and they go to the scorer.           *)
LEMMA BindKeeps ==
  ASSUME SuiteInv, Bind
  PROVE  SuiteInv'
<1>1. /\ pc = "binding" /\ Running /\ stage \in StageNames /\ child.pc \notin Generating
      /\ UNCHANGED <<tree, settings, request, stage, held, asked>> /\ child.pc # "scoring"
  BY DEF SuiteInv, TypeInv, ControlInv, Bind, Running
<1> DEFINE p == held[stage].predictions
           r == [run[stage] EXCEPT !.tree = p.tree, !.profile = p.profile,
                       !.data = held[stage].data, !.predictions = held[stage].hash,
                       !.scoring = held[stage].labels]
<1>2. CASE Fail("VALIDATION") /\ UNCHANGED <<files, child>>
  BY <1>1, <1>2, FailKeeps DEF Bind, disk, Phases
<1>3. CASE /\ Bound(p) /\ files' = [files EXCEPT ![stage].scoring = held[stage].labels]
           /\ Update(r) /\ child' = [child EXCEPT !.pc = "scoring"] /\ pc' = "scoring"
  <2>1. /\ r.tree = p.tree /\ r.profile = p.profile /\ r.data = held[stage].data
        /\ r.status = run[stage].status /\ DOMAIN r = DOMAIN Planned
    BY <1>1 DEF SuiteInv, TypeInv, Planned
  <2>2. /\ p.tree = tree /\ AsSmoked(p.tree, p.profile)
        /\ held[stage].data = tree.data /\ held[stage].labels = tree.data
        /\ p.nonce = Nonce(stage) /\ Len(p.list) = Limit[stage]
        /\ \A q \in DOMAIN p.list : ~ p.list[q].replay
        /\ stage = "smoke" => \A q \in DOMAIN p.list : p.list[q].kind = "answer"
        /\ \A a \in asked[stage] : a.tree = tree /\ a.profile = p.profile
    BY <1>1, <1>3, BoundIs
  <2>3. Update(r) /\ pc' = "scoring"
    BY <1>3
  <2>4. child' \in ChildState /\ child'.pc = "scoring"
    BY <1>3 DEF SuiteInv, TypeInv, ChildState
  <2>5. /\ files' \in [StageNames -> {files'[s] : s \in StageNames}]
        /\ \A s \in StageNames : /\ DOMAIN files'[s] = DOMAIN files[s]
                                 /\ files'[s].predictions = files[s].predictions
    <3>1. files = [s \in StageNames |-> files[s]]
          /\ \A s \in StageNames : {"predictions", "scoring"} \subseteq DOMAIN files[s]
      BY DEF SuiteInv, TypeInv, NoFiles
    <3> QED
      BY <1>1, <1>3, <3>1
  <2> HIDE DEF r
  <2>6. /\ run'[stage] = r /\ \A s \in StageNames \ {stage} : run'[s] = run[s]
        /\ run' \in [StageNames -> {run'[s] : s \in StageNames}]
        /\ \A s \in StageNames : DOMAIN run'[s] = DOMAIN Planned
    BY <2>1, <2>3, UpdateGives DEF SuiteInv
  <2>7. stage \notin Completed /\ r.status # "COMPLETED"
    BY <1>1, <2>1, UnderWay DEF SuiteInv, TypeInv, Completed
  <2>8. /\ Completed' = Completed \ {stage} /\ SmokedInv'
        /\ \A s \in Completed' :
             IsBound(s)' /\ run'[s].summary = Score(run'[s].data, held'[s].predictions.list)
        /\ stage = "smoke" => run'["full"] = run["full"]
    BY <1>1, <2>6, <2>7, OthersKept
  <2>9. TypeInv'
    BY <1>1, <2>3, <2>4, <2>5, <2>6 DEF SuiteInv, TypeInv, Places
  <2>10. ControlInv' /\ EndInv'
    BY <1>1, <2>3, <2>4, <2>5, <2>7, <2>8
       DEF SuiteInv, ControlInv, EndInv, Generating, Asking, StageNames
  <2>11. GenerationInv' /\ HeldInv'
    BY <2>3, <2>4
       DEF GenerationInv, HeldInv, Queried, Captured, Labelled, Delivered, Generating, Asking
  <2>12. IsBound(stage)'
    <3>1. stage = "full" => run'["smoke"] = run["smoke"] /\ p.tree = run["smoke"].tree
      BY <2>2, <2>6 DEF AsSmoked, StageNames
    <3> QED
      BY <1>1, <2>1, <2>2, <2>6, <3>1 DEF IsBound, Nonce
  <2>13. BoundInv'
    BY <2>8, <2>12 DEF BoundInv
  <2> QED
    BY <2>8, <2>9, <2>10, <2>11, <2>13 DEF SuiteInv
<1> QED
  BY <1>2, <1>3 DEF Bind, Goto

(* A stage completes, with the score the suite has computed itself.          *)
LEMMA CompleteKeeps ==
  ASSUME SuiteInv, Complete
  PROVE  SuiteInv'
<1>1. /\ pc = "rescoring" /\ Running /\ stage \in StageNames
      /\ child.pc \notin Generating \union {"scoring"}
      /\ UNCHANGED <<tree, settings, files, request, stage, held, child, asked>>
  BY DEF SuiteInv, TypeInv, ControlInv, Complete, Running, disk
<1> DEFINE report == files[stage].report
           r == [run[stage] EXCEPT !.status = "COMPLETED", !.summary = report.score]
<1>2. CASE Fail("VALIDATION")
  BY <1>1, <1>2, FailKeeps DEF Complete, Phases
<1>3. CASE Confirmed(report) /\ Update(r) /\ pc' = "completed"
  <2>1. /\ r.status = "COMPLETED" /\ r.tree = run[stage].tree /\ r.profile = run[stage].profile
        /\ r.data = run[stage].data /\ DOMAIN r = DOMAIN Planned /\ r.summary = report.score
    BY <1>1 DEF SuiteInv, TypeInv, Planned
  <2>2. IsBound(stage) /\ stage \notin Completed
    BY <1>1, UnderWay DEF SuiteInv, BoundInv
  <2>3. r.summary = Score(r.data, held[stage].predictions.list)
    BY <1>3, <2>1, <2>2 DEF Confirmed, IsBound
  <2>4. Update(r)
    BY <1>3
  <2> HIDE DEF r
  <2>5. /\ run'[stage] = r /\ \A s \in StageNames \ {stage} : run'[s] = run[s]
        /\ run' \in [StageNames -> {run'[s] : s \in StageNames}]
        /\ \A s \in StageNames : DOMAIN run'[s] = DOMAIN Planned
    BY <2>1, <2>4, UpdateGives DEF SuiteInv
  <2>6. Completed' = Completed \union {stage}
    BY <1>1, <2>1, <2>5 DEF Completed
  <2>7. /\ stage = "smoke" => /\ run'["full"] = Planned /\ Planned.status # "COMPLETED"
                              /\ asked["full"] = {} /\ files["full"].predictions = None
        /\ stage = "full" => "smoke" \in Completed /\ run'["smoke"] = run["smoke"]
    BY <2>5 DEF SuiteInv, ControlInv, StageNames, Planned
  <2>8. pc' = "completed"
    BY <1>3
  <2>9. TypeInv'
    BY <1>1, <2>5, <2>8 DEF SuiteInv, TypeInv, Places, StageNames
  <2>10. ControlInv' /\ EndInv'
    <3>1. request \in {"smoke", "all"}
      BY <1>1 DEF SuiteInv, ControlInv
    <3> QED
      BY <1>1, <2>6, <2>7, <2>8, <3>1 DEF ControlInv, EndInv
  <2>11. GenerationInv' /\ HeldInv'
    BY <1>1, <2>8
       DEF GenerationInv, HeldInv, Queried, Captured, Labelled, Delivered, Generating, Asking
  <2>12. ASSUME NEW s \in Completed'
         PROVE  IsBound(s)' /\ run'[s].summary = Score(run'[s].data, held'[s].predictions.list)
    <3>1. CASE s = stage
      BY <1>1, <2>1, <2>2, <2>3, <2>5, <2>7, <3>1 DEF IsBound, Nonce
    <3>2. CASE s # stage
      <4>1. s \in Completed /\ s \in StageNames /\ run'[s] = run[s]
        BY <2>5, <2>6, <3>2 DEF Completed
      <4>2. IsBound(s) /\ run[s].summary = Score(run[s].data, held[s].predictions.list)
        BY <4>1 DEF SuiteInv, BoundInv
      <4>3. s = "smoke"
        BY <1>1, <2>7, <3>2, <4>1 DEF StageNames, Completed
      <4> QED
        BY <1>1, <4>1, <4>2, <4>3 DEF IsBound, Nonce
    <3> QED
      BY <3>1, <3>2
  <2>13. BoundInv'
    BY <2>8, <2>12 DEF BoundInv
  <2>14. SmokedInv'
    BY <1>1, <2>7 DEF SuiteInv, TypeInv, SmokedInv, StageNames
  <2> QED
    BY <2>9, <2>10, <2>11, <2>13, <2>14 DEF SuiteInv
<1> QED
  BY <1>2, <1>3 DEF Complete, Goto

(* The full stage follows the smoke stage if it was asked for.               *)
LEMMA NextStageKeeps ==
  ASSUME SuiteInv, NextStage
  PROVE  SuiteInv'
<1>1. /\ pc = "completed" /\ stage \in StageNames /\ stage \in Completed
      /\ child.pc \notin Generating \union {"scoring"} /\ request \in {"smoke", "all"}
      /\ UNCHANGED <<tree, settings, files, request, run, held, child, asked>>
  BY DEF SuiteInv, TypeInv, ControlInv, NextStage, disk
<1>2. \/ stage = "smoke" /\ request = "all" /\ stage' = "full" /\ pc' = "staging"
      \/ ~(stage = "smoke" /\ request = "all") /\ pc' = "done" /\ stage' = stage
  BY DEF NextStage, Goto
<1>3. /\ Completed' = Completed /\ SmokedInv'
      /\ \A s \in Completed' :
           IsBound(s)' /\ run'[s].summary = Score(run'[s].data, held'[s].predictions.list)
  BY <1>1, RecordKept
<1>4. TypeInv'
  BY <1>1, <1>2 DEF SuiteInv, TypeInv, Places, StageNames
<1>5. stage = "smoke" => /\ run["full"] = Planned /\ "full" \notin Completed
                         /\ asked["full"] = {} /\ files["full"].predictions = None
  BY DEF SuiteInv, ControlInv, Planned, Completed
<1>6. ControlInv' /\ EndInv'
  BY <1>1, <1>2, <1>3, <1>5 DEF SuiteInv, ControlInv, EndInv
<1>7. GenerationInv' /\ HeldInv'
  BY <1>1, <1>2
     DEF GenerationInv, HeldInv, Queried, Captured, Labelled, Delivered, Generating, Asking
<1>8. BoundInv'
  BY <1>2, <1>3 DEF BoundInv
<1> QED
  BY <1>3, <1>4, <1>6, <1>7, <1>8 DEF SuiteInv

-----------------------------------------------------------------------------
(* The environment.                                                          *)

(* An edit makes a later version, which nothing recorded can have seen.      *)
LEMMA EditKeeps ==
  ASSUME SuiteInv, Edit
  PROVE  SuiteInv'
<1>1. UNCHANGED <<files, request, stage, pc, phase, left, run, held, child, asked>>
  BY DEF Edit, suite
<1>2. tree \in Version /\ tree' \in Version /\ Earlier(tree, tree') /\ settings' \in Profiles
  <2>1. tree \in Version /\ settings \in Profiles
    BY DEF SuiteInv, TypeInv
  <2>2. CASE tree' = [tree EXCEPT !.code = @ + 1] /\ settings' = settings
    BY <2>1, <2>2 DEF Version, Earlier
  <2>3. CASE tree' = [tree EXCEPT !.code = @ + 1, !.data = @ + 1] /\ settings' = settings
    <3>1. tree' = [tree EXCEPT !.code = tree.code + 1, !.data = tree.data + 1]
      BY <2>3
    <3>2. tree.code \in Nat /\ tree.data \in Nat /\ tree = [code |-> tree.code, data |-> tree.data]
      BY <2>1 DEF Version
    <3>3. tree' = [code |-> tree.code + 1, data |-> tree.data + 1]
      BY <3>1, <3>2
    <3> QED
      BY <2>1, <2>3, <3>2, <3>3 DEF Version, Earlier
  <2>4. CASE settings' \in Profiles /\ tree' = tree
    BY <2>1, <2>4, EarlierOrder
  <2> QED
    BY <2>2, <2>3, <2>4 DEF Edit
<1>3. /\ tree.data \in Nat /\ tree'.data \in Nat /\ tree.data <= tree'.data
      /\ \A t \in Version : Earlier(t, tree) => Earlier(t, tree')
  BY <1>2, EarlierOrder DEF Earlier, Version
<1>4. TypeInv'
  BY <1>1, <1>2 DEF SuiteInv, TypeInv
<1>5. Completed' = Completed
  BY <1>1 DEF Completed
<1>6. ControlInv' /\ EndInv'
  BY <1>1, <1>5 DEF SuiteInv, ControlInv, EndInv
<1>7. /\ Queried' = Queried /\ Captured' = Captured /\ Labelled' = Labelled
      /\ Delivered' = Delivered
      /\ AsSmoked(child.tree, child.profile)' = AsSmoked(child.tree, child.profile)
      /\ OfChild(files[stage].predictions)' = OfChild(files[stage].predictions)
      /\ OfChild(held[stage].predictions)' = OfChild(held[stage].predictions)
  BY <1>1 DEF Queried, Captured, Labelled, Delivered, AsSmoked, OfChild
<1>8. GenerationInv'
  <2>1. Queried =>
          child.query \in Nat /\ child.query <= tree'.data /\ child.profile \in Profiles
    BY <1>3 DEF SuiteInv, GenerationInv
  <2>2. Captured =>
          /\ child.tree \in Version /\ Earlier(child.tree, tree')
          /\ child.query <= child.tree.data /\ AsSmoked(child.tree, child.profile)
    BY <1>3 DEF SuiteInv, GenerationInv
  <2>3. Labelled =>
          child.labels \in Nat /\ child.tree.data <= child.labels /\ child.labels <= tree'.data
    BY <1>3 DEF SuiteInv, GenerationInv
  <2>4. child.pc \in Generating \/ pc \in {"generating", "reading", "hashing", "binding"} =>
          \A a \in asked[stage] :
            /\ a.captured = child.tree /\ a.profile = child.profile
            /\ Earlier(a.captured, a.tree) /\ Earlier(a.tree, tree')
    <3>1. \A a \in asked[stage] : a.tree \in Version
      BY DEF SuiteInv, TypeInv, Question
    <3> QED
      BY <1>3, <3>1 DEF SuiteInv, GenerationInv
  <2> QED
    BY <1>1, <1>7, <2>1, <2>2, <2>3, <2>4 DEF SuiteInv, GenerationInv
<1>9. HeldInv'
  BY <1>1, <1>3, <1>7 DEF SuiteInv, HeldInv
<1>10. BoundInv' /\ SmokedInv'
  BY <1>1, <1>5 DEF SuiteInv, BoundInv, IsBound, SmokedInv, Nonce
<1> QED
  BY <1>4, <1>6, <1>8, <1>9, <1>10 DEF SuiteInv

(* A file of the stage is replaced: predictions only by others that claim    *)
(* the same sources and settings, under another nonce.                       *)
LEMMA ReplaceKeeps ==
  ASSUME SuiteInv, Replace
  PROVE  SuiteInv'
<1>1. /\ UNCHANGED <<tree, settings, request, stage, pc, phase, left, run, held, child, asked>>
      /\ stage \in StageNames
  BY DEF Replace, suite, SuiteInv, TypeInv
<1> DEFINE f == files[stage]
<1>2. /\ files = [s \in StageNames |-> files[s]]
      /\ \A s \in StageNames : DOMAIN files[s] = {"predictions", "scoring", "report"}
      /\ f.predictions \in PredictionFile \union {None}
  BY <1>1 DEF SuiteInv, TypeInv, NoFiles
<1>3. /\ files' \in [StageNames -> {files'[s] : s \in StageNames}]
      /\ \A s \in StageNames : DOMAIN files'[s] = DOMAIN files[s]
      /\ \A s \in StageNames \ {stage} : files'[s] = files[s]
      /\ \/ files'[stage].predictions = f.predictions
         \/ /\ f.predictions # None
            /\ \E n \in 1 .. Limit[stage] :
                 files'[stage].predictions = Foreign(f.predictions, n)
  <2>1. CASE \E n \in 1 .. Limit[stage] :
               /\ f.predictions # None
               /\ files' = [files EXCEPT ![stage].predictions = Foreign(f.predictions, n)]
    BY <1>1, <1>2, <2>1
  <2>2. CASE files' = [files EXCEPT ![stage].scoring = f.scoring + 1]
    BY <1>1, <1>2, <2>2
  <2>3. CASE \E x : files' = [files EXCEPT ![stage].report.score = x]
    BY <1>1, <1>2, <2>3
  <2> QED
    BY <2>1, <2>2, <2>3 DEF Replace
<1>4. ASSUME NEW n \in 1 .. Limit[stage], f.predictions # None,
             files'[stage].predictions = Foreign(f.predictions, n)
      PROVE  LET q == files'[stage].predictions IN
             /\ q \in PredictionFile /\ q.tree = f.predictions.tree
             /\ q.profile = f.predictions.profile /\ q.query = f.predictions.query
             /\ q.labels = f.predictions.labels
  <2> DEFINE list == [i \in 1 .. n |-> Fresh]
  <2>1. list \in Seq(Prediction)
    <3>1. Fresh \in Prediction /\ n \in Nat
      BY SuiteAssumption DEF Prediction
    <3> QED
      BY <3>1
  <2>2. files'[stage].predictions = [f.predictions EXCEPT !.nonce = "another", !.list = list]
    BY <1>4 DEF Foreign
  <2> HIDE DEF list
  <2> QED
    BY <1>2, <1>4, <2>1, <2>2 DEF PredictionFile
<1> DEFINE q == files'[stage].predictions
<1>5. /\ q \in PredictionFile \union {None}
      /\ f.predictions = None => q = None
      /\ OfChild(f.predictions) =>
           /\ q \in PredictionFile /\ q.tree = child.tree /\ q.profile = child.profile
           /\ q.query = child.query /\ q.labels = child.labels
  <2>1. CASE q = f.predictions
    BY <1>2, <2>1 DEF OfChild
  <2>2. CASE \E n \in 1 .. Limit[stage] : f.predictions # None /\ q = Foreign(f.predictions, n)
    BY <1>4, <2>2 DEF OfChild
  <2> QED
    BY <1>3, <2>1, <2>2
<1>6. /\ OfChild(f.predictions) => OfChild(files[stage].predictions)'
      /\ f.predictions = None => files'[stage].predictions = None
  BY <1>1, <1>5 DEF OfChild
<1>7. TypeInv'
  BY <1>1, <1>2, <1>3, <1>5 DEF SuiteInv, TypeInv
<1>8. Completed' = Completed
  BY <1>1 DEF Completed
<1>9. ControlInv' /\ EndInv'
  BY <1>1, <1>3, <1>6, <1>8 DEF SuiteInv, ControlInv, EndInv, StageNames
<1>10. /\ Queried' = Queried /\ Captured' = Captured /\ Labelled' = Labelled
       /\ Delivered' = Delivered
       /\ AsSmoked(child.tree, child.profile)' = AsSmoked(child.tree, child.profile)
       /\ OfChild(held[stage].predictions)' = OfChild(held[stage].predictions)
  BY <1>1 DEF Queried, Captured, Labelled, Delivered, AsSmoked, OfChild
<1>11. GenerationInv'
  BY <1>1, <1>6, <1>10 DEF SuiteInv, GenerationInv
<1>12. HeldInv'
  BY <1>1, <1>10 DEF SuiteInv, HeldInv
<1>13. BoundInv' /\ SmokedInv'
  BY <1>1, <1>8 DEF SuiteInv, BoundInv, IsBound, SmokedInv, Nonce
<1> QED
  BY <1>7, <1>9, <1>11, <1>12, <1>13 DEF SuiteInv

(* A step that touches nothing the invariant is about.                       *)
LEMMA OtherwiseKeeps ==
  ASSUME SuiteInv, UNCHANGED <<tree, settings, files, suite, child, asked>>
  PROVE  SuiteInv'
<1>1. UNCHANGED <<tree, settings, files, request, stage, pc, phase, left, run, held, child, asked>>
  BY DEF suite
<1>2. TypeInv' /\ SmokedInv' /\ Completed' = Completed
  BY <1>1 DEF SuiteInv, TypeInv, SmokedInv, Completed
<1>3. ControlInv' /\ EndInv' /\ HeldInv'
  BY <1>1, <1>2 DEF SuiteInv, ControlInv, EndInv, HeldInv, OfChild
<1>4. GenerationInv'
  BY <1>1 DEF SuiteInv, GenerationInv, Queried, Captured, Labelled, Delivered, AsSmoked, OfChild
<1>5. BoundInv'
  BY <1>1, <1>2 DEF SuiteInv, BoundInv, IsBound, Nonce
<1> QED
  BY <1>2, <1>3, <1>4, <1>5 DEF SuiteInv

-----------------------------------------------------------------------------
(* The theorems.                                                             *)

LEMMA InitSuite ==
  ASSUME Init
  PROVE  SuiteInv
<1>1. /\ stage = "smoke" /\ pc = "idle" /\ request = "none" /\ child = NoChild
      /\ \A s \in StageNames : run[s] = Planned /\ asked[s] = {} /\ files[s] = NoFiles
      /\ Planned.status = "PLANNED" /\ NoFiles.predictions = None
  BY DEF Init, Planned, NoFiles
<1>2. TypeInv
  <2>1. tree \in Version
    BY DEF Init, Version
  <2>2. /\ files \in [StageNames -> {files[s] : s \in StageNames}]
        /\ run \in [StageNames -> {run[s] : s \in StageNames}]
        /\ asked \in [StageNames -> SUBSET Question]
    BY DEF Init
  <2>3. held \in [StageNames -> [predictions : PredictionFile \union {None},
                                labels : Nat \union {None}, data : Nat \union {None},
                                hash : PredictionFile \union {None}]]
    BY DEF Init
  <2> QED
    BY <1>1, <2>1, <2>2, <2>3, NoChildIs DEF Init, TypeInv, StageNames, Places
<1>3. Completed = {}
  BY <1>1 DEF Completed
<1>4. ControlInv /\ EndInv
  BY <1>1, <1>3, NoChildIs DEF ControlInv, EndInv, StageNames, Generating, Asking
<1>5. GenerationInv /\ HeldInv
  BY <1>1, NoChildIs
     DEF GenerationInv, HeldInv, Queried, Captured, Labelled, Delivered, Generating, Asking
<1>6. BoundInv /\ SmokedInv
  BY <1>1, <1>3 DEF BoundInv, SmokedInv, StageNames
<1> QED
  BY <1>2, <1>4, <1>5, <1>6 DEF SuiteInv

LEMMA StepSuite ==
  ASSUME SuiteInv, [Next]_vars
  PROVE  SuiteInv'
<1>1. CASE Start("smoke") \/ Start("all")
  BY <1>1, StartKeeps
<1>2. CASE Proceed
  BY <1>2, StageKeeps, LaunchKeeps, StepsKeep, ReadResultsKeeps, HashInputsKeeps, BindKeeps,
     CompleteKeeps, NextStageKeeps, RecordFailureKeeps DEF Proceed
<1>3. CASE Generate
  BY <1>3, ReadQueriesKeeps, CaptureKeeps, AskKeeps, OpenGoldKeeps, WritersKeep DEF Generate
<1>4. CASE ScoreFiles \/ ChildFails
  BY <1>4, ScorerKeeps, ChildFailsKeeps
<1>5. CASE Interrupt \/ Kill
  BY <1>5, EndsKeep
<1>6. CASE Edit \/ Replace
  BY <1>6, EditKeeps, ReplaceKeeps
<1>7. CASE AskElsewhere \/ UNCHANGED vars
  BY <1>7, OtherwiseKeeps DEF AskElsewhere, vars, disk
<1> QED
  BY <1>1, <1>2, <1>3, <1>4, <1>5, <1>6, <1>7 DEF Next

(* What the suite, its processes, its files and its record are to each other *)
(* in every reachable state.                                                 *)
THEOREM SuiteInvariant == Spec => []SuiteInv
<1>1. Init => SuiteInv
  BY InitSuite
<1>2. SuiteInv /\ [Next]_vars => SuiteInv'
  BY StepSuite
<1> QED
  BY <1>1, <1>2, PTL DEF Spec

(* A completed stage is summarised by the score of the predictions of its    *)
(* own generation, none replayed, against the data sets it records.          *)
THEOREM SummaryOwn == Spec => []SummaryIsOfItsOwn
<1>1. SuiteInv => SummaryIsOfItsOwn
  BY DEF SuiteInv, BoundInv, IsBound, SummaryIsOfItsOwn
<1> QED
  BY <1>1, SuiteInvariant, PTL

(* Whatever is edited meanwhile, the questions of a completed stage were     *)
(* asked on the sources and under the settings it records.                   *)
THEOREM AskedOnRecorded == Spec => []AskedOnRecordedSources
<1>1. SuiteInv => AskedOnRecordedSources
  BY DEF SuiteInv, BoundInv, IsBound, AskedOnRecordedSources
<1> QED
  BY <1>1, SuiteInvariant, PTL

(* Every question of the full stage rests on a smoke stage that completed    *)
(* without a failure, with the same sources and settings.                    *)
THEOREM FullOnSmoke == Spec => []FullRestsOnSmoke
<1>1. ASSUME SuiteInv PROVE FullRestsOnSmoke
  <2>1. ASSUME NEW a \in asked["full"]
        PROVE  /\ "smoke" \in Completed
               /\ \A q \in DOMAIN held["smoke"].predictions.list :
                    held["smoke"].predictions.list[q].kind = "answer"
               /\ a.captured = run["smoke"].tree /\ a.profile = run["smoke"].profile
    <3>1. stage = "full"
      BY <1>1 DEF SuiteInv, TypeInv, ControlInv, StageNames
    <3>2. "smoke" \in Completed
      BY <1>1, <3>1 DEF SuiteInv, ControlInv
    <3>3. IsBound("smoke")
      BY <1>1, <3>2 DEF SuiteInv, BoundInv
    <3> QED
      BY <1>1, <3>2, <3>3 DEF SuiteInv, SmokedInv, IsBound
  <2>2. ASSUME "full" \in Completed PROVE run["full"].data = run["smoke"].data
    <3>1. stage = "full"
      BY <1>1, <2>2 DEF SuiteInv, TypeInv, ControlInv, StageNames, Completed, Planned
    <3>2. IsBound("smoke") /\ IsBound("full")
      BY <1>1, <2>2, <3>1 DEF SuiteInv, ControlInv, BoundInv
    <3> QED
      BY <3>2 DEF IsBound
  <2> QED
    BY <2>1, <2>2 DEF FullRestsOnSmoke
<1> QED
  BY <1>1, SuiteInvariant, PTL

(* A suite that ends well has completed every stage asked for, one that      *)
(* exits with a failure has recorded it, with its phase, and the full stage  *)
(* is not begun before the smoke stage has completed.  An interrupt leaves a *)
(* stage RUNNING only where it arrives before the generator is started or    *)
(* while a failure is recorded; only then, or by a kill, does one stay so.   *)
THEOREM EndRecorded == Spec => []EndIsRecorded
<1>1. ASSUME SuiteInv PROVE EndIsRecorded
  <2>1. ASSUME pc = "done" PROVE Selected \subseteq Completed
    BY <1>1, <2>1 DEF SuiteInv, TypeInv, ControlInv, StageNames, Selected
  <2>2. run["full"] # Planned => "smoke" \in Completed
    BY <1>1 DEF SuiteInv, TypeInv, ControlInv, StageNames
  <2> QED
    BY <1>1, <2>1, <2>2 DEF SuiteInv, EndInv, EndIsRecorded, Phases
<1> QED
  BY <1>1, SuiteInvariant, PTL
=============================================================================
