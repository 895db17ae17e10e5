----------------------- MODULE EntailmentReviewProofs -----------------------
(***************************************************************************)
(* Proofs about EntailmentReview for any number of people, packages,       *)
(* claims, hours and mistakes.                                             *)
(***************************************************************************)
EXTENDS EntailmentReview, FiniteSetTheorems, TLAPS

(* One file per slot and kind, and nothing else.                             *)
OneFileEach ==
  /\ package = [f \in Files |-> package[f]] /\ mapping = [f \in Files |-> mapping[f]]
  /\ worksheet = [f \in Files |-> worksheet[f]] /\ submission = [f \in Files |-> submission[f]]

(* What a package waits for has the type of the mapping of its slot.         *)
PairInv ==
  pairing # None =>
    \/ pairing.file \in Slots /\ pairing.private \in Headers
    \/ pairing.file = Adjudication /\ IsDisputeMapping(pairing.private)

(* A submission on disk is not earlier than its worksheet, nor that than its *)
(* package, whatever became of the two since.                                *)
InOrder(s) == s.package.at <= s.drawn /\ s.drawn <= s.at
SubmissionsInv == \A f \in Files : submission[f] # None => InOrder(submission[f])

(* What is known of the files between commands.                              *)
DiskInv == TypeOK /\ OneFileEach /\ PairInv /\ SubmissionsInv

-----------------------------------------------------------------------------
(* The files.                                                                *)

(* No command is run with more slips than are allowed, and none but Tick     *)
(* moves the clock.                                                          *)
LEMMA PublishingKeepsTypes ==
  ASSUME TypeOK, NEW old, NEW at, Publishes(old, at)
  PROVE  slips' \in 0 .. MaxSlips /\ now' \in Times
BY ReviewAssumption DEF TypeOK, Publishes

(* A decision that a submission gives on a claim is a review decision.       *)
LEMMA DecisionsAreDecisions ==
  ASSUME TypeOK, NEW S \in SUBSET Slots, NEW T \in SUBSET Slots, SubmissionsVerified(S, T),
         NEW c \in Claims
  PROVE  DecisionsOn(T, c) \subseteq ReviewDecision
<1>1. \A i \in T : submission[i].rows[c] \in ReviewDecision
  BY DEF TypeOK, SubmissionsVerified, ReviewSubmissions
<1>. QED
  BY <1>1 DEF DecisionsOn, Decoded

(* The status of a claim is one of the eight.                                *)
LEMMA StatusIsOne ==
  ASSUME NEW T, NEW adjudicated \in BOOLEAN, NEW c
  PROVE  AgreementStatus(T, adjudicated, c) \in ClaimAgreementStatus
<1>. DEFINE ruling == Ruling(adjudicated, c)
            flagged == "CONFLICT" \in DecisionsOn(T, c)
            many == Cardinality(DecisionsOn(T, c) \cap Labels) > 1
<1>1. CASE ruling = "EXCLUDE"
  BY <1>1 DEF AgreementStatus, ClaimAgreementStatus, Labels
<1>2. CASE ruling # "EXCLUDE" /\ ruling \in Labels
  BY <1>2 DEF AgreementStatus, ClaimAgreementStatus
<1>3. CASE ruling # "EXCLUDE" /\ ruling \notin Labels
  BY <1>3 DEF AgreementStatus, ClaimAgreementStatus
<1>. QED
  BY <1>1, <1>2, <1>3

-----------------------------------------------------------------------------
(* What every command leaves on disk.                                        *)

LEMMA DiskInit == Init => DiskInv
BY ReviewAssumption
   DEF Init, DiskInv, TypeOK, OneFileEach, PairInv, SubmissionsInv, Files, SemanticEntailmentSource

LEMMA PairsKeepDisk ==
  ASSUME DiskInv, FinishPair \/ PairFails \/ PairKilled
  PROVE  DiskInv'
<1>. USE DEF DiskInv
<1>a. report' = report /\ source' = source /\ slips' = slips /\ now' = now
      /\ worksheet' = worksheet /\ submission' = submission /\ pairing' = None
  BY DEF FinishPair, PairFails, PairKilled
<1>1. ASSUME FinishPair PROVE DiskInv'
  <2>. USE <1>1 DEF FinishPair
  <2>1. OneFileEach'
    BY DEF OneFileEach
  <2>2. \A f \in Files : mapping'[f] = IF f = pairing.file THEN pairing.private ELSE mapping[f]
    BY DEF OneFileEach
  <2>3. TypeOK'
    BY <1>a, <2>2, ReviewAssumption DEF TypeOK, PairInv, Files
  <2>. QED
    BY <1>a, <2>1, <2>3 DEF PairInv, SubmissionsInv
<1>2. ASSUME PairFails PROVE DiskInv'
  <2>. USE <1>2 DEF PairFails
  <2>1. OneFileEach'
    BY DEF OneFileEach
  <2>2. \A f \in Files : package'[f] \in {package[f], None}
    BY DEF OneFileEach
  <2>3. TypeOK'
    BY <1>a, <2>2, ReviewAssumption DEF TypeOK, Files
  <2>. QED
    BY <1>a, <2>1, <2>3 DEF PairInv, SubmissionsInv
<1>3. ASSUME PairKilled PROVE DiskInv'
  BY <1>3, <1>a DEF PairKilled, TypeOK, OneFileEach, PairInv, SubmissionsInv
<1>. QED
  BY <1>1, <1>2, <1>3

(* A package replaces another, and its mapping is still to come.             *)
LEMMA StartingKeepsDisk ==
  ASSUME DiskInv, NEW f \in Files, NEW public, NEW private, StartsPair(f, public, private),
         UNCHANGED <<source, mapping, worksheet, submission, report>>,
         f \in Slots => public \in Headers /\ private \in Headers,
         f = Adjudication => IsDisputePackage(public) /\ IsDisputeMapping(private)
  PROVE  DiskInv'
<1>. USE DEF DiskInv
<1>1. slips' \in 0 .. MaxSlips /\ now' \in Times
  BY PublishingKeepsTypes DEF StartsPair
<1>2. OneFileEach'
  BY DEF OneFileEach, StartsPair
<1>3. \A g \in Files : package'[g] = IF g = f THEN public ELSE package[g]
  BY DEF OneFileEach, StartsPair
<1>4. TypeOK'
  BY <1>1, <1>3, ReviewAssumption DEF TypeOK, Files
<1>5. PairInv'
  BY DEF StartsPair, PairInv, Files
<1>. QED
  BY <1>2, <1>4, <1>5 DEF SubmissionsInv

LEMMA PackagesKeepDisk ==
  ASSUME DiskInv, NEW i \in Slots, BuildReviewPackage(i)
  PROVE  DiskInv'
<1>1. PICK q \in People, seed \in Seeds, at \in Times :
        StartsPair(i, BlindPackage(source, q, seed, at), BlindPackage(source, q, seed, at))
  BY DEF BuildReviewPackage
<1>2. source \in Runs
  BY DEF DiskInv, TypeOK, BuildReviewPackage, SemanticEntailmentSource
<1>3. BlindPackage(source, q, seed, at) \in Headers
  BY <1>2 DEF BlindPackage, Headers
<1>4. i \in Files /\ i # Adjudication
  BY ReviewAssumption DEF Files
<1>. QED
  BY <1>1, <1>3, <1>4, StartingKeepsDisk DEF BuildReviewPackage

LEMMA DisputesKeepDisk ==
  ASSUME DiskInv, BuildAdjudicationPackage
  PROVE  DiskInv'
<1>1. PICK S \in SUBSET Slots, T \in SUBSET Slots, q \in People, seed \in Seeds, at \in Times :
        /\ MayAdjudicate(S, T, q, at)
        /\ StartsPair(Adjudication, DisputePackage(T, q, seed, at),
                      [package |-> DisputePackage(T, q, seed, at), source |-> source,
                       bundle |-> Bundle(S, T)])
  BY DEF BuildAdjudicationPackage
<1>. DEFINE p == DisputePackage(T, q, seed, at)
            m == [package |-> p, source |-> source, bundle |-> Bundle(S, T)]
<1>2. \A c \in Claims : DecisionsOn(T, c) \subseteq ReviewDecision
  BY <1>1, DecisionsAreDecisions DEF MayAdjudicate, DiskInv
<1>3. /\ DOMAIN p = {"person", "seed", "at", "items"} /\ p.person \in People
      /\ p.items = [c \in Disputed(T) |-> DecisionsOn(T, c)]
  BY DEF DisputePackage
<1>4. \A c \in Disputed(T) : c \in Claims
  BY DEF Disputed
<1>. HIDE DEF p
<1>5. IsDisputePackage(p)
  BY <1>2, <1>3, <1>4 DEF IsDisputePackage
<1>6. source \in Runs
  BY <1>1 DEF DiskInv, TypeOK, MayAdjudicate, PackagesVerified, SemanticEntailmentSource
<1>7. IsDisputeMapping(m)
  BY <1>5, <1>6 DEF IsDisputeMapping
<1>8. Adjudication \in Files /\ Adjudication \notin Slots
  BY ReviewAssumption DEF Files
<1>. HIDE DEF m
<1>9. StartsPair(Adjudication, p, m)
  BY <1>1 DEF p, m
<1>. QED
  BY <1>5, <1>7, <1>8, <1>9, StartingKeepsDisk DEF BuildAdjudicationPackage

LEMMA WorksheetsKeepDisk ==
  ASSUME DiskInv, (\E i \in Slots : BuildReviewWorksheet(i)) \/ BuildAdjudicationWorksheet
  PROVE  DiskInv'
<1>. USE DEF DiskInv
<1>1. PICK f \in Files, q \in People, at \in Times :
        /\ MayDraw(package[f], q, at) /\ Publishes(worksheet[f], at)
        /\ worksheet' = [worksheet EXCEPT ![f] = [package |-> package[f], at |-> at]]
        /\ UNCHANGED <<source, package, mapping, submission, pairing, report>>
  BY DEF BuildReviewWorksheet, BuildAdjudicationWorksheet, Worksheet, AdjudicationWorksheet, Files
<1>2. slips' \in 0 .. MaxSlips /\ now' \in Times
  BY <1>1, PublishingKeepsTypes
<1>3. OneFileEach'
  BY <1>1 DEF OneFileEach
<1>4. \A g \in Files : worksheet'[g] =
        IF g = f THEN [package |-> package[f], at |-> at] ELSE worksheet[g]
  BY <1>1 DEF OneFileEach
<1>5. f \in Slots => [package |-> package[f], at |-> at] \in ReviewWorksheets
  BY <1>1 DEF TypeOK, MayDraw, ReviewWorksheets
<1>6. f = Adjudication => IsAdjudicationWorksheet([package |-> package[f], at |-> at])
  BY <1>1 DEF TypeOK, MayDraw, IsAdjudicationWorksheet
<1>7. TypeOK'
  BY <1>1, <1>2, <1>4, <1>5, <1>6, ReviewAssumption DEF TypeOK, Files
<1>. QED
  BY <1>1, <1>3, <1>7 DEF PairInv, SubmissionsInv

(* A submission that is typed and in order replaces another.                 *)
LEMMA SubmittingKeepsDisk ==
  ASSUME DiskInv, NEW f \in Files, NEW s, NEW at, Publishes(submission[f], at),
         submission' = [submission EXCEPT ![f] = s], InOrder(s),
         UNCHANGED <<source, package, mapping, worksheet, pairing, report>>,
         f \in Slots => s \in ReviewSubmissions, f = Adjudication => IsAdjudication(s)
  PROVE  DiskInv'
<1>. USE DEF DiskInv
<1>1. slips' \in 0 .. MaxSlips /\ now' \in Times
  BY PublishingKeepsTypes
<1>2. OneFileEach'
  BY DEF OneFileEach
<1>3. \A g \in Files : submission'[g] = IF g = f THEN s ELSE submission[g]
  BY DEF OneFileEach
<1>4. TypeOK'
  BY <1>1, <1>3, ReviewAssumption DEF TypeOK, Files
<1>5. SubmissionsInv'
  BY <1>3 DEF SubmissionsInv
<1>. QED
  BY <1>2, <1>4, <1>5 DEF PairInv

LEMMA ReviewsKeepDisk ==
  ASSUME DiskInv, NEW i \in Slots, CompileReview(i)
  PROVE  DiskInv'
<1>1. PICK q \in People, at \in Times, rows \in Fillings :
        /\ ReviewCompiles(package[i], worksheet[i], q, at, rows)
        /\ submission' = [submission EXCEPT ![i] = Submission(worksheet[i], q, at, rows)]
        /\ Publishes(submission[i], at)
  BY DEF CompileReview
<1>. DEFINE s == Submission(worksheet[i], q, at, rows)
<1>2. worksheet[i] \in ReviewWorksheets
  BY <1>1 DEF ReviewCompiles, DiskInv, TypeOK
<1>3. rows \in [Claims -> ReviewDecision]
  BY <1>1, ReviewAssumption DEF ReviewCompiles
<1>4. s \in ReviewSubmissions
  BY <1>2, <1>3 DEF Submission, ReviewSubmissions, ReviewWorksheets
<1>5. InOrder(s)
  BY <1>1 DEF InOrder, Submission, ReviewCompiles
<1>6. i \in Files /\ i # Adjudication
  BY ReviewAssumption DEF Files
<1>. QED
  BY <1>1, <1>4, <1>5, <1>6, SubmittingKeepsDisk DEF CompileReview

LEMMA RulingsKeepDisk ==
  ASSUME DiskInv, CompileAdjudication
  PROVE  DiskInv'
<1>. DEFINE p == package[Adjudication]
            w == worksheet[Adjudication]
<1>1. PICK q \in People, at \in Times, rows \in [DOMAIN p.items -> Rulings] :
        /\ AdjudicationCompiles(p, w, q, at, rows)
        /\ submission' = [submission EXCEPT ![Adjudication] =
                            AdjudicationSubmission(w, q, at, rows)]
        /\ Publishes(submission[Adjudication], at)
  BY DEF CompileAdjudication
<1>. DEFINE s == AdjudicationSubmission(w, q, at, rows)
<1>2. IsDisputePackage(p) /\ w.package = p
  BY <1>1 DEF AdjudicationCompiles, DiskInv, TypeOK
<1>3. rows \in [DOMAIN p.items -> AdjudicationDecision]
  BY <1>1, ReviewAssumption DEF AdjudicationCompiles
<1>4. IsAdjudication(s)
  BY <1>2, <1>3 DEF AdjudicationSubmission, IsAdjudication
<1>5. InOrder(s)
  BY <1>1 DEF InOrder, AdjudicationSubmission, AdjudicationCompiles
<1>6. Adjudication \in Files /\ Adjudication \notin Slots
  BY ReviewAssumption DEF Files
<1>. QED
  BY <1>1, <1>4, <1>5, <1>6, SubmittingKeepsDisk DEF CompileAdjudication

LEMMA ScoreKeepsDisk ==
  ASSUME DiskInv, Score
  PROVE  DiskInv'
<1>1. PICK S \in SUBSET Slots, T \in SUBSET Slots, adjudicated \in BOOLEAN :
        report' = Report(S, T, adjudicated,
                         [c \in Claims |-> ClaimScore(T, adjudicated, c)])
  BY DEF Score
<1>2. report'.claims = [c \in Claims |-> ClaimScore(T, adjudicated, c)]
  BY <1>1 DEF Report
<1>3. \A c \in Claims : report'.claims[c].status \in ClaimAgreementStatus
  BY <1>2, StatusIsOne DEF ClaimScore
<1>. QED
  BY <1>3 DEF Score, DiskInv, TypeOK, OneFileEach, PairInv, SubmissionsInv

LEMMA DiskStep == ASSUME DiskInv, [Next]_vars PROVE DiskInv'
<1>1. ASSUME BuildSource PROVE DiskInv'
  <2>1. source' \in Runs /\ slips' \in 0 .. MaxSlips /\ now' \in Times
    BY <1>1, PublishingKeepsTypes DEF DiskInv, BuildSource
  <2>. QED
    BY <1>1, <2>1 DEF BuildSource, DiskInv, TypeOK, OneFileEach, PairInv, SubmissionsInv,
                      SemanticEntailmentSource
<1>2. ASSUME Tick PROVE DiskInv'
  BY <1>2 DEF Tick, DiskInv, TypeOK, OneFileEach, PairInv, SubmissionsInv
<1>3. ASSUME UNCHANGED vars PROVE DiskInv'
  BY <1>3 DEF vars, DiskInv, TypeOK, OneFileEach, PairInv, SubmissionsInv
<1>. QED
  BY <1>1, <1>2, <1>3, PairsKeepDisk, PackagesKeepDisk, DisputesKeepDisk, WorksheetsKeepDisk,
     ReviewsKeepDisk, RulingsKeepDisk, ScoreKeepsDisk DEF Next

-----------------------------------------------------------------------------
(* What a report says, from what was verified before it was computed.        *)

(* The decisions of the reviewers, and the reviewers, of a claim.            *)
LEMMA DecodedGives ==
  ASSUME NEW T, NEW c
  PROVE  /\ DecisionsOn(T, c) = {submission[i].rows[c] : i \in T}
         /\ {d[1] : d \in Decoded(T, c)} = {submission[i].person : i \in T}
<1>1. \A i \in T : <<submission[i].person, submission[i].rows[c]>> \in Decoded(T, c)
  BY DEF Decoded
<1>2. \A d \in Decoded(T, c) :
        \E i \in T : d[1] = submission[i].person /\ d[2] = submission[i].rows[c]
  BY DEF Decoded
<1>3. \A i \in T : \E d \in Decoded(T, c) :
        d[1] = submission[i].person /\ d[2] = submission[i].rows[c]
  BY <1>1
<1>. QED
  BY <1>2, <1>3 DEF DecisionsOn

LEMMA ScoreIsOfOneSource ==
  ASSUME DiskInv, Score
  PROVE  ReportIsOfOneSource'
<1>1. PICK S \in SUBSET Slots, T \in SUBSET Slots, adjudicated \in BOOLEAN :
        /\ PackagesVerified(S) /\ SubmissionsVerified(S, T)
        /\ adjudicated => AdjudicationVerified(S, T)
        /\ report' = Report(S, T, adjudicated,
                            [c \in Claims |-> ClaimScore(T, adjudicated, c)])
  BY DEF Score
<1>. DEFINE r == report'
<1>2. /\ r.source = source /\ r.packages = {package[i] : i \in S}
      /\ r.mappings = {mapping[i] : i \in S} /\ r.submissions = {submission[i] : i \in T}
      /\ r.adjudication = IF adjudicated THEN submission[Adjudication] ELSE None
  BY <1>1 DEF Report
<1>3. \A p \in r.packages : p.source = r.source
  BY <1>1, <1>2 DEF PackagesVerified
<1>4. \A s \in r.submissions : s.package \in r.packages
  BY <1>1, <1>2 DEF SubmissionsVerified
<1>5. \A p \in r.packages : \E m \in r.mappings : PackageId(m) = PackageId(p)
  <2>1. \A i \in S : \E j \in S : PackageId(mapping[j]) = PackageId(package[i])
    BY <1>1 DEF PackagesVerified
  <2>. QED
    BY <2>1, <1>2
<1>6. ASSUME r.adjudication # None, NEW c \in DOMAIN r.adjudication.package.items
      PROVE  r.adjudication.package.items[c] = {s.rows[c] : s \in r.submissions}
  <2>1. adjudicated /\ r.adjudication = submission[Adjudication]
    BY <1>2, <1>6
  <2>2. r.adjudication.package.items[c] = DecisionsOn(T, c)
    BY <1>1, <2>1, <1>6 DEF AdjudicationVerified
  <2>3. DecisionsOn(T, c) = {submission[i].rows[c] : i \in T}
    BY DecodedGives
  <2>. QED
    BY <1>2, <2>2, <2>3
<1>. QED
  BY <1>3, <1>4, <1>5, <1>6 DEF ReportIsOfOneSource

LEMMA ScoreIsInOrder ==
  ASSUME DiskInv, Score
  PROVE  JudgedInOrder'
<1>1. PICK S \in SUBSET Slots, T \in SUBSET Slots, adjudicated \in BOOLEAN :
        /\ PackagesVerified(S) /\ SubmissionsVerified(S, T)
        /\ adjudicated => AdjudicationVerified(S, T)
        /\ report' = Report(S, T, adjudicated,
                            [c \in Claims |-> ClaimScore(T, adjudicated, c)])
  BY DEF Score
<1>. DEFINE r == report'
<1>2. /\ r.submissions = {submission[i] : i \in T}
      /\ r.adjudication = IF adjudicated THEN submission[Adjudication] ELSE None
  BY <1>1 DEF Report
<1>3. \A s \in r.submissions : s.package.at <= s.drawn /\ s.drawn <= s.at
  BY <1>1, <1>2 DEF DiskInv, SubmissionsInv, InOrder, SubmissionsVerified, Files
<1>4. ASSUME r.adjudication # None
      PROVE  /\ \A s \in r.submissions : s.at <= r.adjudication.package.at
             /\ r.adjudication.package.at <= r.adjudication.drawn
             /\ r.adjudication.drawn <= r.adjudication.at
  <2>1. adjudicated /\ r.adjudication = submission[Adjudication]
    BY <1>2, <1>4
  <2>2. InOrder(submission[Adjudication])
    BY <2>1, <1>4 DEF DiskInv, SubmissionsInv, Files
  <2>3. \A i \in T : submission[i].at <= submission[Adjudication].package.at
    BY <1>1, <2>1 DEF AdjudicationVerified
  <2>. QED
    BY <1>2, <2>1, <2>2, <2>3 DEF InOrder
<1>. QED
  BY <1>3, <1>4 DEF JudgedInOrder

(* Two is the number of a pair.                                              *)
LEMMA PairIsTwo ==
  /\ \A x, y : x # y => Cardinality({x, y}) = 2
  /\ \A T : IsFiniteSet(T) /\ Cardinality(T) = 2 => \E x, y \in T : x # y /\ T = {x, y}
<1>1. ASSUME NEW x, NEW y, x # y PROVE Cardinality({x, y}) = 2
  <2>1. IsFiniteSet({x}) /\ Cardinality({x}) = 1
    BY FS_Singleton
  <2>2. {x, y} = {x} \cup {y} /\ y \notin {x}
    BY <1>1
  <2>. QED
    BY <2>1, <2>2, FS_AddElement
<1>2. ASSUME NEW T, IsFiniteSet(T), Cardinality(T) = 2
      PROVE  \E x, y \in T : x # y /\ T = {x, y}
  <2>1. PICK x \in T : TRUE
    BY <1>2, FS_EmptySet
  <2>2. IsFiniteSet(T \ {x}) /\ Cardinality(T \ {x}) = 1
    BY <1>2, <2>1, FS_RemoveElement
  <2>3. PICK y : T \ {x} = {y}
    BY <2>2, FS_Singleton
  <2>. QED
    BY <2>1, <2>3
<1>. QED
  BY <1>1, <1>2

(* No decision is no ruling and no label.                                    *)
LEMMA NoneIsNoLabel == None \notin Labels /\ None # "EXCLUDE" /\ "EXCLUDE" \notin Labels
BY ReviewAssumption DEF ReviewDecision, AdjudicationDecision, Labels

(* A consensus is the one label that was given.                              *)
LEMMA ConsensusGives ==
  ASSUME NEW T, NEW c, Consensus(T, c) # None
  PROVE  /\ Consensus(T, c) \in Labels /\ DecisionsOn(T, c) = {Consensus(T, c)}
         /\ c \notin Disputed(T)
<1>. DEFINE given == CHOOSE l \in Labels : DecisionsOn(T, c) = {l}
<1>1. (\E l \in Labels : DecisionsOn(T, c) = {l}) /\ Consensus(T, c) = given
  BY DEF Consensus
<1>2. given \in Labels /\ DecisionsOn(T, c) = {given}
  BY <1>1
<1>. QED
  BY <1>1, <1>2 DEF Disputed

(* The adjudicator's decision is one on a claim that was disputed.           *)
LEMMA RulingGives ==
  ASSUME DiskInv, NEW S, NEW T, NEW adjudicated \in BOOLEAN,
         adjudicated => AdjudicationVerified(S, T), NEW c, Ruling(adjudicated, c) # None
  PROVE  LET a == submission[Adjudication]
         IN  /\ adjudicated /\ a # None /\ c \in Disputed(T)
             /\ a.person \notin {submission[i].person : i \in T}
             /\ c \in DOMAIN a.package.items /\ a.package.items[c] = DecisionsOn(T, c)
             /\ Ruling(adjudicated, c) = a.rows[c] /\ a.rows[c] \in AdjudicationDecision
<1>. DEFINE a == submission[Adjudication]
<1>1. adjudicated /\ c \in DOMAIN a.rows /\ Ruling(adjudicated, c) = a.rows[c]
  BY DEF Ruling
<1>2. a # None /\ a.package = package[Adjudication]
  BY <1>1 DEF AdjudicationVerified
<1>3. a.rows \in [DOMAIN a.package.items -> AdjudicationDecision]
  BY <1>2 DEF DiskInv, TypeOK, IsAdjudication
<1>4. c \in DOMAIN a.package.items
  BY <1>1, <1>3
<1>. QED
  BY <1>1, <1>2, <1>3, <1>4 DEF AdjudicationVerified

LEMMA ScoreMeansJudged ==
  ASSUME DiskInv, Score
  PROVE  CompleteMeansJudged'
<1>1. PICK S \in SUBSET Slots, T \in SUBSET Slots, adjudicated \in BOOLEAN :
        /\ PackagesVerified(S) /\ SubmissionsVerified(S, T)
        /\ adjudicated => AdjudicationVerified(S, T)
        /\ report' = Report(S, T, adjudicated,
                            [c \in Claims |-> ClaimScore(T, adjudicated, c)])
  BY DEF Score
<1>. DEFINE r == report'
            scores == [c \in Claims |-> ClaimScore(T, adjudicated, c)]
<1>2. /\ r.adjudication = IF adjudicated THEN submission[Adjudication] ELSE None
      /\ r.claims = scores /\ r.blockers = Blockers(S, T, scores)
  BY <1>1 DEF Report
<1>. SUFFICES ASSUME r.blockers = {}, NEW c \in Claims
              PROVE  LET s == r.claims[c]
                         said == {d[2] : d \in s.decisions}
                         a == r.adjudication
                     IN  /\ Cardinality({d[1] : d \in s.decisions}) = 2
                         /\ \/ \E l \in Labels : said = {l} /\ s.final = l /\ s.ruling = None
                            \/ /\ a # None /\ a.person \notin {d[1] : d \in s.decisions}
                               /\ c \in DOMAIN a.package.items /\ a.package.items[c] = said
                               /\ s.ruling = a.rows[c]
                               /\ s.final = IF s.excluded THEN None ELSE a.rows[c]
  BY DEF CompleteMeansJudged, FormallyComplete
<1>. DEFINE s == ClaimScore(T, adjudicated, c)
            a == submission[Adjudication]
<1>3. r.claims[c] = s
  BY <1>2
<1>4. Cardinality(T) = 2 /\ ~ (s.final = None /\ ~ s.excluded)
  <2>1. "REVIEWER_COUNT_NOT_2" \notin Blockers(S, T, scores)
        /\ "UNRESOLVED_CLAIMS" \notin Blockers(S, T, scores)
    BY <1>2
  <2>2. scores[c] = s
    OBVIOUS
  <2>. HIDE DEF scores, s
  <2>. QED
    BY <2>1, <2>2 DEF Blockers
<1>5. {d[1] : d \in s.decisions} = {submission[i].person : i \in T}
      /\ {d[2] : d \in s.decisions} = DecisionsOn(T, c)
  BY DecodedGives DEF ClaimScore, DecisionsOn
<1>6. Cardinality({submission[i].person : i \in T}) = 2
  <2>1. PICK i \in T, j \in T : i # j /\ T = {i, j}
    <3>1. IsFiniteSet(T)
      BY ReviewAssumption, FS_Subset
    <3>. QED
      BY <3>1, <1>4, PairIsTwo
  <2>2. submission[i].person # submission[j].person
    BY <2>1, <1>1 DEF SubmissionsVerified
  <2>3. {submission[k].person : k \in T} = {submission[i].person, submission[j].person}
    BY <2>1
  <2>4. Cardinality({submission[i].person, submission[j].person}) = 2
    BY <2>2, PairIsTwo
  <2>. QED
    BY <2>3, <2>4, Zenon
<1>7. CASE Ruling(adjudicated, c) = None
  <2>1. s.ruling = None /\ s.final = Consensus(T, c) /\ ~ s.excluded
    BY <1>7, NoneIsNoLabel DEF ClaimScore
  <2>. QED
    BY <2>1, <1>3, <1>4, <1>5, <1>6, ConsensusGives
<1>8. CASE Ruling(adjudicated, c) # None
  <2>1. /\ s.ruling = Ruling(adjudicated, c)
        /\ s.final = IF s.excluded THEN None ELSE Ruling(adjudicated, c)
    BY <1>8 DEF ClaimScore
  <2>2. /\ adjudicated /\ a # None /\ a.person \notin {submission[i].person : i \in T}
        /\ c \in DOMAIN a.package.items /\ a.package.items[c] = DecisionsOn(T, c)
        /\ Ruling(adjudicated, c) = a.rows[c]
    BY <1>1, <1>8, RulingGives
  <2>. HIDE DEF s
  <2>. QED
    BY <2>1, <2>2, <1>2, <1>3, <1>5, <1>6
<1>. QED
  BY <1>7, <1>8

-----------------------------------------------------------------------------
(* The books.                                                                *)

(* Disjoint finite sets are counted together as they are apart.              *)
LEMMA DisjointCount ==
  ASSUME NEW A, NEW B, IsFiniteSet(A), IsFiniteSet(B), A \cap B = {}
  PROVE  /\ IsFiniteSet(A \cup B)
         /\ Cardinality(A) \in Nat /\ Cardinality(B) \in Nat
         /\ Cardinality(A \cup B) = Cardinality(A) + Cardinality(B)
<1>1. Cardinality(A) \in Nat /\ Cardinality(B) \in Nat
  BY FS_CardinalityType
<1>. QED
  BY <1>1, FS_Union, FS_EmptySet

(* A claim has a label or is excluded, and not both, exactly when the        *)
(* reviewers agreed or an adjudicator decided, and not both.                 *)
LEMMA ScoreCases ==
  ASSUME DiskInv, NEW S, NEW T, NEW adjudicated \in BOOLEAN,
         adjudicated => AdjudicationVerified(S, T), NEW c
  PROVE  LET s == ClaimScore(T, adjudicated, c)
         IN  /\ s.excluded \in BOOLEAN /\ s.final \in Labels \cup {None}
             /\ ~ (s.excluded /\ s.final # None)
             /\ ~ (s.status = "CONSENSUS" /\ s.ruling # None)
             /\ (s.excluded \/ s.final # None) <=> (s.status = "CONSENSUS" \/ s.ruling # None)
<1>. DEFINE s == ClaimScore(T, adjudicated, c)
            ruling == Ruling(adjudicated, c)
<1>0. /\ s.ruling = ruling /\ s.excluded \in BOOLEAN /\ (s.excluded <=> ruling = "EXCLUDE")
      /\ s.status = AgreementStatus(T, adjudicated, c)
      /\ s.final = IF ruling = None THEN Consensus(T, c)
                   ELSE IF ruling = "EXCLUDE" THEN None ELSE ruling
  BY DEF ClaimScore
<1>1. CASE ruling # None
  <2>1. ruling \in Labels \cup {"EXCLUDE"}
    BY <1>1, RulingGives DEF AdjudicationDecision
  <2>2. s.status # "CONSENSUS"
    BY <1>0, <2>1 DEF AgreementStatus
  <2>. QED
    BY <1>0, <1>1, <2>1, <2>2, NoneIsNoLabel
<1>2. CASE ruling = None /\ Consensus(T, c) # None
  <2>1. DecisionsOn(T, c) = {Consensus(T, c)} /\ Consensus(T, c) \in Labels /\ c \notin Disputed(T)
    BY <1>2, ConsensusGives
  <2>2. "CONFLICT" \notin DecisionsOn(T, c)
    BY <2>1 DEF Labels
  <2>3. Cardinality(DecisionsOn(T, c) \cap Labels) = 1
    <3>1. DecisionsOn(T, c) \cap Labels = {Consensus(T, c)}
      BY <2>1
    <3>. QED
      BY <3>1, FS_Singleton
  <2>4. s.status = "CONSENSUS"
    BY <1>0, <1>2, <2>1, <2>2, <2>3, NoneIsNoLabel DEF AgreementStatus
  <2>. QED
    BY <1>0, <1>2, <2>1, <2>4, NoneIsNoLabel
<1>3. CASE ruling = None /\ Consensus(T, c) = None
  <2>1. s.status # "CONSENSUS"
    BY <1>0, <1>3, NoneIsNoLabel DEF AgreementStatus
  <2>. QED
    BY <1>0, <1>3, <2>1, NoneIsNoLabel
<1>. QED
  BY <1>1, <1>2, <1>3

(* Nobody hands in more submissions than there are packages.                 *)
LEMMA NoMoreSubmissions ==
  ASSUME NEW S \in SUBSET Slots, NEW T \in SUBSET Slots, SubmissionsVerified(S, T)
  PROVE  /\ IsFiniteSet(S) /\ IsFiniteSet(T) /\ Cardinality(S) \in Nat /\ Cardinality(T) \in Nat
         /\ Cardinality(T) <= Cardinality(S)
<1>1. IsFiniteSet(S) /\ IsFiniteSet(T) /\ Cardinality(S) \in Nat /\ Cardinality(T) \in Nat
  BY ReviewAssumption, FS_Subset, FS_CardinalityType
<1>. DEFINE f == [i \in T |-> CHOOSE j \in S : submission[i].package = package[j]]
<1>2. \A i \in T : f[i] \in S /\ submission[i].package = package[f[i]]
  BY DEF SubmissionsVerified
<1>3. f \in Injection(T, S)
  <2>1. f \in [T -> S]
    BY <1>2
  <2>2. \A i, j \in T : f[i] = f[j] => i = j
    BY <1>2 DEF SubmissionsVerified
  <2>. HIDE DEF f
  <2>. QED
    BY <2>1, <2>2 DEF Injection, IsInjective
<1>. HIDE DEF f
<1>. QED
  BY <1>1, <1>3, FS_Injection

LEMMA RatingsAddUp ==
  ASSUME DiskInv, NEW S \in SUBSET Slots, NEW T \in SUBSET Slots, SubmissionsVerified(S, T),
         NEW scores, \A c \in Claims : scores[c].decisions = Decoded(T, c)
  PROVE  LET n == Summary(S, scores)
         IN  n.received = n.semantic + n.skipped + n.conflicts /\ n.received <= n.assigned
<1>. DEFINE R(D) == Ratings(scores, D)
            rating == [x \in Claims \X T |->
                         <<x[1], <<submission[x[2]].person, submission[x[2]].rows[x[1]]>>>>]
            all == {rating[x] : x \in Claims \X T}
<1>1. /\ IsFiniteSet(Claims \X T)
      /\ Cardinality(Claims \X T) = Cardinality(Claims) * Cardinality(T)
  BY ReviewAssumption, NoMoreSubmissions, FS_Product
<1>2. IsFiniteSet(all) /\ Cardinality(all) <= Cardinality(Claims \X T)
  <2>1. rating \in [Claims \X T -> all]
    OBVIOUS
  <2>. HIDE DEF rating
  <2>2. rating \in Surjection(Claims \X T, all)
    BY <2>1 DEF Surjection, all
  <2>. QED
    BY <1>1, <2>2, FS_Surjection
<1>3. \A c \in Claims : \A d \in Decoded(T, c) : <<c, d>> \in all /\ d[2] \in ReviewDecision
  <2>. SUFFICES ASSUME NEW c \in Claims, NEW d \in Decoded(T, c)
                PROVE  <<c, d>> \in all /\ d[2] \in ReviewDecision
    OBVIOUS
  <2>1. PICK i \in T : d = <<submission[i].person, submission[i].rows[c]>>
    BY DEF Decoded
  <2>2. <<c, d>> = rating[<<c, i>>]
    BY <2>1
  <2>3. d[2] \in DecisionsOn(T, c)
    BY DEF DecisionsOn
  <2>. HIDE DEF rating
  <2>. QED
    BY <2>2, <2>3, DecisionsAreDecisions DEF DiskInv
<1>. HIDE DEF rating, all
<1>4. \A D : R(D) = {y \in all : \E c \in Claims : \E d \in Decoded(T, c) :
                                   y = <<c, d>> /\ d[2] \in D}
  BY <1>3 DEF Ratings
<1>. HIDE DEF R
<1>5. /\ R(ReviewDecision) = (R(Labels) \cup R({"SKIP"})) \cup R({"CONFLICT"})
      /\ R(Labels) \cap R({"SKIP"}) = {}
      /\ (R(Labels) \cup R({"SKIP"})) \cap R({"CONFLICT"}) = {}
  BY <1>4 DEF ReviewDecision, Labels
<1>6. \A D : R(D) \in SUBSET all
  BY <1>4
<1>7. \A D : IsFiniteSet(R(D)) /\ Cardinality(R(D)) <= Cardinality(all)
  BY <1>2, <1>6, FS_Subset
<1>8. Cardinality(R(ReviewDecision))
        = Cardinality(R(Labels)) + Cardinality(R({"SKIP"})) + Cardinality(R({"CONFLICT"}))
  <2>1. /\ IsFiniteSet(R(Labels) \cup R({"SKIP"}))
        /\ Cardinality(R(Labels) \cup R({"SKIP"})) = Cardinality(R(Labels)) + Cardinality(R({"SKIP"}))
    BY <1>5, <1>7, DisjointCount
  <2>2. Cardinality(R(ReviewDecision))
          = Cardinality(R(Labels) \cup R({"SKIP"})) + Cardinality(R({"CONFLICT"}))
    BY <1>5, <1>7, <2>1, DisjointCount
  <2>. QED
    BY <2>1, <2>2
<1>9. Cardinality(R(ReviewDecision)) <= Cardinality(Claims) * Cardinality(S)
  <2>1. /\ Cardinality(R(ReviewDecision)) \in Nat /\ Cardinality(all) \in Nat
        /\ Cardinality(Claims) \in Nat
    BY <1>2, <1>7, ReviewAssumption, FS_CardinalityType
  <2>2. \A k, m, n \in Nat : k * m \in Nat /\ (m <= n => k * m <= k * n)
    OBVIOUS
  <2>3. Cardinality(Claims) * Cardinality(T) <= Cardinality(Claims) * Cardinality(S)
    BY <2>1, <2>2, NoMoreSubmissions
  <2>4. Cardinality(Claims) * Cardinality(T) \in Nat /\ Cardinality(Claims) * Cardinality(S) \in Nat
    BY <2>1, <2>2, NoMoreSubmissions
  <2>. QED
    BY <1>1, <1>2, <1>7, <2>1, <2>3, <2>4
<1>10. LET n == Summary(S, scores)
       IN  /\ n.received = Cardinality(R(ReviewDecision)) /\ n.semantic = Cardinality(R(Labels))
           /\ n.skipped = Cardinality(R({"SKIP"})) /\ n.conflicts = Cardinality(R({"CONFLICT"}))
           /\ n.assigned = Cardinality(Claims) * Cardinality(S)
  BY DEF R, Summary
<1>. QED
  BY <1>8, <1>9, <1>10

(* The claims that have a label, each under its label, and those excluded.   *)
LEMMA ClaimsAddUp ==
  ASSUME DiskInv, NEW S, NEW T, NEW adjudicated \in BOOLEAN,
         adjudicated => AdjudicationVerified(S, T),
         NEW scores, \A c \in Claims : scores[c] = ClaimScore(T, adjudicated, c)
  PROVE  LET n == Summary(S, scores)
         IN  /\ n.resolved + n.excluded = n.consensus + n.adjudicated
             /\ n.resolved = n.final["ENTAILED"] + n.final["CONTRADICTED"]
                             + n.final["NOT_ENOUGH_INFO"]
             /\ Blockers(S, T, scores) = {} => n.unresolved = 0
<1>. DEFINE resolved == {c \in Claims : scores[c].final # None}
            excluded == {c \in Claims : scores[c].excluded}
            agreed == {c \in Claims : scores[c].status = "CONSENSUS"}
            ruled == {c \in Claims : scores[c].ruling # None}
            labelled(l) == {c \in Claims : scores[c].final = l}
<1>c. \A c \in Claims :
        LET s == scores[c]
        IN  /\ s.final \in Labels \cup {None} /\ ~ (s.excluded /\ s.final # None)
            /\ ~ (s.status = "CONSENSUS" /\ s.ruling # None)
            /\ (s.excluded \/ s.final # None) <=> (s.status = "CONSENSUS" \/ s.ruling # None)
  <2>. SUFFICES ASSUME NEW c \in Claims
                PROVE  LET s == ClaimScore(T, adjudicated, c)
                       IN  /\ s.final \in Labels \cup {None} /\ ~ (s.excluded /\ s.final # None)
                           /\ ~ (s.status = "CONSENSUS" /\ s.ruling # None)
                           /\ (s.excluded \/ s.final # None)
                                <=> (s.status = "CONSENSUS" \/ s.ruling # None)
    OBVIOUS
  <2>. QED
    BY ZenonT(40), ScoreCases
<1>1. \A X \in SUBSET Claims : IsFiniteSet(X) /\ Cardinality(X) \in Nat
  BY ReviewAssumption, FS_Subset, FS_CardinalityType
<1>2. /\ resolved \cup excluded = agreed \cup ruled
      /\ resolved \cap excluded = {} /\ agreed \cap ruled = {}
  BY <1>c
<1>3. resolved = (labelled("ENTAILED") \cup labelled("CONTRADICTED")) \cup labelled("NOT_ENOUGH_INFO")
  BY <1>c, NoneIsNoLabel DEF Labels
<1>4. /\ resolved \in SUBSET Claims /\ excluded \in SUBSET Claims
      /\ agreed \in SUBSET Claims /\ ruled \in SUBSET Claims
      /\ \A l : labelled(l) \in SUBSET Claims
      /\ \A k, l : k # l => labelled(k) \cap labelled(l) = {}
  OBVIOUS
<1>5. Blockers(S, T, scores) = {} => resolved \cup excluded = Claims
  <2>1. Blockers(S, T, scores) = {} => "UNRESOLVED_CLAIMS" \notin Blockers(S, T, scores)
    OBVIOUS
  <2>. QED
    BY <2>1 DEF Blockers
<1>6. LET n == Summary(S, scores)
      IN  /\ n.resolved = Cardinality(resolved) /\ n.excluded = Cardinality(excluded)
          /\ n.consensus = Cardinality(agreed) /\ n.adjudicated = Cardinality(ruled)
          /\ n.unresolved = Cardinality(Claims) - n.resolved - n.excluded
          /\ \A l \in Labels : n.final[l] = Cardinality(labelled(l))
  BY DEF Summary
<1>. HIDE DEF resolved, excluded, agreed, ruled, labelled
<1>7. /\ Cardinality(resolved \cup excluded) = Cardinality(resolved) + Cardinality(excluded)
      /\ Cardinality(agreed \cup ruled) = Cardinality(agreed) + Cardinality(ruled)
  BY <1>1, <1>2, <1>4, DisjointCount
<1>8. Cardinality(resolved) = Cardinality(labelled("ENTAILED")) + Cardinality(labelled("CONTRADICTED"))
                              + Cardinality(labelled("NOT_ENOUGH_INFO"))
  <2>. DEFINE two == labelled("ENTAILED") \cup labelled("CONTRADICTED")
  <2>1. two \in SUBSET Claims /\ two \cap labelled("NOT_ENOUGH_INFO") = {}
    BY <1>4
  <2>2. Cardinality(two) = Cardinality(labelled("ENTAILED")) + Cardinality(labelled("CONTRADICTED"))
    BY <1>1, <1>4, DisjointCount
  <2>. HIDE DEF two
  <2>3. Cardinality(two \cup labelled("NOT_ENOUGH_INFO"))
          = Cardinality(two) + Cardinality(labelled("NOT_ENOUGH_INFO"))
    BY <1>1, <1>4, <2>1, DisjointCount
  <2>. QED
    BY <1>3, <2>2, <2>3 DEF two
<1>. DEFINE n == Summary(S, scores)
<1>9. n.resolved + n.excluded = n.consensus + n.adjudicated
  BY <1>2, <1>6, <1>7
<1>10. n.resolved = n.final["ENTAILED"] + n.final["CONTRADICTED"] + n.final["NOT_ENOUGH_INFO"]
  BY <1>6, <1>8 DEF Labels
<1>11. Blockers(S, T, scores) = {} => n.unresolved = 0
  <2>. SUFFICES ASSUME Blockers(S, T, scores) = {} PROVE n.unresolved = 0
    OBVIOUS
  <2>1. Cardinality(Claims) = Cardinality(resolved) + Cardinality(excluded)
    BY <1>5, <1>7
  <2>2. Cardinality(resolved) \in Nat /\ Cardinality(excluded) \in Nat
    BY <1>1, <1>4
  <2>. QED
    BY <1>6, <2>1, <2>2
<1>. QED
  BY <1>9, <1>10, <1>11

(* The claims both labelled are counted, for each reviewer, by their labels. *)
LEMMA LabelsOfReviewer ==
  ASSUME NEW both \in SUBSET Claims, NEW i, \A c \in both : submission[i].rows[c] \in Labels
  PROVE  LET given(l) == Cardinality({c \in both : submission[i].rows[c] = l})
         IN  /\ given("ENTAILED") \in Nat /\ given("CONTRADICTED") \in Nat
             /\ given("NOT_ENOUGH_INFO") \in Nat
             /\ Cardinality(both)
                  = given("ENTAILED") + given("CONTRADICTED") + given("NOT_ENOUGH_INFO")
<1>. DEFINE those(l) == {c \in both : submission[i].rows[c] = l}
            two == those("ENTAILED") \cup those("CONTRADICTED")
<1>1. \A X \in SUBSET both : IsFiniteSet(X) /\ Cardinality(X) \in Nat
  BY ReviewAssumption, FS_Subset, FS_CardinalityType
<1>2. /\ both = two \cup those("NOT_ENOUGH_INFO") /\ two \cap those("NOT_ENOUGH_INFO") = {}
      /\ those("ENTAILED") \cap those("CONTRADICTED") = {}
  BY DEF Labels
<1>3. two \in SUBSET both /\ \A l : those(l) \in SUBSET both
  OBVIOUS
<1>. HIDE DEF those
<1>4. Cardinality(two) = Cardinality(those("ENTAILED")) + Cardinality(those("CONTRADICTED"))
  BY <1>1, <1>2, <1>3, DisjointCount
<1>. HIDE DEF two
<1>5. Cardinality(both) = Cardinality(two) + Cardinality(those("NOT_ENOUGH_INFO"))
  BY <1>1, <1>2, <1>3, DisjointCount
<1>. QED
  BY <1>1, <1>3, <1>4, <1>5 DEF those

(* Expected agreement cannot exceed the square of the number of claims.      *)
LEMMA ExpectedIsBounded ==
  ASSUME NEW a \in Nat, NEW b \in Nat, NEW c \in Nat,
         NEW x \in Nat, NEW y \in Nat, NEW z \in Nat
  PROVE  /\ a * x + b * y + c * z \in Nat
         /\ a * x + b * y + c * z <= (a + b + c) * (x + y + z)
<1>1. (a + b + c) * (x + y + z)
        = a * x + b * y + c * z + (a * y + a * z + b * x + b * z + c * x + c * y)
  OBVIOUS
<1>2. \A p, q \in Nat : p * q \in Nat
  OBVIOUS
<1>3. /\ a * x \in Nat /\ b * y \in Nat /\ c * z \in Nat
      /\ a * y \in Nat /\ a * z \in Nat /\ b * x \in Nat
      /\ b * z \in Nat /\ c * x \in Nat /\ c * y \in Nat
  BY <1>2
<1>. QED
  BY <1>1, <1>3

LEMMA KappaBounded ==
  ASSUME DiskInv, NEW S \in SUBSET Slots, NEW T \in SUBSET Slots, SubmissionsVerified(S, T),
         NEW claims, \A c \in Claims : claims[c].decisions = Decoded(T, c), Kappa(T) # None
  PROVE  KappaIsBounded(Kappa(T), claims)
<1>. DEFINE both == {c \in Claims : DecisionsOn(T, c) \subseteq Labels}
            alike == {c \in both : Cardinality(DecisionsOn(T, c)) = 1}
            n == Cardinality(both)
            same == Cardinality(alike)
            first == CHOOSE i \in T : TRUE
            second == CHOOSE i \in T : i # first
            given(i, l) == Cardinality({c \in both : submission[i].rows[c] = l})
            expected(l) == given(first, l) * given(second, l)
            chance == expected("ENTAILED") + expected("CONTRADICTED") + expected("NOT_ENOUGH_INFO")
<1>1. /\ Cardinality(T) = 2 /\ n # 0 /\ chance # n * n
      /\ Kappa(T) = [num |-> same * n - chance, den |-> n * n - chance]
  BY DEF Kappa
<1>2. first \in T /\ second \in T
  <2>1. \E x, y \in T : x # y
    <3>1. IsFiniteSet(T)
      BY ReviewAssumption, FS_Subset
    <3>2. Cardinality(T) = 2
      BY <1>1
    <3>. HIDE DEF both, alike, n, same, first, second, given, expected, chance
    <3>. QED
      BY SMTT(60), <3>1, <3>2, PairIsTwo
  <2>. QED
    BY <2>1
<1>3. n \in Nat /\ same \in Nat /\ same <= n /\ (same = n => alike = both)
  <2>1. both \in SUBSET Claims /\ alike \in SUBSET both
    OBVIOUS
  <2>. HIDE DEF both, alike
  <2>. QED
    BY <2>1, ReviewAssumption, FS_Subset, FS_CardinalityType
<1>4. chance \in Nat /\ chance <= n * n
  <2>1. \A i \in T : \A c \in both : submission[i].rows[c] \in Labels
    BY DecodedGives
  <2>2. both \in SUBSET Claims
    OBVIOUS
  <2>. HIDE DEF both
  <2>3. \A i \in T : /\ given(i, "ENTAILED") \in Nat /\ given(i, "CONTRADICTED") \in Nat
                     /\ given(i, "NOT_ENOUGH_INFO") \in Nat
                     /\ n = given(i, "ENTAILED") + given(i, "CONTRADICTED")
                            + given(i, "NOT_ENOUGH_INFO")
    BY <2>1, <2>2, LabelsOfReviewer
  <2>. HIDE DEF given, n, first, second
  <2>. QED
    BY <1>2, <2>3, ExpectedIsBounded
<1>5. \A k, m \in Nat : /\ k * m \in Nat /\ (k <= m => k * m <= m * m)
                        /\ (m # 0 /\ k * m = m * m => k = m)
  OBVIOUS
<1>6. /\ n * n - chance > 0 /\ same * n - chance <= n * n - chance
      /\ same * n - chance = n * n - chance => same = n
  <2>. HIDE DEF n, same, chance
  <2>1. n * n \in Nat /\ same * n \in Nat /\ same * n <= n * n
    BY <1>3, <1>5
  <2>. QED
    BY <1>1, <1>3, <1>4, <1>5, <2>1
<1>7. ASSUME same = n, NEW c \in Claims, {d[2] : d \in claims[c].decisions} \subseteq Labels
      PROVE  Cardinality({d[2] : d \in claims[c].decisions}) = 1
  <2>1. {d[2] : d \in claims[c].decisions} = DecisionsOn(T, c)
    BY DEF DecisionsOn
  <2>2. c \in alike
    BY <1>3, <1>7, <2>1
  <2>. QED
    BY <2>1, <2>2
<1>. HIDE DEF n, same, chance
<1>. QED
  BY <1>1, <1>6, <1>7 DEF KappaIsBounded

LEMMA ScoreAddsUp ==
  ASSUME DiskInv, Score
  PROVE  ScoresAddUp'
<1>1. PICK S \in SUBSET Slots, T \in SUBSET Slots, adjudicated \in BOOLEAN :
        /\ PackagesVerified(S) /\ SubmissionsVerified(S, T)
        /\ adjudicated => AdjudicationVerified(S, T)
        /\ report' = Report(S, T, adjudicated,
                            [c \in Claims |-> ClaimScore(T, adjudicated, c)])
  BY DEF Score
<1>2. PICK scores : scores = [c \in Claims |-> ClaimScore(T, adjudicated, c)]
  OBVIOUS
<1>3. /\ report'.claims = scores /\ report'.summary = Summary(S, scores)
      /\ report'.kappa = Kappa(T) /\ report'.blockers = Blockers(S, T, scores)
  BY <1>1, <1>2 DEF Report
<1>4. \A c \in Claims : /\ scores[c] = ClaimScore(T, adjudicated, c)
                        /\ scores[c].decisions = Decoded(T, c)
  BY <1>2 DEF ClaimScore
<1>. DEFINE n == Summary(S, scores)
<1>a. n.received = n.semantic + n.skipped + n.conflicts /\ n.received <= n.assigned
  BY <1>1, <1>4, RatingsAddUp
<1>b. /\ n.resolved + n.excluded = n.consensus + n.adjudicated
      /\ n.resolved = n.final["ENTAILED"] + n.final["CONTRADICTED"] + n.final["NOT_ENOUGH_INFO"]
      /\ Blockers(S, T, scores) = {} => n.unresolved = 0
  <2>1. adjudicated => AdjudicationVerified(S, T)
    BY <1>1
  <2>2. \A c \in Claims : scores[c] = ClaimScore(T, adjudicated, c)
    BY <1>4
  <2>. QED
    BY <2>1, <2>2, ClaimsAddUp, Zenon
<1>. HIDE DEF n
<1>5. CountsAddUp(report'.summary)
  BY <1>3, <1>a, <1>b DEF CountsAddUp, n
<1>6. report'.blockers = {} => report'.summary.unresolved = 0
  BY <1>3, <1>b DEF n
<1>7. report'.kappa # None => KappaIsBounded(report'.kappa, report'.claims)
  BY <1>1, <1>3, <1>4, KappaBounded
<1>. QED
  BY <1>5, <1>6, <1>7 DEF ScoresAddUp, FormallyComplete, CountsAddUp, KappaIsBounded

-----------------------------------------------------------------------------
(* The invariant.                                                            *)

ReviewInv ==
  DiskInv /\ CompleteMeansJudged /\ ReportIsOfOneSource /\ JudgedInOrder /\ ScoresAddUp

(* Nothing is read into a report that was not verified before, and a report  *)
(* is not touched again.                                                     *)
LEMMA ReportStep == ASSUME ReviewInv, [Next]_vars PROVE ReviewInv'
<1>1. DiskInv'
  BY DiskStep DEF ReviewInv
<1>2. ASSUME Score PROVE ReviewInv'
  BY <1>1, <1>2, ScoreMeansJudged, ScoreIsOfOneSource, ScoreIsInOrder, ScoreAddsUp DEF ReviewInv
<1>3. ASSUME UNCHANGED report PROVE ReviewInv'
  BY <1>1, <1>3 DEF ReviewInv, CompleteMeansJudged, ReportIsOfOneSource, JudgedInOrder,
     ScoresAddUp, FormallyComplete, CountsAddUp, KappaIsBounded
<1>. QED
  BY <1>2, <1>3 DEF Next, vars, BuildSource, BuildReviewPackage, BuildReviewWorksheet,
     CompileReview, FinishPair, PairFails, PairKilled, BuildAdjudicationPackage,
     BuildAdjudicationWorksheet, CompileAdjudication, Tick

(* Whatever is rebuilt, written by half or dated wrongly, the files on disk  *)
(* and the report computed from them stay as the invariant says.             *)
THEOREM ReviewInvariant == Spec => []ReviewInv
<1>1. Init => ReviewInv
  BY DiskInit DEF Init, ReviewInv, CompleteMeansJudged, ReportIsOfOneSource, JudgedInOrder,
     ScoresAddUp
<1>. QED
  BY <1>1, ReportStep, PTL DEF Spec

(* The files keep their types, and the public dispute package names neither  *)
(* its source nor who said what (build_blind_adjudication_package).          *)
THEOREM FilesAreTyped == Spec => []TypeOK
BY ReviewInvariant, PTL DEF ReviewInv, DiskInv

(* A COMPLETE report has two decisions by two people on every claim, which   *)
(* agree or were decided by a third (evaluate_entailment_reviews).           *)
THEOREM CompleteIsJudged == Spec => []CompleteMeansJudged
BY ReviewInvariant, PTL DEF ReviewInv

(* Every file of a report was derived from the one source it names           *)
(* (_verify_package_mapping, _verify_blind_adjudication).                    *)
THEOREM ReportOfOneSource == Spec => []ReportIsOfOneSource
BY ReviewInvariant, PTL DEF ReviewInv

(* The timestamps of a report's files are in the order of the work           *)
(* (compile_review_submission, compile_adjudication_submission).             *)
THEOREM OrderOfJudging == Spec => []JudgedInOrder
BY ReviewInvariant, PTL DEF ReviewInv

(* The counts of a report balance and kappa is at most one                   *)
(* (evaluate_entailment_reviews, _agreement_metrics).                        *)
THEOREM BooksBalance == Spec => []ScoresAddUp
BY ReviewInvariant, PTL DEF ReviewInv
=============================================================================
