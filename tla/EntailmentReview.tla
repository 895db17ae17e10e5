-------------------------- MODULE EntailmentReview --------------------------
(***************************************************************************)
(* The offline human review of answers: two reviewers label every claim of *)
(* a frozen source blind, an adjudicator decides the claims they disagree  *)
(* about, and a coordinator scores the lot.  No process stays alive: each  *)
(* command reads some files, checks them against each other and writes one *)
(* file, or a public package and its private mapping one after the other.  *)
(* Everything that goes wrong goes wrong between commands: a file is built *)
(* again after others were derived from it, a pair is written by half, the *)
(* clock given on the command line is wrong, a person gets two roles.      *)
(*                                                                         *)
(* A SHA-256 is modelled as the document itself: two documents have the    *)
(* same hash exactly when they are equal.  Blind ids are functions of the  *)
(* package id and the claim, so a claim stands for its blind id inside one *)
(* package.  Paths are fixed: one file per slot and kind.                  *)
(***************************************************************************)
EXTENDS Integers, FiniteSets

CONSTANTS
    People,       \* pseudonyms; one person may be given several roles
    Slots,        \* review packages that may be handed out
    Adjudication, \* the slot of the dispute package
    Claims,       \* claims of a source
    Runs,         \* answer runs a source may be built from
    Times,        \* the hours of the clock
    Seeds,        \* values of --ordering-seed
    Fillings,     \* how a reviewer may fill the decisions of a worksheet
    Rulings,      \* how an adjudicator may decide a dispute
    MaxSlips,     \* bound: commands that overwrite, or are given a wrong time
    None

Labels == {"ENTAILED", "CONTRADICTED", "NOT_ENOUGH_INFO"}
ReviewDecision == Labels \cup {"SKIP", "CONFLICT"}
AdjudicationDecision == Labels \cup {"EXCLUDE"}

ASSUME ReviewAssumption ==
    /\ Adjudication \notin Slots
    /\ IsFiniteSet(Slots) /\ IsFiniteSet(Claims)
    /\ Times \subseteq Nat /\ MaxSlips \in Nat
    /\ Fillings \subseteq [Claims -> ReviewDecision \cup {None}]
    /\ Rulings \subseteq AdjudicationDecision \cup {None}
    /\ None \notin ReviewDecision \cup AdjudicationDecision \cup People

VARIABLES
    source,     \* the frozen claims, named by the answer run they are of
    package,    \* per slot, the public package
    mapping,    \* per slot, the private mapping
    worksheet,  \* per slot, the worksheet [package, at]
    submission, \* per slot, the compiled submission
    pairing,    \* a package just published whose mapping is not yet
    report,     \* the scored report
    now,        \* the clock
    slips       \* overwriting commands and wrong times so far

vars == <<source, package, mapping, worksheet, submission, pairing, report, now, slips>>
Files == Slots \cup {Adjudication}

-----------------------------------------------------------------------------
(* Publishing                                                              *)

\* _atomic_write: a temporary file is linked into place, which fails if the
\* path exists, or with --overwrite replaces what is there.
\* A timestamp is the current time, unless --generated-at, --created-at or
\* --submitted-at gives another.
Publishes(old, at) ==
    /\ slips' = slips + (IF old = None THEN 0 ELSE 1) + (IF at = now THEN 0 ELSE 1)
    /\ slips' <= MaxSlips
    /\ UNCHANGED now

\* Nothing in this workflow reads the report, so the model stops there.
Open == report = None

\* _atomic_write_pair, first half: the package is in place, its mapping is not.
\* Without --overwrite neither may exist.
StartsPair(f, public, private) ==
    /\ pairing = None
    /\ Publishes(IF package[f] = None THEN mapping[f] ELSE package[f], public.at)
    /\ package' = [package EXCEPT ![f] = public]
    /\ pairing' = [file |-> f, private |-> private,
                    overwrite |-> package[f] # None \/ mapping[f] # None]

FinishPair ==
    /\ Open /\ pairing # None
    /\ mapping' = [mapping EXCEPT ![pairing.file] = pairing.private]
    /\ pairing' = None
    /\ UNCHANGED <<source, package, worksheet, submission, report, now, slips>>

\* The mapping cannot be written: a package that was created is removed again,
\* one that replaced another stays, next to the mapping of the other.
PairFails ==
    /\ Open /\ pairing # None
    /\ package' = IF pairing.overwrite THEN package
                  ELSE [package EXCEPT ![pairing.file] = None]
    /\ pairing' = None
    /\ UNCHANGED <<source, mapping, worksheet, submission, report, now, slips>>

\* The command is killed between the two writes and undoes nothing.
PairKilled ==
    /\ Open /\ pairing # None
    /\ pairing' = None
    /\ UNCHANGED <<source, package, mapping, worksheet, submission, report, now, slips>>

-----------------------------------------------------------------------------
(* The source                                                              *)

\* A checkpoint of the answer run: the run it is of, whether its question
\* phase completed, and the claims whose cited text is among its candidates.
Checkpoints == [run : Runs, complete : BOOLEAN, texts : SUBSET Claims]

\* Outcome and provenance of every question must be those of the prediction.
ProvenanceAgrees(prediction, raw) == raw.run = prediction

\* The texts the checkpoints supply, each of them a completed one.
CandidateCatalog(checkpoints) == UNION {k.texts : k \in checkpoints}

SourceAccepted(prediction, raw, evidence) ==
    /\ ProvenanceAgrees(prediction, raw)
    /\ \A k \in {raw} \cup evidence : k.complete
    /\ Claims \subseteq CandidateCatalog({raw} \cup evidence)

\* scripts/build_entailment_source.py
BuildSource ==
    /\ Open /\ Publishes(source, now)
    /\ source' \in {prediction \in Runs :
                      \E raw, k \in Checkpoints : \E evidence \in {{}, {k}} :
                        SourceAccepted(prediction, raw, evidence)}
    /\ UNCHANGED <<package, mapping, worksheet, submission, pairing, report>>

-----------------------------------------------------------------------------
(* The blind review                                                        *)

\* Package and mapping carry the same header; the mapping adds the identities.
BlindPackage(s, q, seed, at) == [source |-> s, person |-> q, seed |-> seed, at |-> at]

\* package_id: everything but the timestamp, so that a package built again
\* with the same seed keeps its id and changes its bytes.
PackageId(p) == <<p.source, p.person, p.seed>>

\* scripts/build_entailment_review_package.py
BuildReviewPackage(i) ==
    /\ Open /\ source # None
    /\ \E q \in People, seed \in Seeds, at \in Times :
         LET p == BlindPackage(source, q, seed, at)
         IN  StartsPair(i, p, p)
    /\ UNCHANGED <<source, mapping, worksheet, submission, report>>

\* A worksheet is refused to anyone but the person the package is assigned to
\* and cannot predate its package.  Its rows start empty and are edited in the
\* file; the edits matter, and are chosen, when a command reads them.
Worksheet(p, at) == [package |-> p, at |-> at]
MayDraw(p, q, at) == p # None /\ p.person = q /\ at >= p.at

\* scripts/build_entailment_review_worksheet.py
BuildReviewWorksheet(i) ==
    /\ Open
    /\ \E q \in People, at \in Times :
         /\ MayDraw(package[i], q, at)
         /\ worksheet' = [worksheet EXCEPT ![i] = Worksheet(package[i], at)]
         /\ Publishes(worksheet[i], at)
    /\ UNCHANGED <<source, package, mapping, submission, pairing, report>>

\* Mistaken: the attestation may predate the completed worksheet.
ReviewCompilesBackdated(p, w, q, at, rows) ==
    /\ p # None /\ w # None
    /\ w.package = p /\ p.person = q /\ w.at >= p.at
    /\ DOMAIN rows = Claims /\ \A c \in Claims : rows[c] # None

\* compile_review_submission: attestation and submission have one timestamp;
\* a row is None that has no decision, or a SKIP or CONFLICT and no rationale.
ReviewCompiles(p, w, q, at, rows) ==
    /\ p # None /\ w # None
    /\ w.package = p /\ p.person = q
    /\ w.at >= p.at /\ at >= w.at
    /\ DOMAIN rows = Claims /\ \A c \in Claims : rows[c] # None

\* `drawn`, the time of the worksheet, is not in the file: it is kept for the
\* properties.
Submission(w, q, at, rows) ==
    [package |-> w.package, person |-> q, at |-> at, rows |-> rows, drawn |-> w.at]

\* scripts/compile_entailment_submission.py, run by the reviewer who has just
\* filled the worksheet.
CompileReview(i) ==
    /\ Open
    /\ \E q \in People, at \in Times, rows \in Fillings :
         /\ ReviewCompiles(package[i], worksheet[i], q, at, rows)
         /\ submission' = [submission EXCEPT ![i] = Submission(worksheet[i], q, at, rows)]
         /\ Publishes(submission[i], at)
    /\ UNCHANGED <<source, package, mapping, worksheet, pairing, report>>

-----------------------------------------------------------------------------
(* Verifying the reviews: S are the slots whose packages and mappings are  *)
(* handed in, T those whose submissions are.                               *)

\* Mistaken: packages are checked against their mappings only.
PackagesOfAnySource(S) ==
    /\ S # {} /\ source # None
    /\ \A i \in S : package[i] # None /\ mapping[i] # None
    /\ \A i, j \in S : i # j => PackageId(package[i]) # PackageId(package[j])
    /\ {PackageId(package[i]) : i \in S} = {PackageId(mapping[i]) : i \in S}

\* _verify_package_mapping; packages and mappings meet by id, not by position.
PackagesVerified(S) ==
    /\ S # {} /\ source # None
    /\ \A i \in S : package[i] # None /\ mapping[i] # None
    /\ \A i, j \in S : i # j => /\ PackageId(package[i]) # PackageId(package[j])
                                /\ PackageId(mapping[i]) # PackageId(mapping[j])
    /\ {PackageId(package[i]) : i \in S} = {PackageId(mapping[i]) : i \in S}
    /\ \A i \in S : package[i].source = source

\* A submission must be of a package handed in, byte for byte, by the person
\* it is assigned to, not earlier than the package; nobody submits twice and
\* no package is submitted twice.
SubmissionsVerified(S, T) ==
    /\ \A i \in T : /\ submission[i] # None
                    /\ \E j \in S : /\ submission[i].package = package[j]
                                    /\ submission[i].person = package[j].person
                                    /\ submission[i].at >= package[j].at
    /\ \A i, j \in T : i # j => /\ submission[i].person # submission[j].person
                                /\ submission[i].package # submission[j].package

\* What each reviewer said of a claim.
Decoded(T, c) == {<<submission[i].person, submission[i].rows[c]>> : i \in T}
DecisionsOn(T, c) == {d[2] : d \in Decoded(T, c)}

\* Mistaken: an abstention does not stand in the way of the other's label.
ConsensusOfLabels(T, c) ==
    IF \E l \in Labels : DecisionsOn(T, c) \cap Labels = {l}
    THEN CHOOSE l \in Labels : l \in DecisionsOn(T, c) ELSE None

\* _strict_two_review_consensus
Consensus(T, c) ==
    IF Cardinality(Decoded(T, c)) = 2 /\ \E l \in Labels : DecisionsOn(T, c) = {l}
    THEN CHOOSE l \in Labels : DecisionsOn(T, c) = {l}
    ELSE None

Disputed(T) == {c \in Claims : Cardinality(Decoded(T, c)) = 2 /\ Consensus(T, c) = None}

\* _review_bundle_sha256: the exact files an adjudication is about.
Bundle(S, T) == {<<"package", package[i]>> : i \in S}
                \cup {<<"mapping", mapping[i]>> : i \in S}
                \cup {<<"submission", submission[i]>> : i \in T}

-----------------------------------------------------------------------------
(* The adjudication                                                        *)

\* Mistaken: the decisions are shown with their authors.
DisputePackageSigned(T, q, seed, at) ==
    [person |-> q, seed |-> seed, at |-> at,
     items |-> [c \in Disputed(T) |-> Decoded(T, c)]]

\* The public package shows each disputed claim with the two decisions, in no
\* order and without their authors; two decisions are told by their set.
DisputePackage(T, q, seed, at) ==
    [person |-> q, seed |-> seed, at |-> at,
     items |-> [c \in Disputed(T) |-> DecisionsOn(T, c)]]

MayAdjudicate(S, T, q, at) ==
    /\ PackagesVerified(S) /\ SubmissionsVerified(S, T)
    /\ Cardinality(S) = 2 /\ Cardinality(T) = 2
    /\ q \notin {submission[i].person : i \in T}
    /\ \A i \in T : at >= submission[i].at
    /\ Disputed(T) # {}

\* scripts/build_entailment_adjudication_package.py
BuildAdjudicationPackage ==
    /\ Open
    /\ \E S, T \in SUBSET Slots, q \in People, seed \in Seeds, at \in Times :
         /\ MayAdjudicate(S, T, q, at)
         /\ LET p == DisputePackage(T, q, seed, at)
            IN  StartsPair(Adjudication, p,
                           [package |-> p, source |-> source, bundle |-> Bundle(S, T)])
    /\ UNCHANGED <<source, mapping, worksheet, submission, report>>

AdjudicationWorksheet(p, at) == [package |-> p, at |-> at]

\* scripts/build_entailment_adjudication_worksheet.py
BuildAdjudicationWorksheet ==
    /\ Open
    /\ \E q \in People, at \in Times :
         /\ MayDraw(package[Adjudication], q, at)
         /\ worksheet' = [worksheet EXCEPT ![Adjudication] =
                            AdjudicationWorksheet(package[Adjudication], at)]
         /\ Publishes(worksheet[Adjudication], at)
    /\ UNCHANGED <<source, package, mapping, submission, pairing, report>>

\* compile_adjudication_submission; a row is None that lacks its decision or
\* its rationale, which every decision needs here.
AdjudicationCompiles(p, w, q, at, rows) ==
    /\ p # None /\ w # None
    /\ w.package = p /\ p.person = q
    /\ w.at >= p.at /\ at >= w.at
    /\ DOMAIN rows = DOMAIN p.items /\ \A c \in DOMAIN rows : rows[c] # None

AdjudicationSubmission(w, q, at, rows) ==
    [package |-> w.package, person |-> q, at |-> at, rows |-> rows, drawn |-> w.at]

\* scripts/compile_entailment_adjudication_submission.py, run by the adjudicator
\* who has just filled the worksheet.
CompileAdjudication ==
    LET p == package[Adjudication]
        w == worksheet[Adjudication]
    IN  /\ Open /\ p # None
        /\ \E q \in People, at \in Times, rows \in [DOMAIN p.items -> Rulings] :
             /\ AdjudicationCompiles(p, w, q, at, rows)
             /\ submission' = [submission EXCEPT ![Adjudication] =
                                 AdjudicationSubmission(w, q, at, rows)]
             /\ Publishes(submission[Adjudication], at)
        /\ UNCHANGED <<source, package, mapping, worksheet, pairing, report>>

\* _verify_blind_adjudication
AdjudicationVerified(S, T) ==
    LET p == package[Adjudication]
        m == mapping[Adjudication]
        a == submission[Adjudication]
    IN  /\ p # None /\ m # None /\ a # None
        /\ m.package = p /\ a.package = p
        /\ m.source = source /\ m.bundle = Bundle(S, T)
        /\ a.person = p.person
        /\ a.person \notin {submission[i].person : i \in T}
        /\ \A i \in T : p.at >= submission[i].at
        /\ a.at >= p.at
        /\ DOMAIN p.items = Disputed(T)
        /\ \A c \in DOMAIN p.items : p.items[c] = DecisionsOn(T, c)

-----------------------------------------------------------------------------
(* Scoring                                                                 *)

\* The adjudicator's decision on a claim, if the adjudication was handed in.
Ruling(adjudicated, c) ==
    IF adjudicated /\ c \in DOMAIN submission[Adjudication].rows
    THEN submission[Adjudication].rows[c] ELSE None

AgreementStatus(T, adjudicated, c) ==
    LET ruling == Ruling(adjudicated, c)
        semantic == DecisionsOn(T, c) \cap Labels
    IN  CASE ruling = "EXCLUDE" -> "EXCLUDED"
          [] ruling \in Labels -> "ADJUDICATED"
          [] OTHER ->
               CASE "CONFLICT" \in DecisionsOn(T, c) -> "CONFLICT_FLAGGED"
                 [] "CONFLICT" \notin DecisionsOn(T, c) /\ Cardinality(semantic) > 1
                      -> "DISAGREEMENT"
                 [] OTHER ->
                      IF c \in Disputed(T) THEN "ADJUDICATION_REQUIRED"
                      ELSE IF Consensus(T, c) # None THEN "CONSENSUS"
                      ELSE IF Cardinality({d \in Decoded(T, c) : d[2] \in Labels}) = 1
                        THEN "SINGLE_RATING"
                      ELSE "NO_SEMANTIC_RATING"

\* Mistaken: a claim the adjudicator excluded keeps the label of the ruling.
ClaimScoreKeepingLabel(T, adjudicated, c) ==
    LET ruling == Ruling(adjudicated, c)
    IN  [decisions |-> Decoded(T, c), ruling |-> ruling,
         final |-> IF ruling = None THEN Consensus(T, c) ELSE ruling,
         excluded |-> ruling = "EXCLUDE", status |-> AgreementStatus(T, adjudicated, c)]

ClaimScore(T, adjudicated, c) ==
    LET ruling == Ruling(adjudicated, c)
    IN  [decisions |-> Decoded(T, c),
         ruling |-> ruling,
         final |-> IF ruling = None THEN Consensus(T, c)
                   ELSE IF ruling = "EXCLUDE" THEN None ELSE ruling,
         excluded |-> ruling = "EXCLUDE",
         status |-> AgreementStatus(T, adjudicated, c)]

\* _agreement_metrics: Cohen's kappa of two reviewers over the claims both
\* labelled, as a fraction, or None where it is undefined.
Kappa(T) ==
    LET both == {c \in Claims : DecisionsOn(T, c) \subseteq Labels}
        n == Cardinality(both)
        same == Cardinality({c \in both : Cardinality(DecisionsOn(T, c)) = 1})
        first == CHOOSE i \in T : TRUE
        second == CHOOSE i \in T : i # first
        given(i, l) == Cardinality({c \in both : submission[i].rows[c] = l})
        expected(l) == given(first, l) * given(second, l)
        chance == expected("ENTAILED") + expected("CONTRADICTED") + expected("NOT_ENOUGH_INFO")
    IN  IF Cardinality(T) # 2 \/ n = 0 \/ chance = n * n THEN None
        ELSE [num |-> same * n - chance, den |-> n * n - chance]

\* The ratings received whose decision is one of D, each with its claim; their
\* number is the sum the code takes over the claims.
Ratings(scores, D) ==
    UNION {{c} \X {d \in scores[c].decisions : d[2] \in D} : c \in Claims}

\* The counts of the summary.
Summary(S, scores) ==
    LET said(D) == Cardinality(Ratings(scores, D))
        those(P(_)) == Cardinality({c \in Claims : P(scores[c])})
        resolved == those(LAMBDA s : s.final # None)
        excluded == those(LAMBDA s : s.excluded)
    IN  [assigned |-> Cardinality(Claims) * Cardinality(S),
         received |-> said(ReviewDecision), semantic |-> said(Labels),
         skipped |-> said({"SKIP"}), conflicts |-> said({"CONFLICT"}),
         consensus |-> those(LAMBDA s : s.status = "CONSENSUS"),
         resolved |-> resolved, excluded |-> excluded,
         unresolved |-> Cardinality(Claims) - resolved - excluded,
         adjudicated |-> those(LAMBDA s : s.ruling # None),
         final |-> [l \in Labels |-> those(LAMBDA s : s.final = l)]]

\* The codes that keep a review from being formally complete.
Blockers(S, T, scores) ==
    LET received == Cardinality(Ratings(scores, ReviewDecision))
        ruled == {c \in Claims : scores[c].ruling # None}
    IN  {code \in {"REVIEW_PACKAGE_COUNT_NOT_2", "REVIEWER_COUNT_NOT_2",
                   "RECEIVED_RATING_COUNT_MISMATCH", "PER_CLAIM_REVIEW_COVERAGE_INCOMPLETE",
                   "ADJUDICATION_INCOMPLETE", "UNRESOLVED_CLAIMS"} :
           CASE code = "REVIEW_PACKAGE_COUNT_NOT_2" -> Cardinality(S) # 2
             [] code = "REVIEWER_COUNT_NOT_2" -> Cardinality(T) # 2
             [] code = "RECEIVED_RATING_COUNT_MISMATCH" ->
                  received # 2 * Cardinality(Claims)
             [] code = "PER_CLAIM_REVIEW_COVERAGE_INCOMPLETE" ->
                  \E c \in Claims : Cardinality(scores[c].decisions) # 2
             [] code = "ADJUDICATION_INCOMPLETE" ->
                  Cardinality(ruled) # Cardinality(Disputed(T))
             [] code = "UNRESOLVED_CLAIMS" ->
                  \E c \in Claims : scores[c].final = None /\ ~scores[c].excluded}

\* The report names every file it was computed from, the three of an
\* adjudication together or none of them.
Report(S, T, adjudicated, scores) ==
    [source |-> source,
     packages |-> {package[i] : i \in S}, mappings |-> {mapping[i] : i \in S},
     submissions |-> {submission[i] : i \in T},
     adjudication |-> IF adjudicated THEN submission[Adjudication] ELSE None,
     claims |-> scores, summary |-> Summary(S, scores), kappa |-> Kappa(T),
     blockers |-> Blockers(S, T, scores)]

\* A report is COMPLETE exactly when it lists no blocker.
FormallyComplete(r) == r.blockers = {}

\* scripts/score_entailment_review.py: the adjudication's three files are given
\* together or not at all; --require-complete publishes nothing else.  Scoring
\* while a pair is half written reads what it would read after PairKilled.
Score ==
    /\ Open /\ pairing = None
    /\ \E S, T \in SUBSET Slots, adjudicated, requireComplete \in BOOLEAN :
         /\ PackagesVerified(S) /\ SubmissionsVerified(S, T)
         /\ adjudicated => AdjudicationVerified(S, T)
         /\ LET r == Report(S, T, adjudicated,
                            [c \in Claims |-> ClaimScore(T, adjudicated, c)])
            IN  (requireComplete => FormallyComplete(r)) /\ report' = r
    /\ UNCHANGED <<source, package, mapping, worksheet, submission, pairing, now, slips>>

\* Time passes between commands.
Tick ==
    /\ Open
    /\ now' \in {t \in Times : t > now}
    /\ UNCHANGED <<source, package, mapping, worksheet, submission, pairing, report, slips>>

-----------------------------------------------------------------------------
Init ==
    /\ source = None /\ report = None /\ pairing = None
    /\ now \in {t \in Times : \A u \in Times : t <= u} /\ slips = 0
    /\ package = [f \in Files |-> None] /\ mapping = [f \in Files |-> None]
    /\ worksheet = [f \in Files |-> None] /\ submission = [f \in Files |-> None]

Next ==
    \/ BuildSource
    \/ \E i \in Slots : \/ BuildReviewPackage(i) \/ BuildReviewWorksheet(i)
                        \/ CompileReview(i)
    \/ FinishPair \/ PairFails \/ PairKilled
    \/ BuildAdjudicationPackage \/ BuildAdjudicationWorksheet
    \/ CompileAdjudication
    \/ Score \/ Tick

Spec == Init /\ [][Next]_vars

-----------------------------------------------------------------------------
(* Properties                                                              *)

\* A source is named by its run; its claims and their texts are Claims.
SemanticEntailmentSource == Runs
\* The header a package and its mapping share; the files derived from them.
Headers == [source : Runs, person : People, seed : Seeds, at : Times]
ReviewWorksheets == [package : Headers, at : Times]
ReviewSubmissions == [package : Headers, person : People, at : Times,
                      rows : [Claims -> ReviewDecision], drawn : Times]
ClaimAgreementStatus ==
    {"NO_SEMANTIC_RATING", "SINGLE_RATING", "CONSENSUS", "DISAGREEMENT", "CONFLICT_FLAGGED",
     "ADJUDICATION_REQUIRED", "ADJUDICATED", "EXCLUDED"}

\* The public dispute package: a claim, and the decisions given on it.
IsDisputePackage(p) ==
    /\ DOMAIN p = {"person", "seed", "at", "items"} /\ p.person \in People
    /\ \A c \in DOMAIN p.items : c \in Claims /\ p.items[c] \subseteq ReviewDecision
IsDisputeMapping(m) ==
    /\ DOMAIN m = {"package", "source", "bundle"} /\ m.source \in Runs
    /\ IsDisputePackage(m.package)
IsAdjudicationWorksheet(w) == IsDisputePackage(w.package) /\ w.at \in Times
IsAdjudication(a) ==
    /\ IsDisputePackage(a.package)
    /\ a.rows \in [DOMAIN a.package.items -> AdjudicationDecision]

\* Types of the files, and of what a report says of each claim; the public
\* dispute package names neither its source nor who said what.
TypeOK ==
    /\ source \in SemanticEntailmentSource \cup {None} /\ slips \in 0 .. MaxSlips /\ now \in Times
    /\ \A i \in Slots : /\ package[i] \in Headers \cup {None}
                        /\ mapping[i] \in Headers \cup {None}
                        /\ worksheet[i] \in ReviewWorksheets \cup {None}
                        /\ submission[i] \in ReviewSubmissions \cup {None}
    /\ package[Adjudication] # None => IsDisputePackage(package[Adjudication])
    /\ mapping[Adjudication] # None => IsDisputeMapping(mapping[Adjudication])
    /\ worksheet[Adjudication] # None => IsAdjudicationWorksheet(worksheet[Adjudication])
    /\ submission[Adjudication] # None => IsAdjudication(submission[Adjudication])
    /\ report # None => \A c \in Claims : report.claims[c].status \in ClaimAgreementStatus

\* A report that calls itself COMPLETE has, for every claim, two decisions by
\* two people; if they gave the same label that is the final one, otherwise a
\* third person, who was shown exactly those two decisions, decided it or
\* excluded it.  Nothing else can produce a final label.
CompleteMeansJudged ==
    (report # None /\ FormallyComplete(report)) =>
        \A c \in Claims :
          LET s == report.claims[c]
              said == {d[2] : d \in s.decisions}
              a == report.adjudication
          IN  /\ Cardinality({d[1] : d \in s.decisions}) = 2
              /\ \/ \E l \in Labels : said = {l} /\ s.final = l /\ s.ruling = None
                 \/ /\ a # None /\ a.person \notin {d[1] : d \in s.decisions}
                    /\ c \in DOMAIN a.package.items /\ a.package.items[c] = said
                    /\ s.ruling = a.rows[c]
                    /\ s.final = IF s.excluded THEN None ELSE a.rows[c]

\* Every file a report draws on was derived from the one source it names, and
\* each submission is decoded with the mapping made for its package, although
\* files may have been rebuilt, or written by half, at any moment in between.
ReportIsOfOneSource ==
    report # None =>
        /\ \A p \in report.packages : p.source = report.source
        /\ \A s \in report.submissions :
             /\ s.package \in report.packages
             /\ \E m \in report.mappings : PackageId(m) = PackageId(s.package)
        /\ report.adjudication # None =>
             \A c \in DOMAIN report.adjudication.package.items :
               report.adjudication.package.items[c]
                 = {s.rows[c] : s \in report.submissions}

\* The timestamps of a report's files are in the order the work was done in:
\* package, worksheet, submission, then the dispute package after both
\* submissions, its worksheet and its submission.
JudgedInOrder ==
    report # None =>
        /\ \A s \in report.submissions : s.package.at <= s.drawn /\ s.drawn <= s.at
        /\ report.adjudication # None =>
             LET a == report.adjudication
             IN  /\ \A s \in report.submissions : s.at <= a.package.at
                 /\ a.package.at <= a.drawn /\ a.drawn <= a.at

\* The counts of a summary: the ratings received are those that were labels,
\* skips and conflicts, and no more than were assigned; the claims with a label
\* are those the reviewers agreed on and those an adjudicator labelled, and
\* each is counted under its label.
CountsAddUp(n) ==
    /\ n.received = n.semantic + n.skipped + n.conflicts
    /\ n.received <= n.assigned
    /\ n.resolved + n.excluded = n.consensus + n.adjudicated
    /\ n.resolved = n.final["ENTAILED"] + n.final["CONTRADICTED"] + n.final["NOT_ENOUGH_INFO"]

\* Chance-corrected agreement is never above one, and is one only when the two
\* reviewers agreed on everything both of them labelled.
KappaIsBounded(k, claims) ==
    /\ k.den > 0 /\ k.num <= k.den
    /\ k.num = k.den =>
         \A c \in Claims : LET said == {d[2] : d \in claims[c].decisions}
                          IN  said \subseteq Labels => Cardinality(said) = 1

\* The books of a report balance, and a COMPLETE one leaves no claim open.
ScoresAddUp ==
    report # None =>
        /\ CountsAddUp(report.summary)
        /\ FormallyComplete(report) => report.summary.unresolved = 0
        /\ report.kappa # None => KappaIsBounded(report.kappa, report.claims)
=============================================================================
