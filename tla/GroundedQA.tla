------------------------------ MODULE GroundedQA ------------------------------
(***************************************************************************)
(* Audited question answering.  A caller asks with an idempotency key; the *)
(* first request under a key creates a run and executes it (retrieval,     *)
(* generation with bounded repairs, audit, persistence), every other one   *)
(* is answered from the run that exists.  Callers are concurrent, may be   *)
(* cancelled at any await, and their process may die.                      *)
(*                                                                         *)
(* Every action is one committed transaction or one call that leaves the   *)
(* service.  Model calls are numbered per run; the ledger of calls is      *)
(* written in sessions of its own, before the run's manifest names them.   *)
(***************************************************************************)
EXTENDS Integers, Sequences, FiniteSets

CONSTANTS
  Callers,     \* requests being served, each retried by its client at will
  Keys,        \* the idempotency keys of one tenant
  Requests,    \* what can be asked: question and configuration, by their hash
  MaxRepairs,  \* qa_max_audit_repairs
  NoRequest, NoAnswer

ASSUME RepairsAssumption == MaxRepairs \in Nat
ASSUME NoRequestAssumption == NoRequest \notin Requests

VARIABLES
  status,    \* review_runs.status of the run under each key, or "absent"
  request,   \* review_runs.request_hash
  manifest,  \* the calls in model_manifest["model_invocation_ids"]
  answer,    \* the GROUNDED_ANSWER artifact of the run
  trace,     \* run_events, in sequence_no order
  ledger,    \* the calls with a row in invocation_records
  calls,     \* how many calls were made to the model
  pc,        \* where each caller is
  asking,    \* the key and request it serves
  work,      \* what it holds in memory while it executes a run
  reply      \* what it last told its client

runVars == <<status, request, manifest, answer, trace>>
callVars == <<ledger, calls>>
vars == <<runVars, callVars, pc, asking, work, reply>>

---------------------------------------------------------------------------
Terminal == {"COMPLETED", "FAILED"}
Transitions ==
  [ RECEIVED   |-> {"AUTHORIZED", "FAILED"},
    AUTHORIZED |-> {"RETRIEVING", "FAILED"},
    RETRIEVING |-> {"GENERATING", "AUDITING", "FAILED"},
    GENERATING |-> {"AUDITING", "FAILED"},
    AUDITING   |-> {"GENERATING", "COMPLETED", "FAILED"} ]
Statuses == DOMAIN Transitions \union Terminal

\* A draft of an answer, from a call or (call 0) from an empty context; sound
\* if the audit, which decides from the draft, accepts it.
Draft == [call : Nat, sound : BOOLEAN]
ASSUME NoAnswerAssumption == NoAnswer \notin Draft
RejectedAlone == [call |-> 0, sound |-> FALSE]

Errors == {"ANSWER_AUDIT_FAILED", "QA_CALL_CANCELLED",
           "INVOCATION_ID_CONFLICT", "INVOCATION_AUDIT_PERSIST_FAILED",
           "GroundedQAOutputRejected", "LLMCallError", "UnhandledExecutionError"}

\* A trace entry: a transition, a failure with its cause, or a note.
StateChanged(from, to) == [type |-> "STATE_CHANGED", from |-> from, to |-> to]
Failed(from, error) == [type |-> "QA_EXECUTION_FAILED", from |-> from, to |-> error]
Note(type) == [type |-> type, from |-> "-", to |-> "-"]
NoteTypes == {"RUN_CREATED", "RETRIEVAL_COMPLETED", "ANSWER_GENERATION_REJECTED",
              "ANSWER_AUDIT_REJECTED", "ANSWER_AUDIT_COMPLETED", "ANSWER_PERSISTED"}
Entry == [type : NoteTypes \union {"STATE_CHANGED", "QA_EXECUTION_FAILED"},
          from : Statuses \union {"-"}, to : Statuses \union Errors \union {"-"}]

\* Holding callers have a run of their own; Gone ones lost it for good.
Executing == {"created", "authorized", "retrieving", "retrieved", "generating",
              "recording", "naming", "rejected", "drafted", "auditing"}
Marking == {"failing", "cancelled"}
Holding == Executing \union Marking \union {"replying", "failed"}
Gone == {"orphaned", "refused", "dead"}
Places == {"idle", "looking", "inserting"} \union Holding \union Gone

\* outcome of the last call, draft, output repairs of this round, audit repairs,
\* calls to be named by the manifest, and the error to be reported.
Fresh == [outcome |-> "none", draft |-> NoAnswer, retries |-> 0, repairs |-> 0,
          named |-> {}, error |-> "none"]
Work == [outcome : {"none", "drafted", "rejected", "failed"},
         draft : Draft \union {NoAnswer}, retries : Nat, repairs : Nat,
         named : SUBSET Nat, error : Errors \union {"none"}]

Asking == [key : Keys, request : Requests]
Plain(kind) == [kind |-> kind, answer |-> NoAnswer, error |-> "none"]
Answered(a) == [kind |-> "answered", answer |-> a, error |-> "none"]
Refused(e) == [kind |-> "failed", answer |-> NoAnswer, error |-> e]
Reply == [kind : {"none", "answered", "failed", "conflict", "busy", "cancelled",
                  "integrity"},
          answer : Draft \union {NoAnswer}, error : Errors \union {"none"}]

Key(c) == asking[c].key

Init ==
  /\ status = [k \in Keys |-> "absent"]
  /\ request = [k \in Keys |-> NoRequest]
  /\ manifest = [k \in Keys |-> {}]
  /\ answer = [k \in Keys |-> NoAnswer]
  /\ trace = [k \in Keys |-> <<>>]
  /\ ledger = [k \in Keys |-> {}]
  /\ calls = [k \in Keys |-> 0]
  /\ pc = [c \in Callers |-> "idle"]
  /\ asking \in [Callers -> Asking]
  /\ work = [c \in Callers |-> Fresh]
  /\ reply = [c \in Callers |-> Plain("none")]

Goto(c, place) == pc' = [pc EXCEPT ![c] = place]

Tell(c, r) ==
  /\ reply' = [reply EXCEPT ![c] = r]
  /\ work' = [work EXCEPT ![c] = Fresh]
  /\ Goto(c, "idle")
  /\ UNCHANGED asking

---------------------------------------------------------------------------
(* Reserving a run. *)

Ask(c, k, q) ==
  /\ pc[c] = "idle"
  /\ asking' = [asking EXCEPT ![c] = [key |-> k, request |-> q]]
  /\ reply' = [reply EXCEPT ![c] = Plain("none")]
  /\ Goto(c, "looking")
  /\ UNCHANGED <<runVars, callVars, work>>

\* The one failure of the trace, if it is its last entry and from a status that
\* can fail.
Failures(k) == {i \in 1..Len(trace[k]) : trace[k][i].type = "QA_EXECUTION_FAILED"}
ReplayableFailure(k) ==
  LET last == trace[k][Len(trace[k])]
  IN /\ Failures(k) = {Len(trace[k])}
     /\ last.from \in DOMAIN Transitions /\ "FAILED" \in Transitions[last.from]
     /\ last.to \in Errors

\* What a request is told of a run that exists already.
Existing(k, q) ==
  IF request[k] # q THEN Plain("conflict")
  ELSE IF status[k] = "COMPLETED" THEN Answered(answer[k])
  ELSE IF status[k] # "FAILED" THEN Plain("busy")
  ELSE IF ReplayableFailure(k) THEN Refused(trace[k][Len(trace[k])].to)
  ELSE Plain("integrity")

\* Mistaken: a request waits for a run under way instead of being told of it.
ReplayWhenSettled(c) ==
  /\ pc[c] = "looking" /\ status[Key(c)] \in Terminal
  /\ Tell(c, Existing(Key(c), asking[c].request))
  /\ UNCHANGED <<runVars, callVars>>

Replay(c) ==
  /\ pc[c] = "looking" /\ status[Key(c)] # "absent"
  /\ Tell(c, Existing(Key(c), asking[c].request))
  /\ UNCHANGED <<runVars, callVars>>

LookInVain(c) ==
  /\ pc[c] = "looking" /\ status[Key(c)] = "absent"
  /\ Goto(c, "inserting")
  /\ UNCHANGED <<runVars, callVars, asking, work, reply>>

\* The run is stored with its snapshot and first event, unless the unique key
\* was taken meanwhile; then the winner's run answers.
Insert(c) ==
  LET k == Key(c)
  IN /\ pc[c] = "inserting" /\ status[k] = "absent"
     /\ status' = [status EXCEPT ![k] = "RECEIVED"]
     /\ request' = [request EXCEPT ![k] = asking[c].request]
     /\ trace' = [trace EXCEPT ![k] = <<Note("RUN_CREATED")>>]
     /\ Goto(c, "created")
     /\ UNCHANGED <<manifest, answer, callVars, asking, work, reply>>

LoseRace(c) ==
  /\ pc[c] = "inserting" /\ status[Key(c)] # "absent"
  /\ Tell(c, Existing(Key(c), asking[c].request))
  /\ UNCHANGED <<runVars, callVars>>

---------------------------------------------------------------------------
(* Executing it. *)

\* Commit a transition the status machine allows, with notes before it.
Transit(k, notes, to) ==
  /\ to \in Transitions[status[k]]
  /\ status' = [status EXCEPT ![k] = to]
  /\ trace' = [trace EXCEPT ![k] = @ \o notes \o <<StateChanged(status[k], to)>>]

Noted(k, type) == /\ trace' = [trace EXCEPT ![k] = Append(@, Note(type))]
                  /\ UNCHANGED status

Stage(c, from, to, place) ==
  /\ pc[c] = from
  /\ Transit(Key(c), <<>>, to)
  /\ Goto(c, place)
  /\ UNCHANGED <<request, manifest, answer, callVars, asking, work, reply>>

\* Only a run nobody has claimed is executed.
Claim(c) == status[Key(c)] = "RECEIVED" /\ Stage(c, "created", "AUTHORIZED", "authorized")
StartRetrieval(c) == Stage(c, "authorized", "RETRIEVING", "retrieving")

Retrieve(c) ==
  /\ pc[c] = "retrieving"
  /\ Noted(Key(c), "RETRIEVAL_COMPLETED")
  /\ Goto(c, "retrieved")
  /\ UNCHANGED <<request, manifest, answer, callVars, asking, work, reply>>

StartGeneration(c) == Stage(c, "retrieved", "GENERATING", "generating")

\* Nothing was packed: the abstention needs no call and goes straight to audit,
\* and stays the same however often the audit rejects it.
Abstain(c, sound) ==
  /\ pc[c] = "retrieved"
  /\ Transit(Key(c), <<>>, "AUDITING")
  /\ work' = [work EXCEPT ![c].draft = [call |-> 0, sound |-> sound]]
  /\ Goto(c, "auditing")
  /\ UNCHANGED <<request, manifest, answer, callVars, asking, reply>>

\* A draft without a call: the rejected abstention once more or, if no model is
\* configured and the setting allows it, a quotation of the context, which is the
\* same however often it is rejected, by the audit or by the output checks.
DraftAlone(c) ==
  /\ pc[c] = "generating" /\ calls[Key(c)] = 0 /\ work[c].outcome = "none"
  /\ \E sound \in BOOLEAN :
       /\ work[c].draft = RejectedAlone => ~ sound
       /\ work' = [work EXCEPT ![c].draft = [call |-> 0, sound |-> sound]]
  /\ Goto(c, "drafted")
  /\ UNCHANGED <<runVars, callVars, asking, reply>>

QuoteRejected(c) ==
  /\ pc[c] = "generating" /\ calls[Key(c)] = 0 /\ work[c].draft = NoAnswer
  /\ work' = [work EXCEPT ![c].outcome = "rejected"]
  /\ Goto(c, "rejected")
  /\ UNCHANGED <<runVars, callVars, asking, reply>>

\* Nothing yet shows that the run goes without a model.
HasModel(c) == /\ work[c].draft # RejectedAlone
               /\ calls[Key(c)] = 0 => work[c].outcome = "none"

\* The model answers, is rejected by the output checks, or fails.
CallModel(c, outcome, sound) ==
  LET n == calls[Key(c)] + 1
  IN /\ pc[c] = "generating" /\ HasModel(c)
     /\ calls' = [calls EXCEPT ![Key(c)] = n]
     /\ work' = [work EXCEPT ![c].outcome = outcome,
                             ![c].draft = IF outcome = "drafted"
                                          THEN [call |-> n, sound |-> sound]
                                          ELSE NoAnswer]
     /\ Goto(c, "recording")
     /\ UNCHANGED <<runVars, ledger, asking, reply>>

\* Mistaken: the calls to be named are replaced, not extended, by each call.
RecordForgetsEarlierCalls(c) ==
  LET k == Key(c)
  IN /\ pc[c] = "recording"
     /\ ledger' = [ledger EXCEPT ![k] = @ \union {calls[k]}]
     /\ work' = [work EXCEPT ![c].named = {calls[k]}]
     /\ Goto(c, IF work[c].outcome = "drafted" THEN "drafted" ELSE "naming")
     /\ UNCHANGED <<runVars, calls, asking, reply>>

\* The call's ledger row is committed before anything is made of the call; the
\* manifest names the call with the next commit of the run's own session.
Record(c) ==
  LET k == Key(c)
  IN /\ pc[c] = "recording"
     /\ ledger' = [ledger EXCEPT ![k] = @ \union {calls[k]}]
     /\ work' = [work EXCEPT ![c].named = @ \union {calls[k]}]
     /\ Goto(c, IF work[c].outcome = "drafted" THEN "drafted" ELSE "naming")
     /\ UNCHANGED <<runVars, calls, asking, reply>>

Raise(c, error) == /\ work' = [work EXCEPT ![c].error = error]
                   /\ Goto(c, "failing")

\* No answer is made from a call whose ledger row could not be stored.
LedgerFails(c) ==
  /\ pc[c] = "recording"
  /\ \E error \in {"INVOCATION_ID_CONFLICT", "INVOCATION_AUDIT_PERSIST_FAILED"} :
       Raise(c, error)
  /\ UNCHANGED <<runVars, callVars, asking, reply>>

\* A call that gave no draft is named at once; its error is raised unless it
\* may be repaired.
NameCall(c) ==
  /\ pc[c] = "naming"
  /\ manifest' = [manifest EXCEPT ![Key(c)] = work[c].named]
  /\ IF work[c].outcome = "failed" THEN Raise(c, "LLMCallError")
     ELSE Goto(c, "rejected") /\ UNCHANGED work
  /\ UNCHANGED <<status, request, answer, trace, callVars, asking, reply>>

RejectOutput(c) ==
  /\ pc[c] = "rejected"
  /\ Noted(Key(c), "ANSWER_GENERATION_REJECTED")
  /\ IF work[c].retries >= MaxRepairs THEN Raise(c, "GroundedQAOutputRejected")
     ELSE /\ work' = [work EXCEPT ![c].retries = @ + 1]
          /\ Goto(c, "generating")
  /\ UNCHANGED <<request, manifest, answer, callVars, asking, reply>>

StartAudit(c) ==
  LET k == Key(c)
  IN /\ pc[c] = "drafted"
     /\ Transit(k, <<>>, "AUDITING")
     /\ manifest' = [manifest EXCEPT ![k] = work[c].named]
     /\ Goto(c, "auditing")
     /\ UNCHANGED <<request, answer, callVars, asking, work, reply>>

\* A rejected draft is repaired in a new round with output repairs of its own.
RepairDraft(c) ==
  /\ pc[c] = "auditing" /\ ~ work[c].draft.sound
  /\ work[c].repairs < MaxRepairs
  /\ Transit(Key(c), <<Note("ANSWER_AUDIT_REJECTED")>>, "GENERATING")
  /\ work' = [work EXCEPT ![c].repairs = @ + 1, ![c].retries = 0]
  /\ Goto(c, "generating")
  /\ UNCHANGED <<request, manifest, answer, callVars, asking, reply>>

RejectDraft(c) ==
  /\ pc[c] = "auditing" /\ ~ work[c].draft.sound
  /\ work[c].repairs >= MaxRepairs
  /\ Noted(Key(c), "ANSWER_AUDIT_REJECTED")
  /\ Raise(c, "ANSWER_AUDIT_FAILED")
  /\ UNCHANGED <<request, manifest, answer, callVars, asking, reply>>

\* The audited answer and the end of the run are one transaction.
Complete(c) ==
  LET k == Key(c)
  IN /\ pc[c] = "auditing" /\ work[c].draft.sound
     /\ answer' = [answer EXCEPT ![k] = work[c].draft]
     /\ Transit(k, <<Note("ANSWER_AUDIT_COMPLETED"), Note("ANSWER_PERSISTED")>>,
                "COMPLETED")
     /\ Goto(c, "replying")
     /\ UNCHANGED <<request, manifest, callVars, asking, work, reply>>

Respond(c) ==
  /\ pc[c] = "replying"
  /\ Tell(c, Answered(work[c].draft))
  /\ UNCHANGED <<runVars, callVars>>

---------------------------------------------------------------------------
(* Failures.  The open transaction is rolled back, and the run is marked in *)
(* a session of its own, shielded only when the caller was cancelled.       *)

\* Anything else that raises: retrieval, a provenance check, the database, or
\* the loss of the answer to the last commit.
Fail(c) ==
  /\ pc[c] \in Executing \union {"replying"}
  /\ Raise(c, "UnhandledExecutionError")
  /\ UNCHANGED <<runVars, callVars, asking, reply>>

\* Mistaken: whatever the run has become, it is marked.
MarkFailedEvenIfDone(k, error) ==
  /\ status' = [status EXCEPT ![k] = "FAILED"]
  /\ trace' = [trace EXCEPT ![k] = Append(@, Failed(status[k], error))]

\* A run that has ended is left alone.
MarkFailed(k, error) ==
  IF status[k] \in Terminal THEN UNCHANGED <<status, trace>>
  ELSE /\ status' = [status EXCEPT ![k] = "FAILED"]
       /\ trace' = [trace EXCEPT ![k] = Append(@, Failed(status[k], error))]

MarkError(c) ==
  /\ pc[c] = "failing"
  /\ MarkFailed(Key(c), work[c].error)
  /\ Goto(c, "failed")
  /\ UNCHANGED <<request, manifest, answer, callVars, asking, work, reply>>

Report(c) ==
  /\ pc[c] = "failed"
  /\ Tell(c, Refused(work[c].error))
  /\ UNCHANGED <<runVars, callVars>>

\* Mistaken: the cancellation is passed on and the run left as it is.
MarkCancelledByNobody(c) ==
  /\ pc[c] = "cancelled"
  /\ Tell(c, Plain("cancelled"))
  /\ UNCHANGED <<runVars, callVars>>

MarkCancelled(c) ==
  /\ pc[c] = "cancelled"
  /\ MarkFailed(Key(c), "QA_CALL_CANCELLED")
  /\ Tell(c, Plain("cancelled"))
  /\ UNCHANGED <<request, manifest, answer, callVars>>

\* Cancelled before it has a run of its own, a caller leaves nothing behind.
CancelEarly(c) ==
  /\ pc[c] \in {"looking", "inserting"}
  /\ Tell(c, Plain("cancelled"))
  /\ UNCHANGED <<runVars, callVars>>

\* Cancelled while it executes, it has the run marked.  The ledger row of a call
\* under way may still be written.
Cancel(c) ==
  LET k == Key(c)
  IN /\ pc[c] \in Executing \union {"replying"}
     /\ \/ UNCHANGED callVars
        \/ /\ pc[c] = "recording"
           /\ ledger' = [ledger EXCEPT ![k] = @ \union {calls[k]}]
           /\ UNCHANGED calls
        \/ /\ pc[c] = "generating" /\ HasModel(c)
           /\ calls' = [calls EXCEPT ![k] = @ + 1]
           /\ ledger' = [ledger EXCEPT ![k] = @ \union {calls[k] + 1}]
     /\ Goto(c, "cancelled")
     /\ UNCHANGED <<runVars, asking, work, reply>>

Leave(c, place) == /\ Goto(c, place)
                   /\ UNCHANGED <<runVars, callVars, asking, work, reply>>

\* Two awaits no handler covers: the end of the transaction that creates the
\* run, and the marking after an error.
CancelUncovered(c) == pc[c] \in {"created", "failing"} /\ Leave(c, "orphaned")

\* The database refuses the marking, or the process dies.
MarkRefused(c) == pc[c] \in Marking /\ Leave(c, "refused")
Die(c) == pc[c] \in Executing \union Marking /\ Leave(c, "dead")

---------------------------------------------------------------------------
Serve(c) ==
  \/ Replay(c) \/ LookInVain(c) \/ Insert(c) \/ LoseRace(c)
  \/ Claim(c) \/ StartRetrieval(c) \/ Retrieve(c) \/ StartGeneration(c)
  \/ \E sound \in BOOLEAN : Abstain(c, sound)
  \/ DraftAlone(c) \/ QuoteRejected(c)
  \/ \E sound \in BOOLEAN : CallModel(c, "drafted", sound)
  \/ \E outcome \in {"rejected", "failed"} : CallModel(c, outcome, FALSE)
  \/ Record(c) \/ NameCall(c) \/ LedgerFails(c) \/ RejectOutput(c) \/ StartAudit(c)
  \/ RepairDraft(c) \/ RejectDraft(c) \/ Complete(c) \/ Respond(c)
  \/ MarkError(c) \/ Report(c) \/ MarkCancelled(c)

Fault(c) == \/ Fail(c) \/ CancelEarly(c) \/ Cancel(c) \/ CancelUncovered(c)
            \/ MarkRefused(c) \/ Die(c)

Next == \E c \in Callers :
          \/ \E k \in Keys, q \in Requests : Ask(c, k, q)
          \/ Serve(c) \/ Fault(c)

Spec == Init /\ [][Next]_vars

\* The event loop goes on serving every caller; clients and faults may stop.
FairSpec == Spec /\ \A c \in Callers : WF_vars(Serve(c))

---------------------------------------------------------------------------
TypeOK ==
  /\ status \in [Keys -> Statuses \union {"absent"}]
  /\ request \in [Keys -> Requests \union {NoRequest}]
  /\ manifest \in [Keys -> SUBSET Nat]
  /\ answer \in [Keys -> Draft \union {NoAnswer}]
  /\ trace \in [Keys -> Seq(Entry)]
  /\ ledger \in [Keys -> SUBSET Nat]
  /\ calls \in [Keys -> Nat]
  /\ pc \in [Callers -> Places]
  /\ asking \in [Callers -> Asking]
  /\ work \in [Callers -> Work]
  /\ reply \in [Callers -> Reply]

\* A run is executed by one caller: no two hold it, however their lookups and
\* inserts interleave, and none holds one that is not stored for its request.
OneExecutor ==
  /\ \A c, d \in Callers : pc[c] \in Holding /\ pc[d] \in Holding /\ c # d
                           => Key(c) # Key(d)
  /\ \A c \in Callers : pc[c] \in Holding => /\ status[Key(c)] # "absent"
                                             /\ request[Key(c)] = asking[c].request

\* What a client was told stands: an answer is the stored one, of its request;
\* a failure is of a run that has ended, with the error that ended it unless
\* it had completed (the answer to its last commit was lost); and no failed run
\* is ever found damaged.
RepliesStand ==
  \A c \in Callers :
    LET r == reply[c]  k == Key(c)  end == trace[k][Len(trace[k])]
    IN /\ r.kind = "answered" => /\ status[k] = "COMPLETED"
                                 /\ request[k] = asking[c].request
                                 /\ r.answer = answer[k]
       /\ r.kind = "failed" => \/ status[k] = "COMPLETED"
                               \/ status[k] = "FAILED" /\ r.error = end.to
       /\ r.kind # "integrity"

\* The ledger runs ahead of the manifest, never behind it; a completed run has
\* named every call made for it, each one is in the ledger, and its answer
\* passed the audit and is from one of them.
CallsAccounted ==
  \A k \in Keys :
    /\ manifest[k] \subseteq ledger[k] /\ ledger[k] \subseteq 1..calls[k]
    /\ (answer[k] # NoAnswer) <=> (status[k] = "COMPLETED")
    /\ status[k] = "COMPLETED" => /\ manifest[k] = 1..calls[k]
                                  /\ answer[k].sound
                                  /\ answer[k].call \in {0} \union manifest[k]

\* Output repairs start again with each audit repair, so a question costs at
\* most the square of what the setting allows one round, whoever retries it.
CallsBounded == \A k \in Keys : calls[k] <= (MaxRepairs + 1) * (MaxRepairs + 1)

\* The first n entries of a trace lead from RECEIVED to status s: s is where
\* the last of them that moved the run moved it.
Moving(e) == e.type \in {"STATE_CHANGED", "QA_EXECUTION_FAILED"}
Target(e) == IF e.type = "STATE_CHANGED" THEN e.to ELSE "FAILED"
LeadsTo(es, n, s) ==
  \/ s = "RECEIVED" /\ \A i \in 1..n : ~ Moving(es[i])
  \/ \E i \in 1..n : /\ Moving(es[i]) /\ Target(es[i]) = s
                     /\ \A j \in (i + 1)..n : ~ Moving(es[j])

\* A trace that ends in status s, each move of which starts where the moves
\* before it lead.
Explains(es, s) ==
  /\ LeadsTo(es, Len(es), s)
  /\ \A n \in 1..Len(es) : Moving(es[n]) => LeadsTo(es, n - 1, es[n].from)

\* The status of a run is the one its events lead to; the failure, if any, is
\* the last event.
TraceExplainsStatus ==
  \A k \in Keys :
    IF trace[k] = <<>> THEN status[k] = "absent"
    ELSE /\ Explains(trace[k], status[k])
         /\ status[k] = "FAILED" => ReplayableFailure(k)

\* Every run ends, unless the caller that held it is gone: killed, refused by
\* the database, or cancelled where nothing handles it.
RunsEnd ==
  \A k \in Keys : status[k] # "absent" ~>
    \/ status[k] \in Terminal
    \/ \E c \in Callers : Key(c) = k /\ pc[c] \in Gone

\* Every request is answered, unless its caller is gone.
RequestsAnswered ==
  \A c \in Callers : pc[c] = "looking" ~> pc[c] \in {"idle"} \union Gone

---------------------------------------------------------------------------
(* The promise of the idempotency key. *)

OutcomeOf(k) ==
  CASE status[k] = "COMPLETED" -> Answered(answer[k])
    [] status[k] = "FAILED" -> Refused(trace[k][Len(trace[k])].to)
    [] OTHER -> Plain("none")
ToldOf(c) ==
  IF reply[c].kind \in {"answered", "failed"}
  THEN [key |-> Key(c), request |-> asking[c].request, says |-> reply[c]]
  ELSE [key |-> Key(c), request |-> asking[c].request, says |-> Plain("none")]

Promise == INSTANCE IdempotentAnswer WITH
  asked <- request,
  outcome <- [k \in Keys |-> OutcomeOf(k)],
  told <- [c \in Callers |-> ToldOf(c)],
  Answers <- [kind : {"answered"}, answer : Draft, error : {"none"}],
  Failings <- [kind : {"failed"}, answer : {NoAnswer}, error : Errors],
  Open <- Plain("none")

KeepsPromise == Promise!Spec
=============================================================================
