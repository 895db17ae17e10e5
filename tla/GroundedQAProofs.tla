--------------------------- MODULE GroundedQAProofs ---------------------------
(***************************************************************************)
(* Proofs about GroundedQA for any callers, keys and requests and any      *)
(* number of repairs: the run of a key, its trace, the replies, the        *)
(* promise of the key, and the calls to the model.                         *)
(***************************************************************************)
EXTENDS GroundedQA, TLAPS

\* A trace without a failure.
NoFailure(s) == \A i \in 1..Len(s) : s[i].type # "QA_EXECUTION_FAILED"

\* What is stored of a run agrees: it has an answer exactly when it completed,
\* and one failure, its last event, exactly when it failed.
RunInv(k) ==
  /\ status[k] = "absent" => request[k] = NoRequest /\ trace[k] = <<>>
  /\ status[k] # "absent" => request[k] \in Requests /\ trace[k] # <<>>
  /\ status[k] = "COMPLETED" => answer[k] \in Draft /\ answer[k].sound
  /\ status[k] # "COMPLETED" => answer[k] = NoAnswer
  /\ status[k] = "FAILED" => ReplayableFailure(k)
  /\ status[k] # "FAILED" => NoFailure(trace[k])

\* Where a holder is tells the status of its run and what it has in hand.
PlaceInv(c) ==
  LET s == status[Key(c)]  w == work[c]
  IN /\ pc[c] = "created" => s = "RECEIVED"
     /\ pc[c] = "authorized" => s = "AUTHORIZED"
     /\ pc[c] \in {"retrieving", "retrieved"} => s = "RETRIEVING"
     /\ pc[c] \in {"generating", "recording", "naming", "rejected", "drafted"}
          => s = "GENERATING"
     /\ pc[c] = "auditing" => s = "AUDITING"
     /\ pc[c] \in {"drafted", "auditing"} => w.draft \in Draft
     /\ pc[c] = "recording" => /\ w.outcome # "none"
                               /\ w.outcome = "drafted" => w.draft \in Draft
     /\ pc[c] = "replying" => s = "COMPLETED" /\ w.draft = answer[Key(c)]
     /\ pc[c] = "failing" => s # "FAILED" /\ w.error \in Errors
     /\ pc[c] = "cancelled" => s # "FAILED"
     /\ pc[c] = "failed" => /\ w.error \in Errors
                            /\ \/ s = "COMPLETED"
                               \/ /\ s = "FAILED"
                                  /\ trace[Key(c)][Len(trace[Key(c)])].to = w.error

CoreInv ==
  /\ TypeOK /\ OneExecutor
  /\ \A k \in Keys : RunInv(k)
  /\ \A c \in Callers : PlaceInv(c)

---------------------------------------------------------------------------
\* Keys and places.
LEMMA KeyType == ASSUME TypeOK, NEW c \in Callers PROVE Key(c) \in Keys
BY DEF TypeOK, Asking, Key

\* Initially nothing is stored and nobody serves anything.
LEMMA CoreInit == Init => CoreInv
<1> SUFFICES ASSUME Init PROVE CoreInv
  OBVIOUS
<1>1. TypeOK
  BY NoAnswerAssumption DEF Init, TypeOK, Statuses, Entry, Places, Asking, Fresh, Work, Reply, Plain
<1>2. OneExecutor
  BY DEF Init, OneExecutor, Holding, Executing, Marking
<1>3. ASSUME NEW k \in Keys PROVE RunInv(k)
  BY DEF Init, RunInv, NoFailure
<1>4. ASSUME NEW c \in Callers PROVE PlaceInv(c)
  BY DEF Init, PlaceInv
<1> QED
  BY <1>1, <1>2, <1>3, <1>4 DEF CoreInv

---------------------------------------------------------------------------
(* A holder's step disturbs nobody else. *)

Row(k) == <<status[k], request[k], answer[k], trace[k]>>
Alone(c) ==
  /\ \A d \in Callers \ {c} : /\ pc'[d] = pc[d] /\ work'[d] = work[d]
                              /\ asking'[d] = asking[d] /\ reply'[d] = reply[d]
  /\ \A k \in Keys \ {Key(c)} : Row(k)' = Row(k)

\* Another caller keeps its place if its run does not change.
LEMMA PlaceKept ==
  ASSUME NEW d \in Callers, PlaceInv(d), pc'[d] = pc[d], work'[d] = work[d],
         asking'[d] = asking[d], NEW j \in Keys, j = Key(d), Row(j)' = Row(j)
  PROVE  PlaceInv(d)'
BY DEF PlaceInv, Row, Key

\* A run that does not change stays consistent.
LEMMA RunKept ==
  ASSUME NEW k \in Keys, RunInv(k), Row(k)' = Row(k)
  PROVE  RunInv(k)'
BY DEF RunInv, Row, ReplayableFailure, Failures, NoFailure

\* What is left to show of a holder's step: its own run and its own place.
LEMMA HolderStep ==
  ASSUME CoreInv, NEW c \in Callers, NEW k \in Keys, k = Key(c),
         pc[c] \in Holding, Alone(c),
         asking'[c] = asking[c], request' = request, status'[k] # "absent",
         TypeOK', RunInv(k)', PlaceInv(c)'
  PROVE  CoreInv'
<1>2. \A d \in Callers \ {c} : pc[d] \in Holding => Key(d) # k
  BY DEF CoreInv, OneExecutor
<1>3. OneExecutor'
  <2>1. ASSUME NEW d \in Callers, NEW e \in Callers, d # e,
               pc'[d] \in Holding, pc'[e] \in Holding
        PROVE  Key(d)' # Key(e)'
    BY <2>1, <1>2 DEF CoreInv, OneExecutor, Alone, Key
  <2>2. ASSUME NEW d \in Callers, pc'[d] \in Holding
        PROVE  status'[Key(d)'] # "absent" /\ request'[Key(d)'] = asking'[d].request
    <3>1. CASE d = c
      BY <3>1 DEF CoreInv, OneExecutor, Key
    <3>2. CASE d # c
      <4>1. pc[d] \in Holding /\ Key(d)' = Key(d) /\ Key(d) # k
        BY <2>2, <3>2, <1>2 DEF Alone, Key
      <4>2. Key(d) \in Keys /\ status'[Key(d)] = status[Key(d)]
        BY <4>1, KeyType DEF CoreInv, Alone, Row
      <4> QED
        BY <4>1, <4>2, <3>2 DEF CoreInv, OneExecutor, Alone
    <3> QED
      BY <3>1, <3>2
  <2> QED
    BY <2>1, <2>2 DEF OneExecutor, Key
<1>4. ASSUME NEW j \in Keys PROVE RunInv(j)'
  <2>1. CASE j = k
    BY <2>1
  <2>2. CASE j # k
    BY <2>2, RunKept DEF CoreInv, Alone
  <2> QED
    BY <2>1, <2>2
<1>5. ASSUME NEW d \in Callers PROVE PlaceInv(d)'
  <2>1. CASE d = c
    BY <2>1
  <2>2. CASE d # c /\ pc[d] \in Holding
    <3>1. PICK j \in Keys : j = Key(d)
      BY KeyType DEF CoreInv
    <3>2. j # k
      BY <2>2, <1>2, <3>1
    <3>3. Row(j)' = Row(j)
      BY <3>2 DEF Alone
    <3> QED
      BY <2>2, <3>1, <3>3, PlaceKept DEF CoreInv, Alone
  <2>3. CASE d # c /\ pc[d] \notin Holding
    BY <2>3 DEF Alone, PlaceInv, Holding, Executing, Marking
  <2> QED
    BY <2>1, <2>2, <2>3
<1> QED
  BY <1>3, <1>4, <1>5 DEF CoreInv

\* A holder's step that leaves the runs alone.
LEMMA QuietStep ==
  ASSUME CoreInv, NEW c \in Callers, pc[c] \in Holding,
         UNCHANGED <<status, request, answer, trace, asking>>,
         \A d \in Callers \ {c} : /\ pc'[d] = pc[d] /\ work'[d] = work[d]
                                 /\ reply'[d] = reply[d],
         TypeOK', PlaceInv(c)'
  PROVE  CoreInv'
<1>1. PICK k \in Keys : k = Key(c)
  BY KeyType DEF CoreInv
<1>2. Alone(c)
  BY DEF Alone, Row
<1>3. RunInv(k)'
  <2>1. \A j \in Keys : Row(j)' = Row(j)
    BY DEF Row
  <2>2. \A j \in Keys : RunInv(j)'
    BY <2>1, RunKept DEF CoreInv
  <2> QED
    BY <2>2
<1>4. status'[k] # "absent"
  BY <1>1 DEF CoreInv, OneExecutor
<1> QED
  BY <1>1, <1>2, <1>3, <1>4, HolderStep

---------------------------------------------------------------------------
(* Holders' steps that leave the runs alone. *)

\* Calling the model.
LEMMA CallModelKeeps ==
  ASSUME CoreInv, NEW c \in Callers,
         NEW outcome \in {"drafted", "rejected", "failed"}, NEW sound \in BOOLEAN,
         CallModel(c, outcome, sound)
  PROVE  CoreInv'
<1>1. TypeOK'
  <2>1. Key(c) \in Keys
    BY KeyType DEF CoreInv
  <2>2. work' \in [Callers -> Work]
    <3>1. work[c] \in Work /\ calls[Key(c)] + 1 \in Nat
      BY <2>1 DEF CoreInv, TypeOK
    <3> QED
      BY <3>1 DEF CallModel, Work, Draft, CoreInv, TypeOK
  <2> QED
    BY <2>1, <2>2 DEF CoreInv, TypeOK, CallModel, Goto, Places, Holding, Executing, runVars
<1>2. PlaceInv(c)'
  BY KeyType DEF CoreInv, TypeOK, CallModel, Work, Draft, Goto, PlaceInv, runVars, Key
<1>3. /\ UNCHANGED <<status, request, answer, trace, asking>>
      /\ \A d \in Callers \ {c} : /\ pc'[d] = pc[d] /\ work'[d] = work[d]
                                 /\ reply'[d] = reply[d]
  BY DEF CallModel, Goto, runVars, CoreInv, TypeOK
<1>4. pc[c] \in Holding
  BY DEF CallModel, Holding, Executing
<1> QED
  BY <1>1, <1>2, <1>3, <1>4, QuietStep

\* Recording it.
LEMMA RecordKeeps ==
  ASSUME CoreInv, NEW c \in Callers, Record(c)
  PROVE  CoreInv'
<1>1. TypeOK'
  <2>1. Key(c) \in Keys
    BY KeyType DEF CoreInv
  <2>2. work' \in [Callers -> Work]
    <3>1. work \in [Callers -> Work] /\ calls[Key(c)] \in Nat
      BY <2>1 DEF CoreInv, TypeOK
    <3>2. [work[c] EXCEPT !.named = @ \union {calls[Key(c)]}] \in Work
      BY <3>1 DEF Work
    <3> QED
      BY <3>1, <3>2 DEF Record
  <2> QED
    BY <2>1, <2>2 DEF CoreInv, TypeOK, Record, Goto, Places, Holding, Executing, runVars
<1>2. PlaceInv(c)'
  BY KeyType DEF CoreInv, TypeOK, Record, Work, Goto, PlaceInv, runVars, Key
<1>3. /\ UNCHANGED <<status, request, answer, trace, asking>>
      /\ \A d \in Callers \ {c} : /\ pc'[d] = pc[d] /\ work'[d] = work[d]
                                 /\ reply'[d] = reply[d]
  BY DEF Record, Goto, runVars, CoreInv, TypeOK
<1>4. pc[c] \in Holding
  BY DEF Record, Holding, Executing
<1> QED
  BY <1>1, <1>2, <1>3, <1>4, QuietStep

\* Naming it in the manifest.
LEMMA NameCallKeeps ==
  ASSUME CoreInv, NEW c \in Callers, NameCall(c)
  PROVE  CoreInv'
<1>1. TypeOK'
  <2>1. Key(c) \in Keys
    BY KeyType DEF CoreInv
  <2>2. work' \in [Callers -> Work]
    <3>1. work \in [Callers -> Work]
      BY DEF CoreInv, TypeOK
    <3>2. CASE work[c].outcome = "failed"
      <4>1. [work[c] EXCEPT !.error = "LLMCallError"] \in Work
        BY <3>1 DEF Work, Errors
      <4>2. work' = [work EXCEPT ![c] = [work[c] EXCEPT !.error = "LLMCallError"]]
        BY <3>1, <3>2 DEF NameCall, Raise
      <4> QED
        BY <3>1, <4>1, <4>2
    <3>3. CASE work[c].outcome # "failed"
      BY <3>1, <3>3 DEF NameCall
    <3> QED
      BY <3>2, <3>3
  <2>3. work[c].named \in SUBSET Nat
    BY DEF CoreInv, TypeOK, Work
  <2> QED
    BY <2>1, <2>2, <2>3 DEF CoreInv, TypeOK, NameCall, Raise, Goto, Places, Holding,
       Executing, Marking, callVars
<1>2. PlaceInv(c)'
  BY KeyType DEF CoreInv, TypeOK, NameCall, Work, Goto, Raise, PlaceInv, Key, Errors
<1>3. /\ UNCHANGED <<status, request, answer, trace, asking>>
      /\ \A d \in Callers \ {c} : /\ pc'[d] = pc[d] /\ work'[d] = work[d]
                                 /\ reply'[d] = reply[d]
  BY DEF NameCall, Raise, Goto, CoreInv, TypeOK
<1>4. pc[c] \in Holding
  BY DEF NameCall, Holding, Executing
<1> QED
  BY <1>1, <1>2, <1>3, <1>4, QuietStep

\* An error is raised anywhere.
LEMMA RaiseKeeps ==
  ASSUME CoreInv, NEW c \in Callers, LedgerFails(c) \/ Fail(c)
  PROVE  CoreInv'
<1> PICK error \in Errors : /\ pc[c] \in Executing \union {"replying"}
                            /\ Raise(c, error)
                            /\ UNCHANGED <<runVars, callVars, asking, reply>>
  BY DEF LedgerFails, Fail, Errors, Executing
<1>1. TypeOK'
  <2>1. work[c] \in Work /\ work \in [Callers -> Work] /\ pc \in [Callers -> Places]
    BY DEF CoreInv, TypeOK
  <2>2. error \in Errors /\ [work[c] EXCEPT !.error = error] \in Work
    BY <2>1 DEF Work
  <2>3. work' = [work EXCEPT ![c] = [work[c] EXCEPT !.error = error]]
    BY <2>1 DEF Raise, Work
  <2>4. work' \in [Callers -> Work]
    BY <2>1, <2>2, <2>3
  <2>5. pc' \in [Callers -> Places]
    BY <2>1 DEF Raise, Goto, Places, Holding, Marking
  <2> QED
    BY <2>4, <2>5 DEF CoreInv, TypeOK, runVars, callVars
<1>2. status[Key(c)] # "FAILED"
  BY DEF CoreInv, PlaceInv, Executing
<1>3. PlaceInv(c)'
  BY <1>2 DEF CoreInv, TypeOK, Work, Goto, Raise, PlaceInv, Key, runVars
<1>4. /\ UNCHANGED <<status, request, answer, trace, asking>>
      /\ \A d \in Callers \ {c} : /\ pc'[d] = pc[d] /\ work'[d] = work[d]
                                 /\ reply'[d] = reply[d]
  BY DEF Raise, Goto, CoreInv, TypeOK, runVars
<1>5. pc[c] \in Holding
  BY DEF Holding, Executing
<1> QED
  BY <1>1, <1>3, <1>4, <1>5, QuietStep

\* A draft without a call, or one that the output checks reject.
LEMMA DraftAloneKeeps ==
  ASSUME CoreInv, NEW c \in Callers, DraftAlone(c) \/ QuoteRejected(c)
  PROVE  CoreInv'
<1>1. PICK w \in Work :
        /\ work' = [work EXCEPT ![c] = w]
        /\ pc'[c] \in {"drafted", "rejected"}
        /\ pc'[c] = "drafted" => w.draft \in Draft
  <2>1. work[c] \in Work
    BY DEF CoreInv, TypeOK
  <2>2. CASE DraftAlone(c)
    <3>1. PICK sound \in BOOLEAN :
            work' = [work EXCEPT ![c].draft = [call |-> 0, sound |-> sound]]
      BY <2>2 DEF DraftAlone
    <3>2. [call |-> 0, sound |-> sound] \in Draft
      BY DEF Draft
    <3>3. [work[c] EXCEPT !.draft = [call |-> 0, sound |-> sound]] \in Work
      BY <2>1, <3>2 DEF Work
    <3> QED
      BY <2>1, <2>2, <3>1, <3>2, <3>3 DEF DraftAlone, Goto, CoreInv, TypeOK, Work
  <2>3. CASE QuoteRejected(c)
    <3>1. [work[c] EXCEPT !.outcome = "rejected"] \in Work
      BY <2>1 DEF Work
    <3> QED
      BY <2>1, <2>3, <3>1 DEF QuoteRejected, Goto, CoreInv, TypeOK
  <2> QED
    BY <2>2, <2>3
<1>2. /\ pc[c] = "generating" /\ pc' \in [Callers -> Places]
      /\ UNCHANGED <<runVars, callVars, asking, reply>>
  BY DEF DraftAlone, QuoteRejected, Goto, CoreInv, TypeOK, Places, Holding, Executing
<1>3. TypeOK'
  BY <1>1, <1>2 DEF CoreInv, TypeOK, runVars, callVars
<1>4. PlaceInv(c)'
  BY <1>1, <1>2 DEF CoreInv, TypeOK, PlaceInv, Key, runVars
<1>5. /\ UNCHANGED <<status, request, answer, trace, asking>>
      /\ \A d \in Callers \ {c} : /\ pc'[d] = pc[d] /\ work'[d] = work[d]
                                 /\ reply'[d] = reply[d]
  BY DEF DraftAlone, QuoteRejected, Goto, CoreInv, TypeOK, runVars
<1>6. pc[c] \in Holding
  BY <1>2 DEF Holding, Executing
<1> QED
  BY <1>3, <1>4, <1>5, <1>6, QuietStep

\* The client is told.
LEMMA TellKeeps ==
  ASSUME CoreInv, NEW c \in Callers, Respond(c) \/ Report(c)
  PROVE  CoreInv'
<1>1. PICK r \in Reply : Tell(c, r) /\ UNCHANGED <<runVars, callVars>>
  <2>1. CASE Respond(c)
    <3>1. work[c].draft \in Draft \union {NoAnswer}
      BY DEF CoreInv, TypeOK, Work
    <3> QED
      BY <2>1, <3>1 DEF Respond, Answered, Reply
  <2>2. CASE Report(c)
    BY <2>2 DEF Report, Refused, Reply, CoreInv, PlaceInv
  <2> QED
    BY <2>1, <2>2
<1>2. TypeOK'
  BY <1>1 DEF CoreInv, TypeOK, Tell, Goto, Places, Fresh, Work, runVars, callVars
<1>3. PlaceInv(c)'
  BY <1>1 DEF CoreInv, TypeOK, Tell, Goto, PlaceInv
<1>4. pc[c] \in Holding
  BY DEF Respond, Report, Holding
<1>5. /\ UNCHANGED <<status, request, answer, trace, asking>>
      /\ \A d \in Callers \ {c} : /\ pc'[d] = pc[d] /\ work'[d] = work[d]
                                 /\ reply'[d] = reply[d]
  BY <1>1 DEF Tell, Goto, CoreInv, TypeOK, runVars
<1> QED
  BY <1>1, <1>2, <1>3, <1>4, <1>5, QuietStep

\* Cancellation while it executes.
LEMMA CancelKeeps ==
  ASSUME CoreInv, NEW c \in Callers, Cancel(c)
  PROVE  CoreInv'
<1>1. TypeOK'
  <2>1. Key(c) \in Keys
    BY KeyType DEF CoreInv
  <2>2. calls' \in [Keys -> Nat]
    BY <2>1 DEF Cancel, callVars, CoreInv, TypeOK
  <2>3. ledger' \in [Keys -> SUBSET Nat]
    <3>1. calls[Key(c)] \in Nat /\ calls[Key(c)] + 1 \in Nat
      BY <2>1 DEF CoreInv, TypeOK
    <3>2. ledger \in [Keys -> SUBSET Nat]
      BY DEF CoreInv, TypeOK
    <3> QED
      BY <2>1, <3>1, <3>2 DEF Cancel, callVars
  <2> QED
    BY <2>1, <2>2, <2>3 DEF CoreInv, TypeOK, Cancel, Goto, Places, Holding, Marking, runVars
<1>2. status[Key(c)] # "FAILED"
  BY DEF CoreInv, PlaceInv, Executing, Cancel
<1>3. PlaceInv(c)'
  BY <1>2 DEF CoreInv, TypeOK, Cancel, Goto, PlaceInv, Key, runVars
<1>4. /\ UNCHANGED <<status, request, answer, trace, asking>>
      /\ \A d \in Callers \ {c} : /\ pc'[d] = pc[d] /\ work'[d] = work[d]
                                 /\ reply'[d] = reply[d]
  BY DEF Cancel, Goto, CoreInv, TypeOK, runVars
<1>5. pc[c] \in Holding
  BY DEF Cancel, Holding, Executing
<1> QED
  BY <1>1, <1>3, <1>4, <1>5, QuietStep

\* A holder is gone.
LEMMA LeaveKeeps ==
  ASSUME CoreInv, NEW c \in Callers, CancelUncovered(c) \/ MarkRefused(c) \/ Die(c)
  PROVE  CoreInv'
<1>1. PICK place \in Gone : Leave(c, place)
  BY DEF CancelUncovered, MarkRefused, Die, Gone
<1>2. pc[c] \in Holding
  BY DEF CancelUncovered, MarkRefused, Die, Holding, Executing, Marking
<1>3. TypeOK'
  BY <1>1 DEF CoreInv, TypeOK, Leave, Goto, Places, runVars, callVars
<1>4. PlaceInv(c)'
  BY <1>1 DEF CoreInv, TypeOK, Leave, Goto, PlaceInv, Gone
<1>5. /\ UNCHANGED <<status, request, answer, trace, asking>>
      /\ \A d \in Callers \ {c} : /\ pc'[d] = pc[d] /\ work'[d] = work[d]
                                 /\ reply'[d] = reply[d]
  BY <1>1 DEF Leave, Goto, CoreInv, TypeOK, runVars
<1> QED
  BY <1>1, <1>2, <1>3, <1>4, <1>5, QuietStep

---------------------------------------------------------------------------
(* Holders' steps that change their run. *)

\* Adding entries to a trace.
LEMMA TraceGrows ==
  ASSUME NEW s \in Seq(Entry), NEW t \in Seq(Entry), NoFailure(s), NoFailure(t)
  PROVE  /\ s \o t \in Seq(Entry) /\ NoFailure(s \o t)
         /\ s # <<>> \/ t # <<>> => s \o t # <<>>
<1>1. s \o t \in Seq(Entry) /\ Len(s \o t) = Len(s) + Len(t)
  OBVIOUS
<1>2. ASSUME NEW i \in 1..Len(s \o t) PROVE (s \o t)[i].type # "QA_EXECUTION_FAILED"
  <2>1. CASE i \in 1..Len(s)
    BY <2>1 DEF NoFailure
  <2>2. CASE i - Len(s) \in 1..Len(t)
    BY <2>2 DEF NoFailure
  <2> QED
    BY <1>1, <2>1, <2>2
<1> QED
  BY <1>1, <1>2 DEF NoFailure

\* Adding the failure.
LEMMA TraceFails ==
  ASSUME NEW s \in Seq(Entry), NoFailure(s), NEW e \in Entry,
         e.type = "QA_EXECUTION_FAILED"
  PROVE  /\ Append(s, e) \in Seq(Entry) /\ Append(s, e)[Len(Append(s, e))] = e
         /\ {i \in 1..Len(Append(s, e)) : Append(s, e)[i].type = "QA_EXECUTION_FAILED"}
              = {Len(Append(s, e))}
         /\ Append(s, e) # <<>>
BY DEF NoFailure

\* Notes and transitions are entries without a failure.
LEMMA Notes ==
  /\ \A type \in NoteTypes :
       <<Note(type)>> \in Seq(Entry) /\ NoFailure(<<Note(type)>>)
  /\ \A from, to \in Statuses :
       <<StateChanged(from, to)>> \in Seq(Entry) /\ NoFailure(<<StateChanged(from, to)>>)
<1>1. \A type \in NoteTypes : Note(type) \in Entry /\ Note(type).type # "QA_EXECUTION_FAILED"
  BY DEF NoteTypes, Note, Entry
<1>2. \A from, to \in Statuses :
        StateChanged(from, to) \in Entry
        /\ StateChanged(from, to).type # "QA_EXECUTION_FAILED"
  BY DEF StateChanged, Entry
<1> QED
  BY <1>1, <1>2 DEF NoFailure

\* A transition, short of the end of the run, keeps the run consistent.
Live == DOMAIN Transitions
LEMMA TransitKeeps ==
  ASSUME TypeOK, NEW k \in Keys, RunInv(k), status[k] \in Live,
         NEW notes \in Seq(Entry), NoFailure(notes), NEW to \in Live,
         Transit(k, notes, to), UNCHANGED <<request, answer>>
  PROVE  /\ status' = [status EXCEPT ![k] = to]
         /\ status' \in [Keys -> Statuses \union {"absent"}]
         /\ trace' \in [Keys -> Seq(Entry)]
         /\ RunInv(k)'
         /\ \A j \in Keys \ {k} : Row(j)' = Row(j)
<1> DEFINE moved == <<StateChanged(status[k], to)>>
<1>1. moved \in Seq(Entry) /\ NoFailure(moved) /\ moved # <<>>
  BY Notes DEF Live, Statuses
<1>2. trace[k] \in Seq(Entry) /\ NoFailure(trace[k])
  BY DEF TypeOK, RunInv, Live, Transitions
<1>3. trace'[k] = trace[k] \o notes \o moved
  BY DEF Transit, TypeOK
<1>4. trace'[k] \in Seq(Entry) /\ NoFailure(trace'[k]) /\ trace'[k] # <<>>
  <2>1. trace[k] \o notes \in Seq(Entry) /\ NoFailure(trace[k] \o notes)
    BY <1>2, TraceGrows
  <2> QED
    BY <2>1, <1>1, <1>3, TraceGrows
<1>5. status' = [status EXCEPT ![k] = to] /\ status'[k] = to
  BY DEF Transit, TypeOK
<1>6. RunInv(k)'
  BY <1>4, <1>5 DEF RunInv, Live, Transitions, NoFailure
<1> QED
  BY <1>4, <1>5, <1>6 DEF Transit, TypeOK, Live, Statuses, Row

\* So does a note.
LEMMA NotedKeeps ==
  ASSUME TypeOK, NEW k \in Keys, RunInv(k), status[k] \in Live,
         NEW type \in NoteTypes, Noted(k, type), UNCHANGED <<request, answer>>
  PROVE  /\ trace' \in [Keys -> Seq(Entry)]
         /\ RunInv(k)'
         /\ \A j \in Keys \ {k} : Row(j)' = Row(j)
<1>1. Note(type) \in Entry /\ Note(type).type # "QA_EXECUTION_FAILED"
  BY DEF NoteTypes, Note, Entry
<1>2. trace[k] \in Seq(Entry) /\ NoFailure(trace[k])
  BY DEF TypeOK, RunInv, Live, Transitions
<1>3. trace'[k] = Append(trace[k], Note(type))
  BY DEF Noted, TypeOK
<1>4. trace'[k] \in Seq(Entry) /\ NoFailure(trace'[k]) /\ trace'[k] # <<>>
  <2>1. /\ trace'[k] \in Seq(Entry) /\ Len(trace'[k]) = Len(trace[k]) + 1
        /\ trace'[k][Len(trace'[k])] = Note(type)
        /\ \A i \in 1..Len(trace[k]) : trace'[k][i] = trace[k][i]
    BY <1>1, <1>2, <1>3
  <2>2. NoFailure(trace'[k])
    BY <1>1, <1>2, <2>1 DEF NoFailure
  <2> QED
    BY <1>2, <2>1, <2>2
<1>5. RunInv(k)'
  BY <1>4 DEF RunInv, Live, Transitions, NoFailure, Noted
<1> QED
  BY <1>4, <1>5 DEF Noted, TypeOK, Row

\* A marking leaves a finished run alone and fails any other.
LEMMA MarkKeeps ==
  ASSUME TypeOK, NEW k \in Keys, RunInv(k), status[k] \in Live \union {"COMPLETED"},
         NEW error \in Errors, MarkFailed(k, error), UNCHANGED <<request, answer>>
  PROVE  /\ status' \in [Keys -> Statuses \union {"absent"}]
         /\ trace' \in [Keys -> Seq(Entry)]
         /\ RunInv(k)'
         /\ \/ status[k] = "COMPLETED" /\ UNCHANGED <<status, trace>>
            \/ /\ status[k] # "COMPLETED" /\ status' = [status EXCEPT ![k] = "FAILED"]
               /\ trace'[k][Len(trace'[k])].to = error
         /\ \A j \in Keys \ {k} : Row(j)' = Row(j)
<1>1. CASE status[k] = "COMPLETED"
  <2>1. UNCHANGED <<status, trace>>
    BY <1>1 DEF MarkFailed, Terminal
  <2>2. Row(k)' = Row(k)
    BY <2>1 DEF Row
  <2> QED
    BY <1>1, <2>1, <2>2, RunKept DEF TypeOK, Row
<1>2. CASE status[k] \in Live
  <2> DEFINE e == Failed(status[k], error)
  <2>1. e \in Entry /\ e.type = "QA_EXECUTION_FAILED"
    BY <1>2 DEF Failed, Entry, Statuses, Live
  <2>2. trace[k] \in Seq(Entry) /\ NoFailure(trace[k])
    BY <1>2 DEF TypeOK, RunInv, Live, Transitions
  <2>3. /\ status' = [status EXCEPT ![k] = "FAILED"] /\ status'[k] = "FAILED"
        /\ trace' = [trace EXCEPT ![k] = Append(trace[k], e)]
        /\ trace'[k] = Append(trace[k], e)
    BY <1>2 DEF MarkFailed, Terminal, Live, Transitions, TypeOK
  <2>4. /\ Append(trace[k], e) \in Seq(Entry)
        /\ trace'[k][Len(trace'[k])] = e
        /\ {i \in 1..Len(trace'[k]) : trace'[k][i].type = "QA_EXECUTION_FAILED"}
             = {Len(trace'[k])}
        /\ trace'[k] # <<>>
    BY <2>1, <2>2, <2>3, TraceFails
  <2>5. ReplayableFailure(k)'
    <3>1. /\ e.from \in DOMAIN Transitions /\ "FAILED" \in Transitions[e.from]
          /\ e.to = error
      BY <1>2 DEF Failed, Live, Transitions
    <3> QED
      BY <2>4, <3>1 DEF ReplayableFailure, Failures
  <2>6. RunInv(k)'
    BY <1>2, <2>3, <2>4, <2>5 DEF RunInv, Live, Transitions
  <2>7. trace'[k][Len(trace'[k])].to = error
    BY <2>4 DEF Failed
  <2> QED
    BY <1>2, <2>3, <2>4, <2>6, <2>7 DEF TypeOK, Statuses, Terminal, Row, Live, Transitions
<1> QED
  BY <1>1, <1>2

\* What a step that only moves the run and its caller leaves to be shown.
LEMMA MoverStep ==
  ASSUME CoreInv, NEW c \in Callers, NEW k \in Keys, k = Key(c),
         pc[c] \in Holding, NEW place \in Places, Goto(c, place),
         UNCHANGED <<request, asking, reply>>,
         \A d \in Callers \ {c} : work'[d] = work[d],
         \A j \in Keys \ {k} : Row(j)' = Row(j),
         status' \in [Keys -> Statuses \union {"absent"}],
         trace' \in [Keys -> Seq(Entry)],
         manifest' \in [Keys -> SUBSET Nat],
         answer' \in [Keys -> Draft \union {NoAnswer}],
         work' \in [Callers -> Work], UNCHANGED callVars,
         status'[k] # "absent", RunInv(k)', PlaceInv(c)'
  PROVE  CoreInv'
<1>1. TypeOK'
  BY DEF CoreInv, TypeOK, Goto, callVars
<1>2. Alone(c)
  BY DEF CoreInv, TypeOK, Goto, Alone
<1> QED
  BY <1>1, <1>2, HolderStep

\* Status and run of a holder.
LEMMA HolderRun ==
  ASSUME CoreInv, NEW c \in Callers, pc[c] \in Executing
  PROVE  Key(c) \in Keys /\ RunInv(Key(c)) /\ status[Key(c)] \in Live
BY KeyType DEF CoreInv, PlaceInv, Executing, Live, Transitions

\* The stages.
LEMMA StageKeeps ==
  ASSUME CoreInv, NEW c \in Callers, Claim(c) \/ StartRetrieval(c) \/ StartGeneration(c)
  PROVE  CoreInv'
<1>1. PICK from \in Executing, to \in Live, place \in Executing :
        /\ Stage(c, from, to, place)
        /\ \/ place = "authorized" /\ to = "AUTHORIZED"
           \/ place = "retrieving" /\ to = "RETRIEVING"
           \/ place = "generating" /\ to = "GENERATING"
  BY DEF Claim, StartRetrieval, StartGeneration, Executing, Live, Transitions
<1>2. pc[c] \in Executing
  BY <1>1 DEF Stage
<1>3. PICK k \in Keys : k = Key(c) /\ RunInv(k) /\ status[k] \in Live
  BY <1>2, HolderRun
<1>4. <<>> \in Seq(Entry) /\ NoFailure(<<>>)
  BY DEF NoFailure
<1>5. /\ status' = [status EXCEPT ![k] = to]
      /\ status' \in [Keys -> Statuses \union {"absent"}]
      /\ trace' \in [Keys -> Seq(Entry)] /\ RunInv(k)'
      /\ \A j \in Keys \ {k} : Row(j)' = Row(j)
  BY <1>1, <1>3, <1>4, TransitKeeps DEF Stage, CoreInv
<1>6. status'[k] = to /\ to # "absent"
  BY <1>5 DEF CoreInv, TypeOK, Live, Transitions
<1>7. PlaceInv(c)'
  BY <1>1, <1>3, <1>6 DEF Stage, Goto, PlaceInv, Key, CoreInv, TypeOK
<1> QED
  BY <1>1, <1>2, <1>3, <1>5, <1>6, <1>7, MoverStep
     DEF Stage, CoreInv, TypeOK, Holding, Places, callVars

\* The end of retrieval.
LEMMA RetrieveKeeps ==
  ASSUME CoreInv, NEW c \in Callers, Retrieve(c)
  PROVE  CoreInv'
<1>1. pc[c] \in Executing
  BY DEF Retrieve, Executing
<1>2. PICK k \in Keys : k = Key(c) /\ RunInv(k) /\ status[k] \in Live
  BY <1>1, HolderRun
<1>3. trace' \in [Keys -> Seq(Entry)] /\ RunInv(k)'
      /\ \A j \in Keys \ {k} : Row(j)' = Row(j)
  BY <1>2, NotedKeeps DEF Retrieve, CoreInv, NoteTypes
<1>4. work' \in [Callers -> Work] /\ \A d \in Callers \ {c} : work'[d] = work[d]
  BY DEF Retrieve, CoreInv, TypeOK
<1>5. status' = status /\ status[k] # "absent"
  BY <1>2 DEF Retrieve, Noted, Live, Transitions
<1>6. PlaceInv(c)'
  BY <1>5 DEF Retrieve, Goto, PlaceInv, Key, CoreInv, TypeOK
<1> QED
  BY <1>1, <1>2, <1>3, <1>4, <1>5, <1>6, MoverStep
     DEF Retrieve, CoreInv, TypeOK, Holding, Executing, Marking, Places, callVars

\* The places a rejection leads to.
LEMMA RaisedPlace ==
  ASSUME CoreInv, NEW c \in Callers, pc[c] \in Executing, NEW error \in Errors,
         Raise(c, error), status' = status, UNCHANGED asking
  PROVE  /\ Goto(c, "failing") /\ work' \in [Callers -> Work]
         /\ \A d \in Callers \ {c} : work'[d] = work[d]
         /\ PlaceInv(c)'
<1>1. status[Key(c)] # "FAILED"
  BY HolderRun DEF Live, Transitions
<1>2. [work[c] EXCEPT !.error = error] \in Work
  BY DEF CoreInv, TypeOK, Work
<1>3. work' = [work EXCEPT ![c] = [work[c] EXCEPT !.error = error]]
  BY DEF Raise, CoreInv, TypeOK
<1>4. work \in [Callers -> Work]
  BY DEF CoreInv, TypeOK
<1>5. work' \in [Callers -> Work] /\ \A d \in Callers \ {c} : work'[d] = work[d]
  BY <1>2, <1>3, <1>4
<1>6. work'[c].error = error
  BY <1>3, <1>4 DEF Work
<1>7. pc'[c] = "failing"
  BY DEF Raise, Goto, CoreInv, TypeOK
<1>8. PlaceInv(c)'
  BY <1>1, <1>6, <1>7 DEF PlaceInv, Key
<1> QED
  BY <1>5, <1>8 DEF Raise

\* A rejected output.
LEMMA RejectOutputKeeps ==
  ASSUME CoreInv, NEW c \in Callers, RejectOutput(c)
  PROVE  CoreInv'
<1>1. pc[c] \in Executing
  BY DEF RejectOutput, Executing
<1>2. PICK k \in Keys : k = Key(c) /\ RunInv(k) /\ status[k] \in Live
  BY <1>1, HolderRun
<1>3. trace' \in [Keys -> Seq(Entry)] /\ RunInv(k)'
      /\ \A j \in Keys \ {k} : Row(j)' = Row(j)
  BY <1>2, NotedKeeps DEF RejectOutput, CoreInv, NoteTypes
<1>4. status' = status /\ status[k] # "absent"
  BY <1>2 DEF RejectOutput, Noted, Live, Transitions
<1>5. \E place \in Places : Goto(c, place) /\ PlaceInv(c)'
                          /\ work' \in [Callers -> Work]
                          /\ \A d \in Callers \ {c} : work'[d] = work[d]
  <2>1. CASE work[c].retries >= MaxRepairs
    BY <1>1, <1>4, <2>1, RaisedPlace DEF RejectOutput, Errors, Places, Holding, Marking
  <2>2. CASE ~ (work[c].retries >= MaxRepairs)
    <3>1. work' = [work EXCEPT ![c] = [work[c] EXCEPT !.retries = @ + 1]]
      BY <2>2 DEF RejectOutput, CoreInv, TypeOK
    <3>2. work[c] \in Work
      BY DEF CoreInv, TypeOK
    <3>3. [work[c] EXCEPT !.retries = @ + 1] \in Work
      BY <3>2 DEF Work
    <3>4. status[Key(c)] = "GENERATING"
      BY DEF CoreInv, PlaceInv, RejectOutput
    <3>5. Goto(c, "generating") /\ PlaceInv(c)'
      BY <2>2, <3>4, <1>4 DEF RejectOutput, Goto, PlaceInv, Key, CoreInv, TypeOK
    <3> QED
      BY <3>1, <3>3, <3>5 DEF CoreInv, TypeOK, Places, Holding, Executing
  <2> QED
    BY <2>1, <2>2
<1> QED
  BY <1>1, <1>2, <1>3, <1>4, <1>5, MoverStep
     DEF RejectOutput, CoreInv, TypeOK, Holding, callVars

\* A draft rejected for good.
LEMMA RejectDraftKeeps ==
  ASSUME CoreInv, NEW c \in Callers, RejectDraft(c)
  PROVE  CoreInv'
<1>1. pc[c] \in Executing
  BY DEF RejectDraft, Executing
<1>2. PICK k \in Keys : k = Key(c) /\ RunInv(k) /\ status[k] \in Live
  BY <1>1, HolderRun
<1>3. trace' \in [Keys -> Seq(Entry)] /\ RunInv(k)'
      /\ \A j \in Keys \ {k} : Row(j)' = Row(j)
  BY <1>2, NotedKeeps DEF RejectDraft, CoreInv, NoteTypes
<1>4. status' = status /\ status[k] # "absent"
  BY <1>2 DEF RejectDraft, Noted, Live, Transitions
<1>5. /\ Goto(c, "failing") /\ PlaceInv(c)' /\ work' \in [Callers -> Work]
      /\ \A d \in Callers \ {c} : work'[d] = work[d]
  BY <1>1, <1>4, RaisedPlace DEF RejectDraft, Errors
<1> QED
  BY <1>1, <1>2, <1>3, <1>4, <1>5, MoverStep
     DEF RejectDraft, CoreInv, TypeOK, Places, Holding, Marking, callVars

\* The transitions around the audit.
LEMMA AuditKeeps ==
  ASSUME CoreInv, NEW c \in Callers,
         \/ \E sound \in BOOLEAN : Abstain(c, sound)
         \/ StartAudit(c) \/ RepairDraft(c)
  PROVE  CoreInv'
<1>1. pc[c] \in Executing
  BY DEF Abstain, StartAudit, RepairDraft, Executing
<1>2. PICK k \in Keys : k = Key(c) /\ RunInv(k) /\ status[k] \in Live
  BY <1>1, HolderRun
<1>3. PICK to \in Live, notes \in Seq(Entry), place \in Executing :
        /\ NoFailure(notes) /\ Transit(k, notes, to) /\ Goto(c, place)
        /\ UNCHANGED <<request, answer, callVars, asking, reply>>
        /\ \/ to = "AUDITING" /\ place = "auditing"
           \/ to = "GENERATING" /\ place = "generating"
  <2>1. /\ <<>> \in Seq(Entry) /\ NoFailure(<<>>)
        /\ <<Note("ANSWER_AUDIT_REJECTED")>> \in Seq(Entry)
        /\ NoFailure(<<Note("ANSWER_AUDIT_REJECTED")>>)
    BY Notes DEF NoFailure, NoteTypes
  <2> QED
    BY <1>2, <2>1 DEF Abstain, StartAudit, RepairDraft, Live, Transitions, Executing
<1>4. /\ status' = [status EXCEPT ![k] = to]
      /\ status' \in [Keys -> Statuses \union {"absent"}]
      /\ trace' \in [Keys -> Seq(Entry)] /\ RunInv(k)'
      /\ \A j \in Keys \ {k} : Row(j)' = Row(j)
  BY <1>2, <1>3, TransitKeeps DEF CoreInv
<1>5. status'[k] = to /\ to # "absent"
  BY <1>4 DEF CoreInv, TypeOK, Live, Transitions
<1>6. /\ work' \in [Callers -> Work] /\ \A d \in Callers \ {c} : work'[d] = work[d]
      /\ manifest' \in [Keys -> SUBSET Nat]
      /\ place = "auditing" => work'[c].draft \in Draft
  <2>1. work \in [Callers -> Work] /\ work[c] \in Work
    BY DEF CoreInv, TypeOK
  <2>2. ASSUME NEW sound \in BOOLEAN, Abstain(c, sound)
        PROVE  /\ work' \in [Callers -> Work]
               /\ \A d \in Callers \ {c} : work'[d] = work[d]
               /\ manifest' \in [Keys -> SUBSET Nat]
               /\ place = "auditing" => work'[c].draft \in Draft
    <3>1. [call |-> 0, sound |-> sound] \in Draft
      BY DEF Draft
    <3>2. [work[c] EXCEPT !.draft = [call |-> 0, sound |-> sound]] \in Work
      BY <2>1, <3>1 DEF Work
    <3>3. work' = [work EXCEPT ![c] = [work[c] EXCEPT !.draft = [call |-> 0, sound |-> sound]]]
      BY <2>1, <2>2 DEF Abstain
    <3>4. work' \in [Callers -> Work] /\ \A d \in Callers \ {c} : work'[d] = work[d]
      BY <2>1, <3>2, <3>3
    <3>5. work'[c].draft = [call |-> 0, sound |-> sound]
      BY <2>1, <3>3 DEF Work
    <3> QED
      BY <2>2, <3>1, <3>4, <3>5 DEF Abstain, CoreInv, TypeOK
  <2>3. CASE StartAudit(c)
    <3>1. work[c].draft \in Draft /\ work[c].named \in SUBSET Nat
      BY <2>1, <2>3 DEF StartAudit, CoreInv, PlaceInv, Work
    <3> QED
      BY <1>2, <2>1, <2>3, <3>1 DEF StartAudit, CoreInv, TypeOK
  <2>4. CASE RepairDraft(c)
    <3>1. [work[c] EXCEPT !.repairs = @ + 1, !.retries = 0] \in Work
      <4>1. work[c].repairs + 1 \in Nat
        BY <2>1 DEF Work
      <4> QED
        BY <2>1, <4>1, 0 \in Nat DEF Work
    <3>2. work' = [work EXCEPT ![c] = [work[c] EXCEPT !.repairs = @ + 1, !.retries = 0]]
      BY <2>1, <2>4 DEF RepairDraft
    <3>3. place = "generating"
      BY <1>3, <2>4 DEF RepairDraft, Goto, CoreInv, TypeOK
    <3> QED
      BY <2>1, <2>4, <3>1, <3>2, <3>3 DEF RepairDraft, CoreInv, TypeOK
  <2> QED
    BY <2>2, <2>3, <2>4
<1>7. PlaceInv(c)'
  BY <1>2, <1>3, <1>5, <1>6 DEF Goto, PlaceInv, Key, CoreInv, TypeOK
<1> QED
  BY <1>1, <1>2, <1>3, <1>4, <1>5, <1>6, <1>7, MoverStep
     DEF CoreInv, TypeOK, Places, Holding

\* The end of a run and its answer are stored together.
LEMMA CompleteKeeps ==
  ASSUME CoreInv, NEW c \in Callers, Complete(c)
  PROVE  CoreInv'
<1>1. pc[c] \in Executing
  BY DEF Complete, Executing
<1>2. PICK k \in Keys : k = Key(c) /\ RunInv(k) /\ status[k] \in Live
  BY <1>1, HolderRun
<1> DEFINE notes == <<Note("ANSWER_AUDIT_COMPLETED"), Note("ANSWER_PERSISTED")>>
           moved == <<StateChanged(status[k], "COMPLETED")>>
<1>3. trace'[k] \in Seq(Entry) /\ NoFailure(trace'[k]) /\ trace'[k] # <<>>
  <2>1. notes \in Seq(Entry) /\ NoFailure(notes)
    <3>1. \A type \in NoteTypes : Note(type) \in Entry /\ Note(type).type # "QA_EXECUTION_FAILED"
      BY DEF NoteTypes, Note, Entry
    <3> QED
      BY <3>1 DEF NoFailure, NoteTypes
  <2>2. moved \in Seq(Entry) /\ NoFailure(moved) /\ moved # <<>>
    BY <1>2, Notes DEF Live, Statuses, Terminal
  <2>3. trace[k] \in Seq(Entry) /\ NoFailure(trace[k])
    BY <1>2 DEF CoreInv, TypeOK, RunInv, Live, Transitions
  <2>4. trace[k] \o notes \in Seq(Entry) /\ NoFailure(trace[k] \o notes)
    BY <2>1, <2>3, TraceGrows
  <2>5. trace'[k] = trace[k] \o notes \o moved
    BY <1>2 DEF Complete, Transit, CoreInv, TypeOK
  <2> QED
    BY <2>2, <2>4, <2>5, TraceGrows
<1>4. work[c].draft \in Draft /\ work[c].draft.sound
  BY DEF Complete, CoreInv, PlaceInv
<1>5. /\ status' = [status EXCEPT ![k] = "COMPLETED"] /\ status'[k] = "COMPLETED"
      /\ answer' = [answer EXCEPT ![k] = work[c].draft] /\ answer'[k] = work[c].draft
  BY <1>2 DEF Complete, Transit, CoreInv, TypeOK
<1>6. RunInv(k)'
  BY <1>2, <1>3, <1>4, <1>5 DEF RunInv, Complete, Live, Transitions, NoFailure
<1>7. PlaceInv(c)'
  BY <1>2, <1>5 DEF Complete, Goto, PlaceInv, Key, CoreInv, TypeOK
<1>8. /\ status' \in [Keys -> Statuses \union {"absent"}]
      /\ answer' \in [Keys -> Draft \union {NoAnswer}]
      /\ trace' \in [Keys -> Seq(Entry)]
      /\ \A j \in Keys \ {k} : Row(j)' = Row(j)
  BY <1>2, <1>3, <1>4, <1>5 DEF Complete, Transit, CoreInv, TypeOK, Statuses, Terminal, Row
<1> QED
  BY <1>1, <1>2, <1>5, <1>6, <1>7, <1>8, MoverStep
     DEF Complete, CoreInv, TypeOK, Places, Holding, callVars

\* Marking after an error.
LEMMA MarkErrorKeeps ==
  ASSUME CoreInv, NEW c \in Callers, MarkError(c)
  PROVE  CoreInv'
<1>1. pc[c] = "failing" /\ pc[c] \in Holding
  BY DEF MarkError, Holding, Marking
<1>2. PICK k \in Keys : k = Key(c)
  BY KeyType DEF CoreInv
<1>3. RunInv(k) /\ status[k] \in Live \union {"COMPLETED"} /\ work[c].error \in Errors
  BY <1>1, <1>2 DEF CoreInv, PlaceInv, OneExecutor, TypeOK, Statuses, Terminal, Live
<1>4. /\ status' \in [Keys -> Statuses \union {"absent"}]
      /\ trace' \in [Keys -> Seq(Entry)]
      /\ RunInv(k)'
      /\ \/ status[k] = "COMPLETED" /\ UNCHANGED <<status, trace>>
         \/ /\ status[k] # "COMPLETED" /\ status' = [status EXCEPT ![k] = "FAILED"]
            /\ trace'[k][Len(trace'[k])].to = work[c].error
      /\ \A j \in Keys \ {k} : Row(j)' = Row(j)
  BY <1>2, <1>3, MarkKeeps DEF CoreInv, MarkError
<1>5. \/ status'[k] = "COMPLETED"
      \/ /\ status'[k] = "FAILED"
         /\ trace'[k][Len(trace'[k])].to = work[c].error
  BY <1>4 DEF CoreInv, TypeOK
<1>6. PlaceInv(c)'
  BY <1>2, <1>3, <1>5 DEF MarkError, Goto, PlaceInv, Key, CoreInv, TypeOK
<1>7. status'[k] # "absent" /\ "failed" \in Places
  BY <1>5 DEF Places, Holding
<1> QED
  BY <1>1, <1>2, <1>4, <1>6, <1>7, MoverStep
     DEF MarkError, CoreInv, TypeOK, callVars

\* Marking after a cancellation.
LEMMA MarkCancelledKeeps ==
  ASSUME CoreInv, NEW c \in Callers, MarkCancelled(c)
  PROVE  CoreInv'
<1>1. pc[c] = "cancelled" /\ pc[c] \in Holding
  BY DEF MarkCancelled, Holding, Marking
<1>2. PICK k \in Keys : k = Key(c)
  BY KeyType DEF CoreInv
<1>3. RunInv(k) /\ status[k] \in Live \union {"COMPLETED"}
  BY <1>1, <1>2 DEF CoreInv, PlaceInv, OneExecutor, TypeOK, Statuses, Terminal, Live
<1>4. "QA_CALL_CANCELLED" \in Errors
  BY DEF Errors
<1>5. /\ status' \in [Keys -> Statuses \union {"absent"}]
      /\ trace' \in [Keys -> Seq(Entry)]
      /\ RunInv(k)'
      /\ \/ status[k] = "COMPLETED" /\ UNCHANGED <<status, trace>>
         \/ status[k] # "COMPLETED" /\ status' = [status EXCEPT ![k] = "FAILED"]
      /\ \A j \in Keys \ {k} : Row(j)' = Row(j)
  BY <1>2, <1>3, <1>4, MarkKeeps DEF CoreInv, MarkCancelled
<1>6. status'[k] # "absent"
  BY <1>5 DEF CoreInv, TypeOK
<1>7. PlaceInv(c)'
  BY DEF MarkCancelled, Tell, Goto, PlaceInv, CoreInv, TypeOK
<1>8. TypeOK'
  <2>1. Plain("cancelled") \in Reply /\ Fresh \in Work
    BY DEF Plain, Reply, Fresh, Work
  <2> QED
    BY <1>5, <2>1 DEF MarkCancelled, Tell, Goto, CoreInv, TypeOK, Places, callVars
<1>9. Alone(c) /\ asking'[c] = asking[c] /\ request' = request
  BY <1>2, <1>5 DEF Alone, MarkCancelled, Tell, Goto, CoreInv, TypeOK
<1> QED
  BY <1>1, <1>2, <1>5, <1>6, <1>7, <1>8, <1>9, HolderStep

---------------------------------------------------------------------------
(* The steps of callers that hold no run. *)

\* Another caller's place, when only c's changes and no row does.
LEMMA OutsiderStep ==
  ASSUME CoreInv, NEW c \in Callers, pc[c] \notin Holding, pc'[c] \notin Holding,
         UNCHANGED <<status, request, answer, trace>>,
         \A d \in Callers \ {c} : /\ pc'[d] = pc[d] /\ work'[d] = work[d]
                                 /\ asking'[d] = asking[d],
         TypeOK'
  PROVE  CoreInv'
<1>1. OneExecutor'
  BY DEF CoreInv, OneExecutor, Key
<1>2. \A k \in Keys : RunInv(k)'
  BY RunKept DEF CoreInv, Row
<1>3. ASSUME NEW d \in Callers PROVE PlaceInv(d)'
  <2>1. CASE d = c
    BY <2>1 DEF PlaceInv, Holding, Executing, Marking
  <2>2. CASE d # c
    <3>1. PICK j \in Keys : j = Key(d)
      BY KeyType DEF CoreInv
    <3> QED
      BY <2>2, <3>1, PlaceKept DEF CoreInv, Row
  <2> QED
    BY <2>1, <2>2
<1> QED
  BY <1>1, <1>2, <1>3 DEF CoreInv

\* What is told of a run that exists is a reply.
LEMMA ExistingType ==
  ASSUME CoreInv, NEW k \in Keys, NEW q \in Requests, status[k] # "absent"
  PROVE  Existing(k, q) \in Reply
<1>1. RunInv(k) /\ answer[k] \in Draft \union {NoAnswer}
  BY DEF CoreInv, TypeOK
<1>2. status[k] = "FAILED" => ReplayableFailure(k)
  BY <1>1 DEF RunInv
<1> QED
  BY <1>1, <1>2 DEF Existing, Reply, Plain, Answered, Refused, ReplayableFailure

\* Asking, looking and losing.
LEMMA OutsiderKeeps ==
  ASSUME CoreInv, NEW c \in Callers,
         \/ \E k \in Keys, q \in Requests : Ask(c, k, q)
         \/ Replay(c) \/ LookInVain(c) \/ LoseRace(c) \/ CancelEarly(c)
  PROVE  CoreInv'
<1>1. /\ UNCHANGED <<status, request, answer, trace>>
      /\ pc[c] \notin Holding
      /\ \A d \in Callers \ {c} : /\ pc'[d] = pc[d] /\ work'[d] = work[d]
                                 /\ asking'[d] = asking[d]
  BY DEF Ask, Replay, LookInVain, LoseRace, CancelEarly, Tell, Goto, runVars, callVars,
     CoreInv, TypeOK, Holding, Executing, Marking
<1>2. pc'[c] \in {"looking", "inserting", "idle"}
  BY DEF Ask, Replay, LookInVain, LoseRace, CancelEarly, Tell, Goto, CoreInv, TypeOK
<1>3. pc'[c] \notin Holding
  BY <1>2 DEF Holding, Executing, Marking
<1>4. TypeOK'
  <2>1. CASE \E k \in Keys, q \in Requests : Ask(c, k, q)
    <3>1. Plain("none") \in Reply
      BY DEF Plain, Reply
    <3> QED
      BY <2>1, <3>1 DEF Ask, Goto, runVars, callVars, CoreInv, TypeOK, Places, Asking
  <2>2. CASE Replay(c) \/ LoseRace(c) \/ CancelEarly(c)
    <3>1. PICK r \in Reply : Tell(c, r) /\ UNCHANGED <<runVars, callVars>>
      <4>1. Plain("cancelled") \in Reply
        BY DEF Plain, Reply
      <4>2. Key(c) \in Keys /\ asking[c].request \in Requests
        BY KeyType DEF CoreInv, TypeOK, Asking
      <4> QED
        BY <2>2, <4>1, <4>2, ExistingType DEF Replay, LoseRace, CancelEarly
    <3>2. Fresh \in Work
      BY DEF Fresh, Work
    <3> QED
      BY <3>1, <3>2 DEF Tell, Goto, runVars, callVars, CoreInv, TypeOK, Places
  <2>3. CASE LookInVain(c)
    BY <2>3 DEF LookInVain, Goto, runVars, callVars, CoreInv, TypeOK, Places
  <2> QED
    BY <2>1, <2>2, <2>3
<1> QED
  BY <1>1, <1>3, <1>4, OutsiderStep

\* The caller whose insert takes the key is the run's only executor.
LEMMA InsertKeeps ==
  ASSUME CoreInv, NEW c \in Callers, Insert(c)
  PROVE  CoreInv'
<1>1. PICK k \in Keys : k = Key(c)
  BY KeyType DEF CoreInv
<1>2. /\ status[k] = "absent" /\ pc[c] = "inserting"
      /\ status'[k] = "RECEIVED" /\ request'[k] = asking[c].request
      /\ trace'[k] = <<Note("RUN_CREATED")>> /\ pc'[c] = "created"
      /\ \A j \in Keys \ {k} : Row(j)' = Row(j)
      /\ \A d \in Callers \ {c} : pc'[d] = pc[d]
      /\ UNCHANGED <<manifest, answer, callVars, asking, work, reply>>
  BY <1>1 DEF Insert, Goto, Row, CoreInv, TypeOK
<1>3. asking[c].request \in Requests
  BY DEF CoreInv, TypeOK, Asking
<1>4. <<Note("RUN_CREATED")>> \in Seq(Entry) /\ NoFailure(<<Note("RUN_CREATED")>>)
  BY Notes DEF NoteTypes
<1>5. TypeOK'
  BY <1>1, <1>3, <1>4 DEF Insert, Goto, CoreInv, TypeOK, Places, Holding, Executing, Statuses,
     Transitions, callVars
<1>6. \A d \in Callers \ {c} : pc[d] \in Holding => Key(d) # k
  BY <1>2 DEF CoreInv, OneExecutor
<1>7. OneExecutor'
  <2>1. ASSUME NEW d \in Callers, pc'[d] \in Holding
        PROVE  status'[Key(d)] # "absent" /\ request'[Key(d)] = asking[d].request
    <3>1. CASE d = c
      BY <1>1, <1>2, <3>1
    <3>2. CASE d # c
      <4>1. Key(d) \in Keys \ {k}
        BY <1>2, <1>6, <2>1, <3>2, KeyType DEF CoreInv
      <4> QED
        BY <1>2, <2>1, <3>2, <4>1 DEF CoreInv, OneExecutor, Row
    <3> QED
      BY <3>1, <3>2
  <2> QED
    BY <1>1, <1>2, <1>6, <2>1 DEF CoreInv, OneExecutor, Key
<1>8. ASSUME NEW j \in Keys PROVE RunInv(j)'
  <2>1. CASE j = k
    <3>1. answer[k] = NoAnswer
      BY <1>2 DEF CoreInv, RunInv
    <3> QED
      BY <1>2, <1>3, <1>4, <2>1, <3>1 DEF RunInv, NoFailure
  <2>2. CASE j # k
    BY <1>2, <2>2, RunKept DEF CoreInv
  <2> QED
    BY <2>1, <2>2
<1>9. ASSUME NEW d \in Callers PROVE PlaceInv(d)'
  <2>1. CASE d = c
    BY <1>1, <1>2, <2>1 DEF PlaceInv, Key
  <2>2. CASE d # c /\ pc[d] \in Holding
    <3>1. PICK j \in Keys : j = Key(d)
      BY KeyType DEF CoreInv
    <3> QED
      BY <1>2, <1>6, <2>2, <3>1, PlaceKept DEF CoreInv
  <2>3. CASE d # c /\ pc[d] \notin Holding
    BY <1>2, <2>3 DEF PlaceInv, Holding, Executing, Marking
  <2> QED
    BY <2>1, <2>2, <2>3
<1> QED
  BY <1>5, <1>7, <1>8, <1>9 DEF CoreInv

---------------------------------------------------------------------------
(* The invariant. *)

\* Every step keeps it.
LEMMA CoreNext == CoreInv /\ [Next]_vars => CoreInv'
<1> SUFFICES ASSUME CoreInv, [Next]_vars PROVE CoreInv'
  OBVIOUS
<1>1. CASE UNCHANGED vars
  BY <1>1 DEF vars, runVars, callVars, CoreInv, TypeOK, OneExecutor, RunInv, PlaceInv, Key,
     ReplayableFailure, Failures, NoFailure
<1>2. ASSUME NEW c \in Callers, \E k \in Keys, q \in Requests : Ask(c, k, q) PROVE CoreInv'
  BY <1>2, OutsiderKeeps
<1>3. ASSUME NEW c \in Callers, Serve(c) PROVE CoreInv'
  <2>1. CASE Replay(c) \/ LookInVain(c) \/ LoseRace(c)
    BY <2>1, OutsiderKeeps
  <2>2. CASE Insert(c)
    BY <2>2, InsertKeeps
  <2>3. CASE Claim(c) \/ StartRetrieval(c) \/ StartGeneration(c)
    BY <2>3, StageKeeps
  <2>4. CASE Retrieve(c)
    BY <2>4, RetrieveKeeps
  <2>5. CASE (\E sound \in BOOLEAN : Abstain(c, sound)) \/ StartAudit(c) \/ RepairDraft(c)
    BY <2>5, AuditKeeps
  <2>6. CASE DraftAlone(c) \/ QuoteRejected(c)
    BY <2>6, DraftAloneKeeps
  <2>7. CASE \/ \E sound \in BOOLEAN : CallModel(c, "drafted", sound)
             \/ \E outcome \in {"rejected", "failed"} : CallModel(c, outcome, FALSE)
    BY <2>7, CallModelKeeps
  <2>8. CASE Record(c)
    BY <2>8, RecordKeeps
  <2>9. CASE NameCall(c)
    BY <2>9, NameCallKeeps
  <2>10. CASE LedgerFails(c)
    BY <2>10, RaiseKeeps
  <2>11. CASE RejectOutput(c)
    BY <2>11, RejectOutputKeeps
  <2>12. CASE RejectDraft(c)
    BY <2>12, RejectDraftKeeps
  <2>13. CASE Complete(c)
    BY <2>13, CompleteKeeps
  <2>14. CASE Respond(c) \/ Report(c)
    BY <2>14, TellKeeps
  <2>15. CASE MarkError(c)
    BY <2>15, MarkErrorKeeps
  <2>16. CASE MarkCancelled(c)
    BY <2>16, MarkCancelledKeeps
  <2> QED
    BY <1>3, <2>1, <2>2, <2>3, <2>4, <2>5, <2>6, <2>7, <2>8, <2>9, <2>10, <2>11, <2>12,
       <2>13, <2>14, <2>15, <2>16 DEF Serve
<1>4. ASSUME NEW c \in Callers, Fault(c) PROVE CoreInv'
  BY <1>4, RaiseKeeps, OutsiderKeeps, CancelKeeps, LeaveKeeps DEF Fault
<1> QED
  BY <1>1, <1>2, <1>3, <1>4 DEF Next

\* Every reachable state satisfies the core invariant.
LEMMA CoreAlways == Spec => []CoreInv
BY CoreInit, CoreNext, PTL DEF Spec

\* The variables keep their types.
THEOREM TypeCorrect == Spec => []TypeOK
<1>1. CoreInv => TypeOK
  BY DEF CoreInv
<1> QED
  BY <1>1, CoreAlways, PTL

\* No run is ever executed by two callers, however lookups and inserts race.
THEOREM ExecutedOnce == Spec => []OneExecutor
<1>1. CoreInv => OneExecutor
  BY DEF CoreInv
<1> QED
  BY <1>1, CoreAlways, PTL

---------------------------------------------------------------------------
(* What clients were told. *)

Mine(c) == \/ \E k \in Keys, q \in Requests : Ask(c, k, q)
           \/ Serve(c) \/ Fault(c)

\* A step is a caller's, and changes nothing but its own run and place.
LEMMA StepAlone ==
  ASSUME TypeOK, NEW c \in Callers, Mine(c)
  PROVE  Alone(c)
<1> USE DEF TypeOK, Goto, Row, Alone, runVars, callVars
<1>1. CASE \E k \in Keys, q \in Requests : Ask(c, k, q)
  BY <1>1 DEF Ask
<1>2. CASE Replay(c) \/ LoseRace(c) \/ Respond(c) \/ Report(c) \/ CancelEarly(c)
  BY <1>2 DEF Replay, LoseRace, Respond, Report, CancelEarly, Tell
<1>3. CASE LookInVain(c) \/ Insert(c) \/ DraftAlone(c) \/ QuoteRejected(c) \/ Retrieve(c)
  BY <1>3 DEF LookInVain, Insert, DraftAlone, QuoteRejected, Retrieve, Noted
<1>4. CASE Claim(c) \/ StartRetrieval(c) \/ StartGeneration(c)
  BY <1>4 DEF Claim, StartRetrieval, StartGeneration, Stage, Transit
<1>5. CASE \E sound \in BOOLEAN : Abstain(c, sound)
  BY <1>5 DEF Abstain, Transit
<1>6. CASE \/ \E sound \in BOOLEAN : CallModel(c, "drafted", sound)
           \/ \E outcome \in {"rejected", "failed"} : CallModel(c, outcome, FALSE)
  BY <1>6 DEF CallModel
<1>7. CASE Record(c) \/ LedgerFails(c) \/ NameCall(c)
  BY <1>7 DEF Record, LedgerFails, NameCall, Raise
<1>8. CASE RejectOutput(c) \/ RejectDraft(c)
  BY <1>8 DEF RejectOutput, RejectDraft, Raise, Noted
<1>9. CASE StartAudit(c) \/ RepairDraft(c) \/ Complete(c)
  BY <1>9 DEF StartAudit, RepairDraft, Complete, Transit
<1>10. CASE MarkError(c)
  BY <1>10 DEF MarkError, MarkFailed
<1>11. CASE MarkCancelled(c)
  BY <1>11 DEF MarkCancelled, MarkFailed, Tell
<1>12. CASE Fail(c) \/ Cancel(c) \/ CancelUncovered(c) \/ MarkRefused(c) \/ Die(c)
  BY <1>12 DEF Fail, Cancel, CancelUncovered, MarkRefused, Die, Leave, Raise
<1> QED
  BY <1>1, <1>2, <1>3, <1>4, <1>5, <1>6, <1>7, <1>8, <1>9, <1>10, <1>11, <1>12
     DEF Mine, Serve, Fault

\* A run that has ended never changes.
LEMMA EndedStays ==
  ASSUME CoreInv, NEW c \in Callers, Mine(c), NEW k \in Keys, status[k] \in Terminal
  PROVE  Row(k)' = Row(k)
<1>1. CASE k # Key(c)
  BY <1>1, StepAlone DEF CoreInv, Alone
<1>2. CASE k = Key(c)
  <2>1. status[k] \notin Live /\ status[k] # "absent"
    BY DEF Terminal, Live, Transitions
  <2>2. pc[c] \notin Executing
    BY <1>2, <2>1, HolderRun
  <2>3. CASE MarkError(c) \/ MarkCancelled(c)
    BY <1>2, <2>3 DEF MarkError, MarkCancelled, MarkFailed, Row
  <2>4. CASE pc[c] \notin Marking
    <3>1. CASE Insert(c)
      BY <1>2, <2>1, <3>1 DEF Insert
    <3>2. CASE UNCHANGED runVars
      BY <3>2 DEF runVars, Row
    <3> QED
      BY <2>2, <2>4, <3>1, <3>2 DEF Mine, Serve, Fault, Ask, Replay, LookInVain, LoseRace,
         Claim, StartRetrieval, StartGeneration, Stage, Retrieve, Abstain, DraftAlone,
         QuoteRejected,
         CallModel, Record, LedgerFails, NameCall, RejectOutput, StartAudit, RepairDraft,
         RejectDraft, Complete, Respond, MarkError, Report, MarkCancelled, Fail,
         CancelEarly, Cancel, CancelUncovered, MarkRefused, Die, Leave, Executing, Marking,
         runVars
  <2>5. CASE pc[c] \in Marking /\ ~ (MarkError(c) \/ MarkCancelled(c))
    <3>1. CancelUncovered(c) \/ MarkRefused(c) \/ Die(c)
      BY <2>2, <2>5 DEF Mine, Serve, Fault, Ask, Replay, LookInVain, LoseRace, Insert,
         Claim, StartRetrieval, StartGeneration, Stage, Retrieve, Abstain, DraftAlone,
         QuoteRejected,
         CallModel, Record, LedgerFails, NameCall, RejectOutput, StartAudit, RepairDraft,
         RejectDraft, Complete, Respond, Report, Fail,
         CancelEarly, Cancel, Executing, Marking
    <3> QED
      BY <3>1 DEF CancelUncovered, MarkRefused, Die, Leave, runVars, Row
  <2> QED
    BY <2>3, <2>4, <2>5
<1> QED
  BY <1>1, <1>2

---------------------------------------------------------------------------
(* The trace of a run. *)

\* What is appended to a trace does not change where its first entries lead.
LEMMA AppendLeads ==
  ASSUME NEW es \in Seq(Entry), NEW e \in Entry, NEW n \in 0..Len(es), NEW s
  PROVE  LeadsTo(Append(es, e), n, s) <=> LeadsTo(es, n, s)
<1>1. \A i \in 1..Len(es) : Append(es, e)[i] = es[i]
  OBVIOUS
<1>2. \A i \in 1..n : i \in 1..Len(es) /\ \A j \in (i + 1)..n : j \in 1..Len(es)
  OBVIOUS
<1> QED
  BY <1>1, <1>2 DEF LeadsTo

\* A note leaves a trace explaining the same status, and a move from that
\* status makes it explain where it moves.
LEMMA AppendExplains ==
  ASSUME NEW es \in Seq(Entry), NEW e \in Entry, NEW s, Explains(es, s)
  PROVE  /\ ~ Moving(e) => Explains(Append(es, e), s)
         /\ Moving(e) /\ e.from = s => Explains(Append(es, e), Target(e))
<1> DEFINE more == Append(es, e)
           len == Len(es)
<1>1. /\ len \in Nat /\ Len(more) = len + 1 /\ more[len + 1] = e
      /\ \A i \in 1..len : more[i] = es[i]
  OBVIOUS
<1>2. \A n \in 0..len : \A w : LeadsTo(more, n, w) <=> LeadsTo(es, n, w)
  BY AppendLeads
<1> HIDE DEF more, len
<1>3. \A n \in 1..len : Moving(more[n]) => LeadsTo(more, n - 1, more[n].from)
  <2> SUFFICES ASSUME NEW n \in 1..len, Moving(more[n])
               PROVE  LeadsTo(more, n - 1, more[n].from)
    OBVIOUS
  <2>1. n - 1 \in 0..len
    BY <1>1
  <2> QED
    BY <1>1, <1>2, <2>1 DEF Explains, len
<1>4. LeadsTo(more, len, s)
  BY <1>1, <1>2 DEF Explains, len
<1>5. ASSUME ~ Moving(e) PROVE Explains(more, s)
  <2>1. LeadsTo(more, len + 1, s)
    <3>1. \A j \in (len + 1)..(len + 1) : ~ Moving(more[j])
      BY <1>1, <1>5
    <3>2. CASE s = "RECEIVED" /\ \A i \in 1..len : ~ Moving(more[i])
      BY <1>1, <1>5, <3>2 DEF LeadsTo
    <3>3. CASE \E i \in 1..len : /\ Moving(more[i]) /\ Target(more[i]) = s
                                 /\ \A j \in (i + 1)..len : ~ Moving(more[j])
      <4>1. PICK i \in 1..len : /\ Moving(more[i]) /\ Target(more[i]) = s
                                /\ \A j \in (i + 1)..len : ~ Moving(more[j])
        BY <3>3
      <4>2. i \in 1..(len + 1) /\ \A j \in (i + 1)..(len + 1) : j = len + 1 \/ j \in (i + 1)..len
        BY <1>1
      <4> QED
        BY <1>1, <1>5, <4>1, <4>2 DEF LeadsTo
    <3> QED
      BY <1>4, <3>2, <3>3 DEF LeadsTo
  <2> QED
    BY <1>1, <1>3, <1>5, <2>1 DEF Explains
<1>6. ASSUME Moving(e), e.from = s PROVE Explains(more, Target(e))
  <2>1. len + 1 \in 1..(len + 1) /\ \A j \in (len + 2)..(len + 1) : FALSE
    BY <1>1
  <2>2. LeadsTo(more, len + 1, Target(e))
    BY <1>1, <1>6, <2>1 DEF LeadsTo
  <2>3. LeadsTo(more, (len + 1) - 1, e.from)
    BY <1>1, <1>4, <1>6
  <2> QED
    BY <1>1, <1>3, <2>2, <2>3 DEF Explains
<1> QED
  BY <1>5, <1>6 DEF more

\* The entries of the model, appended to a trace that explains a status.
LEMMA EntriesExplain ==
  ASSUME NEW es \in Seq(Entry), NEW s \in Statuses, Explains(es, s)
  PROVE  /\ \A t \in NoteTypes : /\ Append(es, Note(t)) \in Seq(Entry)
                                 /\ Explains(Append(es, Note(t)), s)
         /\ \A to \in Statuses : Explains(Append(es, StateChanged(s, to)), to)
         /\ \A error \in Errors : Explains(Append(es, Failed(s, error)), "FAILED")
<1>1. ASSUME NEW t \in NoteTypes
      PROVE  /\ Append(es, Note(t)) \in Seq(Entry)
             /\ Explains(Append(es, Note(t)), s)
  <2>1. Note(t) \in Entry /\ ~ Moving(Note(t))
    BY DEF Note, Entry, NoteTypes, Moving
  <2> QED
    BY <2>1, AppendExplains
<1>2. ASSUME NEW to \in Statuses PROVE Explains(Append(es, StateChanged(s, to)), to)
  <2>1. /\ StateChanged(s, to) \in Entry /\ Moving(StateChanged(s, to))
        /\ StateChanged(s, to).from = s /\ Target(StateChanged(s, to)) = to
    BY DEF StateChanged, Entry, Moving, Target
  <2> QED
    BY <2>1, AppendExplains
<1>3. ASSUME NEW error \in Errors PROVE Explains(Append(es, Failed(s, error)), "FAILED")
  <2>1. /\ Failed(s, error) \in Entry /\ Moving(Failed(s, error))
        /\ Failed(s, error).from = s /\ Target(Failed(s, error)) = "FAILED"
    BY DEF Failed, Entry, Moving, Target
  <2> QED
    BY <2>1, AppendExplains
<1> QED
  BY <1>1, <1>2, <1>3

\* A transition is logged from the status it leaves, after at most two notes.
LEMMA TransitExplains ==
  ASSUME TypeOK, NEW k \in Keys, status[k] \in Statuses, Explains(trace[k], status[k]),
         NEW notes, NEW to \in Statuses, Transit(k, notes, to),
         \/ notes = <<>>
         \/ \E t \in NoteTypes : notes = <<Note(t)>>
         \/ \E t, u \in NoteTypes : notes = <<Note(t), Note(u)>>
  PROVE  Explains(trace[k], status[k])'
<1> DEFINE es == trace[k]
           s == status[k]
           move == StateChanged(s, to)
<1>1. /\ es \in Seq(Entry) /\ status'[k] = to
      /\ trace'[k] = es \o notes \o <<move>>
  BY DEF TypeOK, Transit
<1>2. \A f \in Seq(Entry) : Explains(f, s) => Explains(Append(f, move), to)
  BY EntriesExplain
<1>3. \A t \in NoteTypes : Note(t) \in Entry
  BY DEF Note, Entry, NoteTypes
<1>4. move \in Entry
  BY DEF StateChanged, Entry
<1> HIDE DEF es, s, move
<1>5. CASE notes = <<>>
  <2>1. trace'[k] = Append(es, move)
    BY <1>1, <1>4, <1>5
  <2> QED
    BY <1>1, <1>2, <2>1 DEF es, s
<1>6. ASSUME NEW t \in NoteTypes, notes = <<Note(t)>> PROVE Explains(trace[k], status[k])'
  <2>1. trace'[k] = Append(Append(es, Note(t)), move)
    BY <1>1, <1>3, <1>4, <1>6
  <2>2. Append(es, Note(t)) \in Seq(Entry) /\ Explains(Append(es, Note(t)), s)
    BY <1>1, EntriesExplain DEF es, s
  <2> QED
    BY <1>1, <1>2, <2>1, <2>2
<1>7. ASSUME NEW t \in NoteTypes, NEW u \in NoteTypes, notes = <<Note(t), Note(u)>>
      PROVE  Explains(trace[k], status[k])'
  <2> DEFINE one == Append(es, Note(t))
             two == Append(one, Note(u))
  <2>1. trace'[k] = Append(two, move)
    BY <1>1, <1>3, <1>4, <1>7
  <2>2. one \in Seq(Entry) /\ Explains(one, s)
    BY <1>1, EntriesExplain DEF es, s
  <2> HIDE DEF one
  <2>3. two \in Seq(Entry) /\ Explains(two, s)
    BY <2>2, EntriesExplain DEF s
  <2> QED
    BY <1>1, <1>2, <2>1, <2>3
<1> QED
  BY <1>5, <1>6, <1>7

\* The row of a run that is stored has a trace that explains its status.
Chained(k) == status[k] # "absent" => Explains(trace[k], status[k])

\* So it stays whatever a holder does to its run.
LEMMA HolderChains ==
  ASSUME CoreInv, NEW c \in Callers, NEW k \in Keys, k = Key(c), Chained(k),
         Mine(c), pc[c] \in Executing
  PROVE  Chained(k)'
<1>1. status[k] \in Live /\ status[k] \in Statuses /\ status[k] # "absent"
  BY HolderRun DEF Live, Transitions, Statuses
<1>2. TypeOK /\ trace[k] \in Seq(Entry) /\ Explains(trace[k], status[k])
  BY <1>1 DEF Chained, CoreInv, TypeOK
<1>3. CASE UNCHANGED <<status, trace>>
  BY <1>3 DEF Chained
<1>4. ASSUME NEW t \in NoteTypes, Noted(k, t) PROVE Chained(k)'
  <2>1. trace'[k] = Append(trace[k], Note(t)) /\ status'[k] = status[k]
    BY <1>2, <1>4 DEF Noted, TypeOK
  <2> QED
    BY <1>1, <1>2, <2>1, EntriesExplain DEF Chained
<1>5. ASSUME NEW notes, NEW to \in Statuses, Transit(k, notes, to),
             \/ notes = <<>>
             \/ \E t \in NoteTypes : notes = <<Note(t)>>
             \/ \E t, u \in NoteTypes : notes = <<Note(t), Note(u)>>
      PROVE  Chained(k)'
  BY <1>1, <1>2, <1>5, TransitExplains DEF Chained
<1>6. CASE Retrieve(c) \/ RejectOutput(c) \/ RejectDraft(c)
  BY <1>4, <1>6 DEF Retrieve, RejectOutput, RejectDraft, NoteTypes
<1>7. CASE Claim(c) \/ StartRetrieval(c) \/ StartGeneration(c)
  BY <1>5, <1>7 DEF Claim, StartRetrieval, StartGeneration, Stage, Statuses, Transitions
<1>8. CASE (\E sound \in BOOLEAN : Abstain(c, sound)) \/ StartAudit(c)
  BY <1>5, <1>8 DEF Abstain, StartAudit, Statuses, Transitions
<1>9. CASE RepairDraft(c) \/ Complete(c)
  <2>1. /\ "ANSWER_AUDIT_REJECTED" \in NoteTypes /\ "ANSWER_AUDIT_COMPLETED" \in NoteTypes
        /\ "ANSWER_PERSISTED" \in NoteTypes
        /\ "GENERATING" \in Statuses /\ "COMPLETED" \in Statuses
    BY DEF NoteTypes, Statuses, Transitions, Terminal
  <2>2. CASE RepairDraft(c)
    BY <1>5, <2>1, <2>2 DEF RepairDraft
  <2>3. CASE Complete(c)
    BY <1>5, <2>1, <2>3 DEF Complete
  <2> QED
    BY <1>9, <2>2, <2>3
<1> QED
  BY <1>3, <1>6, <1>7, <1>8, <1>9 DEF Mine, Serve, Fault, Ask, Replay, LookInVain, LoseRace,
     Insert, DraftAlone, QuoteRejected, CallModel, Record, LedgerFails, NameCall, Respond,
     MarkError,
     Report, MarkCancelled, Fail, CancelEarly, Cancel, CancelUncovered, MarkRefused, Die,
     Leave, Executing, runVars

\* And whatever any step does.
LEMMA ChainNext ==
  ASSUME CoreInv, \A k \in Keys : Chained(k), [Next]_vars
  PROVE  \A k \in Keys : Chained(k)'
<1>1. CASE UNCHANGED vars
  BY <1>1 DEF vars, runVars, Chained
<1>2. ASSUME NEW c \in Callers, Mine(c), NEW k \in Keys PROVE Chained(k)'
  <2>1. CASE k # Key(c)
    BY <1>2, <2>1, StepAlone DEF CoreInv, Alone, Row, Chained
  <2>2. CASE k = Key(c) /\ pc[c] \in Executing
    BY <1>2, <2>2, HolderChains
  <2>3. CASE k = Key(c) /\ Insert(c)
    <3>1. /\ trace'[k] = <<Note("RUN_CREATED")>> /\ status'[k] = "RECEIVED"
          /\ ~ Moving(Note("RUN_CREATED"))
      BY <2>3 DEF Insert, CoreInv, TypeOK, Note, Moving
    <3>2. Explains(<<Note("RUN_CREATED")>>, "RECEIVED")
      BY <3>1 DEF Explains, LeadsTo
    <3> QED
      BY <3>1, <3>2 DEF Chained
  <2>4. CASE k = Key(c) /\ (MarkError(c) \/ MarkCancelled(c))
    <3>1. PICK error \in Errors : MarkFailed(k, error)
      <4>1. CASE MarkError(c)
        BY <2>4, <4>1 DEF MarkError, CoreInv, PlaceInv
      <4>2. CASE MarkCancelled(c)
        BY <2>4, <4>2 DEF MarkCancelled, Errors
      <4> QED
        BY <2>4, <4>1, <4>2
    <3>2. CASE status[k] \in Terminal
      BY <3>1, <3>2 DEF MarkFailed, Chained
    <3>3. CASE status[k] \notin Terminal
      <4>1. status[k] # "absent"
        BY <2>4 DEF MarkError, MarkCancelled, CoreInv, OneExecutor, Holding, Marking
      <4>2. /\ trace'[k] = Append(trace[k], Failed(status[k], error))
            /\ status'[k] = "FAILED" /\ trace[k] \in Seq(Entry)
            /\ status[k] \in Statuses
        BY <3>1, <3>3, <4>1 DEF MarkFailed, CoreInv, TypeOK
      <4> QED
        BY <4>1, <4>2, EntriesExplain DEF Chained
    <3> QED
      BY <3>2, <3>3
  <2>5. CASE /\ k = Key(c) /\ pc[c] \notin Executing
             /\ ~ (Insert(c) \/ MarkError(c) \/ MarkCancelled(c))
    <3>1. UNCHANGED runVars
      BY <1>2, <2>5 DEF Mine, Serve, Fault, Ask, Replay, LookInVain, LoseRace,
         Claim, StartRetrieval, StartGeneration, Stage, Retrieve, Abstain, DraftAlone,
         QuoteRejected,
         CallModel, Record, LedgerFails, NameCall, RejectOutput, StartAudit, RepairDraft,
         RejectDraft, Complete, Respond, Report, Fail, CancelEarly, Cancel,
         CancelUncovered, MarkRefused, Die, Leave, Executing, Marking
    <3> QED
      BY <3>1 DEF runVars, Chained
  <2> QED
    BY <2>1, <2>2, <2>3, <2>4, <2>5
<1> QED
  BY <1>1, <1>2 DEF Next, Mine

\* Whatever races, cancellations and lost acknowledgements a run meets, its
\* events form one chain from RECEIVED to its status, and a failed run ends in
\* the failure that a later request is told of.
THEOREM TraceTellsStatus == Spec => []TraceExplainsStatus
<1>1. Init => \A k \in Keys : Chained(k)
  BY DEF Init, Chained
<1>2. CoreInv /\ (\A k \in Keys : Chained(k)) => TraceExplainsStatus
  BY DEF CoreInv, RunInv, Chained, TraceExplainsStatus
<1>3. CoreInv /\ (\A k \in Keys : Chained(k)) /\ [Next]_vars
        => CoreInv' /\ (\A k \in Keys : Chained(k))'
  <2> SUFFICES ASSUME CoreInv, \A k \in Keys : Chained(k), [Next]_vars
               PROVE  (\A k \in Keys : Chained(k))'
    BY CoreNext
  <2> QED
    BY ChainNext
<1> QED
  BY <1>1, <1>2, <1>3, CoreInit, PTL DEF Spec

\* What a reply says of a run holds of its row.
Stands(r, k, q) ==
  /\ r.kind = "answered" => /\ status[k] = "COMPLETED" /\ request[k] = q
                            /\ r.answer = answer[k]
  /\ r.kind = "failed" => \/ status[k] = "COMPLETED"
                          \/ /\ status[k] = "FAILED"
                             /\ r.error = trace[k][Len(trace[k])].to
  /\ r.kind # "integrity"

\* A caller at work has told nothing yet; what it told before stands.
TellInv ==
  /\ \A c \in Callers : pc[c] # "idle" => reply[c] = Plain("none")
  /\ \A c \in Callers : Stands(reply[c], Key(c), asking[c].request)

\* A step asks, says nothing new of a run, or is one of the four that tell.
LEMMA ToldOrSilent ==
  ASSUME CoreInv, NEW c \in Callers, Mine(c)
  PROVE  \/ \E k \in Keys, q \in Requests : Ask(c, k, q)
         \/ /\ pc[c] # "idle" /\ asking'[c] = asking[c]
            /\ \/ pc'[c] # "idle" /\ reply'[c] = reply[c]
               \/ pc'[c] = "idle" /\ reply'[c] = Plain("cancelled")
         \/ Replay(c) \/ LoseRace(c) \/ Respond(c) \/ Report(c)
<1> USE DEF CoreInv, TypeOK, Goto
<1>2. CASE CancelEarly(c) \/ MarkCancelled(c)
  BY <1>2 DEF CancelEarly, MarkCancelled, Tell
<1>3. CASE LookInVain(c) \/ Insert(c) \/ DraftAlone(c) \/ QuoteRejected(c) \/ Retrieve(c)
           \/ Claim(c) \/ StartRetrieval(c) \/ StartGeneration(c)
  BY <1>3 DEF LookInVain, Insert, DraftAlone, QuoteRejected, Retrieve, Claim, StartRetrieval,
     StartGeneration, Stage
<1>4. CASE \E sound \in BOOLEAN : Abstain(c, sound)
  BY <1>4 DEF Abstain
<1>5. CASE \/ \E sound \in BOOLEAN : CallModel(c, "drafted", sound)
           \/ \E outcome \in {"rejected", "failed"} : CallModel(c, outcome, FALSE)
  BY <1>5 DEF CallModel
<1>6. CASE Record(c) \/ LedgerFails(c) \/ NameCall(c) \/ RejectOutput(c) \/ RejectDraft(c)
  BY <1>6 DEF Record, LedgerFails, NameCall, Raise, RejectOutput, RejectDraft
<1>7. CASE StartAudit(c) \/ RepairDraft(c) \/ Complete(c) \/ MarkError(c)
  BY <1>7 DEF StartAudit, RepairDraft, Complete, MarkError
<1>8. CASE Fail(c) \/ Cancel(c) \/ CancelUncovered(c) \/ MarkRefused(c) \/ Die(c)
  <2>1. pc[c] # "idle" /\ pc'[c] # "idle"
    BY <1>8 DEF Fail, Cancel, CancelUncovered, MarkRefused, Die, Leave, Raise, Executing, Marking
  <2> QED
    BY <1>8, <2>1 DEF Fail, Cancel, CancelUncovered, MarkRefused, Die, Leave
<1> QED
  BY <1>2, <1>3, <1>4, <1>5, <1>6, <1>7, <1>8 DEF Mine, Serve, Fault

\* What is said of a run that exists holds of its row.
LEMMA ExistingStands ==
  ASSUME CoreInv, NEW k \in Keys, NEW q \in Requests, status[k] # "absent"
  PROVE  Stands(Existing(k, q), k, q)
<1>1. status[k] = "FAILED" => ReplayableFailure(k)
  BY DEF CoreInv, RunInv
<1> QED
  BY <1>1 DEF Existing, Stands, Plain, Answered, Refused

\* What is told stands when it is told.
LEMMA TellsStand ==
  ASSUME CoreInv, NEW c \in Callers, Replay(c) \/ LoseRace(c) \/ Respond(c) \/ Report(c)
  PROVE  /\ UNCHANGED runVars /\ asking'[c] = asking[c] /\ pc'[c] = "idle"
         /\ Stands(reply'[c], Key(c), asking[c].request)
<1> DEFINE k == Key(c)
           q == asking[c].request
<1>1. k \in Keys /\ q \in Requests
  BY KeyType DEF CoreInv, TypeOK, Asking
<1>2. CASE Replay(c) \/ LoseRace(c)
  <2>1. status[k] # "absent" /\ reply'[c] = Existing(k, q)
    BY <1>2 DEF Replay, LoseRace, Tell, CoreInv, TypeOK
  <2>2. Stands(Existing(k, q), k, q)
    BY <1>1, <2>1, ExistingStands
  <2> QED
    BY <1>2, <2>1, <2>2 DEF Replay, LoseRace, Tell, Goto, CoreInv, TypeOK, runVars
<1>3. CASE Respond(c)
  <2>1. /\ status[k] = "COMPLETED" /\ request[k] = q /\ work[c].draft = answer[k]
        /\ reply'[c] = Answered(work[c].draft)
    BY <1>3 DEF Respond, Tell, CoreInv, TypeOK, PlaceInv, OneExecutor, Holding
  <2> QED
    BY <1>3, <2>1 DEF Respond, Tell, Goto, CoreInv, TypeOK, runVars, Stands, Answered
<1>4. CASE Report(c)
  <2>1. /\ \/ status[k] = "COMPLETED"
           \/ status[k] = "FAILED" /\ trace[k][Len(trace[k])].to = work[c].error
        /\ reply'[c] = Refused(work[c].error)
    BY <1>4 DEF Report, Tell, CoreInv, TypeOK, PlaceInv
  <2> QED
    BY <1>4, <2>1 DEF Report, Tell, Goto, CoreInv, TypeOK, runVars, Stands, Refused
<1> QED
  BY <1>2, <1>3, <1>4

\* Every step keeps what was told.
LEMMA TellNext == CoreInv /\ TellInv /\ [Next]_vars => TellInv'
<1> SUFFICES ASSUME CoreInv, TellInv, [Next]_vars PROVE TellInv'
  OBVIOUS
<1>1. CASE UNCHANGED vars
  BY <1>1 DEF vars, runVars, TellInv, Stands, Key
<1>2. ASSUME NEW c \in Callers, Mine(c) PROVE TellInv'
  <2>1. ASSUME NEW k \in Keys, NEW q, NEW r, Stands(r, k, q) PROVE Stands(r, k, q)'
    <3>1. CASE status[k] \in Terminal
      BY <1>2, <2>1, <3>1, EndedStays DEF Stands, Row
    <3>2. CASE status[k] \notin Terminal
      BY <2>1, <3>2 DEF Stands, Terminal
    <3> QED
      BY <3>1, <3>2
  <2>2. ASSUME NEW d \in Callers, d # c
        PROVE  /\ pc'[d] # "idle" => reply'[d] = Plain("none")
               /\ Stands(reply[d], Key(d), asking[d].request)'
    <3>1. pc'[d] = pc[d] /\ asking'[d] = asking[d] /\ reply'[d] = reply[d]
      BY <1>2, <2>2, StepAlone DEF CoreInv, Alone
    <3>2. PICK k \in Keys, q \in Requests, r \in Reply :
            k = Key(d) /\ q = asking[d].request /\ r = reply[d]
      BY KeyType DEF CoreInv, TypeOK, Asking
    <3>3. Stands(r, k, q)'
      BY <2>1, <3>2 DEF TellInv
    <3> QED
      BY <3>1, <3>2, <3>3 DEF TellInv, Stands, Key
  <2>3. /\ pc'[c] # "idle" => reply'[c] = Plain("none")
        /\ Stands(reply[c], Key(c), asking[c].request)'
    <3>1. CASE \/ reply'[c] = Plain("none")
               \/ reply'[c] = Plain("cancelled") /\ pc'[c] = "idle"
      BY <3>1 DEF Stands, Plain
    <3>2. CASE pc[c] # "idle" /\ reply'[c] = reply[c]
      <4>1. reply'[c] = Plain("none")
        BY <3>2 DEF TellInv
      <4> QED
        BY <4>1, <3>1
    <3>4. CASE \E k \in Keys, q \in Requests : Ask(c, k, q)
      <4>1. reply'[c] = Plain("none")
        BY <3>4 DEF Ask, CoreInv, TypeOK
      <4> QED
        BY <4>1, <3>1
    <3>3. CASE Replay(c) \/ LoseRace(c) \/ Respond(c) \/ Report(c)
      BY <3>3, TellsStand DEF Stands, Key, runVars
    <3> QED
      BY <1>2, <3>1, <3>2, <3>3, <3>4, ToldOrSilent
  <2> QED
    BY <2>2, <2>3 DEF TellInv
<1> QED
  BY <1>1, <1>2 DEF Next, Mine

\* Initially nothing was told.
LEMMA TellInit == Init => TellInv
BY DEF Init, TellInv, Stands, Plain

\* Every client's last answer is the stored outcome of the run that holds its
\* key, for ever: completed answers never change, and failures never vanish.
THEOREM RepliesHold == Spec => []RepliesStand
<1>1. TellInv => RepliesStand
  BY DEF TellInv, Stands, RepliesStand
<1> QED
  BY <1>1, TellInit, TellNext, CoreAlways, PTL DEF Spec

---------------------------------------------------------------------------
(* The service implements the promise of an idempotency key. *)

\* The outcome of a run depends on its row only.
LEMMA OutcomeKept ==
  ASSUME NEW k \in Keys, Row(k)' = Row(k) PROVE OutcomeOf(k)' = OutcomeOf(k)
BY DEF OutcomeOf, Row

\* Settled runs have an outcome, the others have none.
LEMMA OutcomeType ==
  ASSUME CoreInv, NEW k \in Keys
  PROVE  /\ status[k] = "COMPLETED" =>
              OutcomeOf(k) \in [kind : {"answered"}, answer : Draft, error : {"none"}]
         /\ status[k] = "FAILED" =>
              OutcomeOf(k) \in [kind : {"failed"}, answer : {NoAnswer}, error : Errors]
         /\ status[k] \notin Terminal => OutcomeOf(k) = Plain("none")
<1>1. RunInv(k)
  BY DEF CoreInv
<1> QED
  BY <1>1 DEF OutcomeOf, RunInv, ReplayableFailure, Answered, Refused, Terminal

\* What is told is the outcome, or a failure of a run that completed, or it says
\* nothing of the run.
LEMMA TellsOutcome ==
  ASSUME CoreInv, NEW c \in Callers, Replay(c) \/ LoseRace(c) \/ Respond(c) \/ Report(c)
  PROVE  LET k == Key(c) q == asking[c].request r == reply'[c]
         IN \/ r = OutcomeOf(k) /\ request[k] = q /\ status[k] \in Terminal
            \/ /\ status[k] = "COMPLETED" /\ request[k] = q
               /\ r \in [kind : {"failed"}, answer : {NoAnswer}, error : Errors]
            \/ r.kind \notin {"answered", "failed"}
<1> DEFINE k == Key(c)
           q == asking[c].request
<1>1. k \in Keys /\ q \in Requests
  BY KeyType DEF CoreInv, TypeOK, Asking
<1>2. CASE Replay(c) \/ LoseRace(c)
  <2>1. reply'[c] = Existing(k, q)
    BY <1>2 DEF Replay, LoseRace, Tell, CoreInv, TypeOK
  <2> QED
    BY <2>1 DEF Existing, OutcomeOf, Terminal, Plain
<1>3. CASE Respond(c)
  <2>1. /\ status[k] = "COMPLETED" /\ request[k] = q /\ work[c].draft = answer[k]
        /\ reply'[c] = Answered(work[c].draft)
    BY <1>3 DEF Respond, Tell, CoreInv, TypeOK, PlaceInv, OneExecutor, Holding
  <2> QED
    BY <2>1 DEF OutcomeOf, Terminal
<1>4. CASE Report(c)
  <2>1. /\ request[k] = q /\ work[c].error \in Errors
        /\ \/ status[k] = "COMPLETED"
           \/ status[k] = "FAILED" /\ trace[k][Len(trace[k])].to = work[c].error
        /\ reply'[c] = Refused(work[c].error)
    BY <1>4 DEF Report, Tell, CoreInv, TypeOK, PlaceInv, OneExecutor, Holding
  <2> QED
    BY <2>1 DEF OutcomeOf, Terminal, Refused
<1> QED
  BY <1>2, <1>3, <1>4

\* Only an insert binds a request.
LEMMA BindsOnce ==
  ASSUME NEW c \in Callers, Mine(c), ~ Insert(c) PROVE request' = request
BY DEF Mine, Serve, Fault, Ask, Replay, LookInVain, LoseRace, Claim, StartRetrieval,
   StartGeneration, Stage, Retrieve, Abstain, DraftAlone, QuoteRejected, CallModel, Record,
   LedgerFails,
   NameCall, RejectOutput, StartAudit, RepairDraft, RejectDraft, Complete, Respond,
   MarkError, Report, MarkCancelled, Fail, CancelEarly, Cancel, CancelUncovered,
   MarkRefused, Die, Leave, runVars

Out == [k \in Keys |-> OutcomeOf(k)]
Said == [c \in Callers |-> ToldOf(c)]

\* The initial states agree.
LEMMA PromiseInit == Init => Promise!Init
<1> SUFFICES ASSUME Init PROVE Promise!Init
  OBVIOUS
<1>1. Out = [k \in Keys |-> Plain("none")]
  BY DEF Init, Out, OutcomeOf
<1>2. Said \in [Callers -> {Promise!Told(k, q, Plain("none")) : k \in Keys, q \in Requests}]
  <2>1. ASSUME NEW c \in Callers
        PROVE  ToldOf(c) \in {Promise!Told(k, q, Plain("none")) : k \in Keys, q \in Requests}
    <3>1. /\ asking[c].key \in Keys /\ asking[c].request \in Requests
          /\ reply[c].kind \notin {"answered", "failed"}
      BY DEF Init, Asking, Plain
    <3>2. ToldOf(c) = Promise!Told(asking[c].key, asking[c].request, Plain("none"))
      BY <3>1 DEF ToldOf, Key, Promise!Told
    <3> QED
      BY <3>1, <3>2
  <2> QED
    BY <2>1 DEF Said
<1> QED
  BY <1>1, <1>2 DEF Init, Promise!Init, Out, Said

\* What other callers were told is not touched.
LEMMA SaidOfOthers ==
  ASSUME CoreInv, NEW c \in Callers, Mine(c), NEW d \in Callers, d # c
  PROVE  ToldOf(d)' = ToldOf(d)
BY StepAlone DEF CoreInv, Alone, ToldOf, Key

\* A caller that says nothing of its run before and after says the same.
LEMMA SaidNothing ==
  ASSUME NEW c \in Callers, asking'[c] = asking[c],
         reply[c].kind \notin {"answered", "failed"},
         reply'[c].kind \notin {"answered", "failed"}
  PROVE  ToldOf(c)' = ToldOf(c)
BY DEF ToldOf, Key

\* A step that tells is an answer, a misinformation, or says nothing.
LEMMA TellingImplements ==
  ASSUME CoreInv, TellInv, NEW c \in Callers,
         Replay(c) \/ LoseRace(c) \/ Respond(c) \/ Report(c)
  PROVE  Promise!Next \/ UNCHANGED Promise!vars
<1>1. PICK k \in Keys, q \in Requests : k = Key(c) /\ q = asking[c].request
  BY KeyType DEF CoreInv, TypeOK, Asking
<1>2. UNCHANGED runVars /\ asking'[c] = asking[c]
  BY TellsStand
<1>3. request' = request /\ Out' = Out
  <2>1. \A j \in Keys : OutcomeOf(j)' = OutcomeOf(j)
    BY <1>2, OutcomeKept DEF runVars, Row
  <2> QED
    BY <1>2, <2>1 DEF runVars, Out
<1>4. Said[c] = [key |-> k, request |-> q, says |-> Plain("none")]
  <2>1. reply[c] = Plain("none")
    BY DEF TellInv, Replay, LoseRace, Respond, Report
  <2> QED
    BY <1>1, <2>1 DEF Said, ToldOf, Plain
<1>5. \A d \in Callers \ {c} : ToldOf(d)' = ToldOf(d)
  <2>1. Mine(c)
    BY DEF Mine, Serve
  <2> QED
    BY <2>1, SaidOfOthers
<1>6. CASE reply'[c].kind \in {"answered", "failed"}
  <2>1. Said' = [Said EXCEPT ![c].says = reply'[c]]
    <3>1. ToldOf(c)' = [key |-> k, request |-> q, says |-> reply'[c]]
      BY <1>1, <1>2, <1>6 DEF ToldOf, Key
    <3>2. [Said[c] EXCEPT !.says = reply'[c]] = [key |-> k, request |-> q, says |-> reply'[c]]
      BY <1>4
    <3>3. Said' = [Said EXCEPT ![c] = ToldOf(c)']
      BY <1>5 DEF Said
    <3> QED
      BY <3>1, <3>2, <3>3
  <2>2. request[k] = q /\ status[k] \in Terminal
    BY <1>1, <1>6, TellsOutcome DEF Terminal
  <2>3. CASE reply'[c] = Out[k]
    <3>1. Out[k] \in [kind : {"answered"}, answer : Draft, error : {"none"}]
                     \union [kind : {"failed"}, answer : {NoAnswer}, error : Errors]
      BY <2>2, OutcomeType DEF Out, Terminal
    <3>2. /\ request[Said[c].key] = Said[c].request
          /\ Out[Said[c].key]
               \in [kind : {"answered"}, answer : Draft, error : {"none"}]
                     \union [kind : {"failed"}, answer : {NoAnswer}, error : Errors]
          /\ Said' = [Said EXCEPT ![c].says = Out[Said[c].key]]
          /\ UNCHANGED <<request, Out>>
      BY <1>3, <1>4, <2>1, <2>2, <2>3, <3>1
    <3>3. Promise!Answer(c)
      BY <3>2 DEF Promise!Answer, Out, Said
    <3> QED
      BY <3>3 DEF Promise!Next
  <2>4. CASE /\ status[k] = "COMPLETED"
             /\ reply'[c] \in [kind : {"failed"}, answer : {NoAnswer}, error : Errors]
    <3>1. Out[k] \in [kind : {"answered"}, answer : Draft, error : {"none"}]
      BY <2>4, OutcomeType DEF Out
    <3>2. Promise!Misinform(c, reply'[c])
      BY <1>3, <1>4, <2>1, <2>2, <3>1 DEF Promise!Misinform, Out, Said
    <3> QED
      BY <2>4, <3>2 DEF Promise!Next
  <2> QED
    BY <1>1, <1>6, <2>3, <2>4, TellsOutcome DEF Out
<1>7. CASE reply'[c].kind \notin {"answered", "failed"}
  <2>1. ToldOf(c)' = ToldOf(c)
    <3>1. reply[c].kind \notin {"answered", "failed"}
      BY DEF TellInv, Plain, Replay, LoseRace, Respond, Report
    <3> QED
      BY <1>2, <1>7, <3>1, SaidNothing
  <2>2. Said' = Said
    BY <1>5, <2>1 DEF Said
  <2> QED
    BY <1>3, <2>2 DEF Promise!vars, Out, Said
<1> QED
  BY <1>6, <1>7

\* A step that asks asks.
LEMMA AskingImplements ==
  ASSUME CoreInv, TellInv, NEW c \in Callers, NEW k \in Keys, NEW q \in Requests,
         Ask(c, k, q)
  PROVE  Promise!Next \/ UNCHANGED Promise!vars
<1>1. request' = request /\ Out' = Out
  <2>1. \A j \in Keys : OutcomeOf(j)' = OutcomeOf(j)
    BY OutcomeKept DEF Ask, runVars, Row
  <2> QED
    BY <2>1 DEF Ask, runVars, Out
<1>2. ToldOf(c)' = Promise!Told(k, q, Plain("none"))
  BY DEF Ask, ToldOf, Key, Plain, Promise!Told, CoreInv, TypeOK
<1>3. \A d \in Callers \ {c} : ToldOf(d)' = ToldOf(d)
  <2>1. Mine(c)
    BY DEF Mine
  <2> QED
    BY <2>1, SaidOfOthers
<1>4. Said' = [Said EXCEPT ![c] = Promise!Told(k, q, Plain("none"))]
  BY <1>2, <1>3 DEF Said
<1>5. Promise!Ask(c, k, q)
  BY <1>1, <1>4 DEF Promise!Ask, Out, Said
<1> QED
  BY <1>5 DEF Promise!Next

\* Any other step binds a request, settles an outcome, or neither.
LEMMA WorkImplements ==
  ASSUME CoreInv, CoreInv', TellInv, NEW c \in Callers, Mine(c),
         /\ pc[c] # "idle" /\ asking'[c] = asking[c]
         /\ reply'[c] \in {reply[c], Plain("cancelled")}
  PROVE  Promise!Next \/ UNCHANGED Promise!vars
<1>1. PICK k \in Keys : k = Key(c)
  BY KeyType DEF CoreInv
<1>2. Said' = Said
  <2>1. ToldOf(c)' = ToldOf(c)
    <3>1. reply[c].kind = "none" /\ reply'[c].kind \in {"none", "cancelled"}
      BY DEF TellInv, Plain
    <3> QED
      BY <3>1, SaidNothing
  <2> QED
    BY <2>1, SaidOfOthers DEF Said
<1>3. \A j \in Keys \ {k} : OutcomeOf(j)' = OutcomeOf(j)
  BY <1>1, StepAlone, OutcomeKept DEF CoreInv, Alone
<1>4. Out' = [Out EXCEPT ![k] = OutcomeOf(k)']
  BY <1>3 DEF Out
<1>5. CASE Insert(c)
  <2>1. status[k] = "absent" /\ status'[k] = "RECEIVED"
    BY <1>1, <1>5 DEF Insert, CoreInv, TypeOK
  <2>2. OutcomeOf(k) = Plain("none") /\ OutcomeOf(k)' = Plain("none")
    BY <2>1 DEF OutcomeOf
  <2>3. Out' = Out
    BY <1>3, <2>2 DEF Out
  <2>4. request[k] = NoRequest
    BY <2>1 DEF CoreInv, RunInv
  <2>5. request' = [request EXCEPT ![k] = asking[c].request]
    BY <1>1, <1>5 DEF Insert
  <2>6. Promise!Bind(k, asking[c].request)
    BY <1>2, <2>3, <2>4, <2>5 DEF Promise!Bind, Out, Said
  <2>7. asking[c].request \in Requests
    BY DEF CoreInv, TypeOK, Asking
  <2> QED
    BY <2>6, <2>7 DEF Promise!Next
<1>6. CASE ~ Insert(c)
  <2>1. request' = request
    BY <1>6, BindsOnce
  <2>2. CASE OutcomeOf(k)' = OutcomeOf(k)
    <3>1. Out' = Out
      BY <1>3, <2>2 DEF Out
    <3> QED
      BY <1>2, <2>1, <3>1 DEF Promise!vars, Out, Said
  <2>3. CASE OutcomeOf(k)' # OutcomeOf(k)
    <3>1. status[k] \notin Terminal
      BY <2>3, EndedStays, OutcomeKept
    <3>2. OutcomeOf(k) = Plain("none")
      BY <3>1, OutcomeType
    <3>3. status'[k] \in Terminal
      BY <2>3, <3>2 DEF OutcomeOf, Terminal
    <3>4. Out'[k] \in [kind : {"answered"}, answer : Draft, error : {"none"}]
                      \union [kind : {"failed"}, answer : {NoAnswer}, error : Errors]
      <4>1. RunInv(k)'
        BY DEF CoreInv
      <4>2. OutcomeOf(k)' \in [kind : {"answered"}, answer : Draft, error : {"none"}]
                      \union [kind : {"failed"}, answer : {NoAnswer}, error : Errors]
        BY <3>3, <4>1 DEF OutcomeOf, RunInv, ReplayableFailure, Answered, Refused, Terminal
      <4> QED
        BY <4>2 DEF Out
    <3>5. request[k] # NoRequest
      <4>1. RunInv(k)' /\ status'[k] # "absent"
        BY <3>3 DEF CoreInv, Terminal
      <4> QED
        BY <2>1, <4>1, NoRequestAssumption DEF RunInv
    <3>6. Out[k] = Plain("none") /\ Out' = [Out EXCEPT ![k] = Out'[k]]
      BY <1>4, <3>2 DEF Out
    <3>7. Promise!Settle(k)
      BY <1>2, <2>1, <3>4, <3>5, <3>6 DEF Promise!Settle, Out, Said
    <3> QED
      BY <3>7 DEF Promise!Next
  <2> QED
    BY <2>2, <2>3
<1> QED
  BY <1>5, <1>6

\* Every step of the service is a step of the promise or none.
LEMMA PromiseNext ==
  CoreInv /\ CoreInv' /\ TellInv /\ [Next]_vars => [Promise!Next]_(Promise!vars)
<1> SUFFICES ASSUME CoreInv, CoreInv', TellInv, [Next]_vars
             PROVE  Promise!Next \/ UNCHANGED Promise!vars
  OBVIOUS
<1>1. CASE UNCHANGED vars
  <2>1. Out' = Out /\ Said' = Said /\ request' = request
    BY <1>1 DEF vars, runVars, Out, Said, OutcomeOf, ToldOf, Key
  <2> QED
    BY <2>1 DEF Promise!vars, Out, Said
<1>2. ASSUME NEW c \in Callers, Mine(c) PROVE Promise!Next \/ UNCHANGED Promise!vars
  <2>1. CASE \E k \in Keys, q \in Requests : Ask(c, k, q)
    BY <2>1, AskingImplements
  <2>2. CASE Replay(c) \/ LoseRace(c) \/ Respond(c) \/ Report(c)
    BY <2>2, TellingImplements
  <2>3. CASE /\ pc[c] # "idle" /\ asking'[c] = asking[c]
             /\ reply'[c] \in {reply[c], Plain("cancelled")}
    BY <1>2, <2>3, WorkImplements
  <2> QED
    BY <1>2, <2>1, <2>2, <2>3, ToldOrSilent
<1> QED
  BY <1>1, <1>2 DEF Next, Mine

\* For any callers, keys, requests and repairs, the service keeps the promise of
\* the idempotency key: bound once, settled once, told truthfully.
THEOREM ServiceKeepsPromise == Spec => KeepsPromise
BY PromiseInit, PromiseNext, CoreAlways, TellInit, TellNext, PTL
   DEF Spec, KeepsPromise, Promise!Spec

---------------------------------------------------------------------------
(* The calls to the model: every one is accounted for, and a question costs *)
(* a bounded number of them, for any setting of the repairs.                *)

Limit == (MaxRepairs + 1) * (MaxRepairs + 1)
Spent(w) == w.repairs * (MaxRepairs + 1) + w.retries

\* The books of a run agree.
CallRun(k) ==
  /\ manifest[k] \subseteq ledger[k] /\ ledger[k] \subseteq 1..calls[k]
  /\ calls[k] <= Limit
  /\ status[k] = "absent" => calls[k] = 0
  /\ status[k] = "COMPLETED" => /\ manifest[k] = 1..calls[k]
                                /\ answer[k].call \in {0} \union manifest[k]

\* An executor has the calls of its run in hand, and each one was paid for by a
\* repair it counted.
CallPlace(c) ==
  LET n == calls[Key(c)]  w == work[c]
  IN /\ pc[c] \in {"idle", "looking", "inserting", "created", "authorized",
                   "retrieving", "retrieved"} => w = Fresh
     /\ pc[c] \in {"created", "authorized", "retrieving", "retrieved"} => n = 0
     /\ pc[c] \in {"generating", "naming", "rejected", "drafted", "auditing"}
          => w.named = 1..n /\ w.named \subseteq ledger[Key(c)]
     /\ pc[c] = "recording" => /\ n >= 1 /\ w.named = 1..(n - 1)
                               /\ w.named \subseteq ledger[Key(c)]
                               /\ w.outcome = "drafted" => w.draft.call = n
     /\ pc[c] \in {"drafted", "auditing"} => w.draft.call \in {0} \union (1..n)
     /\ pc[c] = "auditing" => manifest[Key(c)] = 1..n
     /\ pc[c] \in Executing => w.repairs <= MaxRepairs /\ w.retries <= MaxRepairs
     /\ pc[c] = "generating" => n <= Spent(w)
     /\ pc[c] \in {"recording", "naming", "rejected", "drafted", "auditing"}
          => n <= Spent(w) + 1

CallInv == /\ \A k \in Keys : CallRun(k)
           /\ \A c \in Callers : CallPlace(c)

---------------------------------------------------------------------------
\* A round of repairs never overruns the limit.
LEMMA WithinLimit ==
  ASSUME NEW r \in Nat, NEW t \in Nat, r <= MaxRepairs, t <= MaxRepairs
  PROVE  /\ r * (MaxRepairs + 1) + t + 1 <= Limit
         /\ r * (MaxRepairs + 1) + t + 1 <= (r + 1) * (MaxRepairs + 1)
         /\ r * (MaxRepairs + 1) \in Nat
<1> DEFINE m == MaxRepairs + 1
<1>1. m \in Nat /\ r + 1 <= m /\ t + 1 <= m
  BY RepairsAssumption
<1>2. ASSUME NEW a \in Nat, NEW b \in Nat, NEW n \in Nat, a <= b PROVE a * n <= b * n
  BY <1>2
<1>3. (r + 1) * m <= m * m
  BY <1>1, <1>2
<1>4. (r + 1) * m = r * m + m /\ r * m \in Nat /\ m * m \in Nat
  BY <1>1
<1> QED
  BY <1>1, <1>3, <1>4 DEF Limit

\* Initially nothing was called.
LEMMA CallsInit == Init => CallInv
<1> SUFFICES ASSUME Init PROVE CallInv
  OBVIOUS
<1>1. Limit \in Nat
  BY RepairsAssumption, WithinLimit DEF Limit
<1>2. ASSUME NEW k \in Keys PROVE CallRun(k)
  BY <1>1 DEF Init, CallRun
<1>3. ASSUME NEW c \in Callers PROVE CallPlace(c)
  BY DEF Init, CallPlace, Executing
<1> QED
  BY <1>2, <1>3 DEF CallInv

Books(k) == <<status[k], answer[k], manifest[k], ledger[k], calls[k]>>

\* Books that do not change agree still.
LEMMA BooksKept ==
  ASSUME NEW k \in Keys, CallRun(k), Books(k)' = Books(k) PROVE CallRun(k)'
BY DEF CallRun, Books

\* A place is kept when neither the caller nor its books change.
LEMMA CallPlaceKept ==
  ASSUME NEW d \in Callers, CallPlace(d), pc'[d] = pc[d], work'[d] = work[d],
         asking'[d] = asking[d], NEW j \in Keys, j = Key(d), Books(j)' = Books(j)
  PROVE  CallPlace(d)'
BY DEF CallPlace, Books, Key, Spent

\* A step changes no other books than its run's.
LEMMA BooksAlone ==
  ASSUME TypeOK, NEW c \in Callers, Mine(c), NEW j \in Keys, j # Key(c)
  PROVE  Books(j)' = Books(j)
<1>1. Row(j)' = Row(j)
  BY StepAlone DEF Alone
<1>2. manifest'[j] = manifest[j] /\ ledger'[j] = ledger[j] /\ calls'[j] = calls[j]
  BY DEF TypeOK, Mine, Serve, Fault, Ask, Replay, LookInVain, LoseRace, Insert, Claim,
     StartRetrieval, StartGeneration, Stage, Retrieve, Abstain, DraftAlone, QuoteRejected,
     CallModel,
     Record, LedgerFails, NameCall, RejectOutput, StartAudit, RepairDraft, RejectDraft,
     Complete, Respond, MarkError, Report, MarkCancelled, Fail, CancelEarly, Cancel,
     CancelUncovered, MarkRefused, Die, Leave, runVars, callVars
<1> QED
  BY <1>1, <1>2 DEF Row, Books

\* What is left to show of a step: the books and the place of its caller.
LEMMA CallStep ==
  ASSUME CoreInv, CoreInv', CallInv, NEW c \in Callers, Mine(c),
         NEW k \in Keys, k = Key(c), CallRun(k)', CallPlace(c)',
         \/ (pc[c] \in Holding \/ pc'[c] \in Holding) /\ asking' = asking
         \/ Books(k)' = Books(k)
  PROVE  CallInv'
<1>1. ASSUME NEW j \in Keys PROVE CallRun(j)'
  BY BooksAlone, BooksKept DEF CoreInv, CallInv
<1>2. ASSUME NEW d \in Callers, d # c PROVE CallPlace(d)'
  <2>1. pc'[d] = pc[d] /\ work'[d] = work[d] /\ asking'[d] = asking[d]
    BY <1>2, StepAlone DEF CoreInv, Alone
  <2>2. PICK j \in Keys : j = Key(d)
    BY KeyType DEF CoreInv
  <2>3. CASE Books(j)' = Books(j)
    BY <2>1, <2>2, <2>3, CallPlaceKept DEF CallInv
  <2>4. CASE Books(j)' # Books(j)
    <3>1. j = k /\ (pc[c] \in Holding \/ pc'[c] \in Holding) /\ asking' = asking
      BY <2>4, BooksAlone DEF CoreInv
    <3>2. pc[d] \notin Holding
      BY ZenonT(60), <1>2, <2>1, <2>2, <3>1 DEF CoreInv, OneExecutor, Key
    <3>3. pc[d] \notin Executing
      BY <3>2 DEF Holding
    <3>4. CallPlace(d)
      BY DEF CallInv
    <3> QED
      BY <2>1, <3>3, <3>4 DEF CallPlace, Executing
  <2> QED
    BY <2>3, <2>4
<1> QED
  BY <1>1, <1>2 DEF CallInv

\* Books that only a new status was entered in.
LEMMA StatusOnly ==
  ASSUME NEW k \in Keys, CallRun(k), UNCHANGED <<manifest, callVars>>,
         status'[k] # "absent",
         status'[k] = "COMPLETED" => status[k] = "COMPLETED" /\ answer'[k] = answer[k]
  PROVE  CallRun(k)'
BY DEF CallRun, callVars

---------------------------------------------------------------------------
(* The steps. *)

\* What a caller holds has its type.
LEMMA WorkTypes ==
  ASSUME CoreInv, NEW c \in Callers
  PROVE  /\ Key(c) \in Keys /\ calls[Key(c)] \in Nat /\ work[c] \in Work
         /\ work[c].repairs \in Nat /\ work[c].retries \in Nat
         /\ manifest[Key(c)] \in SUBSET Nat /\ ledger[Key(c)] \in SUBSET Nat
<1>1. Key(c) \in Keys
  BY KeyType DEF CoreInv
<1> QED
  BY <1>1 DEF CoreInv, TypeOK, Work

\* Callers without a run.
LEMMA OutsideCalls ==
  ASSUME CoreInv, CoreInv', CallInv, NEW c \in Callers,
         \/ \E k \in Keys, q \in Requests : Ask(c, k, q)
         \/ Replay(c) \/ LookInVain(c) \/ LoseRace(c) \/ CancelEarly(c)
  PROVE  CallInv'
<1>1. Mine(c)
  BY DEF Mine, Serve, Fault
<1>2. PICK k \in Keys : k = Key(c)
  BY WorkTypes
<1>3. Books(k)' = Books(k) /\ CallRun(k)'
  <2>1. Books(k)' = Books(k)
    BY DEF Ask, Replay, LookInVain, LoseRace, CancelEarly, runVars, callVars, Books
  <2> QED
    BY <2>1, BooksKept DEF CallInv
<1>4. work[c] = Fresh
  BY DEF Ask, Replay, LookInVain, LoseRace, CancelEarly, CallInv, CallPlace
<1>5. work'[c] = Fresh /\ pc'[c] \in {"idle", "looking", "inserting"}
  BY <1>4 DEF Ask, Replay, LookInVain, LoseRace, CancelEarly, Tell, Goto, CoreInv, TypeOK
<1>6. CallPlace(c)'
  BY <1>5 DEF CallPlace, Executing
<1> QED
  BY <1>1, <1>2, <1>3, <1>6, CallStep

\* The steps before the first call.
LEMMA EarlyCalls ==
  ASSUME CoreInv, CoreInv', CallInv, NEW c \in Callers,
         Insert(c) \/ Claim(c) \/ StartRetrieval(c) \/ Retrieve(c) \/ StartGeneration(c)
  PROVE  CallInv'
<1>1. Mine(c)
  BY DEF Mine, Serve
<1>2. PICK k \in Keys : k = Key(c)
  BY WorkTypes
<1>3. /\ UNCHANGED <<manifest, callVars, asking, answer>>
      /\ work'[c] = work[c] /\ Key(c)' = k
      /\ pc'[c] \in {"created", "authorized", "retrieving", "retrieved", "generating"}
  BY <1>2 DEF Insert, Claim, StartRetrieval, Retrieve, StartGeneration, Stage, Goto, CoreInv,
     TypeOK, Key
<1>4. status'[k] \notin {"absent", "COMPLETED"}
  <2>1. PlaceInv(c)'
    BY DEF CoreInv
  <2> QED
    BY <1>3, <2>1 DEF PlaceInv
<1>5. CallRun(k)'
  BY <1>3, <1>4, StatusOnly DEF CallInv
<1>6. work[c] = Fresh /\ calls[k] = 0
  <2>1. Insert(c) => status[k] = "absent"
    BY <1>2 DEF Insert
  <2> QED
    BY <1>2, <2>1 DEF Insert, Claim, StartRetrieval, Retrieve, StartGeneration, Stage,
       CallInv, CallRun, CallPlace
<1>7. work'[c] = Fresh /\ calls'[Key(c)'] = 0
  BY <1>3, <1>6 DEF callVars
<1>8. 0 <= Spent(Fresh) /\ Fresh.named = 1..0 /\ Fresh.repairs = 0 /\ Fresh.retries = 0
  BY RepairsAssumption DEF Spent, Fresh
<1>9. CallPlace(c)'
  BY <1>3, <1>7, <1>8, RepairsAssumption DEF CallPlace, Spent
<1>10. pc'[c] \in Holding
  BY <1>3 DEF Holding, Executing
<1> QED
  BY <1>1, <1>2, <1>3, <1>5, <1>9, <1>10, CallStep

\* The abstention makes no call.
LEMMA AbstainCalls ==
  ASSUME CoreInv, CoreInv', CallInv, NEW c \in Callers, NEW sound \in BOOLEAN,
         Abstain(c, sound)
  PROVE  CallInv'
<1>1. Mine(c) /\ pc[c] \in Holding /\ asking' = asking
  BY DEF Mine, Serve, Abstain, Holding, Executing
<1>2. PICK k \in Keys : k = Key(c)
  BY WorkTypes
<1>3. /\ UNCHANGED <<manifest, callVars, answer>> /\ Key(c)' = k /\ pc'[c] = "auditing"
  BY <1>2 DEF Abstain, Goto, CoreInv, TypeOK, Key
<1>4. status'[k] = "AUDITING"
  BY <1>2 DEF Abstain, Transit, CoreInv, TypeOK
<1>5. CallRun(k)'
  BY <1>3, <1>4, StatusOnly DEF CallInv
<1>6. /\ work[c] = Fresh /\ calls[k] = 0 /\ manifest[k] = {}
  BY <1>2 DEF Abstain, CallInv, CallRun, CallPlace
<1>7. /\ work'[c].draft.call = 0 /\ work'[c].named = {} /\ work'[c].repairs = 0
      /\ work'[c].retries = 0
  BY <1>6 DEF Abstain, CoreInv, TypeOK, Fresh
<1>8. calls'[Key(c)'] = 0 /\ manifest'[Key(c)'] = {} /\ 1..0 = {}
  BY <1>3, <1>6 DEF callVars
<1>9. CallPlace(c)'
  BY <1>3, <1>7, <1>8, RepairsAssumption DEF CallPlace, Spent
<1> QED
  BY <1>1, <1>2, <1>5, <1>9, CallStep

\* Neither does a draft without a call, nor rejecting a draft or an output.
LEMMA RepairCalls ==
  ASSUME CoreInv, CoreInv', CallInv, NEW c \in Callers,
         DraftAlone(c) \/ QuoteRejected(c) \/ RejectOutput(c) \/ RepairDraft(c)
  PROVE  CallInv'
<1>1. Mine(c) /\ pc[c] \in Executing /\ pc[c] \in Holding /\ asking' = asking
  BY DEF Mine, Serve, DraftAlone, QuoteRejected, RejectOutput, RepairDraft, Holding,
  Executing, Goto
<1>2. PICK k \in Keys : k = Key(c)
  BY WorkTypes
<1>3. UNCHANGED <<manifest, callVars, answer>> /\ Key(c)' = k
  BY <1>2 DEF DraftAlone, QuoteRejected, RejectOutput, RepairDraft, CoreInv, TypeOK, Key,
  runVars
<1>4. status'[k] \notin {"absent", "COMPLETED"}
  <2>1. status[k] = "GENERATING" \/ RepairDraft(c)
    BY <1>2 DEF DraftAlone, QuoteRejected, RejectOutput, CoreInv, PlaceInv
  <2> QED
    BY <1>2, <2>1 DEF DraftAlone, QuoteRejected, RejectOutput, Noted, RepairDraft, Transit,
       CoreInv, TypeOK,
       runVars
<1>5. CallRun(k)'
  BY <1>3, <1>4, StatusOnly DEF CallInv
<1>6. CallPlace(c)
  BY DEF CallInv
<1> DEFINE w == work[c]
           n == calls[k]
<1>7. /\ n \in Nat /\ w \in Work /\ w.repairs \in Nat /\ w.retries \in Nat
      /\ calls'[Key(c)'] = n /\ ledger'[Key(c)'] = ledger[k] /\ n <= Limit
  BY <1>2, <1>3, WorkTypes DEF callVars, CallInv, CallRun
<1>8. CASE DraftAlone(c) \/ QuoteRejected(c)
  <2>1. /\ pc'[c] \in {"drafted", "rejected"}
        /\ pc'[c] = "drafted" => work'[c].draft.call = 0
        /\ work'[c].named = w.named /\ work'[c].repairs = w.repairs
        /\ work'[c].retries = w.retries
    <3>1. CASE DraftAlone(c)
      BY <3>1 DEF DraftAlone, Goto, CoreInv, TypeOK, Work
    <3>2. CASE QuoteRejected(c)
      BY <3>2 DEF QuoteRejected, Goto, CoreInv, TypeOK, Work
    <3> QED
      BY <1>8, <3>1, <3>2
  <2>2. pc[c] = "generating"
    BY <1>8 DEF DraftAlone, QuoteRejected
  <2>3. Spent(w) \in Nat
    <3>1. w.repairs <= MaxRepairs /\ w.retries <= MaxRepairs
      BY <1>6, <2>2 DEF CallPlace, Executing
    <3>2. w.repairs * (MaxRepairs + 1) \in Nat
      BY <1>7, <3>1, WithinLimit
    <3> QED
      BY <1>7, <3>2 DEF Spent
  <2>4. n <= Spent(w) + 1 /\ w.named = 1..n /\ w.named \subseteq ledger[k]
        /\ w.repairs <= MaxRepairs /\ w.retries <= MaxRepairs
    BY <1>2, <1>6, <1>7, <2>2, <2>3 DEF CallPlace, Executing
  <2>5. Spent(work'[c]) = Spent(w)
    BY <2>1 DEF Spent
  <2>6. CallPlace(c)'
    BY <1>7, <2>1, <2>4, <2>5 DEF CallPlace
  <2> QED
    BY <1>1, <1>2, <1>5, <2>6, CallStep
<1>9. CASE RejectOutput(c)
  <2>1. n <= Spent(w) + 1 /\ w.named = 1..n /\ w.named \subseteq ledger[k]
        /\ w.repairs <= MaxRepairs /\ w.retries <= MaxRepairs
    BY <1>2, <1>6, <1>9 DEF RejectOutput, CallPlace, Executing
  <2>2. CASE w.retries >= MaxRepairs
    <3>1. pc'[c] = "failing"
      BY <1>9, <2>2 DEF RejectOutput, Raise, Goto, CoreInv, TypeOK
    <3>2. CallPlace(c)'
      BY <3>1 DEF CallPlace, Executing
    <3> QED
      BY <1>1, <1>2, <1>5, <3>2, CallStep
  <2>3. CASE ~ (w.retries >= MaxRepairs)
    <3>1. /\ pc'[c] = "generating" /\ work'[c].named = w.named
          /\ work'[c].repairs = w.repairs /\ work'[c].retries = w.retries + 1
      <4>1. work' = [work EXCEPT ![c] = [w EXCEPT !.retries = @ + 1]]
        BY <1>9, <2>3 DEF RejectOutput, CoreInv, TypeOK
      <4>2. work'[c] = [w EXCEPT !.retries = @ + 1]
        BY <4>1 DEF CoreInv, TypeOK
      <4> QED
        BY <1>7, <1>9, <2>3, <4>2 DEF RejectOutput, Goto, CoreInv, TypeOK, Work
    <3>2. n <= Spent(work'[c]) /\ w.retries + 1 <= MaxRepairs
      BY <1>7, <2>1, <2>3, <3>1, WithinLimit, RepairsAssumption DEF Spent
    <3>3. CallPlace(c)'
      BY <1>7, <2>1, <3>1, <3>2 DEF CallPlace
    <3> QED
      BY <1>1, <1>2, <1>5, <3>3, CallStep
  <2> QED
    BY <2>2, <2>3
<1>10. CASE RepairDraft(c)
  <2>1. n <= Spent(w) + 1 /\ w.named = 1..n /\ w.named \subseteq ledger[k]
        /\ w.repairs <= MaxRepairs /\ w.retries <= MaxRepairs
    BY <1>2, <1>6, <1>10 DEF RepairDraft, CallPlace, Executing
  <2>2. /\ pc'[c] = "generating" /\ work'[c].named = w.named
        /\ work'[c].repairs = w.repairs + 1 /\ work'[c].retries = 0
        /\ w.repairs < MaxRepairs
    <3>1. work' = [work EXCEPT ![c] = [w EXCEPT !.repairs = @ + 1, !.retries = 0]]
      BY <1>10 DEF RepairDraft, CoreInv, TypeOK
    <3>2. work'[c] = [w EXCEPT !.repairs = @ + 1, !.retries = 0]
      BY <3>1 DEF CoreInv, TypeOK
    <3> QED
      BY <1>7, <1>10, <3>2 DEF RepairDraft, Goto, CoreInv, TypeOK, Work
  <2>3. n <= (w.repairs + 1) * (MaxRepairs + 1)
    <3>1. Spent(w) + 1 <= (w.repairs + 1) * (MaxRepairs + 1)
      BY <1>7, <2>1, WithinLimit DEF Spent
    <3>2. Spent(w) \in Nat /\ (w.repairs + 1) * (MaxRepairs + 1) \in Int
      BY SMTT(30), <1>7, <2>1, WithinLimit, RepairsAssumption DEF Spent
    <3> QED
      BY <1>7, <2>1, <3>1, <3>2
  <2>4. n <= Spent(work'[c])
    BY <1>7, <2>2, <2>3, RepairsAssumption DEF Spent
  <2>5. CallPlace(c)'
    BY <1>7, <2>1, <2>2, <2>4, RepairsAssumption DEF CallPlace
  <2> QED
    BY <1>1, <1>2, <1>5, <2>5, CallStep
<1> QED
  BY <1>8, <1>9, <1>10

\* One more call than was paid for is within the limit.
LEMMA OneMoreCall ==
  ASSUME CoreInv, NEW c \in Callers, NEW n \in Nat, n <= Spent(work[c]),
         work[c].repairs <= MaxRepairs, work[c].retries <= MaxRepairs
  PROVE  Spent(work[c]) \in Nat /\ n + 1 <= Limit
<1> DEFINE r == work[c].repairs
           t == work[c].retries
           p == r * (MaxRepairs + 1)
<1>1. r \in Nat /\ t \in Nat /\ r <= MaxRepairs /\ t <= MaxRepairs
  BY WorkTypes
<1>2. p + t + 1 <= Limit /\ p \in Nat
  BY <1>1, WithinLimit
<1>3. Spent(work[c]) = p + t
  BY DEF Spent
<1>4. Limit \in Nat
  BY RepairsAssumption DEF Limit
<1> HIDE DEF r, t, p
<1> QED
  BY <1>1, <1>2, <1>3, <1>4

\* A call is the next one, and within the limit.
LEMMA ModelCalls ==
  ASSUME CoreInv, CoreInv', CallInv, NEW c \in Callers,
         NEW outcome \in {"drafted", "rejected", "failed"}, NEW sound \in BOOLEAN,
         CallModel(c, outcome, sound), Mine(c)
  PROVE  CallInv'
<1>1. pc[c] = "generating" /\ pc[c] \in Executing /\ pc[c] \in Holding /\ asking' = asking
  BY DEF CallModel, Holding, Executing
<1>2. PICK k \in Keys : k = Key(c)
  BY WorkTypes
<1> DEFINE w == work[c]
           n == calls[k]
<1>3. /\ n \in Nat /\ w \in Work /\ w.repairs \in Nat /\ w.retries \in Nat
      /\ ledger[k] \in SUBSET Nat
  BY <1>2, WorkTypes
<1>4. /\ n <= Spent(w) /\ w.named = 1..n /\ w.named \subseteq ledger[k]
      /\ w.repairs <= MaxRepairs /\ w.retries <= MaxRepairs
  BY <1>1, <1>2 DEF CallInv, CallPlace
<1>5. /\ calls'[k] = n + 1 /\ UNCHANGED <<status, answer, manifest, ledger>>
      /\ Key(c)' = k /\ pc'[c] = "recording"
      /\ work'[c].named = w.named /\ work'[c].repairs = w.repairs
      /\ work'[c].retries = w.retries /\ work'[c].outcome = outcome
      /\ outcome = "drafted" => work'[c].draft.call = n + 1
  BY <1>2, <1>3 DEF CallModel, Goto, CoreInv, TypeOK, Key, runVars, Work
<1>6. Spent(w) \in Nat /\ n + 1 <= Limit
  BY <1>3, <1>4, OneMoreCall
<1>7. CallRun(k)'
  <2>1. status[k] = "GENERATING" /\ CallRun(k)
    BY <1>1, <1>2 DEF CoreInv, PlaceInv, CallInv
  <2> QED
    BY <1>3, <1>5, <1>6, <2>1 DEF CallRun
<1>8. CallPlace(c)'
  <2>1. n + 1 <= Spent(work'[c]) + 1
    <3>1. Spent(work'[c]) = Spent(w)
      BY <1>5 DEF Spent
    <3> QED
      BY <1>3, <1>4, <1>6, <3>1
  <2>2. n + 1 >= 1 /\ 1..(n + 1 - 1) = 1..n
    BY <1>3
  <2>3. (calls[Key(c)] <= Spent(work[c]) + 1)'
    BY <1>5, <2>1 DEF Spent
  <2>4. (/\ calls[Key(c)] >= 1 /\ work[c].named = 1..(calls[Key(c)] - 1)
         /\ work[c].named \subseteq ledger[Key(c)]
         /\ work[c].outcome = "drafted" => work[c].draft.call = calls[Key(c)]
         /\ work[c].repairs <= MaxRepairs /\ work[c].retries <= MaxRepairs)'
    <3>1. calls'[Key(c)'] = n + 1 /\ ledger'[Key(c)'] = ledger[k]
      BY <1>5
    <3>2. n + 1 >= 1 /\ work'[c].named = 1..((n + 1) - 1)
      <4>1. work'[c].named = w.named
        BY <1>5
      <4>2. w.named = 1..n
        BY <1>4
      <4>3. n + 1 >= 1 /\ (n + 1) - 1 = n
        BY <1>3
      <4> QED
        BY <4>1, <4>2, <4>3
    <3>3. work'[c].named \subseteq ledger'[Key(c)']
      BY <1>4, <1>5, <3>1
    <3> HIDE DEF n
    <3> QED
      BY <1>4, <1>5, <3>1, <3>2, <3>3
  <2>5. pc'[c] = "recording"
    BY <1>5
  <2> QED
    BY <2>3, <2>4, <2>5 DEF CallPlace
<1> QED
  BY <1>1, <1>2, <1>7, <1>8, CallStep

\* The ledger row of a call is written before it is named.
LEMMA RecordCalls ==
  ASSUME CoreInv, CoreInv', CallInv, NEW c \in Callers, Record(c)
  PROVE  CallInv'
<1>1. Mine(c) /\ pc[c] = "recording" /\ pc[c] \in Executing /\ pc[c] \in Holding
      /\ asking' = asking
  BY DEF Mine, Serve, Record, Holding, Executing
<1>2. PICK k \in Keys : k = Key(c)
  BY WorkTypes
<1> DEFINE w == work[c]
           n == calls[k]
<1>3. /\ n \in Nat /\ w \in Work /\ w.repairs \in Nat /\ w.retries \in Nat
      /\ ledger[k] \in SUBSET Nat
  BY <1>2, WorkTypes
<1>4. /\ n <= Spent(w) + 1 /\ n >= 1 /\ w.named = 1..(n - 1)
      /\ w.named \subseteq ledger[k]
      /\ w.repairs <= MaxRepairs /\ w.retries <= MaxRepairs
      /\ w.outcome = "drafted" => w.draft.call = n
  BY <1>1, <1>2 DEF CallInv, CallPlace
<1>5. /\ UNCHANGED <<status, answer, manifest, calls>> /\ Key(c)' = k
      /\ ledger'[k] = ledger[k] \union {n} /\ work'[c].named = w.named \union {n}
      /\ work'[c].repairs = w.repairs /\ work'[c].retries = w.retries
      /\ work'[c].draft = w.draft
      /\ pc'[c] = IF w.outcome = "drafted" THEN "drafted" ELSE "naming"
  BY <1>2, <1>3 DEF Record, Goto, CoreInv, TypeOK, Key, runVars, Work
<1>6. w.named \union {n} = 1..n /\ n \in 1..n
  BY <1>3, <1>4
<1>7. CallRun(k)'
  BY <1>2, <1>5, <1>6 DEF CallInv, CallRun
<1>8. CallPlace(c)'
  BY <1>4, <1>5, <1>6 DEF CallPlace, Spent
<1> QED
  BY <1>1, <1>2, <1>7, <1>8, CallStep

\* A call is named from the ledger.
LEMMA NameCalls ==
  ASSUME CoreInv, CoreInv', CallInv, NEW c \in Callers, NameCall(c) \/ StartAudit(c)
  PROVE  CallInv'
<1>1. Mine(c) /\ pc[c] \in {"naming", "drafted"} /\ pc[c] \in Executing /\ pc[c] \in Holding
      /\ asking' = asking
  BY DEF Mine, Serve, NameCall, StartAudit, Holding, Executing
<1>2. PICK k \in Keys : k = Key(c)
  BY WorkTypes
<1> DEFINE w == work[c]
           n == calls[k]
<1>3. /\ n <= Spent(w) + 1 /\ w.named = 1..n /\ w.named \subseteq ledger[k]
      /\ w.repairs <= MaxRepairs /\ w.retries <= MaxRepairs
      /\ pc[c] = "drafted" => w.draft.call \in {0} \union (1..n)
  BY <1>1, <1>2 DEF CallInv, CallPlace
<1>4. /\ UNCHANGED <<answer, callVars>> /\ Key(c)' = k
      /\ manifest'[k] = w.named
  BY <1>2 DEF NameCall, StartAudit, CoreInv, TypeOK, Key
<1>5. status'[k] \notin {"absent", "COMPLETED"} /\ status[k] # "absent"
  <2>1. status[k] = "GENERATING"
    BY <1>1, <1>2 DEF CoreInv, PlaceInv
  <2> QED
    BY <1>2, <2>1 DEF NameCall, StartAudit, Transit, CoreInv, TypeOK
<1>6. CallRun(k)'
  BY <1>3, <1>4, <1>5 DEF CallInv, CallRun, callVars
<1>7. CallPlace(c)'
  <2>1. CASE StartAudit(c)
    <3>1. pc'[c] = "auditing" /\ work'[c] = w /\ pc[c] = "drafted"
      BY <2>1 DEF StartAudit, Goto, CoreInv, TypeOK
    <3> QED
      BY <1>3, <1>4, <3>1 DEF CallPlace, callVars
  <2>2. CASE NameCall(c) /\ w.outcome = "failed"
    <3>1. pc'[c] = "failing"
      BY <2>2 DEF NameCall, Raise, Goto, CoreInv, TypeOK
    <3> QED
      BY <3>1 DEF CallPlace, Executing
  <2>3. CASE NameCall(c) /\ w.outcome # "failed"
    <3>1. pc'[c] = "rejected" /\ work'[c] = w
      BY <2>3 DEF NameCall, Goto, CoreInv, TypeOK
    <3> QED
      BY <1>3, <1>4, <3>1 DEF CallPlace, callVars
  <2> QED
    BY <2>1, <2>2, <2>3
<1> QED
  BY <1>1, <1>2, <1>6, <1>7, CallStep

\* The steps that only leave execution.
LEMMA LeavingCalls ==
  ASSUME CoreInv, CoreInv', CallInv, NEW c \in Callers, Mine(c), pc[c] \in Holding,
         UNCHANGED <<asking, manifest, answer, callVars>>,
         pc'[c] \in {"failing", "failed", "cancelled"} \union Gone,
         \/ status' = status
         \/ \E error \in Errors : MarkFailed(Key(c), error)
  PROVE  CallInv'
<1>1. PICK k \in Keys : k = Key(c)
  BY WorkTypes
<1>2. status[k] # "absent" /\ CallRun(k)
  BY <1>1 DEF CoreInv, OneExecutor, CallInv
<1>3. status'[k] = status[k] \/ status'[k] = "FAILED"
  BY <1>1 DEF MarkFailed, CoreInv, TypeOK
<1>4. CallRun(k)'
  BY <1>2, <1>3, StatusOnly
<1>5. CallPlace(c)'
  BY DEF CallPlace, Executing, Gone
<1> QED
  BY <1>1, <1>4, <1>5, CallStep

\* An audited answer is from a call that was named.
LEMMA CompleteCalls ==
  ASSUME CoreInv, CoreInv', CallInv, NEW c \in Callers, Complete(c)
  PROVE  CallInv'
<1>1. Mine(c) /\ pc[c] \in Holding /\ asking' = asking /\ pc[c] = "auditing"
  BY DEF Mine, Serve, Complete, Holding, Executing
<1>2. PICK k \in Keys : k = Key(c)
  BY WorkTypes
<1>3. CallRun(k) /\ manifest[k] = 1..calls[k] /\ work[c].draft.call \in {0} \union (1..calls[k])
  BY <1>1, <1>2 DEF CallInv, CallPlace
<1>4. /\ status'[k] = "COMPLETED" /\ answer'[k] = work[c].draft
      /\ UNCHANGED <<manifest, callVars>> /\ pc'[c] = "replying"
  BY <1>2 DEF Complete, Transit, Goto, CoreInv, TypeOK
<1>5. CallRun(k)'
  BY <1>3, <1>4 DEF CallRun, callVars
<1>6. CallPlace(c)'
  BY <1>4 DEF CallPlace, Executing
<1> QED
  BY <1>1, <1>2, <1>5, <1>6, CallStep

\* A caller that has told its client holds nothing.
LEMMA ToldCalls ==
  ASSUME CoreInv, CoreInv', CallInv, NEW c \in Callers,
         Respond(c) \/ Report(c) \/ MarkCancelled(c)
  PROVE  CallInv'
<1>1. Mine(c) /\ pc[c] \in Holding /\ asking' = asking
  BY DEF Mine, Serve, Respond, Report, MarkCancelled, Tell, Holding, Marking
<1>2. PICK k \in Keys : k = Key(c)
  BY WorkTypes
<1>3. /\ UNCHANGED <<manifest, callVars, answer>> /\ work'[c] = Fresh /\ pc'[c] = "idle"
      /\ status'[k] = status[k] \/ status'[k] = "FAILED"
  BY <1>2 DEF Respond, Report, MarkCancelled, MarkFailed, Tell, Goto, CoreInv, TypeOK, runVars
<1>4. status[k] # "absent" /\ CallRun(k)
  BY <1>1, <1>2 DEF CoreInv, OneExecutor, CallInv
<1>5. CallRun(k)'
  BY <1>3, <1>4, StatusOnly
<1>6. CallPlace(c)'
  BY <1>3 DEF CallPlace, Executing
<1> QED
  BY <1>1, <1>2, <1>5, <1>6, CallStep

\* A cancelled caller leaves a call under way in the ledger or nowhere.
LEMMA CancelCalls ==
  ASSUME CoreInv, CoreInv', CallInv, NEW c \in Callers, Cancel(c)
  PROVE  CallInv'
<1>1. Mine(c) /\ pc[c] \in Holding /\ asking' = asking
  BY DEF Mine, Fault, Cancel, Holding
<1>2. PICK k \in Keys : k = Key(c)
  BY WorkTypes
<1>3. pc'[c] = "cancelled" /\ UNCHANGED <<status, manifest, answer>> /\ status[k] # "absent"
  BY <1>1, <1>2 DEF Cancel, Goto, CoreInv, TypeOK, runVars, OneExecutor
<1>4. CallPlace(c)'
  BY <1>3 DEF CallPlace, Executing
<1>5. CallRun(k) /\ CallPlace(c)
  BY DEF CallInv
<1> DEFINE w == work[c]
           n == calls[k]
<1>6. /\ n \in Nat /\ w.repairs \in Nat /\ w.retries \in Nat
  BY <1>2, WorkTypes
<1>7. CASE UNCHANGED callVars
  <2>1. CallRun(k)'
    BY <1>3, <1>5, <1>7 DEF CallRun, callVars
  <2> QED
    BY <1>1, <1>2, <1>4, <2>1, CallStep
<1>8. CASE /\ pc[c] = "recording"
           /\ ledger' = [ledger EXCEPT ![k] = @ \union {calls[k]}]
           /\ UNCHANGED calls
  <2>1. n >= 1 /\ ledger'[k] = ledger[k] \union {n}
    BY <1>2, <1>5, <1>8 DEF CallPlace, CoreInv, TypeOK
  <2>2. CallRun(k)'
    BY <1>3, <1>5, <1>6, <1>8, <2>1 DEF CallRun
  <2> QED
    BY <1>1, <1>2, <1>4, <2>2, CallStep
<1>9. CASE /\ pc[c] = "generating" /\ HasModel(c)
           /\ calls' = [calls EXCEPT ![k] = @ + 1]
           /\ ledger' = [ledger EXCEPT ![k] = @ \union {calls[k] + 1}]
  <2>1. /\ calls'[k] = n + 1 /\ ledger'[k] = ledger[k] \union {n + 1}
    BY <1>9 DEF CoreInv, TypeOK
  <2>2. n <= Spent(w) /\ w.repairs <= MaxRepairs /\ w.retries <= MaxRepairs
    BY <1>2, <1>5, <1>9 DEF CallPlace, Executing
  <2>4. n + 1 <= Limit
    BY <1>6, <2>2, OneMoreCall
  <2>5. status[k] = "GENERATING"
    BY <1>2, <1>9 DEF CoreInv, PlaceInv
  <2>6. CallRun(k)'
    BY <1>3, <1>5, <1>6, <2>1, <2>4, <2>5 DEF CallRun
  <2> QED
    BY <1>1, <1>2, <1>4, <2>6, CallStep
<1> QED
  BY <1>2, <1>7, <1>8, <1>9 DEF Cancel

---------------------------------------------------------------------------
(* The invariant. *)

\* Every step keeps it.
LEMMA CallsNext == CoreInv /\ CoreInv' /\ CallInv /\ [Next]_vars => CallInv'
<1> SUFFICES ASSUME CoreInv, CoreInv', CallInv, [Next]_vars PROVE CallInv'
  OBVIOUS
<1>1. CASE UNCHANGED vars
  BY <1>1 DEF vars, runVars, callVars, CallInv, CallRun, CallPlace, Key, Spent
<1>2. ASSUME NEW c \in Callers, Mine(c) PROVE CallInv'
  <2>1. CASE \/ \E k \in Keys, q \in Requests : Ask(c, k, q)
             \/ Replay(c) \/ LookInVain(c) \/ LoseRace(c) \/ CancelEarly(c)
    BY <2>1, OutsideCalls
  <2>2. CASE Insert(c) \/ Claim(c) \/ StartRetrieval(c) \/ Retrieve(c) \/ StartGeneration(c)
    BY <2>2, EarlyCalls
  <2>3. CASE \E sound \in BOOLEAN : Abstain(c, sound)
    BY <2>3, AbstainCalls
  <2>4. CASE DraftAlone(c) \/ QuoteRejected(c) \/ RejectOutput(c) \/ RepairDraft(c)
    BY <2>4, RepairCalls
  <2>5. CASE \/ \E sound \in BOOLEAN : CallModel(c, "drafted", sound)
             \/ \E outcome \in {"rejected", "failed"} : CallModel(c, outcome, FALSE)
    BY <1>2, <2>5, ModelCalls
  <2>6. CASE Record(c)
    BY <2>6, RecordCalls
  <2>7. CASE NameCall(c) \/ StartAudit(c)
    BY <2>7, NameCalls
  <2>8. CASE Complete(c)
    BY <2>8, CompleteCalls
  <2>9. CASE Respond(c) \/ Report(c) \/ MarkCancelled(c)
    BY <2>9, ToldCalls
  <2>10. CASE Cancel(c)
    BY <2>10, CancelCalls
  <2>11. CASE \/ LedgerFails(c) \/ RejectDraft(c) \/ Fail(c) \/ MarkError(c)
              \/ CancelUncovered(c) \/ MarkRefused(c) \/ Die(c)
    <3>1. /\ pc[c] \in Holding /\ UNCHANGED <<asking, manifest, answer, callVars>>
          /\ pc'[c] \in {"failing", "failed", "cancelled"} \union Gone
      BY <2>11 DEF LedgerFails, RejectDraft, Raise, Fail, MarkError, CancelUncovered,
         MarkRefused, Die, Leave, Goto, runVars, CoreInv, TypeOK, Holding, Executing,
         Marking, Gone
    <3>2. \/ status' = status
          \/ \E error \in Errors : MarkFailed(Key(c), error)
      <4>1. MarkError(c) => work[c].error \in Errors
        BY DEF MarkError, CoreInv, PlaceInv
      <4> QED
        BY <2>11, <4>1 DEF LedgerFails, RejectDraft, Noted, Fail, MarkError,
           CancelUncovered, MarkRefused, Die, Leave, runVars
    <3> QED
      BY <1>2, <3>1, <3>2, LeavingCalls
  <2> QED
    BY <1>2, <2>1, <2>2, <2>3, <2>4, <2>5, <2>6, <2>7, <2>8, <2>9, <2>10, <2>11
       DEF Mine, Serve, Fault
<1> QED
  BY <1>1, <1>2 DEF Next, Mine

\* Every reachable state satisfies it.
LEMMA CallsAlways == Spec => [](CoreInv /\ CallInv)
BY CoreAlways, CallsInit, CallsNext, PTL DEF Spec

\* The manifest never names a call the ledger does not hold, and a completed
\* run names every call made for it, its answer's among them.
THEOREM CallsAreAccounted == Spec => []CallsAccounted
<1>1. CoreInv /\ CallInv => CallsAccounted
  <2> SUFFICES ASSUME CoreInv, CallInv, NEW k \in Keys
               PROVE  /\ manifest[k] \subseteq ledger[k] /\ ledger[k] \subseteq 1..calls[k]
                      /\ (answer[k] # NoAnswer) <=> (status[k] = "COMPLETED")
                      /\ status[k] = "COMPLETED" =>
                           /\ manifest[k] = 1..calls[k]
                           /\ answer[k].sound
                           /\ answer[k].call \in {0} \union manifest[k]
    BY DEF CallsAccounted
  <2>1. RunInv(k) /\ CallRun(k)
    BY DEF CoreInv, CallInv
  <2> QED
    BY <2>1, NoAnswerAssumption DEF RunInv, CallRun
<1> QED
  BY <1>1, CallsAlways, PTL

\* However it is retried, cancelled or repaired, a question costs at most the
\* square of one more than the repairs the setting allows.
THEOREM CallsAreBounded == Spec => []CallsBounded
<1>1. CallInv => CallsBounded
  BY DEF CallInv, CallRun, CallsBounded, Limit
<1> QED
  BY <1>1, CallsAlways, PTL
=============================================================================
