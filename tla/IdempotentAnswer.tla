---------------------------- MODULE IdempotentAnswer ----------------------------
(***************************************************************************)
(* What an idempotency key promises.  It is bound once, to one request; its *)
(* outcome is settled once; and a caller is told nothing before.  A caller  *)
(* that is told an answer is told the outcome, asked for with the bound     *)
(* request.  A caller that is told of a failure may have an answer it does  *)
(* not know of, but never the other way round.                              *)
(***************************************************************************)
CONSTANTS Callers, Keys, Requests, NoRequest,
          Answers, Failings,   \* the outcomes a key can have
          Open                 \* neither: no outcome yet

VARIABLES
  asked,    \* the request bound to each key, or NoRequest
  outcome,  \* the outcome of each key, or Open
  told      \* what each caller last asked, and what it was told

vars == <<asked, outcome, told>>

Told(k, q, says) == [key |-> k, request |-> q, says |-> says]

Init ==
  /\ asked = [k \in Keys |-> NoRequest]
  /\ outcome = [k \in Keys |-> Open]
  /\ told \in [Callers -> {Told(k, q, Open) : k \in Keys, q \in Requests}]

Bind(k, q) ==
  /\ asked[k] = NoRequest
  /\ asked' = [asked EXCEPT ![k] = q]
  /\ UNCHANGED <<outcome, told>>

Settle(k) ==
  /\ asked[k] # NoRequest /\ outcome[k] = Open
  /\ outcome'[k] \in Answers \union Failings
  /\ outcome' = [outcome EXCEPT ![k] = outcome'[k]]
  /\ UNCHANGED <<asked, told>>

\* A caller asks anew and forgets what it was told.
Ask(c, k, q) ==
  /\ told' = [told EXCEPT ![c] = Told(k, q, Open)]
  /\ UNCHANGED <<asked, outcome>>

Answer(c) ==
  LET k == told[c].key
  IN /\ asked[k] = told[c].request
     /\ outcome[k] \in Answers \union Failings
     /\ told' = [told EXCEPT ![c].says = outcome[k]]
     /\ UNCHANGED <<asked, outcome>>

Misinform(c, failing) ==
  LET k == told[c].key
  IN /\ asked[k] = told[c].request
     /\ outcome[k] \in Answers
     /\ told' = [told EXCEPT ![c].says = failing]
     /\ UNCHANGED <<asked, outcome>>

Next ==
  \/ \E k \in Keys, q \in Requests : Bind(k, q)
  \/ \E k \in Keys : Settle(k)
  \/ \E c \in Callers, k \in Keys, q \in Requests : Ask(c, k, q)
  \/ \E c \in Callers : Answer(c)
  \/ \E c \in Callers, failing \in Failings : Misinform(c, failing)

Spec == Init /\ [][Next]_vars
=============================================================================
