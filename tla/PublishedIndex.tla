--------------------------- MODULE PublishedIndex ---------------------------
(***************************************************************************)
(* What the index pipeline promises the readers of a document version: the *)
(* runs that can be searched in full only grow, only such a run becomes    *)
(* active, and a snapshot keeps the run that was active when it was made.  *)
(***************************************************************************)
CONSTANTS Runs, Snapshots, None

VARIABLES
  indexed,  \* runs all of whose sections can be found
  active,   \* the run new snapshots take, or None
  pinned    \* the run of each snapshot, or None

vars == <<indexed, active, pinned>>

Init ==
  /\ indexed = {} /\ active = None
  /\ pinned = [f \in Snapshots |-> None]

\* More runs become searchable, and one of the searchable runs may be activated.
Publish ==
  /\ indexed' \in SUBSET Runs /\ indexed \subseteq indexed'
  /\ active' \in indexed' \union {active}
  /\ UNCHANGED pinned

Pin(f) ==
  /\ pinned[f] = None /\ active # None
  /\ pinned' = [pinned EXCEPT ![f] = active]
  /\ UNCHANGED <<indexed, active>>

Next == Publish \/ \E f \in Snapshots : Pin(f)

Spec == Init /\ [][Next]_vars
=============================================================================
