----------------------------- MODULE ParallelFor -----------------------------
(***************************************************************************)
(* What a caller of tiling() or saveAllTiles() may expect of the parallel  *)
(* loop inside: each item of the call is handled at most once, by whatever *)
(* thread; the call returns success only when every item was handled, and  *)
(* an error only when some item really failed.                             *)
(***************************************************************************)
EXTENDS Integers

VARIABLES items,     \* the items of the current call
          done,      \* those handled successfully
          bad,       \* those whose handling failed
          running,   \* is a call in progress?
          outcome    \* what the last call returned

vars == <<items, done, bad, running, outcome>>

Init ==
  /\ items = {}
  /\ done = {}
  /\ bad = {}
  /\ running = FALSE
  /\ outcome = "none"

(* The items of a call are numbered from 0 without a gap. *)
IsBatch(S) == \A x \in S : x \in Nat /\ (x > 0 => x - 1 \in S)

Call ==
  /\ ~running
  /\ IsBatch(items')
  /\ done' = {}
  /\ bad' = {}
  /\ running' = TRUE
  /\ outcome' = "none"

Handle ==
  /\ running
  /\ \E x \in items \ (done \union bad) :
       \/ done' = done \union {x} /\ bad' = bad
       \/ bad' = bad \union {x} /\ done' = done
  /\ UNCHANGED <<items, running, outcome>>

ReturnOk ==
  /\ running
  /\ done = items
  /\ outcome' = "ok"
  /\ running' = FALSE
  /\ UNCHANGED <<items, done, bad>>

ReturnError ==
  /\ running
  /\ bad # {}
  /\ outcome' = "error"
  /\ running' = FALSE
  /\ UNCHANGED <<items, done, bad>>

Next == Call \/ Handle \/ ReturnOk \/ ReturnError

Spec == Init /\ [][Next]_vars
=============================================================================
