----------------------------- MODULE ApprovalDesk -----------------------------
(***************************************************************************)
(* What the approvals of a run promise about its orders, whatever threads, *)
(* retries and restarts carry the run: gates open one after the other,     *)
(* each is answered once, and an order, sent for the first time or again,  *)
(* passes when all gates up to it are open and no answer is outstanding or *)
(* negative.                                                               *)
(***************************************************************************)
EXTENDS Integers

CONSTANTS
  Runs, Steps,
  Gates    \* the gated steps, as pairs of a run and a step

VARIABLES
  gate,    \* "none", "pending", "approved", "rejected" or "skipped"
  sent     \* how many orders of each run and step are out

vars == <<gate, sent>>

Open == {"approved", "skipped"}
GatesOf(r) == {g \in Gates : g[1] = r}

Init ==
  /\ gate = [g \in Gates |-> "none"]
  /\ sent = [s \in Runs \X Steps |-> 0]

\* The run waits for nobody and was not refused, and every gate before the step
\* is open.
Reached(r, i) ==
  \A g \in GatesOf(r) :
    /\ gate[g] \notin {"pending", "rejected"}
    /\ g[2] < i => gate[g] \in Open

Ask(g) ==
  /\ Reached(g[1], g[2]) /\ gate[g] = "none"
  /\ gate' = [gate EXCEPT ![g] = "pending"]
  /\ UNCHANGED sent

Skip(g) ==
  /\ Reached(g[1], g[2]) /\ gate[g] = "none"
  /\ gate' = [gate EXCEPT ![g] = "skipped"]
  /\ UNCHANGED sent

Answer(g, d) ==
  /\ gate[g] = "pending"
  /\ gate' = [gate EXCEPT ![g] = d]
  /\ UNCHANGED sent

\* A gated order needs its own approval: a skipped step sends nothing.
Send(r, i) ==
  /\ Reached(r, i)
  /\ <<r, i>> \in Gates => gate[<<r, i>>] = "approved"
  /\ sent' = [sent EXCEPT ![<<r, i>>] = @ + 1]
  /\ UNCHANGED gate

Next ==
  \/ \E g \in Gates : Ask(g) \/ Skip(g) \/ Answer(g, "approved") \/ Answer(g, "rejected")
  \/ \E r \in Runs, i \in Steps : Send(r, i)

Spec == Init /\ [][Next]_vars

=============================================================================
