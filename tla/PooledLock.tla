------------------------------ MODULE PooledLock ------------------------------
(***************************************************************************)
(* The PostgreSQL form of the engine's single-instance lock: an advisory   *)
(* lock of the database session, taken through SQLAlchemy's pool.          *)
(*                                                                         *)
(* A run's Session borrows a connection for a transaction and gives it     *)
(* back at every commit (workflows/engine.py commits at every step); the   *)
(* pool hands out the connection that came back last (database.py,         *)
(* pool_use_lifo).  The lock stays with the connection: PostgreSQL keeps   *)
(* it beyond the transaction, grants it again to the session that has it,  *)
(* and counts.                                                             *)
(*                                                                         *)
(* WorkflowEngine takes the in-process form of the lock, which SQLite gets.*)
(***************************************************************************)
EXTENDS Integers, Sequences, SequencesExt

CONSTANTS
  Runs,         \* first executions of one single-instance workflow
  Guests,       \* the other sessions of the process: requests and jobs
  Connections,  \* what the pool may open, a non-empty sequence without repetition
  None

VARIABLES
  idle,   \* the pool: connections given back, the last one goes out next
  using,  \* per session, the connection of its open transaction
  held,   \* per connection, how often its backend holds the advisory lock
  stage   \* where a run's loop is

vars == <<idle, using, held, stage>>

Sessions == Runs \cup Guests
Executing(r) == stage[r] = "executing"

Init ==
  /\ idle = Connections
  /\ using = [s \in Sessions |-> None]
  /\ held = [c \in ToSet(Connections) |-> 0]
  /\ stage = [r \in Runs |-> "queued"]

\* The first statement of a transaction.  With no connection to be had it waits.
Checkout(s) ==
  /\ using[s] = None /\ idle # <<>>
  /\ using' = [using EXCEPT ![s] = Last(idle)]
  /\ idle' = Front(idle)

\* Commit, or close: the pool rolls back, which releases no session-level lock.
GiveBack(s) ==
  /\ using[s] # None
  /\ idle' = Append(idle, using[s])
  /\ using' = [using EXCEPT ![s] = None]

\* A connection past pool_recycle is closed, and its backend's locks are gone.
Recycle(c) ==
  /\ c \in ToSet(idle) /\ held[c] > 0
  /\ held' = [held EXCEPT ![c] = 0]
  /\ UNCHANGED <<idle, using, stage>>

-----------------------------------------------------------------------------
(* _run_loop *)

\* The run and its workflow are read.
Begin(r) ==
  /\ stage[r] = "queued"
  /\ Checkout(r)
  /\ stage' = [stage EXCEPT ![r] = "locking"]
  /\ UNCHANGED held

\* pg_try_advisory_lock, in the same transaction.
TryLock(r) ==
  /\ stage[r] = "locking"
  /\ \/ /\ \A c \in DOMAIN held \ {using[r]} : held[c] = 0
        /\ held' = [held EXCEPT ![using[r]] = @ + 1]
        /\ stage' = [stage EXCEPT ![r] = "executing"]
     \/ /\ \E c \in DOMAIN held \ {using[r]} : held[c] > 0
        /\ stage' = [stage EXCEPT ![r] = "refused"]
        /\ UNCHANGED held
  /\ UNCHANGED <<idle, using>>

\* A step's statements, and the commit after it.
Statement(r) == Executing(r) /\ Checkout(r) /\ UNCHANGED <<held, stage>>
Commit(r)    == Executing(r) /\ GiveBack(r) /\ UNCHANGED <<held, stage>>

\* _terminate has committed, and what it publishes is read anew.
Terminate(r) ==
  /\ Executing(r) /\ Checkout(r)
  /\ stage' = [stage EXCEPT ![r] = "unlocking"]
  /\ UNCHANGED held

\* pg_advisory_unlock: without effect where the lock is another connection's.
Unlock(r) ==
  /\ stage[r] = "unlocking"
  /\ held' = [held EXCEPT ![using[r]] = IF @ > 0 THEN @ - 1 ELSE 0]
  /\ stage' = [stage EXCEPT ![r] = "closing"]
  /\ UNCHANGED <<idle, using>>

Close(r) ==
  /\ stage[r] \in {"refused", "closing"}
  /\ GiveBack(r)
  /\ stage' = [stage EXCEPT ![r] = "done"]
  /\ UNCHANGED held

Next ==
  \/ \E r \in Runs : \/ Begin(r) \/ TryLock(r) \/ Statement(r) \/ Commit(r)
                     \/ Terminate(r) \/ Unlock(r) \/ Close(r)
  \/ \E g \in Guests : (Checkout(g) \/ GiveBack(g)) /\ UNCHANGED <<held, stage>>
  \/ \E c \in DOMAIN held : Recycle(c)

Spec == Init /\ [][Next]_vars

-----------------------------------------------------------------------------
\* engine.py:131: the lock is not given to a run while another run holds it, so
\* two runs of the workflow are never executed at the same time.
RunsApart ==
  \A r, s \in Runs : Executing(r) /\ Executing(s) => r = s

=============================================================================
