----------------------------- MODULE StorePool -----------------------------
(***************************************************************************)
(* The pool of database connections (internal/store/store.go) shared by    *)
(* scans (internal/engine/apply.go) and the evaluations that applied scans *)
(* start (internal/notify/notify.go).  An evaluation of a change rule      *)
(* keeps its rows open, and with them a connection, while each delivery    *)
(* needs another one twice; that of an expiry rule has read everything     *)
(* before it delivers.  The pool itself, database/sql, is external.        *)
(***************************************************************************)
EXTENDS Naturals, FiniteSets

CONSTANTS Changes,   \* evaluations that meet a change rule
          Expiries,  \* evaluations that meet an expiry rule
          Scans,     \* transactions of Apply
          Conns,     \* SetMaxOpenConns, 8 in the code
          Messages   \* bound: deliveries of one evaluation

Evaluations == Changes \cup Expiries

VARIABLES
  pc,    \* what each evaluation does
  rows,  \* the evaluations whose rows are open
  left,  \* the deliveries each has still to make
  late,  \* the evaluations whose 30 s are over
  scan   \* what each scan does

vars == <<pc, rows, left, late, scan>>

Init ==
  /\ pc = [e \in Evaluations |-> "idle"] /\ rows = {}
  /\ left = [e \in Evaluations |-> Messages] /\ late = {}
  /\ scan = [s \in Scans |-> "new"]

Working == {"reads", "claims", "updates"}

InUse == Cardinality(rows) + Cardinality({e \in Evaluations : pc[e] \in Working})
           + Cardinality({s \in Scans : scan[s] = "runs"})

Free == InUse < Conns

Goes(e, to) == pc' = [pc EXCEPT ![e] = to]

-----------------------------------------------------------------------------
(* Apply: its transaction takes a connection, its commit gives it back.    *)

Begin(s) ==
  /\ scan[s] = "new"
  /\ scan' = [scan EXCEPT ![s] = "waits"]
  /\ UNCHANGED <<pc, rows, left, late>>

Transact(s) ==
  /\ scan[s] = "waits" /\ Free
  /\ scan' = [scan EXCEPT ![s] = "runs"]
  /\ UNCHANGED <<pc, rows, left, late>>

Commit(s) ==
  /\ scan[s] = "runs"
  /\ scan' = [scan EXCEPT ![s] = "done"]
  /\ UNCHANGED <<pc, rows, left, late>>

-----------------------------------------------------------------------------
(* Evaluate.                                                               *)

Start(e) ==
  /\ pc[e] = "idle"
  /\ Goes(e, "asks to read")
  /\ UNCHANGED <<rows, left, late, scan>>

Waiting == {"asks to read", "asks to claim", "asks to update"}

Task(p) == CASE p = "asks to read" -> "reads" [] p = "asks to claim" -> "claims"
             [] p = "asks to update" -> "updates"

\* DB.conn: a connection is free.
Obtain(e) ==
  /\ pc[e] \in Waiting /\ Free
  /\ Goes(e, Task(pc[e]))
  /\ UNCHANGED <<rows, left, late, scan>>

\* QueryContext returns: the rows of a change rule keep the connection, the
\* loader of an expiry rule has read all of them.
Opened(e) ==
  /\ pc[e] = "reads"
  /\ rows' = IF e \in Changes \ late THEN rows \cup {e} ELSE rows
  /\ Goes(e, IF e \in late THEN "done" ELSE "next")
  /\ UNCHANGED <<left, late, scan>>

\* The loop of evaluateChanges and evaluateExpiry; leaving it closes the rows.
NextItem(e) ==
  /\ pc[e] = "next"
  /\ IF left[e] = 0 \/ e \in late
       THEN Goes(e, "done") /\ rows' = rows \ {e}
       ELSE Goes(e, "asks to claim") /\ UNCHANGED rows
  /\ UNCHANGED <<left, late, scan>>

\* deliverOnce: the upsert has claimed the delivery, or was interrupted.
Claimed(e) ==
  /\ pc[e] = "claims"
  /\ \/ Goes(e, "sends")
     \/ e \in late /\ Goes(e, "done")
  /\ UNCHANGED <<rows, left, late, scan>>

Sent(e) ==
  /\ pc[e] = "sends"
  /\ Goes(e, "asks to update")
  /\ UNCHANGED <<rows, left, late, scan>>

\* A send that failed ends the loop.
Updated(e) ==
  /\ pc[e] = "updates"
  /\ \E n \in {left[e] - 1, 0} : left' = [left EXCEPT ![e] = n]
  /\ Goes(e, "next")
  /\ UNCHANGED <<rows, late, scan>>

\* Seeded fault: the update is given up with the rest.
WaivedAll == Waiting

\* What the end of the context ends: not the update, which runs without it.
Waived == Waiting \ {"asks to update"}

\* database/sql closes the rows of a query whose context has ended.
Closed(e) == rows \ {e}

Expire(e) ==
  /\ pc[e] \notin {"idle", "done"} /\ e \notin late
  /\ late' = late \cup {e} /\ rows' = Closed(e)
  /\ pc' = IF pc[e] \in Waived THEN [pc EXCEPT ![e] = "done"] ELSE pc
  /\ UNCHANGED <<left, scan>>

Step(e) == Obtain(e) \/ Opened(e) \/ NextItem(e) \/ Claimed(e) \/ Sent(e) \/ Updated(e)

Work(s) == Transact(s) \/ Commit(s)

Next == \/ \E e \in Evaluations : Start(e) \/ Step(e) \/ Expire(e)
        \/ \E s \in Scans : Begin(s) \/ Work(s)

\* Statements, sends and the timer of a context all end; a request for a
\* connection is served when one stays free.
Fairness == /\ \A e \in Evaluations : WF_vars(Step(e)) /\ WF_vars(Expire(e))
            /\ \A s \in Scans : WF_vars(Work(s))

Spec == Init /\ [][Next]_vars /\ Fairness

-----------------------------------------------------------------------------
(* A scan that waits for a connection gets one: evaluations that all wait  *)
(* for each other's connection are parted by their deadlines.              *)
ScansApply == \A s \in Scans : scan[s] = "waits" ~> scan[s] \in {"runs", "done"}

(* The outcome of a message that was sent is written, however late a       *)
(* connection for it becomes free (context.WithoutCancel in deliverOnce).  *)
OutcomesAreWritten ==
  \A e \in Evaluations : pc[e] \in {"sends", "asks to update"} ~> pc[e] = "updates"

(* "Delivery failures must not roll back, delay, or misreport an otherwise *)
(* successful inventory scan" (apply.go): a scan is never held up by       *)
(* evaluations that can only wait for their deadlines.                     *)
ScansAreNotDelayed ==
  ~ \E s \in Scans :
      /\ scan[s] = "waits" /\ Cardinality(rows) = Conns
      /\ \A e \in rows : pc[e] \in Waiting
=============================================================================
