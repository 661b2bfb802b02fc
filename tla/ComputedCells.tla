---------------------------- MODULE ComputedCells ----------------------------
(***************************************************************************)
(* Computed cells and the jobs that keep them fresh                        *)
(* (sidecar/internal/relatedcomputation, mutation/apply.go and clock.go,   *)
(* computed/, jobs/fanout.go and jobs/formula.go).                         *)
(*                                                                         *)
(* A computed value is stored with a version: the version of its           *)
(* definition and a watermark over everything it reads, directly or        *)
(* through other computed fields.  A reader takes the value only when the  *)
(* version is the one expected now.  A write that changes an input moves   *)
(* the watermark and, in the same transaction, queues a fan-out job that   *)
(* recalculates the table that reads it, page by page; what a page changes *)
(* queues the next table's job.  A changed formula queues a backfill of    *)
(* its own table.  Jobs run in goroutines of a bounded pool, can be        *)
(* cancelled and resumed, and go on after a crash.                         *)
(*                                                                         *)
(* The instance is a chain of three tables.  The row of A holds an input.  *)
(* Every row of B has an input of its own and a computed field that a      *)
(* formula derives from both.  The row of C collects the computed fields   *)
(* of B.  Abstractions: no rows come and go; pages hold one row; complete  *)
(* jobs are forgotten (their only later use is to make the recovery of     *)
(* retained events at launch find every event served); the row revision in *)
(* a cell's version, set in the transaction that changes the row, is left  *)
(* out; so are the clock functions and their jobs.                         *)
(***************************************************************************)
EXTENDS Integers, FiniteSets

CONSTANTS
    Rows,         \* number of rows of B
    MaxJobs,      \* bound on unfinished jobs
    MaxActive,    \* goroutines of the pool (32 in the code)
    MaxEvents     \* bound on business writes, changes of B's formula,
                  \* cancellations, crashes and failed steps, all together

ASSUME CellsAssumption ==
    /\ {Rows, MaxJobs, MaxActive} \subseteq Nat \ {0}
    /\ MaxEvents \in Nat

Row == 1..Rows
Job == 1..MaxJobs
Input == {0, 1}

VARIABLES
    \* durable
    a,           \* the input in A
    own,         \* the inputs in B
    formula,     \* B's formula: adds A's input or does not
    version,     \* its definition version; B's schema revision moves with it
    edge,        \* input_revision of the dependency edges from B to A, C to B
    b,           \* the computed cells of B
    c,           \* the computed cell of C
    jobs,        \* vibetable_jobs
    \* the process
    up,
    run,         \* the goroutine of a scheduled job
    cancelled,   \* Service.cancelled
    mishap,      \* a storage error or a lost publication since the launch
    \* bookkeeping
    swallowed,   \* a stale cell of B was refreshed and C was not told
    used         \* events so far

data == <<a, own, formula, version, edge, b, c>>
process == <<up, run, cancelled, mishap>>
vars == <<data, jobs, process, swallowed, used>>

None == [state |-> "none", table |-> "B", kind |-> "fanout", revision |-> 0,
         cursor |-> 0, applied |-> 0]
Cleared == [value |-> -1, mark |-> <<0, 0>>]      \* NULL: no value and no version
Off == [pc |-> "off", cursor |-> 0]
Idle == [j \in Job |-> Off]

TypeOK ==
    /\ a \in Input /\ own \in [Row -> Input] /\ formula \in BOOLEAN
    /\ version \in Nat /\ edge \in [ab : Nat, bc : Nat]
    /\ \A r \in Row : b[r].value \in -1..2 /\ b[r].mark \in Nat \X Nat
    /\ c.value \in [Row -> 0..2] /\ c.mark \in Nat \X Nat \X Nat
    /\ jobs \in [Job -> [state : {"none", "queued", "running", "failed", "cancelled"},
                         table : {"B", "C"}, kind : {"fanout", "backfill"},
                         revision : Nat, cursor : Nat, applied : Nat]]
    /\ up \in BOOLEAN /\ mishap \in BOOLEAN /\ swallowed \in BOOLEAN /\ used \in Nat
    /\ cancelled \subseteq Job
    /\ run \in [Job -> [pc : {"off", "begin", "page", "check", "save", "finish", "fail",
                              "end"}, cursor : Nat]]

-----------------------------------------------------------------------------
(* Versions and values                                                     *)

\* What B's formula gives in row r now.
Truth(r) == own[r] + IF formula THEN a ELSE 0

\* ExpectationFor: the definition version and, for C, that of the field it
\* reads, with the revisions of all edges on the way to the inputs.
MarkB == <<version, edge.ab>>
MarkC == <<version, edge.ab, edge.bc>>

FreshB(r) == b[r].mark = MarkB
FreshC == c.mark = MarkC

\* sourceEvaluator.read: a stale source is evaluated from its inputs.
Source(r) == IF FreshB(r) THEN b[r].value ELSE Truth(r)

Init ==
    /\ a \in Input /\ own = [r \in Row |-> 0] /\ formula = TRUE
    /\ version = 1 /\ edge = [ab |-> 0, bc |-> 0]
    /\ b = [r \in Row |-> [value |-> Truth(r), mark |-> MarkB]]
    /\ c = [value |-> [r \in Row |-> Truth(r)], mark |-> MarkC]
    /\ jobs = [j \in Job |-> None]
    /\ up = TRUE /\ run = Idle /\ cancelled = {} /\ mishap = FALSE
    /\ swallowed = FALSE /\ used = 0

Event == used < MaxEvents /\ used' = used + 1

-----------------------------------------------------------------------------
(* Jobs and the pool                                                       *)

Free == {j \in Job : jobs[j].state = "none"}
Slot == CHOOSE j \in Free : \A k \in Free : j <= k
RowsOf(table) == IF table = "B" THEN Rows ELSE 1
RevisionOf(table) == IF table = "B" THEN version ELSE 1

\* createFanoutJob and EnqueueFormulaBackfill, in the caller's transaction.
Queued(table, kind, revision) ==
    [state |-> "queued", table |-> table, kind |-> kind, revision |-> revision,
     cursor |-> 0, applied |-> 0]

Active(runs) == Cardinality({j \in Job : runs[j].pc # "off"})
At(j, pc) == [run EXCEPT ![j].pc = pc]

\* Service.Start: refused when the pool is full or the job is scheduled.
Start(runs, j) ==
    IF runs[j].pc = "off" /\ Active(runs) < MaxActive
    THEN [runs EXCEPT ![j].pc = "begin"] ELSE runs

\* A transaction queues a job or none; after the commit
\* Kernel.publishCommitted ends in Service.Publish, which starts it.
Enqueue(wanted, table, kind, revision, rows, runs) ==
    IF wanted
    THEN /\ Free # {}
         /\ jobs' = [rows EXCEPT ![Slot] = Queued(table, kind, revision)]
         /\ run' = Start(runs, Slot)
    ELSE jobs' = rows /\ run' = runs

\* The publication failed or ran out of time before it started the job.
PublishFails(j) ==
    /\ run[j].pc = "begin" /\ jobs[j].state = "queued" /\ jobs[j].cursor = 0 /\ Event
    /\ run' = [run EXCEPT ![j] = Off] /\ mishap' = TRUE
    /\ UNCHANGED <<data, jobs, up, cancelled, swallowed>>

-----------------------------------------------------------------------------
(* Business writes: Kernel.ApplyWithCommit, one transaction each            *)

\* A's input changes: AdvanceInputRevisions moves the edge, EnqueueInvalidations
\* queues B's fan-out.
WriteA(x) ==
    /\ up /\ Event /\ x # a
    /\ a' = x /\ edge' = [edge EXCEPT !.ab = @ + 1]
    /\ Enqueue(TRUE, "B", "fanout", version, jobs, run)
    /\ UNCHANGED <<own, formula, version, b, c, up, cancelled, mishap, swallowed>>

\* A row of B is written: its cell is calculated and stamped in the same
\* transaction, and C is told when the value is another one.
Rewrite(r, x, rows, runs) ==
    LET value == x + IF formula THEN a ELSE 0
        changed == value # b[r].value
    IN /\ own' = [own EXCEPT ![r] = x]
       /\ b' = [b EXCEPT ![r] = [value |-> value, mark |-> MarkB]]
       /\ edge' = IF changed THEN [edge EXCEPT !.bc = @ + 1] ELSE edge
       /\ swallowed' = (swallowed \/ (~FreshB(r) /\ ~changed))
       /\ Enqueue(changed, "C", "fanout", 1, rows, runs)

WriteB(r, x) ==
    /\ up /\ Event
    /\ Rewrite(r, x, jobs, run)
    /\ UNCHANGED <<a, formula, version, c, up, cancelled, mishap>>

\* Mutant: a stale source is read as it is.
WriteCLenient ==
    /\ up /\ Event
    /\ c' = [value |-> [r \in Row |-> b[r].value], mark |-> MarkC]
    /\ UNCHANGED <<a, own, formula, version, edge, b, jobs, process, swallowed>>

\* The row of C is written: the strict reader refuses stale sources.
WriteC ==
    /\ up /\ Event
    /\ \A r \in Row : FreshB(r)
    /\ c' = [value |-> [r \in Row |-> b[r].value], mark |-> MarkC]
    /\ swallowed' = FALSE
    /\ UNCHANGED <<a, own, formula, version, edge, b, jobs, process>>

\* The executor of field changes stores a new formula, clears its column and
\* queues the backfill of its table in the same transaction.
ChangeFormula(f) ==
    /\ up /\ Event
    /\ formula' = f /\ version' = version + 1
    /\ b' = [r \in Row |-> Cleared]
    /\ Enqueue(TRUE, "B", "backfill", version + 1, jobs, run)
    /\ UNCHANGED <<a, own, edge, c, up, cancelled, mishap, swallowed>>

-----------------------------------------------------------------------------
(* A run of a job: Service.Run, runFanout                                  *)

Go(j, pc) == run' = At(j, pc) /\ UNCHANGED <<up, cancelled, mishap>>

\* claim and beginRun: only a cancelled job is refused.
Begin(j) ==
    /\ run[j].pc = "begin"
    /\ IF jobs[j].state = "cancelled"
       THEN Go(j, "end") /\ UNCHANGED jobs
       ELSE /\ jobs' = [jobs EXCEPT ![j].state = "running"]
            /\ run' = [run EXCEPT ![j] = [pc |-> "page", cursor |-> jobs[j].cursor]]
            /\ UNCHANGED <<up, cancelled, mishap>>
    /\ UNCHANGED <<data, swallowed, used>>

Current(j) == jobs[j].revision = RevisionOf(jobs[j].table)
Past(j) == run[j].cursor = RowsOf(jobs[j].table)

\* At the top of the loop: cancelled, of another schema, past the last page.
Page(j) ==
    /\ run[j].pc = "page"
    /\ \/ j \in cancelled /\ Go(j, "end")
       \/ j \notin cancelled /\ ~Current(j) /\ Go(j, "fail")
       \/ j \notin cancelled /\ Current(j) /\ Past(j) /\ Go(j, "finish")
    /\ UNCHANGED <<data, jobs, swallowed, used>>

\* Otherwise the page is applied; its transaction checks the schema again.
Applies(j, table, kind) ==
    /\ run[j].pc = "page" /\ j \notin cancelled /\ Current(j) /\ ~Past(j)
    /\ jobs[j].table = table /\ jobs[j].kind = kind

\* Mutant: a refresh that leaves the value alone is not announced.
RefreshBSilent(j) ==
    /\ Applies(j, "B", "fanout")
    /\ LET r == run[j].cursor + 1
           cell == [value |-> Truth(r), mark |-> MarkB]
       IN /\ b' = [b EXCEPT ![r] = cell]
          /\ Enqueue(cell.value # b[r].value, "C", "fanout", 1, jobs, At(j, "check"))
    /\ UNCHANGED <<a, own, formula, version, edge, c, up, cancelled, mishap, swallowed, used>>

\* Kernel.RecalculateComputed on a row of B.  A cell that gets another value or
\* another version makes a derived event, which queues C's fan-out.
RefreshB(j) ==
    /\ Applies(j, "B", "fanout")
    /\ LET r == run[j].cursor + 1
           cell == [value |-> Truth(r), mark |-> MarkB]
       IN /\ b' = [b EXCEPT ![r] = cell]
          /\ Enqueue(cell # b[r], "C", "fanout", 1, jobs, At(j, "check"))
    /\ UNCHANGED <<a, own, formula, version, edge, c, up, cancelled, mishap, swallowed, used>>

\* The same on the row of C.
RefreshC(j) ==
    /\ Applies(j, "C", "fanout")
    /\ c' = [value |-> [r \in Row |-> Source(r)], mark |-> MarkC]
    /\ swallowed' = FALSE /\ Go(j, "check")
    /\ UNCHANGED <<a, own, formula, version, edge, b, jobs, used>>

\* A backfill writes the rows as they are through Kernel.Apply; a batch whose
\* idempotency key was used is replayed.
Backfill(j) ==
    /\ Applies(j, "B", "backfill")
    /\ LET r == run[j].cursor + 1 IN
       IF jobs[j].applied >= r
       THEN run' = At(j, "check") /\ UNCHANGED <<data, jobs, swallowed>>
       ELSE /\ Rewrite(r, own[r], [jobs EXCEPT ![j].applied = r], At(j, "check"))
            /\ UNCHANGED <<a, formula, version, c>>
    /\ UNCHANGED <<up, cancelled, mishap, used>>

\* The transaction fails.
ApplyFails(j) ==
    /\ run[j].pc = "page" /\ j \notin cancelled /\ Current(j) /\ ~Past(j) /\ Event
    /\ Go(j, "fail")
    /\ UNCHANGED <<data, jobs, swallowed>>

\* Cancelled meanwhile: the cursor stays before the page.
Check(j) ==
    /\ run[j].pc = "check"
    /\ Go(j, IF j \in cancelled THEN "end" ELSE "save")
    /\ UNCHANGED <<data, jobs, swallowed, used>>

\* saveRunningState: a job that is no longer running is left as it is.
SaveProgress(j) ==
    /\ run[j].pc = "save"
    /\ IF jobs[j].state = "running"
       THEN /\ jobs' = [jobs EXCEPT ![j].cursor = run[j].cursor + 1]
            /\ run' = [run EXCEPT ![j] = [pc |-> "page", cursor |-> @.cursor + 1]]
       ELSE run' = At(j, "end") /\ UNCHANGED jobs
    /\ UNCHANGED <<data, up, cancelled, mishap, swallowed, used>>

SaveFails(j) ==
    /\ run[j].pc = "save" /\ Event
    /\ Go(j, "fail")
    /\ UNCHANGED <<data, jobs, swallowed>>

\* finishCompletion and fail load the row again and change it only while it is
\* running; finishCancellation only saves again what Cancel saved.
Finish(j) ==
    /\ run[j].pc \in {"finish", "fail"}
    /\ jobs' = IF jobs[j].state # "running" THEN jobs
               ELSE IF run[j].pc = "finish" THEN [jobs EXCEPT ![j] = None]
               ELSE [jobs EXCEPT ![j].state = "failed"]
    /\ Go(j, "end")
    /\ UNCHANGED <<data, swallowed, used>>

\* The row cannot be written: it stays running and nobody runs it.
FinishFails(j) ==
    /\ run[j].pc \in {"finish", "fail"} /\ Event
    /\ run' = At(j, "end") /\ mishap' = TRUE
    /\ UNCHANGED <<data, jobs, up, cancelled, swallowed>>

\* Mutant: nobody looks for more work.
EndAlone(j) ==
    /\ run[j].pc = "end"
    /\ run' = [run EXCEPT ![j] = Off]
    /\ UNCHANGED <<data, jobs, up, cancelled, mishap, swallowed, used>>

\* The goroutine ends; dispatchPending fills the pool from the queued jobs, in
\* the order of their random ids.
Waiting(runs) == {k \in Job : jobs[k].state = "queued" /\ runs[k].pc = "off"}
Dispatched(runs, chosen) ==
    [k \in Job |-> IF k \in chosen THEN [pc |-> "begin", cursor |-> 0] ELSE runs[k]]
Chosen(runs, chosen) ==
    /\ chosen \subseteq Waiting(runs)
    /\ Active(runs) + Cardinality(chosen) <= MaxActive
    /\ chosen = Waiting(runs) \/ Active(runs) + Cardinality(chosen) = MaxActive

End(j) ==
    /\ run[j].pc = "end"
    /\ LET left == [run EXCEPT ![j] = Off] IN
       \E chosen \in SUBSET Waiting(left) :
         Chosen(left, chosen) /\ run' = Dispatched(left, chosen)
    /\ UNCHANGED <<data, jobs, up, cancelled, mishap, swallowed, used>>

-----------------------------------------------------------------------------
(* Requests about jobs, and the life of the process                        *)

\* The flag first, then the row; a complete or cancelled job is left alone.
Cancel(j) ==
    /\ up /\ jobs[j].state \in {"queued", "running", "failed"}
    /\ Event
    /\ cancelled' = cancelled \cup {j}
    /\ jobs' = [jobs EXCEPT ![j].state = "cancelled"]
    /\ UNCHANGED <<data, up, run, mishap, swallowed>>

\* The row cannot be written: the flag stays.
CancelFails(j) ==
    /\ up /\ jobs[j].state \in {"queued", "running", "failed"} /\ Event
    /\ cancelled' = cancelled \cup {j} /\ mishap' = TRUE
    /\ UNCHANGED <<data, jobs, up, run, swallowed>>

\* Resume, and Start by its route.
Resume(j) ==
    /\ up /\ jobs[j].state = "cancelled"
    /\ jobs' = [jobs EXCEPT ![j].state = "queued"]
    /\ cancelled' = cancelled \ {j}
    /\ run' = Start(run, j)
    /\ UNCHANGED <<data, up, mishap, swallowed, used>>

Crash ==
    /\ up /\ Event
    /\ up' = FALSE /\ run' = Idle /\ cancelled' = {}
    /\ UNCHANGED <<data, jobs, mishap, swallowed>>

\* ResumePending: preparePendingRecovery queues what was running, and
\* dispatchPending fills the pool.
Launch ==
    /\ ~up /\ up' = TRUE /\ mishap' = FALSE
    /\ jobs' = [j \in Job |-> IF jobs[j].state = "running"
                              THEN [jobs[j] EXCEPT !.state = "queued"] ELSE jobs[j]]
    /\ LET queued == {j \in Job : jobs[j].state \in {"queued", "running"}} IN
       \E chosen \in SUBSET queued :
         /\ Cardinality(chosen) <= MaxActive
         /\ chosen = queued \/ Cardinality(chosen) = MaxActive
         /\ run' = Dispatched(Idle, chosen)
    /\ UNCHANGED <<data, cancelled, swallowed, used>>

-----------------------------------------------------------------------------
Work(j) ==
    \/ Begin(j) \/ Page(j) \/ RefreshB(j) \/ RefreshC(j) \/ Backfill(j)
    \/ Check(j) \/ SaveProgress(j) \/ Finish(j) \/ End(j)

Next ==
    \/ \E x \in Input : WriteA(x) \/ \E r \in Row : WriteB(r, x)
    \/ WriteC
    \/ \E f \in BOOLEAN : ChangeFormula(f)
    \/ \E j \in Job :
         \/ Work(j) \/ PublishFails(j) \/ ApplyFails(j) \/ SaveFails(j) \/ FinishFails(j)
         \/ Cancel(j) \/ CancelFails(j) \/ Resume(j)
    \/ Crash \/ Launch

Spec == Init /\ [][Next]_vars

\* Goroutines run on, and a process that died is launched again.
Fairness ==
    /\ \A j \in Job : WF_vars(Work(j))
    /\ WF_vars(Launch)
FairSpec == Spec /\ Fairness

-----------------------------------------------------------------------------
(* Properties                                                              *)

\* relatedcomputation: "a scalar is usable only when every version component
\* matches".  Whatever writes, edits, jobs, cancellations and crashes come
\* between, a value a reader accepts is the value its inputs give now.  A cell
\* of C is excepted while a write to a stale cell of B has gone unnoticed.
FreshIsTrue ==
    /\ TypeOK
    /\ \A r \in Row : FreshB(r) => b[r].value = Truth(r)
    /\ FreshC => c.value = [r \in Row |-> Truth(r)] \/ swallowed

\* ExpectationFor: "Same-row operands are already protected by
\* SourceDataRevision."  Then the exception is not needed: what C collects from
\* a row of B is what the inputs of that row give.
FreshChainIsTrue == FreshC => c.value = [r \in Row |-> Truth(r)]

\* A job that will still come to row r of B, unless it was stopped for good.
Ahead(r) ==
    \E j \in Job :
        /\ jobs[j].state # "none" /\ jobs[j].table = "B" /\ jobs[j].revision = version
        /\ jobs[j].cursor < r /\ (jobs[j].kind = "backfill" => jobs[j].applied < r)

PursuedC == \E j \in Job : jobs[j].state # "none" /\ jobs[j].table = "C" /\ jobs[j].cursor = 0

\* Every stale cell has work ahead of it in the jobs table: a job that has not
\* passed it, be it waiting, running, cancelled or failed, in whatever state a
\* crash leaves the table.  C waits for its own job or for a cell of B; only a
\* write that refreshed a stale cell of B to the same value leaves it out.
StaleIsPursued ==
    /\ \A r \in Row : ~FreshB(r) => Ahead(r)
    /\ ~FreshC => PursuedC \/ swallowed \/ \E r \in Row : ~FreshB(r)

\* A cancelled job is not revived by its own run (only Resume queues it again),
\* and every job comes to an end, complete, failed or cancelled, however full
\* the pool was when it was queued; only a storage error leaves one to the next
\* launch.
JobsEnd ==
    /\ [][\A j \in Job : jobs[j].state = "cancelled" =>
                         jobs'[j].state \in {"cancelled", "queued"}]_vars
    /\ \A j \in Job : jobs[j].state \in {"queued", "running"} ~>
                      (jobs[j].state \notin {"queued", "running"} \/ mishap)
=============================================================================
