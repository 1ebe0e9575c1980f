------------------------------- MODULE RunQueue -------------------------------
(***************************************************************************)
(* The run queue of platform_api: HTTP handlers submit and cancel runs,    *)
(* workers claim and execute them; all they share is the database.  Every  *)
(* committed transaction is a step, and so is every read a handler or a    *)
(* worker acts upon in a later statement.                                  *)
(*                                                                         *)
(* A run is numbered by created_at.  What happens inside the agents is a   *)
(* number of execution boundaries (trace events) that ends in an answer or *)
(* in an exception; the timeout is one of the exceptions.                  *)
(***************************************************************************)
EXTENDS Naturals, FiniteSets

CONSTANTS
  Workers,         \* processes and threads that call process_once
  Clients,         \* HTTP requests in progress
  Keys,            \* idempotency keys
  NoKey,           \* a submission without a key
  MaxRuns,         \* bound on submitted runs
  MaxDocuments,    \* bound on uploaded documents
  MaxBoundaries,   \* bound on the trace events of a run
  MaxFaults        \* bound on failing transactions and dying workers

ASSUME QueueAssumption ==
  /\ NoKey \notin Keys
  /\ MaxRuns \in Nat \ {0}
  /\ MaxDocuments \in Nat
  /\ MaxBoundaries \in Nat \ {0}
  /\ MaxFaults \in Nat

Runs == 1 .. MaxRuns
Documents == 1 .. MaxDocuments

TerminalStatus == {"completed", "failed", "cancelled"}
RunStatus == {"absent", "queued", "running"} \union TerminalStatus
DocumentStatus == {"absent", "queued", "processing", "failed"}

AgentRun ==
  [status : RunStatus, key : Keys \union {NoKey}, cancel : BOOLEAN,
   result : BOOLEAN, told : RunStatus]

WorkerPC ==
  {"idle", "take_document", "index", "runs", "take_run", "start", "execute",
   "save", "stop", "fail", "dead"}

WorkerState == [pc : WorkerPC, item : Nat, left : Nat, asked : BOOLEAN]

RequestState ==
  [pc : {"idle", "insert", "cancel"}, key : Keys \union {NoKey}, run : Nat,
   seen : RunStatus]

VARIABLES
  runs,       \* table agent_runs, with the last lifecycle event of each run
  documents,  \* status of each document
  worker,     \* where each worker stands, and what it works on
  client,     \* where each HTTP request stands, and what it read
  faults,     \* failures so far
  started,    \* history: how often a run was started
  lost,       \* history: runs whose worker died
  early       \* history: runs cancelled with a boundary still ahead

table == <<runs, documents>>
history == <<started, lost, early>>
vars == <<table, worker, client, faults, history>>

AbsentRun ==
  [status |-> "absent", key |-> NoKey, cancel |-> FALSE, result |-> FALSE,
   told |-> "absent"]

QueuedRun(key) ==
  [status |-> "queued", key |-> key, cancel |-> FALSE, result |-> FALSE,
   told |-> "queued"]

IdleWorker == [pc |-> "idle", item |-> 0, left |-> 0, asked |-> FALSE]

IdleClient == [pc |-> "idle", key |-> NoKey, run |-> 0, seen |-> "absent"]

Init ==
  /\ runs = [r \in Runs |-> AbsentRun]
  /\ documents = [d \in Documents |-> "absent"]
  /\ worker = [w \in Workers |-> IdleWorker]
  /\ client = [c \in Clients |-> IdleClient]
  /\ faults = 0
  /\ started = [r \in Runs |-> 0]
  /\ lost = {}
  /\ early = {}

--------------------------------------------------------------------------------
(* HTTP handlers *)

Created == {r \in Runs : runs[r].status # "absent"}

Taken(key) == key # NoKey /\ \E r \in Created : runs[r].key = key

Inserting == {c \in Clients : client[c].pc = "insert"}

\* create_run looks for a run with the key; one that is found is the answer.
Submit(c, key) ==
  /\ client[c].pc = "idle"
  /\ ~Taken(key)
  /\ Cardinality(Created) + Cardinality(Inserting) < MaxRuns
  /\ client' = [client EXCEPT ![c] =
       [pc |-> "insert", key |-> key, run |-> 0, seen |-> "absent"]]
  /\ UNCHANGED <<table, worker, faults, history>>

\* Mutant: the unique constraint on the key is missing.
InsertUnchecked(c) ==
  /\ client[c].pc = "insert"
  /\ \E r \in Runs \ Created :
       /\ \A q \in Runs : q < r => q \in Created
       /\ runs' = [runs EXCEPT ![r] = QueuedRun(client[c].key)]
  /\ client' = [client EXCEPT ![c] = IdleClient]
  /\ UNCHANGED <<documents, worker, faults, history>>

\* The run and its first event are committed, or the unique constraint refuses
\* the key.
Insert(c) ==
  /\ client[c].pc = "insert"
  /\ IF Taken(client[c].key) THEN UNCHANGED runs
     ELSE \E r \in Runs \ Created :
            /\ \A q \in Runs : q < r => q \in Created
            /\ runs' = [runs EXCEPT ![r] = QueuedRun(client[c].key)]
  /\ client' = [client EXCEPT ![c] = IdleClient]
  /\ UNCHANGED <<documents, worker, faults, history>>

\* stop_run reads the run; a terminal one is the answer as it is.
ReadRun(c, r) ==
  /\ client[c].pc = "idle"
  /\ r \in Created
  /\ runs[r].status \notin TerminalStatus
  /\ client' = [client EXCEPT ![c] =
       [pc |-> "cancel", key |-> NoKey, run |-> r, seen |-> runs[r].status]]
  /\ UNCHANGED <<table, worker, faults, history>>

\* A worker that has yet to look at the cancellation flag of the run.
BoundaryAhead(r) ==
  \/ runs[r].status = "queued"
  \/ \E w \in Workers :
       /\ worker[w].item = r
       /\ \/ worker[w].pc = "start"
          \/ worker[w].pc = "execute" /\ worker[w].left > 0

\* Mutant: the flag is only for runs seen running.
CancelUnflagged(c) ==
  LET r == client[c].run
      queued == client[c].seen = "queued"
  IN /\ client[c].pc = "cancel"
     /\ runs' = IF queued
                THEN [runs EXCEPT ![r].status = "cancelled", ![r].told = "cancelled"]
                ELSE [runs EXCEPT ![r].cancel = TRUE]
     /\ early' = IF BoundaryAhead(r) THEN early \union {r} ELSE early
     /\ client' = [client EXCEPT ![c] = IdleClient]
     /\ UNCHANGED <<documents, worker, faults, started, lost>>

\* cancel_run writes by the status it read: a run seen queued is cancelled at
\* once, whatever has become of it.
Cancel(c) ==
  LET r == client[c].run
      queued == client[c].seen = "queued"
  IN /\ client[c].pc = "cancel"
     /\ runs' = IF queued
                THEN [runs EXCEPT ![r].cancel = TRUE, ![r].status = "cancelled",
                                  ![r].told = "cancelled"]
                ELSE [runs EXCEPT ![r].cancel = TRUE]
     /\ early' = IF BoundaryAhead(r) THEN early \union {r} ELSE early
     /\ client' = [client EXCEPT ![c] = IdleClient]
     /\ UNCHANGED <<documents, worker, faults, started, lost>>

\* upload_document: the row of the document, queued.
Upload(d) ==
  /\ documents[d] = "absent"
  /\ documents' = [documents EXCEPT ![d] = "queued"]
  /\ UNCHANGED <<runs, worker, client, faults, history>>

--------------------------------------------------------------------------------
(* Workers *)

At(w, pc) == worker[w].pc = pc

Goto(w, pc) == worker' = [worker EXCEPT ![w].pc = pc]

\* The worker turns to a document or a run.
Hold(w, pc, item) ==
  worker' = [worker EXCEPT ![w] =
    [pc |-> pc, item |-> item, left |-> 0, asked |-> FALSE]]

Done(w) == worker' = [worker EXCEPT ![w] = IdleWorker]

\* The first in the queue.
Oldest(i, queue) == i \in queue /\ \A j \in queue : i <= j

QueuedDocuments == {d \in Documents : documents[d] = "queued"}
QueuedRuns == {r \in Runs : runs[r].status = "queued"}

\* process_once: documents come first.
LookForDocument(w) ==
  /\ At(w, "idle")
  /\ \/ \E d \in Documents : Oldest(d, QueuedDocuments) /\ Hold(w, "take_document", d)
     \/ QueuedDocuments = {} /\ Goto(w, "runs")
  /\ UNCHANGED <<table, client, faults, history>>

\* Mutant: the claim of a document is not conditional.
TakeDocumentAnyway(w) ==
  /\ At(w, "take_document")
  /\ documents' = [documents EXCEPT ![worker[w].item] = "processing"]
  /\ Goto(w, "index")
  /\ UNCHANGED <<runs, client, faults, history>>

\* The conditional update of _claim_document.
TakeDocument(w) ==
  /\ At(w, "take_document")
  /\ IF worker[w].item \in QueuedDocuments
     THEN /\ documents' = [documents EXCEPT ![worker[w].item] = "processing"]
          /\ Goto(w, "index")
     ELSE Hold(w, "runs", 0) /\ UNCHANGED documents
  /\ UNCHANGED <<runs, client, faults, history>>

\* The vector store is built without its embedding model: indexing always
\* raises, and the handler marks the document.
IndexDocument(w) ==
  /\ At(w, "index")
  /\ documents' = [documents EXCEPT ![worker[w].item] = "failed"]
  /\ Done(w)
  /\ UNCHANGED <<runs, client, faults, history>>

\* claim_next_run picks the oldest queued run.
LookForRun(w) ==
  /\ At(w, "runs")
  /\ \/ \E r \in Runs : Oldest(r, QueuedRuns) /\ Hold(w, "take_run", r)
     \/ QueuedRuns = {} /\ Done(w)
  /\ UNCHANGED <<table, client, faults, history>>

\* Mutant: the claim updates by id only.
TakeRunAnyway(w) ==
  /\ At(w, "take_run")
  /\ runs' = [runs EXCEPT ![worker[w].item].status = "running"]
  /\ Goto(w, "start")
  /\ UNCHANGED <<documents, client, faults, history>>

\* The conditional update of claim_next_run.
TakeRun(w) ==
  /\ At(w, "take_run")
  /\ IF worker[w].item \in QueuedRuns
     THEN /\ runs' = [runs EXCEPT ![worker[w].item].status = "running"]
          /\ Goto(w, "start")
     ELSE Done(w) /\ UNCHANGED runs
  /\ UNCHANGED <<documents, client, faults, history>>

\* _execute_run commits the event run.started and enters the agents.
Start(w) ==
  LET r == worker[w].item
  IN /\ At(w, "start")
     /\ runs' = [runs EXCEPT ![r].told = "running"]
     /\ \E n \in 1 .. MaxBoundaries :
          worker' = [worker EXCEPT ![w].pc = "execute", ![w].left = n]
     /\ started' = [started EXCEPT ![r] = @ + 1]
     /\ UNCHANGED <<documents, client, faults, lost, early>>

\* A trace event: a cancellation that was requested stops the run here.
Boundary(w) ==
  /\ At(w, "execute")
  /\ worker[w].left > 0
  /\ IF runs[worker[w].item].cancel THEN Goto(w, "stop")
     ELSE worker' = [worker EXCEPT ![w].left = @ - 1]
  /\ UNCHANGED <<table, client, faults, history>>

\* The agents raise, or run out of time or budget.
Raise(w) ==
  /\ At(w, "execute")
  /\ Goto(w, "fail")
  /\ UNCHANGED <<table, client, faults, history>>

\* The agents returned an answer: the last transaction reads the flag, and
\* checks the budget once more.
Return(w) ==
  LET asked == runs[worker[w].item].cancel
  IN /\ At(w, "execute")
     /\ worker[w].left = 0
     /\ \/ worker' = [worker EXCEPT ![w].pc = "save", ![w].asked = asked]
        \/ ~asked /\ Goto(w, "fail")
     /\ UNCHANGED <<table, client, faults, history>>

\* A terminal status with its event, by the worker of the run.
Finish(w, status) ==
  /\ runs' = [runs EXCEPT ![worker[w].item].status = status,
                          ![worker[w].item].told = status]
  /\ Done(w)

\* Mutant: the event of the last transaction is missing.
SaveUntold(w) ==
  LET r == worker[w].item
  IN /\ At(w, "save")
     /\ runs' = IF worker[w].asked THEN [runs EXCEPT ![r].status = "cancelled"]
                ELSE [runs EXCEPT ![r].status = "completed", ![r].result = TRUE]
     /\ Done(w)
     /\ UNCHANGED <<documents, client, faults, history>>

\* ... and commits by the flag it read, or read too early.
Save(w) ==
  LET r == worker[w].item
  IN /\ At(w, "save")
     /\ \/ worker[w].asked /\ Finish(w, "cancelled")
        \/ /\ ~worker[w].asked
           /\ runs' = [runs EXCEPT ![r].status = "completed",
                                   ![r].told = "completed", ![r].result = TRUE]
           /\ Done(w)
     /\ UNCHANGED <<documents, client, faults, history>>

\* The handler of RunCancellationRequested.
Stop(w) ==
  /\ At(w, "stop")
  /\ Finish(w, "cancelled")
  /\ UNCHANGED <<documents, client, faults, history>>

\* Mutant: the handler of other exceptions only logs.
FailSilently(w) ==
  /\ At(w, "fail")
  /\ Done(w)
  /\ UNCHANGED <<table, client, faults, history>>

\* The handler of every other exception.
Fail(w) ==
  /\ At(w, "fail")
  /\ Finish(w, "failed")
  /\ UNCHANGED <<documents, client, faults, history>>

--------------------------------------------------------------------------------
(* Failures *)

\* A transaction fails: inside the try block it fails the run.
TransactionFails(w) ==
  /\ faults < MaxFaults
  /\ worker[w].pc \in {"start", "save"}
  /\ faults' = faults + 1
  /\ Goto(w, "fail")
  /\ UNCHANGED <<table, client, history>>

\* The process dies, or a transaction fails outside of the try block.
Die(w) ==
  /\ faults < MaxFaults
  /\ ~At(w, "dead")
  /\ faults' = faults + 1
  /\ Hold(w, "dead", 0)
  /\ lost' = IF worker[w].pc \in {"start", "execute", "save", "stop", "fail"}
             THEN lost \union {worker[w].item} ELSE lost
  /\ UNCHANGED <<table, client, started, early>>

\* The container is restarted; nobody looks for what the dead worker held.
Restart(w) ==
  /\ At(w, "dead")
  /\ Done(w)
  /\ UNCHANGED <<table, client, faults, history>>

--------------------------------------------------------------------------------

Work(w) ==
  \/ LookForDocument(w) \/ TakeDocument(w) \/ IndexDocument(w)
  \/ LookForRun(w) \/ TakeRun(w) \/ Start(w)
  \/ Boundary(w) \/ Raise(w) \/ Return(w)
  \/ Save(w) \/ Stop(w) \/ Fail(w)
  \/ Restart(w)

Handle(c) ==
  \/ \E key \in Keys \union {NoKey} : Submit(c, key)
  \/ Insert(c)
  \/ \E r \in Runs : ReadRun(c, r)
  \/ Cancel(c)

Next ==
  \/ \E w \in Workers : Work(w) \/ TransactionFails(w) \/ Die(w)
  \/ \E c \in Clients : Handle(c)
  \/ \E d \in Documents : Upload(d)

Spec == Init /\ [][Next]_vars

\* Workers keep polling, calls of agents return, dead workers are restarted.
FairSpec == Spec /\ \A w \in Workers : WF_vars(Work(w))

--------------------------------------------------------------------------------
(* Properties *)

\* Type correctness of the tables and of what workers and handlers hold.
TypeOK ==
  /\ runs \in [Runs -> AgentRun]
  /\ documents \in [Documents -> DocumentStatus]
  /\ worker \in [Workers -> WorkerState]
  /\ client \in [Clients -> RequestState]
  /\ faults \in Nat
  /\ started \in [Runs -> Nat]
  /\ lost \in SUBSET Runs
  /\ early \in SUBSET Runs

Holding == {"start", "execute", "save", "stop", "fail"}

Holds(w, r) == worker[w].pc \in Holding /\ worker[w].item = r

\* A run is started at most once, and two workers never have the same one.
RunsExclusive ==
  \A r \in Runs :
    /\ started[r] <= 1
    /\ \A v, w \in Workers : Holds(v, r) /\ Holds(w, r) => v = w

\* Two workers never index the same document.
DocumentsExclusive ==
  \A v, w \in Workers :
    At(v, "index") /\ At(w, "index") /\ worker[v].item = worker[w].item => v = w

\* However many workers poll, a run is executed by one of them and only once,
\* and so is the indexing of a document (run_service.py:108-123,
\* worker_service.py:168-182).
ExecutedOnce == RunsExclusive /\ DocumentsExclusive

\* Submissions with one idempotency key make one run, however they overlap
\* (run_service.py:41-50, models.py:87-90).
OneRunPerKey ==
  \A q, r \in Created : runs[q].key = runs[r].key /\ runs[q].key # NoKey => q = r

\* A run that ended is never queued or running again, and nobody starts it but
\* the worker that has it, though handlers and workers write by what they read
\* earlier (run_service.py:108-146).
StaysTerminal ==
  [][\A r \in Runs : runs[r].status \in TerminalStatus =>
       /\ runs'[r].status \in TerminalStatus
       /\ started'[r] = started[r] \/ \E w \in Workers : Holds(w, r)]_vars

\* A cancellation accepted while the run still had an execution boundary ahead
\* is honoured: the run does not complete (run_service.py:137-143: "the worker
\* will stop at the next execution boundary").
CancelHonoured == \A r \in early : runs[r].status # "completed"

\* The event stream of a run that nobody works on ends with the status of the
\* run (docs/STAGE11_PRODUCTION_PLATFORM.md:91 "Each transition creates a
\* run_events record").
StreamEndsRight ==
  \A r \in Runs \ lost :
    runs[r].status # "running" /\ (\A w \in Workers : ~Holds(w, r)) =>
      runs[r].told = runs[r].status

\* Every running run has a worker, unless that worker died (worker_service.py:45-118).
NoOrphans ==
  \A r \in Runs \ lost : runs[r].status = "running" => \E w \in Workers : Holds(w, r)

\* What workers and requests point at exists; a document that is being indexed
\* is marked so.
PointersHold ==
  /\ \A w \in Workers :
       /\ worker[w].pc \in Holding \union {"take_run"} => worker[w].item \in Runs
       /\ worker[w].pc \in {"take_document", "index"} => worker[w].item \in Documents
       /\ At(w, "index") => documents[worker[w].item] = "processing"
  /\ \A c \in Clients : client[c].pc = "cancel" =>
       client[c].run \in Runs /\ runs[client[c].run].status # "absent"

\* A worker has a run only while the run is running, or was cancelled under it;
\* before the claim nothing was started.
HoldersRun ==
  /\ \A r \in Runs, w \in Workers : Holds(w, r) =>
       /\ runs[r].status \in {"running", "cancelled"}
       /\ At(w, "start") => started[r] = 0
  /\ \A r \in Runs : runs[r].status \in {"absent", "queued"} => started[r] = 0

\* A worker about to save an early cancelled run has read the flag.
EarlyFlagged ==
  \A r \in early : /\ runs[r].status # "absent" /\ runs[r].cancel
                   /\ \A w \in Workers : At(w, "save") /\ worker[w].item = r =>
                                          worker[w].asked

\* The inductive invariant of the proofs.
IInv ==
  /\ TypeOK /\ PointersHold /\ HoldersRun /\ EarlyFlagged
  /\ ExecutedOnce /\ OneRunPerKey /\ CancelHonoured
  /\ StreamEndsRight /\ NoOrphans

\* Every accepted run ends, unless the worker that has it dies.
EveryRunEnds ==
  \A r \in Runs : runs[r].status = "queued" ~>
    (runs[r].status \in TerminalStatus \/ r \in lost)

\* The status of a run that ended does not change any more
\* (docs/STAGE11_PRODUCTION_PLATFORM.md:82-90, models.py:22-31).
TerminalIsFinal ==
  [][\A r \in Runs : runs[r].status \in TerminalStatus =>
       runs'[r].status = runs[r].status]_vars

================================================================================
