---------------------------- MODULE RunQueueProofs ----------------------------
(***************************************************************************)
(* TLAPS proofs about RunQueue: for any number of workers, requests, keys, *)
(* runs, documents and failures, IInv is inductive, and with it runs are   *)
(* executed once, keys are honoured, early cancellations are honoured and  *)
(* terminal runs stay terminal.                                            *)
(***************************************************************************)
EXTENDS RunQueue, TLAPS

USE DEF Runs, Documents

--------------------------------------------------------------------------------
(* What the elementary updates do *)

\* Only worker w moves.
OnlyWorker(w) == \A v \in Workers \ {w} : worker'[v] = worker[v]

\* Moving a worker to a label keeps what it works on.
LEMMA GotoEffect ==
  ASSUME TypeOK, NEW w \in Workers, NEW pc \in WorkerPC, Goto(w, pc)
  PROVE  /\ worker' \in [Workers -> WorkerState]
         /\ OnlyWorker(w)
         /\ worker'[w].pc = pc
         /\ worker'[w].item = worker[w].item
         /\ worker'[w].left = worker[w].left
         /\ worker'[w].asked = worker[w].asked
BY DEF TypeOK, WorkerState, Goto, OnlyWorker

\* Turning to an item forgets the former one.
LEMMA HoldEffect ==
  ASSUME TypeOK, NEW w \in Workers, NEW pc \in WorkerPC, NEW item \in Nat,
         Hold(w, pc, item)
  PROVE  /\ worker' \in [Workers -> WorkerState]
         /\ OnlyWorker(w)
         /\ worker'[w].pc = pc
         /\ worker'[w].item = item
BY DEF TypeOK, WorkerState, Hold, OnlyWorker

\* A worker that is done is idle.
LEMMA DoneEffect ==
  ASSUME TypeOK, NEW w \in Workers, Done(w)
  PROVE  /\ worker' \in [Workers -> WorkerState]
         /\ OnlyWorker(w)
         /\ worker'[w].pc = "idle"
         /\ worker'[w].item = 0
BY DEF TypeOK, WorkerState, WorkerPC, Done, IdleWorker, OnlyWorker

\* The fields of a worker and of a run.
LEMMA Fields ==
  ASSUME TypeOK
  PROVE  /\ \A w \in Workers : /\ worker[w] \in WorkerState
                               /\ worker[w].pc \in WorkerPC
                               /\ worker[w].item \in Nat
                               /\ worker[w].left \in Nat
                               /\ worker[w].asked \in BOOLEAN
         /\ \A r \in Runs : /\ runs[r] \in AgentRun
                            /\ runs[r].status \in RunStatus
                            /\ runs[r].key \in Keys \union {NoKey}
                            /\ runs[r].cancel \in BOOLEAN
                            /\ started[r] \in Nat
         /\ \A c \in Clients : /\ client[c] \in RequestState
                               /\ client[c].pc \in {"idle", "insert", "cancel"}
                               /\ client[c].key \in Keys \union {NoKey}
                               /\ client[c].run \in Nat
                               /\ client[c].seen \in RunStatus
BY DEF TypeOK, WorkerState, AgentRun, RequestState

\* Only run r changes, to another row with the same key.
OnlyRun(r) ==
  /\ runs' \in [Runs -> AgentRun]
  /\ \A q \in Runs \ {r} : runs'[q] = runs[q]
  /\ runs'[r].key = runs[r].key

\* A new status of a run leaves its key and its flag alone.
LEMMA StatusEffect ==
  ASSUME TypeOK, NEW r \in Runs, NEW status \in RunStatus,
         runs' = [runs EXCEPT ![r].status = status]
  PROVE  /\ OnlyRun(r)
         /\ runs'[r].status = status
         /\ runs'[r].told = runs[r].told
         /\ runs'[r].cancel = runs[r].cancel
BY DEF TypeOK, AgentRun, OnlyRun

\* A finished run has its status told.
LEMMA FinishEffect ==
  ASSUME TypeOK, NEW w \in Workers, worker[w].item \in Runs,
         NEW status \in RunStatus, Finish(w, status)
  PROVE  /\ OnlyRun(worker[w].item)
         /\ runs'[worker[w].item].status = status
         /\ runs'[worker[w].item].told = status
         /\ runs'[worker[w].item].cancel = runs[worker[w].item].cancel
         /\ Done(w)
BY DEF TypeOK, AgentRun, OnlyRun, Finish

--------------------------------------------------------------------------------
(* Steps that leave the runs alone *)

\* What the invariant says about runs, apart from types and from requests.
RunPart ==
  /\ HoldersRun /\ EarlyFlagged /\ RunsExclusive
  /\ OneRunPerKey /\ CancelHonoured /\ StreamEndsRight /\ NoOrphans

RunsSame == UNCHANGED <<runs, started, lost, early>>

\* A worker that has no run, before or after the step, does not matter to runs.
LEMMA QuietWorker ==
  ASSUME RunPart, RunsSame, NEW w \in Workers, OnlyWorker(w),
         worker[w].pc \notin Holding, worker'[w].pc \notin Holding
  PROVE  RunPart'
<1>1. \A v \in Workers, r \in Runs :
        /\ Holds(v, r)' <=> Holds(v, r)
        /\ Holds(v, r) => worker'[v] = worker[v]
  BY DEF Holds, OnlyWorker
<1>2. HoldersRun'
  BY <1>1 DEF RunPart, RunsSame, HoldersRun, At, Holds
<1>3. EarlyFlagged'
  <2>1. \A v \in Workers : worker'[v].pc = "save" => worker'[v] = worker[v]
    BY DEF OnlyWorker, Holding
  <2>. QED
    BY <2>1 DEF RunPart, RunsSame, EarlyFlagged, At
<1>4. RunsExclusive' /\ NoOrphans'
  BY <1>1 DEF RunPart, RunsSame, RunsExclusive, NoOrphans
<1>5. StreamEndsRight'
  BY <1>1 DEF RunPart, RunsSame, StreamEndsRight
<1>6. OneRunPerKey' /\ CancelHonoured'
  BY DEF RunPart, RunsSame, OneRunPerKey, CancelHonoured, Created
<1>. QED
  BY <1>2, <1>3, <1>4, <1>5, <1>6 DEF RunPart

\* A worker that goes on with its run without touching the table.
LEMMA BusyWorker ==
  ASSUME RunPart, RunsSame, NEW w \in Workers, OnlyWorker(w),
         worker[w].pc \in Holding, worker'[w].pc \in Holding \ {"start"},
         worker'[w].item = worker[w].item,
         worker'[w].pc = "save" => worker'[w].asked = runs[worker[w].item].cancel
  PROVE  RunPart'
<1>1. \A v \in Workers, r \in Runs : Holds(v, r)' <=> Holds(v, r)
  BY DEF Holds, OnlyWorker
<1>2. HoldersRun'
  BY <1>1 DEF RunPart, RunsSame, HoldersRun, At, OnlyWorker
<1>3. EarlyFlagged'
  BY DEF RunPart, RunsSame, EarlyFlagged, At, OnlyWorker
<1>4. RunsExclusive' /\ NoOrphans'
  BY <1>1 DEF RunPart, RunsSame, RunsExclusive, NoOrphans
<1>5. StreamEndsRight'
  BY <1>1 DEF RunPart, RunsSame, StreamEndsRight
<1>6. OneRunPerKey' /\ CancelHonoured'
  BY DEF RunPart, RunsSame, OneRunPerKey, CancelHonoured, Created
<1>. QED
  BY <1>2, <1>3, <1>4, <1>5, <1>6 DEF RunPart

\* No worker moves at all.
LEMMA NoWorker ==
  ASSUME RunPart, RunsSame, UNCHANGED worker
  PROVE  RunPart'
BY DEF RunPart, RunsSame, HoldersRun, EarlyFlagged, RunsExclusive, OneRunPerKey,
   CancelHonoured, StreamEndsRight, NoOrphans, Holds, At, Created

--------------------------------------------------------------------------------
(* Steps that change a run *)

\* A worker gives its run a terminal status, tells it and leaves.
LEMMA FinishingWorker ==
  ASSUME RunPart, early \subseteq Runs, UNCHANGED <<started, lost, early>>,
         NEW w \in Workers,
         OnlyWorker(w), worker'[w].pc = "idle", worker[w].pc \in Holding,
         NEW r \in Runs, worker[w].item = r, OnlyRun(r),
         runs'[r].status \in TerminalStatus, runs'[r].told = runs'[r].status,
         runs'[r].cancel = runs[r].cancel,
         r \in early => runs'[r].status # "completed"
  PROVE  RunPart'
<1>1. /\ \A v \in Workers, q \in Runs :
          Holds(v, q)' <=> Holds(v, q) /\ v # w
      /\ \A v \in Workers \ {w} : worker'[v] = worker[v]
      /\ \A v \in Workers : Holds(v, r) => v = w
      /\ Holds(w, r) /\ \A q \in Runs : Holds(w, q) => q = r
  BY DEF RunPart, Holds, OnlyWorker, Holding, RunsExclusive
<1>2. HoldersRun'
  BY <1>1 DEF RunPart, HoldersRun, At, OnlyRun, TerminalStatus
<1>3. EarlyFlagged'
  BY <1>1 DEF RunPart, EarlyFlagged, At, OnlyRun, TerminalStatus
<1>4. RunsExclusive'
  BY <1>1 DEF RunPart, RunsExclusive
<1>5. OneRunPerKey'
  BY DEF RunPart, OneRunPerKey, OnlyRun, Created, HoldersRun, Holds, TerminalStatus
<1>6. CancelHonoured'
  BY DEF RunPart, CancelHonoured, OnlyRun
<1>7. StreamEndsRight'
  BY <1>1 DEF RunPart, StreamEndsRight, OnlyRun
<1>8. NoOrphans'
  BY <1>1 DEF RunPart, NoOrphans, OnlyRun, TerminalStatus
<1>. QED
  BY <1>2, <1>3, <1>4, <1>5, <1>6, <1>7, <1>8 DEF RunPart

\* A worker claims a queued run.
LEMMA ClaimingWorker ==
  ASSUME RunPart, early \subseteq Runs, UNCHANGED <<started, lost, early>>,
         NEW w \in Workers,
         OnlyWorker(w), worker[w].pc \notin Holding, worker'[w].pc = "start",
         NEW r \in Runs, worker'[w].item = r, OnlyRun(r),
         runs[r].status = "queued", runs'[r].status = "running",
         runs'[r].cancel = runs[r].cancel
  PROVE  RunPart'
<1>1. /\ \A v \in Workers, q \in Runs :
          Holds(v, q)' <=> Holds(v, q) \/ (v = w /\ q = r)
      /\ \A v \in Workers \ {w} : worker'[v] = worker[v]
      /\ \A v \in Workers : ~Holds(v, r)
  BY DEF RunPart, Holds, OnlyWorker, Holding, HoldersRun
<1>2. HoldersRun'
  BY <1>1 DEF RunPart, HoldersRun, At, OnlyRun, Holds
<1>3. EarlyFlagged'
  BY <1>1 DEF RunPart, EarlyFlagged, At, OnlyRun
<1>4. RunsExclusive'
  BY <1>1 DEF RunPart, RunsExclusive
<1>5. OneRunPerKey'
  BY DEF RunPart, OneRunPerKey, OnlyRun, Created
<1>6. CancelHonoured'
  BY DEF RunPart, CancelHonoured, OnlyRun
<1>7. StreamEndsRight'
  BY <1>1 DEF RunPart, StreamEndsRight, OnlyRun
<1>8. NoOrphans'
  BY <1>1 DEF RunPart, NoOrphans, OnlyRun
<1>. QED
  BY <1>2, <1>3, <1>4, <1>5, <1>6, <1>7, <1>8 DEF RunPart

\* A worker starts the run it claimed.
LEMMA StartingWorker ==
  ASSUME RunPart, early \subseteq Runs, UNCHANGED <<lost, early>>, NEW w \in Workers,
         OnlyWorker(w), worker[w].pc = "start", worker'[w].pc = "execute",
         NEW r \in Runs, worker[w].item = r, worker'[w].item = r, OnlyRun(r),
         runs'[r].status = runs[r].status, runs'[r].cancel = runs[r].cancel,
         started \in [Runs -> Nat], started' = [started EXCEPT ![r] = @ + 1]
  PROVE  RunPart'
<1>1. /\ \A v \in Workers, q \in Runs : Holds(v, q)' <=> Holds(v, q)
      /\ \A v \in Workers \ {w} : worker'[v] = worker[v]
      /\ \A v \in Workers : Holds(v, r) <=> v = w
      /\ \A q \in Runs : Holds(w, q) <=> q = r
  BY DEF RunPart, Holds, OnlyWorker, Holding, RunsExclusive
<1>2. /\ started[r] = 0 /\ started'[r] = 1
      /\ \A q \in Runs \ {r} : started'[q] = started[q]
  BY <1>1 DEF RunPart, HoldersRun, At
<1>3. HoldersRun'
  BY <1>1, <1>2 DEF RunPart, HoldersRun, At, OnlyRun
<1>4. EarlyFlagged'
  BY <1>1 DEF RunPart, EarlyFlagged, At, OnlyRun
<1>5. RunsExclusive'
  BY <1>1, <1>2 DEF RunPart, RunsExclusive
<1>6. OneRunPerKey'
  BY DEF RunPart, OneRunPerKey, OnlyRun, Created
<1>7. CancelHonoured'
  BY DEF RunPart, CancelHonoured, OnlyRun
<1>8. StreamEndsRight'
  BY <1>1 DEF RunPart, StreamEndsRight, OnlyRun
<1>9. NoOrphans'
  BY <1>1 DEF RunPart, NoOrphans, OnlyRun
<1>. QED
  BY <1>3, <1>4, <1>5, <1>6, <1>7, <1>8, <1>9 DEF RunPart

\* A worker dies with its run.
LEMMA DyingWorker ==
  ASSUME RunPart, UNCHANGED <<runs, started, early>>, NEW w \in Workers,
         OnlyWorker(w), worker[w].pc \in Holding, worker'[w].pc \notin Holding,
         lost' = lost \union {worker[w].item}
  PROVE  RunPart'
<1>1. /\ \A v \in Workers, q \in Runs :
          Holds(v, q)' <=> Holds(v, q) /\ v # w
      /\ \A v \in Workers \ {w} : worker'[v] = worker[v]
      /\ \A q \in Runs : Holds(w, q) => q = worker[w].item
  BY DEF Holds, OnlyWorker
<1>2. HoldersRun'
  BY <1>1 DEF RunPart, HoldersRun, At
<1>3. EarlyFlagged'
  BY <1>1 DEF RunPart, EarlyFlagged, At, Holding
<1>4. RunsExclusive'
  BY <1>1 DEF RunPart, RunsExclusive
<1>5. OneRunPerKey' /\ CancelHonoured'
  BY DEF RunPart, OneRunPerKey, CancelHonoured, Created
<1>6. StreamEndsRight' /\ NoOrphans'
  BY <1>1 DEF RunPart, StreamEndsRight, NoOrphans
<1>. QED
  BY <1>2, <1>3, <1>4, <1>5, <1>6 DEF RunPart

\* A new run is queued, with a key nobody has.
LEMMA InsertingRequest ==
  ASSUME TypeOK, RunPart, UNCHANGED <<worker, started, lost, early>>, NEW key,
         ~Taken(key), NEW r \in Runs, runs[r].status = "absent",
         runs' = [runs EXCEPT ![r] = QueuedRun(key)]
  PROVE  RunPart'
<1>1. /\ \A q \in Runs \ {r} : runs'[q] = runs[q]
      /\ runs'[r].status = "queued" /\ runs'[r].told = "queued"
      /\ runs'[r].key = key
  BY DEF TypeOK, QueuedRun
<1>2. /\ \A v \in Workers, q \in Runs : Holds(v, q)' <=> Holds(v, q)
      /\ \A v \in Workers : ~Holds(v, r)
  BY DEF RunPart, HoldersRun, Holds
<1>3. r \notin early
  BY DEF RunPart, EarlyFlagged
<1>4. HoldersRun'
  BY <1>1, <1>2 DEF RunPart, HoldersRun, At
<1>5. EarlyFlagged' /\ CancelHonoured'
  BY <1>1, <1>3 DEF TypeOK, RunPart, EarlyFlagged, CancelHonoured, At
<1>6. RunsExclusive'
  BY <1>2 DEF RunPart, RunsExclusive
<1>7. OneRunPerKey'
  BY <1>1 DEF RunPart, OneRunPerKey, Created, Taken
<1>8. StreamEndsRight' /\ NoOrphans'
  BY <1>1, <1>2 DEF RunPart, StreamEndsRight, NoOrphans
<1>. QED
  BY <1>4, <1>5, <1>6, <1>7, <1>8 DEF RunPart

\* A request cancels the run it read.
LEMMA CancellingRequest ==
  ASSUME TypeOK, RunPart, UNCHANGED <<worker, started, lost>>,
         NEW r \in Runs, runs[r].status # "absent", OnlyRun(r),
         runs'[r].cancel,
         \/ runs'[r].status = "cancelled" /\ runs'[r].told = "cancelled"
         \/ runs'[r].status = runs[r].status /\ runs'[r].told = runs[r].told,
         early' = IF BoundaryAhead(r) THEN early \union {r} ELSE early
  PROVE  RunPart'
<1>1. \A v \in Workers, q \in Runs : Holds(v, q)' <=> Holds(v, q)
  BY DEF Holds
<1>2. HoldersRun'
  BY <1>1 DEF RunPart, HoldersRun, At, OnlyRun
<1>3. BoundaryAhead(r) =>
        /\ runs[r].status # "completed"
        /\ \A w \in Workers : ~(worker[w].pc = "save" /\ worker[w].item = r)
  <2>1. CASE runs[r].status = "queued"
    BY <2>1 DEF RunPart, HoldersRun, Holds, Holding
  <2>2. CASE \E w \in Workers : worker[w].item = r /\ worker[w].pc \in {"start", "execute"}
    BY <2>2 DEF RunPart, HoldersRun, RunsExclusive, Holds, Holding
  <2>. QED
    BY <2>1, <2>2 DEF BoundaryAhead
<1>4. EarlyFlagged'
  BY <1>3 DEF TypeOK, RunPart, EarlyFlagged, At, OnlyRun
<1>5. CancelHonoured'
  BY <1>3 DEF TypeOK, RunPart, CancelHonoured, OnlyRun
<1>6. RunsExclusive'
  BY <1>1 DEF RunPart, RunsExclusive
<1>7. OneRunPerKey'
  BY DEF RunPart, OneRunPerKey, OnlyRun, Created
<1>8. StreamEndsRight' /\ NoOrphans'
  BY <1>1 DEF RunPart, StreamEndsRight, NoOrphans, OnlyRun
<1>. QED
  BY <1>2, <1>4, <1>5, <1>6, <1>7, <1>8 DEF RunPart

--------------------------------------------------------------------------------
(* Workers between two runs *)

\* What the invariant says about items and requests.
ItemPart == PointersHold /\ DocumentsExclusive

\* The conjuncts of the invariant, grouped for the proofs.
LEMMA Parts == IInv => TypeOK /\ ItemPart /\ RunPart
BY DEF IInv, ItemPart, RunPart, ExecutedOnce

\* ... and after a step.
LEMMA PartsNext == TypeOK' /\ ItemPart' /\ RunPart' => IInv'
BY DEF IInv, ItemPart, RunPart, ExecutedOnce

\* A worker that turns to nothing, or goes on with what it has.
LEMMA ItemsKept ==
  ASSUME ItemPart, NEW w \in Workers, OnlyWorker(w), UNCHANGED <<documents, client>>,
         \A r \in Runs : runs[r].status # "absent" => runs'[r].status # "absent",
         \/ worker'[w].pc \in {"idle", "runs", "dead"}
         \/ /\ worker[w].pc \in Holding \union {"take_run"}
            /\ worker'[w].pc \in Holding
            /\ worker'[w].item = worker[w].item
  PROVE  ItemPart'
<1>1. PointersHold'
  BY DEF ItemPart, PointersHold, OnlyWorker, At, Holding
<1>2. DocumentsExclusive'
  BY DEF ItemPart, DocumentsExclusive, OnlyWorker, At, Holding
<1>. QED
  BY <1>1, <1>2 DEF ItemPart

\* process_once looks for a document.
LEMMA LookForDocumentInv ==
  ASSUME IInv, NEW w \in Workers, LookForDocument(w)
  PROVE  IInv'
<1>0. TypeOK /\ ItemPart /\ RunPart
  BY Parts
<1>1. CASE \E d \in Documents : Oldest(d, QueuedDocuments) /\ Hold(w, "take_document", d)
  <2>1. PICK d \in Documents : Hold(w, "take_document", d)
    BY <1>1
  <2>2. /\ worker' \in [Workers -> WorkerState] /\ OnlyWorker(w)
        /\ worker'[w].pc = "take_document" /\ worker'[w].item = d
    BY <1>0, <2>1, HoldEffect, QueueAssumption DEF WorkerPC
  <2>3. TypeOK'
    BY <1>0, <2>2 DEF TypeOK, LookForDocument, table, history
  <2>4. ItemPart'
    BY <1>0, <2>2 DEF LookForDocument, ItemPart, PointersHold, DocumentsExclusive,
       OnlyWorker, At, Holding, table
  <2>5. RunPart'
    BY <1>0, <2>2, QuietWorker DEF LookForDocument, RunsSame, table, history,
       Holding, At
  <2>. QED
    BY <2>3, <2>4, <2>5, PartsNext
<1>2. CASE Goto(w, "runs")
  <2>1. /\ worker' \in [Workers -> WorkerState] /\ OnlyWorker(w)
        /\ worker'[w].pc = "runs"
    BY <1>0, <1>2, GotoEffect DEF WorkerPC
  <2>2. TypeOK'
    BY <1>0, <2>1 DEF TypeOK, LookForDocument, table, history
  <2>3. ItemPart'
    BY <1>0, <2>1, ItemsKept DEF LookForDocument, table
  <2>4. RunPart'
    BY <1>0, <2>1, QuietWorker DEF LookForDocument, RunsSame, table, history,
       Holding, At
  <2>. QED
    BY <2>2, <2>3, <2>4, PartsNext
<1>. QED
  BY <1>1, <1>2 DEF LookForDocument

\* The conditional claim of a document.
LEMMA TakeDocumentInv ==
  ASSUME IInv, NEW w \in Workers, TakeDocument(w)
  PROVE  IInv'
<1>0. TypeOK /\ ItemPart /\ RunPart /\ worker[w].pc = "take_document"
  BY Parts DEF TakeDocument, At
<1>1. CASE /\ worker[w].item \in QueuedDocuments
           /\ documents' = [documents EXCEPT ![worker[w].item] = "processing"]
           /\ Goto(w, "index")
  <2>1. /\ worker' \in [Workers -> WorkerState] /\ OnlyWorker(w)
        /\ worker'[w].pc = "index" /\ worker'[w].item = worker[w].item
    BY <1>0, <1>1, GotoEffect DEF WorkerPC
  <2>2. TypeOK'
    BY <1>0, <1>1, <2>1 DEF TypeOK, TakeDocument, DocumentStatus, history
  <2>3. documents[worker[w].item] = "queued" /\ worker[w].item \in Documents
    BY <1>1 DEF QueuedDocuments
  <2>4. ItemPart'
    BY <1>0, <1>1, <2>1, <2>3 DEF TypeOK, TakeDocument, ItemPart, PointersHold,
       DocumentsExclusive, OnlyWorker, At, Holding
  <2>5. RunPart'
    BY <1>0, <2>1, QuietWorker DEF TakeDocument, RunsSame, history, Holding
  <2>. QED
    BY <2>2, <2>4, <2>5, PartsNext
<1>2. CASE Hold(w, "runs", 0) /\ UNCHANGED documents
  <2>1. /\ worker' \in [Workers -> WorkerState] /\ OnlyWorker(w)
        /\ worker'[w].pc = "runs"
    BY <1>0, <1>2, HoldEffect DEF WorkerPC
  <2>2. TypeOK'
    BY <1>0, <1>2, <2>1 DEF TypeOK, TakeDocument, history
  <2>3. ItemPart'
    BY <1>0, <1>2, <2>1, ItemsKept DEF TakeDocument
  <2>4. RunPart'
    BY <1>0, <2>1, QuietWorker DEF TakeDocument, RunsSame, history, Holding
  <2>. QED
    BY <2>2, <2>3, <2>4, PartsNext
<1>. QED
  BY <1>1, <1>2 DEF TakeDocument

\* The end of an indexing.
LEMMA IndexDocumentInv ==
  ASSUME IInv, NEW w \in Workers, IndexDocument(w)
  PROVE  IInv'
<1>0. TypeOK /\ ItemPart /\ RunPart /\ worker[w].pc = "index"
  BY Parts DEF IndexDocument, At
<1>1. /\ worker' \in [Workers -> WorkerState] /\ OnlyWorker(w)
      /\ worker'[w].pc = "idle"
  BY <1>0, DoneEffect DEF IndexDocument
<1>2. TypeOK'
  BY <1>0, <1>1 DEF TypeOK, IndexDocument, DocumentStatus, history
<1>3. ItemPart'
  BY <1>0, <1>1 DEF TypeOK, IndexDocument, ItemPart, PointersHold,
     DocumentsExclusive, OnlyWorker, At, Holding
<1>4. RunPart'
  BY <1>0, <1>1, QuietWorker DEF IndexDocument, RunsSame, history, Holding
<1>. QED
  BY <1>2, <1>3, <1>4, PartsNext

\* claim_next_run selects its candidate.
LEMMA LookForRunInv ==
  ASSUME IInv, NEW w \in Workers, LookForRun(w)
  PROVE  IInv'
<1>0. TypeOK /\ ItemPart /\ RunPart /\ worker[w].pc = "runs"
  BY Parts DEF LookForRun, At
<1>1. CASE \E r \in Runs : Oldest(r, QueuedRuns) /\ Hold(w, "take_run", r)
  <2>1. PICK r \in Runs : Hold(w, "take_run", r)
    BY <1>1
  <2>2. /\ worker' \in [Workers -> WorkerState] /\ OnlyWorker(w)
        /\ worker'[w].pc = "take_run" /\ worker'[w].item = r
    BY <1>0, <2>1, HoldEffect, QueueAssumption DEF WorkerPC
  <2>3. TypeOK'
    BY <1>0, <2>2 DEF TypeOK, LookForRun, table, history
  <2>4. ItemPart'
    BY <1>0, <2>2 DEF LookForRun, ItemPart, PointersHold, DocumentsExclusive,
       OnlyWorker, At, Holding, table
  <2>5. RunPart'
    BY <1>0, <2>2, QuietWorker DEF LookForRun, RunsSame, table, history, Holding
  <2>. QED
    BY <2>3, <2>4, <2>5, PartsNext
<1>2. CASE Done(w)
  <2>1. /\ worker' \in [Workers -> WorkerState] /\ OnlyWorker(w)
        /\ worker'[w].pc = "idle"
    BY <1>0, <1>2, DoneEffect
  <2>2. TypeOK'
    BY <1>0, <2>1 DEF TypeOK, LookForRun, table, history
  <2>3. ItemPart'
    BY <1>0, <2>1, ItemsKept DEF LookForRun, table
  <2>4. RunPart'
    BY <1>0, <2>1, QuietWorker DEF LookForRun, RunsSame, table, history, Holding
  <2>. QED
    BY <2>2, <2>3, <2>4, PartsNext
<1>. QED
  BY <1>1, <1>2 DEF LookForRun

\* A dead worker is restarted.
LEMMA RestartInv ==
  ASSUME IInv, NEW w \in Workers, Restart(w)
  PROVE  IInv'
<1>0. TypeOK /\ ItemPart /\ RunPart /\ worker[w].pc = "dead"
  BY Parts DEF Restart, At
<1>1. /\ worker' \in [Workers -> WorkerState] /\ OnlyWorker(w)
      /\ worker'[w].pc = "idle"
  BY <1>0, DoneEffect DEF Restart
<1>2. TypeOK'
  BY <1>0, <1>1 DEF TypeOK, Restart, table, history
<1>3. ItemPart'
  BY <1>0, <1>1, ItemsKept DEF Restart, table
<1>4. RunPart'
  BY <1>0, <1>1, QuietWorker DEF Restart, RunsSame, table, history, Holding
<1>. QED
  BY <1>2, <1>3, <1>4, PartsNext

--------------------------------------------------------------------------------
(* Workers with a run *)

\* The conditional claim of a run.
LEMMA TakeRunInv ==
  ASSUME IInv, NEW w \in Workers, TakeRun(w)
  PROVE  IInv'
<1>0. /\ TypeOK /\ ItemPart /\ RunPart /\ worker[w].pc = "take_run"
      /\ UNCHANGED <<started, lost, early, documents, client, faults>>
  BY Parts DEF TakeRun, At, history
<1>1. CASE /\ worker[w].item \in QueuedRuns
           /\ runs' = [runs EXCEPT ![worker[w].item].status = "running"]
           /\ Goto(w, "start")
  <2>. DEFINE r == worker[w].item
  <2>1. r \in Runs /\ runs[r].status = "queued"
    BY <1>1 DEF QueuedRuns
  <2>2. /\ worker' \in [Workers -> WorkerState] /\ OnlyWorker(w)
        /\ worker'[w].pc = "start" /\ worker'[w].item = r
    BY <1>0, <1>1, GotoEffect DEF WorkerPC
  <2>3. /\ OnlyRun(r) /\ runs'[r].status = "running"
        /\ runs'[r].cancel = runs[r].cancel
    BY <1>0, <1>1, <2>1, StatusEffect DEF RunStatus
  <2>4. TypeOK'
    BY <1>0, <2>2, <2>3 DEF TypeOK, OnlyRun
  <2>5. ItemPart'
    BY <1>0, <2>2, <2>3, ItemsKept DEF OnlyRun, Holding
  <2>6. RunPart'
    BY <1>0, <2>1, <2>2, <2>3, ClaimingWorker DEF TypeOK, Holding
  <2>. QED
    BY <2>4, <2>5, <2>6, PartsNext
<1>2. CASE Done(w) /\ UNCHANGED runs
  <2>1. /\ worker' \in [Workers -> WorkerState] /\ OnlyWorker(w)
        /\ worker'[w].pc = "idle"
    BY <1>0, <1>2, DoneEffect
  <2>2. TypeOK'
    BY <1>0, <1>2, <2>1 DEF TypeOK
  <2>3. ItemPart'
    BY <1>0, <1>2, <2>1, ItemsKept
  <2>4. RunPart'
    BY <1>0, <1>2, <2>1, QuietWorker DEF RunsSame, Holding
  <2>. QED
    BY <2>2, <2>3, <2>4, PartsNext
<1>. QED
  BY <1>1, <1>2 DEF TakeRun

\* The run is started.
LEMMA StartInv ==
  ASSUME IInv, NEW w \in Workers, Start(w)
  PROVE  IInv'
<1>. DEFINE r == worker[w].item
<1>0. /\ TypeOK /\ ItemPart /\ RunPart /\ worker[w].pc = "start" /\ r \in Runs
      /\ UNCHANGED <<lost, early, documents, client, faults>>
  BY Parts DEF Start, At, ItemPart, PointersHold, Holding
<1>1. PICK n \in 1 .. MaxBoundaries :
        worker' = [worker EXCEPT ![w].pc = "execute", ![w].left = n]
  BY DEF Start
<1>2. /\ worker' \in [Workers -> WorkerState] /\ OnlyWorker(w)
      /\ worker'[w].pc = "execute" /\ worker'[w].item = r
  <2>1. n \in Nat
    BY QueueAssumption
  <2>2. worker[w] \in WorkerState
    BY <1>0 DEF TypeOK
  <2>. QED
    BY <1>0, <1>1, <2>1, <2>2 DEF TypeOK, WorkerState, WorkerPC, OnlyWorker
<1>3. /\ OnlyRun(r) /\ runs'[r].status = runs[r].status
      /\ runs'[r].cancel = runs[r].cancel
  BY <1>0 DEF TypeOK, Start, AgentRun, RunStatus, OnlyRun
<1>4. started' = [started EXCEPT ![r] = @ + 1] /\ started' \in [Runs -> Nat]
  BY <1>0 DEF TypeOK, Start
<1>5. TypeOK'
  BY <1>0, <1>2, <1>3, <1>4 DEF TypeOK, OnlyRun
<1>6. ItemPart'
  BY <1>0, <1>2, <1>3, ItemsKept DEF OnlyRun, Holding
<1>7. RunPart'
  BY <1>0, <1>2, <1>3, <1>4, StartingWorker DEF TypeOK
<1>. QED
  BY <1>5, <1>6, <1>7, PartsNext

\* A step inside the run that only moves its worker.
LEMMA BusyInv ==
  ASSUME IInv, NEW w \in Workers, UNCHANGED <<table, client, history>>,
         faults' \in Nat, worker' \in [Workers -> WorkerState], OnlyWorker(w),
         worker[w].pc \in Holding, worker'[w].pc \in Holding \ {"start"},
         worker'[w].item = worker[w].item,
         worker'[w].pc = "save" => worker'[w].asked = runs[worker[w].item].cancel
  PROVE  IInv'
<1>0. TypeOK /\ ItemPart /\ RunPart
  BY Parts
<1>1. TypeOK'
  BY <1>0 DEF TypeOK, table, history
<1>2. ItemPart'
  BY <1>0, ItemsKept DEF table
<1>3. RunPart'
  BY <1>0, BusyWorker DEF RunsSame, table, history
<1>. QED
  BY <1>1, <1>2, <1>3, PartsNext

\* A trace event looks at the flag.
LEMMA BoundaryInv ==
  ASSUME IInv, NEW w \in Workers, Boundary(w)
  PROVE  IInv'
<1>0. TypeOK /\ worker[w].pc = "execute" /\ worker[w].left > 0 /\ faults' \in Nat
  BY Parts DEF Boundary, At, TypeOK
<1>1. CASE Goto(w, "stop")
  BY <1>0, <1>1, GotoEffect, BusyInv DEF Boundary, WorkerPC, Holding
<1>2. CASE worker' = [worker EXCEPT ![w].left = @ - 1]
  <2>1. /\ worker' \in [Workers -> WorkerState] /\ OnlyWorker(w)
        /\ worker'[w].pc = "execute" /\ worker'[w].item = worker[w].item
    <3>1. worker[w].left - 1 \in Nat
      BY <1>0 DEF TypeOK, WorkerState
    <3>. QED
      BY <1>0, <1>2, <3>1 DEF TypeOK, WorkerState, OnlyWorker
  <2>. QED
    BY <1>0, <2>1, BusyInv DEF Boundary, Holding
<1>. QED
  BY <1>1, <1>2 DEF Boundary

\* The agents raise.
LEMMA RaiseInv ==
  ASSUME IInv, NEW w \in Workers, Raise(w)
  PROVE  IInv'
<1>0. TypeOK /\ worker[w].pc = "execute" /\ faults' \in Nat
  BY Parts DEF Raise, At, TypeOK
<1>. QED
  BY <1>0, GotoEffect, BusyInv DEF Raise, WorkerPC, Holding

\* The flag is read into the last transaction, or the budget is exceeded.
LEMMA ReturnInv ==
  ASSUME IInv, NEW w \in Workers, Return(w)
  PROVE  IInv'
<1>. DEFINE asked == runs[worker[w].item].cancel
<1>0. TypeOK /\ worker[w].pc = "execute" /\ faults' \in Nat
  BY Parts DEF Return, At, TypeOK
<1>1. CASE Goto(w, "fail")
  BY <1>0, <1>1, GotoEffect, BusyInv DEF Return, WorkerPC, Holding
<1>2. CASE worker' = [worker EXCEPT ![w].pc = "save", ![w].asked = asked]
  <2>1. asked \in BOOLEAN
    BY <1>0, Parts DEF At, ItemPart, PointersHold, Holding, TypeOK, AgentRun
  <2>2. /\ worker' \in [Workers -> WorkerState] /\ OnlyWorker(w)
        /\ worker'[w].pc = "save" /\ worker'[w].item = worker[w].item
        /\ worker'[w].asked = asked
    BY <1>0, <1>2, <2>1 DEF TypeOK, WorkerState, WorkerPC, OnlyWorker
  <2>. QED
    BY <1>0, <2>2, BusyInv DEF Return, Holding
<1>. QED
  BY <1>1, <1>2 DEF Return

\* A transaction fails inside the try block.
LEMMA TransactionFailsInv ==
  ASSUME IInv, NEW w \in Workers, TransactionFails(w)
  PROVE  IInv'
<1>0. TypeOK /\ worker[w].pc \in {"start", "save"} /\ faults' \in Nat
  BY Parts DEF TransactionFails, TypeOK
<1>. QED
  BY <1>0, GotoEffect, BusyInv DEF TransactionFails, WorkerPC, Holding

\* The worker of a run ends it.
LEMMA FinishInv ==
  ASSUME IInv, NEW w \in Workers, worker[w].pc \in Holding,
         UNCHANGED <<documents, client, faults, history>>, Done(w),
         OnlyRun(worker[w].item), runs'[worker[w].item].status \in TerminalStatus,
         runs'[worker[w].item].told = runs'[worker[w].item].status,
         runs'[worker[w].item].cancel = runs[worker[w].item].cancel,
         worker[w].item \in early => runs'[worker[w].item].status # "completed"
  PROVE  IInv'
<1>0. TypeOK /\ ItemPart /\ RunPart /\ worker[w].item \in Runs
  BY Parts DEF ItemPart, PointersHold
<1>1. /\ worker' \in [Workers -> WorkerState] /\ OnlyWorker(w)
      /\ worker'[w].pc = "idle"
  BY <1>0, DoneEffect
<1>2. TypeOK'
  BY <1>0, <1>1 DEF TypeOK, OnlyRun, history
<1>3. ItemPart'
  BY <1>0, <1>1, ItemsKept DEF OnlyRun, TerminalStatus
<1>4. RunPart'
  BY <1>0, <1>1, FinishingWorker DEF TypeOK, history
<1>. QED
  BY <1>2, <1>3, <1>4, PartsNext

\* The last transaction commits by the flag it read.
LEMMA SaveInv ==
  ASSUME IInv, NEW w \in Workers, Save(w)
  PROVE  IInv'
<1>. DEFINE r == worker[w].item
<1>0. /\ TypeOK /\ RunPart /\ worker[w].pc = "save" /\ r \in Runs
      /\ UNCHANGED <<documents, client, faults, history>>
  BY Parts DEF Save, At, ItemPart, PointersHold, Holding
<1>1. CASE worker[w].asked /\ Finish(w, "cancelled")
  BY <1>0, <1>1, FinishEffect, FinishInv DEF RunStatus, TerminalStatus, Holding
<1>2. CASE /\ ~worker[w].asked
           /\ runs' = [runs EXCEPT ![r].status = "completed",
                                   ![r].told = "completed", ![r].result = TRUE]
           /\ Done(w)
  <2>1. /\ OnlyRun(r) /\ runs'[r].status = "completed"
        /\ runs'[r].told = "completed" /\ runs'[r].cancel = runs[r].cancel
    BY <1>0, <1>2 DEF TypeOK, AgentRun, RunStatus, TerminalStatus, OnlyRun
  <2>2. r \notin early
    BY <1>0, <1>2 DEF RunPart, EarlyFlagged, At
  <2>. QED
    BY <1>0, <1>2, <2>1, <2>2, FinishInv DEF TerminalStatus, Holding
<1>. QED
  BY <1>1, <1>2 DEF Save

\* The handler of a cancellation.
LEMMA StopInv ==
  ASSUME IInv, NEW w \in Workers, Stop(w)
  PROVE  IInv'
<1>0. /\ TypeOK /\ worker[w].pc = "stop" /\ worker[w].item \in Runs
      /\ UNCHANGED <<documents, client, faults, history>> /\ Finish(w, "cancelled")
  BY Parts DEF Stop, At, ItemPart, PointersHold, Holding
<1>. QED
  BY <1>0, FinishEffect, FinishInv DEF RunStatus, TerminalStatus, Holding

\* The handler of every other exception.
LEMMA FailInv ==
  ASSUME IInv, NEW w \in Workers, Fail(w)
  PROVE  IInv'
<1>0. /\ TypeOK /\ worker[w].pc = "fail" /\ worker[w].item \in Runs
      /\ UNCHANGED <<documents, client, faults, history>> /\ Finish(w, "failed")
  BY Parts DEF Fail, At, ItemPart, PointersHold, Holding
<1>. QED
  BY <1>0, FinishEffect, FinishInv DEF RunStatus, TerminalStatus, Holding

\* A worker dies.
LEMMA DieInv ==
  ASSUME IInv, NEW w \in Workers, Die(w)
  PROVE  IInv'
<1>0. /\ TypeOK /\ ItemPart /\ RunPart /\ faults' \in Nat
      /\ UNCHANGED <<table, client, started, early>>
  BY Parts DEF Die, TypeOK
<1>1. /\ worker' \in [Workers -> WorkerState] /\ OnlyWorker(w)
      /\ worker'[w].pc = "dead"
  BY <1>0, HoldEffect DEF Die, WorkerPC
<1>2. worker[w].pc \in Holding => worker[w].item \in Runs
  BY <1>0 DEF ItemPart, PointersHold
<1>3. lost' = IF worker[w].pc \in Holding THEN lost \union {worker[w].item} ELSE lost
  BY DEF Die, Holding
<1>4. TypeOK'
  BY <1>0, <1>1, <1>2, <1>3 DEF TypeOK, table
<1>5. ItemPart'
  BY <1>0, <1>1, ItemsKept DEF table
<1>6. RunPart'
  <2>1. CASE worker[w].pc \in Holding
    BY <1>0, <1>1, <1>3, <2>1, DyingWorker DEF table, Holding
  <2>2. CASE worker[w].pc \notin Holding
    BY <1>0, <1>1, <1>3, <2>2, QuietWorker DEF table, RunsSame, Holding
  <2>. QED
    BY <2>1, <2>2
<1>. QED
  BY <1>4, <1>5, <1>6, PartsNext

--------------------------------------------------------------------------------
(* Requests *)

\* Requests do not move workers.
LEMMA RequestItems ==
  ASSUME ItemPart, UNCHANGED <<worker, documents>>,
         \A r \in Runs : runs[r].status # "absent" => runs'[r].status # "absent",
         \A c \in Clients : client'[c] = client[c] \/ client'[c].pc # "cancel" \/
           (client'[c].run \in Runs /\ runs'[client'[c].run].status # "absent")
  PROVE  ItemPart'
BY DEF ItemPart, PointersHold, DocumentsExclusive, At

\* create_run finds no run with the key.
LEMMA SubmitInv ==
  ASSUME IInv, NEW c \in Clients, NEW key \in Keys \union {NoKey}, Submit(c, key)
  PROVE  IInv'
<1>0. /\ TypeOK /\ ItemPart /\ RunPart
      /\ UNCHANGED <<table, worker, faults, history>>
      /\ client' = [client EXCEPT ![c] =
           [pc |-> "insert", key |-> key, run |-> 0, seen |-> "absent"]]
  BY Parts DEF Submit
<1>1. TypeOK'
  BY <1>0 DEF TypeOK, RequestState, RunStatus, table, history
<1>2. ItemPart'
  BY <1>0, RequestItems DEF TypeOK, table
<1>3. RunPart'
  BY <1>0, NoWorker DEF RunsSame, table, history
<1>. QED
  BY <1>1, <1>2, <1>3, PartsNext

\* A cancel request reads the run.
LEMMA ReadRunInv ==
  ASSUME IInv, NEW c \in Clients, NEW r \in Runs, ReadRun(c, r)
  PROVE  IInv'
<1>0. /\ TypeOK /\ ItemPart /\ RunPart /\ runs[r].status # "absent"
      /\ UNCHANGED <<table, worker, faults, history>>
      /\ client' = [client EXCEPT ![c] =
           [pc |-> "cancel", key |-> NoKey, run |-> r, seen |-> runs[r].status]]
  BY Parts DEF ReadRun, Created
<1>1. TypeOK'
  BY <1>0, QueueAssumption DEF TypeOK, RequestState, AgentRun, table, history
<1>2. ItemPart'
  BY <1>0, RequestItems DEF TypeOK, table
<1>3. RunPart'
  BY <1>0, NoWorker DEF RunsSame, table, history
<1>. QED
  BY <1>1, <1>2, <1>3, PartsNext

\* The run is committed or refused.
LEMMA InsertInv ==
  ASSUME IInv, NEW c \in Clients, Insert(c)
  PROVE  IInv'
<1>0. /\ TypeOK /\ ItemPart /\ RunPart
      /\ UNCHANGED <<documents, worker, faults, history>>
      /\ client' = [client EXCEPT ![c] = IdleClient]
      /\ client[c].key \in Keys \union {NoKey}
  BY Parts DEF Insert, TypeOK, RequestState
<1>1. client' \in [Clients -> RequestState] /\ client'[c].pc = "idle"
  BY <1>0 DEF TypeOK, RequestState, RunStatus, IdleClient
<1>2. CASE Taken(client[c].key) /\ UNCHANGED runs
  <2>1. TypeOK'
    BY <1>0, <1>1, <1>2 DEF TypeOK, history
  <2>2. ItemPart'
    BY <1>0, <1>1, <1>2, RequestItems DEF TypeOK
  <2>3. RunPart'
    BY <1>0, <1>2, NoWorker DEF RunsSame, history
  <2>. QED
    BY <2>1, <2>2, <2>3, PartsNext
<1>3. CASE ~Taken(client[c].key)
  <2>1. PICK r \in Runs \ Created : runs' = [runs EXCEPT ![r] = QueuedRun(client[c].key)]
    BY <1>3 DEF Insert
  <2>2. runs[r].status = "absent" /\ r \in Runs
    BY <2>1 DEF Created
  <2>3. QueuedRun(client[c].key) \in AgentRun /\ QueuedRun(client[c].key).status = "queued"
    BY <1>0 DEF QueuedRun, AgentRun, RunStatus
  <2>4. TypeOK'
    BY <1>0, <1>1, <2>1, <2>3 DEF TypeOK, history
  <2>5. ItemPart'
    BY <1>0, <1>1, <2>1, <2>2, <2>3, RequestItems DEF TypeOK
  <2>6. RunPart'
    BY <1>0, <1>3, <2>1, <2>2, InsertingRequest DEF history
  <2>. QED
    BY <2>4, <2>5, <2>6, PartsNext
<1>. QED
  BY <1>2, <1>3 DEF Insert

\* The cancellation is written.
LEMMA CancelInv ==
  ASSUME IInv, NEW c \in Clients, Cancel(c)
  PROVE  IInv'
<1>. DEFINE r == client[c].run
<1>0. /\ TypeOK /\ ItemPart /\ RunPart /\ r \in Runs /\ runs[r].status # "absent"
      /\ UNCHANGED <<documents, worker, faults, started, lost>>
      /\ client' = [client EXCEPT ![c] = IdleClient]
      /\ early' = IF BoundaryAhead(r) THEN early \union {r} ELSE early
  BY Parts DEF Cancel, ItemPart, PointersHold
<1>1. client' \in [Clients -> RequestState] /\ client'[c].pc = "idle"
  BY <1>0, QueueAssumption DEF TypeOK, RequestState, RunStatus, IdleClient
<1>2. /\ OnlyRun(r) /\ runs'[r].cancel
      /\ \/ runs'[r].status = "cancelled" /\ runs'[r].told = "cancelled"
         \/ runs'[r].status = runs[r].status /\ runs'[r].told = runs[r].told
  <2>1. CASE runs' = [runs EXCEPT ![r].cancel = TRUE, ![r].status = "cancelled",
                                  ![r].told = "cancelled"]
    <3>1. runs[r] \in AgentRun /\ runs \in [Runs -> AgentRun]
      BY <1>0 DEF TypeOK
    <3>2. "cancelled" \in RunStatus
      BY DEF RunStatus, TerminalStatus
    <3>. QED
      BY <1>0, <2>1, <3>1, <3>2 DEF AgentRun, OnlyRun
  <2>2. CASE runs' = [runs EXCEPT ![r].cancel = TRUE]
    BY <1>0, <2>2 DEF TypeOK, AgentRun, OnlyRun
  <2>. QED
    BY <2>1, <2>2 DEF Cancel
<1>3. TypeOK'
  BY <1>0, <1>1, <1>2 DEF TypeOK, OnlyRun
<1>4. ItemPart'
  BY <1>0, <1>1, <1>2, RequestItems DEF TypeOK, OnlyRun
<1>5. RunPart'
  BY <1>0, <1>2, CancellingRequest
<1>. QED
  BY <1>3, <1>4, <1>5, PartsNext

\* A document is uploaded.
LEMMA UploadInv ==
  ASSUME IInv, NEW d \in Documents, Upload(d)
  PROVE  IInv'
<1>0. /\ TypeOK /\ ItemPart /\ RunPart /\ documents[d] = "absent"
      /\ documents' = [documents EXCEPT ![d] = "queued"]
      /\ UNCHANGED <<runs, worker, client, faults, history>>
  BY Parts DEF Upload
<1>1. TypeOK'
  BY <1>0 DEF TypeOK, DocumentStatus, history
<1>2. RunPart'
  BY <1>0, NoWorker DEF RunsSame, history
<1>3. ItemPart'
  BY <1>0 DEF TypeOK, ItemPart, PointersHold, DocumentsExclusive, At
<1>. QED
  BY <1>1, <1>2, <1>3, PartsNext

--------------------------------------------------------------------------------
(* The theorems *)

\* The invariant holds in the empty database.
LEMMA InitIInv == Init => IInv
<1>. SUFFICES ASSUME Init PROVE IInv
  OBVIOUS
<1>1. TypeOK
  BY QueueAssumption DEF Init, TypeOK, AgentRun, AbsentRun, RunStatus, DocumentStatus,
     WorkerState, IdleWorker, WorkerPC, RequestState, IdleClient
<1>2. PointersHold /\ DocumentsExclusive
  BY DEF Init, PointersHold, DocumentsExclusive, At, IdleWorker, IdleClient, Holding
<1>3. HoldersRun /\ EarlyFlagged /\ RunsExclusive /\ CancelHonoured
  BY DEF Init, HoldersRun, EarlyFlagged, RunsExclusive, CancelHonoured, Holds,
     IdleWorker, Holding
<1>4. OneRunPerKey /\ StreamEndsRight /\ NoOrphans
  BY DEF Init, OneRunPerKey, Created, AbsentRun, StreamEndsRight, NoOrphans
<1>. QED
  BY <1>1, <1>2, <1>3, <1>4 DEF IInv, ExecutedOnce

\* Every step keeps the invariant.
LEMMA NextIInv == IInv /\ [Next]_vars => IInv'
<1>. SUFFICES ASSUME IInv, [Next]_vars PROVE IInv'
  OBVIOUS
<1>1. ASSUME NEW w \in Workers, Work(w) PROVE IInv'
  BY <1>1, LookForDocumentInv, TakeDocumentInv, IndexDocumentInv, LookForRunInv,
     TakeRunInv, StartInv, BoundaryInv, RaiseInv, ReturnInv, SaveInv, StopInv,
     FailInv, RestartInv DEF Work
<1>2. ASSUME NEW w \in Workers, TransactionFails(w) \/ Die(w) PROVE IInv'
  BY <1>2, TransactionFailsInv, DieInv
<1>3. ASSUME NEW c \in Clients, Handle(c) PROVE IInv'
  BY <1>3, SubmitInv, InsertInv, ReadRunInv, CancelInv DEF Handle
<1>4. ASSUME NEW d \in Documents, Upload(d) PROVE IInv'
  BY <1>4, UploadInv
<1>5. CASE UNCHANGED vars
  BY <1>5 DEF vars, table, history, IInv, TypeOK, PointersHold, DocumentsExclusive,
     HoldersRun, EarlyFlagged, ExecutedOnce, RunsExclusive, OneRunPerKey, Created,
     CancelHonoured, StreamEndsRight, NoOrphans, Holds, At
<1>. QED
  BY <1>1, <1>2, <1>3, <1>4, <1>5 DEF Next

\* The invariant of the run queue, for any number of workers, requests, runs,
\* documents and failures (run_service.py, worker_service.py).
THEOREM Invariance == Spec => []IInv
BY InitIInv, NextIInv, PTL DEF Spec

\* Each run is executed at most once and by one worker, each document indexed
\* by one worker at a time: what the conditional updates of the claims are for.
THEOREM RunsExecuteOnce == Spec => []ExecutedOnce
<1>1. IInv => ExecutedOnce
  BY DEF IInv
<1>. QED
  BY <1>1, Invariance, PTL

\* Overlapping submissions with one idempotency key make one run.
THEOREM KeysAreUnique == Spec => []OneRunPerKey
<1>1. IInv => OneRunPerKey
  BY DEF IInv
<1>. QED
  BY <1>1, Invariance, PTL

\* A cancellation that comes before the last execution boundary is honoured,
\* also when the request acts upon an outdated status.
THEOREM EarlyCancelHonoured == Spec => []CancelHonoured
<1>1. IInv => CancelHonoured
  BY DEF IInv
<1>. QED
  BY <1>1, Invariance, PTL

\* A run is running without a worker only if its worker died.
THEOREM RunningRunsHaveWorkers == Spec => []NoOrphans
<1>1. IInv => NoOrphans
  BY DEF IInv
<1>. QED
  BY <1>1, Invariance, PTL

\* The event stream of a run that is over ends with the status of the run.
THEOREM StreamsEndRight == Spec => []StreamEndsRight
<1>1. IInv => StreamEndsRight
  BY DEF IInv
<1>. QED
  BY <1>1, Invariance, PTL

--------------------------------------------------------------------------------
(* Ended runs stay ended *)

\* What StaysTerminal says of one step.
EndedStay ==
  \A r \in Runs : runs[r].status \in TerminalStatus =>
    /\ runs'[r].status \in TerminalStatus
    /\ started'[r] = started[r] \/ \E w \in Workers : Holds(w, r)

\* A worker's step: the claim takes queued runs only, the other writes are
\* about the run it has.
LEMMA WorkKeepsEnded ==
  ASSUME IInv, NEW w \in Workers, Work(w)
  PROVE  EndedStay
<1>0. /\ TypeOK
      /\ worker[w].pc \in Holding \union {"take_run"} => worker[w].item \in Runs
  BY DEF IInv, PointersHold
<1>1. CASE TakeRun(w)
  <2>1. CASE worker[w].item \in QueuedRuns
    <3>1. runs' = [runs EXCEPT ![worker[w].item].status = "running"]
      BY <1>1, <2>1 DEF TakeRun
    <3>2. \A r \in Runs : runs[r].status \in TerminalStatus => runs'[r] = runs[r]
      BY <3>1, <2>1, <1>0 DEF QueuedRuns, TypeOK, TerminalStatus
    <3>3. UNCHANGED started
      BY <1>1 DEF TakeRun, history
    <3>. QED
      BY <3>2, <3>3 DEF EndedStay
  <2>2. CASE worker[w].item \notin QueuedRuns
    BY <1>1, <2>2 DEF TakeRun, history, EndedStay
  <2>. QED
    BY <2>1, <2>2
<1>2. CASE Start(w)
  <2>. DEFINE r == worker[w].item
  <2>1. r \in Runs /\ Holds(w, r)
    BY <1>0, <1>2 DEF Start, At, Holds, Holding
  <2>2. \A q \in Runs : runs'[q].status = runs[q].status
    BY <1>0, <1>2, <2>1 DEF Start, TypeOK, AgentRun
  <2>3. \A q \in Runs \ {r} : started'[q] = started[q]
    BY <1>0, <1>2, <2>1 DEF Start, TypeOK
  <2>. QED
    BY <2>1, <2>2, <2>3 DEF EndedStay
<1>3. CASE Save(w) \/ Stop(w) \/ Fail(w)
  <2>. DEFINE r == worker[w].item
  <2>1. r \in Runs
    BY <1>0, <1>3 DEF Save, Stop, Fail, At, Holding
  <2>2. \A q \in Runs \ {r} : runs'[q] = runs[q]
    BY <1>0, <1>3, <2>1 DEF Save, Stop, Fail, Finish, TypeOK
  <2>3. runs'[r].status \in TerminalStatus
    <3>1. ASSUME NEW status \in TerminalStatus, Finish(w, status)
          PROVE  runs'[r].status \in TerminalStatus
      BY <1>0, <2>1, <3>1, FinishEffect DEF RunStatus
    <3>2. CASE Save(w) /\ ~worker[w].asked
      <4>1. runs' = [runs EXCEPT ![r].status = "completed",
                                 ![r].told = "completed", ![r].result = TRUE]
        BY <3>2 DEF Save
      <4>2. runs'[r].status = "completed"
        BY <4>1, <1>0, <2>1 DEF TypeOK, AgentRun
      <4>. QED
        BY <4>2 DEF TerminalStatus
    <3>. QED
      BY <1>3, <3>1, <3>2 DEF Save, Stop, Fail, TerminalStatus
  <2>4. UNCHANGED started
    BY <1>3 DEF Save, Stop, Fail, history
  <2>. QED
    BY <2>1, <2>2, <2>3, <2>4 DEF EndedStay
<1>4. CASE \/ LookForDocument(w) \/ TakeDocument(w) \/ IndexDocument(w)
           \/ LookForRun(w) \/ Boundary(w) \/ Raise(w) \/ Return(w) \/ Restart(w)
  <2>1. UNCHANGED <<runs, started>>
    BY <1>4 DEF LookForDocument, TakeDocument, IndexDocument, LookForRun, Boundary,
       Raise, Return, Restart, table, history
  <2>. QED
    BY <2>1 DEF EndedStay
<1>. QED
  BY <1>1, <1>2, <1>3, <1>4 DEF Work

\* A request's step: the new run was absent, the cancelled one ends cancelled.
LEMMA HandleKeepsEnded ==
  ASSUME IInv, NEW c \in Clients, Handle(c)
  PROVE  EndedStay
<1>0. /\ TypeOK
      /\ client[c].pc = "cancel" => client[c].run \in Runs
  BY DEF IInv, PointersHold
<1>1. CASE Insert(c)
  <2>1. UNCHANGED started
    BY <1>1 DEF Insert, history
  <2>2. CASE UNCHANGED runs
    BY <2>1, <2>2 DEF EndedStay
  <2>3. CASE \E r \in Runs \ Created :
               runs' = [runs EXCEPT ![r] = QueuedRun(client[c].key)]
    <3>1. PICK r \in Runs \ Created :
            runs' = [runs EXCEPT ![r] = QueuedRun(client[c].key)]
      BY <2>3
    <3>2. runs[r].status = "absent"
      BY <3>1 DEF Created
    <3>3. \A q \in Runs \ {r} : runs'[q] = runs[q]
      BY <3>1, <1>0 DEF TypeOK
    <3>. QED
      BY <2>1, <3>2, <3>3 DEF EndedStay, TerminalStatus
  <2>. QED
    BY <1>1, <2>2, <2>3 DEF Insert
<1>2. CASE Cancel(c)
  <2>. DEFINE r == client[c].run
  <2>1. r \in Runs
    BY <1>0, <1>2 DEF Cancel
  <2>2. \A q \in Runs \ {r} : runs'[q] = runs[q]
    BY <1>0, <1>2, <2>1 DEF Cancel, TypeOK
  <2>3. runs'[r].status \in {runs[r].status, "cancelled"}
    BY <1>0, <1>2, <2>1 DEF Cancel, TypeOK, AgentRun
  <2>4. UNCHANGED started
    BY <1>2 DEF Cancel
  <2>. QED
    BY <2>1, <2>2, <2>3, <2>4 DEF EndedStay, TerminalStatus
<1>3. CASE \/ \E key \in Keys \union {NoKey} : Submit(c, key)
           \/ \E r \in Runs : ReadRun(c, r)
  BY <1>3 DEF Submit, ReadRun, table, history, EndedStay
<1>. QED
  BY <1>1, <1>2, <1>3 DEF Handle

\* A run that ended is never queued or running again, and nobody starts it but
\* the worker that has it, though requests and workers write by what they read
\* earlier (run_service.py:108-146).
THEOREM EndedRunsStayEnded == Spec => StaysTerminal
<1>1. IInv /\ [Next]_vars => [EndedStay]_vars
  <2>. SUFFICES ASSUME IInv, Next PROVE EndedStay
    OBVIOUS
  <2>1. ASSUME NEW w \in Workers, TransactionFails(w) \/ Die(w) PROVE EndedStay
    BY <2>1 DEF TransactionFails, Die, table, history, EndedStay
  <2>2. ASSUME NEW d \in Documents, Upload(d) PROVE EndedStay
    BY <2>2 DEF Upload, history, EndedStay
  <2>. QED
    BY <2>1, <2>2, WorkKeepsEnded, HandleKeepsEnded DEF Next
<1>2. [EndedStay]_vars <=>
        [\A r \in Runs : runs[r].status \in TerminalStatus =>
           /\ runs'[r].status \in TerminalStatus
           /\ started'[r] = started[r] \/ \E w \in Workers : Holds(w, r)]_vars
  BY DEF EndedStay
<1>. QED
  BY <1>1, <1>2, Invariance, PTL DEF Spec, StaysTerminal

================================================================================
