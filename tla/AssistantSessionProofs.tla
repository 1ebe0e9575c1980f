------------------------ MODULE AssistantSessionProofs ------------------------
(***************************************************************************)
(* TLAPS proofs about AssistantSession: for any number of sessions,        *)
(* documents, memories and script runs, the waiting budget and the request *)
(* gate hold, the index never has chunks without a document, and the       *)
(* memories keep their newest fact.  A step of the session moves the loop, *)
(* the index or the memories, so each has an invariant of its own.         *)
(***************************************************************************)
EXTENDS AssistantSession, TLAPS

--------------------------------------------------------------------------------
(* What a step of the composition does to each component *)

LoopMoves == \E s \in Sessions : StartLoop(s) \/ LoopStep(s) \/ EndLoop(s)

\* A step of the session starts, moves or ends one loop, or leaves them alone.
LEMMA LoopView ==
  ASSUME Next
  PROVE  UNCHANGED loopVars \/ LoopMoves
<1>1. CASE Over
  BY <1>1 DEF Over, vars
<1>2. ASSUME NEW s \in Sessions, User(s)
      PROVE  UNCHANGED loopVars \/ LoopMoves
  BY <1>2 DEF User, Prompt, RememberCommand, ForgetCommand, IndexCommand, Abandon,
              LoopMoves
<1>3. ASSUME NEW s \in Sessions, Work(s)
      PROVE  UNCHANGED loopVars \/ LoopMoves
  BY <1>3 DEF Work, RememberNext, MemoryError, AnswerPrompt, EndScript, LoopMoves
<1>. QED
  BY <1>1, <1>2, <1>3 DEF Next

\* The call of a session is dropped, whether it had one or not.
JobDropped(s) ==
  /\ IF IndexIdle(s) THEN UNCHANGED <<job, told>> ELSE Finish(s, "nothing")
  /\ UNCHANGED <<file, temporary, originals, contested>>

IndexMoves ==
  \E s \in Sessions :
    \/ IndexStep(s) \/ JobDropped(s)
    \/ \E d \in Docs, at \in {"look", "check", "find"} : Call(s, d, at)

\* A step of the session starts, moves or ends one call, or leaves the index alone.
LEMMA IndexView ==
  ASSUME Next
  PROVE  UNCHANGED indexVars \/ IndexMoves
<1>1. CASE Over
  BY <1>1 DEF Over, vars
<1>2. ASSUME NEW s \in Sessions, User(s)
      PROVE  UNCHANGED indexVars \/ IndexMoves
  <2>1. CASE Abandon(s)
    BY <2>1 DEF Abandon, IndexMoves, JobDropped
  <2>2. CASE \E d \in Docs, at \in {"look", "check", "find"} : IndexCommand(s, d, at)
    BY <2>2 DEF IndexCommand, IndexMoves
  <2>3. CASE \/ \E text \in Texts : Prompt(s, text) \/ RememberCommand(s, text)
             \/ \E ids \in Forgettable : ForgetCommand(s, ids)
    BY <2>3 DEF Prompt, RememberCommand, ForgetCommand
  <2>. QED
    BY <1>2, <2>1, <2>2, <2>3 DEF User
<1>3. ASSUME NEW s \in Sessions, Work(s)
      PROVE  UNCHANGED indexVars \/ IndexMoves
  BY <1>3 DEF Work, RememberNext, MemoryError, AnswerPrompt, EndScript, IndexMoves
<1>. QED
  BY <1>1, <1>2, <1>3 DEF Next

MemoryMoves ==
  \E s \in Sessions :
    \/ \E candidate \in Candidates : Remember(s, candidate)
    \/ \E ids \in Forgettable : Select(s, ids)
    \/ MemoryStep(s)
    \/ memory' = [memory EXCEPT ![s] = NoMemoryCall] /\ UNCHANGED rows

ScriptTypeOK ==
  /\ script \in [Sessions -> Script]
  /\ started \in 0 .. MaxScripts

\* A step of the session starts, moves or ends one call of the memory service, or
\* leaves the memories alone.
LEMMA MemoryView ==
  ASSUME ScriptTypeOK, Next
  PROVE  UNCHANGED memoryVars \/ MemoryMoves
<1>1. CASE Over
  BY <1>1 DEF Over, vars
<1>2. ASSUME NEW s \in Sessions, User(s)
      PROVE  UNCHANGED memoryVars \/ MemoryMoves
  BY <1>2 DEF User, Prompt, RememberCommand, ForgetCommand, IndexCommand, Abandon,
              MemoryMoves
<1>3. ASSUME NEW s \in Sessions, RememberNext(s)
      PROVE  UNCHANGED memoryVars \/ MemoryMoves
  <2>1. Head(script[s].rest) \in Candidates
    BY <1>3 DEF RememberNext, ScriptTypeOK, Script
  <2>. QED
    BY <1>3, <2>1 DEF RememberNext, MemoryMoves
<1>4. ASSUME NEW s \in Sessions, Work(s), ~RememberNext(s)
      PROVE  UNCHANGED memoryVars \/ MemoryMoves
  BY <1>4 DEF Work, MemoryError, AnswerPrompt, EndScript, MemoryMoves, MemoryFails
<1>. QED
  BY <1>1, <1>2, <1>3, <1>4 DEF Next

--------------------------------------------------------------------------------
(* The agent loops and the request gate *)

LoopInv == LoopTypeOK /\ WaitWithinBudget

\* The loop invariant holds before the first script run.
LEMMA LoopInitially == Init => LoopInv
BY LoopAssumption
   DEF Init, LoopInit, LoopInv, LoopTypeOK, WaitWithinBudget, Loop, NoLoop, Requesting

\* The end of a loop gives the gate back, if it was taken.
LEMMA LoopEnds ==
  ASSUME LoopInv, NEW s \in Sessions, EndLoop(s)
  PROVE  LoopInv'
BY LoopAssumption
   DEF EndLoop, LoopInv, LoopTypeOK, WaitWithinBudget, Loop, NoLoop, Requesting

\* A step of an agent loop keeps the loop invariant.
LEMMA LoopStepKeeps ==
  ASSUME LoopInv, NEW s \in Sessions, LoopStep(s)
  PROVE  LoopInv'
<1>. USE LoopAssumption
     DEF LoopInv, LoopTypeOK, WaitWithinBudget, Loop, Requesting, GoTo
<1>1. CASE Iterate(s)
  <2>1. CASE EndLoop(s)
    BY <2>1, LoopEnds
  <2>2. CASE ~EndLoop(s)
    BY <1>1, <2>2 DEF Iterate
  <2>. QED
    BY <2>1, <2>2
<1>2. CASE Acquire(s)
  <2>1. \A t \in Sessions \ {s} : loop'[t] = loop[t] /\ loop[t].at \notin Requesting
    BY <1>2 DEF Acquire
  <2>2. /\ loop'[s].at = "post" /\ gate' = s
        /\ loop'[s].retries = 0 /\ loop'[s].waited = 0
    BY <1>2 DEF Acquire
  <2>3. LoopTypeOK'
    BY <1>2 DEF Acquire
  <2>. QED
    BY <2>1, <2>2, <2>3
<1>3. CASE WakeUp(s)
  BY <1>3 DEF WakeUp
<1>4. CASE Respond(s)
  BY <1>4 DEF Respond
<1>5. CASE RequestFails(s)
  BY <1>5, LoopEnds DEF RequestFails
<1>6. CASE StreamEnds(s)
  BY <1>6 DEF StreamEnds
<1>7. CASE \E delay \in Delays : RateLimited(s, delay)
  BY <1>7 DEF RateLimited
<1>8. CASE \E final \in BOOLEAN : Route(s, final)
  <2>1. CASE EndLoop(s)
    BY <2>1, LoopEnds
  <2>2. CASE ~EndLoop(s)
    BY <1>8, <2>2 DEF Route
  <2>. QED
    BY <2>1, <2>2
<1>. QED
  BY <1>1, <1>2, <1>3, <1>4, <1>5, <1>6, <1>7, <1>8 DEF LoopStep

\* The loop invariant is inductive.
LEMMA LoopKept == LoopInv /\ [Next]_vars => LoopInv'
<1>1. ASSUME LoopInv, UNCHANGED loopVars PROVE LoopInv'
  BY <1>1 DEF loopVars, LoopInv, LoopTypeOK, WaitWithinBudget
<1>2. ASSUME LoopInv, NEW s \in Sessions, StartLoop(s) PROVE LoopInv'
  BY <1>2 DEF StartLoop, LoopIdle, GoTo, LoopInv, LoopTypeOK, WaitWithinBudget, Loop,
              Requesting
<1>3. ASSUME LoopInv, LoopMoves PROVE LoopInv'
  BY <1>2, <1>3, LoopEnds, LoopStepKeeps DEF LoopMoves
<1>. QED
  BY <1>1, <1>3, LoopView DEF vars

\* The waiting budget and the gate hold for every configuration and every delay
\* the provider asks for (groq_client.py:257-350).
THEOREM BudgetHolds == Spec => []WaitWithinBudget
<1>1. LoopInv => WaitWithinBudget
  BY DEF LoopInv
<1>. QED
  BY <1>1, LoopInitially, LoopKept, PTL DEF Spec

--------------------------------------------------------------------------------
(* The index *)

\* A chunk has a document, and an indexed document has its chunks.
Sound(data) ==
  \A d \in Docs :
    /\ d \in data.chunks => data.docs[d].status # "none"
    /\ data.docs[d].status = "indexed" => d \in data.chunks

\* Only a call that writes the index has data for it, and that is sound.
SoundCall(call) ==
  /\ call.data # NoFile => call.at \in Writes /\ Sound(call.data)
  /\ call.spooled => call.at \in Writes

\* The index is sound, and so is all that may still replace it: the temporary
\* file, and what each call is about to write to it.
IndexSound ==
  /\ Sound(file)
  /\ temporary # NoFile => Sound(temporary)
  /\ \A s \in Sessions : SoundCall(job[s])

IndexInv == IndexTypeOK /\ IndexSound

\* The index invariant holds before the first script run.
LEMMA IndexInitially == Init => IndexInv
<1>. SUFFICES ASSUME Init PROVE IndexInv
  OBVIOUS
<1>1. PICK D \in Indexed : file = IndexOf(D) /\ originals = D
  BY DEF Init, IndexInit
<1>2. D \subseteq Docs
  BY IndexAssumption
<1>3. file \in IndexFile /\ Sound(file)
  BY <1>1, <1>2 DEF IndexOf, IndexFile, IndexedRecord, NoRecord, Record, Sound
<1>4. NoJob \in Job
  BY IndexAssumption DEF NoJob, Job, NoRecord, Record
<1>5. SoundCall(NoJob)
  BY DEF NoJob, SoundCall
<1>. QED
  BY <1>1, <1>2, <1>3, <1>4, <1>5 DEF Init, IndexInit, IndexInv, IndexTypeOK, IndexSound

\* A job that moves on without data, or that ends, leaves nothing to be written.
LEMMA MoveEffect ==
  ASSUME IndexInv, NEW s \in Sessions,
         NEW at \in {"look", "check", "save", "recall", "find", "purge"} \union Writes,
         MoveTo(s, at)
  PROVE  /\ job' \in [Sessions -> Job]
         /\ \A t \in Sessions : SoundCall(job'[t])
BY DEF MoveTo, IndexInv, IndexTypeOK, IndexSound, SoundCall, Job

\* What the end of an index call leaves behind.
LEMMA FinishEffect ==
  ASSUME IndexInv, NEW s \in Sessions,
         NEW message \in {"nothing", "indexed", "deleted", "erased"},
         Finish(s, message)
  PROVE  /\ job' \in [Sessions -> Job]
         /\ \A t \in Sessions : SoundCall(job'[t])
         /\ told' \in [Docs -> {"nothing", "indexed", "deleted", "erased"}]
<1>1. NoJob \in Job /\ SoundCall(NoJob)
  BY IndexAssumption DEF NoJob, Job, NoRecord, Record, SoundCall
<1>2. job[s].doc \in Docs
  BY DEF IndexInv, IndexTypeOK, Job
<1>. QED
  BY <1>1, <1>2 DEF Finish, IndexInv, IndexTypeOK, IndexSound

\* A call makes of a sound index a sound index.
LEMMA ChangedSound ==
  ASSUME IndexInv, NEW s \in Sessions, job[s].at \in Writes
  PROVE  Changed(s, file) \in IndexFile /\ Sound(Changed(s, file))
<1>. DEFINE d == job[s].doc
<1>0. /\ d \in Docs
      /\ job[s].record \in Record
      /\ file \in IndexFile /\ Sound(file)
  BY DEF IndexInv, IndexTypeOK, IndexSound, Job
<1>1. ASSUME NEW record \in Record, record.status # "none", record.status # "indexed"
      PROVE  Marked(file, d, record) \in IndexFile /\ Sound(Marked(file, d, record))
  BY <1>0, <1>1 DEF Marked, IndexFile, Sound
<1>2. CASE job[s].at = "mark"
  BY <1>1, <1>2 DEF Changed, Record
<1>3. CASE job[s].at = "upsert"
  BY <1>0, <1>3 DEF Changed, Marked, IndexFile, IndexedRecord, Record, Sound
<1>4. CASE job[s].at = "fail"
  <2>1. [job[s].record EXCEPT !.status = "failed"] \in Record
    BY <1>0 DEF Record
  <2>2. [job[s].record EXCEPT !.status = "failed"].status = "failed"
    BY <1>0 DEF Record
  <2>. QED
    BY <1>1, <1>4, <2>1, <2>2 DEF Changed
<1>5. CASE job[s].at = "erase"
  BY <1>0, <1>5 DEF Changed, Erased, IndexFile, NoRecord, Record, Sound
<1>. QED
  BY <1>2, <1>3, <1>4, <1>5 DEF Writes

\* A step of an index call keeps the index invariant.
LEMMA IndexStepKeeps ==
  ASSUME IndexInv, NEW s \in Sessions, IndexStep(s)
  PROVE  IndexInv'
<1>. USE DEF IndexInv
<1>0. /\ job[s] \in Job /\ job[s].doc \in Docs
      /\ job[s].record \in Record
      /\ job[s].at \in {"idle", "look", "check", "save", "recall", "find", "purge"}
                         \union Writes
  BY DEF IndexTypeOK, Job
<1>1. ASSUME UNCHANGED <<file, temporary, contested>>,
             originals' \in SUBSET Docs,
             job' \in [Sessions -> Job],
             \A t \in Sessions : SoundCall(job'[t]),
             told' \in [Docs -> {"nothing", "indexed", "deleted", "erased"}]
      PROVE  IndexInv'
  BY <1>1 DEF IndexTypeOK, IndexSound
<1>2. ASSUME UNCHANGED <<file, temporary, contested, told>>,
             originals' \in SUBSET Docs,
             NEW at \in {"look", "check", "save", "recall", "find", "purge"} \union Writes,
             MoveTo(s, at)
      PROVE  IndexInv'
  BY <1>1, <1>2, MoveEffect DEF IndexTypeOK
<1>3. ASSUME UNCHANGED <<file, temporary, contested>>,
             originals' \in SUBSET Docs,
             NEW message \in {"nothing", "indexed", "deleted", "erased"},
             Finish(s, message)
      PROVE  IndexInv'
  BY <1>1, <1>3, FinishEffect
<1>4. originals \in SUBSET Docs
  BY DEF IndexTypeOK
<1>5. CASE Look(s) \/ Check(s)
  BY <1>2, <1>3, <1>4, <1>5 DEF Look, Check
<1>6. CASE SaveOriginal(s)
  BY <1>0, <1>2, <1>4, <1>6 DEF SaveOriginal, Writes
<1>7. CASE Recall(s) \/ Find(s)
  <2>1. file.docs[job[s].doc] \in Record
    BY <1>0 DEF IndexTypeOK, IndexFile
  <2>2. job' \in [Sessions -> Job]
    BY <1>0, <1>7, <2>1 DEF Recall, Find, IndexTypeOK, Job, Writes
  <2>3. \A t \in Sessions : SoundCall(job'[t])
    BY <1>7 DEF Recall, Find, IndexTypeOK, IndexSound, SoundCall, Job, Writes
  <2>. QED
    BY <1>1, <1>4, <1>7, <2>2, <2>3 DEF Recall, Find, IndexTypeOK, IndexSound
<1>8. CASE Purge(s)
  BY <1>3, <1>4, <1>8 DEF Purge
<1>9. CASE Read(s)
  <2>1. CASE Finish(s, "deleted") /\ UNCHANGED <<file, temporary, originals, contested>>
    BY <1>3, <1>4, <2>1
  <2>2. CASE /\ job' = [job EXCEPT ![s].data = Changed(s, file)]
             /\ UNCHANGED <<file, temporary, originals, told, contested>>
    <3>1. Changed(s, file) \in IndexFile /\ Sound(Changed(s, file))
      BY <1>9, ChangedSound DEF Read
    <3>2. job' \in [Sessions -> Job]
      BY <2>2, <3>1 DEF IndexTypeOK, Job
    <3>3. \A t \in Sessions : SoundCall(job'[t])
      BY <1>9, <2>2, <3>1 DEF Read, IndexTypeOK, IndexSound, SoundCall, Job
    <3>. QED
      BY <1>1, <1>4, <2>2, <3>2, <3>3 DEF IndexTypeOK, IndexSound
  <2>. QED
    BY <1>9, <2>1, <2>2 DEF Read
<1>10. CASE Spool(s)
  <2>1. job[s].data \in IndexFile /\ Sound(job[s].data)
    BY <1>0, <1>10 DEF Spool, IndexSound, SoundCall, Job
  <2>2. job' \in [Sessions -> Job]
    BY <1>10 DEF Spool, IndexTypeOK, Job
  <2>3. \A t \in Sessions : SoundCall(job'[t])
    BY <1>10 DEF Spool, IndexTypeOK, IndexSound, SoundCall, Job
  <2>. QED
    BY <1>10, <2>1, <2>2, <2>3 DEF Spool, IndexTypeOK, IndexSound
<1>11. CASE Replace(s)
  <2>1. temporary \in IndexFile /\ Sound(temporary)
    BY <1>11 DEF Replace, IndexTypeOK, IndexSound
  <2>2. /\ file' = temporary /\ temporary' = NoFile
        /\ contested' \in SUBSET Docs
        /\ originals' = originals
    BY <1>11 DEF Replace, IndexTypeOK
  <2>3. /\ job' \in [Sessions -> Job]
        /\ \A t \in Sessions : SoundCall(job'[t])
        /\ told' \in [Docs -> {"nothing", "indexed", "deleted", "erased"}]
    <3>1. \/ \E at \in {"upsert", "purge"} : MoveTo(s, at) /\ UNCHANGED told
          \/ \E message \in {"indexed", "nothing", "erased"} : Finish(s, message)
      <4>1. job[s].at \in Writes
        BY <1>11 DEF Replace, IndexSound, SoundCall
      <4>. QED
        BY <1>11, <4>1 DEF Replace, Written, Writes
    <3>. QED
      BY <3>1, MoveEffect, FinishEffect DEF IndexTypeOK, Writes
  <2>. QED
    BY <1>4, <2>1, <2>2, <2>3 DEF IndexTypeOK, IndexSound
<1>12. CASE CallFails(s)
  BY <1>2, <1>3, <1>4, <1>12 DEF CallFails
<1>. QED
  BY <1>5, <1>6, <1>7, <1>8, <1>9, <1>10, <1>11, <1>12 DEF IndexStep

\* The index invariant is inductive.
LEMMA IndexKept == IndexInv /\ [Next]_vars => IndexInv'
<1>1. ASSUME IndexInv, UNCHANGED indexVars PROVE IndexInv'
  BY <1>1 DEF indexVars, IndexInv, IndexTypeOK, IndexSound
<1>2. ASSUME IndexInv, NEW s \in Sessions, NEW d \in Docs,
             NEW at \in {"look", "check", "find"}, Call(s, d, at)
      PROVE  IndexInv'
  <2>1. [NoJob EXCEPT !.at = at, !.doc = d] \in Job
    BY DEF NoJob, Job, NoRecord, Record
  <2>2. SoundCall([NoJob EXCEPT !.at = at, !.doc = d])
    BY DEF NoJob, SoundCall
  <2>. QED
    BY <1>2, <2>1, <2>2 DEF Call, IndexInv, IndexTypeOK, IndexSound
<1>3. ASSUME IndexInv, NEW s \in Sessions, JobDropped(s) PROVE IndexInv'
  <2>1. CASE UNCHANGED <<job, told>>
    BY <1>3, <2>1 DEF JobDropped, IndexInv, IndexTypeOK, IndexSound
  <2>2. CASE Finish(s, "nothing")
    BY <1>3, <2>2, FinishEffect DEF JobDropped, IndexInv, IndexTypeOK, IndexSound
  <2>. QED
    BY <1>3, <2>1, <2>2 DEF JobDropped
<1>4. ASSUME IndexInv, IndexMoves PROVE IndexInv'
  BY <1>2, <1>3, <1>4, IndexStepKeeps DEF IndexMoves
<1>. QED
  BY <1>1, <1>4, IndexView DEF vars

\* However many sessions overwrite each other's index, and wherever a call fails or
\* is dropped, retrieval cites no chunk of a document that is not listed
\* (vector_store.py:20-60, 111-120).
THEOREM NoOrphanChunks == Spec => []ChunksAreListed
<1>1. IndexInv => ChunksAreListed
  BY DEF IndexInv, IndexSound, Sound, ChunksAreListed
<1>. QED
  BY <1>1, IndexInitially, IndexKept, PTL DEF Spec

--------------------------------------------------------------------------------
(* What the user was told about a document *)

\* An indexed document has a record that knows its original, and that is stored.
FileFits(d) ==
  /\ file.docs[d].status = "indexed" => file.docs[d] = IndexedRecord
  /\ file.docs[d].raw => d \in originals

ReportFits(d) ==
  /\ told[d] = "indexed" =>
       /\ file.docs[d] = IndexedRecord
       /\ d \in file.chunks \intersect originals
  /\ told[d] \in {"deleted", "erased"} =>
       /\ file.docs[d] = NoRecord /\ d \notin file.chunks
       /\ told[d] = "deleted" => d \notin originals

\* What a call that has the document for itself may rely on.
CallFits(d, call) ==
  /\ call.at \in {"mark", "upsert"} => d \in originals
  /\ call.at \in {"fail", "erase"} => call.record = file.docs[d]
  /\ call.at \in {"find", "erase"} => file.docs[d].status # "none"
  /\ call.at = "purge" => file.docs[d] = NoRecord /\ d \notin file.chunks

\* At most one call works on the document, and reports when it ends.
Fits(d) ==
  /\ FileFits(d) /\ ReportFits(d)
  /\ \A s, t \in Working(d) : s = t
  /\ \A s \in Working(d) : told[d] = "nothing" /\ CallFits(d, job[s])

UncontestedFit == \A d \in Docs \ contested : Fits(d)

\* No report contradicts an empty index.
LEMMA FitsInitially == Init => UncontestedFit
<1>. SUFFICES ASSUME Init, NEW d \in Docs PROVE Fits(d)
  BY DEF UncontestedFit
<1>1. PICK D \in Indexed : file = IndexOf(D) /\ originals = D
  BY DEF Init, IndexInit
<1>2. file.docs[d] = IF d \in originals THEN IndexedRecord ELSE NoRecord
  BY <1>1 DEF IndexOf
<1>3. Working(d) = {} /\ told[d] = "nothing"
  BY DEF Init, IndexInit, NoJob, Working, IndexIdle
<1>. QED
  BY <1>2, <1>3 DEF Fits, FileFits, ReportFits, IndexedRecord, NoRecord

\* A step of a call on another document.
LEMMA ElsewhereFits ==
  ASSUME NEW d \in Docs, Fits(d), NEW s \in Sessions,
         s \notin Working(d), s \notin Working(d)',
         \A t \in Sessions \ {s} : job'[t] = job[t],
         file'.docs[d] = file.docs[d], d \in file'.chunks <=> d \in file.chunks,
         d \in originals' <=> d \in originals, told'[d] = told[d]
  PROVE  Fits(d)'
<1>1. Working(d)' = Working(d) /\ \A t \in Working(d) : job'[t] = job[t]
  BY DEF Working, IndexIdle
<1>2. FileFits(d)' /\ ReportFits(d)'
  BY DEF Fits, FileFits, ReportFits
<1>3. \A t \in Working(d) : CallFits(d, job[t])'
  BY <1>1 DEF Fits, CallFits
<1>. QED
  BY <1>1, <1>2, <1>3 DEF Fits

\* A step of the one call on the document: it ends with a report, or goes on.
LEMMA HereFits ==
  ASSUME NEW d \in Docs, Fits(d), NEW s \in Working(d),
         \A t \in Sessions \ {s} : job'[t] = job[t],
         FileFits(d)',
         \/ job'[s] = NoJob /\ ReportFits(d)'
         \/ told'[d] = told[d] /\ CallFits(d, job[s])'
  PROVE  Fits(d)'
<1>1. \A t \in Working(d)' : t = s
  BY DEF Fits, Working, IndexIdle
<1>2. CASE job'[s] = NoJob /\ ReportFits(d)'
  <2>1. s \notin Working(d)'
    BY <1>2 DEF Working, IndexIdle, NoJob
  <2>. QED
    BY <1>1, <1>2, <2>1 DEF Fits
<1>3. CASE told'[d] = told[d] /\ CallFits(d, job[s])'
  <2>1. told'[d] = "nothing"
    BY <1>3 DEF Fits
  <2>2. ReportFits(d)'
    BY <2>1 DEF ReportFits
  <2>. QED
    BY <1>1, <1>3, <2>1, <2>2 DEF Fits
<1>. QED
  BY <1>2, <1>3

\* A call changes its own document only.
LEMMA ChangedAt ==
  ASSUME IndexInv, NEW s \in Sessions, job[s].at \in Writes, NEW d \in Docs
  PROVE  LET data == Changed(s, file)
         IN /\ d # job[s].doc => /\ data.docs[d] = file.docs[d]
                                 /\ d \in data.chunks <=> d \in file.chunks
            /\ d = job[s].doc =>
                 /\ job[s].at = "mark" =>
                      data.docs[d] = [status |-> "processing", raw |-> TRUE]
                 /\ job[s].at = "upsert" =>
                      data.docs[d] = IndexedRecord /\ d \in data.chunks
                 /\ job[s].at = "fail" =>
                      data.docs[d] = [job[s].record EXCEPT !.status = "failed"]
                 /\ job[s].at = "erase" => data.docs[d] = NoRecord /\ d \notin data.chunks
<1>0. file \in IndexFile /\ job[s].doc \in Docs
  BY DEF IndexInv, IndexTypeOK, Job
<1>1. CASE job[s].at = "mark"
  BY <1>0, <1>1 DEF Changed, Marked, IndexFile
<1>2. CASE job[s].at = "upsert"
  BY <1>0, <1>2 DEF Changed, Marked, IndexFile
<1>3. CASE job[s].at = "fail"
  BY <1>0, <1>3 DEF Changed, Marked, IndexFile
<1>4. CASE job[s].at = "erase"
  BY <1>0, <1>4 DEF Changed, Erased, IndexFile
<1>. QED
  BY <1>1, <1>2, <1>3, <1>4 DEF Writes

\* Moving on changes the place of one call only.
LEMMA MovedOn ==
  ASSUME IndexInv, NEW s \in Sessions, NEW at, MoveTo(s, at)
  PROVE  /\ job'[s].at = at /\ job'[s].doc = job[s].doc /\ job'[s].record = job[s].record
         /\ \A t \in Sessions \ {s} : job'[t] = job[t]
BY DEF MoveTo, IndexInv, IndexTypeOK, Job

\* A call that ends changes the report of its document only.
LEMMA Finished ==
  ASSUME IndexInv, NEW s \in Sessions, NEW message, Finish(s, message)
  PROVE  /\ job'[s] = NoJob /\ told'[job[s].doc] = message
         /\ \A d \in Docs \ {job[s].doc} : told'[d] = told[d]
         /\ \A t \in Sessions \ {s} : job'[t] = job[t]
<1>1. job[s].doc \in Docs
  BY DEF IndexInv, IndexTypeOK, Job
<1>. QED
  BY <1>1 DEF Finish, IndexInv, IndexTypeOK

\* The index and the originals as they are for a document the step is not about.
Untouched(d) ==
  /\ file'.docs[d] = file.docs[d] /\ (d \in file'.chunks <=> d \in file.chunks)
  /\ d \in originals' <=> d \in originals

\* A step about another document leaves this one fitting.
LEMMA StepElsewhereFits ==
  ASSUME IndexInv, NEW s \in Sessions, ~IndexIdle(s), IndexStep(s) \/ JobDropped(s),
         NEW d \in Docs \ contested', Fits(d), job[s].doc # d
  PROVE  Fits(d)'
<1>1. ASSUME NEW message, Finish(s, message), Untouched(d) PROVE Fits(d)'
  <2>1. /\ job'[s] = NoJob /\ told'[d] = told[d]
        /\ \A t \in Sessions \ {s} : job'[t] = job[t]
    BY <1>1, Finished
  <2>2. s \notin Working(d) /\ s \notin Working(d)'
    BY <2>1 DEF Working, IndexIdle, NoJob
  <2>. QED
    BY <1>1, <2>1, <2>2, ElsewhereFits DEF Untouched
<1>2. ASSUME NEW at, MoveTo(s, at), UNCHANGED told, Untouched(d) PROVE Fits(d)'
  BY <1>2, MovedOn, ElsewhereFits DEF Working, IndexIdle, Untouched
<1>3. ASSUME job'[s].doc = job[s].doc, UNCHANGED told, Untouched(d),
             \A t \in Sessions \ {s} : job'[t] = job[t]
      PROVE  Fits(d)'
  BY <1>3, ElsewhereFits DEF Working, IndexIdle, Untouched
<1>4. CASE Look(s) \/ Check(s)
  BY <1>1, <1>2, <1>4 DEF Look, Check, Untouched
<1>5. CASE SaveOriginal(s)
  BY <1>2, <1>5 DEF SaveOriginal, Untouched
<1>6. CASE Recall(s) \/ Find(s)
  BY <1>3, <1>6 DEF Recall, Find, Untouched, IndexInv, IndexTypeOK, Job
<1>7. CASE Purge(s)
  BY <1>1, <1>7 DEF Purge, Untouched
<1>8. CASE Read(s)
  BY <1>1, <1>3, <1>8 DEF Read, Untouched, IndexInv, IndexTypeOK, Job
<1>9. CASE Spool(s)
  BY <1>3, <1>9 DEF Spool, Untouched, IndexInv, IndexTypeOK, Job
<1>10. CASE Replace(s)
  <2>1. job[s].at \in Writes
    BY <1>10 DEF Replace, IndexInv, IndexSound, SoundCall
  <2>2. Untouched(d)
    BY <1>10, <2>1, ChangedAt DEF Replace, Untouched
  <2>3. \/ \E at : MoveTo(s, at) /\ UNCHANGED told
        \/ \E message : Finish(s, message)
    BY <1>10, <2>1 DEF Replace, Written, Writes
  <2>. QED
    BY <1>1, <1>2, <2>2, <2>3
<1>11. CASE CallFails(s)
  BY <1>1, <1>2, <1>11 DEF CallFails, Untouched
<1>12. CASE JobDropped(s)
  BY <1>1, <1>12 DEF JobDropped, Untouched
<1>. QED
  BY <1>4, <1>5, <1>6, <1>7, <1>8, <1>9, <1>10, <1>11, <1>12 DEF IndexStep

\* A step about this document, alone, leaves it fitting.
LEMMA StepHereFits ==
  ASSUME IndexInv, NEW s \in Sessions, ~IndexIdle(s), IndexStep(s) \/ JobDropped(s),
         NEW d \in Docs \ contested', Fits(d), job[s].doc = d
  PROVE  Fits(d)'
<1>0. /\ s \in Working(d) /\ told[d] = "nothing" /\ CallFits(d, job[s]) /\ FileFits(d)
      /\ file.docs[d] \in Record /\ job[s].record \in Record
      /\ file.docs[d].status = "indexed" => d \in file.chunks
  BY DEF Working, Fits, IndexInv, IndexTypeOK, IndexFile, IndexSound, Sound, Job
<1>1. ASSUME NEW message, Finish(s, message), FileFits(d)',
             told'[d] = message => ReportFits(d)'
      PROVE  Fits(d)'
  BY <1>0, <1>1, Finished, HereFits
<1>2. ASSUME NEW at, MoveTo(s, at), UNCHANGED told, FileFits(d)',
             job'[s].at = at => CallFits(d, job[s])'
      PROVE  Fits(d)'
  BY <1>0, <1>2, MovedOn, HereFits
<1>3. ASSUME UNCHANGED <<file, originals>> PROVE FileFits(d)'
  BY <1>0, <1>3 DEF FileFits
<1>4. ASSUME Finish(s, "nothing"), UNCHANGED <<file, originals>> PROVE Fits(d)'
  BY <1>1, <1>3, <1>4 DEF ReportFits
<1>5. ASSUME NEW at \in {"save", "recall"}, MoveTo(s, at), UNCHANGED told,
             UNCHANGED <<file, originals>>
      PROVE  Fits(d)'
  BY <1>2, <1>3, <1>5 DEF CallFits
<1>6. CASE Look(s)
  <2>1. CASE file.docs[d].status = "indexed"
    <3>1. told'[d] = "indexed" => ReportFits(d)'
      BY <1>0, <1>6, <2>1 DEF Look, FileFits, ReportFits, IndexedRecord
    <3>. QED
      BY <1>1, <1>3, <1>6, <2>1, <3>1 DEF Look
  <2>2. CASE file.docs[d].status # "indexed"
    BY <1>5, <1>6, <2>2 DEF Look
  <2>. QED
    BY <2>1, <2>2
<1>7. CASE Check(s)
  BY <1>4, <1>5, <1>7 DEF Check
<1>8. CASE SaveOriginal(s)
  <2>1. FileFits(d)'
    BY <1>0, <1>8 DEF SaveOriginal, FileFits
  <2>2. job'[s].at = "mark" => CallFits(d, job[s])'
    BY <1>8 DEF SaveOriginal, CallFits
  <2>. QED
    BY <1>2, <1>8, <2>1, <2>2 DEF SaveOriginal
<1>9. CASE Recall(s) \/ Find(s)
  <2>1. UNCHANGED <<file, originals, told>>
    BY <1>9 DEF Recall, Find
  <2>2. /\ job'[s].record = file.docs[d]
        /\ job'[s].at = "fail" \/ (job[s].at = "find" /\ job'[s].at = "erase")
        /\ \A t \in Sessions \ {s} : job'[t] = job[t]
    BY <1>9 DEF Recall, Find, IndexInv, IndexTypeOK, Job
  <2>3. CallFits(d, job[s])'
    BY <1>0, <2>1, <2>2 DEF CallFits
  <2>. QED
    BY <1>0, <1>3, <2>1, <2>2, <2>3, HereFits
<1>10. CASE Purge(s)
  <2>1. file.docs[d] = NoRecord /\ d \notin file.chunks
    BY <1>0, <1>10 DEF Purge, CallFits
  <2>2. FileFits(d)'
    BY <1>10, <2>1 DEF Purge, FileFits, NoRecord
  <2>3. told'[d] = "deleted" => ReportFits(d)'
    BY <1>10, <2>1 DEF Purge, ReportFits
  <2>. QED
    BY <1>1, <1>10, <2>2, <2>3 DEF Purge
<1>11. CASE Read(s) \/ Spool(s)
  <2>1. /\ UNCHANGED <<file, originals, told>>
        /\ job'[s].at = job[s].at /\ job'[s].record = job[s].record
        /\ \A t \in Sessions \ {s} : job'[t] = job[t]
    BY <1>0, <1>11 DEF Read, Spool, CallFits, IndexInv, IndexTypeOK, Job
  <2>2. CallFits(d, job[s])'
    BY <1>0, <2>1 DEF CallFits
  <2>. QED
    BY <1>0, <1>3, <2>1, <2>2, HereFits
<1>12. CASE Replace(s)
  <2>1. job[s].at \in Writes
    BY <1>12 DEF Replace, IndexInv, IndexSound, SoundCall
  <2>2. PICK data : data = Changed(s, file)
    OBVIOUS
  <2>3. /\ file'.docs[d] = data.docs[d] /\ (d \in file'.chunks <=> d \in data.chunks)
        /\ originals' = originals /\ Written(s)
    BY <1>12, <2>2 DEF Replace
  <2>4. CASE job[s].at = "mark"
    <3>1. file'.docs[d] = [status |-> "processing", raw |-> TRUE] /\ d \in originals
      BY <1>0, <2>1, <2>2, <2>3, <2>4, ChangedAt DEF CallFits
    <3>2. FileFits(d)'
      BY <2>3, <3>1 DEF FileFits
    <3>3. job'[s].at = "upsert" => CallFits(d, job[s])'
      BY <2>3, <3>1 DEF CallFits
    <3>. QED
      BY <1>2, <2>3, <2>4, <3>2, <3>3 DEF Written
  <2>5. CASE job[s].at = "upsert"
    <3>1. file'.docs[d] = IndexedRecord /\ d \in originals /\ d \in file'.chunks
      BY <1>0, <2>1, <2>2, <2>3, <2>5, ChangedAt DEF CallFits
    <3>2. FileFits(d)'
      BY <2>3, <3>1 DEF FileFits
    <3>3. told'[d] = "indexed" => ReportFits(d)'
      BY <2>3, <3>1 DEF ReportFits
    <3>. QED
      BY <1>1, <2>3, <2>5, <3>2, <3>3 DEF Written
  <2>6. CASE job[s].at = "fail"
    <3>1. file'.docs[d] = [file.docs[d] EXCEPT !.status = "failed"]
      BY <1>0, <2>1, <2>2, <2>3, <2>6, ChangedAt DEF CallFits
    <3>2. FileFits(d)'
      BY <1>0, <2>3, <3>1 DEF FileFits, Record
    <3>. QED
      BY <1>1, <2>3, <2>6, <3>2 DEF Written, ReportFits
  <2>7. CASE job[s].at = "erase"
    <3>1. file'.docs[d] = NoRecord /\ d \notin file'.chunks
      BY <2>1, <2>2, <2>3, <2>7, ChangedAt
    <3>2. FileFits(d)'
      BY <3>1 DEF FileFits, NoRecord
    <3>3. job'[s].at = "purge" => CallFits(d, job[s])'
      BY <3>1 DEF CallFits
    <3>4. told'[d] = "erased" => ReportFits(d)'
      BY <3>1 DEF ReportFits
    <3>. QED
      BY <1>1, <1>2, <2>3, <2>7, <3>2, <3>3, <3>4 DEF Written
  <2>. QED
    BY <2>1, <2>4, <2>5, <2>6, <2>7 DEF Writes
<1>13. CASE CallFails(s)
  BY <1>4, <1>5, <1>13 DEF CallFails
<1>14. CASE JobDropped(s)
  BY <1>4, <1>14 DEF JobDropped
<1>. QED
  BY <1>6, <1>7, <1>8, <1>9, <1>10, <1>11, <1>12, <1>13, <1>14 DEF IndexStep

\* A call that is entered fits what its document is in.
LEMMA CallFitsIn ==
  ASSUME IndexInv, NEW s \in Sessions, NEW e \in Docs,
         NEW at \in {"look", "check", "find"}, Call(s, e, at),
         NEW d \in Docs \ contested', Fits(d)
  PROVE  Fits(d)'
<1>1. /\ UNCHANGED <<file, originals>>
      /\ job'[s].at = at /\ job'[s].doc = e
      /\ \A t \in Sessions \ {s} : job'[t] = job[t]
      /\ told' = [told EXCEPT ![e] = "nothing"] /\ IndexIdle(s)
  BY DEF Call, NoJob, IndexInv, IndexTypeOK, Job
<1>2. CASE d # e
  BY <1>1, <1>2, ElsewhereFits DEF Working, IndexIdle, IndexInv, IndexTypeOK
<1>3. CASE d = e
  <2>1. Working(d) = {}
    BY <1>3 DEF Call
  <2>2. Working(d)' = {s}
    BY <1>1, <1>3, <2>1 DEF Working, IndexIdle
  <2>3. told'[d] = "nothing"
    BY <1>1, <1>3 DEF IndexInv, IndexTypeOK
  <2>4. CallFits(d, job[s])'
    BY <1>1, <1>3 DEF Call, CallFits
  <2>5. FileFits(d)' /\ ReportFits(d)'
    BY <1>1, <2>3 DEF Fits, FileFits, ReportFits
  <2>. QED
    BY <2>2, <2>3, <2>4, <2>5 DEF Fits
<1>. QED
  BY <1>2, <1>3

\* Documents without a contest keep fitting.
LEMMA FitsKept == IndexInv /\ UncontestedFit /\ [Next]_vars => UncontestedFit'
<1>1. ASSUME UncontestedFit, UNCHANGED indexVars PROVE UncontestedFit'
  BY <1>1 DEF indexVars, UncontestedFit, Fits, FileFits, ReportFits, CallFits, Working,
              IndexIdle
<1>2. ASSUME IndexInv, UncontestedFit, IndexMoves PROVE UncontestedFit'
  <2>1. contested \subseteq contested'
    BY <1>2 DEF IndexMoves, IndexStep, JobDropped, Call, Look, Check, SaveOriginal,
                Recall, Find, Purge, Read, Spool, Replace, CallFails
  <2>2. SUFFICES ASSUME NEW d \in Docs \ contested' PROVE Fits(d)'
    BY DEF UncontestedFit
  <2>3. Fits(d)
    BY <1>2, <2>1 DEF UncontestedFit
  <2>4. ASSUME NEW s \in Sessions, NEW e \in Docs, NEW at \in {"look", "check", "find"},
               Call(s, e, at)
        PROVE  Fits(d)'
    BY <1>2, <2>3, <2>4, CallFitsIn
  <2>5. ASSUME NEW s \in Sessions, IndexStep(s) \/ JobDropped(s) PROVE Fits(d)'
    <3>1. CASE ~IndexIdle(s)
      BY <1>2, <2>3, <2>5, <3>1, StepElsewhereFits, StepHereFits
    <3>2. CASE IndexIdle(s)
      <4>1. UNCHANGED indexVars
        BY <1>2, <2>5, <3>2
           DEF IndexStep, JobDropped, Look, Check, SaveOriginal, Recall, Find, Purge, Read,
               Spool, Replace, CallFails, IndexIdle, Writes, indexVars, IndexInv,
               IndexSound, SoundCall
      <4>. QED
        BY <1>1, <1>2, <4>1 DEF UncontestedFit
    <3>. QED
      BY <3>1, <3>2
  <2>. QED
    BY <1>2, <2>4, <2>5 DEF IndexMoves
<1>. QED
  BY <1>1, <1>2, IndexView DEF vars

\* A document that no two calls worked on at once is as the user was told: indexed
\* with chunks and original, or gone with both, wherever a call failed or was
\* dropped (pipeline.py:51-169, 204-213, app.py:1763-1829).
THEOREM ReportsAreTrue == Spec => []ReportsHold
<1>1. UncontestedFit => ReportsHold
  BY DEF UncontestedFit, Fits, ReportFits, ReportsHold
<1>2. Spec => [](IndexInv /\ UncontestedFit)
  BY IndexInitially, IndexKept, FitsInitially, FitsKept, PTL DEF Spec
<1>. QED
  BY <1>1, <1>2, PTL

--------------------------------------------------------------------------------
(* The memories *)

\* What a call still knows when it looks for conflicts or stores: nothing that was
\* there when it looked has its content and is active.
NoTwinSeen(call) ==
  /\ call.checked <= Len(rows)
  /\ \A a \in Active : Content(a) = call.candidate.content => call.checked < a

\* What it knows when it stores: the conflicts it found have its key, and any
\* other active memory of the key is newer than its search.
ConflictsKnown(call) ==
  /\ call.matched <= Len(rows)
  /\ call.ids \subseteq DOMAIN rows
  /\ \A a \in call.ids : Key(a) = call.candidate.key
  /\ \A a \in Active \ call.ids : Key(a) = call.candidate.key => call.matched < a

Knows(call) ==
  /\ call.at \in {"match", "store"} => call.candidate \in Candidates /\ NoTwinSeen(call)
  /\ call.at = "store" => ConflictsKnown(call)

MemoryInv ==
  /\ MemoryTypeOK
  /\ \A s \in Sessions : Knows(memory[s])
  /\ TwinsOverlapped
  /\ LastFactStands

\* The memory invariant holds before the first script run.
LEMMA MemoryInitially == Init => MemoryInv
BY DEF Init, MemoryInit, MemoryInv, MemoryTypeOK, NoMemoryCall, MemoryCall, Knows,
       TwinsOverlapped, LastFactStands, Active

\* A session without a memory call has read nothing that could be stale.
LEMMA NoCallKnows == NoMemoryCall \in MemoryCall /\ Knows(NoMemoryCall)
BY DEF NoMemoryCall, MemoryCall, Knows

\* A step that leaves the rows alone need only see to the call it moves.
LEMMA CallMoved ==
  ASSUME MemoryInv, UNCHANGED rows, NEW s \in Sessions,
         NEW call \in MemoryCall, Knows(call), memory' = [memory EXCEPT ![s] = call]
  PROVE  MemoryInv'
<1>1. ASSUME NEW t \in Sessions PROVE Knows(memory[t])'
  <2>1. memory'[t] = memory[t] \/ memory'[t] = call
    BY DEF MemoryInv, MemoryTypeOK
  <2>2. Knows(memory[t])
    BY DEF MemoryInv
  <2>. QED
    BY <2>1, <2>2 DEF Knows, NoTwinSeen, ConflictsKnown, Active, Content, Key
<1>2. MemoryTypeOK'
  BY DEF MemoryInv, MemoryTypeOK
<1>3. TwinsOverlapped' /\ LastFactStands'
  BY DEF MemoryInv, TwinsOverlapped, LastFactStands, Active, Content, Key
<1>. QED
  BY <1>1, <1>2, <1>3 DEF MemoryInv

\* Remembering keeps the memory invariant.
LEMMA RememberKeeps ==
  ASSUME MemoryInv, NEW s \in Sessions, NEW candidate \in Candidates,
         Remember(s, candidate)
  PROVE  MemoryInv'
<1>1. CASE UNCHANGED memory
  BY <1>1 DEF Remember, MemoryInv, MemoryTypeOK, TwinsOverlapped, LastFactStands,
              Knows, NoTwinSeen, ConflictsKnown, Active, Content, Key
<1>2. CASE ~UNCHANGED memory
  <2>. DEFINE call == [NoMemoryCall EXCEPT !.at = "match", !.candidate = candidate,
                                           !.checked = Len(rows)]
  <2>1. Len(rows) \in Nat
    BY DEF MemoryInv, MemoryTypeOK
  <2>2. call \in MemoryCall
    BY <2>1 DEF NoMemoryCall, MemoryCall
  <2>3. /\ call.at = "match" /\ call.candidate = candidate /\ call.checked = Len(rows)
    BY DEF NoMemoryCall
  <2>4. \A a \in Active : Content(a) # candidate.content
    BY <1>2 DEF Remember
  <2>5. Knows(call)
    BY <2>1, <2>3, <2>4 DEF Knows, NoTwinSeen
  <2>6. memory' = [memory EXCEPT ![s] = call] /\ UNCHANGED rows
    BY <1>2 DEF Remember
  <2>. QED
    BY <2>2, <2>5, <2>6, CallMoved
<1>. QED
  BY <1>1, <1>2

\* Finding the conflicting memories keeps the memory invariant.
LEMMA MatchKeeps ==
  ASSUME MemoryInv, NEW s \in Sessions, Match(s)
  PROVE  MemoryInv'
<1>. DEFINE candidate == memory[s].candidate
            conflicts == {i \in Active : Key(i) = candidate.key}
            call == [memory[s] EXCEPT !.at = "store", !.ids = conflicts,
                                      !.matched = Len(rows)]
<1>1. CASE memory' = [memory EXCEPT ![s] = NoMemoryCall]
  BY <1>1, NoCallKnows, CallMoved DEF Match
<1>2. CASE memory' = [memory EXCEPT ![s] = call]
  <2>1. /\ memory[s] \in MemoryCall /\ Len(rows) \in Nat
        /\ candidate \in Candidates /\ NoTwinSeen(memory[s])
    BY DEF Match, MemoryInv, MemoryTypeOK, Knows
  <2>2. conflicts \subseteq DOMAIN rows /\ DOMAIN rows \subseteq Nat
    BY DEF Active, MemoryInv, MemoryTypeOK
  <2>3. call \in MemoryCall
    BY <2>1, <2>2 DEF MemoryCall
  <2>4. /\ call.at = "store" /\ call.candidate = candidate /\ call.ids = conflicts
        /\ call.checked = memory[s].checked /\ call.matched = Len(rows)
    BY <2>1 DEF MemoryCall
  <2>5. NoTwinSeen(call)
    BY <2>1, <2>4 DEF NoTwinSeen
  <2>6. ConflictsKnown(call)
    BY <2>1, <2>2, <2>4 DEF ConflictsKnown
  <2>7. Knows(call)
    BY <2>1, <2>4, <2>5, <2>6 DEF Knows
  <2>. QED
    BY <1>2, <2>3, <2>7, CallMoved DEF Match
<1>. QED
  BY <1>1, <1>2 DEF Match

\* The fields of a row.
LEMMA RowFields ==
  ASSUME MemoryTypeOK
  PROVE  /\ rows \in Seq(Row) /\ Len(rows) \in Nat /\ DOMAIN rows = 1 .. Len(rows)
         /\ \A i \in DOMAIN rows :
              /\ rows[i] \in Row
              /\ rows[i].candidate \in Candidates
              /\ rows[i].checked \in Nat /\ rows[i].matched \in Nat
<1>1. /\ rows \in Seq(Row) /\ Len(rows) \in Nat /\ DOMAIN rows = 1 .. Len(rows)
      /\ \A i \in DOMAIN rows : rows[i] \in Row
  BY DEF MemoryTypeOK
<1>2. \A row \in Row : /\ row.candidate \in Candidates
                      /\ row.checked \in Nat /\ row.matched \in Nat
  BY DEF Row
<1>. QED
  BY <1>1, <1>2

\* The next state of a row that is retired.
LEMMA Retired ==
  ASSUME MemoryTypeOK, NEW i \in DOMAIN rows, NEW status \in {"superseded", "deleted"}
  PROVE  /\ [rows[i] EXCEPT !.status = status] \in Row
         /\ [rows[i] EXCEPT !.status = status].status = status
         /\ [rows[i] EXCEPT !.status = status].candidate = rows[i].candidate
         /\ [rows[i] EXCEPT !.status = status].checked = rows[i].checked
         /\ [rows[i] EXCEPT !.status = status].matched = rows[i].matched
BY RowFields DEF Row

\* Deleting keeps the memory invariant.
LEMMA DeleteKeeps ==
  ASSUME MemoryInv, NEW s \in Sessions, Delete(s)
  PROVE  MemoryInv'
<1>0. MemoryTypeOK
  BY DEF MemoryInv
<1>1. /\ rows' \in Seq(Row) /\ Len(rows') = Len(rows) /\ DOMAIN rows' = DOMAIN rows
      /\ DOMAIN rows = 1 .. Len(rows)
      /\ \A i \in DOMAIN rows :
           rows'[i] = IF i \in memory[s].ids THEN [rows[i] EXCEPT !.status = "deleted"]
                      ELSE rows[i]
  <2>1. rows' = [i \in 1 .. Len(rows) |->
                  IF i \in memory[s].ids THEN [rows[i] EXCEPT !.status = "deleted"]
                  ELSE rows[i]]
    BY <1>0, RowFields DEF Delete
  <2>2. rows' \in [1 .. Len(rows) -> Row]
    BY <1>0, <2>1, RowFields, Retired
  <2>. QED
    BY <1>0, <2>1, <2>2, RowFields
<1>2. \A i \in DOMAIN rows :
        /\ rows'[i].candidate = rows[i].candidate
        /\ rows'[i].checked = rows[i].checked /\ rows'[i].matched = rows[i].matched
        /\ rows'[i].status = rows[i].status \/ rows'[i].status = "deleted"
  BY <1>0, <1>1, Retired
<1>3. Active' \subseteq Active /\ Active \subseteq DOMAIN rows
  BY <1>1, <1>2 DEF Active
<1>4. ASSUME NEW t \in Sessions PROVE Knows(memory[t])'
  <2>1. memory'[t] = memory[t] \/ memory'[t] = NoMemoryCall
    BY <1>0 DEF Delete, MemoryTypeOK
  <2>2. CASE memory'[t] = NoMemoryCall
    BY <2>2 DEF NoMemoryCall, Knows
  <2>3. CASE memory'[t] = memory[t]
    BY <1>1, <1>2, <1>3, <2>3 DEF MemoryInv, Knows, NoTwinSeen, ConflictsKnown, Content, Key
  <2>. QED
    BY <2>1, <2>2, <2>3
<1>5. MemoryTypeOK'
  BY <1>0, <1>1, NoCallKnows DEF Delete, MemoryTypeOK
<1>6. TwinsOverlapped'
  BY <1>2, <1>3 DEF MemoryInv, TwinsOverlapped, Content, Key
<1>7. LastFactStands'
  <2>. SUFFICES ASSUME NEW a \in DOMAIN rows, rows'[a].status = "superseded"
                PROVE  \E b \in a + 1 .. Len(rows) :
                         Key(b)' = Key(a)' /\ rows'[b].status # "superseded"
    BY <1>1 DEF LastFactStands
  <2>1. rows[a].status = "superseded"
    BY <1>2
  <2>2. PICK b \in a + 1 .. Len(rows) : Key(b) = Key(a) /\ rows[b].status # "superseded"
    BY <2>1 DEF MemoryInv, LastFactStands
  <2>3. b \in DOMAIN rows
    BY <1>1
  <2>. QED
    BY <1>2, <2>2, <2>3 DEF Key
<1>. QED
  BY <1>4, <1>5, <1>6, <1>7 DEF MemoryInv

\* What a store makes of the rows: the conflicts retire, a new one is at the end.
LEMMA StoreEffect ==
  ASSUME MemoryInv, NEW s \in Sessions, Store(s)
  PROVE  /\ rows' \in Seq(Row) /\ Len(rows') = Len(rows) + 1
         /\ rows'[Len(rows) + 1] = StoredRow(memory[s])
         /\ \A i \in DOMAIN rows :
              /\ rows'[i].candidate = rows[i].candidate
              /\ rows'[i].checked = rows[i].checked /\ rows'[i].matched = rows[i].matched
              /\ rows'[i].status = IF i \in memory[s].ids \intersect Active
                                   THEN "superseded" ELSE rows[i].status
<1>0. MemoryTypeOK /\ memory[s] \in MemoryCall /\ memory[s].candidate \in Candidates
  BY DEF MemoryInv, MemoryTypeOK, Knows, Store
<1>. DEFINE old == Superseded(memory[s].ids)
<1>1. StoredRow(memory[s]) \in Row
  BY <1>0 DEF StoredRow, Row, MemoryCall
<1>2. old = [i \in 1 .. Len(rows) |->
               IF i \in memory[s].ids \intersect Active
               THEN [rows[i] EXCEPT !.status = "superseded"] ELSE rows[i]]
  BY <1>0, RowFields DEF Superseded
<1>3. old \in [1 .. Len(rows) -> Row]
  BY <1>0, <1>2, RowFields, Retired
<1>4. old \in Seq(Row) /\ Len(old) = Len(rows)
  BY <1>0, <1>2, <1>3, RowFields
<1>5. rows' = Append(old, StoredRow(memory[s]))
  BY DEF Store
<1>6. /\ rows' \in Seq(Row) /\ Len(rows') = Len(rows) + 1
      /\ rows'[Len(rows) + 1] = StoredRow(memory[s])
      /\ \A i \in 1 .. Len(rows) : rows'[i] = old[i]
  BY <1>1, <1>4, <1>5
<1>7. ASSUME NEW i \in DOMAIN rows
      PROVE  /\ rows'[i].candidate = rows[i].candidate
             /\ rows'[i].checked = rows[i].checked /\ rows'[i].matched = rows[i].matched
             /\ rows'[i].status = IF i \in memory[s].ids \intersect Active
                                  THEN "superseded" ELSE rows[i].status
  <2>1. i \in 1 .. Len(rows)
    BY <1>0, RowFields
  <2>2. rows'[i] = IF i \in memory[s].ids \intersect Active
                   THEN [rows[i] EXCEPT !.status = "superseded"] ELSE rows[i]
    BY <1>2, <1>6, <2>1
  <2>. QED
    BY <1>0, <2>2, Retired
<1>. QED
  BY <1>6, <1>7

\* Storing keeps the memory invariant.
LEMMA StoreKeeps ==
  ASSUME MemoryInv, NEW s \in Sessions, Store(s)
  PROVE  MemoryInv'
<1>. DEFINE n == Len(rows)
            call == memory[s]
<1>0. /\ MemoryTypeOK /\ call \in MemoryCall
      /\ call.candidate \in Candidates /\ NoTwinSeen(call) /\ ConflictsKnown(call)
  BY DEF MemoryInv, MemoryTypeOK, Knows, Store
<1>1. /\ rows' \in Seq(Row) /\ Len(rows') = n + 1 /\ n \in Nat
      /\ DOMAIN rows = 1 .. n /\ DOMAIN rows' = 1 .. n + 1
      /\ rows'[n + 1].candidate = call.candidate
      /\ rows'[n + 1].status = "active"
      /\ rows'[n + 1].checked = call.checked /\ rows'[n + 1].matched = call.matched
  <2>1. /\ rows' \in Seq(Row) /\ Len(rows') = n + 1 /\ n \in Nat
        /\ DOMAIN rows = 1 .. n /\ DOMAIN rows' = 1 .. n + 1
        /\ rows'[n + 1] = StoredRow(call)
    BY <1>0, StoreEffect, RowFields
  <2>. QED
    BY <2>1 DEF StoredRow, Key, Content
<1>2. \A i \in DOMAIN rows :
        /\ Key(i)' = Key(i) /\ Content(i)' = Content(i)
        /\ rows'[i].checked = rows[i].checked /\ rows'[i].matched = rows[i].matched
        /\ rows'[i].status = IF i \in call.ids \intersect Active
                             THEN "superseded" ELSE rows[i].status
  BY StoreEffect DEF Key, Content
<1>3. Active' \subseteq (Active \ call.ids) \union {n + 1} /\ Active \subseteq 1 .. n
  BY <1>1, <1>2 DEF Active
<1>4. ASSUME NEW t \in Sessions PROVE Knows(memory[t])'
  <2>1. memory'[t] = memory[t] \/ memory'[t] = NoMemoryCall
    BY <1>0 DEF Store, MemoryTypeOK
  <2>2. CASE memory'[t] = NoMemoryCall
    BY <2>2 DEF NoMemoryCall, Knows
  <2>3. CASE memory'[t] = memory[t]
    <3>1. Knows(memory[t])
      BY DEF MemoryInv
    <3>2. memory[t] \in MemoryCall
      BY <1>0 DEF MemoryTypeOK
    <3>3. NoTwinSeen(memory[t]) => NoTwinSeen(memory[t])'
      BY <1>1, <1>2, <1>3, <2>3, <3>2 DEF NoTwinSeen, MemoryCall
    <3>4. ConflictsKnown(memory[t]) => ConflictsKnown(memory[t])'
      BY <1>1, <1>2, <1>3, <2>3, <3>2 DEF ConflictsKnown, MemoryCall
    <3>. QED
      BY <2>3, <3>1, <3>3, <3>4 DEF Knows
  <2>. QED
    BY <2>1, <2>2, <2>3
<1>5. MemoryTypeOK'
  BY <1>0, <1>1, NoCallKnows DEF Store, MemoryTypeOK
<1>6. TwinsOverlapped'
  <2>. SUFFICES ASSUME NEW a \in Active', NEW b \in Active', a < b
                PROVE  /\ Content(a)' = Content(b)' => rows'[b].checked < a
                       /\ Key(a)' = Key(b)' => rows'[b].matched < a
    BY DEF TwinsOverlapped
  <2>1. CASE b = n + 1
    <3>1. a \in Active \ call.ids /\ a \in DOMAIN rows
      BY <1>1, <1>3, <2>1
    <3>. QED
      BY <1>0, <1>1, <1>2, <2>1, <3>1 DEF NoTwinSeen, ConflictsKnown, Content, Key
  <2>2. CASE b # n + 1
    <3>1. a \in Active /\ b \in Active /\ a \in DOMAIN rows /\ b \in DOMAIN rows
      BY <1>1, <1>3, <2>2
    <3>. QED
      BY <1>2, <3>1 DEF MemoryInv, TwinsOverlapped
  <2>. QED
    BY <2>1, <2>2
<1>7. LastFactStands'
  <2>. SUFFICES ASSUME NEW a \in DOMAIN rows', rows'[a].status = "superseded"
                PROVE  \E b \in a + 1 .. n + 1 :
                         Key(b)' = Key(a)' /\ rows'[b].status # "superseded"
    BY <1>1 DEF LastFactStands
  <2>1. a \in DOMAIN rows /\ n + 1 \in a + 1 .. n + 1
    BY <1>1
  <2>2. CASE a \in call.ids
    <3>1. rows'[n + 1].candidate.key = Key(a)'
      BY <1>0, <1>1, <1>2, <2>1, <2>2 DEF ConflictsKnown
    <3>. QED
      BY <1>1, <2>1, <3>1 DEF Key
  <2>3. CASE a \notin call.ids
    <3>1. rows[a].status = "superseded"
      BY <1>2, <2>1, <2>3
    <3>2. PICK b \in a + 1 .. n : Key(b) = Key(a) /\ rows[b].status # "superseded"
      BY <2>1, <3>1 DEF MemoryInv, LastFactStands
    <3>3. b \in DOMAIN rows /\ b \in a + 1 .. n + 1
      BY <1>1, <2>1
    <3>4. CASE b \in call.ids
      <4>1. rows'[n + 1].candidate.key = Key(a)'
        BY <1>0, <1>1, <1>2, <2>1, <3>2, <3>3, <3>4 DEF ConflictsKnown
      <4>. QED
        BY <1>1, <2>1, <4>1 DEF Key
    <3>5. CASE b \notin call.ids
      BY <1>2, <2>1, <3>2, <3>3, <3>5
    <3>. QED
      BY <3>4, <3>5
  <2>. QED
    BY <2>2, <2>3
<1>. QED
  BY <1>4, <1>5, <1>6, <1>7 DEF MemoryInv

\* Selecting keeps the memory invariant.
LEMMA SelectKeeps ==
  ASSUME MemoryInv, NEW s \in Sessions, NEW ids \in Forgettable, Select(s, ids)
  PROVE  MemoryInv'
<1>. DEFINE call == [NoMemoryCall EXCEPT !.at = "delete", !.ids = ids]
<1>1. ids \subseteq Nat
  BY RowFields DEF Forgettable, Active, MemoryInv
<1>2. call \in MemoryCall /\ call.at = "delete"
  BY <1>1 DEF NoMemoryCall, MemoryCall
<1>3. Knows(call)
  BY <1>2 DEF Knows
<1>. QED
  BY <1>2, <1>3, CallMoved DEF Select

\* The memory invariant is inductive.
LEMMA MemoryKept == ScriptTypeOK /\ MemoryInv /\ [Next]_vars => MemoryInv'
<1>1. ASSUME MemoryInv, UNCHANGED memoryVars PROVE MemoryInv'
  BY <1>1 DEF memoryVars, MemoryInv, MemoryTypeOK, TwinsOverlapped, LastFactStands,
              Knows, NoTwinSeen, ConflictsKnown, Active, Content, Key
<1>2. ASSUME MemoryInv, MemoryMoves PROVE MemoryInv'
  BY <1>2, RememberKeeps, SelectKeeps, MatchKeeps, StoreKeeps, DeleteKeeps, CallMoved,
     NoCallKnows DEF MemoryMoves, MemoryStep
<1>. QED
  BY <1>1, <1>2, MemoryView DEF vars

--------------------------------------------------------------------------------
(* The scripts, and the whole *)

\* A session without a script run is typed.
LEMMA NoScriptTyped == NoScript \in Script
BY DEF NoScript, Script

\* The script runs stay typed.
LEMMA ScriptKept == ScriptTypeOK /\ [Next]_vars => ScriptTypeOK'
<1>. USE DEF ScriptTypeOK
<1>1. ASSUME ScriptTypeOK, NEW s \in Sessions, NEW kind \in {"prompt", "service"},
             NEW rest \in Seq(Candidates), Begin(s, kind, rest)
      PROVE  ScriptTypeOK'
  BY <1>1, SessionAssumption DEF Begin, Script
<1>2. ASSUME ScriptTypeOK, NEW s \in Sessions, User(s) PROVE ScriptTypeOK'
  <2>1. CASE \E text \in Texts : Prompt(s, text) \/ RememberCommand(s, text)
    BY <1>1, <1>2, <2>1, SessionAssumption DEF Prompt, RememberCommand
  <2>2. CASE \/ \E ids \in Forgettable : ForgetCommand(s, ids)
             \/ \E d \in Docs, at \in {"look", "check", "find"} : IndexCommand(s, d, at)
    <3>1. Begin(s, "service", <<>>)
      BY <2>2 DEF ForgetCommand, IndexCommand
    <3>2. << >> \in Seq(Candidates)
      OBVIOUS
    <3>. QED
      BY <1>1, <1>2, <3>1, <3>2
  <2>3. CASE Abandon(s)
    BY <1>2, <2>3, NoScriptTyped DEF Abandon
  <2>. QED
    BY <1>2, <2>1, <2>2, <2>3 DEF User
<1>3. ASSUME ScriptTypeOK, NEW s \in Sessions, Work(s) PROVE ScriptTypeOK'
  <2>1. CASE RememberNext(s)
    <3>1. script[s].rest \in Seq(Candidates) /\ script[s].rest # <<>>
      BY <1>3, <2>1 DEF RememberNext, Script
    <3>2. Tail(script[s].rest) \in Seq(Candidates)
      BY <3>1
    <3>. QED
      BY <1>3, <2>1, <3>2 DEF RememberNext, Script
  <2>2. CASE MemoryError(s) \/ AnswerPrompt(s)
    <3>1. \A rest \in Seq(Candidates) : [script[s] EXCEPT !.rest = rest] \in Script
      BY <1>3 DEF Script
    <3>2. [script[s] EXCEPT !.kind = "answer"] \in Script
      BY <1>3 DEF Script
    <3>3. << >> \in Seq(Candidates)
      OBVIOUS
    <3>. QED
      BY <1>3, <2>2, <3>1, <3>2, <3>3 DEF MemoryError, AnswerPrompt
  <2>3. CASE EndScript(s)
    BY <1>3, <2>3, NoScriptTyped DEF EndScript
  <2>4. CASE UNCHANGED <<script, started>>
    BY <1>3, <2>4
  <2>. QED
    BY <1>3, <2>1, <2>2, <2>3, <2>4 DEF Work
<1>. QED
  BY <1>2, <1>3 DEF Next, Over, vars

Invariants == ScriptTypeOK /\ MemoryInv /\ IndexInv /\ LoopInv

\* All invariants of the sessions hold in every reachable state.
LEMMA Invariance == Spec => []Invariants
<1>1. Init => Invariants
  BY MemoryInitially, IndexInitially, LoopInitially, NoScriptTyped, SessionAssumption
     DEF Init, ScriptTypeOK, Invariants
<1>2. Invariants /\ [Next]_vars => Invariants'
  BY ScriptKept, MemoryKept, IndexKept, LoopKept DEF Invariants
<1>. QED
  BY <1>1, <1>2, PTL DEF Spec

\* The memories, the index, the loops and the scripts have their types.
THEOREM TypeCorrect == Spec => []TypeOK
<1>1. Invariants => TypeOK
  BY DEF Invariants, MemoryInv, IndexInv, LoopInv, ScriptTypeOK, TypeOK
<1>. QED
  BY <1>1, Invariance, PTL

\* Calls of any number of sessions leave two active memories of one content or one
\* key only if they overlapped (service.py:75-129).
THEOREM TwinsNeedOverlap == Spec => []TwinsOverlapped
<1>1. Invariants => TwinsOverlapped
  BY DEF Invariants, MemoryInv
<1>. QED
  BY <1>1, Invariance, PTL

\* A superseded fact has a successor that is not, whatever fails and whoever writes
\* in between (repository.py:165-244).
THEOREM SupersededHasSuccessor == Spec => []LastFactStands
<1>1. Invariants => LastFactStands
  BY DEF Invariants, MemoryInv
<1>. QED
  BY <1>1, Invariance, PTL

================================================================================
