----------------------------- MODULE KnowledgeIndex ----------------------------
(***************************************************************************)
(* The knowledge base under rag/: indexing, re-indexing and deletion of    *)
(* documents in one JSON file that every operation reads whole and writes  *)
(* back whole, without a lock, through one temporary file, and the stored  *)
(* originals next to it.                                                   *)
(*                                                                         *)
(* The text of a file is written at once: a reader never sees half of it.  *)
(***************************************************************************)
EXTENDS Sessions, Naturals

CONSTANTS
  Docs,      \* document ids
  Indexed,   \* sets of documents indexed before the application was started
  NoFile     \* no temporary file, and the data of a call that has not read any

VARIABLES
  file,        \* the index file
  temporary,   \* the temporary file beside it
  originals,   \* documents whose PDF is stored
  job,         \* the pipeline call each session is in
  told,        \* history: what the user was last told about a document
  contested    \* history: documents that calls worked on at the same time

indexVars == <<file, temporary, originals, job, told, contested>>

\* The record of a document; raw: it knows the path of the original.
Record ==
  [status : {"none", "processing", "indexed", "failed"}, raw : BOOLEAN]

NoRecord == [status |-> "none", raw |-> FALSE]

IndexFile == [docs : [Docs -> Record], chunks : SUBSET Docs]

IndexedRecord == [status |-> "indexed", raw |-> TRUE]

\* An index of these documents and no other.
IndexOf(D) ==
  [docs |-> [d \in Docs |-> IF d \in D THEN IndexedRecord ELSE NoRecord], chunks |-> D]

ASSUME IndexAssumption ==
  Docs # {} /\ Indexed \subseteq SUBSET Docs /\ NoFile \notin IndexFile

Writes == {"mark", "upsert", "fail", "erase"}

\* A call: where it is, the document record it read, and within a write of the
\* index the changed data and whether it is in the temporary file.
Job ==
  [at : {"idle", "look", "check", "save", "recall", "find", "purge"} \union Writes,
   doc : Docs, record : Record, data : IndexFile \union {NoFile}, spooled : BOOLEAN]

NoJob ==
  [at |-> "idle", doc |-> CHOOSE d \in Docs : TRUE, record |-> NoRecord,
   data |-> NoFile, spooled |-> FALSE]

IndexInit ==
  /\ \E D \in Indexed : file = IndexOf(D) /\ originals = D
  /\ temporary = NoFile
  /\ job = [s \in Sessions |-> NoJob]
  /\ told = [d \in Docs |-> "nothing"]
  /\ contested = {}

IndexIdle(s) == job[s].at = "idle"

Working(d) == {s \in Sessions : ~IndexIdle(s) /\ job[s].doc = d}

MoveTo(s, at) == job' = [job EXCEPT ![s] = [@ EXCEPT !.at = at, !.data = NoFile,
                                                     !.spooled = FALSE]]

\* The call ends, and the user is told so.  "erased" is a deletion that did not
\* know where the original is; the page does not tell it from the other.
Finish(s, message) ==
  /\ job' = [job EXCEPT ![s] = NoJob]
  /\ told' = [told EXCEPT ![job[s].doc] = message]

--------------------------------------------------------------------------------
(* The calls *)

\* index_pdf of an upload, reindex_document and delete_document of a document
\* that the page lists.
Call(s, d, at) ==
  /\ IndexIdle(s)
  /\ at \in {"check", "find"} => file.docs[d].status # "none"
  /\ job' = [job EXCEPT ![s] = [NoJob EXCEPT !.at = at, !.doc = d]]
  /\ told' = [told EXCEPT ![d] = "nothing"]
  /\ contested' = IF Working(d) = {} THEN contested ELSE contested \union {d}
  /\ UNCHANGED <<file, temporary, originals>>

\* Mutant: any record is taken for an index.
LookAtRecord(s) ==
  /\ job[s].at = "look"
  /\ IF file.docs[job[s].doc].status # "none"
     THEN Finish(s, "indexed")
     ELSE MoveTo(s, "save") /\ UNCHANGED told
  /\ UNCHANGED <<file, temporary, originals, contested>>

\* index_pdf reuses a document that is indexed.
Look(s) ==
  LET d == job[s].doc
  IN /\ job[s].at = "look"
     /\ IF file.docs[d].status = "indexed"
        THEN Finish(s, "indexed")
        ELSE MoveTo(s, "save") /\ UNCHANGED told
     /\ UNCHANGED <<file, temporary, originals, contested>>

\* reindex_document needs the original; its index_pdf looks at nothing again.
Check(s) ==
  LET d == job[s].doc
  IN /\ job[s].at = "check"
     /\ IF file.docs[d].raw /\ d \in originals
        THEN MoveTo(s, "save") /\ UNCHANGED told
        ELSE Finish(s, "nothing")
     /\ UNCHANGED <<file, temporary, originals, contested>>

SaveOriginal(s) ==
  /\ job[s].at = "save"
  /\ originals' = originals \union {job[s].doc}
  /\ MoveTo(s, "mark")
  /\ UNCHANGED <<file, temporary, told, contested>>

\* The handler reads the record it is about to mark as failed.
Recall(s) ==
  /\ job[s].at = "recall"
  /\ job' = [job EXCEPT ![s].at = "fail", ![s].record = file.docs[job[s].doc]]
  /\ UNCHANGED <<file, temporary, originals, told, contested>>

\* delete_document reads the record for the path of the original.
Find(s) ==
  /\ job[s].at = "find"
  /\ job' = [job EXCEPT ![s].at = "erase", ![s].record = file.docs[job[s].doc]]
  /\ UNCHANGED <<file, temporary, originals, told, contested>>

\* The directory of the original is removed.
Purge(s) ==
  /\ job[s].at = "purge"
  /\ originals' = originals \ {job[s].doc}
  /\ Finish(s, "deleted")
  /\ UNCHANGED <<file, temporary, contested>>

--------------------------------------------------------------------------------
(* set_document_record, upsert_document and delete_document of the store *)

\* Mutant: the record goes, its chunks stay.
RecordErased(data, d) == [data EXCEPT !.docs[d] = NoRecord]

Erased(data, d) == [data EXCEPT !.docs[d] = NoRecord, !.chunks = @ \ {d}]

Marked(data, d, record) == [data EXCEPT !.docs[d] = record]

\* What the call makes of the data it read.
Changed(s, data) ==
  LET d == job[s].doc
  IN CASE job[s].at = "mark" -> Marked(data, d, [status |-> "processing", raw |-> TRUE])
       [] job[s].at = "upsert" ->
            [Marked(data, d, IndexedRecord) EXCEPT !.chunks = @ \union {d}]
       [] job[s].at = "fail" -> Marked(data, d, [job[s].record EXCEPT !.status = "failed"])
       [] job[s].at = "erase" -> Erased(data, d)

\* Nothing to erase: nothing is written, and the original stays.
Read(s) ==
  /\ job[s].at \in Writes /\ job[s].data = NoFile
  /\ IF job[s].at = "erase" /\ file.docs[job[s].doc].status = "none"
     THEN Finish(s, "deleted")
     ELSE /\ job' = [job EXCEPT ![s].data = Changed(s, file)]
          /\ UNCHANGED told
  /\ UNCHANGED <<file, temporary, originals, contested>>

Spool(s) ==
  /\ job[s].data # NoFile /\ ~job[s].spooled
  /\ temporary' = job[s].data
  /\ job' = [job EXCEPT ![s].spooled = TRUE]
  /\ UNCHANGED <<file, originals, told, contested>>

\* Where the call goes after its write.
Written(s) ==
  CASE job[s].at = "mark" -> MoveTo(s, "upsert") /\ UNCHANGED told
    [] job[s].at = "upsert" -> Finish(s, "indexed")
    [] job[s].at = "fail" -> Finish(s, "nothing")
    [] job[s].at = "erase" ->
         IF job[s].record.raw THEN MoveTo(s, "purge") /\ UNCHANGED told
         ELSE Finish(s, "erased")

\* The temporary file replaces the index, whoever wrote it last.  A document that
\* is not as this call alone would have left it was worked on by another.
Replace(s) ==
  LET meant == Changed(s, file)
      differs(d) == \/ temporary.docs[d] # meant.docs[d]
                    \/ d \in temporary.chunks <=> d \notin meant.chunks
  IN /\ job[s].spooled /\ temporary # NoFile
     /\ file' = temporary /\ temporary' = NoFile
     /\ contested' = contested \union {d \in Docs : differs(d)}
     /\ Written(s)
     /\ UNCHANGED originals

--------------------------------------------------------------------------------
(* Failure *)

\* A step of index_pdf raises: the file system, the parser, the embedder, or
\* another session took the temporary file.  Its handler records the failure, and
\* a failing handler leaves it at that.  Nothing handles a failure of the others.
CallFails(s) ==
  /\ ~IndexIdle(s)
  /\ IF job[s].at \in {"look", "save", "mark", "upsert"}
     THEN MoveTo(s, "recall") /\ UNCHANGED told
     ELSE Finish(s, "nothing")
  /\ UNCHANGED <<file, temporary, originals, contested>>

IndexStep(s) ==
  \/ Look(s) \/ Check(s) \/ SaveOriginal(s) \/ Recall(s) \/ Find(s) \/ Purge(s)
  \/ Read(s) \/ Spool(s) \/ Replace(s) \/ CallFails(s)

--------------------------------------------------------------------------------
(* Properties *)

IndexTypeOK ==
  /\ file \in IndexFile /\ temporary \in IndexFile \union {NoFile}
  /\ originals \in SUBSET Docs
  /\ job \in [Sessions -> Job]
  /\ told \in [Docs -> {"nothing", "indexed", "deleted", "erased"}]
  /\ contested \in SUBSET Docs

\* A chunk that retrieval may cite belongs to a document that is listed and can be
\* deleted, and an indexed document has its chunks, however many writers
\* overwrite each other and wherever they fail (vector_store.py:20-60, 111-120).
ChunksAreListed ==
  \A d \in Docs :
    /\ d \in file.chunks => file.docs[d].status # "none"
    /\ file.docs[d].status = "indexed" => d \in file.chunks

\* What the user was told about a document holds: indexed with chunks and
\* original, or gone with both; unless two calls worked on it, or on the file, at
\* once, or the path of its original was never recorded (pipeline.py:51-169,
\* 204-213, app.py:1763-1829).
ReportsHold ==
  \A d \in Docs \ contested :
    /\ told[d] = "indexed" =>
         /\ file.docs[d] = IndexedRecord
         /\ d \in file.chunks \intersect originals
    /\ told[d] \in {"deleted", "erased"} =>
         /\ file.docs[d] = NoRecord /\ d \notin file.chunks
         /\ told[d] = "deleted" => d \notin originals

================================================================================
