------------------------------ MODULE MemoryStore ------------------------------
(***************************************************************************)
(* Long-term memory under memory/: remember, supersede, forget and clear.  *)
(* Every repository call is one transaction under the process-wide lock,   *)
(* but an operation of the service is several calls: other sessions get in *)
(* between.                                                                *)
(*                                                                         *)
(* A candidate is one that passed the policy.  Its key and its content     *)
(* stand for the normalized ones within their scope: the user, or a        *)
(* project for the keys in ProjectKeys.  No caller gives a memory an end   *)
(* of validity, so expire_due never finds one.                             *)
(***************************************************************************)
EXTENDS Sessions, Naturals, Sequences

CONSTANTS
  Keys, Contents,
  ProjectKeys,    \* keys of project scope
  Candidates,     \* what is proposed for storage
  NoCandidate

Candidate ==
  [key : Keys, content : Contents, explicit : BOOLEAN, confidence : 0 .. 100]

ASSUME MemoryAssumption ==
  /\ ProjectKeys \subseteq Keys
  /\ Candidates \subseteq Candidate
  /\ NoCandidate \notin Candidates

VARIABLES
  rows,      \* the memories in the order they were stored; a deleted one is a gap
  memory     \* the service call each session is in

memoryVars == <<rows, memory>>

\* A row also says how many rows there were when its writer looked for a
\* duplicate and for conflicts; only properties read that.
Row ==
  [candidate : Candidates, status : {"active", "superseded", "deleted"},
   checked : Nat, matched : Nat]

\* What a session holds between two repository calls: the candidate to store or
\* the ids to supersede or to delete.
MemoryCall ==
  [at : {"idle", "match", "store", "delete"},
   candidate : Candidates \union {NoCandidate},
   ids : SUBSET Nat, checked : Nat, matched : Nat]

NoMemoryCall ==
  [at |-> "idle", candidate |-> NoCandidate, ids |-> {}, checked |-> 0, matched |-> 0]

MemoryInit ==
  /\ rows = <<>>
  /\ memory = [s \in Sessions |-> NoMemoryCall]

MemoryIdle(s) == memory[s].at = "idle"

Active == {i \in DOMAIN rows : rows[i].status = "active"}

Key(i) == rows[i].candidate.key
Content(i) == rows[i].candidate.content

--------------------------------------------------------------------------------
(* remember *)

\* find_duplicate; an equivalent active memory ends the call.
Remember(s, candidate) ==
  /\ MemoryIdle(s)
  /\ IF \E i \in Active : Content(i) = candidate.content
     THEN UNCHANGED memory
     ELSE memory' = [memory EXCEPT ![s] = [NoMemoryCall EXCEPT
                       !.at = "match", !.candidate = candidate,
                       !.checked = Len(rows)]]
  /\ UNCHANGED rows

\* _can_supersede: an inference yields to an explicit memory of more confidence.
CanSupersede(candidate, ids) ==
  candidate.explicit \/ \A i \in ids :
    rows[i].candidate.explicit => candidate.confidence >= rows[i].candidate.confidence

\* find_active_by_key; a lower authority ends the call.
Match(s) ==
  LET candidate == memory[s].candidate
      conflicts == {i \in Active : Key(i) = candidate.key}
  IN /\ memory[s].at = "match"
     /\ memory' = [memory EXCEPT ![s] =
                     IF CanSupersede(candidate, conflicts)
                     THEN [@ EXCEPT !.at = "store", !.ids = conflicts,
                                    !.matched = Len(rows)]
                     ELSE NoMemoryCall]
     /\ UNCHANGED rows

\* The rows with those of the ids that are still active superseded.
Superseded(ids) ==
  [i \in DOMAIN rows |-> IF i \in ids \intersect Active
                         THEN [rows[i] EXCEPT !.status = "superseded"] ELSE rows[i]]

StoredRow(call) ==
  [candidate |-> call.candidate, status |-> "active",
   checked |-> call.checked, matched |-> call.matched]

\* Mutant: one conflict is taken to be all there is.
StoreOverOne(s) ==
  /\ memory[s].at = "store"
  /\ rows' = Append(Superseded(IF memory[s].ids = {} THEN {}
                               ELSE {CHOOSE i \in memory[s].ids : TRUE}),
                    StoredRow(memory[s]))
  /\ memory' = [memory EXCEPT ![s] = NoMemoryCall]

\* store: the conflicts and the new memory in one transaction.
Store(s) ==
  /\ memory[s].at = "store"
  /\ rows' = Append(Superseded(memory[s].ids), StoredRow(memory[s]))
  /\ memory' = [memory EXCEPT ![s] = NoMemoryCall]

--------------------------------------------------------------------------------
(* forget_memory, forget and clear_scope *)

\* What forget may select: memories that are active now; what clear_scope
\* selects: all of the user, or all of the project.
Forgettable ==
  (SUBSET Active \ {{}})
    \union {{i \in DOMAIN rows : rows[i].status # "deleted" /\ Key(i) \in keys} :
              keys \in {Keys, ProjectKeys}}

Select(s, ids) ==
  /\ MemoryIdle(s)
  /\ memory' = [memory EXCEPT ![s] = [NoMemoryCall EXCEPT !.at = "delete", !.ids = ids]]
  /\ UNCHANGED rows

\* delete_memories; ids that are gone by now do not matter.
Delete(s) ==
  /\ memory[s].at = "delete"
  /\ rows' = [i \in DOMAIN rows |-> IF i \in memory[s].ids
                                    THEN [rows[i] EXCEPT !.status = "deleted"]
                                    ELSE rows[i]]
  /\ memory' = [memory EXCEPT ![s] = NoMemoryCall]

--------------------------------------------------------------------------------
(* Failure *)

\* Mutant: the conflicts are superseded in a transaction of their own.
MemoryFailsHalfway(s) ==
  /\ ~MemoryIdle(s)
  /\ rows' = IF memory[s].at = "store" THEN Superseded(memory[s].ids) ELSE rows
  /\ memory' = [memory EXCEPT ![s] = NoMemoryCall]

\* A repository call fails: its transaction is rolled back.
MemoryFails(s) ==
  /\ ~MemoryIdle(s)
  /\ memory' = [memory EXCEPT ![s] = NoMemoryCall]
  /\ UNCHANGED rows

MemoryStep(s) == Match(s) \/ Store(s) \/ Delete(s)

--------------------------------------------------------------------------------
(* Properties *)

MemoryTypeOK ==
  /\ rows \in Seq(Row)
  /\ memory \in [Sessions -> MemoryCall]

\* Of two active memories with one content, or with one key, the later was
\* looked up before the earlier was stored: only overlapping calls leave two
\* (service.py:75-129).
TwinsOverlapped ==
  \A a, b \in Active : a < b =>
    /\ Content(a) = Content(b) => rows[b].checked < a
    /\ Key(a) = Key(b) => rows[b].matched < a

\* A fact that was superseded has a successor that was not: whatever fails and
\* whoever writes, the newest memory of a key is in force until it is deleted
\* (service.py:127-129, repository.py:165-244).
LastFactStands ==
  \A a \in DOMAIN rows : rows[a].status = "superseded" =>
    \E b \in a + 1 .. Len(rows) : Key(b) = Key(a) /\ rows[b].status # "superseded"

================================================================================
