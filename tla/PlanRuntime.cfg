\* Plans of up to three tasks, one revision, one consequential tool.
SPECIFICATION FairSpec
CONSTANTS
  Tools = {email}
  Drafts <- MCDrafts
  MaxListed = 3
  MaxTasks = 2
  MaxRevisions = 1
  MaxRetries = 1
  MaxSteps = 3
INVARIANTS
  TypeOK
  ConsequentialOnce
  RefusedStaysRefused
  OneQuestionAtATime
  EndAccountsForAll
PROPERTIES
  DependenciesFirst
  RunEnds
