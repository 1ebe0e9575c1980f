\* Plans of up to three tasks, two revisions, one consequential tool, one crash.
SPECIFICATION FairSpec
CONSTANTS
  Tools = {email}
  Drafts <- MCDrafts
  MaxListed = 3
  MaxTasks = 2
  MaxRevisions = 2
  MaxRetries = 1
  MaxSteps = 3
  MaxCrashes = 1
INVARIANTS
  TypeOK
  OncePerGrant
  EndJustified
  StoppedIsFound
PROPERTIES
  RunEnds
