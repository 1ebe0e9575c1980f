\* The LLM fails in a resumed run that has replanned.
SPECIFICATION Spec
CONSTANTS
  Tools = {email}
  Drafts <- MCDrafts
  MaxListed = 3
  MaxTasks = 2
  MaxRevisions = 1
  MaxRetries = 1
  MaxSteps = 3
PROPERTIES
  HistoryKept
