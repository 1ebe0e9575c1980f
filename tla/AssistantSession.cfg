\* Two sessions, two script runs, two documents, one project key.
SPECIFICATION FairSpec
CONSTANTS
  Sessions = {s1, s2}
  Keys = {"name"}
  Contents = {"ada", "bob", "eve", "guess"}
  ProjectKeys = {}
  Candidates <- MCCandidates
  NoCandidate = NoCandidate
  Docs = {d1, d2}
  Indexed = {{}, {d1}}
  NoFile = NoFile
  MaxIterations = 2
  RateLimitRetries = 2
  MaxWait = 3
  Delays = {2}
  Nobody = Nobody
  Texts <- MCTexts
  MaxScripts = 2
INVARIANTS
  TypeOK
  TwinsOverlapped
  LastFactStands
  ChunksAreListed
  ReportsHold
  WaitWithinBudget
PROPERTIES
  PromptAnswered
