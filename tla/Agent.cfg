\* Four parallel tasks on two workers, chains of up to five; plans of up to three steps;
\* three questions with up to two options each.
SPECIFICATION FairSpec
CONSTANTS
  MAX_PARALLEL_TASKS = 4
  MAX_CONCURRENCY = 2
  MaxSteps = 3
  Ids = {q1, q2, q3}
  MaxQuestions = 3
  MaxOptions = 2
INVARIANTS
  TypeOK
  PoolIsExact
  AbortReachesAll
  ToolsFollowMode
  ProgressIsReal
  AnswersComplete
PROPERTIES
  AbortEnds
\* A session without a next step is over: the tool returned, the dialog was closed.
CHECK_DEADLOCK FALSE
