SPECIFICATION FairSpec
CONSTANTS
  task = task
  urgent = urgent
  Jobs = {task, urgent}
  Workers = {w1, w2}
  Priority <- TaskIsLeastUrgent
  Tasks = {task}
  Requeueable = {task, urgent}
  Unmappable = {urgent}
  Cap = 2
  BatchSize = 1
  Permits = 1
  MaxStalls = 1
INVARIANTS BudgetHolds
PROPERTIES ClosedByItsExecution TerminalStays EveryJobEnds
