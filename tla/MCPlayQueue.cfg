\* One call of the audio service and two loads of the player at one time.
CONSTANTS
  p1 = p1  Local = Local  Empty = Empty  Null = Null  Resumed = Resumed
  Lists <- OneList
  Indexes <- TwoIndexes
  Requests <- OneRequest
  MaxCalls = 1
  MaxLoads = 2
SPECIFICATION QueueSpec
INVARIANTS PlaysAsAsked
PROPERTIES QueueComes
CHECK_DEADLOCK FALSE
