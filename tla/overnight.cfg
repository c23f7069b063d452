SPECIFICATION Spec
CONSTANTS
  Last = 4
  Always = {1}
  Resumable = {3}
  Version = {v1, v2}
  Job = {1, 2}
  SignalPoint <- SignalsInTry
  Editing = FALSE
  None = None
INVARIANTS
  TypeOK
  OneGroup
  NothingLeftRunning
PROPERTIES
  NeverOverwritten
  CompleteIsUniform
  SupervisorEnds
