SPECIFICATION Spec
CONSTANTS
  Tasks = {t1, t2}
  None = None
  Builds <- EachAlone
  CounterModulus = 8
  Hundred = 2
  BufferSizes = {2, 5, 8}
  TickModulus = 2
  StackWords = 4
  GuardWords = 2
  Tags = {f, g}
  TagArguments = {f, g}
INVARIANTS
  RunTimeExact
  TraceSound
  StackSound
  
