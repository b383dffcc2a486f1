SPECIFICATION LiveSpec
CONSTANTS
  Requests = {q1}
  Conns = {c1, c2}
  BROADCAST_CAPACITY = 2
  CLIENT_BUFFER = 2
  MaxEvents = 4
INVARIANTS SeenInOrder NoUnexplainedGap
PROPERTIES IngestNeverWedged ForwarderEnds DrainEnds
CHECK_DEADLOCK FALSE
