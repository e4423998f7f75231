SPECIFICATION ExamplesSpec
CONSTANTS
  Nil = Nil
  Bad = Bad
  Programs <- MCPrograms
  Audio <- MCAudio
  ChunkSize = 2
  FrameSize = 1
  EventChCap = 2
  Backlog = 1
  Deltas = 2
  MaxItems = 40
INVARIANTS
  AnswerIsWhole
  TextInOrder
  ClosedOnlyAfterError
  CommittedAudio
PROPERTIES
  ServedAsConfigured
  MainEnds
  PumpEndsOrIsStuck
