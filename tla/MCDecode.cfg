SPECIFICATION DecodeSpec
CONSTANTS
  Nil = Nil
  Bad = Bad
  Messages <- MCMessages
INVARIANTS
  TextOrAudio
  FallbacksAgree
  ErrorNotHidden
  BadIsAbsent
CHECK_DEADLOCK FALSE
