\* Heartbeat: the constants of Protocol.h in seconds.  A check may be a second
\* early or late, a live client answers within 17 seconds, the wall clock may be
\* set back 15 seconds or forward 40 seconds, twice between two answers.
\* Stream: three messages out of six kinds, cut into pieces in every way.
CONSTANTS
  PING = 10
  CONNECTION = 30
  Jitter = 1
  Delay = 17
  Jumps <- BackAndForth
  MaxJumps = 2
  Texts <- SomeTexts
  MaxMessages = 3
SPECIFICATION MCSpec
INVARIANTS
  IndInv
  LiveClientKept
  DroppedOnlyAfterSilence
  DetectedInTime
  CutIndependent
  DispatchedWereSent
  LossIsLocal
PROPERTIES
  SilentIsDropped
  NestedAreDispatched
CHECK_DEADLOCK FALSE
