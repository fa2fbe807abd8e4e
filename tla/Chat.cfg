\* Chat: two users of whom a fetches, a batch of two messages, three INSERTs in
\* up to two seconds, a limit below the batch and one at it.
\* Connection: a PONG may take three halves of a ping interval, the wall clock
\* is set forward two intervals once, two texts leave a brace open or close one.
CONSTANTS
  Pair = {a, b}
  Fetching = {a}
  MESSAGE_BATCH_SIZE = 2
  Limits = {1, 2}
  MaxIds = 3
  MaxNow = 1
  PING = 2
  CONNECTION = 3
  Jitter = 0
  Delay = 3
  Jumps <- ForwardOnly
  MaxJumps = 1
  Texts <- OneBrace
  MaxTexts = 2
SPECIFICATION MCSpec
INVARIANTS
  ChatTypeOK
  NothingSkipped
  MoreIsOffered
  ReadByReceiver
  UnreadAnnounced
  AnsweringClientKept
PROPERTIES
  ImplementsMailbox
  StalledIsDropped
