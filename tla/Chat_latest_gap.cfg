\* An INSERT is rolled back and its id stays unused.
CONSTANTS
  Pair = {a, b}
  Fetching = {a}
  MESSAGE_BATCH_SIZE = 2
  Limits = {2}
  MaxIds = 3
  MaxNow = 0
SPECIFICATION ChatSpec
INVARIANTS
  LatestHonoursLimit
