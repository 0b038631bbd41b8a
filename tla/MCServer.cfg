CONSTANTS
  r1 = r1
  r2 = r2
  r3 = r3
  Requests = {r1, r2}
  MaxConcurrent = 1
  Capacity = 1
  Timeouts = TRUE
  Tls = TRUE
SPECIFICATION FairSpec
CHECK_DEADLOCK FALSE
INVARIANTS TypeOK NobodyWaitsInVain RefusedOnlyWhenOver StreamsReleased SlotsBalance DrainIsQuiet CallbackHasDispatcher
PROPERTIES FirstAnswerCounts StopReturns BacklogMoves
