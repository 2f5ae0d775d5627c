SPECIFICATION Spec
CONSTANTS
  Mandates = {1, 2}
  PatternIds = {1, 2, 3}
  Libraries <- MCLibraries
  PinnedLibrary <- MCLibrary
  Events <- MCEvents
  Times <- MCTimes
  MAX_EVENTS_PER_MANDATE = 3
  MAX_EVENTS_PER_BUFFER = 2
  MAX_CLOCK_SKEW_SECONDS = 1
  PAST_DATED_GRACE_SECONDS = 1
  FALLBACK_PAST_WINDOW_SECONDS = 2
  FALLBACK_FIRE_ONCE_WINDOW_SECONDS = 2
  MAX_DEDUP_ENTRIES_PER_TENANT = 2
INVARIANTS
  TypeOK BuffersBounded BuffersAreNewestArrivals
PROPERTIES
  ImplementsFireOnce
