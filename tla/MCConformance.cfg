SPECIFICATION Spec
CONSTANTS
  Documents <- DocumentNames
  Aliases <- FormerIds
  ClassifierKeys <- KeysWithClassifier
  Nonconforming = {"ds-misspelt"}
  InitialDisks <- Disks
  Commands <- SomeCommands
  Judgement <- AllJudged
  Classifiers <- ClassifiersByKey
  MaxCommands = 2
  Invocations <- SomeInvocations
  DefaultInputs <- default_input_names
  StemSuites <- stem_suites
  Mandates <- SuiteMandates
  PatternIds <- SuitePatterns
  Events = {}
  Libraries = {}
  MAX_EVENTS_PER_MANDATE = 10000
  MAX_EVENTS_PER_BUFFER = 1000
  MAX_CLOCK_SKEW_SECONDS = 30
  PAST_DATED_GRACE_SECONDS = 86400
  FALLBACK_PAST_WINDOW_SECONDS = 604800
  FALLBACK_FIRE_ONCE_WINDOW_SECONDS = 3600
  MAX_DEDUP_ENTRIES_PER_TENANT = 100000
  MAX_EXPANDED_EVENTS = 100000
  WordBits = 6
  GuestWordBits = 6
  fuel_budget = 3
  max_output_bytes = 6
  max_memory_pages = 2
  MAX_TABLE_ELEMENTS = 2
  PageSize = 8
INVARIANTS
  DocumentsOnlyGrow
  PatchedFileIsNeverTorn
  CleanMeansEveryVectorPassed
  TalliesAccountForEveryVector
  GuestIsContained
  DenialsAreDeserved
  SignedVectorsAreJudgedAsIntended
  AcceptedIntentsKeepTheirMeaning
PROPERTIES
  EveryRunEnds
CHECK_DEADLOCK FALSE
