SPECIFICATION Spec
CONSTANTS
  Envelopes <- MCEnvelopes
  AnchorCandidates <- MCAnchors
  Clocks = {0, 1, 2, 3}
  expected_abi_version = 1
  sanitize_log_string <- MCSanitize
INVARIANTS
  TypeOK VersionsStrictlyIncrease LedgerIsNewestLoad TooOldOnlyAfterNewer
  LoadsStayAttributable ShortPatternsAreBackstopped LoadedVerbsCanMatch
