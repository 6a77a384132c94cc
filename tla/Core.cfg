CONSTANTS
  HourTicks = 3
  NoTime = NoTime
  MaxNow = 7
  MaxCooldown = 2
  MaxSignals = 2
  Keys = {"postinstall"}
  NoScript = NoScript
  Blank = "blank"
  BURST_THRESHOLD = 1
  Artifacts <- SomeArtifacts
  Hour = 2
  Gaps = {1, 3}
  MaxReleases = 3
  Popular <- Corpus
  Letters = {"a", "b", "@"}
  Folded = {"a"}
  MaxEdits = 2
  MaxLooks = 2
  Packages = {"p", "@s/x"}
  Globs <- SomeGlobs
  RuleChoices <- SomeRules
  MaxRules = 3
  Presented = 3
  Anchors = {9}
  Steps = 3
  Attestations <- SomeAttestations
  MaxAttestations = 2
  Half = 4
  MaxReports = 4
  Words <- AllWords
  Deps <- SomeDeps
  Formats <- AllFormats
  MaxEntries = 3
SPECIFICATION CoreSpec
INVARIANTS
  SeverestReasonWins
  HoldExpiresWithCooldown
  NoveltiesAreFlagged
  PastOnlyExcuses
  DistanceCountsEdits
  LookalikesAreFound
  MostSpecificFirst
  VerifiedIsBound
  SoundPathIsFound
  ScorePositiveIffWeighed
  LockfileIsCovered
PROPERTIES
  SignalsEscalateTimeRelaxes
  EditsAreLocal
CHECK_DEADLOCK FALSE
