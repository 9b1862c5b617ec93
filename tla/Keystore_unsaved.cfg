CONSTANTS
  Callers = {c1}
  Phrases = {p1, p2}
  BadSecrets = {bad}
  NoPhrase = NoPhrase
  NoWallet = NoWallet
  Torn = Torn
  Durations = {0, 1}
  TornWrites = FALSE
  FailIn = {"create", "import", "unlock", "lock", "precache", "bump", "raise", "funded", "register", "progress", "complete", "incomplete"}
  MaxIndex = 2
  MaxProgress = 1
  MaxTime = 2
  MaxCrashes = 0
  MaxFailures = 1
SPECIFICATION Spec
INVARIANT GeneratedListed
