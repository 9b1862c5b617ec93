CONSTANTS
  Callers = {c1, c2}
  Phrases = {p1}
  BadSecrets = {}
  NoPhrase = NoPhrase
  NoWallet = NoWallet
  Torn = Torn
  Durations = {1}
  TornWrites = FALSE
  FailIn = {}
  MaxIndex = 1
  MaxProgress = 0
  MaxTime = 1
  MaxCrashes = 0
  MaxFailures = 0
SPECIFICATION Spec
PROPERTY UndisturbedIsAtomic
