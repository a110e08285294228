CONSTANTS
  NoText = NoText
  OtherText = OtherText
  MfaCode = MfaCode
  Options <- Served
  Commands <- All
  MaxCommands = 2
  MaxChallenges = 2
  FailedAttempts = TRUE
  Interrupts = {"pin", "input", "pause", "giveup", "disconnect"}
SPECIFICATION FairSpec
INVARIANTS
  TypeOK
  SecretsFit
  ResultsTrue
PROPERTY CommandsEnd
CHECK_DEADLOCK FALSE
