CONSTANTS
  NoText = NoText
  OtherText = OtherText
  MfaCode = MfaCode
  Options <- TwoFactors
  Commands <- UpAndDown
  MaxCommands = 1
  MaxChallenges = 2
  FailedAttempts = FALSE
  Interrupts = {}
SPECIFICATION Spec
INVARIANT KeychainHoldsPassword
CHECK_DEADLOCK FALSE
