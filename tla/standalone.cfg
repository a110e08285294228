CONSTANTS
  Configs <- Files
  CommandLines <- Lines
  FactorLists <- TwoLists
  Delays = {1, 4, 10}
  MaxAgain = 1
  MaxConnections = 3
SPECIFICATION FairSpec
INVARIANTS
  TypeOK
  OptionsObeyed
  FirstRequestDecides
PROPERTY RunsEnd
CHECK_DEADLOCK FALSE
