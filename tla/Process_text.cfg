SPECIFICATION SafetySpec
CONSTANTS
  Empty = Empty
  Nil = Nil
  LegalKeys <- Keys
  UsableClients <- Clients
  ParsableAddresses <- Addresses
  Configs <- LessThanConfigs
  MaxOpen = 0
INVARIANT TextTemplatesAccepted
CHECK_DEADLOCK FALSE
