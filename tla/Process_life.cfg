SPECIFICATION Spec
CONSTANTS
  Empty = Empty
  Nil = Nil
  LegalKeys <- Keys
  UsableClients <- Clients
  ParsableAddresses <- Addresses
  Configs <- AllConfigs
  MaxOpen = 2
INVARIANTS TypeOK SuccessIsClean NothingCutEarly AcceptedIsServed
PROPERTIES SignalEnds FailureEnds
CHECK_DEADLOCK FALSE
