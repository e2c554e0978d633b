SPECIFICATION SystemLiveSpec
CONSTANTS
  unread = unread
  digest = digest
  summary = summary
  cyclic = cyclic
  c1 = c1
  c2 = c2
  Names = {unread, digest}
  Documents = {summary, cyclic}
  Unparsable = {cyclic}
  NoDocument = NoDocument
  NoRule = NoRule
  NoValue = NoValue
  NoMutation = NoMutation
  Callers = {c1, c2}
  MaxFaults = 2
  MaxOperations = 1
  MaxMutations = 2
  MaxDisturbances = 1
INVARIANTS SystemTypeOK RegistrationsAgree ServedIsStored SettledIsCurrent
PROPERTIES ReconcileMaterializes RulesTakeEffect
CHECK_DEADLOCK FALSE
