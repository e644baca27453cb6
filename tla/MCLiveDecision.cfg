CONSTANTS
  none = none
  buy1 = buy1
  buy2 = buy2
  Decisions <- MCDecisions
  Signature <- MCSignature
  SetupOf <- MCSetupOf
  NoSetup = NoSetup
  Nothing = Nothing
  Socket = Socket
  Abandoned = {a}
  Requests = {r}
SPECIFICATION Spec
INVARIANTS
  LiveTypeOK
  ShownIsOnRecord
  NeverDark
PROPERTIES
  FallsBack
  KeepsReceiving
