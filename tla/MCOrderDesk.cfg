CONSTANTS
  Keys = {k}
  NoKey = NoKey
  NoPrice = NoPrice
  Quantities <- MCQuantities
  Prices <- MCPrices
  LotSize = 2
  MaxNotional = 4
  MaxPreviews = 3
SPECIFICATION Spec
INVARIANTS
  OrderDeskTypeOK
  OneOrderPerKey
  QueueMatchesPreviews
