SPECIFICATION Spec
CONSTANTS
  MaxSlot = 3
  MaxRender = 2
  MaxDelivery = 2
  MaxUnresolved = 1
  MaxConfig = 2
  MaxFaults = 2
INVARIANTS
  TypeOK
  LedgerExact
  DeliveryHonest
PROPERTIES
  SlotNeverReopened
  SlotSettles
