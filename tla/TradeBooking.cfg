CONSTANTS
  o1 = o1
  o2 = o2
  c1 = c1
  c2 = c2
  s1 = s1
  s2 = s2
  none = none
  NoOrder = none
  Orders <- MCOrders
  Confirmers <- MCConfirmers
  Syncers <- MCSyncers
SPECIFICATION Spec
SYMMETRY Symmetry
INVARIANTS
  TypeOK
  ImportedOnce
  DoubleBookingCauses
PROPERTIES
  OrderStatesSpec
