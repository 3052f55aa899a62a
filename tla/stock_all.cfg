SPECIFICATION Spec
CONSTANTS
  k1 = k1
  k2 = k2
  p1 = p1
  s1 = s1
  s2 = s2
  s3 = s3
  NoSession = NoSession
  Keys <- MCKeys
  Product <- MCProduct
  InitStock <- MCInitStock
  Carts <- MCCarts
  MaxCount = 2
  Sessions = {s1, s2, s3}
  Handlers = {"checkout", "web", "client_cancel", "owner_cancel", "owner_done", "set_stock"}
SYMMETRY MCSymmetry
INVARIANT TypeOK
INVARIANT LockedReadCurrent
INVARIANT SaleRowExact
INVARIANT RefusalJustified
INVARIANT LockDiscipline
PROPERTY LockedSaleExact
