SPECIFICATION Spec
CONSTANTS
  p1 = p1
  p2 = p2
  sa = sa
  sb = sb
  Products = {p1, p2}
  Sizes = {sa, sb}
  NoProduct = NoProduct
  NoSize = NoSize
  Runs = {r1, r2}
  MaxRows = 3
  InitShelf <- MCInitShelf
  InitCart <- MCInitCart
  Bonus = 1
  MaxQty = 1
  MaxUpdates = 5
  MaxOutside = 1
  MaxCrashes = 1
SYMMETRY MCSymmetry
CHECK_DEADLOCK FALSE
INVARIANT TypeOK
 
INVARIANT SoldOnce
INVARIANT BonusPerOrder
INVARIANT SizeOfProduct
