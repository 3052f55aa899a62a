SPECIFICATION Spec
CONSTANTS
  n1 = n1
  n2 = n2
  sa = sa
  sb = sb
  Names = {n1, n2}
  Sizes = {sa, sb}
  NoSize = NoSize
  AdminSizes = {sa}
  Runs = {r1, r2}
  MaxMedia = 2
  SizeLists <- MCSizeLists
  InitGroups <- MCInitGroups
  InitProducts <- MCInitProducts
  InitFsm <- MCInitFsm
  MaxProducts = 3
  MaxIds = 2
  MaxUpdates = 3
  MaxOutside = 1
  MaxCrashes = 1
  MaxOverlaps = 1
SYMMETRY MCSymmetry
CHECK_DEADLOCK FALSE
INVARIANT TypeOK
INVARIANT PhotoLimit
PROPERTY NewProducts
PROPERTY HitsShownProduct
