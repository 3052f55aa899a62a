SPECIFICATION ScreensSpec
CHECK_DEADLOCK FALSE
CONSTANTS
  Runs = {r1, r2}
  Orders = {1, 2, 3}
  PageSize = 2
  MaxDay = 2
  Starts <- MCStarts
  MaxPresses = 3
  MaxChanges = 1
  Visitors = {v1, v2}
  Cats = {1, 2, 3}
  Products = {1, 2, 3, 4}
  Goods <- MCGoods
  Size = 1
  Openings <- MCOpenings
  MaxVisits = 3
  Doomed = {3}
  Together = 2
SYMMETRY MCSymmetry
INVARIANTS ScreensTypeOK OneListing PagesHonest 
