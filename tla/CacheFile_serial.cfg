SPECIFICATION FairSpec
CONSTANTS
  Routes = {r1, r2, r3}
  NoRoutes = none
  ZeroKeyed = {r3}
  Sizes = {1, 2}
  Options <- AllOptions
  Savers = {s1}
  MaxPending = 2
INVARIANTS TypeOK SavedOnDisk
PROPERTIES StoreSpec CatchesUp
