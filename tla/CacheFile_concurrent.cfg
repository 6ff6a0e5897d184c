SPECIFICATION Spec
CONSTANTS
  Routes = {r1, r2}
  NoRoutes = none
  ZeroKeyed = {}
  Sizes = {1, 2}
  Options <- MCDefault
  Savers = {s1, s2}
  MaxPending = 2
PROPERTIES RestartKeepsRoutes
