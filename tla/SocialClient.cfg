SPECIFICATION ClientSpec
CONSTANTS
  None = None
  t1 = t1
  t2 = t2
  p1 = p1
  p2 = p2
  k1 = k1
  k2 = k2
  Tenants = {t1, t2}
  Posts = {p1, p2}
  Keys = {k1, k2}
  Requests = {r1, r2}
  Callers = {c1}
  Menus <- SomeMenus
  MaxRetries = 1
  Published = {"published"}
INVARIANTS
  DatabaseAgrees
  ToldTheTruth
SYMMETRY Symmetry
