SPECIFICATION Spec
CONSTANTS
  Users = {u1, s1, s2}
  Supers = {s1, s2}
  Devices = {d1, d2}
  Owner <- Owners
  Values = {"SUPERADMIN"}
  MaxInFlight = 2
  u1 = u1
  s1 = s1
  s2 = s2
  d1 = d1
  d2 = d2
SYMMETRY Symmetry
INVARIANT SignedInDevicesRefresh
INVARIANT SuperAdminsOverlap
INVARIANT DeletedLeaveNothing
CHECK_DEADLOCK FALSE
