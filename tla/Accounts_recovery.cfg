SPECIFICATION Spec
CHECK_DEADLOCK FALSE
CONSTANTS
  Regs = {r1, r2}
  Admins = {r2}
  Emails = {e1}
  Email <- SameEmail
  Requests = {q1, q2}
  MaxFaults = 1
  MaxClicks = 2
  r1 = r1
  r2 = r2
  q1 = q1
  q2 = q2
  e1 = e1
SYMMETRY Symmetry
INVARIANT AccountsAreComplete
INVARIANT PasswordIsKnown
INVARIANT RecoveryLinkIsOpen
