CONSTANTS
  m1 = m1
  m2 = m2
  p1 = p1
  p2 = p2
  Monitors = {m1, m2}
  Procs = {p1, p2}
  Envs <- Calm
  MaxLog = 4
  MaxDeaths = 2
SPECIFICATION Spec
INVARIANT RegistryRecoverable
PROPERTY AutomationKeepsTombstones
SYMMETRY Symmetric
CHECK_DEADLOCK FALSE
