SPECIFICATION Spec
CONSTANTS
  None = None
  e1 = e1
  s1 = s1
  Entries = {e1, s1}
  Signals = {s1}
  Closes = {c1}
  Sizes <- MCSizes
  Protect <- MCProtect
  Traders = {t1}
  SignalQty = 2
  Movable <- MCMovable
  MaxPatches = 1
VIEW JournalView
CHECK_DEADLOCK FALSE
INVARIANTS
  BookBalances
  ProtectionFits
  ProjectionIsCurrent
PROPERTIES
  FillsAreIntended
  LiveExitsKept
