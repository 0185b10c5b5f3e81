CONSTANTS
  Keys <- MCKeys
  Canon <- MCCanon
  Sides <- MCSides
  Akin <- MCAkin
  Projects <- MCProjects
  NameOf <- MCNameOf
  Handles <- MCHandles
  t = t
  u = u
  c1 = c1
  c2 = c2
  Tabs = {t, u}
  Callers = {c1, c2}
  Tui = {c2}
  Picks = {3600}
  Global = 300
  NoOne = NoOne
  Closed = Closed
  NoTab = NoTab
  NoMemo = NoMemo
  NoJob = NoJob
  Works <- MCWorks
  LogCap = 2
  Legacy <- MCLegacy
  Arranged <- MCArranged
  MaxCalls = 2
  MaxEvents = 1
SPECIFICATION Spec
CHECK_DEADLOCK FALSE
PROPERTY PaneStaysOff
INVARIANTS AsAsked 
