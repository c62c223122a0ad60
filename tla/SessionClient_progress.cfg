\* One tab and two exchanges that fail, such as a logout and the refresh that a
\* late 401 starts after it.
SPECIFICATION Spec
CONSTANTS
  Tabs = {t1}
  Accounts = {a1}
  Requests = {r1, r2}
  NoTab = NoTab
  NoAccount = NoAccount
  MaxPairs = 3
  MaxLosses = 2
INVARIANTS
  StaysOut
PROPERTIES
  EveryRequestSettles
\* Once every pair is issued, a browser that is signed out stays so.
CHECK_DEADLOCK FALSE
