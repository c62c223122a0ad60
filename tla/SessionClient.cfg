\* Two tabs of one browser and two accounts: what must never happen.  Failures are
\* the matter of the other run, which has one tab.
SPECIFICATION Spec
CONSTANTS
  Tabs = {t1, t2}
  Accounts = {a1, a2}
  Requests = {r1, r2}
  NoTab = NoTab
  NoAccount = NoAccount
  MaxPairs = 3
  MaxLosses = 0
INVARIANTS
  RefreshHasLeader
  CookieIsLive
  StaysOut
  OneAccountShown
SYMMETRY Interchangeable
VIEW View
\* Once every pair is issued, a browser that is signed out stays so.
CHECK_DEADLOCK FALSE
