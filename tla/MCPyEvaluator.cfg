CONSTANTS
  Threads = {t1, t2, t3}
  NoThread = NoThread
  N = 4
  Calls <- MCCalls
SPECIFICATION FairSpec
INVARIANTS TypeOK BorrowTracksCalls DecisionsStayValid
PROPERTY CallsReturn
