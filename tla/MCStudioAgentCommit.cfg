SPECIFICATION CommitSpec
CONSTANTS
  Threads = {t1, t2}
  Nobody = Nobody
  MaxEdits = 2
INVARIANT ChangeAlwaysRaises
