SPECIFICATION FairSpec
CONSTANTS
  Threads = {t1, t2}
  FailureThreshold = 2
  SuccessThreshold = 2
  MaxFailures = 4
INVARIANT TypeOK
PROPERTIES OpensAfterStreak ClosesAfterSuccesses PrimaryComesBack
