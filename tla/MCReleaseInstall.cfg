SPECIFICATION FairSpec
CONSTANTS
  r1 = r1
  r2 = r2
  Releases <- MCReleases
  Absent = Absent
INVARIANTS TypeOK BothOrNeither PreviousKept
PROPERTIES ServiceRecovered ValidatedBeforeInterruption StoppedStaysStopped CallEnds AtomicSpec
