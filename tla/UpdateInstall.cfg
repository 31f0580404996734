SPECIFICATION FairSpec
CONSTANTS
  First = 1
  MaxRelease = 3
INVARIANTS ReportIsCurrent
PROPERTIES NoStartUnderHelper AppComesBack
