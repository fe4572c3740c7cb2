\* Five verifications that commit in any order, a dashboard or analytics answer,
\* and a client that reads pages of two.
CONSTANTS
  N = 5
  Row <- MCRow
  Created <- MCCreated
  Decided <- MCDecided
  Recent <- MCRecent
  Day <- MCDay
  Report = {q1}
  Client = {c1}
  PageSize = 2
SPECIFICATION Spec
INVARIANTS SeriesWithinSummary FiguresBracketed PagesCoverOldRows
CHECK_DEADLOCK FALSE
