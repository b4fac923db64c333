\* Two clients share one handle; one order is too big and one too small, an
\* uninitialised pointer may be anything, and start-up calls may fail.
SPECIFICATION FairSpec
CONSTANTS
  Goals = {g1, g2}
  Orders = {1, 3, 4, 201}
  MaxOrder = 200
  Handles = {h1}
  IntMax = 2147483647
  Cancellable = {g1, g2}
  Garbage = {"null", "wild"}
  Faulty = TRUE
INVARIANTS
  TypeOK
  WorkersOwnHandle
  SuccessIsComplete
  SuccessIsFibonacci
  CompletedMeansEnded
PROPERTIES
  ImplementsActionGoals
  ClientsEnd
CHECK_DEADLOCK FALSE
