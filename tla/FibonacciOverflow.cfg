\* One goal of an order that is accepted, and whose last number is no int32.
SPECIFICATION Spec
CONSTANTS
  Goals = {g1}
  Orders = {48}
  MaxOrder = 200
  Handles = {h1}
  IntMax = 2147483647
  Cancellable = {}
  Garbage = {"null"}
  Faulty = FALSE
INVARIANTS
  SuccessIsFibonacci
CHECK_DEADLOCK FALSE
