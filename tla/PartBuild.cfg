SPECIFICATION Spec
CONSTANTS
  Builds = {b1, b2}
  Kinds = {"spec", "part"}
  PartLists <- AllLists
  PickMade = PickMade
  None = None
SYMMETRY Interchangeable
INVARIANTS OkReturnsItsParts AtMostOneUnregistered PicksDescribeTheObject
CHECK_DEADLOCK FALSE
