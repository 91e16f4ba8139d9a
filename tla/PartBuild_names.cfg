SPECIFICATION Spec
CONSTANTS
  Builds = {b1, b2}
  Kinds = {"spec", "part"}
  PartLists <- ClashingLists
  PickMade = PickMade
  None = None
SYMMETRY Interchangeable
INVARIANT BuildsEachNameOnce
CHECK_DEADLOCK FALSE
