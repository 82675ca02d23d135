SPECIFICATION Spec
CONSTANTS
  MaxGroups = 1
INVARIANTS
  OnlySelectedGroups
\* A request is submitted once.
CHECK_DEADLOCK FALSE
