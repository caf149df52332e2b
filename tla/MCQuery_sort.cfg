SPECIFICATION Spec
CONSTANTS
  Rows <- Table
  Args <- Arguable
  Pages <- FewPages
  MaxFilters = 2
  MaxBuilt = 1
  MaxCalls = 2
PROPERTIES
  SortKeepsRows
CHECK_DEADLOCK FALSE
