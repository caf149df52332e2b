SPECIFICATION Spec
CONSTANTS
  Rows <- Table
  Args <- Arguable
  Pages <- FewPages
  MaxFilters = 2
  MaxBuilt = 1
  MaxCalls = 2
PROPERTIES
  AllFillsList
CHECK_DEADLOCK FALSE
