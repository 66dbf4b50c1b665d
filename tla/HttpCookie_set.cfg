SPECIFICATION Spec
CONSTANTS
  Vals = {v1}
  MaxItems = 2
  None = None
INVARIANT SetCookieAdds
CHECK_DEADLOCK FALSE
