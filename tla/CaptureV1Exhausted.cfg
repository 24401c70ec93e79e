SPECIFICATION Spec
CONSTANTS
  Events = {e1, e2, e3}
  Retries = {0, 3}
INVARIANT ExhaustedReported
CHECK_DEADLOCK FALSE
