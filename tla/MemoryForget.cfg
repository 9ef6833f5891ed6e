SPECIFICATION PersonalSpec
CONSTANTS
  Field = {f1}
  Detail = {}
  MaxText = 2
  Speaker = {s1}
INVARIANTS
  ForgottenStaysOut
CHECK_DEADLOCK FALSE
