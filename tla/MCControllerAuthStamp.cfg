SPECIFICATION AuthSpec
CONSTANTS
  T = 3
  Tries = 3
  Ceremonies = 2
  Checked = {"role"}
  MaxAuthRuns = 2
INVARIANT StampIsTruthful
CHECK_DEADLOCK FALSE
