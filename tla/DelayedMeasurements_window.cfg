SPECIFICATION Spec
CONSTANTS
  Punctual = {"depth"}
  Enabled = {"beacon", "range", "bearing"}
  Delays = {1, 2, 4}
  EnableRejection = TRUE
  MaxPast = 2
  MaxStep = 5
INVARIANTS TypeOK AppliedOnTime PunctualKept KeptUnlessOvertaken
