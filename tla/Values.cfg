\* Static fields, dates and texts.
SPECIFICATION ValuesSpec
CONSTANTS
  Null = Null
  Domains = {1, 2, 3}
  NoDomain = 0
  Values = {1, 2}
  Fields <- AllFields
  Callers = {"managed", "dumpobj"}
  Events = 2
  Addresses = {1, 2}
  Lengths = {0, 1, 2, 3}
  Spare = 1
  Happenings = 3
INVARIANTS
  StaticsShown
  OverrunExplained
  DatesRight
PROPERTIES
  TextWhole
CHECK_DEADLOCK FALSE
