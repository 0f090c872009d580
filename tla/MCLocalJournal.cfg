SPECIFICATION JournalSpec
CONSTANTS
  Keys = {a, b}
  Vals = {x, y}
  NoVal = NoVal
  NoKey = NoKey
  MaxVersion = 2
  MaxRecords = 1
  MaxLog = 2
  MaxFaults = 4
SYMMETRY Symmetry
INVARIANTS
  AckedSurvives
  CrashIsReadable
PROPERTY NewerSchemaUntouched
CHECK_DEADLOCK FALSE
