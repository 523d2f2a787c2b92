SPECIFICATION WindowSpec
CONSTANTS
  slash = slash
  underscore = underscore
  escaped = escaped
  Names <- MCNames
  FileOf <- MCFileOf
  LegacyOf <- MCLegacyOf
  Allowed = {"a", "b", "_", "2", "f"}
  Special = {"/"}
  Hex <- MCHex
  Secrets = {s1, s2}
  Absent = Absent
  Torn = Torn
INVARIANT SearchFindsShown
CHECK_DEADLOCK FALSE
