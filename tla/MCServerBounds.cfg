SPECIFICATION Spec
CONSTANTS
  s1 = s1
  s2 = s2
  Absent = Absent
  Garbled = Garbled
  Null = Null
  Omitted = Omitted
  DefaultLimit = 1
  Sessions = {s1, s2}
  Texts <- Words
  Lower <- Lowered
  Runes <- Widths
  TextCap = 4
  RecordCalls <- SmallRecords
  ReviewCalls <- SmallReviews
  Times = {2, 3}
  Year1001 = 1
  Year10000 = 5
  Suffixes = {1}
  MaxRows = 2
INVARIANT SinceHolds
