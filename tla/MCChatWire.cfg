SPECIFICATION Spec
CONSTANTS
  MAX_HANDLE_SIZE = 2
  MAX_SEND_TXT = 2
  MaxTokens = 5
  TypedLines <- TypedInstance
  Names <- NamesInstance
  ListLengths <- LengthsInstance
INVARIANTS
  LengthIsBytes
  DestsAreTyped
  TextIsTyped
  NamesAreKept
CHECK_DEADLOCK FALSE
