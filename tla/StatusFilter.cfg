SPECIFICATION Spec
CONSTANTS
  Empty = ""
  Names <- TokenNames
  MaxTokens = 4
INVARIANTS TypeOK LastMentionWins
CHECK_DEADLOCK FALSE
