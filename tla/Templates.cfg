CONSTANTS
  Tokens <- MCTokens
  Messages <- MCMessages
SPECIFICATION FairSpec
INVARIANTS TypeOK RendersMeaning BuiltinAgrees
PROPERTIES Renders
CHECK_DEADLOCK FALSE
