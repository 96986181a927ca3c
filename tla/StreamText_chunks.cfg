SPECIFICATION Spec
CONSTANTS
  SeqLen = 3
  Tokens <- MCTokens
  ToolCalls <- MCToolCalls
  Kinds = {"chat", "text"}
  MaxText <- MCMaxText
INVARIANTS TypeOK SentIsSaid NothingHeldBack DoneIsAll WellFormedIsNotCut
