SPECIFICATION Spec
CONSTANTS
  A = A
  B = B
  C = C
  AliasOfA = AliasOfA
  Names = {A, B, C, AliasOfA}
  Tag <- MCTag
  Restoring = {A, C}
  CheckpointsAnswer = {C}
  Openings <- MCOpenings
  MaxOpening = 2
  NoModel = NoModel
  Kinds = {"completions", "chat", "chat_stream", "generate"}
  Messages <- MCMessages
  Conversations <- MCConversations
  ToolSets <- MCToolSets
  Checksum <- MCChecksum
  Tokens = {"u", "v", "gen", "eos", "r", "tool", "think", "nl"}
  Render <- MCRender
  Sampled = {"r", "eos"}
  Eos = "eos"
  MaxL = 11
INVARIANTS TypeOK ModelAnswers HistoryIsPrompt PromptIsSeen ContextIsBounded
