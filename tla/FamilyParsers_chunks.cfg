SPECIFICATION Spec
CONSTANTS
  Families = {"Qwen3_5VL", "Gemma4e", "Nanbeige", "GPT_OSS"}
  Words = {"x"}
  Chunks <- MCChunks
  ToolCalls <- MCToolCalls
  TextBytes = 8
  MaxChunks <- MCMaxChunks
INVARIANTS TypeOK SentIsSaid NothingLost HeldBackMayBegin
