SPECIFICATION FairSpec
CONSTANTS
  TextLadder <- MCTextLadder
  VisionLadder <- MCVisionLadder
  MinInterval <- MCMinInterval
  Keyed = {"groq", "gemini", "openrouter", "mistral"}
  Retries = 3
  MaxWait = 12
  Asked = {0, 12, 13}
  MaxBatches = 2
  None = None
INVARIANTS TypeOK GivenUpAfterAll NoStall
PROPERTIES CallsSpaced EveryTaskEnds
