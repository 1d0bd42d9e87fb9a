SPECIFICATION Spec
CONSTANTS
  i1 = i1
  i2 = i2
  i3 = i3
  seed = seed
  Ingesters <- MCIngesters
  Seed <- seed
  Configs = {0, 1, 2, 3}
  Statuses = {"draft", "done"}
  SourceUris = {"here", "there"}
  Names = {"m", "n"}
  Inputs <- Moved
PROPERTIES
  EveryIngestEnds
