SPECIFICATION FairSpec
CONSTANTS
  caption = caption
  captionEmbed = captionEmbed
  imageEmbed = imageEmbed
  Workers = {w1, w2}
  NoWorker = NoWorker
  NoJob = NoJob
  MaxAttempts = 2
  MaxOps = 2
CONSTRAINT Explored
CHECK_DEADLOCK FALSE
INVARIANTS
  TypeOK
  EmbeddedHasPoint
  CaptionChains
  SucceededIsEmbedded
  RowHasFile
PROPERTIES
  CaptionedIsEmbedded
