SPECIFICATION DocumentsSpec
CONSTANTS
  DocumentFiles <- SomeFiles
  ParserConfigs <- SomeConfigs
  GridSize = 3
  Deployments <- SomeDeployments
  Segments = 2
  Texts <- SomeTexts
  Replies <- SomeReplies
  GlossaryLists <- SomeLists
  GlossaryTexts <- SomeGlossaryTexts
  Domains = {"law"}
  Alike <- SomeAlike
  Closer <- SomeCloser
INVARIANTS
  DocumentsTypeOK TextsSegmented TextsKeepTheirPlaces
  AnswersToldApart DecisionInformed GlossaryApplied
CHECK_DEADLOCK FALSE
