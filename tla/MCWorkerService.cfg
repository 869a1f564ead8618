\* Every backend; a batch of three and a stream; a model of two rows.
CONSTANTS
  Prompts <- TwoCalls
  Streams <- StreamCalls
  RawValues <- SomeValues
  ModelBatch = 2
  StepCap = 2
SPECIFICATION Spec
INVARIANTS
  AnswersMatchRequests
  ReasonIntact
  ValuesReleased
  BannerTellsMembers
PROPERTIES
  CallsKeepContract
