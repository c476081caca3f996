SPECIFICATION FairSpec
CONSTANTS
  Attempts = 3
  TopicReplies <- AllTopicReplies
  Validations <- AllValidations
  Evaluations <- SomeEvaluations
  Failure = Failure
  None = None
INVARIANTS TypeOK SidesAlike FirstClearAnswer NeverTied ReasonsKept
PROPERTIES LoopsEnd
