SPECIFICATION Spec
CONSTANTS
  Attempts = 3
  TopicReplies <- AllTopicReplies
  Validations <- AllValidations
  Evaluations <- SomeEvaluations
  Failure = Failure
  None = None
INVARIANTS NobodyStaysNobody
