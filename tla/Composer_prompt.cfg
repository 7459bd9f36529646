SPECIFICATION ComposerSpec
CONSTANTS
  Prompts = {q1, q2}
  MaxMeddling = 2
INVARIANT PromptIsValidated
CHECK_DEADLOCK FALSE
