SPECIFICATION Spec
CONSTANTS
  Texts <- UnsettledTexts
  Options <- WideOptions
INVARIANT Idempotent
