SPECIFICATION Spec
CONSTANTS
  Texts <- MCTexts
  Options <- MCOptions
INVARIANTS
  CommentsStay
  Accepted
  ContentsInside
  ClausesAlign
PROPERTY PlansRendered
