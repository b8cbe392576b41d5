CONSTANTS
  Texts <- ShortTexts
  Verdicts <- UpToTwo

SPECIFICATION Spec
INVARIANTS
  TextSurvives
  HighlightsAreBold
