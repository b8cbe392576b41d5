CONSTANTS
  p1 = p1  r1 = r1  r2 = r2
  slot1 = slot1  slot2 = slot2
  Posts = {p1}
  Revs = {r1, r2}
  Worker = Worker
  Slots = {slot1, slot2}
  SlotOf <- OneSlot
  VideoPosts = {}
  NoSub = NoSub  NoContent = NoContent  EmptyContent = EmptyContent
  Verdicts = {"good", "zero"}
  MaxFaults = 0
  MaxCrashes = 0
  MaxStalls = 1

SPECIFICATION ResponsesSpec
INVARIANTS
  EvaluatingHasOwner
  SuccessShowsItsVerdict
  OkAnswerStays
  PageAgreesWithRevisions
SYMMETRY RevSymmetry
