CONSTANTS
  p1 = p1  p2 = p2  p3 = p3  r1 = r1  r2 = r2
  slot1 = slot1  slot2 = slot2
  Posts = {p1}
  Revs = {r1}
  Worker = Worker
  Slots = {slot1, slot2}
  SlotOf <- TwoForOne
  VideoPosts = {}
  NoSub = NoSub  NoContent = NoContent  EmptyContent = EmptyContent
  Verdicts = {"good", "zero", "unstorable"}
  MaxFaults = 0
  MaxCrashes = 0
  MaxStalls = 1

SPECIFICATION Spec
INVARIANTS
  FailedEvaluationIsQueued
