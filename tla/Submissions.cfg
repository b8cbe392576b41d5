CONSTANTS
  p1 = p1  p2 = p2  p3 = p3  r1 = r1  r2 = r2
  slot1 = slot1  slot2 = slot2
  Posts = {p1, p2, p3}
  Revs = {}
  Worker = Worker
  Slots = {slot1, slot2}
  SlotOf <- TwoForOne
  VideoPosts = {p1, p3}
  NoSub = NoSub  NoContent = NoContent  EmptyContent = EmptyContent
  Verdicts = {"good", "zero", "unstorable"}
  MaxFaults = 1
  MaxCrashes = 2
  MaxStalls = 1

SPECIFICATION Spec
INVARIANTS
  TypeOK
  OneSubmissionPerComponent
  VideoKeptForRetry
