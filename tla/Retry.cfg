CONSTANTS
  p1 = p1  r1 = r1  r2 = r2
  slot1 = slot1  slot2 = slot2
  Posts = {p1}
  Revs = {r1}
  Worker = Worker
  Slots = {slot1, slot2}
  SlotOf <- OneSlot
  VideoPosts = {p1}
  NoSub = NoSub  NoContent = NoContent  EmptyContent = EmptyContent
  Verdicts = {"good", "zero", "unstorable"}
  MaxFaults = 1
  MaxCrashes = 2
  MaxStalls = 1

SPECIFICATION ResponsesFairSpec
INVARIANTS
  StatusIsLastOutcome
  RetriedAtMostOnce
  NoAutomaticOverlap
  QueuedOnlyAfterFailure
  FailedPostIsQueued
  VideoDeletedAfterRetry
  RevisionRowMatchesLog
  AnswersMatchTables
PROPERTIES
  LedgerSpec
  EveryPostAnswered
  EveryRetryEnds
  EverySubmissionSettles
  EveryRevisionSettles
