CONSTANTS
  a1 = a1  a2 = a2  u1 = u1  kim = kim
  Requests = {a1, a2, u1}
  Signups = {a1}
  Signins = {a2}
  Uploads = {u1}
  Names = {kim}
  NameOf <- OneName
  OldStudents <- OneStudent
  Timeout = 10

SPECIFICATION HttpFairSpec
INVARIANTS
  HttpTypeOK
  CounterIsUnfinished
  DrainedDropsNobody
  CutOffOnlyAfterTimeout
  SigninSeesSignups
PROPERTIES
  WaitEnds
