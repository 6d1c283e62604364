SPECIFICATION ReminderSpec
CONSTANTS
  boss = boss
  anna = anna
  u1 = u1
  u2 = u2
  u3 = u3
  edit = edit
  r1 = r1
  r2 = r2
  Person = {boss, anna}
  None = None
  SuperAdmin = boss
  UserId = {u1, u2, u3}
  Role <- AdminRoles
  Code = {edit}
  Default <- AdminEdits
  Request = {r1}
  AccessLife = 0
  RefreshLife = 1
  MaxTime = 2
  MaxEdits = 2
  Date = {20, 22, 23}
CHECK_DEADLOCK FALSE
INVARIANT AllReminded
