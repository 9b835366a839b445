CONSTANTS
  p1 = p1 p2 = p2 x = x y = y ip1 = ip1 ip2 = ip2 boss = boss mod = mod
  Posts = {p1, p2}
  Author <- AuthorOf
  HasMedia = {p1}
  Ips = {ip1, ip2}
  Staff = {boss, mod}
  CanDelete = {boss, mod}
  CanBan = {boss}
  AutoDeleteThreshold = 2
  Aggregate = Aggregate Rule = Rule Illegal = Illegal
  MaxReports = 2
  MaxForms = 2
  Asked <- Forms
  MaxRestarts = 1
SPECIFICATION Spec
SYMMETRY Symmetric
INVARIANTS TypeOK ReportsCounted AutoHidden ModeratedFully
CHECK_DEADLOCK FALSE
