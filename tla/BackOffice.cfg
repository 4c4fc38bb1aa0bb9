SPECIFICATION MCSpec
CONSTANTS
  a1 = a1
  a2 = a2
  a3 = a3
  c1 = c1
  c2 = c2
  u1 = u1
  k1 = k1
  k2 = k2
  Clients = {r1, r2}
  Users = {u1, u2}
  Companies = {c1, c2}
  Agents = {a1, a2, a3}
  Mails = {m1}
  MailboxOf <- MCMailboxOf
  MaxQuota = 1
  None = None
  Endpoints = {e1}
  DIDs = {d1}
  Extensions = {x1}
  Uploads = {f1, f2}
  Sounds = {w1}
  OutputOf <- MCOutputOf
  Providers = {p1, p2}
  Tenants = {t1}
  Addresses = {i1}
  CompanyOf <- MCCompanyOf
  Sockets = {s1, s2}
  Consoles = {k1, k2}
  RoomOf <- MCRoomOf
  Statuses = {online}
  Offline = Offline
  All = All
  MaxRequests = 4
SYMMETRY Symmetry
INVARIANTS
  TypeOK
  QuotaOvershoot
  FilesMatchRows
  NoDuplicateFromOneClient
  BoardFollowsSockets
  ConsoleShowsBoard
\* The bound on requests ends every behaviour.
CHECK_DEADLOCK FALSE
