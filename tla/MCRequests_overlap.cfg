\* Two requests of any kind overlap while lockouts begin and expire; beside it
\* the boundary, the tables of access, decisions, the provisioning, the creation
\* of fiscal years, the plan of their periods, the chart of accounts, the scope
\* of a company and the rate limiter.
CONSTANTS
  u1 = u1
  e1 = e1
  n1 = n1
  t1 = t1
  t2 = t2
  m1 = m1
  m2 = m2
  o1 = o1
  o2 = o2
  a1 = a1
  a2 = a2
  p1 = p1
\* The account.
  Requests = {r1, r2}
  Secrets = {s1, s2}
  NoSecret = NoSecret
  Threshold = 2
  Duration = 1
  Ttl = 2
  MaxWrites = 3
  MaxTime = 2
  MaxRevision = 4
  MaxChanges = 2
  MaxSessions = 1
\* The boundary of one request.
  Units = {"request"}
  MaxExecutions = 4
\* The tables, and decisions on them.
  Writers = {r1, r2}
  Persons = {u1}
  Emails = {e1, e2}
  Tenants = {t1, t2}
  Memberships = {m1, m2}
  Roles = {o1, o2}
  Assignments = {a1, a2}
  Names = {n1}
  Permissions = {p1}
  NoTenant = NoTenant
  MaxCommits = 5
\* The provisioning.
  Admin = "admin"
  SeedUsers = {"user1", "user2"}
  SeedCompanies = {"company"}
  Pieces = {"role", "year"}
  People = {"admin", "user1", "user2"}
  Instances = {"api", "seed"}
  Seeder = "seed"
  MaxRuns = 3
\* The years of two companies.
  Creators = {r1, r2}
  Companies = {"c1", "c2"}
  Labels = {"l1", "l2"}
  JalaliYears <- TwoYears
  Ranges <- RangesAcross
\* The limiter: two requests of one address, which may name one identity.
  Attempts = {r1, r2}
  Addresses = {"address"}
  Identities = {"identity"}
  Limit = 1
  Window = 2
\* The scope: two overlapping chains, a member of one company and the administrator.
  Chains = {"c", "d"}
  ScopeUsers = {"member", "root"}
  SystemAdmin = "root"
  ScopeTenants = {t1, t2}
  Members <- OneMember
  Rows = {"row"}
  NoCompany = NoTenant
  MaxDepth = 2
  MaxJobs = 1
\* The calendar.
  CalendarYears <- ThreeCycles
  MarchDays <- AroundNowruz
\* The chart: three accounts, or fewer and a change, in one company.
  Editors = {r1, r2}
  Codes = {1, 2, 3}
  NoParent = 0
  MaxEdits = 3
SYMMETRY Symmetry
CHECK_DEADLOCK FALSE
SPECIFICATION RequestsSpec
INVARIANTS TypeOK LockoutsAreEarned ChangesAreCounted SessionsEndOnce
INVARIANTS NothingOfAFailure AnswersMatchTheDatabase
INVARIANTS OneRowPerKey AssignmentsStayInTheirCompany EventsTellTheRow DecisionsAreJustified
INVARIANTS ProvisioningIsRepeatable YearsAreApart AnswersAreJustified BurstsAreBounded
INVARIANTS TenantsAreIsolated PeriodsTileTheYear ChartsStand
PROPERTIES LockoutStands RowLifecycleSpec
