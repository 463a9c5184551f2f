----------------------------- MODULE MCRequests -----------------------------
(***************************************************************************)
(* The parts that requests meet in, explored by one run: the account of    *)
(* one user, the boundary of one request, the tables of access under two   *)
(* requests, decisions while one request writes these tables, the          *)
(* provisioning of the first identities, the creation of fiscal years, the *)
(* plan of their periods, the chart of accounts, the company that work     *)
(* runs for and the limiter in front of all.  A behaviour exercises one    *)
(* part and the others stay as they began.                                 *)
(***************************************************************************)
EXTENDS MCAuthentication, TransactionBoundary, Authorization, Provisioning,
        FiscalYears, RateLimiter, TenantScope, JalaliCalendar, Accounts

CONSTANTS u1, e1, n1, t1, t2, m1, m2, o1, o2, a1, a2, p1   \* values of ids

VARIABLE part

\* Two Jalali years, and a range across their border.
Span(first, final) == [start |-> first, end |-> final]
TwoYears == {Span(1, 2), Span(3, 4)}
RangesAcross == TwoYears \cup {Span(2, 3)}

\* One member, of one company.
OneMember == {<<"member", t1>>}

\* Three cycles of 33 years, and the days around every Nowruz in them.
ThreeCycles == 1976..2075
AroundNowruz == 18..23

-----------------------------------------------------------------------------
(* Decisions start from staffed companies, with two commits to come and one *)
(* request at a time that writes.                                          *)

\* The user is a member of both companies, in each by a role with the permission.
Staffed ==
  LET Reader(t) == [Created(t, n1) EXCEPT !.permissions = {p1}]
      rows == u1 :> Created(Platform, e1)
                @@ t1 :> Created(t1, n1) @@ t2 :> Created(t2, n1)
                @@ m1 :> Created(t1, u1) @@ m2 :> Created(t2, u1)
                @@ o1 :> Reader(t1) @@ o2 :> Reader(t2)
                @@ a1 :> Created(t1, <<m1, o1>>) @@ a2 :> Created(t2, <<m2, o2>>)
  IN [id \in Ids |-> IF id \in DOMAIN rows THEN rows[id] ELSE NoRow]

DecisionsInit ==
  /\ row = Staffed /\ projection = Staffed
  /\ revision = [id \in Ids |-> IF Staffed[id] = NoRow THEN 0
                                ELSE IF id \in {o1, o2} THEN 2 ELSE 1]
  /\ pending = [w \in Writers |-> Idle] /\ writes = MaxCommits - 2
  /\ admins = {} /\ decision = [step |-> "idle"]

OneWriter == \A v, w \in Writers : pending[v] = Idle \/ pending[w] = Idle \/ v = w

-----------------------------------------------------------------------------

requestsVars ==
  <<part, vars, boundaryVars, decisionVars, provisioningVars, yearVars,
    limiterVars, scopeVars, generation, chartVars>>

Parts == {"account", "boundary", "access", "provisioning", "years", "limiter",
          "scope", "calendar", "chart"}

RequestsInit ==
  /\ Init /\ BoundaryInit /\ ProvisioningInit /\ YearsInit /\ LimiterInit
  /\ ScopeInit /\ CalendarInit /\ ChartInit
  /\ \/ part \in Parts /\ AuthorizationInit
     \/ part = "decisions" /\ DecisionsInit
  /\ part # "limiter" => phase = 0
  /\ part # "scope" => \A r \in DOMAIN owner : owner[r] = NoCompany

RequestsNext ==
  /\ UNCHANGED part
  /\ \/ part = "account" /\ Next
     \/ part # "account" /\ UNCHANGED vars
  /\ \/ part = "boundary" /\ BoundaryNext
     \/ part # "boundary" /\ UNCHANGED boundaryVars
  /\ \/ part = "access" /\ AccessNext /\ UNCHANGED <<admins, decision>>
     \/ part = "decisions" /\ DecisionNext /\ OneWriter'
     \/ part \notin {"access", "decisions"} /\ UNCHANGED decisionVars
  /\ \/ part = "provisioning" /\ ProvisioningNext
     \/ part # "provisioning" /\ UNCHANGED provisioningVars
  /\ \/ part = "years" /\ YearsNext
     \/ part # "years" /\ UNCHANGED yearVars
  /\ \/ part = "limiter" /\ LimiterNext
     \/ part # "limiter" /\ UNCHANGED limiterVars
  /\ \/ part = "scope" /\ ScopeNext
     \/ part # "scope" /\ UNCHANGED scopeVars
  /\ \/ part = "calendar" /\ CalendarNext
     \/ part # "calendar" /\ UNCHANGED generation
  /\ \/ part = "chart" /\ ChartNext
     \/ part # "chart" /\ UNCHANGED chartVars

RequestsSpec == RequestsInit /\ [][RequestsNext]_requestsVars

=============================================================================
