----------------------------- MODULE SetupProofs -----------------------------
(***************************************************************************)
(* Proofs about what is set up before anybody posts: the fiscal years of a *)
(* company and the plans of their periods, its chart of accounts, and the  *)
(* first identities.                                                       *)
(***************************************************************************)
EXTENDS FiscalYears, Accounts, Provisioning, JalaliCalendar, FiniteSetTheorems,
        WellFoundedInduction, TLAPS

-----------------------------------------------------------------------------
(* FiscalYears, for any number of companies, years and overlapping         *)
(* creations.  What has been committed is apart because what has been      *)
(* inserted is, and that because a creation that has passed the trigger    *)
(* keeps the range it has read: Reserved says what each stage of a         *)
(* creation may already rely on.                                           *)

SameCompany(r, u) == Year(r).company = Year(u).company

\* A creation that has passed the trigger meets no committed year, and one that
\* has inserted its row has a label of its own as well.
FreeOfYears ==
  \A r \in Creators, z \in years :
    z.company = Year(r).company =>
      /\ Stage(r) \in {"insert", "commit"} => ~ Overlap(Year(r), z)
      /\ Stage(r) = "commit" => z.label # Year(r).label

\* A row that is inserted meets no range that another creation has read and
\* still holds, and two such rows have labels of their own.
FreeOfOthers ==
  \A r, u \in Creators :
    r # u /\ Stage(r) = "commit" /\ SameCompany(r, u) =>
      /\ Stage(u) \in {"insert", "commit"} => ~ Overlap(Year(r), Year(u))
      /\ Stage(u) = "commit" => Year(r).label # Year(u).label

Reserved == YearsTypeOK /\ YearsAreApart /\ FreeOfYears /\ FreeOfOthers

-----------------------------------------------------------------------------

\* A step of one creation leaves the others and the rows alone.
LEMMA GotoOne ==
  ASSUME YearsTypeOK, NEW r \in Creators, NEW where \in Stages,
         Stage(r) \in Stages, GotoStage(r, where)
  PROVE  /\ YearsTypeOK' /\ years' = years
         /\ Stage(r)' = where /\ Year(r)' = Year(r)
         /\ \A u \in Creators \ {r} : Stage(u)' = Stage(u) /\ Year(u)' = Year(u)
<1>1. creation[r] \in [at : Stages, year : Years]
  BY DEF YearsTypeOK, Stage, None, Stages
<1>2. [creation[r] EXCEPT !.at = where] \in [at : Stages, year : Years]
  BY <1>1
<1>3. /\ creation'[r] = [creation[r] EXCEPT !.at = where]
      /\ \A u \in Creators \ {r} : creation'[u] = creation[u]
      /\ years' = years
  BY DEF GotoStage, YearsTypeOK
<1>4. creation' \in [Creators -> {None} \cup [at : Stages, year : Years]]
  BY <1>2 DEF GotoStage, YearsTypeOK
<1>5. /\ creation'[r].at = where /\ creation'[r].year = creation[r].year
  BY <1>1, <1>3
<1> QED
  BY <1>3, <1>4, <1>5 DEF YearsTypeOK, Stage, Year

\* What a creation does at each of its steps.
LEMMA Began ==
  ASSUME YearsTypeOK, NEW r \in Creators, NEW y \in Years, BeginYear(r, y)
  PROVE  /\ YearsTypeOK' /\ years' = years /\ Stage(r)' = "read" /\ Year(r)' = y
         /\ \A u \in Creators \ {r} : Stage(u)' = Stage(u) /\ Year(u)' = Year(u)
<1>1. [at |-> "read", year |-> y] \in [at : Stages, year : Years]
  BY DEF Stages
<1>2. /\ creation'[r] = [at |-> "read", year |-> y]
      /\ \A u \in Creators \ {r} : creation'[u] = creation[u]
      /\ years' = years
      /\ creation' \in [Creators -> {None} \cup [at : Stages, year : Years]]
  BY <1>1 DEF BeginYear, YearsTypeOK
<1> QED
  BY <1>2 DEF YearsTypeOK, Stage, Year

LEMMA Committed ==
  ASSUME YearsTypeOK, NEW r \in Creators, CommitYear(r)
  PROVE  /\ YearsTypeOK' /\ years' = years \cup {Year(r)}
         /\ Year(r) \in Years
         /\ Stage(r)' = "created" /\ Year(r)' = Year(r)
         /\ \A u \in Creators \ {r} : Stage(u)' = Stage(u) /\ Year(u)' = Year(u)
<1>1. creation[r] \in [at : Stages, year : Years]
  BY DEF CommitYear, YearsTypeOK, Stage, None
<1>2. [creation[r] EXCEPT !.at = "created"] \in [at : Stages, year : Years]
  BY <1>1 DEF Stages
<1>3. /\ creation'[r] = [creation[r] EXCEPT !.at = "created"]
      /\ \A u \in Creators \ {r} : creation'[u] = creation[u]
      /\ creation' \in [Creators -> {None} \cup [at : Stages, year : Years]]
  BY <1>2 DEF CommitYear, YearsTypeOK
<1>4. creation'[r].at = "created" /\ creation'[r].year = creation[r].year
  BY <1>1, <1>3
<1>5. Year(r) \in Years
  BY <1>1 DEF Year
<1>6. years' = years \cup {Year(r)}
  BY DEF CommitYear
<1> QED
  BY <1>3, <1>4, <1>5, <1>6 DEF YearsTypeOK, Stage, Year

LEMMA InitReserved == YearsInit => Reserved
<1> SUFFICES ASSUME YearsInit PROVE Reserved
  OBVIOUS
<1>1. \A r \in Creators : creation[r] = None
  BY DEF YearsInit
<1>2. None.at = "idle"
  BY DEF None
<1>3. \A r \in Creators : Stage(r) = "idle"
  BY <1>1, <1>2 DEF Stage
<1>4. YearsTypeOK
  BY DEF YearsInit, YearsTypeOK
<1> QED
  BY <1>3, <1>4 DEF YearsInit, Reserved, YearsAreApart, FreeOfYears, FreeOfOthers

\* A step that brings no creation to its insert takes nothing away.
LEMMA OffTheTable ==
  ASSUME Reserved, YearsTypeOK', NEW r \in Creators, years' = years,
         Stage(r)' \notin {"insert", "commit"},
         \A u \in Creators \ {r} : Stage(u)' = Stage(u) /\ Year(u)' = Year(u)
  PROVE  Reserved'
<1>1. YearsAreApart'
  BY DEF Reserved, YearsAreApart, Overlap
<1>2. FreeOfYears'
  <2> SUFFICES ASSUME NEW u \in Creators, NEW z \in years,
                      z.company = Year(u)'.company,
                      Stage(u)' \in {"insert", "commit"}
               PROVE  /\ ~ Overlap(Year(u)', z)
                      /\ Stage(u)' = "commit" => z.label # Year(u)'.label
    BY DEF FreeOfYears, Overlap
  <2> QED
    BY DEF Reserved, FreeOfYears
<1>3. FreeOfOthers'
  <2> SUFFICES ASSUME NEW v \in Creators, NEW u \in Creators, v # u,
                      Stage(v)' = "commit", Stage(u)' \in {"insert", "commit"},
                      Year(v)'.company = Year(u)'.company
               PROVE  /\ ~ Overlap(Year(v)', Year(u)')
                      /\ Stage(u)' = "commit" => Year(v)'.label # Year(u)'.label
    BY DEF FreeOfOthers, SameCompany, Overlap
  <2> QED
    BY DEF Reserved, FreeOfOthers, SameCompany
<1> QED
  BY <1>1, <1>2, <1>3 DEF Reserved

\* Passing the trigger reserves the range: no row that is inserted meets it.
LEMMA CheckReserves ==
  ASSUME Reserved, NEW r \in Creators, Check(r), Stage(r)' = "insert",
         YearsTypeOK', years' = years, Year(r)' = Year(r),
         \A u \in Creators \ {r} : Stage(u)' = Stage(u) /\ Year(u)' = Year(u)
  PROVE  Reserved'
<1>1. \A z \in years : z.company = Year(r).company => ~ Overlap(Year(r), z)
  <2>1. CASE \E z \in Siblings(Year(r)) : Overlap(Year(r), z)
    <3>1. GotoStage(r, "overlap")
      BY <2>1 DEF Check
    <3>2. Stage(r) \in Stages /\ "overlap" \in Stages
      BY DEF Check, Stages
    <3>3. Stage(r)' = "overlap"
      BY <3>1, <3>2, GotoOne DEF Reserved
    <3> QED
      BY <3>3
  <2> QED
    BY <2>1 DEF Siblings
<1>2. \A u \in Creators \ {r} :
        Stage(u) = "commit" /\ SameCompany(u, r) =>
          ~ Overlap(Year(r), Year(u)) /\ ~ Overlap(Year(u), Year(r))
  BY DEF Check, InsertedYear, SameCompany, Overlap
<1>3. YearsAreApart'
  BY DEF Reserved, YearsAreApart, Overlap
<1>4. FreeOfYears'
  <2> SUFFICES ASSUME NEW u \in Creators, NEW z \in years,
                      z.company = Year(u)'.company,
                      Stage(u)' \in {"insert", "commit"}
               PROVE  /\ ~ Overlap(Year(u)', z)
                      /\ Stage(u)' = "commit" => z.label # Year(u)'.label
    BY DEF FreeOfYears, Overlap
  <2> QED
    BY <1>1 DEF Reserved, FreeOfYears
<1>5. FreeOfOthers'
  <2> SUFFICES ASSUME NEW v \in Creators, NEW u \in Creators, v # u,
                      Stage(v)' = "commit", Stage(u)' \in {"insert", "commit"},
                      Year(v)'.company = Year(u)'.company
               PROVE  /\ ~ Overlap(Year(v)', Year(u)')
                      /\ Stage(u)' = "commit" => Year(v)'.label # Year(u)'.label
    BY DEF FreeOfOthers, SameCompany, Overlap
  <2>1. v # r
    OBVIOUS
  <2> QED
    BY <2>1, <1>2 DEF Reserved, FreeOfOthers, SameCompany
<1> QED
  BY <1>3, <1>4, <1>5 DEF Reserved

\* An insert that goes through has waited for every range and label it meets.
LEMMA InsertReserves ==
  ASSUME Reserved, NEW r \in Creators, InsertYear(r), Stage(r)' = "commit",
         YearsTypeOK', years' = years, Year(r)' = Year(r),
         \A u \in Creators \ {r} : Stage(u)' = Stage(u) /\ Year(u)' = Year(u)
  PROVE  Reserved'
<1>1. \A z \in years : z.company = Year(r).company => z.label # Year(r).label
  <2>1. CASE \E z \in Siblings(Year(r)) : z.label = Year(r).label
    <3>1. GotoStage(r, "duplicate")
      BY <2>1 DEF InsertYear
    <3>2. Stage(r) \in Stages /\ "duplicate" \in Stages
      BY DEF InsertYear, Stages
    <3>3. Stage(r)' = "duplicate"
      BY <3>1, <3>2, GotoOne DEF Reserved
    <3> QED
      BY <3>3
  <2> QED
    BY <2>1 DEF Siblings
<1>2. \A u \in Creators \ {r} :
        Stage(u) \in {"insert", "commit"} /\ SameCompany(u, r) =>
          /\ ~ Overlap(Year(r), Year(u)) /\ ~ Overlap(Year(u), Year(r))
          /\ Stage(u) = "commit" => Year(u).label # Year(r).label
  BY DEF InsertYear, InsertedYear, SameCompany, Overlap
<1>3. YearsAreApart'
  BY DEF Reserved, YearsAreApart, Overlap
<1>4. FreeOfYears'
  <2> SUFFICES ASSUME NEW u \in Creators, NEW z \in years,
                      z.company = Year(u)'.company,
                      Stage(u)' \in {"insert", "commit"}
               PROVE  /\ ~ Overlap(Year(u)', z)
                      /\ Stage(u)' = "commit" => z.label # Year(u)'.label
    BY DEF FreeOfYears, Overlap
  <2>1. Stage(r) = "insert"
    BY DEF InsertYear
  <2> QED
    BY <1>1, <2>1 DEF Reserved, FreeOfYears
<1>5. FreeOfOthers'
  <2> SUFFICES ASSUME NEW v \in Creators, NEW u \in Creators, v # u,
                      Stage(v)' = "commit", Stage(u)' \in {"insert", "commit"},
                      Year(v)'.company = Year(u)'.company
               PROVE  /\ ~ Overlap(Year(v)', Year(u)')
                      /\ Stage(u)' = "commit" => Year(v)'.label # Year(u)'.label
    BY DEF FreeOfOthers, SameCompany, Overlap
  <2> QED
    BY <1>2 DEF Reserved, FreeOfOthers, SameCompany
<1> QED
  BY <1>3, <1>4, <1>5 DEF Reserved

\* A commit turns what kept clear of the row into what keeps clear of the year.
LEMMA CommitKeeps ==
  ASSUME Reserved, NEW r \in Creators, CommitYear(r)
  PROVE  Reserved'
<1>1. /\ YearsTypeOK' /\ years' = years \cup {Year(r)}
      /\ Stage(r)' = "created" /\ Year(r)' = Year(r)
      /\ \A u \in Creators \ {r} : Stage(u)' = Stage(u) /\ Year(u)' = Year(u)
  BY Committed DEF Reserved
<1>2. Stage(r) = "commit"
  BY DEF CommitYear
<1>3. \A z \in years :
        z.company = Year(r).company =>
          /\ ~ Overlap(Year(r), z) /\ ~ Overlap(z, Year(r))
          /\ z.label # Year(r).label
  BY <1>2 DEF Reserved, FreeOfYears, Overlap
<1>4. YearsAreApart'
  <2> SUFFICES ASSUME NEW y \in years \cup {Year(r)}, NEW z \in years \cup {Year(r)},
                      y.company = z.company, y # z
               PROVE  ~ Overlap(y, z) /\ y.label # z.label
    BY <1>1 DEF YearsAreApart, Overlap
  <2> QED
    BY <1>3 DEF Reserved, YearsAreApart
<1>5. \A u \in Creators \ {r} :
        SameCompany(u, r) =>
          /\ Stage(u) \in {"insert", "commit"} => ~ Overlap(Year(u), Year(r))
          /\ Stage(u) = "commit" => Year(r).label # Year(u).label
  BY <1>2 DEF Reserved, FreeOfOthers, SameCompany, Overlap
<1>6. FreeOfYears'
  <2> SUFFICES ASSUME NEW u \in Creators, NEW z \in years \cup {Year(r)},
                      z.company = Year(u)'.company,
                      Stage(u)' \in {"insert", "commit"}
               PROVE  /\ ~ Overlap(Year(u)', z)
                      /\ Stage(u)' = "commit" => z.label # Year(u)'.label
    BY <1>1 DEF FreeOfYears, Overlap
  <2>1. u # r
    BY <1>1
  <2> QED
    BY <1>1, <1>5, <2>1 DEF Reserved, FreeOfYears, SameCompany
<1>7. FreeOfOthers'
  <2> SUFFICES ASSUME NEW v \in Creators, NEW u \in Creators, v # u,
                      Stage(v)' = "commit", Stage(u)' \in {"insert", "commit"},
                      Year(v)'.company = Year(u)'.company
               PROVE  /\ ~ Overlap(Year(v)', Year(u)')
                      /\ Stage(u)' = "commit" => Year(v)'.label # Year(u)'.label
    BY DEF FreeOfOthers, SameCompany, Overlap
  <2>1. v # r /\ u # r
    BY <1>1
  <2> QED
    BY <1>1, <2>1 DEF Reserved, FreeOfOthers, SameCompany
<1> QED
  BY <1>1, <1>4, <1>6, <1>7 DEF Reserved

\* A step by Goto either leaves the table or is one of the two above.
LEMMA StepReserved == Reserved /\ [YearsNext]_yearVars => Reserved'
<1> SUFFICES ASSUME Reserved, [YearsNext]_yearVars PROVE Reserved'
  OBVIOUS
<1>1. ASSUME NEW r \in Creators, NEW y \in Years, BeginYear(r, y) PROVE Reserved'
  BY <1>1, Began, OffTheTable DEF Reserved
<1>2. ASSUME NEW r \in Creators, NEW where \in Stages \ {"insert", "commit"},
             Stage(r) \in Stages, GotoStage(r, where)
      PROVE  Reserved'
  BY <1>2, GotoOne, OffTheTable DEF Reserved
<1>3. ASSUME NEW r \in Creators, Read(r) PROVE Reserved'
  <2>1. Verdict(Year(r)) \in {"duplicate", "overlap", "structure", "check"}
    BY DEF Verdict
  <2>2. /\ Verdict(Year(r)) \in Stages \ {"insert", "commit"}
        /\ Stage(r) \in Stages
    BY <1>3, <2>1 DEF Read, Stages
  <2> QED
    BY <1>2, <1>3, <2>2 DEF Read
<1>4. ASSUME NEW r \in Creators, Check(r) PROVE Reserved'
  <2>1. Stage(r) \in Stages /\ "insert" \in Stages /\ "overlap" \in Stages \ {"insert", "commit"}
    BY <1>4 DEF Check, Stages
  <2>2. CASE GotoStage(r, "overlap")
    BY <1>2, <2>1, <2>2
  <2>3. CASE GotoStage(r, "insert")
    BY <1>4, <2>1, <2>3, GotoOne, CheckReserves DEF Reserved
  <2> QED
    BY <1>4, <2>2, <2>3 DEF Check
<1>5. ASSUME NEW r \in Creators, InsertYear(r) PROVE Reserved'
  <2>1. Stage(r) \in Stages /\ "commit" \in Stages /\ "duplicate" \in Stages \ {"insert", "commit"}
    BY <1>5 DEF InsertYear, Stages
  <2>2. CASE GotoStage(r, "duplicate")
    BY <1>2, <2>1, <2>2
  <2>3. CASE GotoStage(r, "commit")
    BY <1>5, <2>1, <2>3, GotoOne, InsertReserves DEF Reserved
  <2> QED
    BY <1>5, <2>2, <2>3 DEF InsertYear
<1>6. ASSUME NEW r \in Creators, CommitYear(r) PROVE Reserved'
  BY <1>6, CommitKeeps
<1>7. ASSUME NEW r \in Creators, AbortYear(r) PROVE Reserved'
  <2>1. Stage(r) \in Stages /\ "aborted" \in Stages \ {"insert", "commit"}
    BY <1>7 DEF AbortYear, Stages
  <2> QED
    BY <1>2, <1>7, <2>1 DEF AbortYear
<1>8. CASE UNCHANGED yearVars
  BY <1>8 DEF yearVars, Reserved, YearsTypeOK, YearsAreApart, FreeOfYears,
              FreeOfOthers, SameCompany, Stage, Year, Overlap
<1> QED
  BY <1>1, <1>3, <1>4, <1>5, <1>6, <1>7, <1>8 DEF YearsNext

-----------------------------------------------------------------------------

\* fiscal-year.schema.ts: years of a company share neither a day nor a label,
\* however many creations that passed the check on the same reading overlap.
THEOREM YearsStayApart == YearsSpec => []YearsAreApart
<1>1. Reserved => YearsAreApart
  BY DEF Reserved
<1> QED
  BY InitReserved, StepReserved, <1>1, PTL DEF YearsSpec

\* The reason of an answer, as AnswersAreJustified states it.
Reason(r) ==
  /\ Stage(r) = "created" => Year(r) \in years
  /\ Stage(r) = "duplicate" => \E z \in Siblings(Year(r)) : z.label = Year(r).label
  /\ Stage(r) = "overlap" => \E z \in Siblings(Year(r)) : Overlap(Year(r), z)

Justified == YearsTypeOK /\ \A r \in Creators : Reason(r)

\* Rows are never taken away, so a reason stands once it has been found.
LEMMA ReasonStands ==
  ASSUME NEW r \in Creators, Reason(r), years \subseteq years',
         Stage(r)' = Stage(r), Year(r)' = Year(r)
  PROVE  Reason(r)'
<1>1. Siblings(Year(r)) \subseteq Siblings(Year(r))'
  BY DEF Siblings
<1> QED
  BY <1>1 DEF Reason, Overlap

\* A step by Goto whose reason is found keeps all reasons.
LEMMA GotoJustified ==
  ASSUME Justified, NEW r \in Creators, NEW where \in Stages \ {"created"},
         Stage(r) \in Stages, GotoStage(r, where),
         where = "duplicate" =>
           \E z \in Siblings(Year(r)) : z.label = Year(r).label,
         where = "overlap" =>
           \E z \in Siblings(Year(r)) : Overlap(Year(r), z)
  PROVE  Justified'
<1>1. /\ YearsTypeOK' /\ years' = years
      /\ Stage(r)' = where /\ Year(r)' = Year(r)
      /\ \A u \in Creators \ {r} : Stage(u)' = Stage(u) /\ Year(u)' = Year(u)
  BY GotoOne DEF Justified
<1>2. Siblings(Year(r))' = Siblings(Year(r))
  BY <1>1 DEF Siblings
<1>3. Reason(r)'
  BY <1>1, <1>2 DEF Reason, Overlap
<1>4. \A u \in Creators \ {r} : Reason(u)'
  BY <1>1, ReasonStands DEF Justified
<1> QED
  BY <1>1, <1>3, <1>4 DEF Justified

LEMMA StepJustified == Justified /\ [YearsNext]_yearVars => Justified'
<1> SUFFICES ASSUME Justified, [YearsNext]_yearVars PROVE Justified'
  OBVIOUS
<1>1. ASSUME NEW r \in Creators, NEW y \in Years, BeginYear(r, y) PROVE Justified'
  <2>1. /\ YearsTypeOK' /\ years' = years /\ Stage(r)' = "read"
        /\ \A u \in Creators \ {r} : Stage(u)' = Stage(u) /\ Year(u)' = Year(u)
    BY <1>1, Began DEF Justified
  <2>2. Reason(r)'
    BY <2>1 DEF Reason
  <2>3. \A u \in Creators \ {r} : Reason(u)'
    BY <2>1, ReasonStands DEF Justified
  <2> QED
    BY <2>1, <2>2, <2>3 DEF Justified
<1>2. ASSUME NEW r \in Creators, Read(r) PROVE Justified'
  <2>1. /\ Stage(r) \in Stages
        /\ {"duplicate", "overlap", "structure", "check"} \subseteq Stages \ {"created"}
    BY <1>2 DEF Read, Stages
  <2>2. CASE /\ Verdict(Year(r)) = "duplicate"
             /\ \E z \in Siblings(Year(r)) : z.label = Year(r).label
    BY <1>2, <2>1, <2>2, GotoJustified DEF Read
  <2>3. CASE /\ Verdict(Year(r)) = "overlap"
             /\ \E z \in Siblings(Year(r)) : Overlap(Year(r), z)
    BY <1>2, <2>1, <2>3, GotoJustified DEF Read
  <2>4. CASE Verdict(Year(r)) \in {"structure", "check"}
    BY <1>2, <2>1, <2>4, GotoJustified DEF Read
  <2> QED
    BY <2>2, <2>3, <2>4 DEF Verdict
<1>3. ASSUME NEW r \in Creators, Check(r) PROVE Justified'
  <2>1. Stage(r) \in Stages /\ {"insert", "overlap"} \subseteq Stages \ {"created"}
    BY <1>3 DEF Check, Stages
  <2>2. CASE /\ GotoStage(r, "overlap")
             /\ \E z \in Siblings(Year(r)) : Overlap(Year(r), z)
    BY <2>1, <2>2, GotoJustified
  <2>3. CASE GotoStage(r, "insert")
    BY <2>1, <2>3, GotoJustified
  <2> QED
    BY <1>3, <2>2, <2>3 DEF Check
<1>4. ASSUME NEW r \in Creators, InsertYear(r) PROVE Justified'
  <2>1. Stage(r) \in Stages /\ {"commit", "duplicate"} \subseteq Stages \ {"created"}
    BY <1>4 DEF InsertYear, Stages
  <2>2. CASE /\ GotoStage(r, "duplicate")
             /\ \E z \in Siblings(Year(r)) : z.label = Year(r).label
    BY <2>1, <2>2, GotoJustified
  <2>3. CASE GotoStage(r, "commit")
    BY <2>1, <2>3, GotoJustified
  <2> QED
    BY <1>4, <2>2, <2>3 DEF InsertYear
<1>5. ASSUME NEW r \in Creators, CommitYear(r) PROVE Justified'
  <2>1. /\ YearsTypeOK' /\ years' = years \cup {Year(r)}
        /\ Stage(r)' = "created" /\ Year(r)' = Year(r)
        /\ \A u \in Creators \ {r} : Stage(u)' = Stage(u) /\ Year(u)' = Year(u)
    BY <1>5, Committed DEF Justified
  <2>2. Reason(r)'
    BY <2>1 DEF Reason
  <2>3. \A u \in Creators \ {r} : Reason(u)'
    BY <2>1, ReasonStands DEF Justified
  <2> QED
    BY <2>1, <2>2, <2>3 DEF Justified
<1>6. ASSUME NEW r \in Creators, AbortYear(r) PROVE Justified'
  <2>1. Stage(r) \in Stages /\ "aborted" \in Stages \ {"created"}
    BY <1>6 DEF AbortYear, Stages
  <2> QED
    BY <1>6, <2>1, GotoJustified DEF AbortYear
<1>7. CASE UNCHANGED yearVars
  BY <1>7 DEF yearVars, Justified, YearsTypeOK, Reason, Siblings, Stage, Year, Overlap
<1> QED
  BY <1>1, <1>2, <1>3, <1>4, <1>5, <1>6, <1>7 DEF YearsNext

\* Whoever is refused for a conflict meets a year of its own company, and whoever
\* is told "created" has its year.
THEOREM AnswersStayJustified == YearsSpec => []AnswersAreJustified
<1>1. YearsInit => Justified
  <2> SUFFICES ASSUME YearsInit PROVE Justified
    OBVIOUS
  <2>1. \A r \in Creators : Stage(r) = "idle"
    BY DEF YearsInit, Stage, None
  <2> QED
    BY <2>1, InitReserved DEF Justified, Reason, Reserved
<1>2. Justified => AnswersAreJustified
  BY DEF Justified, Reason, AnswersAreJustified
<1> QED
  BY <1>1, <1>2, StepJustified, PTL DEF YearsSpec

-----------------------------------------------------------------------------
(* Provisioning, for any number of processes, users, companies and pieces. *)
(* Nothing is ever taken back, so an administrator that was verified stays *)
(* one; and what a run has passed is complete, so a run after a complete   *)
(* one finds everything it looks for.                                      *)

Bootstraps == {"start", "provision", "verify", "created", "verified", "stopped"}

\* A run of the seed, once there has been one.
SeedRun ==
  [step : {"users", "credential", "companies", "record", "pieces", "done", "dead"},
   left : SUBSET SeedUsers, companies : SUBSET SeedCompanies,
   at : Emailed \cup SeedCompanies, tenant : Nat,
   loaded : [SeedCompanies -> Nat], new : BOOLEAN, again : BOOLEAN]

\* Whoever is an administrator has a user.
Administered ==
  /\ instance \in [Instances -> Bootstraps]
  /\ Admin \in grants => Admin \in users
  /\ ServingMeansAdministrator

ProvisioningTypeOK ==
  /\ created \in [SeedCompanies -> Nat] /\ registry \in [SeedCompanies -> Nat]
  /\ has \in [SeedCompanies -> [1..MaxRuns -> SUBSET Pieces]]
  /\ run \in {[step |-> "none"]} \cup SeedRun

\* What a company needs is there, and the registry leads to it.
Complete(c) == registry[c] # 0 /\ has[c][registry[c]] = Pieces

OfCompanies == run.step \in {"companies", "record", "pieces", "done"}
AtCompany == run.step \in {"record", "pieces"}

\* What a run that is under way or done has behind it.
Behind ==
  /\ run.step # "dead" => SeedUsers \ run.left \subseteq users
  /\ OfCompanies =>
       /\ run.left = {}
       /\ \A c \in SeedCompanies \ run.companies : Complete(c) \/ (AtCompany /\ c = run.at)
  /\ Done => run.companies = {}

\* The tenant a run is at, and those it found recorded when it began.
AtHand ==
  /\ run.step # "dead" =>
       \A c \in SeedCompanies : run.loaded[c] # 0 => registry[c] = run.loaded[c]
  /\ run.step \in {"users", "credential"} => run.companies = SeedCompanies
  /\ AtCompany => run.at \in SeedCompanies \ run.companies /\ run.tenant # 0
  /\ run.step = "record" => run.loaded[run.at] = 0
  /\ run.step = "pieces" => registry[run.at] = run.tenant

\* A run after one that was done finds everything.
FindsAll ==
  run.again =>
    /\ ~ run.new
    /\ SeedUsers \subseteq users
    /\ \A c \in SeedCompanies : Complete(c) /\ run.loaded[c] # 0

Seedable == ProvisioningTypeOK /\ (run.step # "none" => Behind /\ AtHand /\ FindsAll)

-----------------------------------------------------------------------------

LEMMA InitAdministered == ProvisioningInit => Administered
BY DEF ProvisioningInit, Administered, Bootstraps, ServingMeansAdministrator

\* A process goes on, and the tables keep the administrator they have.
LEMMA AdvanceAdministered ==
  ASSUME Administered, NEW i, NEW to \in Bootstraps,
         instance' = [instance EXCEPT ![i] = to],
         users \subseteq users', credentials \subseteq credentials', grants \subseteq grants',
         Admin \in grants' => Admin \in users',
         to \in {"created", "verified"} =>
           Admin \in users' /\ Admin \in credentials' /\ Admin \in grants'
  PROVE  Administered'
<1>1. /\ instance' \in [Instances -> Bootstraps]
      /\ \A j \in Instances : instance'[j] = IF j = i THEN to ELSE instance[j]
  BY DEF Administered
<1> QED
  BY <1>1 DEF Administered, ServingMeansAdministrator

\* Nobody goes on.
LEMMA GrownAdministered ==
  ASSUME Administered, UNCHANGED <<instance, grants>>,
         users \subseteq users', credentials \subseteq credentials'
  PROVE  Administered'
BY DEF Administered, ServingMeansAdministrator

LEMMA StepAdministered ==
  Administered /\ [ProvisioningNext]_provisioningVars => Administered'
<1> SUFFICES ASSUME Administered, [ProvisioningNext]_provisioningVars
             PROVE  Administered'
  OBVIOUS
<1>1. CASE UNCHANGED provisioningVars
  BY <1>1, GrownAdministered DEF provisioningVars
<1>2. ASSUME NEW email \in Emailed,
             SignUp(email) \/ CreateUserAlone(email) \/ SetUserCredential(email)
               \/ ReuseUser(email) \/ SeedUser(email)
      PROVE  Administered'
  BY <1>2, GrownAdministered
     DEF SignUp, CreateUserAlone, SetUserCredential, ReuseUser, SeedUser, Seeds, Seeded
<1>3. ASSUME NEW i \in Instances, Look(i) \/ LoseRace(i) PROVE Administered'
  <2>1. PICK to \in {"verify", "provision"} : instance' = [instance EXCEPT ![i] = to]
    BY <1>3 DEF Look, LoseRace, Advance
  <2>2. UNCHANGED <<users, credentials, grants>>
    BY <1>3 DEF Look, LoseRace, Tables
  <2> QED
    BY <2>1, <2>2, AdvanceAdministered DEF Administered, Bootstraps
<1>4. ASSUME NEW i \in Instances, Provision(i) PROVE Administered'
  <2>1. /\ instance' = [instance EXCEPT ![i] = "created"]
        /\ users' = users \cup {Admin} /\ credentials' = credentials \cup {Admin}
        /\ grants' = grants \cup {Admin}
    BY <1>4 DEF Provision, Advance
  <2> QED
    BY <2>1, AdvanceAdministered DEF Bootstraps
<1>5. ASSUME NEW i \in Instances, VerifyAdmin(i) PROVE Administered'
  <2>1. /\ instance' = [instance EXCEPT ![i] = "verified"]
        /\ Admin \in grants /\ Admin \in credentials
        /\ UNCHANGED <<users, credentials, grants>>
    BY <1>5 DEF VerifyAdmin, Advance, Tables
  <2> QED
    BY <2>1, AdvanceAdministered DEF Bootstraps, Administered
<1>6. ASSUME NEW i, NEW to \in {"start", "stopped"},
             instance' = [instance EXCEPT ![i] = to], UNCHANGED Tables
      PROVE  Administered'
  BY <1>6, AdvanceAdministered DEF Tables, Administered, Bootstraps
<1>7. ASSUME NEW i \in Instances, Stop(i) \/ Restart(i) PROVE Administered'
  BY <1>6, <1>7 DEF Stop, Restart
<1>8. CASE StartSeed \/ DieSeeding
  BY <1>6, <1>8 DEF StartSeed, DieSeeding
<1>9. CASE SeedCredential \/ UsersSeeded \/ RecordTenant \/ TenantSeeded \/ FinishSeed
  BY <1>9, GrownAdministered
     DEF SeedCredential, UsersSeeded, RecordTenant, TenantSeeded, FinishSeed, Seeds
<1>10. ASSUME NEW c \in SeedCompanies, ReuseTenant(c) \/ SeedTenant(c)
       PROVE  Administered'
  BY <1>10, GrownAdministered DEF ReuseTenant, SeedTenant, Seeds
<1>11. ASSUME NEW piece \in Pieces, SeedPiece(piece) PROVE Administered'
  BY <1>11, GrownAdministered DEF SeedPiece, Seeds
<1> QED
  BY <1>1, <1>2, <1>3, <1>4, <1>5, <1>7, <1>8, <1>9, <1>10, <1>11
     DEF ProvisioningNext

LEMMA AdministeredAlways == ProvisioningSpec => []Administered
BY InitAdministered, StepAdministered, PTL DEF ProvisioningSpec

-----------------------------------------------------------------------------

LEMMA InitSeedable == ProvisioningInit => Seedable
BY DEF ProvisioningInit, Seedable, ProvisioningTypeOK

\* What is known of a run that is under way.
LEMMA UnderWay ==
  ASSUME Seedable, run.step \notin {"none", "dead"}
  PROVE  run \in SeedRun /\ Behind /\ AtHand /\ FindsAll
BY DEF Seedable, ProvisioningTypeOK

\* The bootstrap and the people only add users.
LEMMA GrownSeedable ==
  ASSUME Seedable, UNCHANGED <<created, has, registry, run>>, users \subseteq users'
  PROVE  Seedable'
<1>1. ProvisioningTypeOK'
  BY DEF Seedable, ProvisioningTypeOK
<1>2. \A c : Complete(c)' = Complete(c)
  BY DEF Complete
<1>3. Behind => Behind'
  BY <1>2 DEF Behind, OfCompanies, AtCompany, Done
<1>4. AtHand => AtHand'
  BY DEF AtHand, AtCompany
<1>5. FindsAll => FindsAll'
  BY <1>2 DEF FindsAll
<1> QED
  BY <1>1, <1>3, <1>4, <1>5 DEF Seedable

LEMMA StartSeedable == ASSUME Seedable, StartSeed PROVE Seedable'
<1>1. run' = [step |-> "users", left |-> SeedUsers, companies |-> SeedCompanies,
              at |-> Admin, tenant |-> 0, loaded |-> registry,
              new |-> FALSE, again |-> Done]
      /\ UNCHANGED <<users, created, has, registry>>
  BY DEF StartSeed, Tables
<1>2. ProvisioningTypeOK'
  <2>1. Done \in BOOLEAN
    BY DEF Done
  <2> QED
    BY <1>1, <2>1 DEF Seedable, ProvisioningTypeOK, SeedRun, Emailed
<1>3. \A c : Complete(c)' = Complete(c)
  BY <1>1 DEF Complete
<1>4. Behind'
  BY <1>1 DEF Behind, OfCompanies, Done
<1>5. AtHand'
  BY <1>1 DEF AtHand, AtCompany
<1>6. Done => SeedUsers \subseteq users /\ \A c \in SeedCompanies : Complete(c)
  BY UnderWay DEF Behind, OfCompanies, AtCompany, Done
<1>7. FindsAll'
  <2> SUFFICES ASSUME Done
               PROVE  /\ SeedUsers \subseteq users
                      /\ \A c \in SeedCompanies : Complete(c) /\ registry[c] # 0
    BY <1>1, <1>3 DEF FindsAll
  <2> QED
    BY <1>6 DEF Complete
<1> QED
  BY <1>2, <1>4, <1>5, <1>7 DEF Seedable

\* A run that dies says nothing but what it has not created.
LEMMA DieSeedable == ASSUME Seedable, DieSeeding PROVE Seedable'
<1>1. /\ run.step \notin {"none", "dead"} /\ run' = [run EXCEPT !.step = "dead"]
      /\ UNCHANGED <<users, created, has, registry>>
  BY DEF DieSeeding, Seeding, Tables
<1>2. run \in SeedRun /\ Behind /\ AtHand /\ FindsAll
  BY <1>1, UnderWay
<1>3. /\ run' \in SeedRun /\ run'.step = "dead"
      /\ run'.again = run.again /\ run'.new = run.new /\ run'.loaded = run.loaded
  BY <1>1, <1>2 DEF SeedRun
<1>4. ProvisioningTypeOK'
  BY <1>1, <1>3 DEF Seedable, ProvisioningTypeOK
<1>5. Behind' /\ AtHand'
  BY <1>3 DEF Behind, AtHand, OfCompanies, AtCompany, Done
<1>6. FindsAll'
  BY <1>1, <1>2, <1>3 DEF FindsAll, Complete
<1> QED
  BY <1>4, <1>5, <1>6 DEF Seedable

\* The users of the seed: one found is passed, one that is not found is created.
LEMMA UsersSeedable ==
  ASSUME Seedable, NEW email, ReuseUser(email) \/ SeedUser(email)
  PROVE  Seedable'
<1>1. run \in SeedRun /\ Behind /\ AtHand /\ FindsAll /\ run.step = "users"
  BY UnderWay DEF ReuseUser, SeedUser, Seeds
<1>2. /\ email \in run.left /\ email \in SeedUsers /\ email \in users'
      /\ users \subseteq users' /\ UNCHANGED <<created, has, registry>>
  BY <1>1 DEF ReuseUser, SeedUser, SeedRun
<1>3. /\ run' \in SeedRun /\ run'.step \in {"users", "credential"}
      /\ run'.left = run.left \ {email} /\ run'.companies = run.companies
      /\ run'.loaded = run.loaded /\ run'.again = run.again
      /\ run.new = run'.new \/ email \notin users
  BY <1>1, <1>2 DEF ReuseUser, SeedUser, SeedRun, Emailed
<1>4. ProvisioningTypeOK'
  BY <1>2, <1>3 DEF Seedable, ProvisioningTypeOK
<1>5. Behind'
  BY <1>1, <1>2, <1>3 DEF Behind, OfCompanies, Done
<1>6. AtHand'
  BY <1>1, <1>2, <1>3 DEF AtHand, AtCompany
<1>7. FindsAll'
  BY <1>1, <1>2, <1>3 DEF FindsAll, Complete
<1> QED
  BY <1>4, <1>5, <1>6, <1>7 DEF Seedable

\* Between the users and the companies.
LEMMA PassSeedable == ASSUME Seedable, SeedCredential \/ UsersSeeded PROVE Seedable'
<1>1. /\ run \in SeedRun /\ Behind /\ AtHand /\ FindsAll
      /\ run.step \in {"users", "credential"}
  BY UnderWay DEF SeedCredential, UsersSeeded, Seeds
<1>2. UNCHANGED <<users, created, has, registry>>
  BY DEF SeedCredential, UsersSeeded
<1>3. /\ run' \in SeedRun /\ run'.step \in {"users", "companies"}
      /\ run'.step = "companies" => run.left = {}
      /\ run'.left = run.left /\ run'.companies = run.companies
      /\ run'.loaded = run.loaded /\ run'.again = run.again /\ run'.new = run.new
  BY <1>1 DEF SeedCredential, UsersSeeded, SeedRun
<1>4. ProvisioningTypeOK'
  BY <1>2, <1>3 DEF Seedable, ProvisioningTypeOK
<1>5. Behind'
  BY <1>1, <1>2, <1>3 DEF Behind, OfCompanies, Done, AtHand
<1>6. AtHand'
  BY <1>1, <1>2, <1>3 DEF AtHand, AtCompany
<1>7. FindsAll'
  BY <1>1, <1>2, <1>3 DEF FindsAll, Complete
<1> QED
  BY <1>4, <1>5, <1>6, <1>7 DEF Seedable

\* A company is taken up: with the tenant the registry had, or with a new one.
LEMMA TenantSeedable ==
  ASSUME Seedable, NEW c \in SeedCompanies, ReuseTenant(c) \/ SeedTenant(c)
  PROVE  Seedable'
<1>1. run \in SeedRun /\ Behind /\ AtHand /\ FindsAll /\ run.step = "companies"
  BY UnderWay DEF ReuseTenant, SeedTenant, Seeds
<1>2. /\ c \in run.companies /\ UNCHANGED <<users, has, registry>>
      /\ created' \in [SeedCompanies -> Nat]
      /\ SeedTenant(c) => created'[c] # 0 /\ created'[c] \in Nat
  BY DEF ReuseTenant, SeedTenant, Seedable, ProvisioningTypeOK
<1>3. /\ run' \in SeedRun /\ run'.at = c /\ run'.tenant # 0
      /\ run'.left = run.left /\ run'.companies = run.companies \ {c}
      /\ run'.loaded = run.loaded /\ run'.again = run.again
      /\ \/ run'.step = "pieces" /\ run'.tenant = run.loaded[c] /\ run'.new = run.new
         \/ run'.step = "record" /\ run.loaded[c] = 0
  <2>1. CASE ReuseTenant(c)
    <3>1. run' = [run EXCEPT !.step = "pieces", !.at = c, !.tenant = run.loaded[c],
                             !.companies = @ \ {c}]
          /\ run.loaded[c] # 0 /\ run.loaded[c] \in Nat
      BY <1>1, <2>1 DEF ReuseTenant, SeedRun
    <3> QED
      BY <1>1, <3>1 DEF SeedRun
  <2>2. CASE SeedTenant(c)
    <3>1. run' = [run EXCEPT !.step = "record", !.at = c, !.tenant = created'[c],
                             !.companies = @ \ {c}, !.new = TRUE]
          /\ run.loaded[c] = 0
      BY <2>2 DEF SeedTenant
    <3> QED
      BY <1>1, <1>2, <2>2, <3>1 DEF SeedRun
  <2> QED
    BY <2>1, <2>2
<1>4. ProvisioningTypeOK'
  BY <1>2, <1>3 DEF Seedable, ProvisioningTypeOK
<1>5. Behind'
  BY <1>1, <1>2, <1>3 DEF Behind, OfCompanies, AtCompany, Done, Complete
<1>6. AtHand'
  BY <1>1, <1>2, <1>3 DEF AtHand, AtCompany
<1>7. FindsAll'
  BY <1>1, <1>2, <1>3 DEF FindsAll, Complete
<1> QED
  BY <1>4, <1>5, <1>6, <1>7 DEF Seedable

LEMMA RecordSeedable == ASSUME Seedable, RecordTenant PROVE Seedable'
<1>1. run \in SeedRun /\ Behind /\ AtHand /\ FindsAll /\ run.step = "record"
  BY UnderWay DEF RecordTenant, Seeds
<1>2. /\ run.at \in SeedCompanies \ run.companies /\ run.tenant # 0 /\ run.tenant \in Nat
      /\ run.loaded[run.at] = 0 /\ ~ run.again
  BY <1>1 DEF AtHand, AtCompany, FindsAll, SeedRun
<1>3. /\ registry' \in [SeedCompanies -> Nat] /\ registry'[run.at] = run.tenant
      /\ \A c \in SeedCompanies : c # run.at => registry'[c] = registry[c]
      /\ UNCHANGED <<users, created, has>>
  BY <1>2 DEF RecordTenant, Seedable, ProvisioningTypeOK
<1>4. /\ run' \in SeedRun /\ run'.step = "pieces" /\ run'.at = run.at
      /\ run'.tenant = run.tenant /\ run'.left = run.left
      /\ run'.companies = run.companies /\ run'.loaded = run.loaded
      /\ run'.again = run.again
  BY <1>1 DEF RecordTenant, SeedRun
<1>5. ProvisioningTypeOK'
  BY <1>3, <1>4 DEF Seedable, ProvisioningTypeOK
<1>6. Behind'
  BY <1>1, <1>3, <1>4 DEF Behind, OfCompanies, AtCompany, Done, Complete
<1>7. AtHand'
  BY <1>1, <1>2, <1>3, <1>4 DEF AtHand, AtCompany
<1>8. FindsAll'
  BY <1>2, <1>4 DEF FindsAll
<1> QED
  BY <1>5, <1>6, <1>7, <1>8 DEF Seedable

\* A run after one that was done lacks no piece.
LEMMA PieceSeedable ==
  ASSUME Seedable, NEW piece \in Pieces, SeedPiece(piece)
  PROVE  Seedable'
<1>1. run \in SeedRun /\ Behind /\ AtHand /\ FindsAll /\ run.step = "pieces"
  BY UnderWay DEF SeedPiece, Seeds
<1>2. /\ run.at \in SeedCompanies /\ registry[run.at] = run.tenant
      /\ piece \notin has[run.at][run.tenant]
      /\ UNCHANGED <<users, created, registry>>
  BY <1>1 DEF SeedPiece, AtHand, AtCompany
<1>3. ~ run.again
  BY <1>1, <1>2 DEF FindsAll, Complete
<1>4. /\ has' \in [SeedCompanies -> [1..MaxRuns -> SUBSET Pieces]]
      /\ \A c \in SeedCompanies : c # run.at => has'[c] = has[c]
  BY <1>2 DEF SeedPiece, Seedable, ProvisioningTypeOK
<1>5. run' \in SeedRun /\ run' = [run EXCEPT !.new = TRUE]
  BY <1>1 DEF SeedPiece, SeedRun
<1>6. /\ run'.step = "pieces" /\ run'.at = run.at /\ run'.tenant = run.tenant
      /\ run'.left = run.left /\ run'.companies = run.companies
      /\ run'.loaded = run.loaded /\ run'.again = run.again
  BY <1>1, <1>5 DEF SeedRun
<1>7. ProvisioningTypeOK'
  BY <1>2, <1>4, <1>5 DEF Seedable, ProvisioningTypeOK
<1>8. Behind'
  BY <1>1, <1>2, <1>4, <1>6 DEF Behind, OfCompanies, AtCompany, Done, Complete
<1>9. AtHand'
  BY <1>1, <1>2, <1>6 DEF AtHand, AtCompany
<1>10. FindsAll'
  BY <1>3, <1>6 DEF FindsAll
<1> QED
  BY <1>7, <1>8, <1>9, <1>10 DEF Seedable

\* A company is complete, or all of them are.
LEMMA SeededSeedable == ASSUME Seedable, TenantSeeded \/ FinishSeed PROVE Seedable'
<1>1. /\ run \in SeedRun /\ Behind /\ AtHand /\ FindsAll
      /\ run.step \in {"pieces", "companies"}
      /\ UNCHANGED <<users, created, has, registry>>
  BY UnderWay DEF TenantSeeded, FinishSeed, Seeds
<1>2. run.step = "pieces" => Complete(run.at)
  BY <1>1 DEF TenantSeeded, FinishSeed, Seeds, AtHand, AtCompany, Complete
<1>3. /\ run' \in SeedRun /\ run'.step \in {"companies", "done"}
      /\ run'.step = "done" => run.companies = {}
      /\ run'.left = run.left /\ run'.companies = run.companies
      /\ run'.loaded = run.loaded /\ run'.again = run.again /\ run'.new = run.new
  BY <1>1 DEF TenantSeeded, FinishSeed, SeedRun
<1>4. ProvisioningTypeOK'
  BY <1>1, <1>3 DEF Seedable, ProvisioningTypeOK
<1>5. Behind'
  BY <1>1, <1>2, <1>3 DEF Behind, OfCompanies, AtCompany, Done, Complete
<1>6. AtHand'
  BY <1>1, <1>3 DEF AtHand, AtCompany
<1>7. FindsAll'
  BY <1>1, <1>3 DEF FindsAll, Complete
<1> QED
  BY <1>4, <1>5, <1>6, <1>7 DEF Seedable

LEMMA StepSeedable == Seedable /\ [ProvisioningNext]_provisioningVars => Seedable'
<1> SUFFICES ASSUME Seedable, [ProvisioningNext]_provisioningVars PROVE Seedable'
  OBVIOUS
<1>1. CASE UNCHANGED provisioningVars
  BY <1>1, GrownSeedable DEF provisioningVars
<1>2. ASSUME NEW email \in Emailed,
             SignUp(email) \/ CreateUserAlone(email) \/ SetUserCredential(email)
      PROVE  Seedable'
  BY <1>2, GrownSeedable DEF SignUp, CreateUserAlone, SetUserCredential, Seeded
<1>3. ASSUME NEW i \in Instances,
             \/ Look(i) \/ Provision(i) \/ LoseRace(i) \/ VerifyAdmin(i)
             \/ Stop(i) \/ Restart(i)
      PROVE  Seedable'
  BY <1>3, GrownSeedable
     DEF Look, Provision, LoseRace, VerifyAdmin, Stop, Restart, Seeded, Tables
<1> QED
  BY <1>1, <1>2, <1>3, UsersSeedable, StartSeedable, PassSeedable, RecordSeedable,
     TenantSeedable, PieceSeedable, SeededSeedable, DieSeedable DEF ProvisioningNext

\* backend README: whoever serves has an administrator that can sign in, and a
\* second run of the seed changes nothing, however processes race and people
\* sign up meanwhile.
THEOREM ProvisioningStaysRepeatable == ProvisioningSpec => []ProvisioningIsRepeatable
<1>1. ProvisioningSpec => []Seedable
  BY InitSeedable, StepSeedable, PTL DEF ProvisioningSpec
<1>2. Administered /\ Seedable => ProvisioningIsRepeatable
  BY DEF Administered, Seedable, FindsAll, ProvisioningIsRepeatable, RepeatsCreateNothing
<1> QED
  BY AdministeredAlways, <1>1, <1>2, PTL

-----------------------------------------------------------------------------
(* Accounts, for any number of requests and accounts.  The ids are 1..n,   *)
(* an account is on the level below its parent, and no level exceeds its   *)
(* id: so generation n of the tree is what is on the levels up to n + 1,   *)
(* and n generations reach every account.  What a request has loaded is    *)
(* the row of its revision, and the code, the level and the parent of a    *)
(* row never change.                                                       *)

AccountRow ==
  [code : Codes, level : Nat \ {0}, parent : {NoParent} \cup Nat, flags : Flags]

LoadedWork ==
  [step : {"loaded"}, id : Nat, account : AccountRow, revision : Nat, childCount : Nat]

ChartTypeOK ==
  /\ \E n \in Nat : Stored = 1..n
  /\ accounts \in [Stored -> AccountRow]
  /\ editions \in [Stored -> Nat]
  /\ work \in [Editors -> {NoWork} \cup LoadedWork]

\* The level of a row tells how far it is from a root.
LevelsFollowParents ==
  \A id \in Stored :
    /\ accounts[id].level <= id
    /\ IF accounts[id].parent = NoParent THEN accounts[id].level = 1
       ELSE /\ accounts[id].parent \in Stored
            /\ accounts[id].level = accounts[accounts[id].parent].level + 1

CodesDiffer ==
  \A id, other \in Stored : id # other => accounts[id].code # accounts[other].code

\* Two rows that are the same but for their flags.
SamePlace(row, other) ==
  row.code = other.code /\ row.level = other.level /\ row.parent = other.parent

\* What a request has loaded, and would write back.
LoadedRow(loaded) ==
  /\ loaded.id \in Stored
  /\ loaded.revision <= editions[loaded.id]
  /\ SamePlace(loaded.account, accounts[loaded.id])
  /\ loaded.revision = editions[loaded.id] => loaded.account = accounts[loaded.id]

LoadedRows == \A r \in Editors : work[r] # NoWork => LoadedRow(work[r])

Charted ==
  ChartTypeOK /\ LevelsFollowParents /\ CodesDiffer /\ told = accounts /\ LoadedRows

-----------------------------------------------------------------------------

\* The least-number principle, from the well-founded order of the numbers.
LEMMA LeastElement ==
  ASSUME NEW T \in SUBSET Nat, T # {}
  PROVE  \E x \in T : \A y \in T : x <= y
<1>1. PICK less : /\ IsWellFoundedOn(less, Nat)
                  /\ \A x, y \in Nat : y < x => <<y, x>> \in less
  <2> DEFINE Less == OpToRel(<, Nat)
  <2>1. IsWellFoundedOn(Less, Nat)
    BY NatLessThanWellFounded
  <2>2. \A x, y \in Nat : y < x => <<y, x>> \in Less
    BY DEF OpToRel
  <2> HIDE DEF Less
  <2> QED
    BY <2>1, <2>2
<1>2. PICK x \in T : \A y \in T : ~ (<<y, x>> \in less)
  BY <1>1, WFMin
<1>3. \A y \in T : ~ (y < x)
  BY <1>1, <1>2
<1>4. \A y \in T : x <= y
  <2> TAKE y \in T
  <2>1. x \in Nat /\ y \in Nat
    OBVIOUS
  <2> QED
    BY <1>3, <2>1
<1> QED
  BY <1>4

\* Every account is reached: after n generations, those on the levels up to n + 1.
LEMMA LevelsAreReached ==
  ASSUME ChartTypeOK, LevelsFollowParents
  PROVE  Reached = Stored
<1> DEFINE Count == Cardinality(Stored)
           Roots == {id \in Stored : accounts[id].parent = NoParent}
           Below(upper) == {id \in Stored : accounts[id].parent \in upper}
           UpTo(n) == {id \in Stored : accounts[id].level <= n + 1}
           Generations(g) == g = [n \in 0..Count |->
                                    IF n = 0 THEN Roots ELSE g[n - 1] \cup Below(g[n - 1])]
           reached == CHOOSE g : Generations(g)
<1>1. Count \in Nat /\ Stored = 1..Count
  <2>1. PICK n \in Nat : Stored = 1..n
    BY DEF ChartTypeOK
  <2>2. Cardinality(1..n) = n
    BY FS_Interval
  <2> QED
    BY <2>1, <2>2
<1>2. \A id \in Stored : accounts[id].level \in Nat /\ accounts[id].level >= 1
  BY DEF ChartTypeOK, AccountRow
<1>3. UpTo(0) = Roots
  BY <1>2 DEF LevelsFollowParents
<1>4. \A n \in Nat \ {0} : UpTo(n) = UpTo(n - 1) \cup Below(UpTo(n - 1))
  BY <1>2 DEF LevelsFollowParents
<1>5. UpTo(Count) = Stored
  BY <1>1, <1>2 DEF LevelsFollowParents
<1> HIDE DEF Roots, Below, UpTo, Count
<1>6. Generations(reached)
  <2> DEFINE levels == [n \in 0..Count |-> UpTo(n)]
  <2>1. \A n \in 0..Count : n # 0 => n - 1 \in 0..Count
    BY <1>1
  <2>2. Generations(levels)
    BY <1>1, <1>3, <1>4, <2>1
  <2> QED
    BY <2>2
<1> HIDE DEF reached
<1>7. \A n \in 0..Count :
        reached[n] = IF n = 0 THEN Roots ELSE reached[n - 1] \cup Below(reached[n - 1])
  BY <1>6
<1>8. \A n \in 0..Count : reached[n] = UpTo(n)
  <2> DEFINE Wrong == {n \in 0..Count : reached[n] # UpTo(n)}
  <2>1. ASSUME Wrong # {} PROVE FALSE
    <3>1. Wrong \in SUBSET Nat
      BY <1>1
    <3>2. PICK least \in Wrong : \A n \in Wrong : least <= n
      BY <2>1, <3>1, LeastElement
    <3>3. least \in Nat /\ least \in 0..Count /\ reached[least] # UpTo(least)
      BY <3>1, <3>2
    <3>4. least # 0
      BY <1>3, <1>7, <3>3
    <3>5. least - 1 \in 0..Count /\ least - 1 \notin Wrong
      BY <1>1, <3>2, <3>3, <3>4
    <3>6. reached[least - 1] = UpTo(least - 1)
      BY <3>5
    <3> QED
      BY <1>4, <1>7, <3>3, <3>4, <3>6
  <2> QED
    BY <2>1
<1>9. Reached = reached[Count]
  BY DEF Reached, reached, Roots, Below, Count
<1> QED
  BY <1>1, <1>5, <1>8, <1>9

-----------------------------------------------------------------------------

LEMMA InitCharted == ChartInit => Charted
<1> SUFFICES ASSUME ChartInit PROVE Charted
  OBVIOUS
<1>1. Stored = {} /\ told = accounts /\ DOMAIN editions = {}
  BY DEF ChartInit, Stored
<1>2. Stored = 1..0
  BY <1>1
<1>3. accounts \in [Stored -> AccountRow] /\ editions \in [Stored -> Nat]
  BY <1>1 DEF ChartInit, Stored
<1>4. \A r \in Editors : work[r] = NoWork
  BY DEF ChartInit
<1>5. work \in [Editors -> {NoWork} \cup LoadedWork]
  BY DEF ChartInit
<1> QED
  BY <1>1, <1>2, <1>3, <1>4, <1>5
     DEF Charted, ChartTypeOK, LevelsFollowParents, CodesDiffer, LoadedRows

\* A new account gets the next id; the rows there were stay.
LEMMA InsertGrows ==
  ASSUME ChartTypeOK, NEW account \in AccountRow, InsertAccount(account)
  PROVE  /\ NewId \notin Stored /\ Stored' = Stored \cup {NewId}
         /\ \E n \in Nat : Stored = 1..n /\ NewId = n + 1 /\ Stored' = 1..n + 1
         /\ accounts' \in [Stored' -> AccountRow] /\ editions' \in [Stored' -> Nat]
         /\ accounts'[NewId] = account /\ editions'[NewId] = 1
         /\ \A id \in Stored : accounts'[id] = accounts[id] /\ editions'[id] = editions[id]
         /\ told = accounts => told' = accounts'
<1> DEFINE New(f, value) ==
      [id \in Stored \cup {NewId} |-> IF id = NewId THEN value ELSE f[id]]
<1>1. PICK n \in Nat : Stored = 1..n
  BY DEF ChartTypeOK
<1>2. NewId = n + 1
  <2>1. Cardinality(1..n) = n
    BY <1>1, FS_Interval
  <2> QED
    BY <1>1, <2>1 DEF NewId
<1>3. NewId \notin Stored
  BY <1>1, <1>2
<1>4. /\ accounts' = New(accounts, account) /\ told' = New(told, account)
      /\ editions' = New(editions, 1)
  BY DEF InsertAccount
<1>5. Stored' = Stored \cup {NewId}
  BY <1>4 DEF Stored
<1>6. Stored' = 1..n + 1
  BY <1>1, <1>2, <1>5
<1>7. accounts \in [Stored -> AccountRow] /\ editions \in [Stored -> Nat]
  BY DEF ChartTypeOK
<1>8. accounts' \in [Stored' -> AccountRow] /\ editions' \in [Stored' -> Nat]
  BY <1>4, <1>5, <1>7
<1>9. /\ accounts'[NewId] = account /\ editions'[NewId] = 1
      /\ \A id \in Stored : accounts'[id] = accounts[id] /\ editions'[id] = editions[id]
  BY <1>3, <1>4
<1> QED
  BY <1>1, <1>2, <1>3, <1>4, <1>5, <1>6, <1>8, <1>9

\* A row that is on the level below its parent may be inserted, whatever requests
\* have loaded; the request that inserts it may have counted a child.
LEMMA InsertCharted ==
  ASSUME Charted, NEW account \in AccountRow, InsertAccount(account),
         account.parent # NoParent => account.level = accounts[account.parent].level + 1,
         work' \in [Editors -> {NoWork} \cup LoadedWork],
         \A r \in Editors : work'[r] # NoWork =>
           /\ work[r] # NoWork /\ work'[r].id = work[r].id
           /\ work'[r].account = work[r].account /\ work'[r].revision = work[r].revision
  PROVE  Charted'
<1> USE DEF Charted
<1>1. PICK n \in Nat : Stored = 1..n /\ NewId = n + 1 /\ Stored' = 1..n + 1
  BY InsertGrows
<1>2. ChartTypeOK'
  <2>1. \E m \in Nat : Stored' = 1..m
    BY <1>1
  <2>2. accounts' \in [Stored' -> AccountRow] /\ editions' \in [Stored' -> Nat]
    BY InsertGrows
  <2> QED
    BY <2>1, <2>2 DEF ChartTypeOK
<1>3. \A id \in Stored' : id = NewId \/ (id \in Stored /\ id # NewId)
  BY InsertGrows
<1>4. /\ accounts'[NewId] = account
      /\ \A id \in Stored : accounts'[id] = accounts[id] /\ id \in Stored'
  BY InsertGrows
<1>5. /\ account.parent = NoParent => account.level = 1
      /\ account.parent # NoParent => account.parent \in Stored
      /\ \A other \in Stored : accounts[other].code # account.code
  BY DEF InsertAccount
<1>6. LevelsFollowParents'
  <2>1. account.level <= n + 1
    <3>1. CASE account.parent = NoParent
      BY <1>5, <3>1
    <3>2. CASE account.parent # NoParent
      <4>1. /\ account.parent \in 1..n
            /\ accounts[account.parent].level <= account.parent
            /\ accounts[account.parent].level \in Nat
        BY <1>1, <1>5, <3>2 DEF LevelsFollowParents, ChartTypeOK, AccountRow
      <4> QED
        BY <3>2, <4>1
    <3> QED
      BY <3>1, <3>2
  <2> SUFFICES ASSUME NEW id \in Stored'
               PROVE  /\ accounts'[id].level <= id
                      /\ IF accounts'[id].parent = NoParent THEN accounts'[id].level = 1
                         ELSE /\ accounts'[id].parent \in Stored'
                              /\ accounts'[id].level = accounts'[accounts'[id].parent].level + 1
    BY DEF LevelsFollowParents
  <2>2. CASE id = NewId
    BY <1>1, <1>4, <1>5, <2>1, <2>2
  <2>3. CASE id \in Stored
    BY <1>4, <2>3 DEF LevelsFollowParents
  <2> QED
    BY <1>3, <2>2, <2>3
<1>7. CodesDiffer'
  <2> SUFFICES ASSUME NEW id \in Stored', NEW other \in Stored', id # other
               PROVE  accounts'[id].code # accounts'[other].code
    BY DEF CodesDiffer
  <2> QED
    BY <1>3, <1>4, <1>5 DEF CodesDiffer
<1>8. told' = accounts'
  BY InsertGrows
<1>9. LoadedRows'
  <2> SUFFICES ASSUME NEW r \in Editors, work'[r] # NoWork
               PROVE  LoadedRow(work[r])'
    BY DEF LoadedRows
  <2>1. LoadedRow(work[r]) /\ work[r].id \in Stored
    BY DEF LoadedRows, LoadedRow
  <2>2. editions'[work[r].id] = editions[work[r].id]
    BY <2>1, InsertGrows
  <2> QED
    BY <1>4, <2>1, <2>2 DEF LoadedRow, SamePlace
<1> QED
  BY <1>2, <1>6, <1>7, <1>8, <1>9

LEMMA RootCharted ==
  ASSUME Charted, NEW r, NEW code \in Codes, NEW flags \in Flags, CreateRoot(r, code, flags)
  PROVE  Charted'
<1>1. /\ Root(code, flags) \in AccountRow /\ Root(code, flags).parent = NoParent
      /\ InsertAccount(Root(code, flags)) /\ work' = work
  BY DEF CreateRoot, Root, AccountRow
<1> QED
  BY <1>1, InsertCharted DEF Charted, ChartTypeOK

LEMMA ChildRow ==
  ASSUME NEW id \in Nat, NEW parent \in AccountRow, NEW code \in Codes, NEW flags \in Flags
  PROVE  /\ Child(id, parent, code, flags) \in AccountRow
         /\ Child(id, parent, code, flags).parent = id
         /\ Child(id, parent, code, flags).level = parent.level + 1
<1> DEFINE below == parent.level + 1
<1>1. below \in Nat \ {0}
  BY DEF AccountRow
<1>2. Child(id, parent, code, flags) =
        [parent EXCEPT !.code = code, !.level = below, !.parent = id, !.flags = flags]
  BY DEF Child
<1>3. Child(id, parent, code, flags) \in AccountRow
  <2> HIDE DEF below
  <2>1. [parent EXCEPT !.code = code, !.level = below, !.parent = id, !.flags = flags]
          \in AccountRow
    BY <1>1 DEF AccountRow
  <2> QED
    BY <1>2, <2>1
<1> QED
  BY <1>2, <1>3 DEF AccountRow

LEMMA ChildCounted ==
  ASSUME NEW loaded \in LoadedWork
  PROVE  LET counted == [loaded EXCEPT !.childCount = @ + 1] IN
         /\ counted \in LoadedWork /\ counted.id = loaded.id
         /\ counted.account = loaded.account /\ counted.revision = loaded.revision
BY DEF LoadedWork

\* The parent may have been changed meanwhile, but not its level.
LEMMA ChildCharted ==
  ASSUME Charted, NEW r \in Editors, NEW code \in Codes, NEW flags \in Flags,
         CreateChild(r, code, flags)
  PROVE  Charted'
<1> DEFINE account == Child(work[r].id, work[r].account, code, flags)
<1>1. work[r] # NoWork /\ work[r] \in LoadedWork /\ LoadedRow(work[r])
  BY DEF CreateChild, Charted, ChartTypeOK, LoadedRows, NoWork
<1>2. work[r].account \in AccountRow /\ work[r].id \in Nat
  BY <1>1 DEF LoadedWork
<1>3. /\ account \in AccountRow /\ account.parent = work[r].id
      /\ account.level = work[r].account.level + 1
  BY <1>2, ChildRow
<1>4. account.level = accounts[account.parent].level + 1
  BY <1>1, <1>3 DEF LoadedRow, SamePlace
<1>5. InsertAccount(account) /\ work' = [work EXCEPT ![r].childCount = @ + 1]
  BY DEF CreateChild
<1>6. /\ work'[r] \in LoadedWork /\ work'[r].id = work[r].id
      /\ work'[r].account = work[r].account /\ work'[r].revision = work[r].revision
      /\ \A u \in Editors \ {r} : work'[u] = work[u]
  <2>1. /\ work'[r] = [work[r] EXCEPT !.childCount = @ + 1]
        /\ \A u \in Editors \ {r} : work'[u] = work[u]
    BY <1>5 DEF Charted, ChartTypeOK
  <2> QED
    BY <1>1, <2>1, ChildCounted
<1>7. work' \in [Editors -> {NoWork} \cup LoadedWork]
  BY <1>5, <1>6 DEF Charted, ChartTypeOK
<1> HIDE DEF account
<1> QED
  BY <1>1, <1>3, <1>4, <1>5, <1>6, <1>7, InsertCharted

-----------------------------------------------------------------------------

\* An account that is changed keeps its place, and a system account its flags.
LEMMA FlagChanged ==
  ASSUME NEW row \in AccountRow, NEW value \in BOOLEAN, ~ row.flags.system
  PROVE  /\ [row EXCEPT !.flags["postable"] = value] \in AccountRow
         /\ [row EXCEPT !.flags["active"] = value] \in AccountRow
         /\ SamePlace(row, [row EXCEPT !.flags["postable"] = value])
         /\ SamePlace(row, [row EXCEPT !.flags["active"] = value])
BY DEF AccountRow, SamePlace, Flags

\* Rows that keep their places keep the tree and the codes.
LEMMA PlacesKeep ==
  ASSUME LevelsFollowParents, CodesDiffer, Stored' = Stored,
         \A id \in Stored : SamePlace(accounts[id], accounts'[id])
  PROVE  LevelsFollowParents' /\ CodesDiffer'
<1>1. \A id \in Stored : /\ accounts'[id].level = accounts[id].level
                         /\ accounts'[id].parent = accounts[id].parent
                         /\ accounts'[id].code = accounts[id].code
  BY DEF SamePlace
<1>2. LevelsFollowParents'
  BY <1>1 DEF LevelsFollowParents
<1>3. CodesDiffer'
  BY <1>1 DEF CodesDiffer
<1> QED
  BY <1>2, <1>3

\* Where the revision is that of the load, the row is the one that was loaded.
LEMMA UpdateCharted ==
  ASSUME Charted, NEW r \in Editors, NEW flag \in {"postable", "active"},
         NEW value \in BOOLEAN, Changeable(r), UpdateAccount(r, flag, value)
  PROVE  Charted'
<1> DEFINE mine == work[r].id
           row == [work[r].account EXCEPT !.flags[flag] = value]
<1>1. work[r] # NoWork /\ work[r] \in LoadedWork /\ LoadedRow(work[r])
  BY DEF Changeable, Charted, ChartTypeOK, LoadedRows, NoWork
<1>2. /\ mine \in Stored /\ work[r].account = accounts[mine]
      /\ work[r].account \in AccountRow /\ ~ work[r].account.flags.system
  BY <1>1 DEF UpdateAccount, LoadedRow, LoadedWork, Changeable
<1>3. row \in AccountRow /\ SamePlace(accounts[mine], row)
  BY <1>2, FlagChanged
<1>4. /\ accounts' = [accounts EXCEPT ![mine] = row]
      /\ told' = [told EXCEPT ![mine].flags[flag] = value]
      /\ editions' = [editions EXCEPT ![mine] = @ + 1]
      /\ work' = [work EXCEPT ![r] = NoWork]
  BY DEF UpdateAccount
<1>5. told' = accounts'
  BY <1>2, <1>4 DEF Charted
<1> HIDE DEF row
<1>6. /\ Stored' = Stored /\ accounts' \in [Stored -> AccountRow]
      /\ accounts'[mine] = row
      /\ \A id \in Stored : id # mine => accounts'[id] = accounts[id]
  BY <1>2, <1>3, <1>4 DEF Charted, ChartTypeOK, Stored
<1>7. /\ editions' \in [Stored -> Nat] /\ editions'[mine] = editions[mine] + 1
      /\ \A id \in Stored : id # mine => editions'[id] = editions[id]
  BY <1>2, <1>4 DEF Charted, ChartTypeOK
<1>8. work' \in [Editors -> {NoWork} \cup LoadedWork]
  BY <1>4 DEF Charted, ChartTypeOK
<1>9. ChartTypeOK'
  <2>1. \E n \in Nat : Stored' = 1..n
    BY <1>6 DEF Charted, ChartTypeOK
  <2> QED
    BY <1>6, <1>7, <1>8, <2>1 DEF ChartTypeOK
<1>10. \A id \in Stored : SamePlace(accounts[id], accounts'[id])
  BY <1>3, <1>6 DEF SamePlace
<1>11. LevelsFollowParents' /\ CodesDiffer'
  BY <1>6, <1>10, PlacesKeep DEF Charted
<1>12. LoadedRows'
  <2> SUFFICES ASSUME NEW u \in Editors, work'[u] # NoWork
               PROVE  LoadedRow(work[u])'
    BY DEF LoadedRows
  <2>1. work'[u] = work[u] /\ work[u] \in LoadedWork /\ LoadedRow(work[u])
    BY <1>4 DEF Charted, ChartTypeOK, LoadedRows
  <2>2. work[u].id \in Stored' /\ SamePlace(work[u].account, accounts'[work[u].id])
    BY <1>6, <1>10, <2>1 DEF LoadedRow, SamePlace
  <2>3. work[u].revision <= editions[work[u].id]
    BY <2>1 DEF LoadedRow
  <2>4. work[u].revision \in Nat /\ editions[work[u].id] \in Nat /\ editions[mine] \in Nat
    BY <1>2, <2>1 DEF LoadedWork, LoadedRow, Charted, ChartTypeOK
  <2>5. CASE work[u].id = mine
    <3>1. /\ work[u].revision <= editions'[work[u].id]
          /\ work[u].revision # editions'[work[u].id]
      BY <1>7, <2>3, <2>4, <2>5
    <3> QED
      BY <2>1, <2>2, <3>1 DEF LoadedRow
  <2>6. CASE work[u].id # mine
    <3>1. /\ editions'[work[u].id] = editions[work[u].id]
          /\ accounts'[work[u].id] = accounts[work[u].id]
      BY <1>6, <1>7, <2>1, <2>6 DEF LoadedRow
    <3> QED
      BY <2>1, <2>2, <3>1 DEF LoadedRow
  <2> QED
    BY <2>5, <2>6
<1> QED
  BY <1>5, <1>9, <1>11, <1>12 DEF Charted

LEMMA StepCharted == Charted /\ [ChartNext]_chartVars => Charted'
<1> SUFFICES ASSUME Charted, [ChartNext]_chartVars PROVE Charted'
  OBVIOUS
<1>1. ASSUME UNCHANGED <<accounts, editions, told>>,
             work' \in [Editors -> {NoWork} \cup LoadedWork],
             \A r \in Editors : work'[r] # NoWork =>
               work'[r] = work[r] \/ LoadedRow(work'[r])
      PROVE  Charted'
  <2>1. ChartTypeOK'
    BY <1>1 DEF Charted, ChartTypeOK, Stored
  <2>2. LevelsFollowParents' /\ CodesDiffer' /\ told' = accounts'
    BY <1>1 DEF Charted, LevelsFollowParents, CodesDiffer, Stored
  <2>3. \A loaded : LoadedRow(loaded) =>
          /\ loaded.id \in Stored'
          /\ loaded.revision <= editions'[loaded.id]
          /\ SamePlace(loaded.account, accounts'[loaded.id])
          /\ loaded.revision = editions'[loaded.id] => loaded.account = accounts'[loaded.id]
    BY <1>1 DEF LoadedRow, Stored
  <2>4. LoadedRows'
    BY <1>1, <2>3 DEF Charted, LoadedRows, LoadedRow
  <2> QED
    BY <2>1, <2>2, <2>4 DEF Charted
<1>2. CASE UNCHANGED chartVars
  BY <1>1, <1>2 DEF chartVars, Charted, ChartTypeOK
<1>3. ASSUME NEW r \in Editors, GiveUp(r) PROVE Charted'
  BY <1>1, <1>3 DEF GiveUp, Charted, ChartTypeOK
<1>4. ASSUME NEW r \in Editors, NEW id \in Stored, LoadAccount(r, id) PROVE Charted'
  <2> DEFINE loaded == [step |-> "loaded", id |-> id, account |-> accounts[id],
                        revision |-> editions[id], childCount |-> 0]
  <2>1. id \in Nat /\ accounts[id] \in AccountRow /\ editions[id] \in Nat
    BY DEF Charted, ChartTypeOK
  <2>2. loaded \in LoadedWork /\ LoadedRow(loaded)
    BY <2>1 DEF LoadedWork, LoadedRow, SamePlace
  <2>3. work' = [work EXCEPT ![r] = loaded] /\ UNCHANGED <<accounts, editions, told>>
    BY <1>4 DEF LoadAccount
  <2> HIDE DEF loaded
  <2>4. work' \in [Editors -> {NoWork} \cup LoadedWork]
    BY <2>2, <2>3 DEF Charted, ChartTypeOK
  <2>5. \A u \in Editors : work'[u] = work[u] \/ work'[u] = loaded
    BY <2>3 DEF Charted, ChartTypeOK
  <2> QED
    BY <1>1, <2>2, <2>3, <2>4, <2>5
<1>5. ASSUME NEW r \in Editors, NEW code \in Codes, NEW flags \in Flags,
             CreateChild(r, code, flags) \/ CreateRoot(r, code, flags)
      PROVE  Charted'
  BY <1>5, ChildCharted, RootCharted
<1>6. ASSUME NEW r \in Editors, NEW value \in BOOLEAN,
             SetPostable(r, value) \/ SetActive(r, value)
      PROVE  Charted'
  BY <1>6, UpdateCharted DEF SetPostable, SetActive
<1> QED
  BY <1>2, <1>3, <1>4, <1>5, <1>6 DEF ChartNext

\* However requests overlap: the tree can be assembled from its rows, levels
\* follow parents, a code names one account, and no change is lost or told wrongly.
THEOREM ChartsAlwaysStand == ChartSpec => []ChartsStand
<1>1. Charted => ChartsStand
  <2> SUFFICES ASSUME Charted PROVE ChartsStand
    OBVIOUS
  <2>1. Reached = Stored
    BY LevelsAreReached DEF Charted
  <2>2. \A id \in Stored :
          /\ accounts[id] = told[id] /\ accounts[id].flags \in Flags
          /\ accounts[id].parent # NoParent =>
               accounts[id].level = accounts[accounts[id].parent].level + 1
          /\ \A other \in Stored \ {id} : accounts[other].code # accounts[id].code
    BY DEF Charted, ChartTypeOK, AccountRow, LevelsFollowParents, CodesDiffer
  <2> QED
    BY <2>1, <2>2 DEF ChartsStand
<1> QED
  BY InitCharted, StepCharted, <1>1, PTL DEF ChartSpec

-----------------------------------------------------------------------------
(* JalaliCalendar, for any years from 1969 to 2249 and any days of their   *)
(* March.  A date and its Julian day number determine each other; the      *)
(* years of the era that begins in 1210 begin where the cycle of 33 years  *)
(* says; the months fill the year; so a range is planned exactly if it is  *)
(* a Jalali year.                                                          *)

\* The years whose March begins a fiscal year, and the one before.
MarchYears == 1968..2250

\* The days of a year from 1 March on.
SpringDays == 0..365

\* The Julian day number of 1 March.
MarchFirst(year) == 365 * year + year \div 4 - year \div 100 + year \div 400 + 1721120

\* The month, and the day in it, t days after 1 March.
MonthAfter(t) == (((5 * t + 308) \div 153) % 12) + 1
DayAfter(t) == ((5 * t + 308) % 153) \div 5 + 1

\* The days from one 1 March to the next.
YearLength(year) == MarchFirst(year + 1) - MarchFirst(year)

\* The date is that of the day with this Julian day number.
HasNumber(date, jdn) == EpochDays(date) \in Int /\ EpochDays(date) + JDN_OF_UNIX_EPOCH = jdn

\* The first of March has a day number, and so has the next one, a year later.
LEMMA MarchFirstInt ==
  ASSUME NEW year \in MarchYears
  PROVE  /\ year \in Int /\ MarchFirst(year) \in Nat /\ MarchFirst(year + 1) \in Nat
         /\ YearLength(year) \in 365..366
  BY SMT DEF MarchYears, MarchFirst, YearLength

\* The number of a day from March to December, from the first of March.
LEMMA MarchEpoch ==
  ASSUME NEW year \in MarchYears, NEW month \in 3..12, NEW day \in Int
  PROVE  HasNumber(Date(year, month, day),
                   MarchFirst(year) + DAYS_BEFORE_MONTH[month] - 59 + day - 1)
<1>1. (year-1) \div 4 - (year-1) \div 100 + (year-1) \div 400
   + (IF IsLeapYear(year) THEN 1 ELSE 0) = year \div 4 - year \div 100 + year \div 400 
  BY SMT DEF IsLeapYear, MarchYears
<1>2. DAYS_BEFORE_MONTH[month] \in Int
  BY SMT DEF DAYS_BEFORE_MONTH
<1> QED
  BY <1>1, <1>2, SMTT(60) DEF HasNumber, EpochDays, Date,
                              JDN_OF_UNIX_EPOCH, MarchFirst, MarchYears

\* The number of a day of January or February, from the March before.
LEMMA WinterEpoch ==
  ASSUME NEW year \in MarchYears, NEW month \in 1..2, NEW day \in Int
  PROVE  HasNumber(Date(year + 1, month, day),
                   MarchFirst(year) + 306 + DAYS_BEFORE_MONTH[month] + day - 1)
<1>2. DAYS_BEFORE_MONTH[month] \in Int
  BY SMT DEF DAYS_BEFORE_MONTH
<1> QED
  BY <1>2, SMTT(60) DEF HasNumber, EpochDays, Date, JDN_OF_UNIX_EPOCH, MarchFirst, MarchYears

\* The conversion of a day of March gives the number the Date of JavaScript gives.
LEMMA MarchJdn ==
  ASSUME NEW year \in MarchYears, NEW day \in Int
  PROVE  GregorianDayJdn(Date(year, 3, day)) = MarchFirst(year) + day - 1
<1>1. Div(3 - 8, 6) = 0 /\ Div(153 * Mod(3 + 9, 12) + 2, 5) = 0
  BY SMT DEF Div, Mod
<1>2. Div((year + 100100) * 1461, 4) = ((year + 100100) * 1461) \div 4
      /\ Div(Div(year + 100100, 100) * 3, 4) = (((year + 100100) \div 100) * 3) \div 4
  BY SMT DEF Div, MarchYears
<1>3. ((year + 100100) * 1461) \div 4 - 34840408 - (((year + 100100) \div 100) * 3) \div 4 + 752
   = 365 * year + year \div 4 - year \div 100 + year \div 400 + 1721119
  BY SMT DEF MarchYears
<1> QED
  BY <1>1, <1>2, <1>3, SMT DEF GregorianDayJdn, Date, MarchFirst, MarchYears

\* The conversion of a day that is t days after 1 March: t in the year from March on.
LEMMA DateOfNumber ==
  ASSUME NEW year \in MarchYears, NEW t \in 0..365, t < YearLength(year)
  PROVE  JdnToGregorianDay(MarchFirst(year) + t)
           = Date(year + Div(8 - MonthAfter(t), 6), MonthAfter(t), DayAfter(t))
<1> DEFINE jdn == MarchFirst(year) + t
           j == 1461 * (year + 100100) + 4 * t + 3 - (year % 4)
           c == year \div 100
           e == (4 * jdn + 183187720) \div 146097
<1>1. jdn \in Int /\ jdn > 0
  BY SMT DEF MarchFirst, MarchYears
<1>2. /\ Div(4 * jdn + 183187720, 146097) = e
      /\ e \in Nat
  BY <1>1, SMT DEF Div
<1>3. Div(Div(4 * jdn + 183187720, 146097) * 3, 4) = (e * 3) \div 4
  BY <1>2, SMT DEF Div
<1>4. c \in 19..22 /\ year \div 400 = c \div 4
  BY SMT DEF MarchYears
<1>5. MarchFirst(year) = 365 * year + year \div 4 - c + c \div 4 + 1721120
  BY <1>4, SMT DEF MarchFirst, MarchYears
<1>6. 4 * (year \div 4) = year - (year % 4) /\ year \in Int /\ year % 4 \in 0..3
  BY SMT DEF MarchYears
<1>7. e = c + 1301
  BY SMTT(100) DEF MarchFirst, YearLength, MarchYears
<1>8. (((c + 1301) * 3) \div 4) * 4 - 4 * c + 4 * (c \div 4) = 3900
  BY <1>4, SMT
<1> HIDE DEF c, e
<1>9. 4 * jdn + 139361631 + Div(Div(4 * jdn + 183187720, 146097) * 3, 4) * 4 - 3908 = j
  BY <1>3, <1>4, <1>5, <1>6, <1>7, <1>8, SMT
<1>10. 4 * t + 3 - (year % 4) \in 0..1460
  BY SMT DEF MarchFirst, YearLength, MarchYears
<1>11. Div(j, 1461) = year + 100100 /\ Mod(j, 1461) = 4 * t + 3 - (year % 4)
  BY <1>10, SMT DEF Div, Mod, MarchYears
<1>12. Div(Mod(j, 1461), 4) * 5 + 308 = 5 * t + 308
  BY <1>10, <1>11, <1>6, SMT DEF Div
<1>13. /\ Div(5 * t + 308, 153) = (5 * t + 308) \div 153
      /\ Mod((5 * t + 308) \div 153, 12) = ((5 * t + 308) \div 153) % 12
      /\ Div(Mod(5 * t + 308, 153), 5) = ((5 * t + 308) % 153) \div 5
  BY SMT DEF Div, Mod
<1> HIDE DEF jdn, j
<1>14. JdnToGregorianDay(jdn)
           = Date(year + Div(8 - MonthAfter(t), 6), MonthAfter(t), DayAfter(t))
  <2> DEFINE k == 4 * jdn + 139361631 + Div(Div(4 * jdn + 183187720, 146097) * 3, 4) * 4 - 3908
             i == Div(Mod(k, 1461), 4) * 5 + 308
             month == Mod(Div(i, 153), 12) + 1
             shifted == Div(k, 1461) - 100100
  <2>1. JdnToGregorianDay(jdn) = Date(shifted + Div(8 - month, 6), month,
                                      Div(Mod(i, 153), 5) + 1)
    BY SMT DEF JdnToGregorianDay
  <2>2. k = j
    BY <1>9, SMT
  <2>3. i = 5 * t + 308
    BY <2>2, <1>12, SMT
  <2> HIDE DEF k, i
  <2>4. month = MonthAfter(t)
    BY <2>3, <1>13, SMT DEF MonthAfter
  <2>5. Div(Mod(i, 153), 5) + 1 = DayAfter(t)
    BY <2>3, <1>13, SMT DEF DayAfter
  <2>6. shifted = year
    BY <2>2, <1>11, <1>6, SMT
  <2> HIDE DEF month, shifted
  <2> QED BY <2>1, <2>4, <2>5, <2>6, Zenon
<1> QED
  BY <1>14, Zenon DEF jdn

\* The month and day t days after 1 March are those the table of months gives: in the
\* same year up to December, in the next one in January and February.
LEMMA MonthAndDayAfter ==
  ASSUME NEW t \in 0..365
  PROVE  /\ DayAfter(t) \in Int
         /\ t <= 305 => /\ MonthAfter(t) \in 3..12 /\ Div(8 - MonthAfter(t), 6) = 0
                        /\ DAYS_BEFORE_MONTH[MonthAfter(t)] - 59 + DayAfter(t) - 1 = t
         /\ t >= 306 => /\ MonthAfter(t) \in 1..2 /\ Div(8 - MonthAfter(t), 6) = 1
                        /\ 306 + DAYS_BEFORE_MONTH[MonthAfter(t)] + DayAfter(t) - 1 = t
         /\ t <= 30 => MonthAfter(t) = 3 /\ DayAfter(t) = t + 1
<1> DEFINE month == MonthAfter(t)
           day == DayAfter(t)
           q == (5 * t + 308) \div 153
<1>1. q \in 2..13 /\ day \in Int
  BY SMT DEF DayAfter
<1>2. 153 * q <= 5 * t + 308 /\ 5 * t + 308 < 153 * q + 153
  BY SMT
<1>3. (5 * t + 308) % 153 = 5 * t + 308 - 153 * q
  BY SMT
<1>4. day = (5 * t + 308 - 153 * q) \div 5 + 1 /\ month = (q % 12) + 1
  BY <1>3, SMT DEF MonthAfter, DayAfter
<1> HIDE DEF q, month, day
<1>5. CASE t <= 305
  <2>1. q \in 2..11
    BY <1>1, <1>2, <1>5, SMT
  <2>2. month = q + 1
    BY <2>1, <1>4, SMT
  <2>3. Div(8 - month, 6) = 0
    BY <2>1, <2>2, SMT DEF Div
  <2>4. DAYS_BEFORE_MONTH[month] - 59 + day - 1 = t
    <3>1. DAYS_BEFORE_MONTH[q + 1] \in Int /\ q \in Int
      BY <2>1, SMT DEF DAYS_BEFORE_MONTH
    <3>2. DAYS_BEFORE_MONTH[q + 1] - 59 = t - (5 * t + 308 - 153 * q) \div 5
      BY <2>1, <1>2, SMTT(60) DEF DAYS_BEFORE_MONTH
    <3> QED BY <3>1, <3>2, <2>2, <1>4, SMT
  <2>5. t <= 30 => q = 2 /\ day = t + 1
    BY <2>1, <1>2, <1>4, SMT
  <2>6. month \in 3..12
    BY <2>1, <2>2, SMT
  <2>7. t <= 30 => month = 3 /\ day = t + 1
    BY <2>2, <2>5, SMT
  <2>8. ~ (t >= 306)
    BY <1>5, SMT
  <2> QED BY <1>1, <2>3, <2>4, <2>6, <2>7, <2>8, Zenon DEF month, day
<1>6. CASE t >= 306
  <2>1. q \in 12..13
    BY <1>1, <1>2, <1>6, SMT
  <2>2. month = q - 11
    BY <2>1, <1>4, SMT
  <2>3. Div(8 - month, 6) = 1
    BY <2>1, <2>2, SMT DEF Div
  <2>4. 306 + DAYS_BEFORE_MONTH[month] + day - 1 = t
    <3>1. DAYS_BEFORE_MONTH[q - 11] \in Int /\ q \in Int
      BY <2>1, SMT DEF DAYS_BEFORE_MONTH
    <3>2. 306 + DAYS_BEFORE_MONTH[q - 11] = t - (5 * t + 308 - 153 * q) \div 5
      BY <2>1, <1>2, SMTT(60) DEF DAYS_BEFORE_MONTH
    <3> QED BY <3>1, <3>2, <2>2, <1>4, SMT
  <2>5. month \in 1..2
    BY <2>1, <2>2, SMT
  <2>6. ~ (t <= 305) /\ ~ (t <= 30)
    BY <1>6, SMT
  <2> QED BY <1>1, <2>3, <2>4, <2>5, <2>6, Zenon DEF month, day
<1>7. t <= 305 \/ t >= 306
  BY SMT
<1> QED BY <1>5, <1>6, <1>7, Zenon

\* A day number converts to the date that has it.
LEMMA DayHasItsNumber ==
  ASSUME NEW year \in MarchYears, NEW t \in SpringDays, t < YearLength(year),
         NEW jdn, jdn = MarchFirst(year) + t
  PROVE  /\ HasNumber(JdnToGregorianDay(jdn), jdn)
         /\ JdnToGregorianDay(jdn).year = IF t <= 305 THEN year ELSE year + 1
         /\ t <= 30 => JdnToGregorianDay(jdn) = Date(year, 3, t + 1)
<1> DEFINE month == MonthAfter(t)
           day == DayAfter(t)
<1>0. t \in 0..365
  BY Zenon DEF SpringDays
<1>1. JdnToGregorianDay(jdn) = Date(year + Div(8 - month, 6), month, day)
  BY <1>0, DateOfNumber, Zenon
<1>2. /\ day \in Int
      /\ t <= 305 => /\ month \in 3..12 /\ Div(8 - month, 6) = 0
                     /\ DAYS_BEFORE_MONTH[month] - 59 + day - 1 = t
      /\ t >= 306 => /\ month \in 1..2 /\ Div(8 - month, 6) = 1
                     /\ 306 + DAYS_BEFORE_MONTH[month] + day - 1 = t
      /\ t <= 30 => month = 3 /\ day = t + 1
  BY <1>0, MonthAndDayAfter, Zenon
<1>3. MarchFirst(year) \in Int /\ year \in Int
  BY MarchFirstInt, <1>0, SMT
<1> HIDE DEF month, day
<1>5. CASE t <= 305
  <2>1. JdnToGregorianDay(jdn) = Date(year, month, day)
    <3>1. year + 0 = year
      BY <1>3, <1>0, SMT
    <3> QED BY <1>1, <1>2, <1>5, <3>1, <1>0, SMT
  <2>2. HasNumber(Date(year, month, day),
                  MarchFirst(year) + DAYS_BEFORE_MONTH[month] - 59 + day - 1)
    BY <1>2, <1>5, MarchEpoch, Zenon
  <2>3. DAYS_BEFORE_MONTH[month] \in Int
    BY <1>2, <1>5, <1>0, SMT DEF DAYS_BEFORE_MONTH
  <2>4. MarchFirst(year) + DAYS_BEFORE_MONTH[month] - 59 + day - 1 = jdn
    BY <2>3, <1>2, <1>3, <1>5, <1>0, SMT
  <2>5. t <= 30 => JdnToGregorianDay(jdn) = Date(year, 3, t + 1)
    BY <2>1, <1>2, Zenon
  <2> QED BY <2>1, <2>2, <2>4, <2>5, <1>5, <1>0, SMT DEF Date
<1>6. CASE t >= 306
  <2>1. JdnToGregorianDay(jdn) = Date(year + 1, month, day)
    BY <1>1, <1>2, <1>6, Zenon
  <2>2. HasNumber(Date(year + 1, month, day),
                  MarchFirst(year) + 306 + DAYS_BEFORE_MONTH[month] + day - 1)
    BY <1>2, <1>6, WinterEpoch, Zenon
  <2>3. DAYS_BEFORE_MONTH[month] \in Int
    BY <1>2, <1>6, <1>0, SMT DEF DAYS_BEFORE_MONTH
  <2>4. MarchFirst(year) + 306 + DAYS_BEFORE_MONTH[month] + day - 1 = jdn
    BY <2>3, <1>2, <1>3, <1>6, <1>0, SMT
  <2> QED BY <2>1, <2>2, <2>4, <1>6, <1>0, SMT DEF Date
<1>7. t <= 305 \/ t >= 306
  BY <1>0, SMT
<1> QED BY <1>5, <1>6, <1>7, Zenon

-----------------------------------------------------------------------------
(* The years of the calendar.                                              *)

\* The years in which the theorem plans, the year before and the year after.
KnownYears == 1347..1629

\* The Julian day number of 1 Farvardin, by the leap years since 1210.
Farvardin(jYear) ==
  365 * jYear + ((jYear - 1210) \div 33) * 8 + (((jYear - 1210) % 33) + 3) \div 4 + 1948248

LeapYears == {1, 5, 9, 13, 17, 22, 26, 30}

\* Division that goes toward zero is division down on numbers that are not negative.
LEMMA LeapsAre ==
  ASSUME NEW elapsed \in Nat, NEW rest \in Nat
  PROVE  Leaps(elapsed, rest) = (elapsed \div 33) * 8 + ((elapsed % 33) + rest) \div 4
<1>1. Div(elapsed, 33) = elapsed \div 33 /\ Mod(elapsed, 33) = elapsed % 33
      /\ elapsed % 33 \in Nat
  BY SMT DEF Div, Mod
<1>2. Div((elapsed % 33) + rest, 4) = ((elapsed % 33) + rest) \div 4
  BY <1>1, SMT DEF Div
<1> QED
  BY <1>1, <1>2, SMT DEF Leaps

\* The leap years of the ten eras before the year 1210: the recursion has one value, as
\* the table below satisfies it.
LEMMA EarlierEras == LeapsBefore[11] = 308
<1> DEFINE eras == 1..(Len(BREAKS) - 1)
           Total(f) == [era \in eras |-> IF era = 1 THEN 0
                                         ELSE f[era - 1] + Leaps(Jump(era - 1), 0)]
           Of == <<17, 7, 39, 55, 63, 17, 15, 71, 17, 7, 103, 103, 9, 23, 17, 15, 17, 15, 175>>
           Sums == <<0, 17, 24, 63, 118, 181, 198, 213, 284, 301, 308, 411, 514, 523, 546,
                     563, 578, 595, 610>>
           table == [era \in 1..19 |-> Sums[era]]
<1>1. eras = 1..19 /\ \A era \in 1..19 : Jump(era) \in Nat
  BY SMT DEF BREAKS, Jump
<1>2. \A era \in 1..19 : Leaps(Jump(era), 0) = Of[era]
  <2>1. 0 \in Nat
    OBVIOUS
  <2>2. \A era \in 1..19 : Leaps(Jump(era), 0)
          = (Jump(era) \div 33) * 8 + ((Jump(era) % 33) + 0) \div 4
    BY <1>1, <2>1, LeapsAre, Zenon
  <2>3. \A era \in 1..19 : (Jump(era) \div 33) * 8 + ((Jump(era) % 33) + 0) \div 4 = Of[era]
    BY SMT DEF BREAKS, Jump
  <2> QED BY <2>2, <2>3, Zenon
<1>3. \A era \in 1..19 : Sums[era] = IF era = 1 THEN 0 ELSE Sums[era - 1] + Of[era - 1]
  BY SMT
<1> HIDE DEF Of, Sums
<1>4. table = Total(table)
  <2>1. ASSUME NEW era \in 1..19, era # 1
        PROVE  era - 1 \in 1..19
    BY <2>1, SMT
  <2>2. ASSUME NEW era \in 1..19, era # 1
        PROVE  Sums[era] = table[era - 1] + Leaps(Jump(era - 1), 0)
    BY <2>1, <2>2, <1>2, <1>3, Zenon
  <2>3. Sums[1] = 0
    BY <1>3, SMT
  <2>4. \A era \in 1..19 :
          Sums[era] = IF era = 1 THEN 0 ELSE table[era - 1] + Leaps(Jump(era - 1), 0)
    BY <2>2, <2>3, Zenon
  <2> QED BY <1>1, <2>4, Zenon
<1> HIDE DEF table
<1>5. LeapsBefore = CHOOSE f : f = Total(f)
  BY Zenon DEF LeapsBefore
<1>6. LeapsBefore = Total(LeapsBefore)
  BY <1>4, <1>5, Zenon
<1> HIDE DEF eras
<1>7. \A era \in 1..19 : LeapsBefore[era]
        = IF era = 1 THEN 0 ELSE LeapsBefore[era - 1] + Leaps(Jump(era - 1), 0)
  BY <1>1, <1>6, Zenon
<1>9. \A era \in 1..10 : LeapsBefore[era + 1] = LeapsBefore[era] + Of[era]
  <2> TAKE era \in 1..10
  <2>1. era + 1 \in 1..19 /\ era + 1 # 1 /\ (era + 1) - 1 = era /\ era \in 1..19
    BY SMT
  <2> QED BY <2>1, <1>2, <1>7, Zenon
<1>10. LeapsBefore[1] = 0
  BY <1>7, SMT
<1>8. Of[1] = 17 /\ Of[2] = 7 /\ Of[3] = 39 /\ Of[4] = 55 /\ Of[5] = 63 /\ Of[6] = 17
      /\ Of[7] = 15 /\ Of[8] = 71 /\ Of[9] = 17 /\ Of[10] = 7
  BY SMT DEF Of
<1> QED
  BY <1>8, <1>9, <1>10, SMT

\* What the code computes of a year, in the era that begins in 1210: where it begins,
\* and its place among the leap years of the cycle of 33.
LEMMA YearInfo ==
  ASSUME NEW jYear \in KnownYears
  PROVE  /\ JalaliYearInfo(jYear).marchJdn = Farvardin(jYear)
         /\ JalaliYearInfo(jYear).leap = 0 <=> jYear % 33 \in LeapYears
         /\ JalaliYearInfo(jYear).leap = 1 <=> (jYear - 1) % 33 \in LeapYears
<1> DEFINE since == jYear - 1210
           era == CHOOSE k \in 1..(Len(BREAKS) - 1) :
                    BREAKS[k] <= jYear /\ jYear < BREAKS[k + 1]
           jump == Jump(era)
           n == jYear - BREAKS[era]
           leapJ == LeapsBefore[era] + Leaps(n, 3) - 14
                      + (IF Mod(jump, 33) = 4 /\ jump - n = 4 THEN 1 ELSE 0)
           year == jYear + 621
           leapG == Div(year, 4) - Div((Div(year, 100) + 1) * 3, 4) - 150
           position == IF jump - n < 6 THEN n - jump + Div(jump + 4, 33) * 33 ELSE n
           leap == Mod(Mod(position + 1, 33) - 1, 4)
<1>1. JalaliYearInfo(jYear) = [leap |-> IF leap = -1 THEN 4 ELSE leap,
                               marchJdn |-> GregorianDayJdn(Date(year, 3, 20 + leapJ - leapG))]
  BY SMT DEF JalaliYearInfo
<1>2. era = 11
  <2>1. Len(BREAKS) - 1 = 19
    BY SMT DEF BREAKS
  <2>2. \A k \in 1..19 : (BREAKS[k] <= jYear /\ jYear < BREAKS[k + 1]) <=> k = 11
    BY SMT DEF BREAKS, KnownYears
  <2>3. 11 \in 1..19
    BY SMT
  <2> QED BY <2>1, <2>2, <2>3, Zenon
<1> HIDE DEF era
<1>3. jump = 425 /\ n = since
  BY <1>2, SMT DEF Jump, BREAKS
<1>4. leapJ = 294 + Leaps(since, 3)
  <2>1. Mod(425, 33) # 4
    BY SMT DEF Mod, Div
  <2> HIDE DEF jump, n, since
  <2>2. leapJ = LeapsBefore[11] + Leaps(since, 3) - 14 + 0
    BY <1>2, <1>3, <2>1, SMT
  <2>3. Leaps(since, 3) \in Int
    BY SMT DEF Leaps, Div, Mod, KnownYears, since
  <2> QED BY <2>2, <2>3, EarlierEras, SMT
<1>5. Leaps(since, 3) = (since \div 33) * 8 + ((since % 33) + 3) \div 4
  <2>1. since \in Nat /\ 3 \in Nat
    BY SMT DEF KnownYears
  <2> HIDE DEF since
  <2> QED BY <2>1, LeapsAre, Zenon
<1>6. leapG = year \div 4 - ((year \div 100 + 1) * 3) \div 4 - 150
  BY SMT DEF Div, KnownYears
<1> HIDE DEF leapJ, leapG
<1>7. GregorianDayJdn(Date(year, 3, 20 + leapJ - leapG))
        = MarchFirst(year) + 20 + leapJ - leapG - 1
  <2> DEFINE day == 20 + leapJ - leapG
  <2>1. year \in MarchYears
    BY SMT DEF KnownYears, MarchYears
  <2>2. leapJ \in Int /\ leapG \in Int
    BY <1>4, <1>5, <1>6, SMT DEF KnownYears
  <2>3. MarchFirst(year) \in Int
    BY <2>1, MarchFirstInt, SMT
  <2>4. day \in Int /\ MarchFirst(year) + 20 + leapJ - leapG - 1 = MarchFirst(year) + day - 1
    BY <2>2, <2>3, SMT
  <2> HIDE DEF day, year
  <2>5. GregorianDayJdn(Date(year, 3, day)) = MarchFirst(year) + day - 1
    BY <2>1, <2>4, MarchJdn, SMT
  <2> QED BY <2>4, <2>5, Zenon DEF day
<1>8. MarchFirst(year) + 20 + leapJ - leapG - 1 = Farvardin(jYear)
  BY <1>4, <1>5, <1>6, SMT DEF Farvardin, MarchFirst, KnownYears
<1>9. position = jYear - 1210
  BY <1>3, SMT DEF KnownYears
<1>10. leap = IF (jYear - 1209) % 33 = 0 THEN -1 ELSE (((jYear - 1209) % 33) - 1) % 4
  <2> DEFINE m == Mod(position + 1, 33)
  <2>1. m = (jYear - 1209) % 33 /\ m \in 0..32
    BY <1>9, SMT DEF Div, Mod, KnownYears
  <2> HIDE DEF m
  <2>2. CASE m = 0
    <3>1. Mod(m - 1, 4) = -1
      BY <2>2, SMT DEF Mod, Div
    <3> QED BY <2>1, <2>2, <3>1, SMT DEF m
  <2>3. CASE m # 0
    <3>1. Mod(m - 1, 4) = (m - 1) % 4
      BY <2>1, <2>3, SMT DEF Mod, Div
    <3> QED BY <2>1, <2>3, <3>1, SMT DEF m
  <2> QED BY <2>2, <2>3
<1> HIDE DEF leap
<1>11. leap = 0 <=> jYear % 33 \in LeapYears
  BY <1>10, SMT DEF LeapYears, KnownYears
<1>12. leap = 1 <=> (jYear - 1) % 33 \in LeapYears
  BY <1>10, SMT DEF LeapYears, KnownYears
<1> HIDE DEF jump, n, position, year
<1> QED
  BY <1>1, <1>7, <1>8, <1>11, <1>12, SMT

\* The day that a leap year has more.
LeapDay(jYear) == IF jYear % 33 \in LeapYears THEN 1 ELSE 0

\* A year of the calendar is as long as its place in the cycle says, and begins in the
\* third week of March.
LEMMA YearsFollow ==
  ASSUME NEW jYear \in KnownYears
  PROVE  /\ Farvardin(jYear) \in Nat
         /\ LeapDay(jYear) \in 0..1
         /\ Farvardin(jYear + 1) = Farvardin(jYear) + 365 + LeapDay(jYear)
         /\ Farvardin(jYear) - MarchFirst(jYear + 621) \in 19..21
<1>1. Farvardin(jYear) \in Nat
  BY SMT DEF Farvardin, KnownYears
<1>2. LeapDay(jYear) \in 0..1 /\ Farvardin(jYear + 1) = Farvardin(jYear) + 365 + LeapDay(jYear)
  BY SMTT(60) DEF Farvardin, KnownYears, LeapYears, LeapDay
<1>3. Farvardin(jYear) - MarchFirst(jYear + 621) \in 19..21
  BY SMTT(100) DEF Farvardin, KnownYears, MarchFirst
<1> QED BY <1>1, <1>2, <1>3, Zenon

\* The years the cycle is counted in, and the leap ones among those before a year.
AgreedYears == 1348..1629
LeapYearsTo(jYear) == {y \in 1348..(jYear - 1) : y % 33 \in LeapYears}

\* The count of the leap years of the cycle has a closed form: a year without it would
\* have a least one, and the year before that one differs by its own leap day alone.
LEMMA LeapYearsCount ==
  ASSUME NEW jYear \in AgreedYears
  PROVE  /\ Cardinality(LeapYearsTo(jYear)) \in Nat
         /\ Cardinality(LeapYearsTo(jYear + 1))
              = Cardinality(LeapYearsTo(jYear)) + LeapDay(jYear)
<1> DEFINE before == LeapYearsTo(jYear)
           after == LeapYearsTo(jYear + 1)
           earlier == 1348..(jYear - 1)
<1>1. 1348 \in Int /\ jYear - 1 \in Int
  BY SMT DEF AgreedYears
<1>2. IsFiniteSet(earlier)
  BY <1>1, FS_Interval, SMT
<1>3. before \subseteq earlier
  BY SMT DEF LeapYearsTo
<1>4. jYear % 33 \in LeapYears => after = before \cup {jYear} /\ jYear \notin before
  BY SMT DEF LeapYearsTo, AgreedYears
<1>5. jYear % 33 \notin LeapYears => after = before
  BY SMT DEF LeapYearsTo, AgreedYears
<1> HIDE DEF before, after, earlier
<1>6. IsFiniteSet(before)
  BY <1>2, <1>3, FS_Subset, Zenon
<1>7. Cardinality(before) \in Nat
  BY <1>6, FS_CardinalityType, Zenon
<1>8. jYear \notin before => Cardinality(before \cup {jYear}) = Cardinality(before) + 1
  BY <1>6, FS_AddElement, Zenon
<1>9. CASE jYear % 33 \in LeapYears
  <2>1. Cardinality(after) = Cardinality(before) + 1 /\ LeapDay(jYear) = 1
    BY <1>4, <1>8, <1>9, Zenon DEF LeapDay
  <2> QED BY <1>7, <2>1, Zenon DEF before, after
<1>10. CASE jYear % 33 \notin LeapYears
  <2>1. Cardinality(after) = Cardinality(before) + 0 /\ LeapDay(jYear) = 0
    BY <1>5, <1>7, <1>10, SMT DEF LeapDay
  <2> QED BY <1>7, <2>1, Zenon DEF before, after
<1> QED BY <1>9, <1>10

\* The first days the property counts by the cycle are those the calendar computes.
LEMMA NowruzIsFarvardin ==
  ASSUME NEW jYear \in AgreedYears
  PROVE  Nowruz(jYear) \in Int /\ Nowruz(jYear) + JDN_OF_UNIX_EPOCH = Farvardin(jYear)
<1> DEFINE epoch == EpochDays(Date(1969, 3, 21))
           Agrees(y) == Nowruz(y) + JDN_OF_UNIX_EPOCH = Farvardin(y)
           Wrong == {i \in 0..281 : ~ Agrees(1348 + i)}
<1>1. \A y : Nowruz(y) = epoch + 365 * (y - 1348) + Cardinality(LeapYearsTo(y))
  BY SMT DEF Nowruz, LeapYears, LeapYearsTo
<1>2. epoch + JDN_OF_UNIX_EPOCH = 2440302 /\ epoch \in Int /\ JDN_OF_UNIX_EPOCH \in Int
  BY SMT DEF EpochDays, Date, JDN_OF_UNIX_EPOCH, DAYS_BEFORE_MONTH, IsLeapYear
<1> HIDE DEF epoch
<1>3. Agrees(1348)
  <2>1. Farvardin(1348) = 2440302
    BY SMT DEF Farvardin
  <2>2. LeapYearsTo(1348) = {}
    BY SMT DEF LeapYearsTo
  <2>3. Nowruz(1348) = epoch + 365 * (1348 - 1348) + 0
    BY <1>1, <2>2, FS_EmptySet, SMT
  <2> QED BY <1>2, <2>1, <2>3, SMT
<1>4. ASSUME NEW y \in AgreedYears, Agrees(y) PROVE Agrees(y + 1)
  <2> DEFINE count == Cardinality(LeapYearsTo(y))
  <2>1. count \in Nat /\ Cardinality(LeapYearsTo(y + 1)) = count + LeapDay(y)
    BY LeapYearsCount, Zenon
  <2>2. y \in KnownYears /\ y \in Int
    BY SMT DEF KnownYears, AgreedYears
  <2>3. /\ Farvardin(y) \in Nat /\ LeapDay(y) \in 0..1
        /\ Farvardin(y + 1) = Farvardin(y) + 365 + LeapDay(y)
    BY <2>2, YearsFollow, Zenon
  <2>4. /\ Nowruz(y) = epoch + 365 * (y - 1348) + count
        /\ Nowruz(y + 1) = epoch + 365 * ((y + 1) - 1348) + (count + LeapDay(y))
    BY <1>1, <2>1, SMT
  <2> HIDE DEF count
  <2> QED BY <1>2, <1>4, <2>1, <2>2, <2>3, <2>4, SMT
<1> HIDE DEF Agrees
<1>5. Wrong = {}
  <2> SUFFICES ASSUME Wrong # {} PROVE FALSE
    OBVIOUS
  <2>1. Wrong \in SUBSET Nat
    BY SMT
  <2> HIDE DEF Wrong
  <2>2. PICK least \in Wrong : \A z \in Wrong : least <= z
    BY <2>1, LeastElement, Zenon
  <2>3. least \in 1..281 /\ ~ Agrees(1348 + least)
    BY <1>3, <2>2, SMT DEF Wrong
  <2>4. least - 1 \notin Wrong
    BY <2>1, <2>2, <2>3, SMT
  <2>5. Agrees(1348 + (least - 1))
    BY <2>3, <2>4, SMT DEF Wrong
  <2>6. 1348 + (least - 1) \in AgreedYears /\ (1348 + (least - 1)) + 1 = 1348 + least
    BY <2>3, SMT DEF AgreedYears
  <2>7. \A y \in AgreedYears : Agrees(y) => Agrees(y + 1)
    BY <1>4, Zenon
  <2> DEFINE prior == 1348 + (least - 1)
  <2>8. prior \in AgreedYears /\ Agrees(prior)
    BY <2>5, <2>6, SMT
  <2>9. prior + 1 = 1348 + least
    BY <2>6, SMT
  <2> HIDE DEF prior
  <2>10. Agrees(prior + 1)
    BY <2>7, <2>8, Zenon
  <2> QED BY <2>3, <2>9, <2>10, SMT
<1>6. jYear - 1348 \in 0..281 /\ 1348 + (jYear - 1348) = jYear
  BY SMT DEF AgreedYears
<1>7. Agrees(1348 + (jYear - 1348))
  BY <1>5, <1>6, SMT
<1>8. Cardinality(LeapYearsTo(jYear)) \in Nat
  BY LeapYearsCount, Zenon
<1>9. Nowruz(jYear) \in Int
  BY <1>1, <1>2, <1>8, SMT DEF AgreedYears
<1> QED BY <1>6, <1>7, <1>9, SMT DEF Agrees

-----------------------------------------------------------------------------
(* Days of a year.                                                         *)

\* The years with a year after them, and the days of one, from 0 on.
WholeYears == 1347..1628
DaysOf(jYear) == 0..(364 + LeapDay(jYear))

\* The year whose first day a day is compared with, the days between them, and the
\* dates in its two halves.
YearOf(jdn) == JdnToGregorianDay(jdn).year - 621
DaysSince(jdn) == jdn - JalaliYearInfo(YearOf(jdn)).marchJdn
EarlyDate(jYear, k) == JalaliDate(jYear, Div(k, 31) + 1, Mod(k, 31) + 1)
LateDate(jYear, late) == JalaliDate(jYear, Div(late, 30) + 7, Mod(late, 30) + 1)

\* The cases of the conversion of a day number.
LEMMA ConversionCases ==
  ASSUME NEW jdn, DaysSince(jdn) \in Int
  PROVE  /\ DaysSince(jdn) \in 0..185 =>
              DayNumberToJalali(jdn) = EarlyDate(YearOf(jdn), DaysSince(jdn))
         /\ DaysSince(jdn) >= 186 =>
              DayNumberToJalali(jdn) = LateDate(YearOf(jdn), DaysSince(jdn) - 186)
         /\ DaysSince(jdn) < 0 /\ JalaliYearInfo(YearOf(jdn)).leap = 1 =>
              DayNumberToJalali(jdn) = LateDate(YearOf(jdn) - 1, DaysSince(jdn) + 180)
         /\ DaysSince(jdn) < 0 /\ JalaliYearInfo(YearOf(jdn)).leap # 1 =>
              DayNumberToJalali(jdn) = LateDate(YearOf(jdn) - 1, DaysSince(jdn) + 179)
<1> DEFINE jYear == YearOf(jdn)
           info == JalaliYearInfo(jYear)
           k == DaysSince(jdn)
           late == CASE k >= 0 -> k - 186
                     [] k < 0 /\ info.leap = 1 -> k + 180
                     [] OTHER -> k + 179
<1>1. DayNumberToJalali(jdn)
        = IF k \in 0..185 THEN EarlyDate(jYear, k)
          ELSE LateDate(IF k >= 0 THEN jYear ELSE jYear - 1, late)
  BY Zenon DEF DayNumberToJalali, YearOf, DaysSince, EarlyDate, LateDate
<1> HIDE DEF jYear, info, k
<1>2. /\ k >= 0 => late = k - 186
      /\ k < 0 /\ info.leap = 1 => late = k + 180
      /\ k < 0 /\ info.leap # 1 => late = k + 179
  BY SMT DEF k
<1> HIDE DEF late
<1>3. /\ k >= 186 => k \notin 0..185 /\ k >= 0
      /\ k < 0 => k \notin 0..185 /\ ~ (k >= 0)
  BY SMT DEF k
<1>4. /\ k \in 0..185 => DayNumberToJalali(jdn) = EarlyDate(jYear, k)
      /\ k >= 186 => DayNumberToJalali(jdn) = LateDate(jYear, k - 186)
      /\ k < 0 /\ info.leap = 1 => DayNumberToJalali(jdn) = LateDate(jYear - 1, k + 180)
      /\ k < 0 /\ info.leap # 1 => DayNumberToJalali(jdn) = LateDate(jYear - 1, k + 179)
  BY <1>1, <1>2, <1>3, SMT
<1> QED
  BY <1>4, SMT DEF jYear, k, info

\* A day of a Jalali year, as the calendar converts it in both directions.
LEMMA DayOfYear ==
  ASSUME NEW jYear \in WholeYears, NEW k \in DaysOf(jYear),
         NEW jdn, jdn = Farvardin(jYear) + k
  PROVE  /\ HasNumber(JdnToGregorianDay(jdn), jdn)
         /\ DayNumberToJalali(jdn)
              = IF k <= 185 THEN EarlyDate(jYear, k) ELSE LateDate(jYear, k - 186)
<1> DEFINE spring == jYear + 621
           t == jdn - MarchFirst(spring)
           length == YearLength(spring)
<1>1. /\ jYear \in KnownYears /\ jYear + 1 \in KnownYears
      /\ spring \in MarchYears /\ spring + 1 \in MarchYears /\ jYear \in Int
  BY SMT DEF WholeYears, KnownYears, MarchYears
<1>2. /\ Farvardin(jYear) \in Nat /\ LeapDay(jYear) \in 0..1
      /\ Farvardin(jYear + 1) = Farvardin(jYear) + 365 + LeapDay(jYear)
      /\ Farvardin(jYear) - MarchFirst(spring) \in 19..21
  BY <1>1, YearsFollow, SMT DEF spring
<1>3. /\ MarchFirst(spring) \in Nat /\ MarchFirst(spring + 1) \in Nat /\ length \in 365..366
      /\ MarchFirst(spring + 1) = MarchFirst(spring) + length
  BY <1>1, MarchFirstInt, SMT DEF YearLength
<1>4. k \in Int /\ k >= 0 /\ k <= 364 + LeapDay(jYear)
  BY <1>2, SMT DEF DaysOf
<1> HIDE DEF length, spring
<1>5. t \in Int /\ t >= k + 19 /\ t <= k + 21 /\ jdn = MarchFirst(spring) + t
  BY <1>2, <1>3, <1>4, SMT
<1> HIDE DEF t
<1>6. /\ HasNumber(JdnToGregorianDay(jdn), jdn)
      /\ JdnToGregorianDay(jdn).year = IF t <= 305 THEN spring ELSE spring + 1
  <2>1. CASE t < length
    <3>1. t \in SpringDays
      BY <1>3, <1>4, <1>5, <2>1, SMT DEF SpringDays
    <3> QED BY <1>1, <1>5, <2>1, <3>1, DayHasItsNumber, SMT DEF length
  <2>2. CASE ~ (t < length)
    <3> DEFINE u == t - length
               next == spring + 1
    <3>1. u \in SpringDays /\ u \in Nat /\ u <= 305 /\ ~ (t <= 305)
          /\ jdn = MarchFirst(next) + u
      BY <1>2, <1>3, <1>4, <1>5, <2>2, SMT DEF SpringDays
    <3>2. next \in MarchYears
      BY <1>1, Zenon
    <3>3. u < YearLength(next)
      BY <3>1, <3>2, MarchFirstInt, SMT
    <3> HIDE DEF u, next
    <3>4. /\ HasNumber(JdnToGregorianDay(jdn), jdn)
          /\ JdnToGregorianDay(jdn).year = next
      BY <3>1, <3>2, <3>3, DayHasItsNumber, SMT
    <3> QED BY <3>1, <3>4, Zenon DEF next
  <2> QED BY <2>1, <2>2
<1>7. CASE t <= 305
  <2>1. YearOf(jdn) = jYear
    BY <1>1, <1>6, <1>7, SMT DEF spring, YearOf
  <2>2. DaysSince(jdn) = k
    BY <1>1, <1>2, <1>4, <2>1, YearInfo, SMT DEF DaysSince
  <2>3. k <= 185 => k \in 0..185
    BY <1>4, SMT
  <2>4. ~ (k <= 185) => k >= 186
    BY <1>4, SMT
  <2> QED BY <1>4, <1>6, <2>1, <2>2, <2>3, <2>4, ConversionCases, SMT
<1>8. CASE ~ (t <= 305)
  <2> DEFINE info == JalaliYearInfo(jYear + 1)
  <2>1. YearOf(jdn) = jYear + 1 /\ YearOf(jdn) - 1 = jYear
    BY <1>1, <1>6, <1>8, SMT DEF spring, YearOf
  <2>2. info.marchJdn = Farvardin(jYear + 1)
        /\ (info.leap = 1 <=> (jYear + 1 - 1) % 33 \in LeapYears)
    BY <1>1, YearInfo, SMT
  <2>3. jYear + 1 - 1 = jYear
    BY <1>1, SMT
  <2>4. LeapDay(jYear) = IF info.leap = 1 THEN 1 ELSE 0
    BY <2>2, <2>3, SMT DEF LeapDay
  <2>5. DaysSince(jdn) = k - 365 - LeapDay(jYear)
    BY <1>2, <1>4, <2>1, <2>2, SMT DEF DaysSince
  <2>6. DaysSince(jdn) < 0 /\ k >= 186 /\ DaysSince(jdn) \in Int
    BY <1>2, <1>4, <1>5, <1>8, <2>5, SMT
  <2>7. /\ info.leap = 1 => DaysSince(jdn) + 180 = k - 186
        /\ info.leap # 1 => DaysSince(jdn) + 179 = k - 186
    BY <1>2, <1>4, <2>4, <2>5, SMT
  <2>8. JalaliYearInfo(YearOf(jdn)) = info
    BY <2>1, SMT
  <2> HIDE DEF info
  <2>9. DayNumberToJalali(jdn) = LateDate(jYear, k - 186)
    BY <2>1, <2>6, <2>7, <2>8, ConversionCases, SMT
  <2>10. ~ (k <= 185)
    BY <2>6, <1>4, SMT
  <2> QED BY <1>6, <2>9, <2>10, Zenon
<1> QED BY <1>7, <1>8

-----------------------------------------------------------------------------
(* The plan of a year.                                                     *)

MonthNumbers == 1..12
MonthStart(i) == IF i <= 7 THEN 31 * (i - 1) ELSE 30 * i - 24
MonthLength(jYear, i) == IF i <= 6 THEN 31 ELSE IF i <= 11 THEN 30 ELSE 29 + LeapDay(jYear)

\* The months of the code's table and their first days, and how they follow one another.
LEMMA MonthsOfTheYear ==
  ASSUME NEW jYear \in WholeYears, NEW i \in MonthNumbers
  PROVE  /\ DaysBeforeJalaliMonth(i) = MonthStart(i)
         /\ JalaliDaysInMonth(jYear, i) = MonthLength(jYear, i)
         /\ MonthStart(i) \in DaysOf(jYear)
         /\ MonthLength(jYear, i) \in 29..31
         /\ MonthStart(i) + MonthLength(jYear, i) - 1 \in DaysOf(jYear)
         /\ i < 12 => MonthStart(i + 1) = MonthStart(i) + MonthLength(jYear, i)
         /\ i = 12 => MonthStart(i) + MonthLength(jYear, i) = 365 + LeapDay(jYear)
<1>1. i \in 1..12
  BY SMT DEF MonthNumbers
<1>2. LeapDay(jYear) \in 0..1
  BY SMT DEF LeapDay
<1>3. DaysBeforeJalaliMonth(i) = MonthStart(i)
  BY <1>1, SMT DEF DaysBeforeJalaliMonth, MonthStart, Div
<1>4. JalaliDaysInMonth(jYear, i) = MonthLength(jYear, i)
  <2>1. i \in 7..11 \/ i <= 6 \/ i = 12
    BY <1>1, SMT
  <2>2. LeapDay(jYear) = IF JalaliYearInfo(jYear).leap = 0 THEN 1 ELSE 0
    <3>1. jYear \in KnownYears
      BY SMT DEF WholeYears, KnownYears
    <3> QED BY <3>1, YearInfo, SMT DEF LeapDay
  <2>3. CASE i <= 6
    BY <1>1, <2>3, SMT DEF JalaliDaysInMonth, MonthLength
  <2>4. CASE i \in 7..11
    BY <1>1, <2>4, SMT DEF JalaliDaysInMonth, MonthLength
  <2>5. CASE i = 12
    BY <2>2, <2>5, SMT DEF JalaliDaysInMonth, MonthLength
  <2> QED BY <2>1, <2>3, <2>4, <2>5, Zenon
<1>5. /\ MonthStart(i) \in DaysOf(jYear)
      /\ MonthLength(jYear, i) \in 29..31
      /\ MonthStart(i) + MonthLength(jYear, i) - 1 \in DaysOf(jYear)
      /\ i < 12 => MonthStart(i + 1) = MonthStart(i) + MonthLength(jYear, i)
      /\ i = 12 => MonthStart(i) + MonthLength(jYear, i) = 365 + LeapDay(jYear)
  BY <1>1, <1>2, SMT DEF MonthStart, MonthLength, DaysOf
<1> QED BY <1>3, <1>4, <1>5, SMT

\* The first and the last day of a month, by day number and by their names.
LEMMA MonthBounds ==
  ASSUME NEW jYear \in WholeYears, NEW i \in MonthNumbers
  PROVE  LET bounds == JalaliMonthBounds(jYear, i)
         IN /\ HasNumber(bounds.start, Farvardin(jYear) + MonthStart(i))
            /\ HasNumber(bounds.end,
                         Farvardin(jYear) + (MonthStart(i) + MonthLength(jYear, i) - 1))
            /\ BusinessDateToJalali(bounds.start) = JalaliDate(jYear, i, 1)
            /\ BusinessDateToJalali(bounds.end) = JalaliDate(jYear, i, MonthLength(jYear, i))
            /\ bounds.start = JdnToGregorianDay(Farvardin(jYear) + MonthStart(i))
            /\ bounds.end = JdnToGregorianDay(Farvardin(jYear)
                                               + (MonthStart(i) + MonthLength(jYear, i) - 1))
<1> DEFINE first == MonthStart(i)
           length == MonthLength(jYear, i)
           final == first + length - 1
           bounds == JalaliMonthBounds(jYear, i)
<1>1. i \in 1..12 /\ jYear \in KnownYears
  BY SMT DEF MonthNumbers, WholeYears, KnownYears
<1>2. /\ DaysBeforeJalaliMonth(i) = first /\ JalaliDaysInMonth(jYear, i) = length
      /\ first \in DaysOf(jYear) /\ final \in DaysOf(jYear) /\ length \in 29..31
  BY MonthsOfTheYear, SMT
<1>3. Farvardin(jYear) \in Nat /\ LeapDay(jYear) \in 0..1
  BY <1>1, YearsFollow, SMT
<1>4. first \in Nat /\ final \in Nat /\ length \in Nat
  BY <1>2, <1>3, SMT DEF DaysOf
<1>5. JalaliYearInfo(jYear).marchJdn = Farvardin(jYear)
  BY <1>1, YearInfo, SMT
<1> HIDE DEF first, length
<1>6. /\ bounds.start = JdnToGregorianDay(Farvardin(jYear) - 1 + first + 1)
      /\ bounds.end = JdnToGregorianDay(Farvardin(jYear) - 1 + first + length)
  BY <1>2, <1>5, Zenon DEF JalaliMonthBounds, BusinessDateFromJalali
<1>7. /\ Farvardin(jYear) - 1 + first + 1 = Farvardin(jYear) + first
      /\ Farvardin(jYear) - 1 + first + length = Farvardin(jYear) + final
  BY <1>3, <1>4, SMT
<1>8. /\ bounds.start = JdnToGregorianDay(Farvardin(jYear) + first)
      /\ bounds.end = JdnToGregorianDay(Farvardin(jYear) + final)
  BY <1>6, <1>7, Zenon
<1> HIDE DEF bounds
<1>9. /\ HasNumber(bounds.start, Farvardin(jYear) + first)
      /\ DayNumberToJalali(Farvardin(jYear) + first)
              = IF first <= 185 THEN EarlyDate(jYear, first) ELSE LateDate(jYear, first - 186)
  BY <1>2, <1>8, DayOfYear, SMT
<1> DEFINE k == final
<1> HIDE DEF k
<1>10. /\ HasNumber(bounds.end, Farvardin(jYear) + k)
       /\ DayNumberToJalali(Farvardin(jYear) + k)
              = IF k <= 185 THEN EarlyDate(jYear, k) ELSE LateDate(jYear, k - 186)
  BY <1>2, <1>8, DayOfYear, SMT DEF k
<1>11. /\ i <= 6 => /\ first <= 185 /\ Div(first, 31) + 1 = i /\ Mod(first, 31) + 1 = 1
                    /\ k <= 185 /\ Div(k, 31) + 1 = i /\ Mod(k, 31) + 1 = length
       /\ ~ (i <= 6) => /\ ~ (first <= 185) /\ Div(first - 186, 30) + 7 = i
                        /\ Mod(first - 186, 30) + 1 = 1
                        /\ ~ (k <= 185) /\ Div(k - 186, 30) + 7 = i
                        /\ Mod(k - 186, 30) + 1 = length
  BY <1>1, <1>3, SMT DEF MonthStart, MonthLength, first, length, k, Div, Mod
<1>12. /\ DayNumberToJalali(Farvardin(jYear) + first) = JalaliDate(jYear, i, 1)
       /\ DayNumberToJalali(Farvardin(jYear) + k) = JalaliDate(jYear, i, length)
  BY <1>9, <1>10, <1>11, SMT DEF EarlyDate, LateDate
<1>13. /\ BusinessDateToJalali(bounds.start) = JalaliDate(jYear, i, 1)
       /\ BusinessDateToJalali(bounds.end) = JalaliDate(jYear, i, length)
  BY <1>9, <1>10, <1>12, Zenon DEF BusinessDateToJalali, HasNumber
<1> QED
  BY <1>8, <1>9, <1>10, <1>13, Zenon DEF bounds, first, length, k

\* The Gregorian years in which the theorem lets fiscal years begin, and the days of
\* March; the day of March on which a Jalali year begins.
PlannedYears == 1969..2249
DaysOfMarch == 1..31
NewYearsDay(jYear) == Farvardin(jYear) - MarchFirst(jYear + 621) + 1

\* A year begins and ends in the third week of March.
LEMMA BoundsOfTheYear ==
  ASSUME NEW jYear \in WholeYears
  PROVE  /\ NewYearsDay(jYear) \in 20..22 /\ NewYearsDay(jYear + 1) \in 20..22
         /\ JalaliYearBounds(jYear)
              = [start |-> Date(jYear + 621, 3, NewYearsDay(jYear)),
                 end |-> Date(jYear + 621 + 1, 3, NewYearsDay(jYear + 1) - 1)]
<1> DEFINE spring == jYear + 621
           next == jYear + 1
           s == NewYearsDay(jYear) - 1
           e == NewYearsDay(next) - 2
<1>1. /\ jYear \in KnownYears /\ next \in KnownYears /\ jYear \in Int
      /\ spring \in MarchYears /\ spring + 1 \in MarchYears /\ next + 621 = spring + 1
  BY SMT DEF WholeYears, KnownYears, MarchYears
<1>2. /\ MarchFirst(spring) \in Nat /\ MarchFirst(spring + 1) \in Nat
      /\ YearLength(spring) \in 365..366 /\ YearLength(spring + 1) \in 365..366
  BY <1>1, MarchFirstInt, SMT
<1>3. /\ Farvardin(jYear) \in Nat /\ Farvardin(next) \in Nat
      /\ Farvardin(jYear) - MarchFirst(spring) \in 19..21
      /\ Farvardin(next) - MarchFirst(next + 621) \in 19..21
      /\ LeapDay(jYear) \in 0..1
      /\ Farvardin(next) = Farvardin(jYear) + 365 + LeapDay(jYear)
  BY <1>1, YearsFollow, SMT
<1> HIDE DEF spring, next
<1>4. /\ NewYearsDay(jYear) \in 20..22 /\ NewYearsDay(next) \in 20..22
      /\ Farvardin(jYear) = MarchFirst(spring) + s
      /\ Farvardin(next) - 1 = MarchFirst(spring + 1) + e
      /\ s \in SpringDays /\ s <= 30 /\ s < YearLength(spring)
      /\ e \in SpringDays /\ e <= 30 /\ e < YearLength(spring + 1)
      /\ s + 1 = NewYearsDay(jYear) /\ e + 1 = NewYearsDay(next) - 1
  BY <1>1, <1>2, <1>3, SMT DEF NewYearsDay, SpringDays, spring
<1> HIDE DEF s, e
<1>5. JdnToGregorianDay(Farvardin(jYear)) = Date(spring, 3, s + 1)
  BY <1>1, <1>4, DayHasItsNumber, SMT
<1>6. JdnToGregorianDay(Farvardin(next) - 1) = Date(spring + 1, 3, e + 1)
  BY <1>1, <1>4, DayHasItsNumber, SMT
<1>7. 1 \in MonthNumbers /\ 12 \in MonthNumbers
  BY SMT DEF MonthNumbers
<1>8. /\ Farvardin(jYear) + MonthStart(1) = Farvardin(jYear)
      /\ Farvardin(jYear) + (MonthStart(12) + MonthLength(jYear, 12) - 1) = Farvardin(next) - 1
  BY <1>3, SMT DEF MonthStart, MonthLength
<1>9. JalaliMonthBounds(jYear, 1).start = JdnToGregorianDay(Farvardin(jYear))
  BY <1>7, <1>8, MonthBounds, SMT
<1>10. JalaliMonthBounds(jYear, 12).end = JdnToGregorianDay(Farvardin(next) - 1)
  BY <1>7, <1>8, MonthBounds, SMT
<1>11. JalaliYearBounds(jYear)
              = [start |-> Date(spring, 3, NewYearsDay(jYear)),
                 end |-> Date(spring + 1, 3, NewYearsDay(next) - 1)]
  BY <1>4, <1>5, <1>6, <1>9, <1>10, SMT DEF JalaliYearBounds
<1> QED
  BY <1>4, <1>11, SMT DEF spring, next

\* The number of a day of March, for a day the range may name.
LEMMA MarchDayNumber ==
  ASSUME NEW year \in MarchYears, NEW day \in DaysOfMarch
  PROVE  HasNumber(Date(year, 3, day), MarchFirst(year) + day - 1)
<1>1. 3 \in 3..12 /\ day \in Int
  BY SMT DEF DaysOfMarch
<1>2. HasNumber(Date(year, 3, day), MarchFirst(year) + DAYS_BEFORE_MONTH[3] - 59 + day - 1)
  BY <1>1, MarchEpoch, Zenon
<1>3. DAYS_BEFORE_MONTH[3] = 59 /\ MarchFirst(year) \in Nat
  BY MarchFirstInt, SMT DEF DAYS_BEFORE_MONTH
<1>4. MarchFirst(year) + DAYS_BEFORE_MONTH[3] - 59 + day - 1 = MarchFirst(year) + day - 1
  BY <1>1, <1>3, SMT
<1> QED BY <1>2, <1>4, Zenon

\* The year a day of March belongs to.
LEMMA YearOfMarchDay ==
  ASSUME NEW year \in PlannedYears, NEW day \in DaysOfMarch
  PROVE  /\ HasNumber(Date(year, 3, day), MarchFirst(year) + day - 1)
         /\ BusinessDateToJalali(Date(year, 3, day)).jYear
              = IF day >= NewYearsDay(year - 621) THEN year - 621 ELSE year - 621 - 1
<1> DEFINE jYear == year - 621
           jdn == MarchFirst(year) + day - 1
           t == day - 1
<1>1. /\ year \in MarchYears /\ jYear \in KnownYears /\ jYear + 621 = year
      /\ day \in 1..31 /\ day \in Int
      /\ t \in SpringDays /\ t \in 0..30 /\ year \in Int
  BY SMT DEF PlannedYears, MarchYears, KnownYears, DaysOfMarch, SpringDays
<1>2. MarchFirst(year) \in Nat /\ YearLength(year) \in 365..366
  BY <1>1, MarchFirstInt, SMT
<1>3. HasNumber(Date(year, 3, day), jdn)
  BY <1>1, MarchDayNumber, SMT
<1>4. jdn = MarchFirst(year) + t /\ t < YearLength(year) /\ t <= 305 /\ jdn \in Int
  BY <1>1, <1>2, SMT
<1> HIDE DEF t, jdn
<1>5. JdnToGregorianDay(jdn).year = year
  BY <1>1, <1>4, DayHasItsNumber, SMT
<1> HIDE DEF jYear
<1>6. YearOf(jdn) = jYear
  BY <1>1, <1>5, SMT DEF YearOf, jYear
<1>7. Farvardin(jYear) \in Nat /\ Farvardin(jYear) - MarchFirst(jYear + 621) \in 19..21
  BY <1>1, YearsFollow, SMT
<1>8. DaysSince(jdn) = jdn - Farvardin(jYear)
  BY <1>1, <1>6, YearInfo, SMT DEF DaysSince
<1>9. /\ DaysSince(jdn) = day - NewYearsDay(jYear) /\ DaysSince(jdn) \in -30..30
      /\ DaysSince(jdn) \in Int /\ NewYearsDay(jYear) \in Int
  BY <1>1, <1>2, <1>4, <1>7, <1>8, SMT DEF NewYearsDay, t
<1>10. CASE day >= NewYearsDay(jYear)
  <2>1. DaysSince(jdn) \in 0..185
    BY <1>1, <1>9, <1>10, SMT
  <2>2. DayNumberToJalali(jdn).jYear = jYear
    BY <1>6, <1>9, <2>1, ConversionCases, SMT DEF EarlyDate, JalaliDate
  <2> QED BY <1>3, <1>10, <2>2, SMT DEF BusinessDateToJalali, HasNumber, jYear, jdn
<1>11. CASE ~ (day >= NewYearsDay(jYear))
  <2>1. DaysSince(jdn) < 0
    BY <1>1, <1>9, <1>11, SMT
  <2>2. DayNumberToJalali(jdn).jYear = jYear - 1
    BY <1>6, <1>9, <2>1, ConversionCases, SMT DEF LateDate, JalaliDate
  <2> QED BY <1>3, <1>11, <2>2, SMT DEF BusinessDateToJalali, HasNumber, jYear, jdn
<1> QED BY <1>10, <1>11

\* A range is planned when it is a Jalali year, and its periods are the months.
LEMMA PlanOfRange ==
  ASSUME NEW year \in PlannedYears, NEW first \in DaysOfMarch, NEW final \in DaysOfMarch
  PROVE  LET range == [start |-> Date(year, 3, first), end |-> Date(year + 1, 3, final)]
             jYear == year - 621
             Whole == first = NewYearsDay(jYear) /\ final = NewYearsDay(jYear + 1) - 1
         IN /\ Whole => Plan(range) = [jalaliYear |-> jYear,
                                       periods |-> [i \in 1..12 |-> JalaliMonthBounds(jYear, i)]]
            /\ ~ Whole => Plan(range) = Refused
            /\ Whole => range = JalaliYearBounds(jYear)
<1> DEFINE range == [start |-> Date(year, 3, first), end |-> Date(year + 1, 3, final)]
           jYear == year - 621
           earlier == jYear - 1
           Whole == first = NewYearsDay(jYear) /\ final = NewYearsDay(jYear + 1) - 1
           begun == BusinessDateToJalali(range.start).jYear
           periods == [i \in 1..12 |-> JalaliMonthBounds(begun, i)]
           Contiguous(i) == EpochDays(periods[i].end) = EpochDays(periods[i + 1].start) - 1
<1>1. /\ jYear \in WholeYears /\ earlier \in WholeYears /\ year \in Int /\ jYear + 621 = year
      /\ earlier + 621 = year - 1
      /\ first \in Int /\ final \in Int
  BY SMT DEF PlannedYears, WholeYears, DaysOfMarch
<1>2. Plan(range) = IF range = JalaliYearBounds(begun) /\ \A i \in 1..11 : Contiguous(i)
                    THEN [jalaliYear |-> begun, periods |-> periods] ELSE Refused
  BY Zenon DEF Plan
<1>3. range.start = Date(year, 3, first)
  OBVIOUS
<1>4. begun = IF first >= NewYearsDay(jYear) THEN jYear ELSE jYear - 1
  BY <1>3, YearOfMarchDay, SMT
<1>5. /\ NewYearsDay(jYear) \in 20..22 /\ NewYearsDay(jYear + 1) \in 20..22
      /\ JalaliYearBounds(jYear) = [start |-> Date(year, 3, NewYearsDay(jYear)),
                                    end |-> Date(year + 1, 3, NewYearsDay(jYear + 1) - 1)]
  BY <1>1, BoundsOfTheYear, SMT
<1> HIDE DEF begun, jYear
<1>6. range = JalaliYearBounds(jYear) <=> Whole
  BY <1>5, SMT DEF Date
<1>7. JalaliYearBounds(earlier).start = Date(year - 1, 3, NewYearsDay(earlier))
  BY <1>1, BoundsOfTheYear, SMT
<1>8. range # JalaliYearBounds(earlier)
  BY <1>1, <1>3, <1>7, SMT DEF Date
<1>9. ASSUME begun = jYear PROVE \A i \in 1..11 : Contiguous(i)
  <2> TAKE i \in 1..11
  <2>1. i \in MonthNumbers /\ i + 1 \in MonthNumbers /\ i < 12 /\ i \in 1..12 /\ i + 1 \in 1..12
    BY SMT DEF MonthNumbers
  <2>2. periods[i] = JalaliMonthBounds(jYear, i)
        /\ periods[i + 1] = JalaliMonthBounds(jYear, i + 1)
    BY <2>1, <1>9, Zenon
  <2>3. HasNumber(JalaliMonthBounds(jYear, i).end,
                  Farvardin(jYear) + (MonthStart(i) + MonthLength(jYear, i) - 1))
    BY <1>1, <2>1, MonthBounds, SMT
  <2>4. HasNumber(JalaliMonthBounds(jYear, i + 1).start, Farvardin(jYear) + MonthStart(i + 1))
    BY <1>1, <2>1, MonthBounds, SMT
  <2>5. MonthStart(i + 1) = MonthStart(i) + MonthLength(jYear, i)
    BY <1>1, <2>1, MonthsOfTheYear, SMT
  <2>6. EpochDays(periods[i].end) = EpochDays(periods[i + 1].start) - 1
    <3>1. jYear \in KnownYears
      BY <1>1, SMT DEF WholeYears, KnownYears
    <3>2. Farvardin(jYear) \in Nat
      BY <3>1, YearsFollow, SMT
    <3>3. MonthStart(i) \in Int /\ MonthLength(jYear, i) \in Int
      BY SMT DEF MonthStart, MonthLength, LeapDay
    <3>4. JDN_OF_UNIX_EPOCH \in Int
      BY SMT DEF JDN_OF_UNIX_EPOCH
    <3> QED BY <2>2, <2>3, <2>4, <2>5, <3>2, <3>3, <3>4, SMT DEF HasNumber
  <2> QED BY <2>6
<1>10. Whole => begun = jYear
  BY <1>1, <1>4, <1>5, SMT
<1>11. ~ Whole => range # JalaliYearBounds(begun)
  BY <1>4, <1>6, <1>8, SMT
<1> HIDE DEF range, Whole, Contiguous
<1>12. /\ Whole => Plan(range) = [jalaliYear |-> jYear,
                                  periods |-> [i \in 1..12 |-> JalaliMonthBounds(jYear, i)]]
       /\ ~ Whole => Plan(range) = Refused
  BY <1>2, <1>6, <1>9, <1>10, <1>11, Zenon
<1> QED
  BY <1>6, <1>12, SMT DEF range, Whole, jYear

\* The months of a planned year.
LEMMA PlannedMonths ==
  ASSUME NEW jYear \in WholeYears, NEW i \in MonthNumbers
  PROVE  LET Bounds(n) == JalaliMonthBounds(jYear, n)
             length == EpochDays(Bounds(i).end) - EpochDays(Bounds(i).start) + 1
         IN /\ EpochDays(Bounds(i).start) < EpochDays(Bounds(i).end)
            /\ i < 12 => EpochDays(Bounds(i + 1).start) = EpochDays(Bounds(i).end) + 1
            /\ BusinessDateToJalali(Bounds(i).start) = JalaliDate(jYear, i, 1)
            /\ BusinessDateToJalali(Bounds(i).end) = JalaliDate(jYear, i, length)
<1> DEFINE Bounds(n) == JalaliMonthBounds(jYear, n)
           length == EpochDays(Bounds(i).end) - EpochDays(Bounds(i).start) + 1
<1>1. /\ HasNumber(Bounds(i).start, Farvardin(jYear) + MonthStart(i))
      /\ HasNumber(Bounds(i).end,
                   Farvardin(jYear) + (MonthStart(i) + MonthLength(jYear, i) - 1))
      /\ BusinessDateToJalali(Bounds(i).start) = JalaliDate(jYear, i, 1)
      /\ BusinessDateToJalali(Bounds(i).end) = JalaliDate(jYear, i, MonthLength(jYear, i))
  BY MonthBounds, SMT
<1>2. /\ MonthLength(jYear, i) \in 29..31
      /\ i < 12 => MonthStart(i + 1) = MonthStart(i) + MonthLength(jYear, i)
  BY MonthsOfTheYear, SMT
<1>3. i \in 1..12 /\ MonthStart(i) \in Int /\ JDN_OF_UNIX_EPOCH \in Int
  BY SMT DEF MonthNumbers, MonthStart, JDN_OF_UNIX_EPOCH
<1>4. Farvardin(jYear) \in Nat
  <2>1. jYear \in KnownYears
    BY SMT DEF WholeYears, KnownYears
  <2> QED BY <2>1, YearsFollow, SMT
<1> HIDE DEF Bounds
<1>5. length = MonthLength(jYear, i) /\ EpochDays(Bounds(i).start) < EpochDays(Bounds(i).end)
  BY <1>1, <1>2, <1>3, <1>4, SMT DEF HasNumber
<1>6. ASSUME i < 12
      PROVE  EpochDays(Bounds(i + 1).start) = EpochDays(Bounds(i).end) + 1
  <2>1. i + 1 \in MonthNumbers
    BY <1>3, <1>6, SMT DEF MonthNumbers
  <2>2. HasNumber(Bounds(i + 1).start, Farvardin(jYear) + MonthStart(i + 1))
    BY <2>1, MonthBounds, SMT DEF Bounds
  <2> QED BY <1>1, <1>2, <1>3, <1>4, <1>6, <2>2, SMT DEF HasNumber
<1> HIDE DEF length
<1> QED BY <1>1, <1>5, <1>6, Zenon DEF Bounds, length

\* Both ends of a range are the ends of a Jalali year exactly if it is planned.
LEMMA RangeIsTheYear ==
  ASSUME NEW year \in PlannedYears, NEW first \in DaysOfMarch, NEW final \in DaysOfMarch
  PROVE  LET jYear == year - 621
         IN /\ EpochDays(Date(year, 3, first)) = Nowruz(jYear) <=> first = NewYearsDay(jYear)
            /\ EpochDays(Date(year + 1, 3, final)) = Nowruz(jYear + 1) - 1
                 <=> final = NewYearsDay(jYear + 1) - 1
<1> DEFINE jYear == year - 621
           next == jYear + 1
<1>1. /\ jYear \in AgreedYears /\ next \in AgreedYears /\ jYear \in KnownYears
      /\ next \in KnownYears /\ year \in MarchYears /\ year + 1 \in MarchYears
      /\ jYear + 621 = year /\ next + 621 = year + 1
      /\ first \in Int /\ final \in Int /\ JDN_OF_UNIX_EPOCH \in Int
  BY SMT DEF PlannedYears, AgreedYears, KnownYears, MarchYears, DaysOfMarch, JDN_OF_UNIX_EPOCH
<1>2. /\ MarchFirst(year) \in Nat /\ MarchFirst(year + 1) \in Nat
  BY <1>1, MarchFirstInt, SMT
<1>3. /\ HasNumber(Date(year, 3, first), MarchFirst(year) + first - 1)
      /\ HasNumber(Date(year + 1, 3, final), MarchFirst(year + 1) + final - 1)
  BY <1>1, MarchDayNumber, SMT
<1> HIDE DEF jYear, next
<1>4. /\ Nowruz(jYear) \in Int /\ Nowruz(jYear) + JDN_OF_UNIX_EPOCH = Farvardin(jYear)
      /\ Nowruz(next) \in Int /\ Nowruz(next) + JDN_OF_UNIX_EPOCH = Farvardin(next)
  BY <1>1, NowruzIsFarvardin, SMT
<1>5. Farvardin(jYear) \in Nat /\ Farvardin(next) \in Nat
  BY <1>1, YearsFollow, SMT
<1>6. /\ NewYearsDay(jYear) = Farvardin(jYear) - MarchFirst(year) + 1
      /\ NewYearsDay(next) = Farvardin(next) - MarchFirst(year + 1) + 1
  BY <1>1, SMT DEF NewYearsDay
<1>7. EpochDays(Date(year, 3, first)) = Nowruz(jYear) <=> first = NewYearsDay(jYear)
  <2> DEFINE day == EpochDays(Date(year, 3, first))
             newYear == Nowruz(jYear)
  <2>1. day \in Int /\ day + JDN_OF_UNIX_EPOCH = MarchFirst(year) + first - 1
    BY <1>3, Zenon DEF HasNumber
  <2> HIDE DEF day, newYear
  <2>2. newYear \in Int /\ newYear + JDN_OF_UNIX_EPOCH = Farvardin(jYear)
    BY <1>4 DEF newYear
  <2>3. day = newYear <=> first = NewYearsDay(jYear)
    BY <1>1, <1>2, <1>5, <1>6, <2>1, <2>2, SMT
  <2> QED BY <2>3, Zenon DEF day, newYear
<1>8. EpochDays(Date(year + 1, 3, final)) = Nowruz(next) - 1 <=> final = NewYearsDay(next) - 1
  <2> DEFINE day == EpochDays(Date(year + 1, 3, final))
             newYear == Nowruz(next)
  <2>1. day \in Int /\ day + JDN_OF_UNIX_EPOCH = MarchFirst(year + 1) + final - 1
    BY <1>3, Zenon DEF HasNumber
  <2> HIDE DEF day, newYear
  <2>2. newYear \in Int /\ newYear + JDN_OF_UNIX_EPOCH = Farvardin(next)
    BY <1>4 DEF newYear
  <2>3. day = newYear - 1 <=> final = NewYearsDay(next) - 1
    BY <1>1, <1>2, <1>5, <1>6, <2>1, <2>2, SMT
  <2> QED BY <2>3, Zenon DEF day, newYear
<1> QED BY <1>7, <1>8, SMT DEF jYear, next

\* Every plan tiles the year, or is a refusal.
LEMMA PlanTiles ==
  ASSUME NEW year \in PlannedYears, NEW first \in DaysOfMarch, NEW final \in DaysOfMarch,
         NEW range, range = [start |-> Date(year, 3, first), end |-> Date(year + 1, 3, final)]
  PROVE  TilesTheYear(year - 621, range, Plan(range))
<1> DEFINE jYear == year - 621
           plan == Plan(range)
           Whole == first = NewYearsDay(jYear) /\ final = NewYearsDay(jYear + 1) - 1
           Ends == /\ EpochDays(range.start) = Nowruz(jYear)
                   /\ EpochDays(range.end) = Nowruz(jYear + 1) - 1
           periods == [i \in 1..12 |-> JalaliMonthBounds(jYear, i)]
<1>1. jYear \in WholeYears
  BY SMT DEF PlannedYears, WholeYears
<1>2. /\ range.start = Date(year, 3, first) /\ range.end = Date(year + 1, 3, final)
      /\ range.start.year = year
  BY SMT DEF Date
<1>3. Whole <=> Ends
  BY <1>2, RangeIsTheYear, SMT
<1>4. /\ Whole => plan = [jalaliYear |-> jYear, periods |-> periods]
      /\ ~ Whole => plan = Refused
      /\ Whole => range = JalaliYearBounds(jYear)
  BY PlanOfRange, SMT
<1> HIDE DEF jYear, plan, Whole
<1>5. CASE Whole
  <2>1. /\ plan # Refused /\ plan.jalaliYear = jYear /\ plan.periods = periods
    <3>1. "error" \notin DOMAIN plan /\ "error" \in DOMAIN Refused
      BY <1>4, <1>5, SMT DEF Refused
    <3> QED BY <1>4, <1>5, <3>1, SMT
  <2>2. periods[1].start = range.start /\ periods[12].end = range.end
    BY <1>4, <1>5, SMT DEF JalaliYearBounds
  <2>3. ASSUME NEW i \in 1..12 PROVE IsMonth(jYear, periods, i)
    <3>1. i \in MonthNumbers /\ (i < 12 => i + 1 \in 1..12)
      BY SMT DEF MonthNumbers
    <3>2. /\ periods[i] = JalaliMonthBounds(jYear, i)
          /\ i < 12 => periods[i + 1] = JalaliMonthBounds(jYear, i + 1)
      BY <3>1, Zenon
    <3> HIDE DEF periods
    <3> QED BY <1>1, <3>1, <3>2, PlannedMonths, SMT DEF IsMonth
  <2> HIDE DEF periods
  <2>4. TilesTheYear(jYear, range, plan)
    BY <1>3, <1>5, <2>1, <2>2, <2>3, Zenon DEF TilesTheYear
  <2> QED BY <2>4, Zenon DEF jYear, plan
<1>6. CASE ~ Whole
  <2>1. plan = Refused /\ ~ Ends
    BY <1>3, <1>4, <1>6, Zenon
  <2>2. TilesTheYear(jYear, range, plan)
    BY <2>1, Zenon DEF TilesTheYear
  <2> QED BY <2>2, Zenon DEF jYear, plan
<1> QED BY <1>5, <1>6

\* The generation of a fiscal year's periods plans the Jalali year that begins in March
\* of the Gregorian year, in twelve months that tile it, and refuses any other range.
THEOREM PeriodsAlwaysTile ==
  ASSUME CalendarYears \subseteq PlannedYears, MarchDays \subseteq DaysOfMarch
  PROVE  CalendarSpec => []PeriodsTileTheYear
<1>1. CalendarInit => PeriodsTileTheYear
  BY SMT DEF CalendarInit, PeriodsTileTheYear
<1>2. PeriodsTileTheYear /\ [CalendarNext]_generation => PeriodsTileTheYear'
  <2> SUFFICES ASSUME PeriodsTileTheYear, [CalendarNext]_generation
               PROVE  PeriodsTileTheYear'
    OBVIOUS
  <2>1. CASE CalendarNext
    <3>1. PICK year \in CalendarYears, first \in MarchDays, final \in MarchDays :
            Generate([start |-> Date(year, 3, first), end |-> Date(year + 1, 3, final)])
      BY <2>1, Zenon DEF CalendarNext
    <3>2. PICK range : /\ range = [start |-> Date(year, 3, first),
                                 end |-> Date(year + 1, 3, final)]
                       /\ Generate(range)
      BY <3>1, Zenon
    <3>3. year \in PlannedYears /\ first \in DaysOfMarch /\ final \in DaysOfMarch
      BY Zenon
    <3>4. TilesTheYear(year - 621, range, Plan(range))
      BY <3>2, <3>3, PlanTiles, SMT
    <3>5. /\ generation'.range = range /\ generation'.plan = Plan(range)
          /\ generation'.range.start.year = year
      BY <3>2, SMT DEF Generate, Date
    <3> QED BY <3>4, <3>5, Zenon DEF PeriodsTileTheYear
  <2>2. CASE UNCHANGED generation
    BY <2>2, Zenon DEF PeriodsTileTheYear
  <2> QED BY <2>1, <2>2
<1> QED BY <1>1, <1>2, PTL DEF CalendarSpec

=============================================================================
