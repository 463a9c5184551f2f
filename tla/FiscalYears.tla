---------------------------- MODULE FiscalYears ----------------------------
(***************************************************************************)
(* CreateFiscalYear: a company's fiscal years and the creations of new     *)
(* ones that overlap in time.  A creation is one transaction: it reads the *)
(* years there are, inserts its own, and generates the periods of it (see  *)
(* FiscalPeriods) before it commits.                                       *)
(*                                                                         *)
(* What keeps two overlapping creations apart is in the database: the      *)
(* unique key over company and label, and the trigger that looks for a     *)
(* year with a day in common before the row is inserted.  The SELECT of a  *)
(* trigger is part of the INSERT, and InnoDB makes it a locking read: it   *)
(* waits for rows that are not committed, and keeps others from inserting  *)
(* into the range it has read until its transaction ends.                  *)
(***************************************************************************)
EXTENDS Integers

CONSTANTS
  Creators,     \* creations in flight
  Companies,
  Labels,
  Ranges,       \* what a year may be asked to span, by first and last day
  JalaliYears   \* the ranges that are one Jalali year

VARIABLES
  years,     \* the committed rows of fiscal_years
  creation   \* what each request is creating, and where it stands

yearVars == <<years, creation>>

-----------------------------------------------------------------------------

Years == [company : Companies, label : Labels, range : Ranges]
None == [at |-> "idle"]

Stage(r) == creation[r].at
Year(r) == creation[r].year

Siblings(y) == {z \in years : z.company = y.company}

\* FiscalYearOverlapPolicy.overlaps and the predicate of the trigger, for two
\* years of one company: a day in common.
Overlap(y, z) ==
  y.range.start <= z.range.end /\ z.range.start <= y.range.end

YearsInit == years = {} /\ creation = [r \in Creators |-> None]

GotoStage(r, where) ==
  /\ creation' = [creation EXCEPT ![r].at = where]
  /\ UNCHANGED years

\* A command whose label and range parse: the range has a first day before
\* its last.
BeginYear(r, y) ==
  /\ Stage(r) \notin {"read", "check", "insert", "commit"}
  /\ y.range.start < y.range.end
  /\ creation' = [creation EXCEPT ![r] = [at |-> "read", year |-> y]]
  /\ UNCHANGED years

\* findByTenant, then what the use case, the aggregate and the plan of the
\* periods find in it: the answer, or "check" for going on.
Verdict(y) ==
  IF \E z \in Siblings(y) : z.label = y.label THEN "duplicate"
  ELSE IF \E z \in Siblings(y) : Overlap(y, z) THEN "overlap"
  ELSE IF y.range \notin JalaliYears THEN "structure"
  ELSE "check"

Read(r) == Stage(r) = "read" /\ GotoStage(r, Verdict(Year(r)))

\* The row a request has inserted and not committed.
InsertedYear(r) == Stage(r) = "commit"

\* Mutant of Check: the trigger's SELECT is a plain one.
CheckCommitted(r) ==
  /\ Stage(r) = "check"
  /\ GotoStage(r, IF \E z \in Siblings(Year(r)) : Overlap(Year(r), z)
               THEN "overlap" ELSE "insert")

\* Mutant of Check: the trigger forgets WHERE tenant_id = NEW.tenant_id.
CheckAnyCompany(r) ==
  /\ Stage(r) = "check"
  /\ GotoStage(r, IF \E z \in years : Overlap(Year(r), z)
               THEN "overlap" ELSE "insert")

\* INSERT: the trigger reads every year that has a day in common, whoever is
\* still inserting it, and refuses with FISCAL_YEAR_OVERLAP.
Check(r) ==
  /\ Stage(r) = "check"
  /\ \A u \in Creators \ {r} :
       InsertedYear(u) /\ Year(u).company = Year(r).company
         => ~ Overlap(Year(r), Year(u))
  /\ GotoStage(r, IF \E z \in Siblings(Year(r)) : Overlap(Year(r), z)
               THEN "overlap" ELSE "insert")

\* Mutant of InsertYear: no unique key over company and label.
InsertUnlessLocked(r) ==
  /\ Stage(r) = "insert"
  /\ \A u \in Creators \ {r} :
       Stage(u) \in {"insert", "commit"} /\ Year(u).company = Year(r).company
         => ~ Overlap(Year(r), Year(u))
  /\ GotoStage(r, "commit")

\* INSERT goes on: it waits for the ranges others have read, then for a row
\* with its label that is not committed; a committed one refuses it.  The event
\* and the periods of the new year follow in the same transaction.
InsertYear(r) ==
  /\ Stage(r) = "insert"
  /\ \A u \in Creators \ {r} :
       /\ Stage(u) \in {"insert", "commit"}
       /\ Year(u).company = Year(r).company
       => /\ ~ Overlap(Year(r), Year(u))
          /\ InsertedYear(u) => Year(u).label # Year(r).label
  /\ GotoStage(r, IF \E z \in Siblings(Year(r)) : z.label = Year(r).label
               THEN "duplicate" ELSE "commit")

CommitYear(r) ==
  /\ Stage(r) = "commit"
  /\ years' = years \cup {Year(r)}
  /\ creation' = [creation EXCEPT ![r].at = "created"]

\* Two creations wait for each other's range and the server chooses a victim, a
\* later statement fails, or the process dies: the transaction is rolled back.
AbortYear(r) ==
  /\ Stage(r) \in {"read", "check", "insert", "commit"}
  /\ GotoStage(r, "aborted")

YearsNext ==
  \E r \in Creators :
    \/ \E y \in Years : BeginYear(r, y)
    \/ Read(r) \/ Check(r) \/ InsertYear(r) \/ CommitYear(r) \/ AbortYear(r)

YearsSpec == YearsInit /\ [][YearsNext]_yearVars

-----------------------------------------------------------------------------
(* Properties.                                                             *)

Stages == {"read", "check", "insert", "commit",
           "created", "duplicate", "overlap", "structure", "aborted"}

\* Rows and requests keep their types.
YearsTypeOK ==
  /\ years \subseteq Years
  /\ creation \in [Creators -> {None} \cup [at : Stages, year : Years]]

\* fiscal-year.schema.ts: no two years of a company share a day or a label,
\* however the creations that passed the check on the same reading overlap.
YearsAreApart ==
  \A y, z \in years :
    y.company = z.company /\ y # z => ~ Overlap(y, z) /\ y.label # z.label

\* Nobody is refused for a reason that is not there: each conflict names a
\* year the same company has, whichever of the two checks found it, and who is
\* told "created" finds the year.
AnswersAreJustified ==
  \A r \in Creators :
    /\ Stage(r) = "created" => Year(r) \in years
    /\ Stage(r) = "duplicate" =>
         \E z \in Siblings(Year(r)) : z.label = Year(r).label
    /\ Stage(r) = "overlap" => \E z \in Siblings(Year(r)) : Overlap(Year(r), z)

=============================================================================
