------------------------------ MODULE Reports ------------------------------
(***************************************************************************)
(* Reading what was recorded: the dashboard and its analytics, which put   *)
(* the results of several SELECTs into one answer, and the paginated       *)
(* lists, which a client reads page by page in separate requests.          *)
(*                                                                         *)
(* At READ COMMITTED each SELECT sees the rows committed when it starts.   *)
(* Rows are never changed or deleted.  They carry the time they were       *)
(* inserted (created_at, the application's clock) and may become visible   *)
(* in another order.  The views keep the set of rows each SELECT saw: the  *)
(* figures of an answer are functions of these sets.                       *)
(***************************************************************************)
EXTENDS Naturals, FiniteSets

CONSTANTS
  Row,       \* verifications of one organization, with their results
  Created,   \* created_at of each
  Decided,   \* the decision of each
  Recent,    \* those inserted within the period of the analytics
  Day,       \* the day of each
  Report,    \* requests for the dashboard or its analytics
  Client,    \* clients that read a list from its first page to its last
  PageSize   \* rows per page

Decision == {"APPROVED", "REVIEW", "REJECT"}

ASSUME ReportsAssumption ==
  /\ IsFiniteSet(Row)
  /\ Created \in [Row -> Nat]
  /\ \A v, w \in Row : Created[v] = Created[w] => v = w
  /\ Decided \in [Row -> Decision]
  /\ Recent \subseteq Row
  /\ PageSize \in Nat \ {0}

VARIABLES
  stored,    \* the committed rows
  pc,        \* where each report is
  began,     \* history: the rows committed when it began
  series,    \* the rows the SELECT of the daily figures saw
  counts,    \* the rows the SELECT of the counts per decision saw
  average,   \* the rows the SELECT of the average score saw
  at,        \* where each client is
  page,      \* the page it asks for
  counted,   \* the rows that were counted for this page's total
  got,       \* the rows it has been shown
  old,       \* history: the rows committed when it asked for page 1
  late       \* history: the rows committed between count and list of its last page

reportVars == <<pc, began, series, counts, average>>
clientVars == <<at, page, counted, got, old, late>>
vars == <<stored, reportVars, clientVars>>

Init ==
  /\ stored = {}
  /\ pc = [q \in Report |-> "new"]
  /\ began = [q \in Report |-> {}]
  /\ series = [q \in Report |-> {}]
  /\ counts = [q \in Report |-> {}]
  /\ average = [q \in Report |-> {}]
  /\ at = [c \in Client |-> "start"]
  /\ page = [c \in Client |-> 1]
  /\ counted = [c \in Client |-> {}]
  /\ got = [c \in Client |-> {}]
  /\ old = [c \in Client |-> {}]
  /\ late = [c \in Client |-> {}]

Goto(q, from, to) == pc[q] = from /\ pc' = [pc EXCEPT ![q] = to]

\* A verification commits (VerificationPipeline's Commit).
Store(v) ==
  /\ v \notin stored
  /\ stored' = stored \cup {v}
  /\ UNCHANGED <<reportVars, clientVars>>

---------------------------------------------------------------------------
\* GET /dashboard/analytics begins with the series, GET /dashboard without.
Begin(q, first) ==
  /\ Goto(q, "new", first)
  /\ began' = [began EXCEPT ![q] = stored]
  /\ UNCHANGED <<stored, series, counts, average, clientVars>>

ReadSeries(q) ==
  /\ Goto(q, "series", "counts")
  /\ series' = [series EXCEPT ![q] = stored \cap Recent]
  /\ UNCHANGED <<stored, began, counts, average, clientVars>>

\* Mutant: the counts of an earlier answer are shown.
ReadCountsCached(q) ==
  /\ Goto(q, "counts", "average")
  /\ \E S \in SUBSET stored : counts' = [counts EXCEPT ![q] = S]
  /\ UNCHANGED <<stored, began, series, average, clientVars>>

ReadCounts(q) ==
  /\ Goto(q, "counts", "average")
  /\ counts' = [counts EXCEPT ![q] = stored]
  /\ UNCHANGED <<stored, began, series, average, clientVars>>

\* Mutant: the average is that of the analytics' period.
ReadAverageOfPeriod(q) ==
  /\ Goto(q, "average", "done")
  /\ average' = [average EXCEPT ![q] = stored \cap Recent]
  /\ UNCHANGED <<stored, began, series, counts, clientVars>>

\* The last SELECT on verifications; those for keys and members follow.
ReadAverage(q) ==
  /\ Goto(q, "average", "done")
  /\ average' = [average EXCEPT ![q] = stored]
  /\ UNCHANGED <<stored, began, series, counts, clientVars>>

---------------------------------------------------------------------------
\* The figures of an answer.
Count(S, d) == Cardinality({v \in S : Decided[v] = d})
Daily(q, day, d) == Count({v \in series[q] : Day[v] = day}, d)

---------------------------------------------------------------------------
\* How many rows of S stand before v in a list of the newest first.
Rank(S, v) == Cardinality({w \in S : Created[w] > Created[v]})

\* OFFSET and LIMIT.
PageOf(S, p) ==
  {v \in S : (p - 1) * PageSize <= Rank(S, v) /\ Rank(S, v) < p * PageSize}

\* Mutant: a last page that is not full is not counted.
FullPages(n) == n \div PageSize

TotalPages(n) == (n + PageSize - 1) \div PageSize

CountRows(c) ==
  /\ at[c] \in {"start", "next"}
  /\ at' = [at EXCEPT ![c] = "list"]
  /\ counted' = [counted EXCEPT ![c] = stored]
  /\ old' = IF at[c] = "start" THEN [old EXCEPT ![c] = stored] ELSE old
  /\ UNCHANGED <<stored, reportVars, page, got, late>>

ListRows(c) ==
  /\ at[c] = "list"
  /\ got' = [got EXCEPT ![c] = @ \cup PageOf(stored, page[c])]
  /\ IF page[c] < TotalPages(Cardinality(counted[c]))
       THEN /\ at' = [at EXCEPT ![c] = "next"]
            /\ page' = [page EXCEPT ![c] = @ + 1]
            /\ UNCHANGED late
       ELSE /\ at' = [at EXCEPT ![c] = "end"]
            /\ late' = [late EXCEPT ![c] = stored \ counted[c]]
            /\ UNCHANGED page
  /\ UNCHANGED <<stored, reportVars, counted, old>>

Next ==
  \/ \E v \in Row : Store(v)
  \/ \E q \in Report : Begin(q, "series") \/ Begin(q, "counts")
                        \/ ReadSeries(q) \/ ReadCounts(q) \/ ReadAverage(q)
  \/ \E c \in Client : CountRows(c) \/ ListRows(c)

Spec == Init /\ [][Next]_vars

---------------------------------------------------------------------------
TypeOK ==
  /\ stored \subseteq Row
  /\ pc \in [Report -> {"new", "series", "counts", "average", "done"}]
  /\ began \in [Report -> SUBSET Row]
  /\ series \in [Report -> SUBSET Row]
  /\ counts \in [Report -> SUBSET Row]
  /\ average \in [Report -> SUBSET Row]
  /\ at \in [Client -> {"start", "list", "next", "end"}]
  /\ page \in [Client -> Nat \ {0}]
  /\ counted \in [Client -> SUBSET Row]
  /\ got \in [Client -> SUBSET Row]
  /\ old \in [Client -> SUBSET Row]
  /\ late \in [Client -> SUBSET Row]

\* Within one analytics answer no day shows more of a decision than the summary
\* does: the series is read first, and what commits in between can only be
\* missing from it.
SeriesWithinSummary ==
  \A q \in Report : pc[q] = "done" =>
    \A v \in Row, d \in Decision : Daily(q, Day[v], d) <= Count(counts[q], d)

\* The counts and the average may be of different instants, but both of the
\* request's own time: each takes in all that was committed before it began and
\* nothing uncommitted, and the average all that the counts took in.
FiguresBracketed ==
  \A q \in Report : pc[q] = "done" =>
    /\ began[q] \subseteq counts[q]
    /\ counts[q] \subseteq average[q]
    /\ average[q] \subseteq stored

\* A client that reads all pages has been shown every row that was committed
\* when it asked for the first: rows that come in shift the others to later
\* pages, never to earlier ones.  The exception is a row that commits between
\* the count and the list of the last page, and pushes another off its end.
PagesCoverOldRows ==
  \A c \in Client : at[c] = "end" /\ late[c] = {} => old[c] \subseteq got[c]
=============================================================================
