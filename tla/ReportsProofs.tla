--------------------------- MODULE ReportsProofs ---------------------------
(***************************************************************************)
(* The figures of an answer and the pages of a list, for any number of     *)
(* rows, reports and clients and any page size.  The inductive invariant   *)
(* IInv orders what the SELECTs of a report have seen, and keeps for each  *)
(* row a client has yet to be shown that it stands on a page to come.      *)
(***************************************************************************)
EXTENDS Reports, FiniteSetTheorems, TLAPS

\* Rows only come in, so a later SELECT sees all that an earlier one saw.
FiguresInv ==
  \A q \in Report :
    /\ began[q] \subseteq stored /\ series[q] \subseteq stored
    /\ pc[q] = "series" => series[q] = {}
    /\ pc[q] = "new" => series[q] = {}
    /\ pc[q] \in {"average", "done"} =>
         began[q] \cup series[q] \subseteq counts[q] /\ counts[q] \subseteq stored
    /\ pc[q] = "done" => counts[q] \subseteq average[q] /\ average[q] \subseteq stored

\* Rows that were there at the first page and have not been shown stand on the
\* page a client asks for or on a later one; what it counted was stored.
PagesInv ==
  \A c \in Client :
    /\ old[c] \subseteq stored /\ counted[c] \subseteq stored
    /\ at[c] = "start" => page[c] = 1
    /\ at[c] \in {"list", "next"} =>
         \A v \in old[c] \ got[c] : (page[c] - 1) * PageSize <= Rank(stored, v)
    /\ at[c] = "end" /\ late[c] = {} => old[c] \subseteq got[c]

IInv == TypeOK /\ FiguresInv /\ PagesInv

---------------------------------------------------------------------------
\* Sets of rows are finite, and so are the rows before a row.
LEMMA RowsFinite ==
  ASSUME NEW S \in SUBSET Row
  PROVE  IsFiniteSet(S) /\ Cardinality(S) \in Nat
<1>1. IsFiniteSet(S)
  BY ReportsAssumption, FS_Subset
<1> QED
  BY <1>1, FS_CardinalityType

\* Of more rows, at least as many have a decision.
LEMMA CountMonotone ==
  ASSUME NEW S \in SUBSET Row, NEW T \in SUBSET S, NEW d
  PROVE  Count(T, d) <= Count(S, d)
<1> DEFINE of(U) == {v \in U : Decided[v] = d}
<1>1. of(T) \in SUBSET of(S) /\ of(S) \in SUBSET Row
  OBVIOUS
<1>2. Cardinality(of(T)) <= Cardinality(of(S))
  BY <1>1, RowsFinite, FS_Subset
<1> QED
  BY <1>2 DEF Count

\* A row's rank is a number below that of the rows, and never falls.
LEMMA RankType ==
  ASSUME NEW S \in SUBSET Row, NEW v \in S
  PROVE  Rank(S, v) \in Nat /\ Rank(S, v) < Cardinality(S)
<1> DEFINE before == {w \in S : Created[w] > Created[v]}
<1>1. before \in SUBSET S /\ before \in SUBSET Row
  OBVIOUS
<1>2. v \notin before
  BY ReportsAssumption
<1>3. Cardinality(before) \in Nat /\ Cardinality(S) \in Nat /\ IsFiniteSet(S)
  BY <1>1, RowsFinite
<1>4. Cardinality(before) <= Cardinality(S) /\ Cardinality(before) # Cardinality(S)
  BY <1>1, <1>2, <1>3, FS_Subset
<1> QED
  BY <1>3, <1>4 DEF Rank

LEMMA RankMonotone ==
  ASSUME NEW S \in SUBSET Row, NEW T \in SUBSET S, NEW v
  PROVE  Rank(T, v) \in Nat /\ Rank(S, v) \in Nat /\ Rank(T, v) <= Rank(S, v)
<1> DEFINE before(U) == {w \in U : Created[w] > Created[v]}
<1>1. /\ before(T) \in SUBSET before(S)
      /\ before(S) \in SUBSET Row /\ before(T) \in SUBSET Row
  OBVIOUS
<1>2. /\ Cardinality(before(T)) \in Nat /\ Cardinality(before(S)) \in Nat
      /\ Cardinality(before(T)) <= Cardinality(before(S))
  BY <1>1, RowsFinite, FS_Subset
<1> QED
  BY <1>2 DEF Rank

\* total_pages pages hold all rows: the division rounds up.
LEMMA PagesHoldAll ==
  ASSUME NEW n \in Nat, NEW p \in Nat, ~(p < TotalPages(n))
  PROVE  n <= p * PageSize
<1>1. PageSize \in Nat \ {0}
  BY ReportsAssumption
<1> DEFINE t == (n + PageSize - 1) \div PageSize
<1>2. t \in Nat /\ n <= t * PageSize
  BY <1>1
<1>3. t <= p
  BY <1>2 DEF TotalPages
<1>4. t * PageSize <= p * PageSize
  BY <1>1, <1>2, <1>3
<1> QED
  BY <1>1, <1>2, <1>4

\* A row that the list of page p does not show stands before it or after it.
LEMMA PageOrBeyond ==
  ASSUME NEW S \in SUBSET Row, NEW v \in S, NEW p \in Nat \ {0},
         (p - 1) * PageSize <= Rank(S, v), v \notin PageOf(S, p)
  PROVE  p * PageSize <= Rank(S, v)
<1>1. Rank(S, v) \in Nat /\ PageSize \in Nat
  BY RankType, ReportsAssumption
<1>2. ~(Rank(S, v) < p * PageSize)
  BY DEF PageOf
<1>3. p * PageSize \in Nat
  BY <1>1
<1> QED
  BY <1>1, <1>2, <1>3
---------------------------------------------------------------------------
LEMMA InitIInv ==
  ASSUME Init
  PROVE  IInv
<1>1. TypeOK
  BY DEF Init, TypeOK
<1> QED
  BY <1>1 DEF Init, IInv, FiguresInv, PagesInv

\* Every step keeps the types.
LEMMA StepTypeOK ==
  ASSUME TypeOK, [Next]_vars
  PROVE  TypeOK'
<1> USE DEF TypeOK
<1>1. ASSUME NEW v \in Row, Store(v)
      PROVE  TypeOK'
  BY <1>1 DEF Store, reportVars, clientVars
<1>2. ASSUME NEW q \in Report, Begin(q, "series") \/ Begin(q, "counts")
      PROVE  TypeOK'
  BY <1>2 DEF Begin, Goto, clientVars
<1>3. ASSUME NEW q \in Report, ReadSeries(q)
      PROVE  TypeOK'
  BY <1>3 DEF ReadSeries, Goto, clientVars
<1>4. ASSUME NEW q \in Report, ReadCounts(q)
      PROVE  TypeOK'
  BY <1>4 DEF ReadCounts, Goto, clientVars
<1>5. ASSUME NEW q \in Report, ReadAverage(q)
      PROVE  TypeOK'
  BY <1>5 DEF ReadAverage, Goto, clientVars
<1>6. ASSUME NEW c \in Client, CountRows(c)
      PROVE  TypeOK'
  BY <1>6 DEF CountRows, reportVars
<1>7. ASSUME NEW c \in Client, ListRows(c)
      PROVE  TypeOK'
  <2>1. PageOf(stored, page[c]) \subseteq Row
    BY DEF PageOf
  <2> QED
    BY <1>7, <2>1 DEF ListRows, reportVars
<1>8. CASE UNCHANGED vars
  BY <1>8 DEF vars, reportVars, clientVars
<1> QED
  BY <1>1, <1>2, <1>3, <1>4, <1>5, <1>6, <1>7, <1>8 DEF Next

\* A row that commits is missing from what the SELECTs before it saw, and in
\* all that follow.
LEMMA StepFiguresInv ==
  ASSUME TypeOK, FiguresInv, [Next]_vars
  PROVE  FiguresInv'
<1> SUFFICES ASSUME NEW p \in Report
             PROVE  /\ began'[p] \subseteq stored' /\ series'[p] \subseteq stored'
                    /\ pc'[p] \in {"new", "series"} => series'[p] = {}
                    /\ pc'[p] \in {"average", "done"} =>
                         began'[p] \cup series'[p] \subseteq counts'[p] /\ counts'[p] \subseteq stored'
                    /\ pc'[p] = "done" => counts'[p] \subseteq average'[p] /\ average'[p] \subseteq stored'
  BY DEF FiguresInv
<1> USE DEF TypeOK, FiguresInv
<1>1. ASSUME NEW v \in Row, Store(v)
      PROVE  stored \subseteq stored' /\ UNCHANGED reportVars
  BY <1>1 DEF Store
<1>2. ASSUME NEW q \in Report, Begin(q, "series") \/ Begin(q, "counts")
      PROVE  /\ stored' = stored /\ UNCHANGED <<series, counts, average>>
             /\ pc[q] = "new" /\ pc'[q] \in {"series", "counts"} /\ began'[q] = stored
             /\ p # q => pc'[p] = pc[p] /\ began'[p] = began[p]
  BY <1>2 DEF Begin, Goto
<1>3. ASSUME NEW q \in Report, ReadSeries(q)
      PROVE  /\ stored' = stored /\ UNCHANGED <<began, counts, average>>
             /\ pc'[q] = "counts" /\ series'[q] \subseteq stored
             /\ p # q => pc'[p] = pc[p] /\ series'[p] = series[p]
  BY <1>3 DEF ReadSeries, Goto
<1>4. ASSUME NEW q \in Report, ReadCounts(q)
      PROVE  /\ stored' = stored /\ UNCHANGED <<began, series, average>>
             /\ pc'[q] = "average" /\ counts'[q] = stored
             /\ p # q => pc'[p] = pc[p] /\ counts'[p] = counts[p]
  BY <1>4 DEF ReadCounts, Goto
<1>5. ASSUME NEW q \in Report, ReadAverage(q)
      PROVE  /\ stored' = stored /\ UNCHANGED <<began, series, counts>>
             /\ pc[q] = "average" /\ pc'[q] = "done" /\ average'[q] = stored
             /\ p # q => pc'[p] = pc[p] /\ average'[p] = average[p]
  BY <1>5 DEF ReadAverage, Goto
<1>6. ASSUME NEW c \in Client, CountRows(c) \/ ListRows(c)
      PROVE  UNCHANGED <<stored, reportVars>>
  BY <1>6 DEF CountRows, ListRows
<1>7. CASE \E v \in Row : Store(v)
  BY <1>1, <1>7 DEF reportVars
<1>8. CASE \E q \in Report : Begin(q, "series") \/ Begin(q, "counts")
  BY <1>2, <1>8
<1>9. CASE \E q \in Report : ReadSeries(q)
  BY <1>3, <1>9
<1>10. CASE \E q \in Report : ReadCounts(q)
  BY <1>4, <1>10
<1>11. CASE \E q \in Report : ReadAverage(q)
  BY <1>5, <1>11
<1>12. CASE UNCHANGED <<stored, reportVars>>
  BY <1>12 DEF reportVars
<1> QED
  BY <1>6, <1>7, <1>8, <1>9, <1>10, <1>11, <1>12 DEF Next, vars

\* Rows that come in only push the others back, and a page that is shown takes
\* away the rows that stand on it.
LEMMA StepPagesInv ==
  ASSUME TypeOK, PagesInv, [Next]_vars
  PROVE  PagesInv'
<1> SUFFICES ASSUME NEW k \in Client
             PROVE  /\ old'[k] \subseteq stored' /\ counted'[k] \subseteq stored'
                    /\ at'[k] = "start" => page'[k] = 1
                    /\ at'[k] \in {"list", "next"} =>
                         \A v \in old'[k] \ got'[k] :
                           (page'[k] - 1) * PageSize <= Rank(stored', v)
                    /\ at'[k] = "end" /\ late'[k] = {} => old'[k] \subseteq got'[k]
  BY DEF PagesInv, Rank
<1>0. /\ PageSize \in Nat /\ page[k] \in Nat \ {0} /\ stored \subseteq Row
      /\ old[k] \subseteq stored /\ counted[k] \subseteq stored
      /\ at[k] = "start" => page[k] = 1
      /\ at[k] \in {"list", "next"} =>
           \A v \in old[k] \ got[k] : (page[k] - 1) * PageSize <= Rank(stored, v)
      /\ at[k] = "end" /\ late[k] = {} => old[k] \subseteq got[k]
  BY ReportsAssumption DEF TypeOK, PagesInv
<1>1. ASSUME NEW c \in Client, c # k, CountRows(c) \/ ListRows(c)
      PROVE  /\ stored' = stored /\ at'[k] = at[k] /\ page'[k] = page[k]
             /\ counted'[k] = counted[k] /\ got'[k] = got[k]
             /\ old'[k] = old[k] /\ late'[k] = late[k]
  BY <1>1 DEF CountRows, ListRows, TypeOK
<1>2. CASE \E v \in Row : Store(v)
  <2>1. stored \subseteq stored' /\ stored' \subseteq Row /\ UNCHANGED clientVars
    BY <1>0, <1>2 DEF Store
  <2>2. ASSUME NEW v
        PROVE  Rank(stored, v) <= Rank(stored', v) /\ Rank(stored, v) \in Nat /\ Rank(stored', v) \in Nat
    BY <2>1, RankMonotone
  <2>3. (page[k] - 1) * PageSize \in Nat
    BY <1>0
  <2> QED
    BY <1>0, <2>1, <2>2, <2>3 DEF clientVars
<1>3. CASE CountRows(k)
  <2>1. /\ at[k] \in {"start", "next"} /\ at'[k] = "list" /\ counted'[k] = stored
        /\ stored' = stored /\ page' = page /\ got' = got
        /\ old'[k] = IF at[k] = "start" THEN stored ELSE old[k]
    BY <1>3 DEF CountRows, TypeOK
  <2>2. CASE at[k] = "start"
    <3>1. (page[k] - 1) * PageSize = 0
      BY <1>0, <2>2
    <3>2. \A v \in stored : Rank(stored, v) \in Nat
      BY <1>0, RankType
    <3> QED
      BY <2>1, <2>2, <3>1, <3>2
  <2> QED
    BY <1>0, <2>1, <2>2
<1>4. CASE ListRows(k)
  <2>1. /\ at[k] = "list" /\ stored' = stored /\ counted' = counted /\ old' = old
        /\ got'[k] = got[k] \cup PageOf(stored, page[k])
    BY <1>4 DEF ListRows, TypeOK
  <2>2. \A v \in old[k] \ got'[k] : page[k] * PageSize <= Rank(stored, v)
    BY <1>0, <2>1, PageOrBeyond
  <2>3. CASE page[k] < TotalPages(Cardinality(counted[k]))
    <3>1. at'[k] = "next" /\ page'[k] = page[k] + 1
      BY <1>4, <2>3 DEF ListRows, TypeOK
    <3>2. (page'[k] - 1) * PageSize = page[k] * PageSize
      BY <1>0, <3>1
    <3> QED
      BY <1>0, <2>1, <2>2, <3>1, <3>2
  <2>4. CASE ~(page[k] < TotalPages(Cardinality(counted[k])))
    <3>1. at'[k] = "end" /\ late'[k] = stored \ counted[k]
      BY <1>4, <2>4 DEF ListRows, TypeOK
    <3>2. ASSUME late'[k] = {}
          PROVE  old[k] \subseteq got'[k]
      <4>1. counted[k] = stored
        BY <1>0, <3>1, <3>2
      <4>2. Cardinality(stored) <= page[k] * PageSize
        BY <1>0, <2>4, <4>1, RowsFinite, PagesHoldAll
      <4>3. \A v \in old[k] : Rank(stored, v) \in Nat /\ Rank(stored, v) < Cardinality(stored)
        BY <1>0, RankType
      <4>4. Cardinality(stored) \in Nat /\ page[k] * PageSize \in Nat
        BY <1>0, RowsFinite
      <4> QED
        BY <2>2, <4>2, <4>3, <4>4
    <3> QED
      BY <1>0, <2>1, <3>1, <3>2
  <2> QED
    BY <2>3, <2>4
<1>5. CASE UNCHANGED <<stored, clientVars>>
  BY <1>0, <1>5 DEF clientVars
<1>6. ASSUME NEW q \in Report, Begin(q, "series") \/ Begin(q, "counts")
                                \/ ReadSeries(q) \/ ReadCounts(q) \/ ReadAverage(q)
      PROVE  UNCHANGED <<stored, clientVars>>
  BY <1>6 DEF Begin, ReadSeries, ReadCounts, ReadAverage
<1>7. ASSUME NEW c \in Client, c # k, CountRows(c) \/ ListRows(c)
      PROVE  UNCHANGED <<stored, at[k], page[k], counted[k], got[k], old[k], late[k]>>
  BY <1>1, <1>7
<1>8. CASE \E c \in Client : c # k /\ (CountRows(c) \/ ListRows(c))
  BY <1>0, <1>7, <1>8
<1> QED
  BY <1>2, <1>3, <1>4, <1>5, <1>6, <1>8 DEF Next, vars

---------------------------------------------------------------------------
LEMMA Invariance == Spec => []IInv
<1>1. Init => IInv
  BY InitIInv
<1>2. IInv /\ [Next]_vars => IInv'
  BY StepTypeOK, StepFiguresInv, StepPagesInv DEF IInv
<1> QED
  BY <1>1, <1>2, PTL DEF Spec

\* Type correctness of reports and readers.
THEOREM TypeCorrect == Spec => []TypeOK
<1>1. IInv => TypeOK
  BY DEF IInv
<1> QED
  BY <1>1, Invariance, PTL

\* No day of an analytics answer shows more of a decision than its summary
\* does: get_analytics reads the series first, and rows only come in.
THEOREM SeriesWithinSummaryHolds == Spec => []SeriesWithinSummary
<1>1. IInv => SeriesWithinSummary
  <2> SUFFICES ASSUME IInv, NEW q \in Report, pc[q] = "done", NEW v \in Row, NEW d \in Decision
               PROVE  Daily(q, Day[v], d) <= Count(counts[q], d)
    BY DEF SeriesWithinSummary
  <2> DEFINE ofDay == {w \in series[q] : Day[w] = Day[v]}
  <2>1. counts[q] \in SUBSET Row /\ ofDay \in SUBSET counts[q]
    BY DEF IInv, TypeOK, FiguresInv
  <2> QED
    BY <2>1, CountMonotone DEF Daily
<1> QED
  BY <1>1, Invariance, PTL

\* The counts and the average of an answer are of instants of its request, the
\* average never of the earlier one.
THEOREM FiguresBracketedHolds == Spec => []FiguresBracketed
<1>1. IInv => FiguresBracketed
  BY DEF IInv, FiguresInv, FiguresBracketed
<1> QED
  BY <1>1, Invariance, PTL

\* Who reads every page of paginate misses no row that was there at the first,
\* unless one committed between the count and the list of the last page.
THEOREM PagesCoverOldRowsHolds == Spec => []PagesCoverOldRows
<1>1. IInv => PagesCoverOldRows
  BY DEF IInv, PagesInv, PagesCoverOldRows
<1> QED
  BY <1>1, Invariance, PTL
=============================================================================
