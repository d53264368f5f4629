---------------------------- MODULE ProcessEvents ----------------------------
(***************************************************************************)
(* The process event store and what the admin pages make of it.  A store   *)
(* is the sequence of its rows, in the order of their ids; a row has the   *)
(* columns that something filters or groups by.  Queries answer ids.       *)
(***************************************************************************)
EXTENDS Integers, Sequences, FiniteSets, SequencesExt, FiniteSetsExt

CONSTANT DEFAULT_MAX_LINES

ASSUME LinesAssumption == DEFAULT_MAX_LINES \in Nat \ {0}

Events(traces, types, codes, times) ==
  [trace: traces, type: types, severity: {"INFO", "ERROR"}, code: codes, time: times]

\* query_process_events: a filter is a function on the columns it sets, and
\* on "from" and "to".
Matches(e, filter) ==
  \A k \in DOMAIN filter :
    CASE k = "from" -> e.time >= filter[k]
      [] k = "to"   -> e.time <= filter[k]
      [] OTHER      -> e[k] = filter[k]

\* ORDER BY timestamp; the index gives rows of one time by id.  The k-th row
\* of the answer is the one that comes after k - 1 others.
Earlier(es, i, j) == es[i].time < es[j].time \/ (es[i].time = es[j].time /\ i < j)
Query(es, filter) ==
  LET ids == {i \in DOMAIN es : Matches(es[i], filter)}
  IN [k \in 1..Cardinality(ids) |->
        CHOOSE i \in ids : Cardinality({j \in ids : Earlier(es, j, i)}) = k - 1]

NoFilter == <<>>

Shorter(s, n) == SubSeq(s, 1, IF n < Len(s) THEN n ELSE Len(s))

\* Mutant: the rows are limited before they are sorted.
Recent_firstRows(es, limit) ==
  LET n    == IF limit < 0 THEN Len(es) + limit ELSE limit
      rows == Shorter([i \in DOMAIN es |-> i], n)
  IN Reverse(SelectSeq(Query(es, NoFilter), LAMBDA i : i \in Range(rows)))

\* get_recent_events.  A negative limit is no limit for SQLite, and then the
\* slice drops as many of the oldest.
Recent(es, limit) ==
  LET newest == Reverse(Query(es, NoFilter))
  IN IF limit < 0 THEN Shorter(newest, Len(newest) + limit)
     ELSE Shorter(newest, limit)

\* An error event without a code is listed as "UNKNOWN".
ErrorCode(e) == IF e.code = "" THEN "UNKNOWN" ELSE e.code

\* Mutant: the events of one code are one entry, whatever their type.
Grouped_byCode(groups, e) ==
  LET old == {g \in groups : g.code = ErrorCode(e)}
  IN IF old = {}
     THEN groups \cup {[code |-> ErrorCode(e), type |-> e.type, count |-> 1, first |-> e.time]}
     ELSE LET g == CHOOSE g \in old : TRUE
          IN (groups \ {g}) \cup {[g EXCEPT !.count = 1]}

\* One turn of the loop of get_error_timeline: an event joins its group.
Grouped(groups, e) ==
  LET old == {g \in groups : g.code = ErrorCode(e) /\ g.type = e.type}
  IN IF old = {}
     THEN groups \cup {[code |-> ErrorCode(e), type |-> e.type, count |-> 1, first |-> e.time]}
     ELSE LET g == CHOOSE g \in old : TRUE
          IN (groups \ {g}) \cup
               {[g EXCEPT !.count = @ + 1, !.first = IF e.time < @ THEN e.time ELSE @]}

Timeline(es, from, to) ==
  LET ids == Query(es, [from |-> from, to |-> to, severity |-> "ERROR"])
      groups[k \in 0..Len(ids)] ==
        IF k = 0 THEN {} ELSE Grouped(groups[k - 1], es[ids[k]])
  IN groups[Len(ids)]

\* get_dashboard_summary, of which only the counts are data.
Summary(es) ==
  [total |-> Len(es), errors |-> Cardinality({i \in DOMAIN es : es[i].severity = "ERROR"})]

\* Mutant: a limit the caller gives is taken as it is.
MaxLines_asGiven(n) == n

MaxLines(n) == IF n > 0 /\ n <= DEFAULT_MAX_LINES THEN n ELSE DEFAULT_MAX_LINES

\* request_log_export and build_log_report.  (Nothing in the program writes
\* the SQLite table audit_log, whose rows would be merged in.)
Report(es, filter, max) ==
  LET all == Query(es, filter)
  IN [lines |-> Shorter(all, MaxLines(max)), total |-> Len(all),
      truncated |-> Len(all) > MaxLines(max)]
=============================================================================
