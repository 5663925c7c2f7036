---------------------------- MODULE AthenaQuery ----------------------------
(***************************************************************************)
(* A cold-tier query (storage/athena_client.py AthenaClient): the client   *)
(* starts the query, polls it, and on success fetches its pages.  Each     *)
(* poll compares the bytes scanned with the cost guard before it looks at  *)
(* the state of the query and at the deadline.  Athena is external and     *)
(* runs beside the client: what a poll saw may have changed when the       *)
(* client acts on it.                                                      *)
(***************************************************************************)
EXTENDS Naturals, Sequences

CONSTANTS
  MaxScan,      \* ATHENA_MAX_SCAN_BYTES, in units
  ScanMost,     \* bound: units a query scans at most
  AtDatabase,   \* the database name: safe or unsafe
  AtAnswers     \* the results a query may have: pages of rows, the header row first

Header == "header"
AtPages == Seq(Seq(STRING))

ASSUME AthenaAssumption ==
  /\ MaxScan \in Nat /\ ScanMost \in Nat
  /\ AtAnswers \subseteq AtPages
  /\ \A pages \in AtAnswers : pages # <<>> /\ pages[1] # <<>> /\ Head(pages[1]) = Header

VARIABLES
  atCall,   \* the caller's side: pc, the arguments, what it has seen, the rows fetched, by page
  atQuery   \* Athena's side: state, units scanned, the pages of its result

athenaVars == <<atCall, atQuery>>

AtOutcomes == {"rows", "unsafe", "guard", "failed", "timeout", "error", "cancelled"}
AtLive == {"QUEUED", "RUNNING"}

\* What query_trace_fields() may be given; the drill-down service names a trace and fields only.
AtRequests == [trace : {"safe", "unsafe", "none"}, fields : {"none", "safe", "unsafe"},
               tenant : {"safe", "unsafe", "none"}, day : {"good", "bad", "none"}]

AthenaInit ==
  /\ \E r \in AtRequests :
       atCall = [pc |-> "builds", req |-> r, seen |-> 0, state |-> "none", late |-> FALSE,
                 page |-> 0, rows |-> <<>>, stopFailed |-> FALSE, counted |-> 0]
  /\ \E pages \in AtAnswers : atQuery = [state |-> "none", scanned |-> 0, pages |-> pages]

\* The call ends; the finally block of query() counts the bytes last seen.
Finally(outcome) == [atCall EXCEPT !.pc = outcome, !.counted = atCall.seen]
Cancelled(q) == IF q.state \in AtLive THEN [q EXCEPT !.state = "CANCELLED"] ELSE q

\* build_trace_fields_sql(): one unsafe value and no query is started.
Unsafe(r) == "unsafe" \in {AtDatabase, r.trace, r.fields, r.tenant} \/ r.day = "bad"
BuildSql ==
  /\ atCall.pc = "builds"
  /\ atCall' = [atCall EXCEPT !.pc = IF Unsafe(atCall.req) THEN "unsafe" ELSE "starts"]
  /\ UNCHANGED atQuery

\* query(): start_query_execution() in a thread.  It may fail and leave nothing
\* running; a caller cancelled meanwhile leaves a query nobody knows of.
StartQuery ==
  /\ atCall.pc = "starts"
  /\ \E o \in {"polls", "error", "cancelled"} :
       /\ atCall' = [atCall EXCEPT !.pc = o]
       /\ atQuery' = IF o = "error" THEN atQuery ELSE [atQuery EXCEPT !.state = "QUEUED"]

\* external: Athena runs the query and bills what it scans.
AthenaRuns ==
  /\ \/ atQuery.state = "QUEUED" /\ atQuery' = [atQuery EXCEPT !.state = "RUNNING"]
     \/ atQuery.state = "RUNNING" /\ atQuery.scanned < ScanMost /\ atQuery' = [atQuery EXCEPT !.scanned = @ + 1]
     \/ atQuery.state = "RUNNING" /\ \E s \in {"SUCCEEDED", "FAILED"} : atQuery' = [atQuery EXCEPT !.state = s]
     \/ atQuery.state \in AtLive /\ atQuery' = Cancelled(atQuery)
  /\ UNCHANGED atCall

\* time.monotonic() reaches the deadline.
DeadlinePasses ==
  /\ atCall.pc \in {"polls", "acts"} /\ ~atCall.late
  /\ atCall' = [atCall EXCEPT !.late = TRUE] /\ UNCHANGED atQuery

\* get_query_execution(): the state and the bytes scanned, in one answer.
Poll ==
  /\ atCall.pc = "polls"
  /\ atCall' = [atCall EXCEPT !.pc = "acts", !.state = atQuery.state,
                              !.seen = IF atQuery.scanned > @ THEN atQuery.scanned ELSE @]
  /\ UNCHANGED atQuery

\* _await_results(): the guard, then the state, then the deadline, then again.
Verdict(c) ==
  CASE c.seen > MaxScan -> "stops_guard"
    [] c.seen <= MaxScan /\ c.state = "SUCCEEDED" -> "fetches"
    [] c.seen <= MaxScan /\ c.state \in {"FAILED", "CANCELLED"} -> "failed"
    [] c.seen <= MaxScan /\ c.state \in AtLive -> IF c.late THEN "stops_timeout" ELSE "polls"

Acts ==
  /\ atCall.pc = "acts"
  /\ LET v == Verdict(atCall) IN
     atCall' = IF v = "failed" THEN Finally("failed") ELSE [atCall EXCEPT !.pc = v]
  /\ UNCHANGED atQuery

\* A plausible slip: the timeout is raised without stopping the query.
StopQueryGuardOnly ==
  /\ atCall.pc \in {"stops_guard", "stops_timeout"}
  /\ atCall' = Finally(IF atCall.pc = "stops_guard" THEN "guard" ELSE "timeout")
  /\ atQuery' = IF atCall.pc = "stops_guard" THEN Cancelled(atQuery) ELSE atQuery

\* _stop_query(): best effort; a failure is logged and the error raised all the same.
StopQuery ==
  /\ atCall.pc \in {"stops_guard", "stops_timeout"}
  /\ \E failed \in BOOLEAN :
       /\ atCall' = [Finally(IF atCall.pc = "stops_guard" THEN "guard" ELSE "timeout") EXCEPT !.stopFailed = failed]
       /\ atQuery' = IF failed THEN atQuery ELSE Cancelled(atQuery)

\* The header is dropped from the first page only, and only where it is one.
DataRows(page) ==
  IF atCall.page = 0 /\ page # <<>> /\ Head(page) = Header THEN Tail(page) ELSE page

\* _fetch_results(): get_query_results(), page by page.
FetchPage ==
  /\ atCall.pc = "fetches"
  /\ LET n == atCall.page + 1
         last == n = Len(atQuery.pages) IN
     atCall' = [(IF last THEN Finally("rows") ELSE atCall) EXCEPT
                  !.page = n, !.rows = Append(@, DataRows(atQuery.pages[n]))]
  /\ UNCHANGED atQuery

\* A call to Athena raises: no stop is sent.
CallRaises ==
  /\ atCall.pc \in {"polls", "fetches"}
  /\ atCall' = Finally("error") /\ UNCHANGED atQuery

\* The caller is cancelled at an await; a stop already handed to a thread may still be made.
CallerCancelled ==
  /\ atCall.pc \in {"polls", "stops_guard", "stops_timeout", "fetches"}
  /\ atCall' = Finally("cancelled")
  /\ \/ UNCHANGED atQuery
     \/ atCall.pc \in {"stops_guard", "stops_timeout"} /\ atQuery' = Cancelled(atQuery)

AthenaNext ==
  \/ BuildSql \/ StartQuery \/ AthenaRuns \/ DeadlinePasses \/ Poll \/ Acts \/ StopQuery
  \/ FetchPage \/ CallRaises \/ CallerCancelled

AthenaSpec == AthenaInit /\ [][AthenaNext]_athenaVars

-----------------------------------------------------------------------------
AthenaTypeOK ==
  /\ atCall.pc \in AtOutcomes \cup {"builds", "starts", "polls", "acts", "stops_guard", "stops_timeout", "fetches"}
  /\ atQuery.state \in AtLive \cup {"none", "SUCCEEDED", "FAILED", "CANCELLED"}
  /\ atQuery.scanned \in 0 .. ScanMost /\ atCall.seen \in 0 .. atQuery.scanned

\* A query that outlives its call was abandoned by an exception or a cancellation,
\* or could not be stopped: neither the guard nor the timeout leaves it running
\* (_await_results, _stop_query).
NoQueryLeftRunning ==
  atCall.pc \in AtOutcomes /\ atQuery.state \in AtLive => atCall.pc \in {"error", "cancelled"} \/ atCall.stopFailed

\* Rows are returned only for a query that ended within the guard, all of them and
\* without the header, and then the bytes counted are the bytes billed
\* (_await_results, _fetch_results, the finally block of query()).
RowsComplete == atCall.pc = "rows" =>
  /\ atQuery.scanned <= MaxScan /\ atCall.counted = atQuery.scanned
  /\ atCall.rows = [atQuery.pages EXCEPT ![1] = Tail(@)] /\ Head(atQuery.pages[1]) = Header

\* A cold-tier query: none is left running by the guard or the timeout, and rows are
\* complete and within the guard (storage/athena_client.py).
ColdQuerySafe == NoQueryLeftRunning /\ RowsComplete
=============================================================================
