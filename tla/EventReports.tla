------------------------------ MODULE EventReports ------------------------------
(***************************************************************************)
(* server/runs_page.py, server/stats.py, events/store/usage.py,            *)
(* events/store/tools.py, events/otel.py: the reports made of a store's    *)
(* events.                                                                 *)
(***************************************************************************)
EXTENDS EventStores

Total(S, value(_)) == MapThenSumSet(value, S)

Typed(events, types) == {i \in events : Event[i].type \in types}

(* _STATUS_BY_TYPE and summarise_trace: the last event by timestamp that   *)
(* has a status.                                                           *)
StatusBy(type) ==
  CASE type = "agent_dispatched" -> "spawned"
    [] type = "agent_spawned"    -> "running"
    [] type = "agent_completed"  -> "completed"
    [] type = "agent_failed"     -> "failed"
    [] type \in {"budget_exceeded", "depth_limit_exceeded"} -> "rejected"
    [] OTHER -> "none"

Summary(events) ==
  LET with == {i \in events : StatusBy(Event[i].type) # "none"}
  IN  IF with = {} THEN "spawned"
      ELSE StatusBy(Event[CHOOSE i \in with : \A j \in with : At(j) <= At(i)].type)

(* assemble_runs_page: a page of traces, each summed up, those of another  *)
(* status left out afterwards; the total counts every trace.               *)
RunsPage(s, limit, offset, status) ==
  LET rows == Page(SqliteTraces(s, 0), limit, offset)
      summary(t) == Summary({i \in ToSet(s) : TraceOf(i) = t})
  IN  [rows  |-> SelectSeq(rows, LAMBDA t : status \in {"any", summary(t)}),
       total |-> SqliteCount(s, 0)]

-----------------------------------------------------------------------------
Tokens(i) == Event[i].tokens

(* compute_usage: totals over completed runs, and rows by a key.           *)
KeyOf(i, group) ==
  CASE group = "agent" -> Event[i].agent
    [] group = "trace" -> TraceOf(i)
    [] group = "model" -> Event[i].model

Usage(events, group) ==
  LET done == Typed(events, {"agent_completed"})
  IN  [tokens |-> Total(done, Tokens), runs |-> Cardinality(done),
       rows |-> {LET own == {i \in done : KeyOf(i, group) = k}
                 IN  [key |-> k, tokens |-> Total(own, Tokens),
                      runs |-> Cardinality(own)] :
                   k \in {KeyOf(i, group) : i \in done}}]

(* compute_tools with _summarise and _percentile, nearest rank with        *)
(* Python's rounding of halves to the even neighbour.                      *)
Rank(percent, n) ==
  LET scaled == percent * (n - 1)
      low    == scaled \div 100
      rest   == scaled % 100
  IN  low + IF rest > 50 \/ (rest = 50 /\ low % 2 = 1) THEN 1 ELSE 0

Percentile(sorted, percent) ==
  IF sorted = <<>> THEN 0 ELSE sorted[Rank(percent, Len(sorted)) + 1]

ToolEnds == {"tool_call_completed", "tool_call_failed"}

ToolRow(own) ==
  LET order  == SetToSortSeq(own, LAMBDA i, j :
                  \/ Event[i].duration < Event[j].duration
                  \/ Event[i].duration = Event[j].duration /\ i < j)
      sorted == [k \in DOMAIN order |-> Event[order[k]].duration]
  IN  [calls    |-> Cardinality(own),
       failures |-> Cardinality(Typed(own, {"tool_call_failed"})),
       p50 |-> Percentile(sorted, 50), p95 |-> Percentile(sorted, 95),
       p99 |-> Percentile(sorted, 99)]

Tools(events) ==
  LET over == Typed(events, ToolEnds)
  IN  {ToolRow({i \in over : Event[i].tool = t}) : t \in {Event[i].tool : i \in over}}

-----------------------------------------------------------------------------
(* build_stats.  compute_burn_rate: a bucket per period back from now.     *)
BurnRate(events, now, buckets) ==
  [k \in 1..buckets |->
     Total({i \in Typed(events, {"agent_completed"}) :
              At(i) >= now - buckets /\ now - At(i) = buckets - k}, Tokens)]

(* compute_rejection_counts.                                               *)
Reasons == {"budget", "depth", "cycle", "cap", "timeout"}

ReasonOf(i) ==
  CASE Event[i].type = "budget_exceeded"      -> "budget"
    [] Event[i].type = "depth_limit_exceeded" -> "depth"
    [] Event[i].type = "agent_failed"         -> Event[i].reason
    [] OTHER                                  -> "none"

Rejections(events) ==
  [r \in Reasons |-> Cardinality({i \in events : ReasonOf(i) = r})]

(* compute_workers_from_heartbeats, for worker w.                          *)
Beats(events, w) == {i \in Typed(events, {"worker_heartbeat"}) : Event[i].agent = w}

Stops(events, w) == {i \in Typed(events, {"worker_stopped"}) : Event[i].agent = w}

Fleet(events) == {Event[i].agent : i \in Typed(events, {"worker_heartbeat"})}

WorkerStatus(events, w, now, stale, down) ==
  LET last == Max({At(i) : i \in Beats(events, w)})
  IN  IF (\E i \in Stops(events, w) : At(i) >= last) \/ now - last >= down
      THEN "down" ELSE IF now - last >= stale THEN "stale" ELSE "healthy"

(* events/otel.py: what an event adds to the counters.                     *)
Metered(i) ==
  [calls  |-> IF Event[i].type \in ToolEnds THEN 1 ELSE 0,
   errors |-> IF Event[i].type = "tool_call_failed" THEN 1 ELSE 0,
   rejections |-> IF Event[i].type \in {"agent_failed", "budget_exceeded",
                                        "depth_limit_exceeded"} THEN 1 ELSE 0,
   tokens |-> IF Event[i].type = "agent_completed" THEN Tokens(i) ELSE 0]
=============================================================================
