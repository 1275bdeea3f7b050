----------------------------- MODULE MCEventHub -----------------------------
(***************************************************************************)
(* A run, a run it spawned, and a relay of a worker's events, which arrive *)
(* later than they happened: one of them is the heartbeat of that worker.  *)
(***************************************************************************)
EXTENDS EventHub

CONSTANTS r1, r2, relay, s1, s2

Ev(type, time, trace, parent, agent, tokens, tool, duration) ==
  [type |-> type, at |-> time, trace |-> trace, parent |-> parent,
   agent |-> agent, model |-> "m", tokens |-> tokens, tool |-> tool,
   duration |-> duration, reason |-> "trust"]

MCEvent ==
  << Ev("agent_spawned",       1, "t1", "none", "a", 0, "-", 0),
     Ev("tool_call_completed", 3, "t1", "none", "a", 0, "x", 4),
     Ev("agent_completed",     5, "t1", "none", "a", 2, "-", 0),
     Ev("tool_call_failed",    4, "t2", "t1",   "b", 0, "x", 1),
     Ev("agent_failed",        7, "t2", "t1",   "b", 0, "-", 0),
     Ev("worker_heartbeat",    0, "w",  "none", "w", 0, "-", 0),
     Ev("agent_completed",     2, "t3", "t2",   "b", 3, "-", 0),
     Ev("worker_stopped",      8, "w",  "none", "w", 0, "-", 0),
     Ev("budget_exceeded",     6, "t2", "t1",   "b", 0, "-", 0) >>

Programs(p, q, r) == (r1 :> p) @@ (r2 :> q) @@ (relay :> r)

(* The feed alone, with every event over; both stores, with the clock; one *)
(* store and every event, for the reports.                                 *)
MCSetting ==
  { [sinks |-> {"sse"}, start |-> 6, end |-> 6,
     program |-> Programs(<<1, 3>>, <<4>>, <<>>)],
    [sinks |-> {"memory", "sqlite"}, start |-> 1, end |-> 5,
     program |-> Programs(<<1, 2>>, <<4>>, <<7>>)],
    [sinks |-> {"memory"}, start |-> 0, end |-> 8,
     program |-> Programs(<<1, 2, 3>>, <<4, 9, 5>>, <<6, 7, 8>>)] }

Consumers == Permutations(Subscriber)
=============================================================================
