------------------------------ MODULE EventStores ------------------------------
(***************************************************************************)
(* events/store/memory.py, events/store/sqlite.py: what the two event      *)
(* stores answer about the events they hold.  A store is the sequence of   *)
(* its events in the order they were appended; an event is an index into   *)
(* Event, with a timestamp of its own (at), which need not grow with that  *)
(* order: events of a remote worker arrive late.                           *)
(***************************************************************************)
EXTENDS Integers, FiniteSetsExt, SequencesExt, Subsequence

CONSTANTS
  Event,        (* Event[i]: [type, at, trace, parent, agent, tokens, ...]  *)
  NoParent,
  AnyTrace

At(i) == Event[i].at
TraceOf(i) == Event[i].trace
ParentOf(i) == Event[i].parent
TopLevel(i) == ParentOf(i) = NoParent

Newer(i, j) == At(i) > At(j)
Older(i, j) == At(i) < At(j)

FirstOf(s, n) == SubSeq(s, 1, IF n < Len(s) THEN n ELSE Len(s))

(* A filter: since, the types asked for, the trace.  None of types is None *)
(* in the first store and the empty sequence in the second.                *)
Matches(i, since, types, trace) ==
  /\ At(i) >= since
  /\ trace # AnyTrace => TraceOf(i) = trace
  /\ Event[i].type \in types

-----------------------------------------------------------------------------
(* InMemoryEventStore.  query goes backwards and looks at the limit only   *)
(* after it has added an event.                                            *)
MemoryQueryOldestFirst(s, since, types, trace, limit) ==
  FirstOf(SelectSeq(s, LAMBDA i : Matches(i, since, types, trace)),
          IF limit < 1 THEN 1 ELSE limit)

MemoryQuery(s, since, types, trace, limit) ==
  FirstOf(SelectSeq(Reverse(s), LAMBDA i : Matches(i, since, types, trace)),
          IF limit < 1 THEN 1 ELSE limit)

(* tree walks the parent links of every event ever appended, then collects *)
(* the events it still holds.                                              *)
Below(children, root) ==
  LET Reach[n \in 0..Cardinality(children)] ==
        IF n = 0 THEN {root}
        ELSE Reach[n - 1] \cup {c[2] : c \in {d \in children : d[1] \in Reach[n - 1]}}
  IN  Reach[Cardinality(children)]

Links(events) == {<<ParentOf(i), TraceOf(i)>> : i \in {j \in events : ~TopLevel(j)}}

Family(events, links, root) == {i \in events : TraceOf(i) \in Below(links, root)}

MemoryTree(s, children, root) == SetToSortSeq(Family(ToSet(s), children, root), Older)

(* list_traces: top-level traces by their last event, newest first.        *)
LastOf(events, t) == Max({At(i) : i \in {j \in events : TraceOf(j) = t}})

MemoryTraces(s, since) ==
  LET top == {i \in ToSet(s) : TopLevel(i) /\ At(i) >= since}
  IN  SetToSortSeq({TraceOf(i) : i \in top},
                   LAMBDA t, u : LastOf(top, t) > LastOf(top, u))

Page(traces, limit, offset) == FirstOf(SubSeq(traces, offset + 1, Len(traces)), limit)

-----------------------------------------------------------------------------
(* SQLiteEventStore: ORDER BY ts DESC LIMIT, an empty list of types is no  *)
(* filter at all, and the descendants are found through stored events.     *)
SqliteQuery(s, since, types, trace, limit, all) ==
  FirstOf(SetToSortSeq({i \in ToSet(s) : Matches(i, since, IF types = {} THEN all
                                                           ELSE types, trace)}, Newer),
          limit)

SqliteTree(s, root) == SetToSortSeq(Family(ToSet(s), Links(ToSet(s)), root), Older)

SqliteTraces(s, since) == MemoryTraces(s, since)

SqliteCount(s, since) ==
  Cardinality({TraceOf(i) : i \in {j \in ToSet(s) : TopLevel(j) /\ At(j) >= since}})

-----------------------------------------------------------------------------
(* Retention.  The deque drops its oldest arrival when it is full, then    *)
(* expired events from its head, up to the first that is not.              *)
Expired(i, now, ttl) == At(i) < now - ttl

DropHead(s, now, ttl) ==
  LET fresh == {k \in DOMAIN s : ~Expired(s[k], now, ttl)}
  IN  IF fresh = {} THEN <<>> ELSE SubSeq(s, Min(fresh), Len(s))

MemoryAppend(s, i, cap, now, ttl) ==
  DropHead(IF Len(s) < cap THEN Append(s, i) ELSE Append(Tail(s), i), now, ttl)

(* _prune_sync: what has expired, then the oldest by timestamp beyond the  *)
(* row cap; which of several that are equally old, SQLite does not say.    *)
Fresh(s, now, ttl) == Without(s, {i \in ToSet(s) : Expired(i, now, ttl)})

OldestTakesNewest(events, n) ==
  {x \in kSubset(n, events) : \A i \in x, j \in events \ x : At(i) >= At(j)}

Oldest(events, n) ==
  {x \in kSubset(n, events) : \A i \in x, j \in events \ x : At(i) <= At(j)}
=============================================================================
