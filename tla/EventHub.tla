------------------------------- MODULE EventHub -------------------------------
(***************************************************************************)
(* events/multi.py, events/sse.py, events/store: one emission goes to all  *)
(* sinks side by side and is over when all of them are.  Each sink runs    *)
(* without suspending until it meets a full queue (it logs that) or waits  *)
(* for the store's lock, so everything up to there is one step.            *)
(***************************************************************************)
EXTENDS EventReports

CONSTANTS
  Emitter,      (* runs, workers and the relay of a worker's events        *)
  Subscriber,
  Setting,      (* a process: its sinks among "sse", "memory" and "sqlite",*)
                (* the events each emitter emits in turn, its clock's range *)
  QueueMax, MemCap, RowCap, Ttl,
  MaxCuts       (* bound on the emissions that are cancelled               *)

ASSUME HubAssumption ==
  /\ QueueMax \in Nat \ {0} /\ MemCap \in Nat \ {0} /\ RowCap \in Nat \ {0}
  /\ Ttl \in Nat /\ MaxCuts \in Nat
  /\ DOMAIN Event \subseteq Nat \ {0} /\ \A i \in DOMAIN Event : At(i) \in Int

(* Each event is emitted once, by one emitter.                             *)
ASSUME ProgramsAssumption ==
  \A g \in Setting :
    /\ g.start \in Int
    /\ g.program \in [Emitter -> Seq(DOMAIN Event)]
    /\ \A m, n \in Emitter : \A i \in DOMAIN g.program[m], j \in DOMAIN g.program[n] :
         g.program[m][i] = g.program[n][j] => m = n /\ i = j

Ping == 0
Pruner == "pruner"
NoEvent == 0

VARIABLES
  now,
  setting,      (* never changes                                           *)
  at,           (* at[m]: how much of its program m has emitted            *)
  rest,         (* subscribers an emission of m has still to be offered to *)
  logging,      (* ... and whether it is logging an overflow meanwhile     *)
  inserting,    (* where the insert of m stands                            *)
  subs,         (* _subscribers, in order                                  *)
  queue, got,
  mem, children,
  rows, lock,   (* lock: its holder and the waiters, first come first      *)
  strays,       (* inserts whose emission was cancelled while in a thread  *)
  excess,       (* what a prune in progress has counted, or -1             *)
  log,          (* history: events in the order of their emission          *)
  due, full, cut, stored  (* history: see HubFaithful and RetentionExact   *)

clock  == <<now, setting>>
emits  == <<at, rest, logging, inserting>>
feed   == <<subs, queue, got>>
memory == <<mem, children>>
sqlite == <<rows, lock, strays, excess>>
past   == <<log, due, full, cut, stored>>
vars == <<clock, emits, feed, memory, sqlite, past>>

sinks == setting.sinks
Program(m) == setting.program[m]

Current(m) == IF at[m] = 0 THEN NoEvent ELSE Program(m)[at[m]]
Open(m) == rest[m] # <<>> \/ logging[m] \/ inserting[m] # "no"

Init ==
  /\ setting \in Setting /\ now = setting.start
  /\ at = [m \in Emitter |-> 0]
  /\ rest = [m \in Emitter |-> <<>>]
  /\ logging = [m \in Emitter |-> FALSE]
  /\ inserting = [m \in Emitter |-> "no"]
  /\ subs = <<>>
  /\ queue = [s \in Subscriber |-> <<>>] /\ got = [s \in Subscriber |-> <<>>]
  /\ mem = <<>> /\ children = {}
  /\ rows = <<>> /\ lock = <<>> /\ strays = {} /\ excess = -1
  /\ log = <<>> /\ stored = {}
  /\ due = [s \in Subscriber |-> {}] /\ full = [s \in Subscriber |-> {}]
  /\ cut = {}

-----------------------------------------------------------------------------
(* SSEEventEmitter.emit: put_nowait on the queues of the snapshot, up to   *)
(* the first that is full; that one is logged, which suspends the loop.    *)
FullAt(todo) == {k \in DOMAIN todo : Len(queue[todo[k]]) = QueueMax}

Reached(todo) == IF FullAt(todo) = {} THEN Len(todo) ELSE Min(FullAt(todo)) - 1

Put(todo, e) ==
  [s \in Subscriber |-> IF s \in ToSet(SubSeq(todo, 1, Reached(todo)))
                        THEN Append(queue[s], e) ELSE queue[s]]

AfterFullGivesUp(todo) == <<>>

AfterFull(todo) == SubSeq(todo, Reached(todo) + 2, Len(todo))

Overflowed(todo) == {todo[k] : k \in {j \in FullAt(todo) : j = Reached(todo) + 1}}

Offer(m, e, todo) ==
  /\ queue' = Put(todo, e)
  /\ rest' = [rest EXCEPT ![m] = AfterFull(todo)]
  /\ logging' = [logging EXCEPT ![m] = FullAt(todo) # {}]
  /\ full' = [s \in Subscriber |-> IF s \in Overflowed(todo) \cap ToSet(subs)
                                   THEN full[s] \cup {e} ELSE full[s]]

(* StoreEventEmitter into InMemoryEventStore.append.                       *)
ToMemoryForgets(e) ==                    \* mutant: links go with their events
  IF "memory" \in sinks
  THEN /\ mem' = MemoryAppend(mem, e, MemCap, now, Ttl)
       /\ children' = Links(ToSet(mem'))
  ELSE UNCHANGED memory

ToMemory(e) ==
  IF "memory" \in sinks
  THEN /\ mem' = MemoryAppend(mem, e, MemCap, now, Ttl)
       /\ children' = children \cup Links({e})
  ELSE UNCHANGED memory

(* MultiEventEmitter.emit.  An event is emitted once it has happened: at   *)
(* its own time, or later when it comes from a worker.                     *)
Emit(m) ==
  /\ ~Open(m) /\ at[m] < Len(Program(m))
  /\ LET e == Program(m)[at[m] + 1]
         snapshot == IF "sse" \in sinks THEN subs ELSE <<>>
     IN  /\ At(e) <= now
         /\ Offer(m, e, snapshot)
         /\ ToMemory(e)
         /\ log' = Append(log, e)
         /\ due' = [s \in Subscriber |-> IF s \in ToSet(snapshot)
                                         THEN due[s] \cup {e} ELSE due[s]]
  /\ at' = [at EXCEPT ![m] = @ + 1]
  /\ IF "sqlite" \in sinks
     THEN /\ inserting' = [inserting EXCEPT ![m] = "waiting"]
          /\ lock' = Append(lock, m)
     ELSE UNCHANGED <<inserting, lock>>
  /\ UNCHANGED <<clock, subs, got, rows, strays, excess, cut, stored>>

Logged(m) ==
  /\ logging[m]
  /\ Offer(m, Current(m), rest[m])
  /\ UNCHANGED <<clock, at, inserting, subs, got, memory, sqlite, log, due, cut, stored>>

-----------------------------------------------------------------------------
(* SQLiteEventStore.append: the insert runs in a thread under the lock.    *)
Begin(m) ==
  /\ lock # <<>> /\ Head(lock) = m /\ inserting[m] = "waiting"
  /\ inserting' = [inserting EXCEPT ![m] = "thread"]
  /\ UNCHANGED <<clock, at, rest, logging, feed, memory, sqlite, past>>

Inserted(m) ==
  /\ inserting[m] = "thread"
  /\ inserting' = [inserting EXCEPT ![m] = "no"]
  /\ rows' = Append(rows, Current(m))
  /\ stored' = stored \cup {Current(m)}
  /\ lock' = Tail(lock)
  /\ UNCHANGED <<clock, at, rest, logging, feed, memory, strays, excess,
                 log, due, full, cut>>

(* The emitting task is cancelled: the rest of the offers and a waiting    *)
(* insert are given up, a running one goes on in its thread although the   *)
(* lock is released.                                                       *)
Cancel(m) ==
  /\ Open(m) /\ Cardinality(cut) < MaxCuts
  /\ rest' = [rest EXCEPT ![m] = <<>>]
  /\ logging' = [logging EXCEPT ![m] = FALSE]
  /\ inserting' = [inserting EXCEPT ![m] = "no"]
  /\ lock' = RemoveFirst(lock, m)
  /\ strays' = IF inserting[m] = "thread" THEN strays \cup {Current(m)} ELSE strays
  /\ cut' = cut \cup {Current(m)}
  /\ UNCHANGED <<clock, at, feed, memory, rows, excess, log, due, full, stored>>

StrayInserted(e) ==
  /\ e \in strays
  /\ strays' = strays \ {e}
  /\ rows' = Append(rows, e)
  /\ stored' = stored \cup {e}
  /\ UNCHANGED <<clock, emits, feed, memory, lock, excess, log, due, full, cut>>

(* _prune_loop and _prune_sync: two deletes with a count between them.     *)
AskPrune ==
  /\ "sqlite" \in sinks /\ Pruner \notin ToSet(lock)
  /\ lock' = Append(lock, Pruner)
  /\ UNCHANGED <<clock, emits, feed, memory, rows, strays, excess, past>>

PruneExpired ==
  /\ lock # <<>> /\ Head(lock) = Pruner /\ excess = -1
  /\ rows' = Fresh(rows, now, Ttl)
  /\ excess' = IF Len(rows') > RowCap THEN Len(rows') - RowCap ELSE 0
  /\ UNCHANGED <<clock, emits, feed, memory, lock, strays, past>>

PruneExcess ==
  /\ excess # -1
  /\ \E gone \in Oldest(ToSet(rows), excess) : rows' = Without(rows, gone)
  /\ excess' = -1
  /\ lock' = Tail(lock)
  /\ UNCHANGED <<clock, emits, feed, memory, strays, past>>

-----------------------------------------------------------------------------
(* SSEEventEmitter.subscribe, its heartbeat task, and a consumer that goes *)
(* away: the queue leaves the list, an emission under way may still fill   *)
(* it.  One that was left empty stands for the queue of a new connection.  *)
Subscribe(s) ==
  /\ "sse" \in sinks /\ s \notin ToSet(subs) /\ queue[s] = <<>>
  /\ \A m \in Emitter : s \notin ToSet(rest[m])
  /\ subs' = Append(subs, s)
  /\ UNCHANGED <<clock, emits, queue, got, memory, sqlite, past>>

Take(s) ==
  /\ s \in ToSet(subs) /\ queue[s] # <<>>
  /\ queue' = [queue EXCEPT ![s] = Tail(@)]
  /\ got' = IF Head(queue[s]) = Ping THEN got
            ELSE [got EXCEPT ![s] = Append(@, Head(queue[s]))]
  /\ UNCHANGED <<clock, emits, subs, memory, sqlite, past>>

Heartbeat(s) ==
  /\ s \in ToSet(subs) /\ Len(queue[s]) < QueueMax
  /\ queue' = [queue EXCEPT ![s] = Append(@, Ping)]
  /\ UNCHANGED <<clock, emits, subs, got, memory, sqlite, past>>

Unsubscribe(s) ==
  /\ \E k \in DOMAIN subs : subs[k] = s /\ subs' = RemoveAt(subs, k)
  /\ got' = [got EXCEPT ![s] = <<>>]
  /\ due' = [due EXCEPT ![s] = {}] /\ full' = [full EXCEPT ![s] = {}]
  /\ UNCHANGED <<clock, emits, queue, memory, sqlite, log, cut, stored>>

Tick ==
  /\ now < setting.end
  /\ now' = now + 1
  /\ UNCHANGED <<setting, emits, feed, memory, sqlite, past>>

Next ==
  \/ \E m \in Emitter : Emit(m) \/ Logged(m) \/ Begin(m) \/ Inserted(m) \/ Cancel(m)
  \/ \E e \in strays : StrayInserted(e)
  \/ AskPrune \/ PruneExpired \/ PruneExcess
  \/ \E s \in Subscriber : Subscribe(s) \/ Take(s) \/ Heartbeat(s) \/ Unsubscribe(s)
  \/ Tick

Spec == Init /\ [][Next]_vars

-----------------------------------------------------------------------------
(* A consumer of the feed gets every event at most once and those of one   *)
(* emitter in the order they were emitted; it misses only what its own     *)
(* queue had no room for and what a cancelled emission had not offered     *)
(* yet.  A slow consumer costs nobody else an event.                       *)
(* sse.py:60-77, whose loop is suspended in the middle by an overflow.     *)
Place(e) == CHOOSE k \in DOMAIN log : log[k] = e

Owner(e) == CHOOSE m \in Emitter : e \in ToSet(Program(m))

Precedes(e, f) == e # f /\ (Owner(e) = Owner(f) => Place(e) < Place(f))

Coming(s) == {Current(m) : m \in {n \in Emitter : s \in ToSet(rest[n])}}

HubFaithful ==
  \A s \in ToSet(subs) :
    LET seen == got[s] \o queue[s]
    IN  /\ \A j, k \in DOMAIN seen :
             j < k /\ Ping \notin {seen[j], seen[k]} => Precedes(seen[j], seen[k])
        /\ ToSet(seen) \ {Ping} \subseteq due[s]
        /\ due[s] \ ToSet(seen) \subseteq full[s] \cup cut \cup Coming(s)

(* What the stores still hold: an event is missing only if it expired or   *)
(* enough others are at least as new (by arrival in memory, by timestamp   *)
(* in the table), whatever inserts ran beside the prune and whichever      *)
(* emission was cancelled; a finished emission is in the table.            *)
(* memory.py:123-131, sqlite.py:155-170 and 228-254.                       *)
RetentionExact ==
  /\ "memory" \in sinks =>
       \A e \in ToSet(log) \ ToSet(mem) :
         Expired(e, now, Ttl) \/ Len(log) - Place(e) >= MemCap
  /\ "sqlite" \in sinks =>
       /\ \A e \in ToSet(log) \ stored :
            e \in cut \/ \E m \in Emitter : Current(m) = e /\ inserting[m] # "no"
       /\ \A e \in stored \ ToSet(rows) :
            \/ Expired(e, now, Ttl)
            \/ Cardinality({i \in stored \ {e} : At(i) >= At(e)}) >= RowCap
       /\ IsInjective(rows)

(* The tree of a run, whatever each of the stores has dropped: what the    *)
(* table finds, memory finds as well, if it still holds it, since its      *)
(* links outlive the events they were read from; and a table that holds    *)
(* everything finds all that memory does.                                  *)
(* memory.py:78-93, sqlite.py:180-194.                                     *)
TreesAgree ==
  "memory" \in sinks =>
    \A t \in {TraceOf(i) : i \in DOMAIN Event} :
      LET walked == Family(ToSet(mem), children, t)
          joined == Family(ToSet(rows), Links(ToSet(rows)), t)
      IN  /\ joined \cap ToSet(mem) \subseteq walked
          /\ ToSet(rows) = ToSet(log) => walked \subseteq joined

(* Two stores with the same events give the same answers, in the same      *)
(* order when the events arrived in the order of their timestamps.  The    *)
(* pages of a listing are its partition.                                   *)
Monotone == \A j, k \in DOMAIN log : j < k => Older(log[j], log[k])

Types == {Event[i].type : i \in DOMAIN Event}
Traces == {TraceOf(i) : i \in DOMAIN Event}

QueriesExact ==
  ("memory" \in sinks /\ ToSet(mem) = ToSet(rows)) =>
    /\ \A t \in Traces \cup {AnyTrace}, types \in {Types, {"agent_completed"}} :
         LET newest == MemoryQuery(mem, 1, types, t, Len(log))
             stamped == SqliteQuery(rows, 1, types, t, Len(log), Types)
         IN  /\ ToSet(newest) = ToSet(stamped)
             /\ Monotone => newest = stamped
             /\ Monotone => MemoryQuery(mem, 1, types, t, 1)
                            = SqliteQuery(rows, 1, types, t, 1, Types)
    /\ Monotone /\ ToSet(mem) = ToSet(log) =>
         \A t \in Traces : MemoryTree(mem, children, t) = SqliteTree(rows, t)
    /\ LET all == MemoryTraces(mem, 0)
       IN  /\ all = SqliteTraces(rows, 0)
           /\ Len(all) = SqliteCount(rows, 0)
           /\ FlattenSeq([k \in 1..Len(all) |-> Page(all, 1, k - 1)]) = all

(* The reports of one set of events agree: the rows of every grouping sum  *)
(* to the totals, to the counters of the metrics exporter and to the burn  *)
(* rate, whose buckets lose nothing of their window; percentiles are       *)
(* ordered and are durations that occurred; the rejections counted are the *)
(* counter's less those of other reasons; a run listed as completed was    *)
(* counted once.                                                           *)
ReportsAddUp ==
  LET events == ToSet(log)
      tools  == Tools(events)
      within(k) == {i \in Typed(events, {"agent_completed"}) : now - At(i) < k}
      rows1(g)  == Usage(events, g).rows
      burnt(k)  == LET b == BurnRate(events, now, k) IN Total(1..k, LAMBDA j : b[j])
      metered(f(_)) == Total(events, f)
  IN  /\ \A g \in {"agent", "trace", "model"} :
           /\ Total(rows1(g), LAMBDA r : r.tokens) = Usage(events, g).tokens
           /\ Total(rows1(g), LAMBDA r : r.runs) = Usage(events, g).runs
      /\ metered(LAMBDA i : Metered(i).tokens) = Usage(events, "agent").tokens
      /\ \A k \in 1..(setting.end + 1) : burnt(k) = Total(within(k), Tokens)
      /\ \A t \in tools : t.p50 <= t.p95 /\ t.p95 <= t.p99 /\ t.failures <= t.calls
      /\ Total({Event[i].tool : i \in Typed(events, ToolEnds)},
               LAMBDA x : ToolRow({i \in Typed(events, ToolEnds) :
                                     Event[i].tool = x}).calls)
         = metered(LAMBDA i : Metered(i).calls)
      /\ LET counts == Rejections(events)
         IN  Total(Reasons, LAMBDA r : counts[r])
             = metered(LAMBDA i : Metered(i).rejections)
               - Cardinality({i \in Typed(events, {"agent_failed"}) :
                                Event[i].reason \notin Reasons})
      /\ Cardinality(ToSet(RunsPage(log, Len(log), 0, "completed").rows))
         <= Usage(events, "trace").runs
      /\ \A w \in Fleet(events) :
           (\E i \in Stops(events, w) : \A j \in Beats(events, w) : At(i) > At(j))
             => WorkerStatus(events, w, now, 2, 4) = "down"

(* What the stores and the reports tell of the same events is one story.   *)
StoresAgree == TreesAgree /\ QueriesExact /\ ReportsAddUp
=============================================================================
