------------------------------ MODULE AsyncProofs ------------------------------
(***************************************************************************)
(* Theorems about the in-process backend, for calls of any number and size *)
(* and pools of any width: the types, that the pool's width holds while    *)
(* cancelled executions unwind, that no task is lost or executed for two   *)
(* workers, and that only the clock or the caller makes a gather raise.    *)
(***************************************************************************)
EXTENDS AsyncBackend, FiniteSetTheorems, TLAPS

-----------------------------------------------------------------------------
(* Workers and tasks are pairs of a call and a number.                     *)
LEMMA Workers ==
  ASSUME NEW w \in Worker
  PROVE  w[1] \in Call /\ w[2] \in 1..PoolSize(w[1]) /\ w = <<w[1], w[2]>> /\ w \in Pool(w[1])
BY DEF Worker, Pool

LEMMA Pools ==
  ASSUME NEW c \in Call, NEW w \in Pool(c)
  PROVE  w \in Worker /\ w[1] = c
BY DEF Worker, Pool

LEMMA Tasks ==
  ASSUME NEW t \in Task
  PROVE  t[1] \in Call /\ t[2] \in 1..Size[t[1]] /\ t = <<t[1], t[2]>> /\ t \in TasksOf(t[1])
BY DEF Task, TasksOf

LEMMA TasksOfCall ==
  ASSUME NEW c \in Call, NEW t \in TasksOf(c)
  PROVE  t \in Task /\ t[1] = c
BY DEF Task, TasksOf

LEMMA Sizes ==
  ASSUME NEW c \in Call
  PROVE  /\ Size[c] \in Nat \ {0} /\ PoolSize(c) \in Nat \ {0}
         /\ PoolSize(c) <= Size[c] /\ PoolSize(c) <= Width
BY AsyncAssumption DEF AsyncAssumption, PoolSize

-----------------------------------------------------------------------------
(* The workers of a call hold different tasks, taken from the queue in     *)
(* order.  What a worker is doing says how far its task is, and the result *)
(* and the events of a task say what its execution came to.  Before its    *)
(* clock fires nothing of a gather is cancelled.                           *)
QueueInv ==
  \A c \in Call :
    IF call[c] = "new" THEN next[c] = 1 /\ c \notin due
    ELSE next[c] \in (PoolSize(c) + 1)..(Size[c] + 1)

HoldInv ==
  /\ \A w \in Worker :
       IF call[w[1]] = "new" THEN at[w] = "none"
       ELSE at[w] # "none" /\ item[w] \in 1..(next[w[1]] - 1)
  /\ \A v, w \in Worker :
       v[1] = w[1] /\ item[v] = item[w] /\ call[w[1]] # "new" => v = w

WorkerInv ==
  \A w \in Worker :
    /\ at[w] \in {"preparing", "spawning"} => exec[Of(w)] = "none" /\ slot[Of(w)] = "none"
    /\ at[w] = "awaiting" => exec[Of(w)] # "none" /\ slot[Of(w)] = "none"
    /\ at[w] = "done" => slot[Of(w)] # "none" /\ next[w[1]] > Size[w[1]]
    /\ at[w] = "dead" => w[1] \in due \cup Single
    /\ w \in hit => /\ w[1] \in due
                    /\ \/ at[w] \in {"preparing", "spawning"}
                       \/ at[w] = "awaiting" /\ exec[Of(w)] \in Ended

Told(t) ==
  /\ exec[t] \in {"none", "running"} => events[t] = {}
  /\ exec[t] \in {"completing", "ok"} => events[t] = {"completed"}
  /\ exec[t] \in {"failing", "failed"} => events[t] = {"failed"}

TaskInv ==
  \A t \in Task :
    /\ t[2] >= next[t[1]] => exec[t] = "none" /\ slot[t] = "none"
    /\ slot[t] = "none" => t[2] >= next[t[1]] \/ \E w \in Worker : Of(w) = t
    /\ exec[t] \in Busy => \E w \in Worker : at[w] = "awaiting" /\ Of(w) = t
    /\ t \in cancelling => exec[t] \in Busy
    /\ Told(t)
    /\ slot[t] = "ok" => exec[t] = "ok"
    /\ slot[t] = "failed" => exec[t] \in {"failed", "none"}
    /\ t[1] \notin due \cup Single =>
         t \notin cancelling /\ exec[t] # "cancelled" /\ slot[t] # "killed"

CallInv ==
  \A c \in Call \ Single :
    /\ call[c] = "raised" => c \in due
    /\ call[c] = "returned" => c \notin due /\ \A w \in Pool(c) : at[w] = "done"

AInv == TypeOK /\ QueueInv /\ HoldInv /\ WorkerInv /\ TaskInv /\ CallInv

LEMMA AsyncStarts == Init => AInv
<1>. SUFFICES ASSUME Init PROVE AInv
  OBVIOUS
<1>1. TypeOK
  BY DEF Init, TypeOK
<1>2. QueueInv /\ HoldInv /\ CallInv
  BY Workers DEF Init, QueueInv, HoldInv, CallInv
<1>3. WorkerInv
  BY DEF Init, WorkerInv
<1>4. TaskInv
  BY Tasks, Sizes DEF Init, TaskInv, Told, Busy
<1>. QED
  BY <1>1, <1>2, <1>3, <1>4 DEF AInv

(* What a worker of an open call holds is a task of its call.              *)
LEMMA Held ==
  ASSUME TypeOK, QueueInv, HoldInv, NEW w \in Worker, call[w[1]] # "new"
  PROVE  /\ Of(w) \in Task /\ Of(w)[1] = w[1] /\ Of(w)[2] = item[w]
         /\ \A v \in Worker : Of(v) = Of(w) => v = w
<1>1. item[w] \in 1..Size[w[1]]
  BY Workers, Sizes DEF QueueInv, HoldInv, TypeOK
<1>2. Of(w) \in Task
  BY <1>1, Workers DEF Of, Task, TasksOf
<1>. QED
  BY <1>2, Workers DEF Of, HoldInv
-----------------------------------------------------------------------------
(* The worker puts its result away and takes the next task of the queue.   *)
LEMMA StoreKeeps ==
  ASSUME AInv, NEW w \in Worker, NEW o \in {"ok", "failed", "killed"}, Store(w, o),
         at[w] \in {"preparing", "spawning", "awaiting"},
         exec[Of(w)] \notin Busy,
         o = "ok" => exec[Of(w)] = "ok",
         o = "failed" => exec[Of(w)] \in {"failed", "none"},
         o = "killed" => w[1] \in due \cup Single,
         hit' = hit \ {w},
         UNCHANGED <<call, due, exec, cancelling, killed, events>>
  PROVE  AInv'
<1>. DEFINE c == w[1]
<1>1. /\ TypeOK /\ QueueInv /\ HoldInv /\ WorkerInv /\ TaskInv /\ CallInv
      /\ c \in Call /\ call[c] # "new"
  BY Workers DEF AInv, HoldInv
<1>2. /\ Of(w) \in Task /\ Of(w)[1] = c /\ Of(w)[2] = item[w]
      /\ \A v \in Worker : Of(v) = Of(w) => v = w
  BY <1>1, Held
<1>3. slot' = [slot EXCEPT ![Of(w)] = o]
  BY DEF Store
<1>4. next[c] \in Nat /\ Size[c] \in Nat /\ PoolSize(c) \in Nat
  BY <1>1, Sizes DEF TypeOK
<1>5. \/ /\ next[c] <= Size[c]
         /\ at' = [at EXCEPT ![w] = "preparing"]
         /\ item' = [item EXCEPT ![w] = next[c]]
         /\ next' = [next EXCEPT ![c] = @ + 1]
      \/ /\ next[c] > Size[c]
         /\ at' = [at EXCEPT ![w] = "done"]
         /\ UNCHANGED <<item, next>>
  BY <1>4 DEF Store
<1>6. TypeOK'
  <2>1. at' \in [Worker -> {"none", "preparing", "spawning", "awaiting", "done", "dead"}]
    BY <1>1, <1>5 DEF TypeOK
  <2>2. item' \in [Worker -> Nat] /\ next' \in [Call -> Nat]
    BY <1>1, <1>4, <1>5 DEF TypeOK
  <2>3. slot' \in [Task -> {"none", "ok", "failed", "killed"}]
    BY <1>1, <1>3 DEF TypeOK
  <2>. QED
    BY <1>1, <2>1, <2>2, <2>3 DEF TypeOK
<1>7. QueueInv'
  BY <1>1, <1>4, <1>5 DEF QueueInv, TypeOK
<1>8. HoldInv'
  <2>1. CASE next[c] > Size[c] /\ at' = [at EXCEPT ![w] = "done"] /\ UNCHANGED <<item, next>>
    BY <1>1, <2>1 DEF HoldInv, TypeOK
  <2>2. CASE /\ next[c] <= Size[c]
             /\ at' = [at EXCEPT ![w] = "preparing"]
             /\ item' = [item EXCEPT ![w] = next[c]]
             /\ next' = [next EXCEPT ![c] = @ + 1]
    <3>1. ASSUME NEW v \in Worker, call[v[1]] # "new"
          PROVE  at'[v] # "none" /\ item'[v] \in 1..(next'[v[1]] - 1)
      <4>1. v[1] \in Call /\ next[v[1]] \in Nat /\ item[v] \in 1..(next[v[1]] - 1)
        BY <1>1, <3>1, Workers DEF HoldInv, TypeOK
      <4>2. next[c] >= 1
        BY <1>1, <1>4, Sizes DEF QueueInv
      <4>. QED
        BY <1>1, <2>2, <3>1, <4>1, <4>2 DEF HoldInv, TypeOK
    <3>2. ASSUME NEW v \in Worker, call[v[1]] = "new" PROVE at'[v] = "none"
      BY <1>1, <2>2, <3>2 DEF HoldInv, TypeOK
    <3>3. ASSUME NEW u \in Worker, NEW v \in Worker, u[1] = v[1], call[v[1]] # "new",
                 item'[u] = item'[v]
          PROVE  u = v
      <4>1. /\ item[u] \in 1..(next[v[1]] - 1) /\ item[v] \in 1..(next[v[1]] - 1)
            /\ next[v[1]] \in Nat
        BY <1>1, <3>3, Workers DEF HoldInv, TypeOK
      <4>2. item[u] = item[v] => u = v
        BY <1>1, <3>3 DEF HoldInv
      <4>. QED
        BY <1>1, <1>4, <2>2, <3>3, <4>1, <4>2 DEF TypeOK
    <3>. QED
      BY <1>1, <3>1, <3>2, <3>3 DEF HoldInv
  <2>. QED
    BY <1>5, <2>1, <2>2
<1>9. ASSUME NEW v \in Worker, v # w
      PROVE  /\ at'[v] = at[v] /\ item'[v] = item[v] /\ Of(v)' = Of(v)
             /\ call[v[1]] # "new" => Of(v) # Of(w) /\ slot'[Of(v)] = slot[Of(v)]
             /\ next[v[1]] <= next'[v[1]] /\ (v \in hit' <=> v \in hit)
  <2>1. at'[v] = at[v] /\ item'[v] = item[v]
    BY <1>1, <1>5, <1>9 DEF TypeOK
  <2>2. next[v[1]] <= next'[v[1]]
    BY <1>1, <1>4, <1>5, Workers DEF TypeOK
  <2>3. Of(v)' = Of(v)
    BY <2>1 DEF Of
  <2>4. call[v[1]] # "new" => Of(v) # Of(w) /\ slot'[Of(v)] = slot[Of(v)]
    <3>. SUFFICES ASSUME call[v[1]] # "new"
                  PROVE  Of(v) # Of(w) /\ slot'[Of(v)] = slot[Of(v)]
      OBVIOUS
    <3>1. Of(v) \in Task
      BY <1>1, Held
    <3>. QED
      BY <1>1, <1>2, <1>3, <1>9, <3>1 DEF TypeOK
  <2>. QED
    BY <1>9, <2>1, <2>2, <2>3, <2>4
<1>10. WorkerInv'
  <2>. SUFFICES ASSUME NEW v \in Worker
                PROVE  /\ at'[v] \in {"preparing", "spawning"} =>
                            exec[Of(v)'] = "none" /\ slot'[Of(v)'] = "none"
                       /\ at'[v] = "awaiting" => exec[Of(v)'] # "none" /\ slot'[Of(v)'] = "none"
                       /\ at'[v] = "done" => slot'[Of(v)'] # "none" /\ next'[v[1]] > Size[v[1]]
                       /\ at'[v] = "dead" => v[1] \in due \cup Single
                       /\ v \in hit' => /\ v[1] \in due
                                        /\ \/ at'[v] \in {"preparing", "spawning"}
                                           \/ at'[v] = "awaiting" /\ exec[Of(v)'] \in Ended
    BY DEF WorkerInv
  <2>1. CASE v # w
    <3>1. CASE call[v[1]] = "new"
      BY <1>1, <1>9, <2>1, <3>1 DEF WorkerInv, HoldInv
    <3>2. CASE call[v[1]] # "new"
      <4>1. next'[v[1]] \in Nat /\ next[v[1]] \in Nat /\ Size[v[1]] \in Nat
        BY <1>1, <1>6, Workers, Sizes DEF TypeOK
      <4>. QED
        BY <1>1, <1>9, <2>1, <3>2, <4>1 DEF WorkerInv
    <3>. QED
      BY <3>1, <3>2
  <2>2. CASE v = w
    <3>1. CASE at'[w] = "done"
      <4>1. Of(w)' = Of(w) /\ next'[c] > Size[c]
        BY <1>1, <1>5, <3>1 DEF Of, TypeOK
      <4>. QED
        BY <1>1, <1>2, <1>3, <2>2, <3>1, <4>1 DEF TypeOK
    <3>2. CASE at'[w] = "preparing"
      <4>1. /\ next[c] <= Size[c] /\ item'[w] = next[c]
        BY <1>1, <1>5, <3>2 DEF TypeOK
      <4>2. Of(w)' = <<c, next[c]>>
        BY <4>1 DEF Of
      <4>3. next[c] >= 1
        BY <1>1, <1>4, Sizes DEF QueueInv
      <4>4. Of(w)' \in Task /\ Of(w)' # Of(w)
        <5>1. <<c, next[c]>> \in TasksOf(c)
          BY <1>4, <4>1, <4>3 DEF TasksOf
        <5>2. item[w] # next[c]
          BY <1>1, <1>4 DEF HoldInv
        <5>. QED
          BY <1>1, <1>2, <4>2, <5>1, <5>2, TasksOfCall
      <4>5. exec[Of(w)'] = "none" /\ slot[Of(w)'] = "none"
        BY <1>1, <1>4, <4>2, <4>4 DEF TaskInv
      <4>. QED
        BY <1>1, <1>2, <1>3, <2>2, <3>2, <4>4, <4>5 DEF TypeOK
    <3>. QED
      BY <1>1, <1>5, <3>1, <3>2 DEF TypeOK
  <2>. QED
    BY <2>1, <2>2
<1>11. TaskInv'
  <2>. SUFFICES ASSUME NEW t \in Task
                PROVE  /\ t[2] >= next'[t[1]] => exec[t] = "none" /\ slot'[t] = "none"
                       /\ slot'[t] = "none" => \/ t[2] >= next'[t[1]]
                                               \/ \E v \in Worker : Of(v)' = t
                       /\ exec[t] \in Busy => \E v \in Worker : at'[v] = "awaiting" /\ Of(v)' = t
                       /\ t \in cancelling => exec[t] \in Busy
                       /\ Told(t)
                       /\ slot'[t] = "ok" => exec[t] = "ok"
                       /\ slot'[t] = "failed" => exec[t] \in {"failed", "none"}
                       /\ t[1] \notin due \cup Single =>
                            t \notin cancelling /\ exec[t] # "cancelled" /\ slot'[t] # "killed"
    BY DEF TaskInv, Told
  <2>1. next[t[1]] \in Nat /\ next'[t[1]] \in Nat /\ next[t[1]] <= next'[t[1]] /\ t[2] \in Nat
    BY <1>1, <1>4, <1>5, Tasks, Sizes DEF TypeOK
  <2>2. CASE t = Of(w)
    <3>1. t[2] < next[t[1]]
      BY <1>1, <1>2, <1>4, <2>2 DEF HoldInv
    <3>2. slot'[t] = o
      BY <1>1, <1>2, <1>3, <2>2 DEF TypeOK
    <3>. QED
      BY <1>1, <1>2, <2>1, <2>2, <3>1, <3>2 DEF TaskInv
  <2>3. CASE t # Of(w)
    <3>1. slot'[t] = slot[t]
      BY <1>1, <1>2, <1>3, <2>3 DEF TypeOK
    <3>2. ASSUME slot[t] = "none" PROVE t[2] >= next'[t[1]] \/ \E v \in Worker : Of(v)' = t
      <4>1. CASE t[2] >= next[t[1]] /\ ~(t[2] >= next'[t[1]])
        <5>1. t[1] = c /\ t[2] = next[c] /\ item' = [item EXCEPT ![w] = next[c]]
          <6>1. t[1] \in Call /\ UNCHANGED next => next'[t[1]] = next[t[1]]
            BY Tasks
          <6>2. /\ item' = [item EXCEPT ![w] = next[c]]
                /\ next' = [next EXCEPT ![c] = @ + 1]
            BY <1>5, <2>1, <4>1, <6>1
          <6>3. t[1] = c
            BY <1>1, <2>1, <4>1, <6>2, Tasks DEF TypeOK
          <6>. QED
            BY <1>1, <1>4, <2>1, <4>1, <6>2, <6>3 DEF TypeOK
        <5>2. t = <<c, next[c]>>
          BY <5>1, Tasks
        <5>3. Of(w)' = <<c, next[c]>>
          BY <1>1, <5>1 DEF Of, TypeOK
        <5>. QED
          BY <5>2, <5>3
      <4>2. CASE \E v \in Worker : Of(v) = t
        BY <1>9, <2>3, <4>2
      <4>. QED
        BY <1>1, <3>2, <4>1, <4>2 DEF TaskInv
    <3>3. ASSUME exec[t] \in Busy PROVE \E v \in Worker : at'[v] = "awaiting" /\ Of(v)' = t
      <4>1. PICK v \in Worker : at[v] = "awaiting" /\ Of(v) = t
        BY <1>1, <3>3 DEF TaskInv
      <4>. QED
        BY <1>9, <2>3, <4>1
    <3>. QED
      BY <1>1, <2>1, <3>1, <3>2, <3>3 DEF TaskInv
  <2>. QED
    BY <2>2, <2>3
<1>12. CallInv'
  <2>. SUFFICES ASSUME NEW d \in Call \ Single, call[d] = "returned", NEW v \in Pool(d)
                PROVE  at'[v] = "done"
    BY <1>1 DEF CallInv
  <2>1. at[v] = "done" /\ v \in Worker /\ v # w
    BY <1>1, Pools DEF CallInv
  <2>. QED
    BY <1>9, <2>1
<1>. QED
  BY <1>6, <1>7, <1>8, <1>10, <1>11, <1>12 DEF AInv
(* A worker that awaits something else than its execution goes on, or ends.*)
LEMMA StepKeeps ==
  ASSUME AInv, NEW w \in Worker, NEW x \in {"spawning", "dead"},
         at[w] \in {"preparing", "spawning"}, at' = [at EXCEPT ![w] = x],
         x = "dead" => w[1] \in due \cup Single,
         hit' = hit \ {w},
         UNCHANGED <<call, due, next, item, exec, cancelling, slot, killed, events>>
  PROVE  AInv'
<1>1. TypeOK /\ QueueInv /\ HoldInv /\ WorkerInv /\ TaskInv /\ CallInv
  BY DEF AInv
<1>2. /\ at'[w] = x
      /\ \A v \in Worker : v # w => at'[v] = at[v] /\ (v \in hit' <=> v \in hit)
      /\ \A v \in Worker : Of(v)' = Of(v)
  BY <1>1 DEF TypeOK, Of
<1>3. TypeOK' /\ QueueInv'
  BY <1>1 DEF TypeOK, QueueInv
<1>4. HoldInv'
  BY <1>1, <1>2 DEF HoldInv
<1>5. WorkerInv'
  BY <1>1, <1>2 DEF WorkerInv
<1>6. TaskInv'
  <2>1. ASSUME NEW v \in Worker, at[v] = "awaiting" PROVE at'[v] = "awaiting"
    BY <1>2, <2>1
  <2>. QED
    BY <1>1, <1>2, <2>1 DEF TaskInv, Told
<1>7. CallInv'
  <2>1. ASSUME NEW d \in Call \ Single, NEW v \in Pool(d), at[v] = "done"
        PROVE  at'[v] = "done"
    BY <1>2, <2>1, Pools
  <2>. QED
    BY <1>1, <2>1 DEF CallInv
<1>. QED
  BY <1>3, <1>4, <1>5, <1>6, <1>7 DEF AInv

LEMMA SpawnedKeeps ==
  ASSUME AInv, NEW w \in Worker, Spawned(w)
  PROVE  AInv'
<1>1. TypeOK /\ QueueInv /\ HoldInv /\ WorkerInv /\ TaskInv /\ CallInv /\ w \notin hit
  BY DEF AInv, Spawned
<1>2. /\ at[w] = "spawning" /\ at' = [at EXCEPT ![w] = "awaiting"]
      /\ exec' = [exec EXCEPT ![Of(w)] = "running"]
      /\ UNCHANGED <<call, due, next, item, hit, cancelling, slot, killed, events>>
  BY DEF Spawned
<1>3. call[w[1]] # "new"
  BY <1>1, <1>2 DEF HoldInv
<1>4. /\ Of(w) \in Task /\ Of(w)[1] = w[1] /\ Of(w)[2] = item[w]
      /\ \A v \in Worker : Of(v) = Of(w) => v = w
  BY <1>1, <1>3, Held
<1>5. /\ at'[w] = "awaiting" /\ exec'[Of(w)] = "running"
      /\ \A v \in Worker : v # w => at'[v] = at[v]
      /\ \A t \in Task : t # Of(w) => exec'[t] = exec[t]
      /\ \A v \in Worker : Of(v)' = Of(v)
  BY <1>1, <1>2, <1>4 DEF TypeOK, Of
<1>6. exec[Of(w)] = "none" /\ slot[Of(w)] = "none"
  BY <1>1, <1>2 DEF WorkerInv
<1>7. TypeOK'
  <2>1. at' \in [Worker -> {"none", "preparing", "spawning", "awaiting", "done", "dead"}]
    BY <1>1, <1>2 DEF TypeOK
  <2>2. exec' \in [Task -> {"none"} \cup Busy \cup Ended]
    BY <1>1, <1>2 DEF TypeOK, Busy
  <2>. QED
    BY <1>1, <1>2, <2>1, <2>2 DEF TypeOK
<1>8. QueueInv' /\ HoldInv'
  BY <1>1, <1>2, <1>5 DEF QueueInv, HoldInv
<1>9. WorkerInv'
  <2>1. ASSUME NEW v \in Worker, v # w, call[v[1]] # "new"
        PROVE  exec'[Of(v)] = exec[Of(v)]
    BY <1>1, <1>4, <1>5, <2>1, Held
  <2>2. \A v \in Worker : call[v[1]] = "new" => at[v] = "none" /\ v \notin hit
    BY <1>1 DEF HoldInv, WorkerInv
  <2>. QED
    BY <1>1, <1>2, <1>5, <1>6, <2>1, <2>2 DEF WorkerInv
<1>10. TaskInv'
  <2>. SUFFICES ASSUME NEW t \in Task
                PROVE  /\ t[2] >= next[t[1]] => exec'[t] = "none" /\ slot[t] = "none"
                       /\ slot[t] = "none" => \/ t[2] >= next[t[1]]
                                              \/ \E v \in Worker : Of(v) = t
                       /\ exec'[t] \in Busy => \E v \in Worker : at'[v] = "awaiting" /\ Of(v) = t
                       /\ t \in cancelling => exec'[t] \in Busy
                       /\ Told(t)'
                       /\ slot[t] = "ok" => exec'[t] = "ok"
                       /\ slot[t] = "failed" => exec'[t] \in {"failed", "none"}
                       /\ t[1] \notin due \cup Single =>
                            t \notin cancelling /\ exec'[t] # "cancelled" /\ slot[t] # "killed"
    BY <1>2, <1>5 DEF TaskInv
  <2>1. CASE t = Of(w)
    <3>1. ~(t[2] >= next[t[1]])
      BY <1>1, <1>3, <1>4, <2>1, Workers DEF HoldInv, TypeOK
    <3>2. Told(t)'
      BY <1>1, <1>2, <1>5, <1>6, <2>1 DEF TaskInv, Told
    <3>3. \E v \in Worker : at'[v] = "awaiting" /\ Of(v) = t
      BY <1>5, <2>1
    <3>4. t \notin cancelling
      BY <1>1, <1>4, <1>6, <2>1 DEF TaskInv, Busy
    <3>. QED
      BY <1>1, <1>5, <1>6, <2>1, <3>1, <3>2, <3>3, <3>4 DEF TaskInv
  <2>2. CASE t # Of(w)
    <3>1. exec'[t] = exec[t] /\ Told(t)'
      BY <1>1, <1>2, <1>5, <2>2 DEF TaskInv, Told
    <3>2. ASSUME NEW v \in Worker, at[v] = "awaiting" PROVE at'[v] = "awaiting"
      BY <1>2, <1>5, <3>2
    <3>. QED
      BY <1>1, <3>1, <3>2 DEF TaskInv
  <2>. QED
    BY <2>1, <2>2
<1>11. CallInv'
  <2>1. ASSUME NEW d \in Call \ Single, NEW v \in Pool(d), at[v] = "done"
        PROVE  at'[v] = "done"
    BY <1>2, <1>5, <2>1, Pools
  <2>. QED
    BY <1>1, <1>2, <2>1 DEF CallInv
<1>. QED
  BY <1>7, <1>8, <1>9, <1>10, <1>11 DEF AInv

(* An execution goes on, ends or meets its cancellation.                   *)
LEMMA ExecKeeps ==
  ASSUME AInv, NEW t \in Task, NEW x \in Busy \cup Ended,
         exec[t] \in Busy, exec' = [exec EXCEPT ![t] = x],
         cancelling' = cancelling \ {t},
         x = "cancelled" => t[1] \in due \cup Single,
         events' \in [Task -> SUBSET {"completed", "failed"}],
         \A u \in Task : u # t => events'[u] = events[u],
         Told(t)',
         UNCHANGED <<call, due, next, at, item, hit, slot, killed>>
  PROVE  AInv'
<1>1. TypeOK /\ QueueInv /\ HoldInv /\ WorkerInv /\ TaskInv /\ CallInv
  BY DEF AInv
<1>2. exec'[t] = x /\ \A u \in Task : u # t => exec'[u] = exec[u] /\ (Told(u) => Told(u)')
  BY <1>1 DEF TypeOK, Told
<1>3. \A w \in Worker : Of(w)' = Of(w)
  BY DEF Of
<1>4. TypeOK'
  BY <1>1 DEF TypeOK
<1>5. QueueInv' /\ HoldInv' /\ CallInv'
  BY <1>1 DEF QueueInv, HoldInv, CallInv
<1>6. WorkerInv'
  <2>1. ASSUME NEW w \in Worker, Of(w) # t, at[w] # "none"
        PROVE  exec'[Of(w)] = exec[Of(w)]
    <3>1. Of(w) \in Task
      BY <1>1, <2>1, Held DEF HoldInv
    <3>. QED
      BY <1>2, <2>1, <3>1
  <2>2. x # "none" /\ exec[t] # "none" /\ exec[t] \notin Ended
    BY DEF Busy, Ended
  <2>. QED
    BY <1>1, <1>2, <1>3, <2>1, <2>2 DEF WorkerInv
<1>7. TaskInv'
  <2>1. PICK w \in Worker : at[w] = "awaiting" /\ Of(w) = t
    BY <1>1 DEF TaskInv
  <2>2. slot[t] = "none"
    BY <1>1, <2>1 DEF WorkerInv
  <2>3. ~(t[2] >= next[t[1]])
    BY <1>1 DEF TaskInv, Busy
  <2>4. ASSUME NEW u \in Task, exec'[u] \in Busy
        PROVE  \E v \in Worker : at[v] = "awaiting" /\ Of(v) = u
    BY <1>1, <1>2, <2>1, <2>4 DEF TaskInv
  <2>. QED
    BY <1>1, <1>2, <1>3, <2>2, <2>3, <2>4 DEF TaskInv
<1>. QED
  BY <1>4, <1>5, <1>6, <1>7 DEF AInv
LEMMA KillKeeps ==
  ASSUME AInv, NEW t \in Task, Kill(t)
  PROVE  AInv'
<1>1. TypeOK /\ QueueInv /\ HoldInv /\ WorkerInv /\ TaskInv /\ CallInv
  BY DEF AInv
<1>2. /\ UNCHANGED <<call, due, next, at, item, hit, exec, slot, events>>
      /\ killed' = killed \cup {t}
      /\ cancelling' = IF exec[t] \in Busy THEN cancelling \cup {t} ELSE cancelling
      /\ t[1] \in Single
  BY AsyncAssumption DEF AsyncAssumption, Kill
<1>3. \A w \in Worker : Of(w)' = Of(w)
  BY <1>2 DEF Of
<1>4. TypeOK' /\ QueueInv' /\ HoldInv' /\ CallInv'
  BY <1>1, <1>2 DEF TypeOK, QueueInv, HoldInv, CallInv
<1>5. WorkerInv'
  BY <1>1, <1>2, <1>3 DEF WorkerInv
<1>6. TaskInv'
  BY <1>1, <1>2, <1>3 DEF TaskInv, Told
<1>. QED
  BY <1>4, <1>5, <1>6 DEF AInv

(* The clock cancels each worker where it is: its execution, or itself.    *)
LEMMA DeadlineKeeps ==
  ASSUME AInv, NEW c \in Call, Deadline(c)
  PROVE  AInv'
<1>. DEFINE awaited == {Of(w) : w \in {v \in Pool(c) : at[v] = "awaiting"}}
<1>1. TypeOK /\ QueueInv /\ HoldInv /\ WorkerInv /\ TaskInv /\ CallInv
  BY DEF AInv
<1>2. /\ UNCHANGED <<call, next, at, item, exec, slot, killed, events>>
      /\ call[c] = "open" /\ due' = due \cup {c}
      /\ cancelling' = cancelling \cup {t \in awaited : exec[t] \in Busy}
      /\ hit' = hit \cup {w \in Pool(c) : \/ at[w] \in {"preparing", "spawning"}
                                          \/ at[w] = "awaiting" /\ exec[Of(w)] \in Ended}
  BY DEF Deadline
<1>3. \A w \in Worker : Of(w)' = Of(w)
  BY <1>2 DEF Of
<1>4. ASSUME NEW w \in Pool(c)
      PROVE  w \in Worker /\ w[1] = c /\ Of(w) \in Task /\ Of(w)[1] = c
  BY <1>1, <1>2, Pools, Held
<1>. HIDE DEF awaited
<1>5. awaited \subseteq Task /\ \A t \in awaited : t[1] = c
  BY <1>4 DEF awaited
<1>6. TypeOK'
  BY <1>1, <1>2, <1>4, <1>5 DEF TypeOK
<1>7. QueueInv' /\ HoldInv' /\ CallInv'
  BY <1>1, <1>2 DEF QueueInv, HoldInv, CallInv
<1>8. WorkerInv'
  BY <1>1, <1>2, <1>3, <1>4 DEF WorkerInv
<1>9. TaskInv'
  BY <1>1, <1>2, <1>3, <1>5 DEF TaskInv, Told
<1>. QED
  BY <1>6, <1>7, <1>8, <1>9 DEF AInv

LEMMA OpenKeeps ==
  ASSUME AInv, NEW c \in Call, Open(c)
  PROVE  AInv'
<1>1. TypeOK /\ QueueInv /\ HoldInv /\ WorkerInv /\ TaskInv /\ CallInv
  BY DEF AInv
<1>2. /\ call[c] = "new" /\ call' = [call EXCEPT ![c] = "open"]
      /\ next' = [next EXCEPT ![c] = PoolSize(c) + 1]
      /\ UNCHANGED <<due, hit, exec, cancelling, slot, killed, events>>
  BY DEF Open
<1>3. ASSUME NEW w \in Worker, w[1] = c
      PROVE  /\ at'[w] = "preparing" /\ item'[w] = w[2] /\ at[w] = "none"
             /\ Of(w)' = w /\ w[2] \in 1..PoolSize(c) /\ w = <<c, w[2]>>
             /\ Of(w)' \in Task
  <2>1. w \in Pool(c) /\ w[2] \in 1..PoolSize(c) /\ w = <<c, w[2]>>
    BY <1>3, Workers
  <2>2. at'[w] = "preparing" /\ item'[w] = w[2]
    BY <2>1 DEF Open
  <2>3. Of(w)' = w
    BY <2>1, <2>2 DEF Of
  <2>4. w \in TasksOf(c)
    BY <2>1, Sizes DEF TasksOf
  <2>. QED
    BY <1>1, <1>2, <1>3, <2>1, <2>2, <2>3, <2>4, TasksOfCall DEF HoldInv
<1>4. ASSUME NEW w \in Worker, w[1] # c
      PROVE  at'[w] = at[w] /\ item'[w] = item[w] /\ Of(w)' = Of(w)
  BY <1>4, Pools DEF Open, Of
<1>5. /\ PoolSize(c) \in Nat \ {0} /\ Size[c] \in Nat /\ PoolSize(c) <= Size[c]
      /\ next[c] = 1 /\ next'[c] = PoolSize(c) + 1 /\ call'[c] = "open"
      /\ \A d \in Call : d # c => next'[d] = next[d] /\ call'[d] = call[d]
  BY <1>1, <1>2, Sizes DEF TypeOK, QueueInv
<1>6. TypeOK'
  <2>1. at' \in [Worker -> {"none", "preparing", "spawning", "awaiting", "done", "dead"}]
    BY <1>1 DEF TypeOK, Open
  <2>2. item' \in [Worker -> Nat]
    <3>1. \A w \in Worker : item'[w] \in Nat
      BY <1>1, <1>3, <1>4, <1>5 DEF TypeOK
    <3>. QED
      BY <3>1 DEF Open
  <2>3. next' \in [Call -> Nat] /\ call' \in [Call -> {"new", "open", "returned", "raised"}]
    BY <1>1, <1>2, <1>5 DEF TypeOK
  <2>. QED
    BY <1>1, <1>2, <2>1, <2>2, <2>3 DEF TypeOK
<1>7. QueueInv'
  BY <1>1, <1>2, <1>5 DEF QueueInv
<1>8. HoldInv'
  <2>1. ASSUME NEW w \in Worker
        PROVE  IF call'[w[1]] = "new" THEN at'[w] = "none"
               ELSE at'[w] # "none" /\ item'[w] \in 1..(next'[w[1]] - 1)
    <3>1. CASE w[1] = c
      BY <1>3, <1>5, <3>1
    <3>2. CASE w[1] # c
      BY <1>1, <1>4, <1>5, <3>2, Workers DEF HoldInv
    <3>. QED
      BY <3>1, <3>2
  <2>2. ASSUME NEW v \in Worker, NEW w \in Worker, v[1] = w[1], item'[v] = item'[w],
               call'[w[1]] # "new"
        PROVE  v = w
    <3>1. CASE w[1] = c
      <4>1. v[2] = w[2] /\ v = <<c, v[2]>> /\ w = <<c, w[2]>>
        BY <1>3, <2>2, <3>1
      <4>. QED
        BY <4>1
    <3>2. CASE w[1] # c
      BY <1>1, <1>4, <1>5, <2>2, <3>2, Workers DEF HoldInv
    <3>. QED
      BY <3>1, <3>2
  <2>. QED
    BY <2>1, <2>2 DEF HoldInv
<1>9. \A t \in Task : t[1] = c => exec[t] = "none" /\ slot[t] = "none" /\ t[2] \in Nat
  <2>. SUFFICES ASSUME NEW t \in Task, t[1] = c
                PROVE  exec[t] = "none" /\ slot[t] = "none" /\ t[2] \in Nat
    OBVIOUS
  <2>1. t[2] \in Nat /\ t[2] >= next[c]
    BY <1>5, Tasks
  <2>. QED
    BY <1>1, <2>1 DEF TaskInv
<1>10. WorkerInv'
  <2>. SUFFICES ASSUME NEW v \in Worker
                PROVE  /\ at'[v] \in {"preparing", "spawning"} =>
                            exec[Of(v)'] = "none" /\ slot[Of(v)'] = "none"
                       /\ at'[v] = "awaiting" => exec[Of(v)'] # "none" /\ slot[Of(v)'] = "none"
                       /\ at'[v] = "done" => slot[Of(v)'] # "none" /\ next'[v[1]] > Size[v[1]]
                       /\ at'[v] = "dead" => v[1] \in due \cup Single
                       /\ v \in hit => /\ v[1] \in due
                                       /\ \/ at'[v] \in {"preparing", "spawning"}
                                          \/ at'[v] = "awaiting" /\ exec[Of(v)'] \in Ended
    BY <1>2 DEF WorkerInv
  <2>1. CASE v[1] = c
    <3>1. Of(v)'[1] = c /\ v \notin hit
      BY <1>1, <1>3, <2>1 DEF WorkerInv
    <3>. QED
      BY <1>3, <1>9, <2>1, <3>1
  <2>2. CASE v[1] # c
    BY <1>1, <1>4, <1>5, <2>2, Workers DEF WorkerInv
  <2>. QED
    BY <2>1, <2>2
<1>11. TaskInv'
  <2>. SUFFICES ASSUME NEW t \in Task
                PROVE  /\ t[2] >= next'[t[1]] => exec[t] = "none" /\ slot[t] = "none"
                       /\ slot[t] = "none" => \/ t[2] >= next'[t[1]]
                                              \/ \E v \in Worker : Of(v)' = t
                       /\ exec[t] \in Busy => \E v \in Worker : at'[v] = "awaiting" /\ Of(v)' = t
                       /\ t \in cancelling => exec[t] \in Busy
                       /\ Told(t)
                       /\ slot[t] = "ok" => exec[t] = "ok"
                       /\ slot[t] = "failed" => exec[t] \in {"failed", "none"}
                       /\ t[1] \notin due \cup Single =>
                            t \notin cancelling /\ exec[t] # "cancelled" /\ slot[t] # "killed"
    BY <1>2 DEF TaskInv, Told
  <2>1. CASE t[1] = c
    <3>1. t[2] >= next'[c] \/ \E v \in Worker : Of(v)' = t
      <4>1. CASE t[2] <= PoolSize(c)
        <5>1. t = <<c, t[2]>> /\ t[2] \in 1..PoolSize(c)
          BY <1>5, <2>1, <4>1, Tasks
        <5>2. t \in Pool(c)
          BY <5>1 DEF Pool
        <5>. QED
          BY <1>3, <5>2, Pools
      <4>2. CASE ~(t[2] <= PoolSize(c))
        BY <1>5, <1>9, <2>1, <4>2
      <4>. QED
        BY <4>1, <4>2
    <3>. QED
      BY <1>1, <1>9, <2>1, <3>1 DEF TaskInv, Busy
  <2>2. CASE t[1] # c
    <3>1. next'[t[1]] = next[t[1]]
      BY <1>5, <2>2, Tasks
    <3>2. ASSUME exec[t] \in Busy PROVE \E v \in Worker : at'[v] = "awaiting" /\ Of(v)' = t
      <4>1. PICK v \in Worker : at[v] = "awaiting" /\ Of(v) = t
        BY <1>1, <3>2 DEF TaskInv
      <4>2. v[1] # c
        BY <2>2, <4>1 DEF Of
      <4>. QED
        BY <1>4, <4>1, <4>2
    <3>3. ASSUME NEW v \in Worker, Of(v) = t PROVE Of(v)' = t
      <4>1. v[1] # c
        BY <2>2, <3>3 DEF Of
      <4>. QED
        BY <1>4, <3>3, <4>1
    <3>. QED
      BY <1>1, <3>1, <3>2, <3>3 DEF TaskInv
  <2>. QED
    BY <2>1, <2>2
<1>12. CallInv'
  <2>1. ASSUME NEW d \in Call \ Single, call'[d] \in {"returned", "raised"}
        PROVE  d # c /\ call[d] = call'[d]
    BY <1>5, <2>1
  <2>2. ASSUME NEW d \in Call, d # c, NEW v \in Pool(d) PROVE at'[v] = at[v]
    BY <1>4, <2>2, Pools
  <2>. QED
    BY <1>1, <1>2, <2>1, <2>2 DEF CallInv
<1>. QED
  BY <1>6, <1>7, <1>8, <1>10, <1>11, <1>12 DEF AInv

(* A gather raises once a worker of it is dead, or all are done and it was *)
(* cancelled: not before its clock.                                        *)
LEMMA EndKeeps ==
  ASSUME AInv, NEW c \in Call, Return(c) \/ Raise(c)
  PROVE  AInv'
<1>1. TypeOK /\ QueueInv /\ HoldInv /\ WorkerInv /\ TaskInv /\ CallInv
  BY DEF AInv
<1>2. PICK x \in {"returned", "raised"} : call' = [call EXCEPT ![c] = x]
  BY DEF Return, Raise
<1>3. /\ call[c] = "open"
      /\ UNCHANGED <<due, next, at, item, hit, exec, cancelling, slot, killed, events>>
  BY DEF Return, Raise
<1>4. call'[c] = x /\ \A d \in Call : d # c => call'[d] = call[d]
  BY <1>1, <1>2 DEF TypeOK
<1>5. TypeOK' /\ QueueInv'
  BY <1>1, <1>2, <1>3, <1>4 DEF TypeOK, QueueInv
<1>6. HoldInv'
  <2>1. \A d \in Call : call'[d] = "new" <=> call[d] = "new"
    BY <1>3, <1>4
  <2>. QED
    BY <1>1, <1>3, <2>1, Workers DEF HoldInv
<1>7. WorkerInv' /\ TaskInv'
  <2>1. \A w \in Worker : Of(w)' = Of(w)
    BY <1>3 DEF Of
  <2>. QED
    BY <1>1, <1>3, <2>1 DEF WorkerInv, TaskInv, Told
<1>8. CallInv'
  <2>1. CASE Return(c)
    BY <1>1, <1>3, <1>4, <2>1 DEF Return, CallInv, TypeOK
  <2>2. CASE Raise(c)
    <3>1. \A w \in Pool(c) : at[w] = "dead" => c \in due \cup Single
      BY <1>1, Pools DEF WorkerInv
    <3>2. call' = [call EXCEPT ![c] = "raised"] /\ c \in due \cup Single
      BY <2>2, <3>1 DEF Raise
    <3>. QED
      BY <1>1, <1>3, <3>2 DEF CallInv, TypeOK
  <2>. QED
    BY <2>1, <2>2
<1>. QED
  BY <1>5, <1>6, <1>7, <1>8 DEF AInv
-----------------------------------------------------------------------------
LEMMA WorkerKeeps ==
  ASSUME AInv, NEW w \in Worker,
         Prepared(w) \/ SpawnFails(w) \/ Spawned(w) \/ Collect(w) \/ Struck(w)
  PROVE  AInv'
<1>1. WorkerInv /\ TypeOK
  BY DEF AInv
<1>2. CASE Prepared(w)
  <2>1. /\ w \notin hit /\ at[w] = "preparing" /\ at' = [at EXCEPT ![w] = "spawning"]
        /\ UNCHANGED <<call, due, next, item, hit, exec, cancelling, slot, killed, events>>
    BY <1>2 DEF Prepared
  <2>. QED
    BY <2>1, StepKeeps
<1>3. CASE SpawnFails(w)
  <2>1. /\ w \notin hit /\ at[w] \in {"preparing", "spawning"} /\ hit' = hit \ {w}
        /\ UNCHANGED <<call, due, hit, exec, cancelling, killed, events>>
        /\ exec[Of(w)] = "none"
    BY <1>1, <1>3 DEF SpawnFails, WorkerInv
  <2>2. CASE w[1] \in Single
    <3>1. at' = [at EXCEPT ![w] = "dead"] /\ UNCHANGED <<slot, item, next>>
      BY <1>3, <2>2 DEF SpawnFails
    <3>. QED
      BY <2>1, <2>2, <3>1, StepKeeps
  <2>3. CASE w[1] \notin Single
    BY <1>3, <2>1, <2>3, StoreKeeps DEF SpawnFails, Busy
  <2>. QED
    BY <2>2, <2>3
<1>4. CASE Spawned(w)
  BY <1>4, SpawnedKeeps
<1>5. CASE Collect(w)
  <2>1. /\ w \notin hit /\ at[w] = "awaiting" /\ exec[Of(w)] \in Ended /\ hit' = hit \ {w}
        /\ UNCHANGED <<call, due, exec, cancelling, killed, events>>
        /\ Store(w, IF exec[Of(w)] = "cancelled" THEN "killed" ELSE exec[Of(w)])
    BY <1>5 DEF Collect
  <2>2. CASE exec[Of(w)] = "cancelled"
    <3>1. w[1] \in due \cup Single
      <4>1. Of(w) \in Task /\ Of(w)[1] = w[1]
        BY <2>1, Held DEF AInv, HoldInv
      <4>. QED
        BY <2>2, <4>1 DEF AInv, TaskInv
    <3>. QED
      BY <2>1, <2>2, <3>1, StoreKeeps DEF Busy
  <2>3. CASE exec[Of(w)] \in {"ok", "failed"}
    BY <2>1, <2>3, StoreKeeps DEF Busy
  <2>. QED
    BY <2>1, <2>2, <2>3 DEF Ended
<1>6. CASE Struck(w)
  <2>1. /\ w \in hit /\ hit' = hit \ {w} /\ w[1] \in due
        /\ \/ at[w] \in {"preparing", "spawning"}
           \/ at[w] = "awaiting" /\ exec[Of(w)] \in Ended
        /\ UNCHANGED <<call, due, exec, cancelling, killed, events>>
    BY <1>1, <1>6 DEF Struck, WorkerInv
  <2>2. CASE at[w] = "awaiting"
    BY <1>6, <2>1, <2>2, StoreKeeps DEF Struck, Busy, Ended
  <2>3. CASE at[w] \in {"preparing", "spawning"}
    <3>1. at' = [at EXCEPT ![w] = "dead"] /\ UNCHANGED <<slot, item, next>>
      BY <1>6, <2>3 DEF Struck
    <3>. QED
      BY <2>1, <2>3, <3>1, StepKeeps
  <2>. QED
    BY <2>1, <2>2, <2>3
<1>. QED
  BY <1>2, <1>3, <1>4, <1>5, <1>6

LEMMA TaskKeeps ==
  ASSUME AInv, NEW t \in Task,
         (\E o \in {"ok", "failed"} : Answer(t, o)) \/ End(t) \/ Cancelled(t)
  PROVE  AInv'
<1>1. TypeOK /\ TaskInv
  BY DEF AInv
<1>2. ASSUME NEW o \in {"ok", "failed"}, Answer(t, o) PROVE AInv'
  <2>. DEFINE x == IF o = "ok" THEN "completing" ELSE "failing"
              e == IF o = "ok" THEN "completed" ELSE "failed"
  <2>1. /\ exec[t] = "running" /\ cancelling' = cancelling \ {t}
        /\ exec' = [exec EXCEPT ![t] = x]
        /\ events' = [events EXCEPT ![t] = events[t] \cup {e}]
        /\ UNCHANGED <<call, due, next, at, item, hit, slot, killed>>
    BY <1>2 DEF Answer
  <2>2. events[t] = {}
    BY <1>1, <2>1 DEF TaskInv, Told
  <2>3. exec'[t] = x /\ events'[t] = {e} /\ \A u \in Task : u # t => events'[u] = events[u]
    BY <1>1, <2>1, <2>2 DEF TypeOK
  <2>4. Told(t)' /\ x \in Busy /\ x # "cancelled" /\ exec[t] \in Busy
    BY <2>1, <2>3 DEF Told, Busy
  <2>5. events' \in [Task -> SUBSET {"completed", "failed"}]
    BY <1>1, <2>1 DEF TypeOK
  <2>. HIDE DEF x, e
  <2>. QED
    BY <2>1, <2>3, <2>4, <2>5, ExecKeeps
<1>3. CASE End(t)
  <2>. DEFINE x == IF exec[t] = "completing" THEN "ok" ELSE "failed"
  <2>1. /\ exec[t] \in {"completing", "failing"} /\ cancelling' = cancelling \ {t}
        /\ exec' = [exec EXCEPT ![t] = x]
        /\ UNCHANGED <<call, due, next, at, item, hit, slot, killed, events>>
    BY <1>3 DEF End
  <2>2. Told(t)' /\ x \in Ended /\ x # "cancelled" /\ exec[t] \in Busy
    BY <1>1, <2>1 DEF TaskInv, Told, TypeOK, Busy, Ended
  <2>3. events' \in [Task -> SUBSET {"completed", "failed"}]
    BY <1>1, <2>1 DEF TypeOK
  <2>. HIDE DEF x
  <2>. QED
    BY <2>1, <2>2, <2>3, ExecKeeps
<1>4. CASE Cancelled(t)
  <2>1. /\ t \in cancelling /\ cancelling' = cancelling \ {t} /\ exec[t] \in Busy
        /\ UNCHANGED <<call, due, next, at, item, hit, slot, killed, events>>
        /\ t[1] \in due \cup Single
    BY <1>1, <1>4 DEF Cancelled, TaskInv
  <2>2. events' \in [Task -> SUBSET {"completed", "failed"}]
    BY <1>1, <2>1 DEF TypeOK
  <2>3. CASE exec' = [exec EXCEPT ![t] = "cancelled"]
    <3>1. Told(t)'
      BY <1>1, <2>3 DEF TypeOK, Told
    <3>. QED
      BY <2>1, <2>2, <2>3, <3>1, ExecKeeps DEF Ended
  <2>4. CASE UNCHANGED exec
    <3>1. exec' = [exec EXCEPT ![t] = exec[t]] /\ Told(t)'
      BY <1>1, <2>1, <2>4 DEF TypeOK, TaskInv, Told
    <3>. QED
      BY <2>1, <2>2, <3>1, ExecKeeps DEF Busy
  <2>. QED
    BY <1>4, <2>3, <2>4 DEF Cancelled
<1>. QED
  BY <1>2, <1>3, <1>4

LEMMA AsyncStep == AInv /\ [Next]_vars => AInv'
<1>. SUFFICES ASSUME AInv, [Next]_vars PROVE AInv'
  OBVIOUS
<1>1. CASE UNCHANGED vars
  BY <1>1 DEF vars, AInv, TypeOK, QueueInv, HoldInv, WorkerInv, TaskInv, CallInv, Told, Of
<1>. QED
  BY <1>1, WorkerKeeps, TaskKeeps, KillKeeps, DeadlineKeeps, OpenKeeps, EndKeeps DEF Next

LEMMA AlwaysAInv == Spec => []AInv
BY AsyncStarts, AsyncStep, PTL DEF Spec

(* AsyncBackend's tasks, workers, results and events are always of their   *)
(* types.                                                                  *)
THEOREM AsyncTypeCorrect == Spec => []TypeOK
BY AlwaysAInv, PTL DEF AInv

(* gather's pool never runs more than max_concurrency executions, those    *)
(* that are unwinding from a cancellation included: each of them is still  *)
(* awaited by a worker of its own.                                         *)
THEOREM WidthCorrect == Spec => []WidthHolds
<1>1. AInv => WidthHolds
  <2>. SUFFICES ASSUME AInv, NEW c \in Call
                PROVE  Cardinality({t \in TasksOf(c) : exec[t] \in Busy}) <= Width
    BY DEF WidthHolds
  <2>. DEFINE B == {t \in TasksOf(c) : exec[t] \in Busy}
              N == 1..PoolSize(c)
              f == [t \in B |-> CHOOSE k \in N : Of(<<c, k>>) = t]
  <2>1. ASSUME NEW t \in B PROVE \E k \in N : Of(<<c, k>>) = t
    <3>1. t \in Task /\ t[1] = c
      BY TasksOfCall
    <3>2. PICK w \in Worker : Of(w) = t
      BY <3>1 DEF AInv, TaskInv
    <3>. QED
      BY <3>1, <3>2, Workers DEF Of
  <2>2. \A t \in B : f[t] \in N /\ Of(<<c, f[t]>>) = t
    BY <2>1
  <2>. HIDE DEF B, f
  <2>3. f \in [B -> N]
    BY <2>2 DEF f
  <2>4. f \in Injection(B, N)
    <3>1. \A s, t \in B : f[s] = f[t] => s = t
      BY <2>2
    <3>2. DOMAIN f = B
      BY <2>3
    <3>. HIDE DEF N
    <3>. QED
      BY <2>3, <3>1, <3>2 DEF Injection, IsInjective
  <2>5. IsFiniteSet(N) /\ Cardinality(N) = PoolSize(c)
    BY Sizes, FS_Interval
  <2>6. Cardinality(B) <= PoolSize(c) /\ IsFiniteSet(B)
    BY <2>4, <2>5, FS_Injection
  <2>. QED
    BY <2>6, Sizes, AsyncAssumption, FS_CardinalityType DEF AsyncAssumption, B
<1>. QED
  BY <1>1, AlwaysAInv, PTL

(* The pool loses no task and works on none twice, and gather returns a    *)
(* result per task, true to its execution and its events.                  *)
THEOREM TasksCorrect == Spec => []TasksAccounted
<1>1. AInv => TasksAccounted
  <2>. SUFFICES ASSUME AInv, NEW c \in Call
                PROVE  /\ call[c] # "new" => NothingLost(c)
                       /\ c \notin Single /\ call[c] = "returned" => Complete(c)
    BY DEF TasksAccounted
  <2>1. TypeOK /\ QueueInv /\ HoldInv /\ WorkerInv /\ TaskInv /\ CallInv
    BY DEF AInv
  <2>2. ASSUME NEW t \in TasksOf(c), slot[t] = "none"
        PROVE  t[2] >= next[c] \/ \E w \in Pool(c) : Of(w) = t
    <3>1. t \in Task /\ t[1] = c
      BY TasksOfCall
    <3>2. ASSUME NEW w \in Worker, Of(w) = t PROVE w \in Pool(c)
      BY <3>1, <3>2, Workers DEF Of
    <3>. QED
      BY <2>1, <2>2, <3>1, <3>2 DEF TaskInv
  <2>3. ASSUME call[c] # "new" PROVE NothingLost(c)
    <3>1. \A v, w \in Pool(c) : item[v] = item[w] => v = w
      BY <2>1, <2>3, Pools DEF HoldInv
    <3>. QED
      BY <2>2, <3>1 DEF NothingLost
  <2>4. ASSUME c \notin Single, call[c] = "returned" PROVE Complete(c)
    <3>. SUFFICES ASSUME NEW t \in TasksOf(c)
                  PROVE  \/ slot[t] = "ok" /\ exec[t] = "ok" /\ events[t] = {"completed"}
                         \/ slot[t] = "failed" /\ exec[t] = "failed" /\ events[t] = {"failed"}
                         \/ slot[t] = "failed" /\ exec[t] = "none" /\ events[t] = {}
      BY DEF Complete
    <3>1. t \in Task /\ t[1] = c /\ t[2] \in 1..Size[c] /\ Size[c] \in Nat
      BY TasksOfCall, Tasks, Sizes
    <3>2. c \notin due /\ \A w \in Pool(c) : at[w] = "done" /\ slot[Of(w)] # "none"
                                             /\ next[c] > Size[c]
      BY <2>1, <2>4, Pools DEF CallInv, WorkerInv
    <3>3. \E w \in Pool(c) : TRUE
      <4>1. <<c, 1>> \in Pool(c)
        BY Sizes DEF Pool
      <4>. QED
        BY <4>1
    <3>4. slot[t] # "none"
      <4>1. ~(t[2] >= next[c])
        BY <2>1, <3>1, <3>2, <3>3 DEF TypeOK
      <4>. QED
        BY <2>2, <3>2, <4>1
    <3>5. slot[t] \in {"ok", "failed"}
      BY <2>1, <2>4, <3>1, <3>2, <3>4 DEF TypeOK, TaskInv
    <3>. QED
      BY <2>1, <3>1, <3>5 DEF TaskInv, Told
  <2>. QED
    BY <2>3, <2>4
<1>. QED
  BY <1>1, AlwaysAInv, PTL

(* "never raises on partial-failure batches": gather raises after its      *)
(* timeout, or its caller's cancellation, only.                            *)
THEOREM GatherCorrect == Spec => []GatherRaisesOnlyWhenDue
<1>1. AInv => GatherRaisesOnlyWhenDue
  BY DEF AInv, CallInv, GatherRaisesOnlyWhenDue
<1>. QED
  BY <1>1, AlwaysAInv, PTL
=============================================================================
