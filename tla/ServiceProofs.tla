----------------------------- MODULE ServiceProofs -----------------------------
(***************************************************************************)
(* Theorems about a service process, for every set of requests, runs and   *)
(* providers, in any order and number, and every deployment: providers are *)
(* found and closed, whoever waits for a reply is subscribed to it, and    *)
(* both clients agree.                                                     *)
(***************************************************************************)
EXTENDS Service, TLAPS

Hosts == {"down", "starting", "enlisting", "refused", "serving", "shutting",
          "halting", "parting", "draining", "leaving", "left", "releasing",
          "closing", "stopped", "raised"}

Stations == {"new", "turned away", "done", "warming", "starting", "publishing",
             "awaiting", "executing"}

-----------------------------------------------------------------------------
(* The lifespan.  Only a router with a worker has one enlisted, a server   *)
(* goes from serving to stopped by way of its drain, and providers are     *)
(* told to close in the end only.                                          *)
HostInv ==
  /\ chosen \in DOMAIN Settings
  /\ host \in Hosts
  /\ host \in {"enlisting", "halting", "parting"} \/ enlisted
       => setting.host = "router" /\ setting.worker
  /\ host \in {"starting", "refused"} => setting.host = "router"
  /\ setting.host = "server" =>
       host \in {"down", "serving", "shutting", "draining", "stopped"}
  /\ host = "shutting" => setting.host = "server"
  /\ enlisted \in BOOLEAN

LEMMA HostStarts == Init => HostInv
BY DEF Init, HostInv, Hosts, setting

LEMMA HostStep == HostInv /\ [Next]_vars => HostInv'
<1>. SUFFICES ASSUME HostInv, [Next]_vars PROVE HostInv'
  OBVIOUS
<1>. USE SettingsAssumption DEF SettingsAssumption, HostInv, Hosts, setting
<1>1. CASE UNCHANGED <<chosen, host, enlisted>>
  BY <1>1
<1>2. CASE BeginLifespan
  BY <1>2 DEF BeginLifespan, HostOnly
<1>3. CASE InitiateShutdown
  BY <1>3 DEF InitiateShutdown, HostOnly
<1>4. CASE LeaveLifespan
  BY <1>4 DEF LeaveLifespan, HostOnly
<1>5. CASE Lifespan
  <2>1. CASE StartingUp
    BY <2>1 DEF StartingUp, HostOnly
  <2>2. CASE Enlist
    BY <2>2 DEF Enlist, HostOnly, Usable
  <2>3. CASE StopWorker
    BY <2>3 DEF StopWorker
  <2>4. CASE WorkerLeft
    BY <2>4 DEF WorkerLeft, HostOnly
  <2>5. CASE Drain
    BY <2>5 DEF Drain, HostOnly
  <2>6. CASE StopBroker
    BY <2>6 DEF StopBroker
  <2>7. CASE BackendStopped
    BY <2>7 DEF BackendStopped, HostOnly
  <2>8. CASE Release
    BY <2>8 DEF Release, HostOnly
  <2>. QED
    BY <1>5, <2>1, <2>2, <2>3, <2>4, <2>5, <2>6, <2>7, <2>8 DEF Lifespan
<1>6. ASSUME NEW q \in Request, TurnAway(q) \/ Inspect(q) \/ Accept(q) \/ Coroutine(q)
      PROVE  UNCHANGED <<chosen, host, enlisted>>
  BY <1>6 DEF TurnAway, Inspect, Accept, Coroutine, WarmUp, StartBackend, Publish,
              Consume, Reply, Deliver, Execute, TimeOut
<1>7. ASSUME NEW p \in Provider, Supervise(p) PROVE UNCHANGED <<chosen, host, enlisted>>
  BY <1>7 DEF Supervise
<1>8. CASE UNCHANGED vars
  BY <1>8 DEF vars
<1>. QED
  BY <1>1, <1>2, <1>3, <1>4, <1>5, <1>6, <1>7, <1>8 DEF Next
-----------------------------------------------------------------------------
(* Providers.  Nobody has been told to close before the lifespan closes    *)
(* them; until then a supervisor that is no longer there has left its      *)
(* error, so whatever counts as warm is open.                              *)
Untold == told = {} /\ captured = {}

ProvTypes ==
  /\ sup \in [Provider -> {"none", "starting", "open", "closing", "failed", "gone"}]
  /\ known \subseteq Provider /\ broken \subseteq Provider
  /\ warm \in [User -> Nat] /\ waiting \in [User -> BOOLEAN]

ProvInv ==
  /\ ProvTypes
  /\ \A p \in Provider : Supervised(p) => p \in known
  /\ \A p \in known : sup[p] # "none"
  /\ \A u \in User : warm[u] <= Len(Needs[u])
  /\ \A u \in User : waiting[u] => warm[u] < Len(Needs[u]) /\ sup[NextOf(u)] = "starting"
  /\ host \notin {"closing", "stopped", "raised"} => Untold
  /\ host = "closing" => captured # {}
  /\ Untold => \A p \in Provider :
       sup[p] # "closing" /\ (sup[p] \in {"failed", "gone"} => p \in broken)
  /\ Untold => \A u \in User : \A i \in 1..warm[u] : sup[Needs[u][i]] = "open"
  /\ host = "stopped" /\ setting.host = "router" => \A p \in Provider : ~Supervised(p)

LEMMA ProvStarts == Init => ProvInv
BY NeedsAssumption DEF NeedsAssumption, Init, McpInit, ProvInv, ProvTypes, Supervised, Untold

(* What a run still needs is a provider.                                   *)
LEMMA NextIsProvider ==
  ASSUME NEW u \in User, warm \in [User -> Nat], warm[u] < Len(Needs[u])
  PROVE  NextOf(u) \in Provider
BY NeedsAssumption DEF NeedsAssumption, NextOf

LEMMA WarmedAreProviders ==
  ASSUME NEW u \in User, warm[u] \in Nat, warm[u] <= Len(Needs[u]), NEW i \in 1..warm[u]
  PROVE  Needs[u][i] \in Provider
BY NeedsAssumption DEF NeedsAssumption

(* A step that leaves the providers alone and does not end the lifespan.   *)
LEMMA ProvKept ==
  ASSUME ProvInv, UNCHANGED mcpVars, UNCHANGED chosen,
         host' \in {"closing", "stopped", "raised"} =>
           host' = host \/ (setting.host = "server" /\ host' = "stopped"),
         host \in {"closing", "stopped", "raised"} => host' = host
  PROVE  ProvInv'
<1>1. Untold' = Untold
  BY DEF Untold, mcpVars
<1>2. setting' = setting
  BY DEF setting
<1>3. \A p : Supervised(p)' = Supervised(p)
  BY DEF Supervised, mcpVars
<1>4. \A u : NextOf(u)' = NextOf(u)
  BY DEF NextOf, mcpVars
<1>. QED
  BY <1>1, <1>2, <1>3, <1>4 DEF ProvInv, ProvTypes, mcpVars

LEMMA WarmKeepsProv ==
  ASSUME ProvInv, NEW u \in Request, Warm(u), UNCHANGED <<chosen, host>>, Up
  PROVE  ProvInv'
<1>. DEFINE p == NextOf(u)
<1>1. u \in User
  BY ServiceAssumption DEF ServiceAssumption
<1>2. /\ warm[u] < Len(Needs[u]) /\ ~waiting[u]
      /\ Len(Needs[u]) \in Nat
  BY <1>1, NeedsAssumption DEF Warm, WarmedUp, ProvInv, ProvTypes, NeedsAssumption
<1>3. p \in Provider
  BY <1>1, <1>2, NextIsProvider DEF ProvInv, ProvTypes
<1>4. setting' = setting
  BY DEF setting
<1>5. Untold' = Untold /\ captured' = captured
  BY DEF Untold, Warm
<1>6. CASE p \notin known
  <2>1. /\ known' = known \cup {p} /\ sup' = [sup EXCEPT ![p] = "starting"]
        /\ waiting' = [waiting EXCEPT ![u] = TRUE] /\ warm' = warm /\ broken' = broken
    BY <1>6 DEF Warm
  <2>2. ASSUME Untold', NEW v \in User, NEW i \in 1..warm'[v]
        PROVE  sup'[Needs[v][i]] = "open"
    <3>1. sup[Needs[v][i]] = "open" /\ Needs[v][i] \in Provider
      BY <2>1, <2>2, <1>5, WarmedAreProviders DEF ProvInv, ProvTypes
    <3>2. Needs[v][i] # p
      BY <3>1, <1>6 DEF ProvInv, Supervised
    <3>. QED
      BY <3>1, <3>2, <2>1 DEF ProvInv, ProvTypes
  <2>3. ASSUME NEW v \in User, waiting'[v]
        PROVE  warm'[v] < Len(Needs[v]) /\ sup'[NextOf(v)'] = "starting"
    <3>1. NextOf(v)' = NextOf(v) /\ warm[v] < Len(Needs[v])
      BY <2>1, <2>3, <1>2 DEF NextOf, ProvInv, ProvTypes
    <3>2. NextOf(v) \in Provider /\ (v # u => sup[NextOf(v)] = "starting")
      BY <3>1, <2>1, <2>3, NextIsProvider DEF ProvInv, ProvTypes
    <3>. QED
      BY <3>1, <3>2, <2>1 DEF ProvInv, ProvTypes
  <2>. QED
    BY <2>1, <2>2, <2>3, <1>1, <1>3, <1>4, <1>5 DEF ProvInv, ProvTypes, Supervised, Up
<1>7. CASE p \in known /\ sup[p] = "starting"
  <2>1. /\ waiting' = [waiting EXCEPT ![u] = TRUE]
        /\ UNCHANGED <<sup, known, broken, warm>>
    BY <1>7 DEF Warm
  <2>. QED
    BY <2>1, <1>1, <1>2, <1>3, <1>4, <1>5, <1>7 DEF ProvInv, ProvTypes, Supervised, Up, NextOf
<1>8. CASE p \in known /\ sup[p] # "starting"
  <2>1. /\ warm' = [warm EXCEPT ![u] = @ + IF p \in broken THEN 0 ELSE 1]
        /\ UNCHANGED <<sup, known, broken, waiting>>
    BY <1>8 DEF Warm
  <2>2. Untold /\ p \notin broken => sup[p] = "open"
    BY <1>3, <1>8 DEF ProvInv, ProvTypes
  <2>3. ASSUME NEW v \in User, waiting'[v]
        PROVE  warm'[v] < Len(Needs[v]) /\ sup'[NextOf(v)'] = "starting"
    BY <2>1, <2>3, <1>2 DEF ProvInv, ProvTypes, NextOf
  <2>4. ASSUME Untold', NEW v \in User, NEW i \in 1..warm'[v]
        PROVE  sup'[Needs[v][i]] = "open"
    <3>1. CASE i \in 1..warm[v]
      BY <2>1, <2>4, <1>5, <3>1 DEF ProvInv
    <3>2. CASE i \notin 1..warm[v]
      <4>1. v = u /\ i = warm[u] + 1 /\ p \notin broken
        BY <2>1, <2>4, <3>2, <1>1 DEF ProvInv, ProvTypes
      <4>. QED
        BY <4>1, <2>1, <2>2, <2>4, <1>5 DEF NextOf
    <3>. QED
      BY <3>1, <3>2
  <2>5. \A v \in User : warm'[v] \in Nat /\ warm'[v] <= Len(Needs[v])
    BY <2>1, <1>1, <1>2 DEF ProvInv, ProvTypes
  <2>. QED
    BY <2>1, <2>3, <2>4, <2>5, <1>4, <1>5 DEF ProvInv, ProvTypes, Supervised
<1>. QED
  BY <1>6, <1>7, <1>8
LEMMA SuperviseKeepsProv ==
  ASSUME ProvInv, NEW p \in Provider, Supervise(p)
  PROVE  ProvInv'
<1>1. /\ UNCHANGED <<chosen, host, known, told, captured>>
      /\ host \notin {"stopped", "raised"} /\ Untold' = Untold /\ setting' = setting
  BY DEF Supervise, Opened, OpenFails, Closed, Untold, setting
<1>2. CASE Closed(p)
  <2>1. /\ sup' = [sup EXCEPT ![p] = "gone"] /\ sup[p] \in {"closing", "failed"}
        /\ UNCHANGED <<broken, warm, waiting>>
    BY <1>2 DEF Closed
  <2>2. \A u \in User : NextOf(u)' = NextOf(u)
    BY <2>1 DEF NextOf
  <2>3. \A q \in Provider : Supervised(q)' => Supervised(q)
    BY <2>1 DEF Supervised, ProvInv, ProvTypes
  <2>4. ASSUME NEW u \in User, waiting[u] PROVE sup'[NextOf(u)] = "starting"
    BY <2>1, <2>4, NextIsProvider DEF ProvInv, ProvTypes
  <2>5. ASSUME Untold, NEW u \in User, NEW i \in 1..warm[u] PROVE sup'[Needs[u][i]] = "open"
    BY <2>1, <2>5, WarmedAreProviders DEF ProvInv, ProvTypes
  <2>. QED
    BY <1>1, <2>1, <2>2, <2>3, <2>4, <2>5 DEF ProvInv, ProvTypes
<1>3. CASE Opened(p)
  <2>1. /\ sup[p] = "starting" /\ broken' = broken
        /\ sup' = [sup EXCEPT ![p] = IF p \in told THEN "closing" ELSE "open"]
        /\ warm' = [u \in User |-> warm[u] + IF u \in WaitersOf(p) THEN 1 ELSE 0]
        /\ waiting' = [u \in User |-> waiting[u] /\ u \notin WaitersOf(p)]
    BY <1>3 DEF Opened
  <2>2. \A q \in Provider : Supervised(q)' = Supervised(q)
    BY <2>1 DEF Supervised, ProvInv, ProvTypes
  <2>3. \A u \in User : warm'[u] \in Nat /\ warm'[u] <= Len(Needs[u])
    BY <2>1, NeedsAssumption DEF NeedsAssumption, ProvInv, ProvTypes, WaitersOf
  <2>4. ASSUME NEW u \in User, waiting'[u]
        PROVE  warm'[u] < Len(Needs[u]) /\ sup'[NextOf(u)'] = "starting"
    <3>0. waiting[u] /\ u \notin WaitersOf(p)
      BY <2>1, <2>4
    <3>1. warm'[u] = warm[u] /\ NextOf(u)' = NextOf(u) /\ NextOf(u) # p
      BY <2>1, <3>0 DEF ProvInv, ProvTypes, WaitersOf, NextOf
    <3>. QED
      BY <3>0, <3>1, <2>1, NextIsProvider DEF ProvInv, ProvTypes
  <2>5. ASSUME Untold, NEW u \in User, NEW i \in 1..warm'[u] PROVE sup'[Needs[u][i]] = "open"
    <3>1. CASE i \in 1..warm[u]
      BY <2>1, <2>5, <3>1, WarmedAreProviders DEF ProvInv, ProvTypes, Untold
    <3>2. CASE i \notin 1..warm[u]
      <4>1. u \in WaitersOf(p) /\ i = warm[u] + 1
        BY <2>1, <2>5, <3>2 DEF ProvInv, ProvTypes
      <4>. QED
        BY <4>1, <2>1, <2>5 DEF WaitersOf, NextOf, Untold, ProvInv, ProvTypes
    <3>. QED
      BY <3>1, <3>2
  <2>6. /\ ProvTypes'
        /\ \A q \in known : sup'[q] # "none"
        /\ Untold => sup'[p] = "open"
    BY <2>1, <2>3, <1>1 DEF ProvInv, ProvTypes, Untold
  <2>. QED
    BY <1>1, <2>1, <2>2, <2>3, <2>4, <2>5, <2>6 DEF ProvInv, ProvTypes
<1>4. CASE OpenFails(p)
  <2>1. /\ sup[p] = "starting" /\ sup' = [sup EXCEPT ![p] = "failed"]
        /\ broken' = broken \cup {p} /\ warm' = warm
        /\ waiting' = [u \in User |-> waiting[u] /\ u \notin WaitersOf(p)]
    BY <1>4 DEF OpenFails
  <2>2. \A q \in Provider : Supervised(q)' = Supervised(q)
    BY <2>1 DEF Supervised, ProvInv, ProvTypes
  <2>3. ASSUME NEW u \in User, waiting'[u]
        PROVE  warm'[u] < Len(Needs[u]) /\ sup'[NextOf(u)'] = "starting"
    <3>1. waiting[u] /\ NextOf(u)' = NextOf(u) /\ NextOf(u) # p
      BY <2>1, <2>3 DEF ProvInv, ProvTypes, WaitersOf, NextOf
    <3>. QED
      BY <3>1, <2>1, NextIsProvider DEF ProvInv, ProvTypes
  <2>4. ASSUME Untold, NEW u \in User, NEW i \in 1..warm[u] PROVE sup'[Needs[u][i]] = "open"
    BY <2>1, <2>4, WarmedAreProviders DEF ProvInv, ProvTypes
  <2>5. ProvTypes' /\ \A q \in known : sup'[q] # "none"
    BY <2>1, <1>1 DEF ProvInv, ProvTypes
  <2>. QED
    BY <1>1, <2>1, <2>2, <2>3, <2>4, <2>5 DEF ProvInv, ProvTypes
<1>. QED
  BY <1>2, <1>3, <1>4 DEF Supervise

LEMMA ReleaseKeepsProv ==
  ASSUME ProvInv, Release
  PROVE  ProvInv'
<1>0. UNCHANGED <<warm, waiting>>
  BY DEF Release, ReleaseBegins, ReleaseEnds, ReleaseBreaks, mcpVars
<1>1. setting' = setting /\ \A u \in User : NextOf(u)' = NextOf(u)
  BY <1>0 DEF Release, HostOnly, setting, NextOf
<1>2. CASE host = "releasing" /\ ReleaseBegins
           /\ host' = IF known = {} THEN "stopped" ELSE "closing"
  <2>1. /\ captured' = known /\ told' = known /\ UNCHANGED <<known, broken>>
        /\ sup' = [q \in Provider |-> IF q \in known /\ sup[q] = "open" THEN "closing"
                                      ELSE sup[q]]
    BY <1>2 DEF ReleaseBegins
  <2>2. Untold /\ (Untold' => known = {})
    BY <1>2, <2>1 DEF Untold, ProvInv
  <2>3. \A q \in Provider : Supervised(q)' = Supervised(q)
    BY <2>1 DEF Supervised, ProvInv, ProvTypes
  <2>4. ASSUME known = {} PROVE sup' = sup /\ \A q \in Provider : ~Supervised(q)
    BY <2>1, <2>4 DEF ProvInv, ProvTypes
  <2>5. ASSUME NEW u \in User, waiting[u] PROVE sup'[NextOf(u)] = "starting"
    BY <2>1, <2>5, NextIsProvider DEF ProvInv, ProvTypes
  <2>6. ProvTypes' /\ \A q \in known : sup'[q] # "none"
    BY <1>0, <2>1 DEF ProvInv, ProvTypes
  <2>. QED
    BY <1>0, <1>1, <1>2, <2>1, <2>2, <2>3, <2>4, <2>5, <2>6 DEF ProvInv, ProvTypes
<1>3. CASE host = "closing" /\ ReleaseEnds /\ host' = "stopped"
  <2>1. /\ \A q \in known : sup[q] = "gone"
        /\ known' = {} /\ UNCHANGED <<sup, captured>> /\ captured = known
    BY <1>3 DEF ReleaseEnds, GoneAmong
  <2>2. \A q \in Provider : ~Supervised(q)'
    BY <2>1 DEF ProvInv, Supervised
  <2>3. ~Untold' /\ broken' \subseteq Provider
    BY <2>1, <1>3 DEF Untold, ProvInv, ReleaseEnds
  <2>. QED
    BY <1>0, <1>1, <1>3, <2>1, <2>2, <2>3 DEF ProvInv, ProvTypes
<1>4. CASE host = "closing" /\ ReleaseBreaks /\ host' = "raised"
  <2>1. Untold' = Untold /\ UNCHANGED mcpVars
    BY <1>4 DEF ReleaseBreaks, Untold, mcpVars
  <2>. QED
    BY <1>0, <1>1, <1>4, <2>1 DEF ProvInv, ProvTypes, Supervised, mcpVars
<1>. QED
  BY <1>2, <1>3, <1>4 DEF Release
LEMMA ProvStep == HostInv /\ ProvInv /\ [Next]_vars => ProvInv'
<1>. SUFFICES ASSUME HostInv, ProvInv, [Next]_vars PROVE ProvInv'
  OBVIOUS
<1>1. ASSUME UNCHANGED mcpVars, UNCHANGED <<chosen, host>> PROVE ProvInv'
  BY <1>1, ProvKept
<1>2. CASE BeginLifespan \/ InitiateShutdown \/ LeaveLifespan \/ StartingUp \/ Enlist
           \/ StopWorker \/ WorkerLeft \/ Drain \/ StopBroker \/ BackendStopped
  <2>1. UNCHANGED mcpVars /\ UNCHANGED chosen
    BY <1>2 DEF BeginLifespan, InitiateShutdown, LeaveLifespan, StartingUp, Enlist,
                StopWorker, WorkerLeft, Drain, StopBroker, BackendStopped, HostOnly
  <2>2. /\ host \notin {"closing", "stopped", "raised"}
        /\ host' \in {"closing", "stopped", "raised"} =>
             setting.host = "server" /\ host' = "stopped"
    <3>1. CASE BeginLifespan \/ InitiateShutdown \/ LeaveLifespan
      BY <3>1 DEF BeginLifespan, InitiateShutdown, LeaveLifespan
    <3>2. CASE StartingUp \/ Enlist \/ StopWorker \/ WorkerLeft
      BY <3>2 DEF StartingUp, Enlist, StopWorker, WorkerLeft
    <3>3. CASE Drain \/ StopBroker \/ BackendStopped
      BY <3>3 DEF Drain, StopBroker, BackendStopped
    <3>. QED
      BY <1>2, <3>1, <3>2, <3>3
  <2>. QED
    BY <2>1, <2>2, ProvKept
<1>3. CASE Release
  BY <1>3, ReleaseKeepsProv
<1>4. ASSUME NEW p \in Provider, Supervise(p) PROVE ProvInv'
  BY <1>4, SuperviseKeepsProv
<1>5. ASSUME NEW q \in Request, WarmUp(q) PROVE ProvInv'
  <2>1. UNCHANGED <<chosen, host>> /\ Up /\ (Warm(q) \/ UNCHANGED mcpVars)
    BY <1>5 DEF WarmUp
  <2>. QED
    BY <2>1, <1>1, WarmKeepsProv
<1>6. ASSUME NEW q \in Request,
             \/ TurnAway(q) \/ Inspect(q) \/ Accept(q) \/ StartBackend(q) \/ Publish(q)
             \/ Consume(q) \/ Reply(q) \/ Deliver(q) \/ Execute(q) \/ TimeOut(q)
      PROVE  ProvInv'
  BY <1>1, <1>6 DEF TurnAway, Inspect, Accept, StartBackend, Publish, Consume, Reply,
                    Deliver, Execute, TimeOut
<1>7. CASE UNCHANGED vars
  BY <1>1, <1>7 DEF vars
<1>. QED
  BY <1>2, <1>3, <1>4, <1>5, <1>6, <1>7 DEF Next, Lifespan, Coroutine

(* Every provider that is open or opening is found by the next shutdown(), *)
(* who waits waits for one that is opening, what counts as warm is open,   *)
(* and after a shutdown() that returns nothing is left open                *)
(* (runtime.py:975-1090): for all providers, runs and orders of their      *)
(* needs, whichever fail to open.                                          *)
THEOREM ProvidersCorrect == Spec => []ProvidersReleased
<1>1. Init => HostInv /\ ProvInv
  BY HostStarts, ProvStarts
<1>2. HostInv /\ ProvInv /\ [Next]_vars => (HostInv /\ ProvInv)'
  BY HostStep, ProvStep
<1>3. ProvInv => ProvidersReleased
  BY DEF ProvInv, Untold, ProvidersReleased
<1>. QED
  BY <1>1, <1>2, <1>3, PTL DEF Spec

-----------------------------------------------------------------------------
(* The broker, until somebody stops it.  Subscribing is the last thing     *)
(* start() does before it says so, and only one starter connects.          *)
LinkTypes ==
  /\ scheme \in {"memory", "stream"}
  /\ link \in {"none", "connecting", "up", "broken", "closed"}
  /\ started \in BOOLEAN /\ collecting \in BOOLEAN /\ ready \in BOOLEAN
  /\ subs \in [reply : Nat, events : Nat]
  /\ boot \in [Starter -> {"idle", "connecting", "collecting", "bridging", "up", "refused"}]

LinkInv ==
  /\ scheme = "memory" => link = "up" /\ \A s \in Starter : boot[s] \in {"idle", "up"}
  /\ scheme = "stream" /\ link = "up" => started
  /\ collecting => started /\ link = "up" /\ subs.reply > 0
  /\ ready => collecting /\ (PublishEvents => subs.events > 0)
  /\ \A s \in Starter :
       /\ boot[s] = "connecting" =>
            link = "connecting" /\ \A t \in Starter : boot[t] = "connecting" => t = s
       /\ boot[s] = "bridging" => collecting /\ PublishEvents
       /\ boot[s] = "up" => ready

Boots(s) == Start(s) \/ Connected(s) \/ Collected(s) \/ Bridged(s)

LEMMA BootTypes ==
  ASSUME LinkTypes, NEW s \in Starter, Boots(s)
  PROVE  LinkTypes' /\ (ready => ready')
<1>. USE ServiceAssumption DEF ServiceAssumption, LinkTypes
<1>1. CASE Start(s)
  <2>1. CASE ready
    BY <1>1, <2>1 DEF Start
  <2>2. CASE ~ready /\ scheme = "memory"
    BY <1>1, <2>2 DEF Start, StartInMemory
  <2>3. CASE ~ready /\ scheme = "stream"
    BY <1>1, <2>3 DEF Start, StartStream, GoOn, AfterBroker, AfterReplies
  <2>. QED
    BY <2>1, <2>2, <2>3
<1>2. CASE Connected(s)
  BY <1>2 DEF Connected, GoOn, AfterBroker, AfterReplies
<1>3. CASE Collected(s)
  <2>1. /\ subs' = subs \/ subs' = [subs EXCEPT !.reply = @ + 1]
        /\ UNCHANGED <<scheme, link, started>> /\ collecting' \in BOOLEAN
    BY <1>3 DEF Collected
  <2>2. /\ boot' \in [Starter -> {"idle", "connecting", "collecting", "bridging", "up",
                                  "refused"}]
        /\ ready' \in BOOLEAN /\ (ready => ready')
    BY <1>3 DEF Collected, GoOn, AfterReplies
  <2>. QED
    BY <2>1, <2>2
<1>4. CASE Bridged(s)
  <2>1. /\ subs' = subs \/ subs' = [subs EXCEPT !.events = @ + 1]
        /\ UNCHANGED <<scheme, link, started, collecting>>
    BY <1>4 DEF Bridged
  <2>2. /\ boot' \in [Starter -> {"idle", "connecting", "collecting", "bridging", "up",
                                  "refused"}]
        /\ ready' \in BOOLEAN /\ (ready => ready')
    BY <1>4 DEF Bridged, GoOn
  <2>. QED
    BY <2>1, <2>2
<1>. QED
  BY <1>1, <1>2, <1>3, <1>4 DEF Boots

LEMMA BootKeepsLink ==
  ASSUME LinkTypes, LinkInv, NEW s \in Starter, Boots(s)
  PROVE  LinkInv'
<1>. USE ServiceAssumption DEF ServiceAssumption, LinkTypes, LinkInv
<1>1. CASE Start(s)
  <2>1. CASE ready
    BY <1>1, <2>1 DEF Start
  <2>2. CASE ~ready /\ scheme = "memory"
    BY <1>1, <2>2 DEF Start, StartInMemory
  <2>3. CASE ~ready /\ scheme = "stream"
    BY <1>1, <2>3 DEF Start, StartStream, GoOn, AfterBroker, AfterReplies
  <2>. QED
    BY <2>1, <2>2, <2>3
<1>2. CASE Connected(s)
  BY <1>2 DEF Connected, GoOn, AfterBroker, AfterReplies
<1>3. CASE Collected(s)
  BY <1>3 DEF Collected, GoOn, AfterReplies
<1>4. CASE Bridged(s)
  BY <1>4 DEF Bridged, GoOn
<1>. QED
  BY <1>1, <1>2, <1>3, <1>4 DEF Boots
-----------------------------------------------------------------------------
(* Once stopped, the broker stays so; before that only start() moves it.   *)
LEMMA StopIsFinal ==
  ASSUME HostInv, [Next]_vars, BrokerStopped
  PROVE  BrokerStopped'
<1>. USE DEF HostInv, Hosts, setting, BrokerStopped
<1>1. CASE UNCHANGED <<chosen, host>>
  BY <1>1
<1>2. CASE BeginLifespan \/ InitiateShutdown \/ LeaveLifespan \/ StartingUp \/ Enlist
           \/ StopWorker
  BY <1>2 DEF BeginLifespan, InitiateShutdown, LeaveLifespan, StartingUp, Enlist, StopWorker
<1>3. CASE WorkerLeft
  BY <1>3 DEF WorkerLeft, HostOnly
<1>4. CASE Drain
  BY <1>4 DEF Drain
<1>5. CASE StopBroker \/ BackendStopped
  BY <1>5 DEF StopBroker, BackendStopped
<1>6. CASE Release
  BY <1>6 DEF Release
<1>7. ASSUME NEW q \in Request, TurnAway(q) \/ Inspect(q) \/ Accept(q) \/ Coroutine(q)
      PROVE  UNCHANGED <<chosen, host>>
  BY <1>7 DEF TurnAway, Inspect, Accept, Coroutine, WarmUp, StartBackend, Publish,
              Consume, Reply, Deliver, Execute, TimeOut
<1>8. ASSUME NEW p \in Provider, Supervise(p) PROVE UNCHANGED <<chosen, host>>
  BY <1>8 DEF Supervise
<1>9. CASE UNCHANGED vars
  BY <1>9 DEF vars
<1>. QED
  BY <1>1, <1>2, <1>3, <1>4, <1>5, <1>6, <1>7, <1>8, <1>9 DEF Next, Lifespan

LEMMA LinkMoves ==
  ASSUME HostInv, [Next]_vars, ~BrokerStopped'
  PROVE  UNCHANGED linkVars \/ \E s \in Starter : Boots(s)
<1>. USE ServiceAssumption DEF ServiceAssumption
<1>1. CASE StartingUp
  BY <1>1 DEF StartingUp, Boots
<1>2. CASE StopWorker \/ BackendStopped \/ StopBroker
  BY <1>2 DEF StopWorker, BackendStopped, StopBroker, BrokerStopped
<1>3. CASE WorkerLeft
  BY <1>3 DEF WorkerLeft, HostOnly, BrokerStopped, HostInv, setting
<1>4. CASE BeginLifespan \/ InitiateShutdown \/ LeaveLifespan \/ Enlist \/ Drain \/ Release
  BY <1>4 DEF BeginLifespan, InitiateShutdown, LeaveLifespan, Enlist, Drain, Release
<1>5. ASSUME NEW q \in Request, StartBackend(q) PROVE \E s \in Starter : Boots(s)
  BY <1>5 DEF StartBackend, Boots
<1>6. ASSUME NEW q \in Request,
             \/ TurnAway(q) \/ Inspect(q) \/ Accept(q) \/ WarmUp(q) \/ Publish(q)
             \/ Consume(q) \/ Reply(q) \/ Deliver(q) \/ Execute(q) \/ TimeOut(q)
      PROVE  UNCHANGED linkVars
  BY <1>6 DEF TurnAway, Inspect, Accept, WarmUp, Publish, Consume, Reply, Deliver, Execute,
              TimeOut
<1>7. ASSUME NEW p \in Provider, Supervise(p) PROVE UNCHANGED linkVars
  BY <1>7 DEF Supervise
<1>8. CASE UNCHANGED vars
  BY <1>8 DEF vars
<1>. QED
  BY <1>1, <1>2, <1>3, <1>4, <1>5, <1>6, <1>7, <1>8 DEF Next, Lifespan, Coroutine

(* Requests: where each is, and what its client was told.                  *)
Answers == Values \cup Mapped \cup {"KeyError"}

DeskTypes ==
  /\ pc \in [Request -> Stations]
  /\ end \in [Request -> Ends \cup {NoAnswer}]
  /\ answer \in [Request -> Answers \cup {NoAnswer}]
  /\ \A q \in Request : Kind[q] = "readyz" => pc[q] \in {"new", "done", "turned away"}

Told(q) ==
  \/ end[q] # NoAnswer /\ Agrees(answer[q], Locally(end[q]))
  \/ end[q] = "leaves"
  \/ pc[q] = "turned away" /\ (Shutting \/ ~Bearer(q) \/ host = "stopped")

(* What the client makes of each kind of response.                         *)
LEMMA DecodeOne ==
  ASSUME NEW s \in Nat, NEW b, NEW n
  PROVE  LET r == Response(s, b, n)
         IN  /\ s < 400 /\ b = "result" => Decode(r) = n
             /\ s < 400 /\ b = "leaves" => Decode(r) = "KeyError"
             /\ s >= 400 /\ b = "error" =>
                  Decode(r) = IF n \in Mapped THEN n ELSE "MurmurError"
             /\ s >= 400 /\ b = "detail" => Decode(r) = "RegistryError"
             /\ s >= 400 /\ b = "text" => Decode(r) = "MurmurError"
<1>. DEFINE r == Response(s, b, n)
<1>1. r.status = s /\ r.body = b /\ r.name = n
  BY DEF Response
<1>2. Decode(r) = IF s < 400 THEN IF b = "leaves" THEN "KeyError" ELSE n
                  ELSE CASE b = "error" -> IF n \in Mapped THEN n ELSE "MurmurError"
                         [] b = "detail" -> "RegistryError"
                         [] b = "text" -> "MurmurError"
  BY <1>1 DEF Decode
<1>. HIDE DEF r
<1>3. /\ s < 400 /\ b = "result" => Decode(r) = n
      /\ s < 400 /\ b = "leaves" => Decode(r) = "KeyError"
      /\ s >= 400 /\ b = "error" => Decode(r) = IF n \in Mapped THEN n ELSE "MurmurError"
      /\ s >= 400 /\ b = "detail" => Decode(r) = "RegistryError"
      /\ s >= 400 /\ b = "text" => Decode(r) = "MurmurError"
  BY <1>2
<1>. QED
  BY <1>3 DEF r

LEMMA DecodeAgrees ==
  ASSUME NEW e
  PROVE  /\ Decode(Send(e)) \in Answers
         /\ e # "leaves" => Agrees(Decode(Send(e)), Locally(e))
         /\ Decode(Send(e)) = "ok" => e = "ok"
<1>1. CASE e \in Values
  <2>1. Send(e) = Response(200, IF e = "leaves" THEN "leaves" ELSE "result", e)
    BY <1>1 DEF Send
  <2>2. Decode(Send(e)) = IF e = "leaves" THEN "KeyError" ELSE e
    BY <2>1, DecodeOne
  <2>. QED
    BY <1>1, <2>2 DEF Agrees, Locally, Values, Mapped, Listed, Answers
<1>2. CASE e = "NotReady"
  <2>1. Send(e) = Response(409, "detail", e)
    BY <1>2 DEF Send, Values
  <2>2. Decode(Send(e)) = "RegistryError"
    BY <2>1, DecodeOne
  <2>. QED
    BY <1>2, <2>2 DEF Agrees, Locally, Values, Mapped, Listed, Answers
<1>3. CASE e \in Handled /\ e \notin Values /\ e # "NotReady"
  <2>1. StatusOf(e) \in Nat /\ StatusOf(e) >= 400
    BY DEF StatusOf
  <2>2. Send(e) = Response(StatusOf(e), "error", e)
    BY <1>3 DEF Send
  <2>3. Decode(Send(e)) = IF e \in Mapped THEN e ELSE "MurmurError"
    BY <2>1, <2>2, DecodeOne
  <2>4. e # "ok" /\ Locally(e) = e
    BY <1>3 DEF Values, Locally
  <2>. QED
    BY <1>3, <2>3, <2>4 DEF Agrees, Values, Mapped, Listed, Answers
<1>4. CASE e \notin Handled /\ e \notin Values /\ e # "NotReady"
  <2>1. Send(e) = Response(500, "text", e)
    BY <1>4 DEF Send
  <2>2. Decode(Send(e)) = "MurmurError"
    BY <2>1, DecodeOne
  <2>3. Locally(e) = e /\ e \notin Mapped
    BY <1>4 DEF Locally, Handled
  <2>. QED
    BY <1>4, <2>2, <2>3 DEF Agrees, Values, Mapped, Listed, Answers
<1>. QED
  BY <1>1, <1>2, <1>3, <1>4
(* What a step does to a request: it answers its client, or moves it       *)
(* silently.                                                               *)
Moves(q, x) ==
  /\ pc' = [pc EXCEPT ![q] = x]
  /\ x \in Stations \ {"turned away"} /\ pc[q] # "turned away"

Silent(q) ==
  \E x \in Stations : /\ Moves(q, x) /\ UNCHANGED <<end, answer>>
                      /\ Kind[q] # "readyz"
                      /\ x = "awaiting" => boot[q] = "up"

Answered(q) ==
  \E x \in {"done", "warming"}, e \in Ends :
    /\ Moves(q, x) /\ Respond(q, e)
    /\ Kind[q] = "readyz" => x = "done" /\ (Brokered /\ e = "ok" => ready)

LEMMA SettleMoves ==
  ASSUME DeskTypes, NEW q \in Request, NEW e \in Ends, Settle(q, e),
         pc[q] \in {"warming", "starting", "awaiting", "executing"}
  PROVE  Silent(q) \/ Answered(q)
<1>1. Kind[q] # "readyz" /\ pc' = [pc EXCEPT ![q] = "done"] /\ Moves(q, "done")
  BY DEF DeskTypes, Settle, Moves, Stations
<1>2. CASE Kind[q] = "submit"
  BY <1>1, <1>2 DEF Settle, Silent, Stations
<1>3. CASE Kind[q] # "submit"
  BY <1>1, <1>3 DEF Settle, Answered
<1>. QED
  BY <1>2, <1>3

LEMMA ReceiveMoves ==
  ASSUME DeskTypes, NEW q \in Request, Receive(q)
  PROVE  UNCHANGED <<pc, end, answer>> \/ Silent(q) \/ Answered(q)
<1>1. CASE subs.reply > 0 /\ pc[q] = "awaiting"
  <2>1. PICK e \in {"ok", "failed"} : Settle(q, e)
    BY <1>1 DEF Receive
  <2>2. e \in Ends
    BY DEF Ends, Values
  <2>. QED
    BY <1>1, <2>1, <2>2, SettleMoves
<1>2. CASE ~(subs.reply > 0 /\ pc[q] = "awaiting")
  BY <1>2 DEF Receive
<1>. QED
  BY <1>1, <1>2

LEMMA LookEnds ==
  ASSUME NEW q \in Request, Kind[q] \in Probes \cup {"result", "cancel"}
  PROVE  /\ Look(q) \in Ends
         /\ Kind[q] = "readyz" /\ Brokered /\ Look(q) = "ok" => ready
<1>1. CASE Kind[q] = "healthz"
  BY <1>1 DEF Look, Ends, Values
<1>2. CASE Kind[q] = "readyz"
  BY <1>2 DEF Look, Ends, Values
<1>3. CASE Kind[q] = "cancel"
  BY <1>3 DEF Look, Ends, Values, Handled, Mapped, Listed
<1>4. CASE Kind[q] = "result"
  <2>1. CASE record[About[q]] \in {"ok", "failed"}
    BY <1>4, <2>1 DEF Look, Ends, Values
  <2>2. CASE record[About[q]] \in {"none", "lost"}
    BY <1>4, <2>2 DEF Look, Ends, Handled, Mapped, Listed
  <2>3. CASE record[About[q]] \notin {"ok", "failed", "none", "lost"}
    BY <1>4, <2>3 DEF Look, Ends
  <2>. QED
    BY <1>4, <2>1, <2>2, <2>3
<1>. QED
  BY <1>1, <1>2, <1>3, <1>4 DEF Probes

LEMMA DeskMoves ==
  ASSUME DeskTypes, NEW q \in Request,
         \/ Inspect(q) \/ Accept(q) \/ Coroutine(q)
  PROVE  UNCHANGED <<pc, end, answer>> \/ Silent(q) \/ Answered(q)
<1>1. CASE Inspect(q)
  <2>1. /\ Kind[q] \in Probes \cup {"result", "cancel"} /\ Moves(q, "done")
        /\ Respond(q, Look(q))
    BY <1>1 DEF Inspect, Admitted, Moves, Stations
  <2>. QED
    BY <2>1, LookEnds DEF Answered
<1>2. CASE Accept(q)
  <2>1. Moves(q, "warming") /\ Kind[q] # "readyz"
    BY <1>2 DEF Accept, Admitted, Moves, Stations
  <2>2. CASE Kind[q] = "submit"
    BY <1>2, <2>1, <2>2 DEF Accept, Answered, Ends, Values
  <2>3. CASE Kind[q] # "submit"
    BY <1>2, <2>1, <2>3 DEF Accept, Silent, Stations
  <2>. QED
    BY <2>2, <2>3
<1>3. CASE WarmUp(q)
  <2>1. pc[q] = "warming"
    BY <1>3 DEF WarmUp
  <2>2. CASE q \in doomed /\ Settle(q, "McpError")
    BY <2>1, <2>2, SettleMoves DEF Ends
  <2>3. CASE UNCHANGED deskVars
    BY <2>3 DEF deskVars
  <2>4. CASE /\ pc' = [pc EXCEPT ![q] = IF Brokered THEN "starting" ELSE "executing"]
             /\ UNCHANGED <<end, answer>>
    BY <2>1, <2>4 DEF Silent, Moves, Stations, DeskTypes
  <2>. QED
    BY <1>3, <2>2, <2>3, <2>4 DEF WarmUp
<1>4. CASE StartBackend(q) \/ Consume(q)
  BY <1>4 DEF StartBackend, Consume, deskVars
<1>5. CASE Publish(q)
  <2>1. pc[q] = "starting"
    BY <1>5 DEF Publish
  <2>2. CASE Settle(q, "RuntimeError")
    BY <2>1, <2>2, SettleMoves DEF Ends
  <2>3. CASE /\ boot[q] = "up" /\ pc' = [pc EXCEPT ![q] = "awaiting"]
             /\ UNCHANGED <<end, answer>>
    BY <2>1, <2>3 DEF Silent, Moves, Stations, DeskTypes
  <2>. QED
    BY <1>5, <2>2, <2>3 DEF Publish
<1>6. CASE Reply(q)
  BY <1>6, ReceiveMoves DEF Reply
<1>7. CASE Deliver(q)
  BY <1>7, ReceiveMoves DEF Deliver
<1>8. CASE Execute(q)
  <2>1. PICK e \in RunErrors \cup {"failed", IF Kind[q] = "group" THEN "leaves" ELSE "ok"} :
          Settle(q, e) /\ pc[q] = "executing"
    BY <1>8 DEF Execute
  <2>2. e \in Ends
    BY DEF Ends, Values
  <2>. QED
    BY <2>1, <2>2, SettleMoves
<1>9. CASE TimeOut(q)
  BY <1>9, SettleMoves DEF TimeOut, Ends, Handled, Mapped, Listed
<1>. QED
  BY <1>1, <1>2, <1>3, <1>4, <1>5, <1>6, <1>7, <1>8, <1>9 DEF Coroutine
-----------------------------------------------------------------------------
(* Whoever has an answer was told how its handler ended, or was turned     *)
(* away for a reason that stays one.                                       *)
DeskInv ==
  /\ DeskTypes
  /\ \A q \in Request : answer[q] # NoAnswer /\ Kind[q] \notin Probes => Told(q)

LEMMA DeskStarts == Init => DeskInv
BY DEF Init, DeskInv, DeskTypes, Stations

(* AgentServer's flag goes up once; a client keeps its token.              *)
LEMMA ReasonsStay ==
  ASSUME HostInv, [Next]_vars, NEW q \in Request,
         Shutting \/ ~Bearer(q) \/ host = "stopped"
  PROVE  (Shutting \/ ~Bearer(q) \/ host = "stopped")'
<1>. USE DEF HostInv, Hosts, setting, Shutting, Bearer
<1>1. CASE UNCHANGED <<chosen, host>>
  BY <1>1
<1>2. CASE BeginLifespan \/ InitiateShutdown \/ LeaveLifespan \/ StartingUp \/ Enlist
           \/ StopWorker
  BY <1>2 DEF BeginLifespan, InitiateShutdown, LeaveLifespan, StartingUp, Enlist,
              StopWorker, HostOnly
<1>3. CASE WorkerLeft \/ Drain \/ StopBroker \/ BackendStopped
  BY <1>3 DEF WorkerLeft, Drain, StopBroker, BackendStopped, HostOnly
<1>4. CASE Release
  BY <1>4 DEF Release, HostOnly
<1>5. ASSUME NEW r \in Request, TurnAway(r) \/ Inspect(r) \/ Accept(r) \/ Coroutine(r)
      PROVE  UNCHANGED <<chosen, host>>
  BY <1>5 DEF TurnAway, Inspect, Accept, Coroutine, WarmUp, StartBackend, Publish,
              Consume, Reply, Deliver, Execute, TimeOut
<1>6. ASSUME NEW p \in Provider, Supervise(p) PROVE UNCHANGED <<chosen, host>>
  BY <1>6 DEF Supervise
<1>7. CASE UNCHANGED vars
  BY <1>7 DEF vars
<1>. QED
  BY <1>1, <1>2, <1>3, <1>4, <1>5, <1>6, <1>7 DEF Next, Lifespan

(* The guards: what they answer, and to whom.                              *)
LEMMA TurnedAwayWhy ==
  ASSUME NEW q \in Request, TurnAway(q)
  PROVE  /\ Shutting \/ ~Bearer(q)
         /\ Kind[q] \notin Probes /\ pc[q] = "new"
         /\ pc' = [pc EXCEPT ![q] = "turned away"]
         /\ answer' = [answer EXCEPT ![q] = "MurmurError"]
         /\ UNCHANGED <<end, chosen, host, linkVars>>
<1>1. PICK r \in TurnedAway(Kind[q], Bearer(q), Shutting) :
        answer' = [answer EXCEPT ![q] = Decode(r)]
  BY DEF TurnAway
<1>2. /\ Kind[q] \notin Probes /\ (Shutting \/ ~Bearer(q))
      /\ r \in {Unauthorized, ShuttingDown}
  BY <1>1 DEF TurnedAway
<1>3. Decode(r) = "MurmurError"
  BY <1>2, DecodeOne DEF Unauthorized, ShuttingDown, Mapped, Listed
<1>. QED
  BY <1>1, <1>2, <1>3 DEF TurnAway

(* What a step does to all of the requests.                                *)
LEMMA DeskCases ==
  ASSUME DeskTypes, [Next]_vars
  PROVE  \/ UNCHANGED <<pc, end, answer>>
         \/ \E q \in Request : TurnAway(q) \/ Silent(q) \/ Answered(q)
<1>1. CASE BeginLifespan \/ InitiateShutdown \/ LeaveLifespan \/ StartingUp \/ Enlist
           \/ StopWorker \/ WorkerLeft
  BY <1>1 DEF BeginLifespan, InitiateShutdown, LeaveLifespan, StartingUp, Enlist,
              StopWorker, WorkerLeft, HostOnly, deskVars
<1>2. CASE Drain \/ StopBroker \/ BackendStopped \/ Release
  BY <1>2 DEF Drain, StopBroker, BackendStopped, Release, HostOnly, deskVars
<1>3. ASSUME NEW p \in Provider, Supervise(p) PROVE UNCHANGED <<pc, end, answer>>
  BY <1>3 DEF Supervise, deskVars
<1>4. CASE UNCHANGED vars
  BY <1>4 DEF vars, deskVars
<1>. QED
  BY <1>1, <1>2, <1>3, <1>4, DeskMoves DEF Next, Lifespan

LEMMA DeskStep == HostInv /\ DeskInv /\ [Next]_vars => DeskInv'
<1>. SUFFICES ASSUME HostInv, DeskInv, [Next]_vars PROVE DeskInv'
  OBVIOUS
<1>. USE DEF DeskInv
<1>1. CASE UNCHANGED <<pc, end, answer>>
  <2>1. DeskTypes'
    BY <1>1 DEF DeskTypes
  <2>2. ASSUME NEW p \in Request, Told(p) PROVE Told(p)'
    BY <1>1, <2>2, ReasonsStay DEF Told
  <2>. QED
    BY <1>1, <2>1, <2>2
<1>2. ASSUME NEW q \in Request, TurnAway(q) PROVE DeskInv'
  <2>1. /\ Kind[q] \notin Probes /\ (Shutting \/ ~Bearer(q)) /\ pc[q] = "new"
        /\ pc' = [pc EXCEPT ![q] = "turned away"]
        /\ answer' = [answer EXCEPT ![q] = "MurmurError"]
        /\ UNCHANGED <<end, chosen, host>>
    BY <1>2, TurnedAwayWhy
  <2>2. DeskTypes'
    BY <2>1 DEF DeskTypes, Stations, Answers, Mapped, Probes
  <2>3. ASSUME NEW p \in Request, answer'[p] # NoAnswer, Kind[p] \notin Probes
        PROVE  Told(p)'
    <3>1. CASE p = q
      BY <2>1, <3>1, ReasonsStay DEF Told, DeskTypes
    <3>2. CASE p # q
      BY <2>1, <2>3, <3>2, ReasonsStay DEF Told, DeskTypes
    <3>. QED
      BY <3>1, <3>2
  <2>. QED
    BY <2>2, <2>3
<1>3. ASSUME NEW q \in Request, Silent(q) PROVE DeskInv'
  <2>1. PICK x \in Stations : Moves(q, x) /\ UNCHANGED <<end, answer>> /\ Kind[q] # "readyz"
    BY <1>3 DEF Silent
  <2>2. DeskTypes'
    BY <2>1 DEF DeskTypes, Moves
  <2>3. ASSUME NEW p \in Request, Told(p) PROVE Told(p)'
    BY <2>1, <2>3, ReasonsStay DEF Told, DeskTypes, Moves
  <2>. QED
    BY <2>1, <2>2, <2>3
<1>4. ASSUME NEW q \in Request, Answered(q) PROVE DeskInv'
  <2>1. PICK x \in {"done", "warming"}, e \in Ends :
          /\ Moves(q, x) /\ Respond(q, e) /\ (Kind[q] = "readyz" => x = "done")
    BY <1>4 DEF Answered
  <2>2. Decode(Send(e)) \in Answers /\ (e # "leaves" => Agrees(Decode(Send(e)), Locally(e)))
    BY DecodeAgrees
  <2>3. DeskTypes'
    BY <2>1, <2>2 DEF DeskTypes, Moves, Respond
  <2>4. ASSUME NEW p \in Request, answer'[p] # NoAnswer, Kind[p] \notin Probes
        PROVE  Told(p)'
    <3>1. CASE p = q
      <4>1. end'[q] = e /\ answer'[q] = Decode(Send(e))
        BY <2>1 DEF DeskTypes, Respond
      <4>. QED
        BY <2>2, <3>1, <4>1, EndsAssumption DEF Told
    <3>2. CASE p # q
      <4>1. Told(p) /\ UNCHANGED <<pc[p], end[p], answer[p]>>
        BY <2>1, <2>4, <3>2 DEF DeskTypes, Respond, Moves
      <4>. QED
        BY <4>1, ReasonsStay DEF Told
    <3>. QED
      BY <3>1, <3>2
  <2>. QED
    BY <2>3, <2>4
<1>. QED
  BY <1>1, <1>2, <1>3, <1>4, DeskCases

(* HttpClient and LocalClient hand their caller the same value or error    *)
(* class: the server's table, the exception handlers behind it, the        *)
(* client's table and what falls through each, for whatever a run raises.  *)
THEOREM ClientsCorrect == Spec => []ClientsAgree
<1>1. Init => HostInv /\ DeskInv
  BY HostStarts, DeskStarts
<1>2. HostInv /\ DeskInv /\ [Next]_vars => (HostInv /\ DeskInv)'
  BY HostStep, DeskStep
<1>3. HostInv /\ DeskInv => ClientsAgree
  BY DEF DeskInv, Told, ClientsAgree
<1>. QED
  BY <1>1, <1>2, <1>3, PTL DEF Spec
-----------------------------------------------------------------------------
(* Replies.  As long as the broker is not stopped, a backend that has ever *)
(* been started is; who awaits a reply, or was told "ready", came after.   *)
ReplyInv ==
  /\ LinkTypes
  /\ ~BrokerStopped =>
       /\ LinkInv
       /\ \A q \in Request :
            \/ pc[q] = "awaiting"
            \/ Kind[q] = "readyz" /\ Brokered /\ answer[q] = "ok"
            => ready

LEMMA ReplyStarts == Init => ReplyInv
<1>. SUFFICES ASSUME Init PROVE ReplyInv
  OBVIOUS
<1>1. Brokered => setting.broker \in {"memory", "stream"}
  BY SettingsAssumption DEF SettingsAssumption, Brokered, setting, Init
<1>2. LinkTypes /\ LinkInv
  BY <1>1 DEF Init, LinkInit, LinkTypes, LinkInv
<1>3. "ok" # NoAnswer
  BY EndsAssumption DEF Ends, Values
<1>. QED
  BY <1>2, <1>3 DEF ReplyInv, Init

(* Stopping a broker leaves a state start() can be called in.              *)
LEMMA LinkTypesStep == LinkTypes /\ [Next]_vars => LinkTypes'
<1>. SUFFICES ASSUME LinkTypes, [Next]_vars PROVE LinkTypes'
  OBVIOUS
<1>. USE ServiceAssumption DEF ServiceAssumption
<1>1. CASE UNCHANGED linkVars
  BY <1>1 DEF linkVars, LinkTypes
<1>2. ASSUME NEW s \in Starter, Boots(s) PROVE LinkTypes'
  BY <1>2, BootTypes
<1>3. ASSUME Unsubscribe PROVE LinkTypes'
  BY <1>3 DEF Unsubscribe, LinkTypes
<1>4. ASSUME Disconnect, ready' \in BOOLEAN PROVE LinkTypes'
  BY <1>4 DEF Disconnect, LinkTypes
<1>5. CASE StartingUp
  BY <1>2, <1>5 DEF StartingUp, Boots
<1>6. CASE StopWorker
  BY <1>3, <1>6 DEF StopWorker
<1>7. CASE WorkerLeft \/ BackendStopped
  BY <1>4, <1>7 DEF WorkerLeft, BackendStopped, LinkTypes
<1>8. CASE StopBroker
  <2>1. CASE StopIsNoop
    BY <1>8, <2>1 DEF StopBroker, LinkTypes
  <2>2. CASE ~StopIsNoop
    BY <1>3, <1>8, <2>2 DEF StopBroker
  <2>. QED
    BY <2>1, <2>2
<1>9. CASE BeginLifespan \/ InitiateShutdown \/ LeaveLifespan \/ Enlist \/ Drain \/ Release
  BY <1>1, <1>9 DEF BeginLifespan, InitiateShutdown, LeaveLifespan, Enlist, Drain, Release
<1>10. ASSUME NEW q \in Request, StartBackend(q) PROVE LinkTypes'
  BY <1>2, <1>10 DEF StartBackend, Boots
<1>11. ASSUME NEW q \in Request,
              \/ TurnAway(q) \/ Inspect(q) \/ Accept(q) \/ WarmUp(q) \/ Publish(q)
              \/ Consume(q) \/ Reply(q) \/ Deliver(q) \/ Execute(q) \/ TimeOut(q)
       PROVE  UNCHANGED linkVars
  BY <1>11 DEF TurnAway, Inspect, Accept, WarmUp, Publish, Consume, Reply, Deliver,
               Execute, TimeOut
<1>12. ASSUME NEW p \in Provider, Supervise(p) PROVE UNCHANGED linkVars
  BY <1>12 DEF Supervise
<1>13. CASE UNCHANGED vars
  BY <1>1, <1>13 DEF vars
<1>. QED
  BY <1>1, <1>5, <1>6, <1>7, <1>8, <1>9, <1>10, <1>11, <1>12, <1>13
     DEF Next, Lifespan, Coroutine

LEMMA ChosenStays == [Next]_vars => UNCHANGED chosen
<1>. SUFFICES ASSUME [Next]_vars PROVE UNCHANGED chosen
  OBVIOUS
<1>1. CASE BeginLifespan \/ InitiateShutdown \/ LeaveLifespan \/ StartingUp \/ Enlist
           \/ StopWorker \/ WorkerLeft
  BY <1>1 DEF BeginLifespan, InitiateShutdown, LeaveLifespan, StartingUp, Enlist,
              StopWorker, WorkerLeft, HostOnly
<1>2. CASE Drain \/ StopBroker \/ BackendStopped \/ Release
  BY <1>2 DEF Drain, StopBroker, BackendStopped, Release, HostOnly
<1>3. ASSUME NEW q \in Request, TurnAway(q) \/ Inspect(q) \/ Accept(q) \/ Coroutine(q)
      PROVE  UNCHANGED chosen
  BY <1>3 DEF TurnAway, Inspect, Accept, Coroutine, WarmUp, StartBackend, Publish,
              Consume, Reply, Deliver, Execute, TimeOut
<1>4. ASSUME NEW p \in Provider, Supervise(p) PROVE UNCHANGED chosen
  BY <1>4 DEF Supervise
<1>5. CASE UNCHANGED vars
  BY <1>5 DEF vars
<1>. QED
  BY <1>1, <1>2, <1>3, <1>4, <1>5 DEF Next, Lifespan

LEMMA ReplyStep == HostInv /\ DeskInv /\ ReplyInv /\ [Next]_vars => ReplyInv'
<1>. SUFFICES ASSUME HostInv, DeskInv, ReplyInv, [Next]_vars, ~BrokerStopped'
              PROVE  ReplyInv'
  BY LinkTypesStep DEF ReplyInv
<1>1. ~BrokerStopped
  BY StopIsFinal
<1>2. /\ LinkTypes /\ LinkInv
      /\ \A q \in Request :
           pc[q] = "awaiting" \/ (Kind[q] = "readyz" /\ Brokered /\ answer[q] = "ok") => ready
  BY <1>1 DEF ReplyInv
<1>3. LinkTypes' /\ LinkInv' /\ (ready => ready')
  <2>1. CASE UNCHANGED linkVars
    BY <1>2, <2>1 DEF linkVars, LinkTypes, LinkInv
  <2>2. CASE \E s \in Starter : Boots(s)
    BY <1>2, <2>2, BootTypes, BootKeepsLink
  <2>. QED
    BY <2>1, <2>2, LinkMoves
<1>4. Brokered' <=> Brokered
  BY ChosenStays DEF Brokered, setting
<1>5. ASSUME NEW p \in Request,
             pc'[p] = "awaiting" \/ (Kind[p] = "readyz" /\ Brokered /\ answer'[p] = "ok")
      PROVE  ready
  <2>1. CASE UNCHANGED <<pc, end, answer>>
    BY <1>2, <1>5, <2>1
  <2>2. ASSUME NEW q \in Request, TurnAway(q) PROVE ready
    <3>1. /\ pc' = [pc EXCEPT ![q] = "turned away"]
          /\ answer' = [answer EXCEPT ![q] = "MurmurError"]
      BY <2>2, TurnedAwayWhy
    <3>. QED
      BY <1>2, <1>5, <3>1 DEF DeskInv, DeskTypes
  <2>3. ASSUME NEW q \in Request, Silent(q) PROVE ready
    BY <1>2, <1>5, <2>3, ServiceAssumption
       DEF ServiceAssumption, Silent, Moves, DeskInv, DeskTypes, LinkInv
  <2>4. ASSUME NEW q \in Request, Answered(q) PROVE ready
    <3>1. PICK x \in {"done", "warming"}, e \in Ends :
            /\ Moves(q, x) /\ Respond(q, e)
            /\ Kind[q] = "readyz" => x = "done" /\ (Brokered /\ e = "ok" => ready)
      BY <2>4 DEF Answered
    <3>2. answer' = [answer EXCEPT ![q] = Decode(Send(e))] /\ pc' = [pc EXCEPT ![q] = x]
      BY <3>1 DEF Respond, Moves
    <3>3. Decode(Send(e)) = "ok" => e = "ok"
      BY DecodeAgrees
    <3>. QED
      BY <1>2, <1>5, <3>1, <3>2, <3>3 DEF DeskInv, DeskTypes
  <2>. QED
    BY <2>1, <2>2, <2>3, <2>4, DeskCases DEF DeskInv
<1>. QED
  BY <1>3, <1>4, <1>5 DEF ReplyInv

(* JobBackend.start() takes no lock: however many runs and the lifespan    *)
(* call it at once, and whoever's connection or subscription fails, nobody *)
(* awaits a reply that cannot reach this process, and /readyz says so only *)
(* of a backend that is started.                                           *)
THEOREM RepliesCorrect == Spec => []RepliesHeard
<1>1. Init => HostInv /\ DeskInv /\ ReplyInv
  BY HostStarts, DeskStarts, ReplyStarts
<1>2. HostInv /\ DeskInv /\ ReplyInv /\ [Next]_vars => (HostInv /\ DeskInv /\ ReplyInv)'
  BY HostStep, DeskStep, ReplyStep
<1>3. ReplyInv => RepliesHeard
  <2>. SUFFICES ASSUME ReplyInv, Brokered, ~BrokerStopped
                PROVE  /\ ready \/ (\E q \in Request : pc[q] = "awaiting") =>
                            /\ Usable
                            /\ subs.reply > 0
                            /\ PublishEvents => subs.events > 0
                       /\ \A q \in Request : Kind[q] = "readyz" /\ answer[q] = "ok" => ready
    BY DEF RepliesHeard
  <2>1. ready => Usable /\ subs.reply > 0 /\ (PublishEvents => subs.events > 0)
    BY DEF ReplyInv, LinkInv, Usable
  <2>. QED
    BY <2>1 DEF ReplyInv
<1>. QED
  BY <1>1, <1>2, <1>3, PTL DEF Spec
=============================================================================
