------------------------------ MODULE BrokerLink ------------------------------
(***************************************************************************)
(* backends/_brokers.py, backends/_inmemory_broker.py, backends/job.py:    *)
(* how the one broker of a process is connected, subscribed to and         *)
(* disconnected.  JobBackend.start() is called by the lifespan and by every*)
(* run, with no lock; stop() by a worker that shares the broker and by the *)
(* lifespan.                                                               *)
(*                                                                         *)
(* External: FastStream's broker.  Connecting it suspends and may fail; a  *)
(* subscriber or a publish on one that is not connected raises.            *)
(***************************************************************************)
EXTENDS Integers

CONSTANTS
  Starter,      (* coroutines that call JobBackend.start()                  *)
  PublishEvents (* JobBackend(publish_events=...)                           *)

VARIABLES
  scheme,       (* "memory", or "stream" for the four FastStream classes    *)
  link,         (* the FastStream broker: none (not built), connecting, up, *)
                (* broken (its start raised), closed                        *)
  started,      (* _BrokerCore.started / InMemoryBroker._started            *)
  subs,         (* live subscriptions to the reply and the events topic     *)
  collecting,   (* ResultCollector._started                                 *)
  ready,        (* JobBackend._started                                      *)
  boot          (* boot[s]: idle, connecting, collecting, bridging, up, refused*)

linkVars == <<scheme, link, started, subs, collecting, ready, boot>>

LinkInit(schemes) ==
  /\ scheme \in schemes
  /\ link = IF scheme = "memory" THEN "up" ELSE "none"
  /\ started = FALSE
  /\ subs = [reply |-> 0, events |-> 0]
  /\ collecting = FALSE
  /\ ready = FALSE
  /\ boot = [s \in Starter |-> "idle"]

(* Where start() goes once the broker says it is started, and once the     *)
(* collector has subscribed.                                               *)
AfterReplies == IF PublishEvents THEN "bridging" ELSE "up"

AfterBroker == IF collecting THEN AfterReplies ELSE "collecting"

(* subscribe() raises at once unless the broker is connected; up means     *)
(* that start() returns and sets JobBackend._started.                      *)
GoOn(s, to) ==
  /\ boot' = [boot EXCEPT ![s] = IF to = "up" \/ link' = "up" THEN to
                                 ELSE "refused"]
  /\ ready' = (ready \/ to = "up")

(* JobBackend.start() up to its first suspension.  InMemoryBroker never    *)
(* suspends.  _BrokerCore.start builds and connects a FastStream broker    *)
(* once; when there is one it only sets the flag, connected or not.        *)
StartInMemory(s) ==
  /\ started' = TRUE /\ collecting' = TRUE /\ ready' = TRUE
  /\ subs' = [reply  |-> subs.reply + IF collecting THEN 0 ELSE 1,
              events |-> subs.events + IF PublishEvents THEN 1 ELSE 0]
  /\ boot' = [boot EXCEPT ![s] = "up"]
  /\ UNCHANGED link

StartStream(s) ==
  /\ UNCHANGED <<subs, collecting>>
  /\ IF ~started /\ link = "none"
     THEN /\ link' = "connecting"
          /\ boot' = [boot EXCEPT ![s] = "connecting"]
          /\ UNCHANGED <<started, ready>>
     ELSE /\ started' = TRUE
          /\ UNCHANGED link
          /\ GoOn(s, AfterBroker)

Start(s) ==
  /\ boot[s] = "idle"
  /\ UNCHANGED scheme
  /\ IF ready
     THEN /\ boot' = [boot EXCEPT ![s] = "up"]
          /\ UNCHANGED <<link, started, subs, collecting, ready>>
     ELSE IF scheme = "memory" THEN StartInMemory(s) ELSE StartStream(s)

(* await fs_broker.start() returns, or raises.                             *)
Connected(s) ==
  /\ boot[s] = "connecting"
  /\ UNCHANGED <<scheme, subs, collecting>>
  /\ \/ /\ link' = "up" /\ started' = TRUE
        /\ GoOn(s, AfterBroker)
     \/ /\ link' = "broken"
        /\ boot' = [boot EXCEPT ![s] = "refused"]
        /\ UNCHANGED <<started, ready>>

CollectedFlagFirst(s) ==                 \* mutant: _started is set before the subscription is made
  /\ boot[s] = "collecting"
  /\ UNCHANGED <<scheme, link, started>>
  /\ IF ~collecting
     THEN collecting' = TRUE /\ UNCHANGED <<subs, boot, ready>>
     ELSE /\ subs' = [subs EXCEPT !.reply = @ + 1]
          /\ UNCHANGED collecting
          /\ GoOn(s, AfterReplies)

(* The collector's subscription is made: it is one more when another       *)
(* starter was as far.  It fails when the broker has gone meanwhile.       *)
Collected(s) ==
  /\ boot[s] = "collecting"
  /\ UNCHANGED <<scheme, link, started>>
  /\ IF link = "up"
     THEN /\ subs' = [subs EXCEPT !.reply = @ + 1]
          /\ collecting' = TRUE
          /\ GoOn(s, AfterReplies)
     ELSE /\ boot' = [boot EXCEPT ![s] = "refused"]
          /\ UNCHANGED <<subs, collecting, ready>>

Bridged(s) ==
  /\ boot[s] = "bridging"
  /\ UNCHANGED <<scheme, link, started, collecting>>
  /\ IF link = "up"
     THEN /\ subs' = [subs EXCEPT !.events = @ + 1]
          /\ GoOn(s, "up")
     ELSE /\ boot' = [boot EXCEPT ![s] = "refused"]
          /\ UNCHANGED <<subs, ready>>

(* What publish() and subscribe() demand.                                  *)
Usable == started /\ link = "up"

-----------------------------------------------------------------------------
(* broker.stop(), in two steps: the subscriptions go (InMemoryBroker first *)
(* refuses and cancels), then the connection.  Not started, the FastStream *)
(* classes do nothing.                                                     *)
StopIsNoop == scheme = "stream" /\ ~started

Unsubscribe ==
  /\ started' = IF scheme = "memory" THEN FALSE ELSE started
  /\ subs' = [reply |-> 0, events |-> 0]
  /\ UNCHANGED <<scheme, link, collecting, ready, boot>>

Disconnect ==
  /\ started' = FALSE
  /\ link' = IF scheme = "memory" THEN link ELSE "closed"
  /\ subs' = [reply |-> 0, events |-> 0]
  /\ UNCHANGED <<scheme, collecting, boot>>
=============================================================================
