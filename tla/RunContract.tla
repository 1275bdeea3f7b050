------------------------------ MODULE RunContract ------------------------------
(***************************************************************************)
(* What is promised of submitted runs, with store calls, events and        *)
(* streams left out.  A run's status is told by whoever may: its executor, *)
(* once it has stored what it tells of, and a request that found the run   *)
(* still open.  Of two that speak the last one counts, or, if the store    *)
(* guards its verdicts, the first.  A result is final.                     *)
(***************************************************************************)
CONSTANTS Run, Client

VARIABLES
  guarded,      (* the store keeps a verdict once it is told                *)
  work,         (* work[r]: what has become of the run's work               *)
  told,         (* told[r]: its status                                      *)
  kept,         (* kept[r]: its result                                      *)
  asking        (* the requests that found a run open and may cancel it     *)

Verdicts == {"completed", "failed", "cancelled"}

Init ==
  /\ guarded \in BOOLEAN
  /\ work = [r \in Run |-> "none"]
  /\ told = [r \in Run |-> "none"]
  /\ kept = [r \in Run |-> "none"]
  /\ asking = {}

Tell(r, what) ==
  told' = IF guarded /\ told[r] \in Verdicts THEN told
          ELSE [told EXCEPT ![r] = what]

(* The work on r goes on.                                                  *)
Goes(r, from, to) ==
  /\ work[r] \in from
  /\ work' = [work EXCEPT ![r] = to]
  /\ UNCHANGED <<guarded, asking>>

Submit(r) ==
  /\ Goes(r, {"none"}, "waiting")
  /\ told[r] = "none" /\ told' = [told EXCEPT ![r] = "pending"]
  /\ UNCHANGED kept

Start(r) ==
  /\ Goes(r, {"waiting"}, "running")
  /\ Tell(r, "running")
  /\ UNCHANGED kept

Answer(r) ==
  /\ \E how \in {"ok", "failed"} : Goes(r, {"running"}, how)
  /\ UNCHANGED <<told, kept>>

Keep(r) ==
  /\ work[r] \in {"ok", "failed"} /\ kept[r] = "none"
  /\ kept' = [kept EXCEPT ![r] = work[r]]
  /\ UNCHANGED <<guarded, work, told, asking>>

(* The result is there before the status says so.                          *)
Conclude(r) ==
  /\ kept[r] = work[r]
  /\ Goes(r, {"ok", "failed"}, "concluded")
  /\ Tell(r, IF work[r] = "ok" THEN "completed" ELSE "failed")
  /\ UNCHANGED kept

(* The work raises, or the store does when it is told of it.               *)
Break(r) ==
  /\ Goes(r, {"running", "ok", "failed", "concluded"}, "broken")
  /\ UNCHANGED <<told, kept>>

Fail(r) ==
  /\ Goes(r, {"broken"}, "over")
  /\ Tell(r, "failed")
  /\ UNCHANGED kept

End(r) ==
  /\ Goes(r, {"concluded"}, "over")
  /\ UNCHANGED <<told, kept>>

(* The store fails where nobody is left to tell of it.                     *)
Lose(r) ==
  /\ Goes(r, {"waiting", "running", "broken"}, "over")
  /\ UNCHANGED <<told, kept>>

Ask(c, r) ==
  /\ work[r] # "none" /\ told[r] \notin Verdicts
  /\ asking' = asking \cup {<<c, r>>}
  /\ UNCHANGED <<guarded, work, told, kept>>

Settled(c, r) ==
  /\ <<c, r>> \in asking
  /\ asking' = asking \ {<<c, r>>}
  /\ UNCHANGED <<guarded, work, kept>>

Cancel(c, r) == Settled(c, r) /\ Tell(r, "cancelled")

Withdraw(c, r) == Settled(c, r) /\ UNCHANGED told

Next ==
  \E r \in Run :
    \/ Submit(r) \/ Start(r) \/ Answer(r) \/ Keep(r) \/ Conclude(r)
    \/ Break(r) \/ Fail(r) \/ End(r) \/ Lose(r)
    \/ \E c \in Client : Ask(c, r) \/ Cancel(c, r) \/ Withdraw(c, r)

Spec == Init /\ [][Next]_<<guarded, work, told, kept, asking>>
=============================================================================
