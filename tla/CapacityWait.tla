---------------------------- MODULE CapacityWait ----------------------------
(***************************************************************************)
(* How tasks of one run wait for each other's time.  Every request of the  *)
(* run reserves seconds of one shared total for as long as it is away.  A  *)
(* task that finds all of it reserved waits in line for a request in       *)
(* flight to give some back, and is woken through an asyncio future.       *)
(*                                                                         *)
(* All tasks are coroutines of one event loop: ready is the loop's queue   *)
(* of callbacks, and what its head does up to its next await is one step.  *)
(*                                                                         *)
(* Source: src/agent_runtime/loop.py (_BudgetCapacitySignal and the way    *)
(* run and _model_call wait).  RunLedger has the books; here the ledger is *)
(* reduced to the seconds of the root.                                     *)
(***************************************************************************)
EXTENDS Integers, Sequences, SequencesExt

CONSTANTS Task,      \* the tasks of the run
          Total,     \* the seconds of the run
          MaxHold,   \* the longest time one request may ask for
          MaxCalls   \* the model calls each task may make

ASSUME CapacityAssumption ==
  Total \in Nat \ {0} /\ MaxHold \in Nat \ {0} /\ MaxCalls \in Nat

VARIABLES
  pc,         \* pc[t]: where t's coroutine is
  ready,      \* the event loop's queue: its head runs next
  hold,       \* hold[t]: the seconds t's request in flight has reserved
  free,       \* seconds neither charged nor reserved
  charged,    \* seconds that were used
  calls,      \* calls[t]: requests t made
  revision,   \* completions so far
  waiters,    \* the line: the tasks inside wait_for_change
  seen,       \* seen[t]: the revision t joined the line with
  signal      \* signal[t]: the state of t's future

vars == <<pc, ready, hold, free, charged, calls, revision, waiters, seen, signal>>

Place == {"away", "admit", "sending", "settle", "waiting", "done"}
Signal == {"pending", "woken", "expired"}

Running(t, place) == ready # <<>> /\ Head(ready) = t /\ pc[t] = place
Go(t, place) == pc' = [pc EXCEPT ![t] = place]

\* The requests that are away; the others' holds, if any, never come back.
Active == {t \in Task : pc[t] \in {"sending", "settle"}}

\* Wrong on purpose: waits for holds nobody will ever give back.
CanWaitForAnyHold(t) == free <= 0 /\ charged < Total

\* Only a live request can give time back, and only while some is not used up.
CanWait(t) == free <= 0 /\ charged < Total /\ Active \ {t} # {}

\* The head of the line, if capacity changed since it joined and nobody told it.
NextInLine(line, rev) ==
  IF line # <<>> /\ rev # seen[Head(line)] /\ signal[Head(line)] = "pending"
  THEN <<Head(line)>> ELSE <<>>

\* Wrong on purpose: who leaves the line does not pass the signal on.
KeepSignal(line) == <<>>

\* Who leaves the line, for whatever reason, wakes the next one.
HandOver(line) == NextInLine(line, revision)

\* The loop's queue after a settlement: with a line, the task yields once.
YieldOnce(self, wake) ==
  IF waiters = <<>> THEN self \o Tail(ready) ELSE Tail(ready) \o wake \o self

GiveBack(h, used) == h - used

Woken(wake) == [t \in Task |-> IF Contains(wake, t) THEN "woken" ELSE signal[t]]

-----------------------------------------------------------------------------
Init ==
  /\ pc = [t \in Task |-> "away"]
  /\ ready = <<>>
  /\ hold = [t \in Task |-> 0]
  /\ free = Total /\ charged = 0
  /\ calls = [t \in Task |-> 0]
  /\ revision = 0 /\ waiters = <<>>
  /\ seen = [t \in Task |-> 0]
  /\ signal = [t \in Task |-> "pending"]

\* t has awaited something else (tools, a pause, a backoff, the route's queue).
Arrive(t) ==
  /\ pc[t] = "away"
  /\ Go(t, "admit") /\ ready' = Append(ready, t)
  /\ UNCHANGED <<hold, free, charged, calls, revision, waiters, seen, signal>>

\* Reserve, journal the request and announce it: no await in between.
Send(t) ==
  /\ Running(t, "admit") /\ free > 0 /\ calls[t] < MaxCalls
  /\ \E h \in 1 .. MaxHold :
       /\ h <= free
       /\ hold' = [hold EXCEPT ![t] = h]
       /\ free' = free - h
  /\ calls' = [calls EXCEPT ![t] = @ + 1]
  /\ Go(t, "sending") /\ ready' = Tail(ready)
  /\ UNCHANGED <<charged, revision, waiters, seen, signal>>

\* No time, but somebody may give some back: join the line.
Join(t) ==
  /\ Running(t, "admit") /\ CanWait(t) /\ calls[t] < MaxCalls
  /\ Go(t, "waiting")
  /\ LET wake == NextInLine(waiters, revision) IN
     /\ signal' = Woken(wake)
     /\ ready' = Tail(ready) \o wake
  /\ waiters' = Append(waiters, t)
  /\ seen' = [seen EXCEPT ![t] = revision]
  /\ UNCHANGED <<hold, free, charged, calls, revision>>

\* No time and nobody to wait for, or a budget of its own is exhausted.
Stop(t) ==
  /\ Running(t, "admit")
  /\ Go(t, "done") /\ ready' = Tail(ready)
  /\ UNCHANGED <<hold, free, charged, calls, revision, waiters, seen, signal>>

\* The service answers, refuses or times out.
Answer(t) ==
  /\ pc[t] = "sending"
  /\ Go(t, "settle") /\ ready' = Append(ready, t)
  /\ UNCHANGED <<hold, free, charged, calls, revision, waiters, seen, signal>>

\* Settlement and completion.  A request past its time keeps its hold and ends
\* its task.  While anybody is in line, t lets the loop turn once.
Settle(t) ==
  /\ Running(t, "settle")
  /\ \E place \in {"admit", "away", "done"}, late \in BOOLEAN, used \in 0 .. hold[t] :
       /\ late => place = "done" /\ used = 0
       /\ charged' = charged + used
       /\ free' = IF late THEN free ELSE free + GiveBack(hold[t], used)
       /\ Go(t, place)
       /\ LET wake == NextInLine(waiters, revision + 1)
              self == IF place = "admit" THEN <<t>> ELSE <<>>
          IN /\ signal' = Woken(wake)
             /\ ready' = YieldOnce(self, wake)
  /\ hold' = [hold EXCEPT ![t] = 0]
  /\ revision' = revision + 1
  /\ UNCHANGED <<calls, waiters, seen>>

\* The wall deadline of t passes, or t is cancelled, while it is in line.
Expire(t) ==
  /\ pc[t] = "waiting" /\ signal[t] # "expired"
  /\ signal' = [signal EXCEPT ![t] = "expired"]
  /\ ready' = IF signal[t] = "pending" THEN Append(ready, t) ELSE ready
  /\ UNCHANGED <<pc, hold, free, charged, calls, revision, waiters, seen>>

\* t leaves the line and passes the signal on, then looks at the budget again.
Resume(t) ==
  /\ Running(t, "waiting")
  /\ waiters' = RemoveFirst(waiters, t)
  /\ LET wake == HandOver(waiters')
         self == IF signal[t] = "expired" THEN <<>> ELSE <<t>>
     IN /\ signal' = [Woken(wake) EXCEPT ![t] = "pending"]
        /\ ready' = self \o Tail(ready) \o wake
  /\ Go(t, IF signal[t] = "expired" THEN "done" ELSE "admit")
  /\ UNCHANGED <<hold, free, charged, calls, revision, seen>>

Loop(t) == Send(t) \/ Join(t) \/ Stop(t) \/ Settle(t) \/ Resume(t)
Arrival(t) == Arrive(t) \/ Answer(t)

Next == \E t \in Task : Loop(t) \/ Arrival(t) \/ Expire(t)

Spec == Init /\ [][Next]_vars

\* The loop runs what is ready, and every await other than the line ends.  No
\* fairness on Expire: a run may have no deadline.
FairSpec ==
  Spec /\ \A t \in Task : WF_vars(Loop(t)) /\ WF_vars(Arrive(t)) /\ WF_vars(Answer(t))

-----------------------------------------------------------------------------
(* Properties. *)

TypeOK ==
  /\ pc \in [Task -> Place]
  /\ ready \in Seq(Task)
  /\ hold \in [Task -> 0 .. MaxHold]
  /\ free \in 0 .. Total /\ charged \in 0 .. Total
  /\ calls \in [Task -> 0 .. MaxCalls]
  /\ revision \in Nat
  /\ waiters \in Seq(Task)
  /\ seen \in [Task -> Nat]
  /\ signal \in [Task -> Signal]

\* Nobody waits for nothing: whenever somebody is in line, a request is away
\* that will wake the line, or the head of the line is already on its way
\* (_can_wait_for_root_time_reservation and the hand-over in wait_for_change).
SomebodyComes ==
  waiters # <<>> => Active # {} \/ signal[Head(waiters)] # "pending"

\* No wake-up is lost: once capacity changed, the head of the line has been
\* told, or is leaving, however deadlines, cancellations and completions
\* interleave; and whoever was told will run.
NoLostWakeup ==
  /\ waiters # <<>> =>
       (seen[Head(waiters)] # revision => signal[Head(waiters)] # "pending")
  /\ \A t \in Task : pc[t] = "waiting" /\ signal[t] # "pending" => Contains(ready, t)

\* With every request ending and no deadline at all, every task ends: nobody
\* stays in line for ever.
EveryWaiterLeaves == \A t \in Task : pc[t] = "waiting" ~> pc[t] # "waiting"
=============================================================================
