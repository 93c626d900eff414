--------------------------- MODULE RouteDispatch ---------------------------
(***************************************************************************)
(* Admission to one model route, shared by all runs of an event loop.  A   *)
(* request attempt queues for a permit and holds it while it is away.  A   *)
(* refusal (429) lowers the number of permits and blocks the route for a   *)
(* while; the refused attempt queues again, ahead of the others.  Success  *)
(* after a quiet time raises the number by one.  What goes ahead is what   *)
(* redispatch_of names, and that outlives a failure by a context too long. *)
(*                                                                         *)
(* Every step between two awaits is atomic.  Time is reduced to two facts: *)
(* whether the route is still blocked, and whether it was quiet for long   *)
(* enough; the length of a cooldown is left out.                           *)
(*                                                                         *)
(* Source: src/agent_runtime/dispatch.py, and its use in loop.py           *)
(* (_dispatch_slot, _model_call).                                          *)
(***************************************************************************)
EXTENDS Integers, Sequences, FiniteSets, SequencesExt

CONSTANTS Task,         \* the tasks that use the route
          Initial,      \* initial_concurrency
          MaxPermits,   \* max_concurrency
          MaxAttempts   \* bound: the attempts of all tasks together

ASSUME DispatchAssumption ==
  /\ Initial \in Nat /\ MaxPermits \in Nat /\ 1 <= Initial /\ Initial <= MaxPermits
  /\ MaxAttempts \in Nat /\ IsFiniteSet(Task)

VARIABLES
  pc,         \* pc[t]: where t is
  redispatch, \* redispatch[t]: redispatch_of of t is set, its ticket goes to the front
  compacted,  \* compacted[t]: a request of t was too long once
  queue,      \* the tickets, the next one first
  woken,      \* woken[t]: t's future is set
  timer,      \* timer[t]: t sleeps until the cooldown ends, at most
  released,   \* released[t]: t's lease was given back
  inFlight,   \* permits in use
  limit,      \* permits there are
  blocked,    \* the cooldown lasts
  quiet,      \* recovery_seconds have passed since the limit changed
  attempts,   \* attempts so far
  standing,   \* history: what the service last said to t
  before      \* history: before[t] are those whose tickets are older than t's

vars == <<pc, redispatch, compacted, queue, woken, timer, released, inFlight, limit, blocked,
          quiet, attempts, standing, before>>

Route == <<limit, blocked, quiet>>

\* What a task knows of its own requests.
Call == <<redispatch, compacted, standing>>

\* asleep is inside acquire; holding has a permit and its request is away; the
\* next two are still inside the slot, with the lease given back; idle is outside.
Place == {"idle", "asleep", "holding", "waiting", "answered", "gone"}

InSlot == {"holding", "waiting", "answered"}

\* The attempt before was refused; or one was, and the next was too long and
\* the context is compacted; or neither.
Standing == {"refused", "compacted", "new"}

Go(t, place) == pc' = [pc EXCEPT ![t] = place]

\* Wrong on purpose: nobody is told.
WakeNobody == UNCHANGED woken

WakeAll == woken' = [t \in Task |-> TRUE]

Ticketed(t, again) == IF again THEN <<t>> \o queue ELSE Append(queue, t)

\* Wrong on purpose: everybody sleeps until a release.
NobodyNeedsTimer(t, q) == FALSE

\* Only the head needs a timer.
NeedsTimer(t, q) == Head(q) = t /\ blocked

Reduced(n) == IF n > 1 THEN n - 1 ELSE 1

-----------------------------------------------------------------------------
Init ==
  /\ pc = [t \in Task |-> "idle"]
  /\ redispatch = [t \in Task |-> FALSE] /\ compacted = [t \in Task |-> FALSE]
  /\ queue = <<>>
  /\ woken = [t \in Task |-> FALSE]
  /\ timer = [t \in Task |-> FALSE]
  /\ released = [t \in Task |-> TRUE]
  /\ inFlight = 0 /\ limit = Initial
  /\ blocked = FALSE /\ quiet = FALSE
  /\ attempts = 0
  /\ standing = [t \in Task |-> "new"]
  /\ before = [t \in Task |-> {}]

\* The ticket of t is gone, and its timer with it.
NoTicket(t) ==
  /\ timer' = [timer EXCEPT ![t] = FALSE]
  /\ before' = [u \in Task |-> IF u = t THEN {} ELSE before[u] \ {t}]

\* One turn of acquire's loop, with the tickets q, of which those of older came
\* before that of t.
Look(t, q, older) ==
  \/ /\ Head(q) = t /\ inFlight < limit /\ ~blocked
     /\ queue' = Tail(q)
     /\ inFlight' = inFlight + 1
     /\ released' = [released EXCEPT ![t] = FALSE]
     /\ Go(t, "holding") /\ WakeAll
     /\ NoTicket(t)
  \/ /\ ~(Head(q) = t /\ inFlight < limit /\ ~blocked)
     /\ queue' = q
     /\ Go(t, "asleep")
     /\ woken' = [woken EXCEPT ![t] = FALSE]
     /\ timer' = [timer EXCEPT ![t] = NeedsTimer(t, q)]
     /\ before' = [before EXCEPT ![t] = older]
     /\ UNCHANGED <<inFlight, released>>

\* A new attempt, or a refused one again.
Acquire(t) ==
  /\ pc[t] = "idle" /\ attempts < MaxAttempts
  /\ attempts' = attempts + 1
  /\ Look(t, Ticketed(t, redispatch[t]), ToSet(queue))
  /\ UNCHANGED <<Call, Route>>

Recheck(t) ==
  /\ pc[t] = "asleep" /\ (woken[t] \/ (timer[t] /\ ~blocked))
  /\ Look(t, queue, before[t])
  /\ UNCHANGED <<Call, attempts, Route>>

\* The deadline of t passes, or t is cancelled, before it has its permit.
Expire(t) ==
  /\ pc[t] = "asleep"
  /\ queue' = RemoveFirst(queue, t)
  /\ Go(t, "gone") /\ WakeAll
  /\ NoTicket(t)
  /\ UNCHANGED <<Call, released, inFlight, Route, attempts>>

\* Wrong on purpose: a lease can be given back twice.
ReleaseAgain(t) ==
  /\ released' = [released EXCEPT ![t] = TRUE]
  /\ inFlight' = inFlight - 1
  /\ WakeAll

Release(t) ==
  \/ /\ ~released[t]
     /\ released' = [released EXCEPT ![t] = TRUE]
     /\ inFlight' = inFlight - 1
     /\ WakeAll
  \/ released[t] /\ UNCHANGED <<released, inFlight, woken>>

\* The run has no seconds left: t gives the permit back and waits for another
\* task's hold, its request not sent.
WaitForBudget(t) ==
  /\ pc[t] = "holding"
  /\ Release(t) /\ Go(t, "waiting")
  /\ UNCHANGED <<Call, queue, timer, Route, attempts, before>>

\* The service refused to process the request.  The attempt is redispatched, or
\* repeated as an ordinary one if there is no budget for it.
Refuse(t) ==
  /\ pc[t] = "holding"
  /\ limit' = Reduced(limit)
  /\ blocked' = TRUE /\ quiet' = FALSE
  /\ Release(t) /\ Go(t, "answered")
  /\ \E again \in BOOLEAN : redispatch' = [redispatch EXCEPT ![t] = again]
  /\ standing' = [standing EXCEPT ![t] = "refused"]
  /\ UNCHANGED <<compacted, queue, timer, attempts, before>>

\* Wrong on purpose: the next attempt still goes ahead.
StillAhead(t) ==
  /\ UNCHANGED redispatch
  /\ standing' = [standing EXCEPT ![t] = "new"]

\* Neither refused nor too long: the next attempt is a new one.
Anew(t) ==
  /\ redispatch' = [redispatch EXCEPT ![t] = FALSE]
  /\ standing' = [standing EXCEPT ![t] = "new"]

\* An answer; it raises the limit after a quiet time.
Succeed(t) ==
  /\ pc[t] = "holding"
  /\ IF ~blocked /\ quiet /\ limit < MaxPermits
     THEN limit' = limit + 1 /\ quiet' = FALSE
     ELSE UNCHANGED <<limit, quiet>>
  /\ Release(t) /\ Go(t, "answered") /\ Anew(t)
  /\ UNCHANGED <<compacted, queue, timer, blocked, attempts, before>>

\* Any other failure of the request.
Fail(t) ==
  /\ pc[t] = "holding"
  /\ Release(t) /\ Go(t, "answered") /\ Anew(t)
  /\ UNCHANGED <<compacted, queue, timer, Route, attempts, before>>

\* The request was too long for the service: its context is compacted, once in
\* the life of a task, and it is sent again; redispatch_of stays what it was.
ContextTooLong(t) ==
  /\ pc[t] = "holding" /\ ~compacted[t]
  /\ Release(t) /\ Go(t, "answered")
  /\ compacted' = [compacted EXCEPT ![t] = TRUE]
  /\ standing' = [standing EXCEPT ![t] = IF @ = "new" THEN "new" ELSE "compacted"]
  /\ UNCHANGED <<redispatch, queue, timer, Route, attempts, before>>

\* t leaves the slot: to go on, or for good.
Leave(t) ==
  /\ pc[t] \in InSlot
  /\ Release(t)
  /\ \E place \in {"idle", "gone"} : Go(t, place)
  /\ UNCHANGED <<Call, queue, timer, Route, attempts, before>>

\* Time passes.
Still == UNCHANGED <<pc, queue, woken, timer, released, inFlight, limit, attempts, before, Call>>

CooldownEnds == blocked /\ blocked' = FALSE /\ Still /\ UNCHANGED quiet
QuietEnough == ~quiet /\ quiet' = TRUE /\ Still /\ UNCHANGED blocked

Step(t) ==
  \/ Acquire(t) \/ Recheck(t) \/ WaitForBudget(t)
  \/ Refuse(t) \/ Succeed(t) \/ Fail(t) \/ ContextTooLong(t) \/ Leave(t)

Next == (\E t \in Task : Step(t) \/ Expire(t)) \/ CooldownEnds \/ QuietEnough

Spec == Init /\ [][Next]_vars

\* The loop runs whoever was woken, requests end, cooldowns pass.  No fairness
\* on Expire: a run may have no deadline.
FairSpec ==
  /\ Spec /\ WF_vars(CooldownEnds)
  /\ \A t \in Task : WF_vars(Recheck(t)) /\ WF_vars(pc[t] \in InSlot /\ Step(t))

-----------------------------------------------------------------------------
(* Properties. *)

TypeOK ==
  /\ pc \in [Task -> Place]
  /\ redispatch \in [Task -> BOOLEAN] /\ compacted \in [Task -> BOOLEAN]
  /\ queue \in Seq(Task)
  /\ woken \in [Task -> BOOLEAN] /\ timer \in [Task -> BOOLEAN]
  /\ released \in [Task -> BOOLEAN]
  /\ inFlight \in 0 .. MaxPermits /\ limit \in 1 .. MaxPermits
  /\ blocked \in BOOLEAN /\ quiet \in BOOLEAN
  /\ attempts \in 0 .. MaxAttempts
  /\ standing \in [Task -> Standing] /\ before \in [Task -> SUBSET Task]

\* No permit leaks and none is given back twice, whatever way a request leaves
\* its slot (DispatchLease.release, _dispatch_slot).
PermitsCounted == inFlight = Cardinality({t \in Task : ~released[t]})
                  /\ \A t \in Task : ~released[t] => pc[t] = "holding"

\* The head of the queue is never asleep with nothing to wake it: while permits
\* are left, it was woken or sleeps no longer than the cooldown; otherwise a
\* release will wake it.
HeadWillLook ==
  (queue # <<>> /\ inFlight < limit) => woken[Head(queue)] \/ timer[Head(queue)]

\* Who overtakes whom: nobody gets a permit while an older ticket is in the
\* queue, or that of a redispatched refusal, unless the service refused an earlier
\* attempt of the same call and since then nothing happened but one failure by a
\* context too long.  RouteDispatcher promises "FIFO requests, with refused
\* attempts readmitted ahead of new requests"; the attempt after the compaction
\* repeats no refused one and goes ahead all the same.
Queued(t) == Contains(queue, t)
Older(t) == IF pc[t] = "asleep" THEN before[t] ELSE ToSet(queue)
FifoExceptRefused ==
  [][\A t, u \in Task :
       (/\ pc[t] # "holding" /\ pc'[t] = "holding" /\ u # t /\ Queued(u)
        /\ u \in Older(t) \/ (redispatch[u] /\ standing[u] = "refused"))
         => standing[t] # "new"]_vars

\* Every ticket is served or withdrawn, whatever is refused in the meantime.
EveryTicketServed == \A t \in Task : pc[t] = "asleep" ~> pc[t] # "asleep"
=============================================================================
