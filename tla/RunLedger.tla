----------------------------- MODULE RunLedger -----------------------------
(***************************************************************************)
(* The budget of one agent run: the paid model requests of the root task   *)
(* and its children, their life from reservation to settlement, and what   *)
(* the journal of the run says of the money after a crash.                 *)
(*                                                                         *)
(* One journal holds the reservations of all tasks.  The root ledger sums  *)
(* all of them, the ledger of a task sums its own; a request needs room in *)
(* both.  Tasks are coroutines of one event loop: between a reservation    *)
(* and its request, and between an answer and its settlement, the loop     *)
(* does not switch to another task (floor), but the process may die.       *)
(*                                                                         *)
(* Source: src/agent_runtime/loop.py (_model_call, _settle, _restore),     *)
(* budget.py, budget_recovery.py and src/harness_contracts/budget.py,      *)
(* incremental.py, validation.py.                                          *)
(***************************************************************************)
EXTENDS Integers, FiniteSets

CONSTANTS Task,          \* the tasks that call the model
          Root,          \* the name of the ledger of the whole run
          NoTask,        \* nobody
          Unknown,       \* an amount nobody reported
          Dim,           \* the limited dimensions
          Limit,         \* Limit[l][d]: the limit of ledger l
          Estimate,      \* what a request can be expected to cost
          Receipt,       \* what the service can report that it cost
          MaxSeconds,    \* bound: the longest time one request may ask for
          MaxRequests,   \* bound: reservations per task
          MaxRestarts    \* bound: ends of the process

Elastic == {"tokens", "money_cny"}       \* an answer may cost more than its hold
BaseDim == {"tokens", "seconds", "calls"}
Ledger == Task \cup {Root}
Rid == Task \X (1 .. MaxRequests)
Owner(r) == r[1]
Amount == [Dim -> Nat]
Usage == [Dim -> Nat \cup {Unknown}]

ASSUME LedgerAssumption ==
  /\ IsFiniteSet(Task)
  /\ Root \notin Task /\ NoTask \notin Task /\ Unknown \notin Nat
  /\ BaseDim \subseteq Dim /\ Dim \subseteq BaseDim \cup Elastic
  /\ Limit \in [Ledger -> Amount]
  /\ Estimate \subseteq [Elastic -> Nat] /\ Receipt \subseteq [Elastic -> Nat]
  /\ Unknown \notin Estimate \cup Receipt
  /\ MaxSeconds \in Nat /\ MaxRequests \in Nat /\ MaxRestarts \in Nat

VARIABLES
  status,      \* status[r]: free, held, released, settled (the budget events)
  request,     \* request[r]: none, sent, answered, or how it failed
  hold,        \* hold[r]: the reserved amounts
  usage,       \* usage[r]: the amounts r was settled with
  reply,       \* reply[r]: what the outcome of r says it used
  committed,   \* committed[l]: charges and open holds of ledger l
  overrun,     \* overrun[l]: the part of it above the holds
  made,        \* made[t]: the reservations t made
  pc,          \* pc[t]: where t's coroutine is
  floor,       \* the task inside a section without an await, or NoTask
  restarts     \* how often the process ended

vars == <<status, request, hold, usage, reply, committed, overrun,
          made, pc, floor, restarts>>

Status == {"free", "held", "released", "settled"}
Failed == {"refused", "retryable", "final"}
Request == {"none", "sent", "answered"} \cup Failed
Place == {"ready", "reserved", "sending", "settling", "stopped", "done", "down"}

-----------------------------------------------------------------------------
(* Amounts. *)

Zero == [d \in Dim |-> 0]
NoUsage == [d \in Dim |-> Unknown]

\* One call of sec seconds; tokens and money as the evidence says, if it does.
Amounts(evidence, sec) ==
  [d \in Dim |-> CASE d = "calls" -> 1
                   [] d = "seconds" -> sec
                   [] OTHER -> IF evidence = Unknown THEN Unknown ELSE evidence[d]]

Free == [d \in Elastic |-> 0]      \* a refused request costs nothing

\* What a settled request keeps committed: its hold where usage is unknown.
EffectiveCharge(h, u) == [d \in Dim |-> IF u[d] = Unknown THEN h[d] ELSE u[d]]

OverrunOf(h, u) ==
  [d \in Dim |-> IF d \in Elastic /\ EffectiveCharge(h, u)[d] > h[d]
                 THEN EffectiveCharge(h, u)[d] - h[d] ELSE 0]

\* Time past the reserved time cannot be settled.
Late(h, u) == u["seconds"] # Unknown /\ u["seconds"] > h["seconds"]

CanSettle(h, u) ==
  Late(h, u) => /\ u["tokens"] # Unknown
                /\ u["tokens"] > h["tokens"] \/ "money_cny" \in Dim

\* Wrong on purpose: a late request is charged its whole time.
SettlementWithLateTime(h, u) == u

\* Wrong on purpose: nothing of a late request is believed.
SettlementOfNothing(h, u) == IF Late(h, u) THEN NoUsage ELSE u

\* A late request is charged its tokens and keeps its reserved time.
Settlement(h, u) == IF Late(h, u) THEN [u EXCEPT !["seconds"] = Unknown] ELSE u

-----------------------------------------------------------------------------
(* Ledgers. *)

Cur(t) == <<t, made[t]>>
Books(l, r) == l \in {Root, Owner(r)}

Available(l, d) ==
  LET used == IF d \in Elastic /\ committed[l][d] > Limit[l][d]
              THEN Limit[l][d] ELSE committed[l][d]
  IN  Limit[l][d] - used

\* Wrong on purpose: only the task's own ledger is asked.
FitsTask(h, l) == l = Root \/ \A d \in Dim : h[d] <= Available(l, d)

Fits(h, l) == \A d \in Dim : h[d] <= Available(l, d)

\* Wrong on purpose: a missing settlement stops nobody.
NobodyWaitsForBooking(l) == FALSE

\* An answer in the journal whose charge is not, and that may exceed its hold.
UnsettledAnswer(l) ==
  \E r \in Rid :
    /\ Books(l, r) /\ status[r] = "held" /\ request[r] = "answered"
    /\ \/ "money_cny" \in Dim
       \/ reply[r]["tokens"] # Unknown /\ reply[r]["tokens"] > hold[r]["tokens"]

\* A settled request whose price is unknown under a money limit.
UnpricedRequest(l) ==
  /\ "money_cny" \in Dim
  /\ \E r \in Rid : Books(l, r) /\ status[r] = "settled" /\ usage[r]["money_cny"] = Unknown

Exhausted(l) ==
  \/ committed[l]["tokens"] > Limit[l]["tokens"]
  \/ "money_cny" \in Dim /\ committed[l]["money_cny"] >= Limit[l]["money_cny"]

\* No request may follow, whatever it costs.
SettledStop(t) ==
  \E l \in {Root, t} : UnsettledAnswer(l) \/ UnpricedRequest(l) \/ Exhausted(l)

Spent(t, l) == \E d \in Dim : Available(l, d) <= 0
BudgetStop(t) == SettledStop(t) \/ \E l \in {Root, t} : Spent(t, l)

\* Wrong on purpose: waits although nothing is in flight.
CanWaitForDeadHold(t) ==
  ~SettledStop(t) /\ ~Spent(t, t) /\ \A d \in Dim : Available(Root, d) <= 0 <=> d = "seconds"

\* The only thing missing is time that a request in flight may give back.
CanWait(t) ==
  /\ ~SettledStop(t) /\ ~Spent(t, t)
  /\ \A d \in Dim : Available(Root, d) <= 0 <=> d = "seconds"
  /\ \E s \in Task \ {t} : pc[s] = "sending"

\* Wrong on purpose: the totals do not learn of the excess.
BookWithoutExcess(r, before, after, over) ==
  /\ committed' = [l \in Ledger |-> [d \in Dim |->
       IF Books(l, r) THEN committed[l][d] - before[d] + after[d] ELSE committed[l][d]]]
  /\ UNCHANGED overrun

\* Ledger entry: r's contribution changes from before to after.
Book(r, before, after, over) ==
  /\ committed' = [l \in Ledger |-> [d \in Dim |->
       IF Books(l, r) THEN committed[l][d] - before[d] + after[d] ELSE committed[l][d]]]
  /\ overrun' = [l \in Ledger |-> [d \in Dim |->
       IF Books(l, r) THEN overrun[l][d] + over[d] ELSE overrun[l][d]]]

\* The settlement of the open hold r with usage u, if the ledger accepts it.
Close(r, u) ==
  IF CanSettle(hold[r], u)
  THEN LET s == Settlement(hold[r], u) IN
       /\ status' = [status EXCEPT ![r] = "settled"]
       /\ usage' = [usage EXCEPT ![r] = s]
       /\ Book(r, hold[r], EffectiveCharge(hold[r], s), OverrunOf(hold[r], s))
  ELSE UNCHANGED <<status, usage, committed, overrun>>

Go(t, place) == pc' = [pc EXCEPT ![t] = place]

-----------------------------------------------------------------------------
(* A live task. *)

Init ==
  /\ status = [r \in Rid |-> "free"]
  /\ request = [r \in Rid |-> "none"]
  /\ hold = [r \in Rid |-> Zero]
  /\ usage = [r \in Rid |-> NoUsage]
  /\ reply = [r \in Rid |-> NoUsage]
  /\ committed = [l \in Ledger |-> Zero]
  /\ overrun = [l \in Ledger |-> Zero]
  /\ made = [t \in Task |-> 0]
  /\ pc = [t \in Task |-> "ready"]
  /\ floor = NoTask
  /\ restarts = 0

\* Admission: the whole estimate fits the task's ledger and the root's.
Reserve(t) ==
  /\ pc[t] = "ready" /\ floor = NoTask /\ made[t] < MaxRequests
  /\ ~BudgetStop(t)
  /\ \E est \in Estimate, sec \in 1 .. MaxSeconds :
       LET h == Amounts(est, sec)
           r == <<t, made[t] + 1>>
       IN /\ Fits(h, t) /\ Fits(h, Root)
          /\ status' = [status EXCEPT ![r] = "held"]
          /\ hold' = [hold EXCEPT ![r] = h]
          /\ Book(r, Zero, h, Zero)
  /\ made' = [made EXCEPT ![t] = @ + 1]
  /\ Go(t, "reserved") /\ floor' = t
  /\ UNCHANGED <<request, usage, reply, restarts>>

\* The request is journaled, then sent; other tasks run while it is away.
Send(t) ==
  /\ pc[t] = "reserved"
  /\ request' = [request EXCEPT ![Cur(t)] = "sent"]
  /\ Go(t, "sending") /\ floor' = NoTask
  /\ UNCHANGED <<status, hold, usage, reply, committed, overrun, made, restarts>>

\* An outcome is journaled; its settlement follows without an await.
Outcome(t, kind, evidence) ==
  /\ pc[t] = "sending" /\ floor = NoTask
  /\ request' = [request EXCEPT ![Cur(t)] = kind]
  /\ \E sec \in 0 .. hold[Cur(t)]["seconds"] + 1 :
       reply' = [reply EXCEPT ![Cur(t)] = Amounts(evidence, sec)]
  /\ Go(t, "settling") /\ floor' = t
  /\ UNCHANGED <<status, hold, usage, committed, overrun, made, restarts>>

Respond(t) == \E rec \in Receipt \cup {Unknown} : Outcome(t, "answered", rec)

\* A refusal (429) proves that nothing was processed.  Any other failure may
\* carry a receipt, in memory only.
Fail(t) ==
  \/ Outcome(t, "refused", Free)
  \/ \E kind \in {"retryable", "final"}, rec \in Receipt \cup {Unknown} :
       Outcome(t, kind, rec)

\* After the outcome: the task goes on unless time, money or evidence stop it.
Settle(t) ==
  /\ pc[t] = "settling"
  /\ Close(Cur(t), reply[Cur(t)])
  /\ floor' = NoTask
  /\ UNCHANGED <<request, hold, reply, made, restarts>>
  /\ LET r == Cur(t) IN
     Go(t, IF \/ Late(hold[r], reply[r])
              \/ SettledStop(t)'
              \/ request[r] = "final"
              \/ request[r] = "answered" /\ reply[r]["tokens"] = Unknown
           THEN "stopped" ELSE "ready")

\* Budget exhausted, and nothing in flight can give time back.
GiveUp(t) ==
  /\ pc[t] = "ready" /\ floor = NoTask
  /\ \/ BudgetStop(t) /\ ~CanWait(t)
     \/ ~BudgetStop(t) /\ \E est \in Estimate, l \in {Root, t} : ~Fits(Amounts(est, 1), l)
  /\ Go(t, "stopped")
  /\ UNCHANGED <<status, request, hold, usage, reply, committed, overrun, made, floor, restarts>>

\* The task completes, or stops for a reason other than its ledgers.
Leave(t) ==
  /\ pc[t] = "ready" /\ floor = NoTask
  /\ \E place \in {"done", "stopped"} : Go(t, place)
  /\ UNCHANGED <<status, request, hold, usage, reply, committed, overrun, made, floor, restarts>>

-----------------------------------------------------------------------------
(* The process ends and the run is resumed from its journal. *)

\* Receipts of failures that were not settled yet are lost with the process.
ProcessEnds ==
  /\ restarts < MaxRestarts
  /\ restarts' = restarts + 1
  /\ pc' = [t \in Task |-> IF pc[t] = "done" THEN "done" ELSE "down"]
  /\ floor' = NoTask
  /\ reply' = [r \in Rid |->
       IF request[r] \in {"retryable", "final"} /\ status[r] = "held"
       THEN Amounts(Unknown, reply[r]["seconds"]) ELSE reply[r]]
  /\ UNCHANGED <<status, request, hold, usage, committed, overrun, made>>

Restoring(t) == pc[t] = "down" /\ floor \in {NoTask, t}

\* Wrong on purpose: any open hold is given back.
ReleaseAny(r) ==
  /\ status[r] = "held"
  /\ status' = [status EXCEPT ![r] = "released"]
  /\ Book(r, hold[r], Zero, Zero)
  /\ UNCHANGED <<request, hold, usage, reply, made, pc, restarts>>

\* Only a reservation without a request is proven unsent.
Release(r) ==
  /\ status[r] = "held" /\ request[r] = "none"
  /\ status' = [status EXCEPT ![r] = "released"]
  /\ Book(r, hold[r], Zero, Zero)
  /\ UNCHANGED <<request, hold, usage, reply, made, pc, restarts>>

ReleaseUnsent(t) ==
  /\ Restoring(t) /\ made[t] > 0 /\ Release(Cur(t))
  /\ floor' = t

Resumed(t, stop) ==
  /\ floor' = NoTask
  /\ UNCHANGED <<request, hold, reply, made, restarts>>
  /\ Go(t, IF stop \/ SettledStop(t)' THEN "stopped" ELSE "ready")

\* Wrong on purpose: does not look at the last reservation.
RestoreBlindly(t) ==
  /\ Restoring(t)
  /\ UNCHANGED <<status, usage, committed, overrun>>
  /\ Resumed(t, FALSE)

\* Nothing is open: the last reservation was released, or there is none.
RestoreIdle(t) ==
  /\ Restoring(t)
  /\ made[t] > 0 => status[Cur(t)] = "released"
  /\ UNCHANGED <<status, usage, committed, overrun>>
  /\ Resumed(t, FALSE)

Unbooked(r) == status[r] = "held"

\* The journaled answer carries its usage and its duration.
Evidence(r) == reply[r]

\* The last answer is replayed, and settled if the process died before that.
\* A stop its lateness or its missing usage caused is found again.
RestoreReplay(t) ==
  /\ Restoring(t) /\ made[t] > 0
  /\ LET r == Cur(t) IN
     /\ request[r] = "answered"
     /\ IF Unbooked(r) THEN Close(r, Evidence(r))
        ELSE UNCHANGED <<status, usage, committed, overrun>>
     /\ LET known == IF status[r] = "held" THEN reply[r] ELSE usage[r] IN
        Resumed(t, Late(hold[r], reply[r]) \/ known["tokens"] = Unknown)

\* The last request has no answer.  What its settlement says is not looked at:
\* only the kind of failure and the ledgers decide whether it is tried again.
RestoreDangling(t) ==
  /\ Restoring(t) /\ made[t] > 0
  /\ LET r == Cur(t) IN
     /\ request[r] \in {"sent", "refused", "retryable", "final"}
     /\ IF request[r] # "final" /\ status[r] = "held"
        THEN Close(r, IF request[r] = "sent" THEN Amounts(Unknown, Unknown) ELSE reply[r])
        ELSE UNCHANGED <<status, usage, committed, overrun>>
     /\ \E stop \in BOOLEAN :      \* its retries may be used up
          /\ request[r] = "final" => stop
          /\ Resumed(t, stop)

\* The saved state does not match; nothing is settled.
RestoreRefused(t) ==
  /\ Restoring(t)
  /\ Go(t, "stopped") /\ floor' = NoTask
  /\ UNCHANGED <<status, request, hold, usage, reply, committed, overrun, made, restarts>>

-----------------------------------------------------------------------------
(* An operator repairs the journal while no process has it open. *)

Offline == floor = NoTask /\ \A t \in Task : pc[t] \in {"down", "done"}

OfflineRelease(r) == Offline /\ Release(r) /\ UNCHANGED floor

\* Wrong on purpose: the receipt may correct the time as well.
AnyTime(r, sec) == TRUE

KnownTimeStays(r, sec) == usage[r]["seconds"] # Unknown => sec = usage[r]["seconds"]

\* A late receipt for a request settled without one; known time stays.
Reconcile(r) ==
  /\ Offline
  /\ status[r] = "settled" /\ usage[r]["tokens"] = Unknown
  /\ \E rec \in Receipt, sec \in {Unknown} \cup (0 .. hold[r]["seconds"]) :
       /\ KnownTimeStays(r, sec)
       /\ LET u == Amounts(rec, sec) IN
          /\ usage' = [usage EXCEPT ![r] = u]
          /\ Book(r, EffectiveCharge(hold[r], usage[r]), EffectiveCharge(hold[r], u),
                  OverrunOf(hold[r], u))
  /\ UNCHANGED <<status, request, hold, reply, made, pc, floor, restarts>>

-----------------------------------------------------------------------------
Progress(t) ==
  \/ Reserve(t) \/ Send(t) \/ Respond(t) \/ Fail(t) \/ Settle(t) \/ GiveUp(t)
  \/ ReleaseUnsent(t) \/ RestoreIdle(t) \/ RestoreReplay(t) \/ RestoreDangling(t)

TaskStep(t) == Progress(t) \/ Leave(t) \/ RestoreRefused(t)

Next ==
  \/ \E t \in Task : TaskStep(t)
  \/ ProcessEnds
  \/ \E r \in Rid : OfflineRelease(r) \/ Reconcile(r)

Spec == Init /\ [][Next]_vars

\* The event loop runs every ready coroutine, and every request ends (timeouts).
\* Nothing makes a task leave before its limits do.
FairSpec == Spec /\ \A t \in Task : WF_vars(Progress(t))

-----------------------------------------------------------------------------
(* Properties. *)

TypeOK ==
  /\ status \in [Rid -> Status]
  /\ request \in [Rid -> Request]
  /\ hold \in [Rid -> Amount]
  /\ usage \in [Rid -> Usage]
  /\ reply \in [Rid -> Usage]
  /\ committed \in [Ledger -> [Dim -> Int]]
  /\ overrun \in [Ledger -> Amount]
  /\ made \in [Task -> 0 .. MaxRequests]
  /\ pc \in [Task -> Place]
  /\ floor \in Task \cup {NoTask}
  /\ restarts \in 0 .. MaxRestarts

\* No interleaving of tasks, crashes, recoveries and late receipts commits a
\* ledger beyond its limit: only the reported excess of an answer over its own
\* hold may lie above it (BudgetLedger.validate_ledger, committed_for_limit).
CommittedWithinLimit ==
  \A l \in Ledger, d \in Dim : committed[l][d] - overrun[l][d] <= Limit[l][d]

\* What r contributes to a ledger according to a full replay of the journal, and
\* how much of it is above its hold.
Contribution(r) ==
  CASE status[r] = "held" -> hold[r]
    [] status[r] = "settled" -> EffectiveCharge(hold[r], usage[r])
    [] OTHER -> Zero

Excess(r) == IF status[r] = "settled" THEN OverrunOf(hold[r], usage[r]) ELSE Zero

\* The sum of the amounts f: the size of a set with one element for each unit.
Units(f) == UNION {{x} \X (1 .. f[x]) : x \in DOMAIN f}
SumOf(f) == Cardinality(Units(f))

\* The incremental totals that admit a request agree with the totals a full
\* replay of the journal computes (IncrementalBudgetIndex against BudgetLedger).
ProjectionsAgree ==
  \A l \in Ledger, d \in Dim :
    LET booked == {r \in Rid : Books(l, r)}
    IN /\ committed[l][d] = SumOf([r \in booked |-> Contribution(r)[d]])
       /\ overrun[l][d] = SumOf([r \in booked |-> Excess(r)[d]])

\* A request that left for the service is never released as unsent: its hold
\* stays, or becomes a charge (release_unsent_reservation).
ReleasedNeverSent == \A r \in Rid : status[r] = "released" => request[r] = "none"

\* A task that goes on has no hold behind it: every earlier reservation is
\* closed, by the task itself or by its recovery.  The exception is a request
\* that failed after its reserved time, whose hold stays for ever.
NoForgottenHold ==
  \A r \in Rid :
    status[r] = "held" =>
      \/ r = Cur(Owner(r)) /\ pc[Owner(r)] \notin {"ready", "done"}
      \/ request[r] \in {"refused", "retryable"} /\ Late(hold[r], reply[r])

\* An answer is booked with what it reported, whoever books it and however
\* often the process ended between the answer and its settlement.
AnswerFullyCharged ==
  \A r \in Rid :
    (status[r] = "settled" /\ request[r] = "answered" /\ reply[r]["tokens"] # Unknown)
      => usage[r]["tokens"] = reply[r]["tokens"]

\* A settlement is final: recovery never books a request again, and a late
\* receipt only fills in what was unknown (reservation_settled_twice,
\* reconciliation cannot change known actual charges).
SettlementIsFinal ==
  [][\A r \in Rid : status[r] \in {"settled", "released"} =>
       /\ status'[r] = status[r]
       /\ \A d \in Dim : usage[r][d] # Unknown => usage'[r][d] = usage[r][d]]_vars

\* While an answer of any task that exceeds its hold waits for its settlement,
\* the whole run admits no request (_recover_response_overrun).
NoAdmissionBeforeBooking ==
  [][\A r \in Rid :
       (/\ status[r] = "held" /\ request[r] = "answered"
        /\ reply[r]["tokens"] # Unknown /\ reply[r]["tokens"] > hold[r]["tokens"])
         => made' = made]_vars

\* A request that ran past its reserved time stops its task, and the task
\* stays stopped when the run is resumed: _settle says of a late request that
\* it will "keep the time stop".
LateStopIsKept ==
  \A t \in Task :
    (made[t] > 0 /\ pc[t] = "ready") => ~Late(hold[Cur(t)], reply[Cur(t)])

\* Every task halts: it completes, or runs into its limits, and never waits for
\* time that nobody in flight can give back.
EveryTaskHalts == <>[](\A t \in Task : pc[t] \in {"stopped", "done"})

\* The promise to the payer of the run (Escrow): the root ledger.
Phase(r) ==
  CASE status[r] = "free" -> "free"
    [] status[r] = "held" -> "held"
    [] status[r] = "released" -> "void"
    [] OTHER -> IF usage[r]["tokens"] = Unknown THEN "provisional" ELSE "charged"

\* The share of the limit that r takes: an excess over the hold is no part of it.
Share(r) ==
  [d \in Dim |-> Contribution(r)[d] - Excess(r)[d]]

Phases == [r \in Rid |-> Phase(r)]
Shares == [r \in Rid |-> Share(r)]
RootSpent == [d \in Dim |-> committed[Root][d] - overrun[Root][d]]

E == INSTANCE Escrow WITH
       Cap <- Limit[Root], phase <- Phases, escrow <- Shares, spent <- RootSpent

\* The run ledger implements the escrow.
EscrowSpec == E!Spec
=============================================================================
