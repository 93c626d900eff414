-------------------------- MODULE RunLedgerProofs --------------------------
(***************************************************************************)
(* Proofs about RunLedger, for any tasks, limits, estimates, receipts and  *)
(* bounds.                                                                 *)
(*                                                                         *)
(* A ledger stays within its limit because every entry but a reservation   *)
(* only shrinks what it takes of the limit: an inelastic dimension is      *)
(* charged at most its hold, the excess of an elastic one is booked as     *)
(* overrun.  That needs the shape of what is recorded: a hold and a usage  *)
(* count one call, and money is unknown whenever the tokens are.           *)
(***************************************************************************)
EXTENDS RunLedger, FiniteSetTheorems, TLAPS

\* What a usage report looks like: tokens and money come together.
Report(u) ==
  /\ u["calls"] \in {1, Unknown}
  /\ u["tokens"] = Unknown => \A d \in Dim \cap Elastic : u[d] = Unknown

Busy == {"reserved", "sending", "settling"}

\* A task in the middle of a request has made one, and its hold is open.
Shape ==
  /\ \A t \in Task : pc[t] \in Busy => made[t] > 0 /\ status[Cur(t)] = "held"
  /\ \A r \in Rid : status[r] \in {"held", "settled"} => hold[r]["calls"] = 1
  /\ \A r \in Rid : Report(reply[r]) /\ Report(usage[r])

IInv == TypeOK /\ Shape /\ CommittedWithinLimit

\* A settlement never needs more of the limit than the hold it closes.
Shrinks(before, after, over) == \A d \in Dim : after[d] - over[d] <= before[d]

-----------------------------------------------------------------------------
LEMMA DimFacts ==
  /\ {"calls", "seconds", "tokens"} \subseteq Dim
  /\ Dim \subseteq {"calls", "seconds", "tokens", "money_cny"}
BY LedgerAssumption DEF LedgerAssumption, BaseDim, Elastic

LEMMA ZeroAmount == Zero \in Amount
BY DEF Zero, Amount

\* An estimate is an amount, evidence of any kind is a well-formed report.
LEMMA AmountsOfEstimate ==
  ASSUME NEW est \in Estimate, NEW sec \in Nat
  PROVE  Amounts(est, sec) \in Amount /\ Amounts(est, sec)["calls"] = 1
<1>1. est \in [Elastic -> Nat]
  BY LedgerAssumption DEF LedgerAssumption
<1>2. est # Unknown
  BY LedgerAssumption DEF LedgerAssumption
<1> QED
  BY <1>1, <1>2, DimFacts DEF Amounts, Amount, Elastic

LEMMA AmountsOfEvidence ==
  ASSUME NEW rec \in Receipt \cup {Unknown, Free}, NEW sec \in Nat \cup {Unknown}
  PROVE  Amounts(rec, sec) \in Usage /\ Report(Amounts(rec, sec))
<1>1. rec = Unknown \/ rec \in [Elastic -> Nat]
  BY LedgerAssumption DEF LedgerAssumption, Free
<1>2. CASE rec = Unknown
  BY <1>2, DimFacts DEF Amounts, Usage, Report, Elastic
<1>3. CASE rec # Unknown /\ rec \in [Elastic -> Nat]
  <2>1. Amounts(rec, sec) \in Usage
    BY <1>3, DimFacts DEF Amounts, Usage, Elastic
  <2>2. Amounts(rec, sec)["calls"] = 1 /\ Amounts(rec, sec)["tokens"] \in Nat
    BY <1>3, DimFacts DEF Amounts, Elastic
  <2> QED
    BY <2>1, <2>2, LedgerAssumption DEF Report, LedgerAssumption
<1> QED
  BY <1>1, <1>2, <1>3

LEMMA ChargeType ==
  ASSUME NEW h \in Amount, NEW u \in Usage
  PROVE  EffectiveCharge(h, u) \in Amount /\ OverrunOf(h, u) \in Amount
<1>1. EffectiveCharge(h, u) \in Amount
  BY DEF EffectiveCharge, Amount, Usage
<1> QED
  BY <1>1 DEF OverrunOf, Amount

\* What is charged above the hold is booked as overrun; time and calls never are.
LEMMA ChargeShrinks ==
  ASSUME NEW h \in Amount, NEW u \in Usage, h["calls"] = 1, Report(u), ~Late(h, u)
  PROVE  Shrinks(h, EffectiveCharge(h, u), OverrunOf(h, u))
<1> SUFFICES ASSUME NEW d \in Dim
             PROVE  EffectiveCharge(h, u)[d] - OverrunOf(h, u)[d] <= h[d]
  BY DEF Shrinks
<1>1. h[d] \in Nat /\ EffectiveCharge(h, u)[d] \in Nat
  BY ChargeType DEF Amount
<1>2. CASE d \in Elastic
  BY <1>1, <1>2 DEF OverrunOf
<1>3. CASE d \notin Elastic
  <2>1. d = "calls" \/ d = "seconds"
    BY <1>3, DimFacts DEF Elastic
  <2>2. EffectiveCharge(h, u)[d] <= h[d]
    BY <1>1, <2>1 DEF EffectiveCharge, Report, Late, Usage, Amount
  <2> QED
    BY <1>1, <1>3, <2>2 DEF OverrunOf
<1> QED
  BY <1>2, <1>3

\* A late receipt replaces a charge that was the hold by one that is not larger.
LEMMA AmendShrinks ==
  ASSUME NEW h \in Amount, NEW old \in Usage, NEW u \in Usage, h["calls"] = 1,
         Report(old), Report(u), u["calls"] = 1, old["tokens"] = Unknown,
         old["seconds"] # Unknown => u["seconds"] = old["seconds"], ~Late(h, u)
  PROVE  Shrinks(EffectiveCharge(h, old), EffectiveCharge(h, u), OverrunOf(h, u))
<1> SUFFICES ASSUME NEW d \in Dim
             PROVE  EffectiveCharge(h, u)[d] - OverrunOf(h, u)[d] <= EffectiveCharge(h, old)[d]
  BY DEF Shrinks
<1>1. /\ h[d] \in Nat /\ EffectiveCharge(h, u)[d] \in Nat
      /\ EffectiveCharge(h, old)[d] \in Nat
  BY ChargeType DEF Amount
<1>2. CASE d \in Elastic
  <2>1. EffectiveCharge(h, old)[d] = h[d]
    BY <1>2 DEF Report, EffectiveCharge
  <2> QED
    BY <1>1, <1>2, <2>1 DEF OverrunOf
<1>3. CASE d = "calls" \/ d = "seconds"
  <2>1. EffectiveCharge(h, u)[d] <= EffectiveCharge(h, old)[d]
    BY <1>1, <1>3 DEF Report, EffectiveCharge, Late, Usage
  <2> QED
    BY <1>1, <1>3, <2>1 DEF OverrunOf, Elastic
<1> QED
  BY <1>2, <1>3, DimFacts DEF Elastic

LEMMA SettlementReport ==
  ASSUME NEW h \in Amount, NEW u \in Usage, Report(u)
  PROVE  /\ Settlement(h, u) \in Usage
         /\ Report(Settlement(h, u))
         /\ ~Late(h, Settlement(h, u))
<1>1. CASE Late(h, u)
  BY <1>1, DimFacts DEF Settlement, Usage, Report, Late, Elastic
<1>2. CASE ~Late(h, u)
  BY <1>2 DEF Settlement
<1> QED
  BY <1>1, <1>2

-----------------------------------------------------------------------------
(* Entries in the ledgers. *)

LEMMA BookType ==
  ASSUME NEW r \in Rid, NEW before \in Amount, NEW after \in Amount, NEW over \in Amount,
         committed \in [Ledger -> [Dim -> Int]], overrun \in [Ledger -> Amount],
         Book(r, before, after, over)
  PROVE  committed' \in [Ledger -> [Dim -> Int]] /\ overrun' \in [Ledger -> Amount]
BY DEF Book, Amount

LEMMA BookShrinks ==
  ASSUME NEW r \in Rid, NEW before \in Amount, NEW after \in Amount, NEW over \in Amount,
         committed \in [Ledger -> [Dim -> Int]], overrun \in [Ledger -> Amount],
         Shrinks(before, after, over), Book(r, before, after, over),
         CommittedWithinLimit
  PROVE  CommittedWithinLimit'
<1> SUFFICES ASSUME NEW l \in Ledger, NEW d \in Dim
             PROVE  committed'[l][d] - overrun'[l][d] <= Limit[l][d]
  BY DEF CommittedWithinLimit
<1>1. committed[l][d] - overrun[l][d] <= Limit[l][d]
  BY DEF CommittedWithinLimit
<1>2. /\ before[d] \in Nat /\ after[d] \in Nat /\ over[d] \in Nat
      /\ committed[l][d] \in Int /\ overrun[l][d] \in Nat /\ Limit[l][d] \in Nat
  BY LedgerAssumption DEF Amount, LedgerAssumption
<1>3. after[d] - over[d] <= before[d]
  BY DEF Shrinks
<1>4. /\ committed'[l][d] = IF Books(l, r) THEN committed[l][d] - before[d] + after[d]
                            ELSE committed[l][d]
      /\ overrun'[l][d] = IF Books(l, r) THEN overrun[l][d] + over[d] ELSE overrun[l][d]
  BY DEF Book
<1> QED
  BY <1>1, <1>2, <1>3, <1>4

\* The settlement of an open hold.
LEMMA CloseKeeps ==
  ASSUME IInv, NEW r \in Rid, status[r] = "held",
         NEW u \in Usage, Report(u), Close(r, u)
  PROVE  /\ status' \in [Rid -> Status] /\ usage' \in [Rid -> Usage]
         /\ committed' \in [Ledger -> [Dim -> Int]] /\ overrun' \in [Ledger -> Amount]
         /\ \A q \in Rid : status'[q] = status[q] \/ (q = r /\ status'[q] = "settled")
         /\ \A q \in Rid : Report(usage'[q])
         /\ CommittedWithinLimit'
<1> DEFINE h == hold[r]
           s == Settlement(h, u)
<1>1. h \in Amount /\ h["calls"] = 1 /\ \A q \in Rid : Report(usage[q])
  BY DEF IInv, TypeOK, Shape
<1>2. CASE CanSettle(h, u)
  <2>1. s \in Usage /\ Report(s) /\ ~Late(h, s)
    BY <1>1, SettlementReport
  <2>2. /\ status' = [status EXCEPT ![r] = "settled"]
        /\ usage' = [usage EXCEPT ![r] = s]
        /\ Book(r, h, EffectiveCharge(h, s), OverrunOf(h, s))
    BY <1>2 DEF Close
  <2>3. EffectiveCharge(h, s) \in Amount /\ OverrunOf(h, s) \in Amount
    BY <1>1, <2>1, ChargeType
  <2>4. Shrinks(h, EffectiveCharge(h, s), OverrunOf(h, s))
    BY <1>1, <2>1, ChargeShrinks
  <2>5. committed' \in [Ledger -> [Dim -> Int]] /\ overrun' \in [Ledger -> Amount]
    BY <1>1, <2>2, <2>3, BookType DEF IInv, TypeOK
  <2>6. CommittedWithinLimit'
    BY <1>1, <2>2, <2>3, <2>4, BookShrinks DEF IInv, TypeOK
  <2>7. status' \in [Rid -> Status] /\ usage' \in [Rid -> Usage]
    BY <2>1, <2>2 DEF IInv, TypeOK, Status
  <2>8. \A q \in Rid : Report(usage'[q])
    BY <1>1, <2>1, <2>2 DEF IInv, TypeOK
  <2>9. \A q \in Rid : status'[q] = status[q] \/ (q = r /\ status'[q] = "settled")
    BY <2>2 DEF IInv, TypeOK
  <2> QED
    BY <2>5, <2>6, <2>7, <2>8, <2>9
<1>3. CASE ~CanSettle(h, u)
  <2>1. UNCHANGED <<status, usage, committed, overrun>>
    BY <1>3 DEF Close
  <2> QED
    BY <1>1, <2>1 DEF IInv, TypeOK, CommittedWithinLimit
<1> QED
  BY <1>2, <1>3

\* A reservation is admitted only where its whole hold still fits.
LEMMA FitsRoom ==
  ASSUME IInv, NEW l \in Ledger, NEW h \in Amount, Fits(h, l), NEW d \in Dim
  PROVE  committed[l][d] + h[d] - overrun[l][d] <= Limit[l][d]
<1>1. /\ committed[l][d] \in Int /\ overrun[l][d] \in Nat
      /\ Limit[l][d] \in Nat /\ h[d] \in Nat
      /\ committed[l][d] - overrun[l][d] <= Limit[l][d]
  BY LedgerAssumption DEF IInv, TypeOK, CommittedWithinLimit, Amount, LedgerAssumption
<1>2. h[d] <= Available(l, d)
  BY DEF Fits
<1> QED
  BY <1>1, <1>2 DEF Available

LEMMA CurRid ==
  ASSUME IInv, NEW t \in Task, made[t] > 0
  PROVE  Cur(t) \in Rid
BY LedgerAssumption DEF IInv, TypeOK, Cur, Rid, LedgerAssumption

LEMMA CurDiffers ==
  ASSUME NEW s \in Task, NEW t \in Task, s # t
  PROVE  Cur(s) # Cur(t)
BY DEF Cur

-----------------------------------------------------------------------------
(* The steps. *)

LEMMA ReserveStep ==
  ASSUME IInv, NEW t \in Task, Reserve(t)
  PROVE  IInv'
<1> DEFINE r == <<t, made[t] + 1>>
<1>1. PICK est \in Estimate, sec \in 1 .. MaxSeconds :
        LET h == Amounts(est, sec) IN
        /\ Fits(h, t) /\ Fits(h, Root)
        /\ status' = [status EXCEPT ![r] = "held"]
        /\ hold' = [hold EXCEPT ![r] = h]
        /\ Book(r, Zero, h, Zero)
  BY DEF Reserve
<1> DEFINE h == Amounts(est, sec)
<1>2. sec \in Nat
  BY LedgerAssumption DEF LedgerAssumption
<1>3. h \in Amount /\ h["calls"] = 1
  BY <1>2, AmountsOfEstimate
<1>4. made[t] \in Nat /\ made[t] + 1 \in 1 .. MaxRequests /\ r \in Rid /\ Owner(r) = t
  BY LedgerAssumption DEF Reserve, IInv, TypeOK, Rid, Owner, LedgerAssumption
<1>5. /\ made' = [made EXCEPT ![t] = @ + 1]
      /\ pc' = [pc EXCEPT ![t] = "reserved"] /\ floor' = t
      /\ UNCHANGED <<request, usage, reply, restarts>>
  BY DEF Reserve, Go
<1>6. committed' \in [Ledger -> [Dim -> Int]] /\ overrun' \in [Ledger -> Amount]
  BY <1>1, <1>3, <1>4, ZeroAmount, BookType DEF IInv, TypeOK
<1>7. TypeOK'
  BY <1>1, <1>3, <1>4, <1>5, <1>6 DEF IInv, TypeOK, Status, Place
<1>8. Shape'
  <2>1. \A q \in Rid : status'[q] \in {"held", "settled"} => hold'[q]["calls"] = 1
    BY <1>1, <1>3, <1>4 DEF IInv, TypeOK, Shape
  <2>2. \A q \in Rid : Report(reply'[q]) /\ Report(usage'[q])
    BY <1>5 DEF IInv, Shape
  <2>3. \A s \in Task : pc'[s] \in Busy => made'[s] > 0 /\ status'[Cur(s)'] = "held"
    <3> SUFFICES ASSUME NEW s \in Task, pc'[s] \in Busy
                 PROVE  made'[s] > 0 /\ status'[Cur(s)'] = "held"
      OBVIOUS
    <3>1. CASE s = t
      BY <1>1, <1>4, <1>5, <3>1 DEF IInv, TypeOK, Cur
    <3>2. CASE s # t
      <4>1. pc[s] \in Busy /\ made'[s] = made[s] /\ Cur(s) # r /\ Cur(s)' = Cur(s)
        BY <1>5, <3>2 DEF IInv, TypeOK, Cur
      <4>2. made[s] > 0 /\ status[Cur(s)] = "held"
        BY <4>1 DEF IInv, Shape
      <4>3. Cur(s) \in Rid
        BY <4>2, CurRid
      <4> QED
        BY <1>1, <4>1, <4>2, <4>3 DEF IInv, TypeOK
    <3> QED
      BY <3>1, <3>2
  <2> QED
    BY <2>1, <2>2, <2>3 DEF Shape, Report
<1>9. CommittedWithinLimit'
  <2> SUFFICES ASSUME NEW l \in Ledger, NEW d \in Dim
               PROVE  committed'[l][d] - overrun'[l][d] <= Limit[l][d]
    BY DEF CommittedWithinLimit
  <2>1. /\ committed[l][d] \in Int /\ overrun[l][d] \in Nat /\ h[d] \in Nat
        /\ committed[l][d] - overrun[l][d] <= Limit[l][d] /\ Limit[l][d] \in Nat
    BY <1>3, LedgerAssumption
       DEF IInv, TypeOK, CommittedWithinLimit, Amount, LedgerAssumption
  <2>2. /\ committed'[l][d] = IF Books(l, r) THEN committed[l][d] - 0 + h[d] ELSE committed[l][d]
        /\ overrun'[l][d] = IF Books(l, r) THEN overrun[l][d] + 0 ELSE overrun[l][d]
    BY <1>1 DEF Book, Zero
  <2>3. Books(l, r) => Fits(h, l)
    BY <1>1, <1>4 DEF Books
  <2>4. Fits(h, l) => committed[l][d] + h[d] - overrun[l][d] <= Limit[l][d]
    BY <1>3, FitsRoom
  <2> QED
    BY <2>1, <2>2, <2>3, <2>4
<1> QED
  BY <1>7, <1>8, <1>9 DEF IInv

\* Steps that leave the ledgers, the holds and the reports alone.
LEMMA QuietStep ==
  ASSUME IInv, UNCHANGED <<status, hold, usage, reply, committed, overrun, made>>,
         request' \in [Rid -> Request], pc' \in [Task -> Place],
         floor' \in Task \cup {NoTask}, restarts' \in 0 .. MaxRestarts,
         \A t \in Task : pc'[t] \in Busy => made[t] > 0 /\ status[Cur(t)] = "held"
  PROVE  IInv'
BY DEF IInv, TypeOK, Shape, CommittedWithinLimit, Report, Cur

LEMMA SendStep ==
  ASSUME IInv, NEW t \in Task, Send(t)
  PROVE  IInv'
<1>1. made[t] > 0 /\ status[Cur(t)] = "held"
  BY DEF IInv, Shape, Send, Busy
<1>2. /\ request' \in [Rid -> Request] /\ pc' \in [Task -> Place]
      /\ floor' \in Task \cup {NoTask} /\ restarts' \in 0 .. MaxRestarts
      /\ UNCHANGED <<status, hold, usage, reply, committed, overrun, made>>
  BY DEF Send, Go, IInv, TypeOK, Request, Place
<1>3. \A s \in Task : pc'[s] \in Busy => made[s] > 0 /\ status[Cur(s)] = "held"
  BY <1>1 DEF Send, Go, IInv, TypeOK, Shape
<1> QED
  BY <1>2, <1>3, QuietStep

LEMMA HaltStep ==
  ASSUME IInv, NEW t \in Task, GiveUp(t) \/ Leave(t) \/ RestoreRefused(t)
  PROVE  IInv'
<1>1. PICK place \in {"done", "stopped"} : pc' = [pc EXCEPT ![t] = place]
  BY DEF GiveUp, Leave, RestoreRefused, Go
<1>2. /\ UNCHANGED <<status, request, hold, usage, reply, committed, overrun, made, restarts>>
      /\ floor' \in Task \cup {NoTask}
  BY DEF GiveUp, Leave, RestoreRefused, IInv, TypeOK
<1>3. /\ pc' \in [Task -> Place] /\ request' \in [Rid -> Request]
      /\ restarts' \in 0 .. MaxRestarts
  BY <1>1, <1>2 DEF IInv, TypeOK, Place
<1>4. \A s \in Task : pc'[s] \in Busy => made[s] > 0 /\ status[Cur(s)] = "held"
  BY <1>1 DEF IInv, TypeOK, Shape, Busy
<1> QED
  BY <1>2, <1>3, <1>4, QuietStep

\* An outcome only records a report.
LEMMA OutcomeStep ==
  ASSUME IInv, NEW t \in Task, NEW kind \in {"answered", "refused", "retryable", "final"},
         NEW rec \in Receipt \cup {Unknown, Free}, Outcome(t, kind, rec)
  PROVE  IInv'
<1>1. made[t] > 0 /\ status[Cur(t)] = "held"
  BY DEF IInv, Shape, Outcome, Busy
<1>2. Cur(t) \in Rid
  BY <1>1, CurRid
<1>3. hold[Cur(t)]["seconds"] \in Nat
  BY <1>2, DimFacts DEF IInv, TypeOK, Amount
<1>4. PICK sec \in 0 .. hold[Cur(t)]["seconds"] + 1 :
        reply' = [reply EXCEPT ![Cur(t)] = Amounts(rec, sec)]
  BY DEF Outcome
<1>5. Amounts(rec, sec) \in Usage /\ Report(Amounts(rec, sec))
  BY <1>3, AmountsOfEvidence
<1>6. /\ request' = [request EXCEPT ![Cur(t)] = kind]
      /\ pc' = [pc EXCEPT ![t] = "settling"] /\ floor' = t
      /\ UNCHANGED <<status, hold, usage, committed, overrun, made, restarts>>
  BY DEF Outcome, Go
<1>7. TypeOK'
  BY <1>4, <1>5, <1>6 DEF IInv, TypeOK, Request, Failed, Place
<1>8. Shape'
  <2>1. \A s \in Task : pc'[s] \in Busy => made'[s] > 0 /\ status'[Cur(s)'] = "held"
    BY <1>1, <1>6 DEF IInv, TypeOK, Shape, Cur
  <2>2. \A q \in Rid : Report(reply'[q])
    BY <1>4, <1>5 DEF IInv, TypeOK, Shape
  <2>3. \A q \in Rid : status'[q] \in {"held", "settled"} => hold'[q]["calls"] = 1
    BY <1>6 DEF IInv, Shape
  <2>4. \A q \in Rid : Report(usage'[q])
    BY <1>6 DEF IInv, Shape
  <2> QED
    BY <2>1, <2>2, <2>3, <2>4 DEF Shape, Report
<1>9. CommittedWithinLimit'
  BY <1>6 DEF IInv, CommittedWithinLimit
<1> QED
  BY <1>7, <1>8, <1>9 DEF IInv

\* Settling an open hold, live or restored.
LEMMA CloseStep ==
  ASSUME IInv, NEW t \in Task, made[t] > 0, status[Cur(t)] = "held",
         NEW u \in Usage, Report(u), Close(Cur(t), u),
         UNCHANGED <<request, hold, reply, made, restarts>>, floor' \in Task \cup {NoTask},
         NEW place \in {"ready", "stopped"}, pc' = [pc EXCEPT ![t] = place]
  PROVE  IInv'
<1> DEFINE r == Cur(t)
<1>1. r \in Rid
  BY CurRid
<1>2. /\ status' \in [Rid -> Status] /\ usage' \in [Rid -> Usage]
      /\ committed' \in [Ledger -> [Dim -> Int]] /\ overrun' \in [Ledger -> Amount]
      /\ \A q \in Rid : status'[q] = status[q] \/ (q = r /\ status'[q] = "settled")
      /\ \A q \in Rid : Report(usage'[q])
      /\ CommittedWithinLimit'
  BY <1>1, CloseKeeps
<1>3. TypeOK'
  BY <1>2 DEF IInv, TypeOK, Place
<1>4. Shape'
  <2>1. ASSUME NEW s \in Task, pc'[s] \in Busy
        PROVE  made'[s] > 0 /\ status'[Cur(s)'] = "held"
    <3>1. s # t /\ pc[s] \in Busy /\ Cur(s)' = Cur(s)
      BY <2>1 DEF IInv, TypeOK, Busy, Cur
    <3>2. made[s] > 0 /\ status[Cur(s)] = "held"
      BY <3>1 DEF IInv, Shape
    <3>3. Cur(s) \in Rid /\ Cur(s) # r
      BY <3>1, <3>2, CurRid, CurDiffers
    <3> QED
      BY <1>2, <3>1, <3>2, <3>3
  <2>2. \A q \in Rid : status'[q] \in {"held", "settled"} => hold'[q]["calls"] = 1
    BY <1>2 DEF IInv, Shape
  <2>3. \A q \in Rid : Report(reply'[q])
    BY DEF IInv, Shape
  <2> QED
    BY <1>2, <2>1, <2>2, <2>3 DEF Shape, Report
<1> QED
  BY <1>2, <1>3, <1>4 DEF IInv

LEMMA ResumeStep ==
  ASSUME IInv, NEW t \in Task, NEW place \in {"ready", "stopped"}, pc' = [pc EXCEPT ![t] = place],
         UNCHANGED <<status, usage, committed, overrun, request, hold, reply, made, restarts>>,
         floor' = NoTask
  PROVE  IInv'
<1>1. /\ request' \in [Rid -> Request] /\ pc' \in [Task -> Place]
      /\ floor' \in Task \cup {NoTask} /\ restarts' \in 0 .. MaxRestarts
  BY DEF IInv, TypeOK, Place
<1>2. \A s \in Task : pc'[s] \in Busy => made[s] > 0 /\ status[Cur(s)] = "held"
  BY DEF IInv, TypeOK, Shape, Busy
<1> QED
  BY <1>1, <1>2, QuietStep

LEMMA ReleaseStep ==
  ASSUME IInv, NEW r \in Rid, Release(r), floor' \in Task \cup {NoTask},
         \A s \in Task : pc[s] \in Busy => Cur(s) # r
  PROVE  IInv'
<1>1. /\ status' = [status EXCEPT ![r] = "released"] /\ Book(r, hold[r], Zero, Zero)
      /\ UNCHANGED <<request, hold, usage, reply, made, pc, restarts>>
  BY DEF Release
<1>2. hold[r] \in Amount
  BY DEF IInv, TypeOK
<1>3. Shrinks(hold[r], Zero, Zero)
  BY <1>2 DEF Shrinks, Zero, Amount
<1>4. committed' \in [Ledger -> [Dim -> Int]] /\ overrun' \in [Ledger -> Amount]
  BY <1>1, <1>2, ZeroAmount, BookType DEF IInv, TypeOK
<1>5. CommittedWithinLimit'
  BY <1>1, <1>2, <1>3, ZeroAmount, BookShrinks DEF IInv, TypeOK
<1>6. TypeOK'
  BY <1>1, <1>4 DEF IInv, TypeOK, Status
<1>7. Shape'
  <2>1. ASSUME NEW s \in Task, pc'[s] \in Busy
        PROVE  made'[s] > 0 /\ status'[Cur(s)'] = "held"
    <3>1. pc[s] \in Busy /\ Cur(s)' = Cur(s) /\ made'[s] = made[s] /\ Cur(s) # r
      BY <1>1, <2>1 DEF Cur
    <3>2. made[s] > 0 /\ status[Cur(s)] = "held" /\ Cur(s) \in Rid
      BY <3>1, CurRid DEF IInv, Shape
    <3> QED
      BY <1>1, <3>1, <3>2 DEF IInv, TypeOK
  <2>2. \A q \in Rid : status'[q] \in {"held", "settled"} => hold'[q]["calls"] = 1
    BY <1>1 DEF IInv, TypeOK, Shape
  <2>3. \A q \in Rid : Report(reply'[q]) /\ Report(usage'[q])
    BY <1>1 DEF IInv, Shape
  <2> QED
    BY <2>1, <2>2, <2>3 DEF Shape, Report
<1> QED
  BY <1>5, <1>6, <1>7 DEF IInv

LEMMA ProcessEndsStep ==
  ASSUME IInv, ProcessEnds
  PROVE  IInv'
<1>1. /\ restarts' = restarts + 1 /\ restarts < MaxRestarts /\ floor' = NoTask
      /\ pc' = [t \in Task |-> IF pc[t] = "done" THEN "done" ELSE "down"]
      /\ reply' = [r \in Rid |->
           IF request[r] \in {"retryable", "final"} /\ status[r] = "held"
           THEN Amounts(Unknown, reply[r]["seconds"]) ELSE reply[r]]
      /\ UNCHANGED <<status, request, hold, usage, committed, overrun, made>>
  BY DEF ProcessEnds
<1>2. \A r \in Rid : reply'[r] \in Usage /\ Report(reply'[r])
  <2> TAKE r \in Rid
  <2>1. reply[r] \in Usage /\ Report(reply[r]) /\ reply[r]["seconds"] \in Nat \cup {Unknown}
    BY DimFacts DEF IInv, TypeOK, Shape, Usage
  <2>2. Amounts(Unknown, reply[r]["seconds"]) \in Usage
        /\ Report(Amounts(Unknown, reply[r]["seconds"]))
    BY <2>1, AmountsOfEvidence
  <2> QED
    BY <1>1, <2>1, <2>2
<1>3. restarts' \in 0 .. MaxRestarts
  BY <1>1, LedgerAssumption DEF IInv, TypeOK, LedgerAssumption
<1>4. TypeOK'
  BY <1>1, <1>2, <1>3 DEF IInv, TypeOK, Place
<1>5. Shape'
  BY <1>1, <1>2 DEF IInv, TypeOK, Shape, Report, Busy
<1>6. CommittedWithinLimit'
  BY <1>1 DEF IInv, CommittedWithinLimit
<1> QED
  BY <1>4, <1>5, <1>6 DEF IInv

LEMMA ReconcileStep ==
  ASSUME IInv, NEW r \in Rid, Reconcile(r)
  PROVE  IInv'
<1>1. PICK rec \in Receipt, sec \in {Unknown} \cup (0 .. hold[r]["seconds"]) :
        /\ usage[r]["seconds"] # Unknown => sec = usage[r]["seconds"]
        /\ usage' = [usage EXCEPT ![r] = Amounts(rec, sec)]
        /\ Book(r, EffectiveCharge(hold[r], usage[r]), EffectiveCharge(hold[r], Amounts(rec, sec)),
                OverrunOf(hold[r], Amounts(rec, sec)))
  BY DEF Reconcile, KnownTimeStays
<1> DEFINE h == hold[r]
           old == usage[r]
           u == Amounts(rec, sec)
<1>2. /\ status[r] = "settled" /\ old["tokens"] = Unknown
      /\ UNCHANGED <<status, request, hold, reply, made, pc, floor, restarts>>
  BY DEF Reconcile, KnownTimeStays
<1>3. h \in Amount /\ h["calls"] = 1 /\ h["seconds"] \in Nat /\ old \in Usage /\ Report(old)
  BY <1>2, DimFacts DEF IInv, TypeOK, Shape, Amount
<1>4. sec \in Nat \cup {Unknown}
  BY <1>3
<1>5. u \in Usage /\ Report(u)
  BY <1>4, AmountsOfEvidence
<1>6. /\ EffectiveCharge(h, old) \in Amount /\ EffectiveCharge(h, u) \in Amount
      /\ OverrunOf(h, u) \in Amount
  BY <1>3, <1>5, ChargeType
<1>7. Shrinks(EffectiveCharge(h, old), EffectiveCharge(h, u), OverrunOf(h, u))
  <2>1. u["calls"] = 1 /\ u["seconds"] = sec
    BY DimFacts DEF Amounts
  <2>2. ~Late(h, u)
    BY <1>3, <2>1 DEF Late
  <2> HIDE DEF u
  <2> QED
    BY <1>1, <1>2, <1>3, <1>5, <2>1, <2>2, AmendShrinks
<1>8. committed' \in [Ledger -> [Dim -> Int]] /\ overrun' \in [Ledger -> Amount]
  BY <1>1, <1>6, BookType DEF IInv, TypeOK
<1>9. CommittedWithinLimit'
  BY <1>1, <1>6, <1>7, BookShrinks DEF IInv, TypeOK
<1>10. TypeOK'
  BY <1>1, <1>2, <1>5, <1>8 DEF IInv, TypeOK
<1>11. Shape'
  BY <1>1, <1>2, <1>5 DEF IInv, TypeOK, Shape, Report, Cur
<1> QED
  BY <1>9, <1>10, <1>11 DEF IInv

LEMMA SettleStep ==
  ASSUME IInv, NEW t \in Task, Settle(t)
  PROVE  IInv'
<1>1. made[t] > 0 /\ status[Cur(t)] = "held"
  BY DEF IInv, Shape, Settle, Busy
<1>2. reply[Cur(t)] \in Usage /\ Report(reply[Cur(t)])
  BY <1>1, CurRid DEF IInv, TypeOK, Shape
<1>3. /\ Close(Cur(t), reply[Cur(t)]) /\ floor' = NoTask
      /\ UNCHANGED <<request, hold, reply, made, restarts>>
  BY DEF Settle
<1>4. \E place \in {"ready", "stopped"} : pc' = [pc EXCEPT ![t] = place]
  BY DEF Settle, Go
<1> QED
  BY <1>1, <1>2, <1>3, <1>4, CloseStep

\* What the three ways to resume a task have in common.
LEMMA RestoreStep ==
  ASSUME IInv, NEW t \in Task, NEW stop \in BOOLEAN, Resumed(t, stop),
         \/ UNCHANGED <<status, usage, committed, overrun>>
         \/ /\ made[t] > 0 /\ status[Cur(t)] = "held"
            /\ \E u \in Usage : Report(u) /\ Close(Cur(t), u)
  PROVE  IInv'
<1>1. /\ floor' = NoTask /\ UNCHANGED <<request, hold, reply, made, restarts>>
      /\ \E place \in {"ready", "stopped"} : pc' = [pc EXCEPT ![t] = place]
  BY DEF Resumed, Go
<1>2. CASE UNCHANGED <<status, usage, committed, overrun>>
  BY <1>1, <1>2, ResumeStep
<1>3. CASE /\ made[t] > 0 /\ status[Cur(t)] = "held"
           /\ \E u \in Usage : Report(u) /\ Close(Cur(t), u)
  BY <1>1, <1>3, CloseStep
<1> QED
  BY <1>2, <1>3

LEMMA RestoreReplayStep ==
  ASSUME IInv, NEW t \in Task, RestoreReplay(t)
  PROVE  IInv'
<1> DEFINE r == Cur(t)
           known == IF status[r] = "held" THEN reply[r] ELSE usage[r]
           stop == Late(hold[r], reply[r]) \/ known["tokens"] = Unknown
<1>1. made[t] > 0 /\ r \in Rid
  BY CurRid DEF RestoreReplay, Unbooked, Evidence
<1>2. reply[r] \in Usage /\ Report(reply[r])
  BY <1>1 DEF IInv, TypeOK, Shape
<1>3. /\ IF status[r] = "held" THEN Close(r, reply[r])
         ELSE UNCHANGED <<status, usage, committed, overrun>>
      /\ Resumed(t, stop)
  BY DEF RestoreReplay, Unbooked, Evidence
<1>4. stop \in BOOLEAN
  BY DEF Late
<1> HIDE DEF stop
<1> QED
  BY <1>1, <1>2, <1>3, <1>4, RestoreStep

LEMMA RestoreDanglingStep ==
  ASSUME IInv, NEW t \in Task, RestoreDangling(t)
  PROVE  IInv'
<1> DEFINE r == Cur(t)
           u == IF request[r] = "sent" THEN Amounts(Unknown, Unknown) ELSE reply[r]
<1>1. made[t] > 0 /\ r \in Rid
  BY CurRid DEF RestoreDangling
<1>2. u \in Usage /\ Report(u)
  BY <1>1, AmountsOfEvidence DEF IInv, TypeOK, Shape
<1>3. /\ IF request[r] # "final" /\ status[r] = "held" THEN Close(r, u)
         ELSE UNCHANGED <<status, usage, committed, overrun>>
      /\ \E stop \in BOOLEAN : Resumed(t, stop)
  BY DEF RestoreDangling
<1> HIDE DEF u
<1> QED
  BY <1>1, <1>2, <1>3, RestoreStep

LEMMA ReleaseUnsentStep ==
  ASSUME IInv, NEW t \in Task, ReleaseUnsent(t)
  PROVE  IInv'
<1>1. Cur(t) \in Rid /\ Release(Cur(t)) /\ floor' = t /\ pc[t] = "down"
  BY CurRid DEF ReleaseUnsent, Restoring
<1>2. \A s \in Task : pc[s] \in Busy => Cur(s) # Cur(t)
  BY <1>1, CurDiffers DEF Busy
<1> QED
  BY <1>1, <1>2, ReleaseStep

LEMMA OfflineReleaseStep ==
  ASSUME IInv, NEW r \in Rid, OfflineRelease(r)
  PROVE  IInv'
<1>1. Release(r) /\ floor' \in Task \cup {NoTask}
  BY DEF OfflineRelease, IInv, TypeOK
<1>2. \A s \in Task : pc[s] \in Busy => Cur(s) # r
  BY DEF OfflineRelease, Offline, Busy
<1> QED
  BY <1>1, <1>2, ReleaseStep

-----------------------------------------------------------------------------
LEMMA Initially == Init => IInv
<1> SUFFICES ASSUME Init PROVE IInv
  OBVIOUS
<1>1. Zero \in Amount /\ NoUsage \in Usage
  BY ZeroAmount DEF NoUsage, Usage
<1>2. TypeOK
  BY <1>1, LedgerAssumption
     DEF Init, TypeOK, Status, Request, Place, Amount, LedgerAssumption
<1>3. Shape
  BY DimFacts DEF Init, Shape, Busy, Report, NoUsage
<1>4. CommittedWithinLimit
  BY LedgerAssumption DEF Init, CommittedWithinLimit, Zero, LedgerAssumption, Amount
<1> QED
  BY <1>2, <1>3, <1>4 DEF IInv

LEMMA Inductive == IInv /\ [Next]_vars => IInv'
<1> SUFFICES ASSUME IInv, [Next]_vars PROVE IInv'
  OBVIOUS
<1>1. CASE UNCHANGED vars
  BY <1>1 DEF vars, IInv, TypeOK, Shape, CommittedWithinLimit, Report, Cur
<1>2. ASSUME NEW t \in Task, TaskStep(t) PROVE IInv'
  <2>1. CASE Reserve(t)
    BY <2>1, ReserveStep
  <2>2. CASE Send(t)
    BY <2>2, SendStep
  <2>3. CASE Respond(t)
    BY <2>3, OutcomeStep DEF Respond
  <2>4. CASE Fail(t)
    BY <2>4, OutcomeStep DEF Fail
  <2>5. CASE Settle(t)
    BY <2>5, SettleStep
  <2>6. CASE GiveUp(t) \/ Leave(t) \/ RestoreRefused(t)
    BY <2>6, HaltStep
  <2>7. CASE ReleaseUnsent(t)
    BY <2>7, ReleaseUnsentStep
  <2>8. CASE RestoreIdle(t)
    BY <2>8, RestoreStep DEF RestoreIdle
  <2>9. CASE RestoreReplay(t)
    BY <2>9, RestoreReplayStep
  <2>10. CASE RestoreDangling(t)
    BY <2>10, RestoreDanglingStep
  <2> QED
    BY <1>2, <2>1, <2>2, <2>3, <2>4, <2>5, <2>6, <2>7, <2>8, <2>9, <2>10 DEF TaskStep, Progress
<1>3. CASE ProcessEnds
  BY <1>3, ProcessEndsStep
<1>4. ASSUME NEW r \in Rid, OfflineRelease(r) \/ Reconcile(r) PROVE IInv'
  BY <1>4, OfflineReleaseStep, ReconcileStep
<1> QED
  BY <1>1, <1>2, <1>3, <1>4 DEF Next

-----------------------------------------------------------------------------
(* A reservation number is used once. *)

\* Reservations a task did not make yet are free.
Fresh ==
  \A t \in Task, n \in 1 .. MaxRequests : n > made[t] => status[<<t, n>>] = "free"

LEMMA FreshKept ==
  ASSUME Fresh, made' = made, \A q \in Rid : status[q] = "free" => status'[q] = "free"
  PROVE  Fresh'
BY DEF Fresh, Rid

\* Closing or releasing an open hold frees nothing.
LEMMA ClosedNotFree ==
  ASSUME IInv, NEW r \in Rid, status[r] = "held", NEW u,
         Close(r, u) \/ Release(r)
  PROVE  \A q \in Rid : status[q] = "free" => status'[q] = "free"
BY DEF Close, Release, IInv, TypeOK

LEMMA FreshStep ==
  ASSUME IInv, Fresh, [Next]_vars
  PROVE  Fresh'
<1>1. CASE UNCHANGED vars
  BY <1>1, FreshKept DEF vars
<1>2. ASSUME NEW t \in Task, Reserve(t) PROVE Fresh'
  <2>1. /\ made' = [made EXCEPT ![t] = made[t] + 1] /\ made[t] \in Nat
        /\ status' = [status EXCEPT ![<<t, made[t] + 1>>] = "held"]
    BY <1>2 DEF Reserve, IInv, TypeOK
  <2> SUFFICES ASSUME NEW s \in Task, NEW n \in 1 .. MaxRequests, n > made'[s]
               PROVE  status'[<<s, n>>] = "free"
    BY DEF Fresh
  <2>2. n > made[s] /\ <<s, n>> # <<t, made[t] + 1>> /\ <<s, n>> \in Rid
    BY <2>1 DEF IInv, TypeOK, Rid
  <2> QED
    BY <2>1, <2>2 DEF Fresh, IInv, TypeOK
<1>3. ASSUME NEW t \in Task, Settle(t) PROVE Fresh'
  <2>1. made[t] > 0 /\ status[Cur(t)] = "held"
    BY <1>3 DEF IInv, Shape, Settle, Busy
  <2> QED
    BY <1>3, <2>1, CurRid, ClosedNotFree, FreshKept DEF Settle
<1>4. ASSUME NEW t \in Task, RestoreReplay(t) \/ RestoreDangling(t) PROVE Fresh'
  <2>1. made[t] > 0 /\ made' = made
    BY <1>4 DEF RestoreReplay, Unbooked, Evidence, RestoreDangling, Resumed
  <2>2. \/ status' = status
        \/ status[Cur(t)] = "held" /\ \E u : Close(Cur(t), u)
    BY <1>4 DEF RestoreReplay, Unbooked, Evidence, RestoreDangling
  <2> QED
    BY <2>1, <2>2, CurRid, ClosedNotFree, FreshKept
<1>5. ASSUME NEW t \in Task, ReleaseUnsent(t) PROVE Fresh'
  BY <1>5, CurRid, ClosedNotFree, FreshKept DEF ReleaseUnsent, Release
<1>6. ASSUME NEW r \in Rid, OfflineRelease(r) PROVE Fresh'
  BY <1>6, ClosedNotFree, FreshKept DEF OfflineRelease, Release
<1>7. ASSUME \/ ProcessEnds
             \/ \E r \in Rid : Reconcile(r)
             \/ \E t \in Task : \/ Send(t) \/ Respond(t) \/ Fail(t) \/ GiveUp(t)
                               \/ Leave(t) \/ RestoreIdle(t) \/ RestoreRefused(t)
      PROVE  Fresh'
  BY <1>7, FreshKept DEF ProcessEnds, Reconcile, KnownTimeStays, Send, Respond, Fail, Outcome, GiveUp,
                         Leave, RestoreIdle, Resumed, RestoreRefused
<1> QED
  BY <1>1, <1>2, <1>3, <1>4, <1>5, <1>6, <1>7 DEF Next, TaskStep, Progress

LEMMA FreshInitially == Init => Fresh
BY DEF Init, Fresh, Rid

LEMMA Invariance == Spec => [](IInv /\ Fresh)
<1>1. IInv /\ Fresh /\ [Next]_vars => (IInv /\ Fresh)'
  BY Inductive, FreshStep
<1> QED
  BY <1>1, Initially, FreshInitially, PTL DEF Spec

\* Every value keeps its type, so no operation of the ledger meets an amount,
\* a status or a position it does not handle.
THEOREM TypeCorrect == Spec => []TypeOK
BY Invariance, PTL DEF IInv

\* No ledger is ever committed beyond its limit, except for the excess that
\* answers reported over their own holds.
THEOREM LimitHolds == Spec => []CommittedWithinLimit
BY Invariance, PTL DEF IInv

-----------------------------------------------------------------------------
(* What becomes of a reservation: no hold is forgotten, nothing that was sent  *)
(* is released, an answer is charged what it reported, a settlement stays.     *)

HInv == IInv /\ Fresh

-----------------------------------------------------------------------------
(* Released means never sent. *)

LEMMA ReleasedStep ==
  ASSUME HInv, ReleasedNeverSent, [Next]_vars
  PROVE  ReleasedNeverSent'
<1> USE DEF ReleasedNeverSent, HInv
<1>1. ASSUME request' = request,
             \A q \in Rid : status'[q] = "released" => status[q] = "released"
      PROVE  ReleasedNeverSent'
  BY <1>1
<1>2. CASE UNCHANGED vars
  BY <1>2 DEF vars
<1>3. ASSUME NEW t \in Task, Send(t) \/ Respond(t) \/ Fail(t) PROVE ReleasedNeverSent'
  <2>1. made[t] > 0 /\ status[Cur(t)] = "held"
    BY <1>3 DEF IInv, Shape, Send, Respond, Fail, Outcome, Busy
  <2>2. /\ status' = status /\ Cur(t) \in Rid
        /\ \E k \in Request : request' = [request EXCEPT ![Cur(t)] = k]
    BY <1>3, <2>1, CurRid DEF Send, Respond, Fail, Outcome, Request, Failed
  <2> QED
    BY <2>1, <2>2 DEF IInv, TypeOK
<1>4. ASSUME NEW r \in Rid, Release(r) PROVE ReleasedNeverSent'
  BY <1>4 DEF Release, IInv, TypeOK
<1>5. ASSUME NEW t \in Task, Settle(t) \/ RestoreReplay(t) \/ RestoreDangling(t)
      PROVE  ReleasedNeverSent'
  <2>1. Cur(t) \in Rid /\ request' = request
    BY <1>5, CurRid
       DEF IInv, Shape, Busy, Settle, RestoreReplay, Unbooked, Evidence, RestoreDangling, Resumed
  <2>2. status' = status \/ status' = [status EXCEPT ![Cur(t)] = "settled"]
    BY <1>5 DEF Settle, RestoreReplay, Unbooked, Evidence, RestoreDangling, Close
  <2> QED
    BY <1>1, <2>1, <2>2 DEF IInv, TypeOK
<1>6. ASSUME NEW t \in Task, Reserve(t) PROVE ReleasedNeverSent'
  BY <1>1, <1>6 DEF Reserve, IInv, TypeOK
<1>7. ASSUME NEW t \in Task, ReleaseUnsent(t) PROVE ReleasedNeverSent'
  BY <1>4, <1>7, CurRid DEF ReleaseUnsent
<1>8. ASSUME \/ ProcessEnds
             \/ \E r \in Rid : Reconcile(r)
             \/ \E t \in Task : GiveUp(t) \/ Leave(t) \/ RestoreIdle(t) \/ RestoreRefused(t)
      PROVE  ReleasedNeverSent'
  BY <1>1, <1>8 DEF ProcessEnds, Reconcile, KnownTimeStays, GiveUp, Leave, RestoreIdle, Resumed, RestoreRefused
<1> QED
  BY <1>2, <1>3, <1>4, <1>5, <1>6, <1>7, <1>8 DEF Next, TaskStep, Progress, OfflineRelease

\* A reservation that was released had no request: what left for the service
\* keeps its hold or is charged.
THEOREM ReleasedWasNeverSent == Spec => []ReleasedNeverSent
<1>1. Init => ReleasedNeverSent
  BY DEF Init, ReleasedNeverSent
<1>2. HInv /\ ReleasedNeverSent /\ [Next]_vars => ReleasedNeverSent'
  BY ReleasedStep
<1> QED
  BY <1>1, <1>2, Invariance, PTL DEF Spec, HInv

-----------------------------------------------------------------------------
(* An answer is charged what it reported. *)

\* A settlement keeps the reported tokens, late or not.
LEMMA SettledTokens ==
  ASSUME NEW h \in Amount, NEW u \in Usage
  PROVE  Settlement(h, u)["tokens"] = u["tokens"]
BY DimFacts DEF Settlement, Usage

\* Steps that move neither settlements nor outcomes of settled requests.
LEMMA ChargeFrame ==
  ASSUME AnswerFullyCharged, UNCHANGED usage,
         \A q \in Rid : status'[q] = "settled" =>
           status[q] = "settled" /\ UNCHANGED <<request[q], reply[q]>>
  PROVE  AnswerFullyCharged'
BY DEF AnswerFullyCharged

LEMMA ChargeClose ==
  ASSUME HInv, AnswerFullyCharged, NEW r \in Rid, NEW u \in Usage, Close(r, u),
         request[r] = "answered" => u = reply[r], UNCHANGED <<request, reply>>
  PROVE  AnswerFullyCharged'
<1>1. CASE UNCHANGED <<status, usage>>
  BY <1>1 DEF AnswerFullyCharged
<1>2. CASE /\ status' = [status EXCEPT ![r] = "settled"]
           /\ usage' = [usage EXCEPT ![r] = Settlement(hold[r], u)]
  <2>1. usage'[r]["tokens"] = u["tokens"]
    BY <1>2, SettledTokens DEF HInv, IInv, TypeOK
  <2> QED
    BY <1>2, <2>1 DEF AnswerFullyCharged, HInv, IInv, TypeOK
<1> QED
  BY <1>1, <1>2 DEF Close

LEMMA ChargedStep ==
  ASSUME HInv, AnswerFullyCharged, [Next]_vars
  PROVE  AnswerFullyCharged'
<1>1. CASE UNCHANGED vars
  BY <1>1, ChargeFrame DEF vars
<1>2. ASSUME NEW t \in Task, Send(t) \/ Respond(t) \/ Fail(t) PROVE AnswerFullyCharged'
  <2>1. made[t] > 0 /\ status[Cur(t)] = "held"
    BY <1>2 DEF HInv, IInv, Shape, Send, Respond, Fail, Outcome, Busy
  <2>2. /\ UNCHANGED <<status, usage>> /\ Cur(t) \in Rid
        /\ \E k : request' = [request EXCEPT ![Cur(t)] = k]
        /\ reply' = reply \/ \E v : reply' = [reply EXCEPT ![Cur(t)] = v]
    BY <1>2, <2>1, CurRid DEF Send, Respond, Fail, Outcome, HInv
  <2>3. \A q \in Rid : status[q] = "settled" => UNCHANGED <<request[q], reply[q]>>
    BY <2>1, <2>2 DEF HInv, IInv, TypeOK
  <2> QED
    BY <2>2, <2>3, ChargeFrame
<1>3. ASSUME NEW t \in Task, Settle(t) \/ RestoreReplay(t) \/ RestoreDangling(t)
      PROVE  AnswerFullyCharged'
  <2> DEFINE r == Cur(t)
  <2>1. r \in Rid /\ UNCHANGED <<request, reply>>
    BY <1>3, CurRid
       DEF HInv, IInv, Shape, Busy, Settle, RestoreReplay, Unbooked, Evidence, RestoreDangling, Resumed
  <2>2. reply[r] \in Usage /\ Amounts(Unknown, Unknown) \in Usage
    BY <2>1, AmountsOfEvidence DEF HInv, IInv, TypeOK
  <2>3. \/ UNCHANGED <<status, usage>>
        \/ Close(r, reply[r])
        \/ request[r] # "answered" /\ Close(r, Amounts(Unknown, Unknown))
    BY <1>3 DEF Settle, RestoreReplay, Unbooked, Evidence, RestoreDangling
  <2> QED
    BY <2>1, <2>2, <2>3, ChargeFrame, ChargeClose
<1>4. ASSUME NEW t \in Task, Reserve(t) PROVE AnswerFullyCharged'
  <2>1. \A q \in Rid : status'[q] = "settled" => status[q] = "settled"
    BY <1>4 DEF Reserve, HInv, IInv, TypeOK
  <2> QED
    BY <1>4, <2>1, ChargeFrame DEF Reserve
<1>5. ASSUME NEW r \in Rid, Release(r) PROVE AnswerFullyCharged'
  <2>1. \A q \in Rid : status'[q] = "settled" => status[q] = "settled"
    BY <1>5 DEF Release, HInv, IInv, TypeOK
  <2> QED
    BY <1>5, <2>1, ChargeFrame DEF Release
<1>6. ASSUME NEW r \in Rid, Reconcile(r) PROVE AnswerFullyCharged'
  \* Only a charge without tokens is reconciled, so r's answer had none either.
  <2>1. usage[r]["tokens"] = Unknown /\ status[r] = "settled"
        /\ UNCHANGED <<status, request, reply>>
    BY <1>6 DEF Reconcile, KnownTimeStays
  <2>2. \A q \in Rid \ {r} : usage'[q] = usage[q]
    BY <1>6 DEF Reconcile, KnownTimeStays, HInv, IInv, TypeOK
  <2>3. request[r] = "answered" => reply[r]["tokens"] = Unknown
    BY <2>1 DEF AnswerFullyCharged
  <2> QED
    BY <2>1, <2>2, <2>3 DEF AnswerFullyCharged
<1>7. CASE ProcessEnds
  BY <1>7, ChargeFrame DEF ProcessEnds
<1>8. ASSUME \E t \in Task : GiveUp(t) \/ Leave(t) \/ RestoreIdle(t) \/ RestoreRefused(t)
      PROVE  AnswerFullyCharged'
  BY <1>8, ChargeFrame DEF GiveUp, Leave, RestoreIdle, Resumed, RestoreRefused
<1>9. ASSUME NEW t \in Task, ReleaseUnsent(t) PROVE AnswerFullyCharged'
  BY <1>5, <1>9, CurRid DEF ReleaseUnsent, HInv
<1> QED
  BY <1>1, <1>2, <1>3, <1>4, <1>5, <1>6, <1>7, <1>8, <1>9 DEF Next, TaskStep, Progress, OfflineRelease

\* Whoever books an answer, and however often the process ended in between, the
\* ledger holds the tokens the answer reported.
THEOREM AnswersAreFullyCharged == Spec => []AnswerFullyCharged
<1>1. Init => AnswerFullyCharged
  BY DEF Init, AnswerFullyCharged
<1>2. HInv /\ AnswerFullyCharged /\ [Next]_vars => AnswerFullyCharged'
  BY ChargedStep
<1> QED
  BY <1>1, <1>2, Invariance, PTL DEF Spec, HInv

-----------------------------------------------------------------------------
(* A settlement is final. *)

\* r is closed as it was, and nothing known of its usage changed.
Stays(r) ==
  status[r] \in {"settled", "released"} =>
    /\ status'[r] = status[r]
    /\ \A d \in Dim : usage[r][d] # Unknown => usage'[r][d] = usage[r][d]

LEMMA FinalStep ==
  ASSUME HInv, [Next]_vars
  PROVE  \A r \in Rid : Stays(r)
<1> USE DEF Stays
<1>1. ASSUME NEW q \in Rid, status[q] \notin {"settled", "released"},
             \A r \in Rid \ {q} : UNCHANGED <<status[r], usage[r]>>
      PROVE  \A r \in Rid : Stays(r)
  BY <1>1
<1>2. ASSUME UNCHANGED <<status, usage>> PROVE \A r \in Rid : Stays(r)
  BY <1>2
<1>3. ASSUME NEW q \in Rid, NEW u, status[q] = "held", Close(q, u)
      PROVE  \A r \in Rid : Stays(r)
  BY <1>3 DEF Close, HInv, IInv, TypeOK
<1>4. ASSUME NEW t \in Task, Settle(t) \/ RestoreReplay(t) \/ RestoreDangling(t)
      PROVE  \A r \in Rid : Stays(r)
  <2>1. Cur(t) \in Rid
    BY <1>4, CurRid DEF HInv, IInv, Shape, Busy, Settle, RestoreReplay, Unbooked, Evidence, RestoreDangling
  <2>2. \/ UNCHANGED <<status, usage>>
        \/ status[Cur(t)] = "held" /\ \E u : Close(Cur(t), u)
    BY <1>4 DEF HInv, IInv, Shape, Busy, Settle, RestoreReplay, Unbooked, Evidence, RestoreDangling
  <2> QED
    BY <1>2, <1>3, <2>1, <2>2
<1>5. ASSUME NEW t \in Task, Reserve(t) PROVE \A r \in Rid : Stays(r)
  <2>1. PICK q \in Rid : q = <<t, made[t] + 1>>
    BY <1>5, LedgerAssumption DEF Reserve, HInv, IInv, TypeOK, Rid, LedgerAssumption
  <2>2. status[q] = "free"
    BY <1>5, <2>1, LedgerAssumption DEF Reserve, HInv, Fresh, IInv, TypeOK, Rid, LedgerAssumption
  <2> QED
    BY <1>1, <1>5, <2>1, <2>2 DEF Reserve, HInv, IInv, TypeOK
<1>6. ASSUME NEW q \in Rid, Release(q) PROVE \A r \in Rid : Stays(r)
  BY <1>1, <1>6 DEF Release, HInv, IInv, TypeOK
<1>7. ASSUME NEW q \in Rid, Reconcile(q) PROVE \A r \in Rid : Stays(r)
  <2>1. PICK rec \in Receipt, sec \in {Unknown} \cup (0 .. hold[q]["seconds"]) :
          /\ usage[q]["seconds"] # Unknown => sec = usage[q]["seconds"]
          /\ usage' = [usage EXCEPT ![q] = Amounts(rec, sec)]
    BY <1>7 DEF Reconcile, KnownTimeStays
  <2>2. status' = status /\ usage[q]["tokens"] = Unknown /\ Report(usage[q])
    BY <1>7 DEF Reconcile, KnownTimeStays, HInv, IInv, Shape
  <2>3. ASSUME NEW d \in Dim, usage[q][d] # Unknown
        PROVE  usage'[q][d] = usage[q][d]
    <3>1. d = "calls" \/ d = "seconds"
      BY <2>2, <2>3, DimFacts DEF Report, Elastic
    <3>2. usage'[q][d] = Amounts(rec, sec)[d]
      BY <2>1 DEF HInv, IInv, TypeOK
    <3> QED
      BY <2>1, <2>2, <2>3, <3>1, <3>2 DEF Amounts, Report
  <2> QED
    BY <2>1, <2>2, <2>3 DEF HInv, IInv, TypeOK
<1>8. ASSUME \/ ProcessEnds \/ UNCHANGED vars
             \/ \E t \in Task : \/ Send(t) \/ Respond(t) \/ Fail(t) \/ GiveUp(t)
                               \/ Leave(t) \/ RestoreIdle(t) \/ RestoreRefused(t)
      PROVE  \A r \in Rid : Stays(r)
  BY <1>2, <1>8 DEF vars, ProcessEnds, Send, Respond, Fail, Outcome, GiveUp,
                    Leave, RestoreIdle, Resumed, RestoreRefused
<1>9. ASSUME NEW t \in Task, ReleaseUnsent(t) PROVE \A r \in Rid : Stays(r)
  BY <1>6, <1>9, CurRid DEF ReleaseUnsent, HInv
<1> QED
  BY <1>4, <1>5, <1>6, <1>7, <1>8, <1>9 DEF Next, TaskStep, Progress, OfflineRelease

\* Recovery never books a request again, and a late receipt only fills in what
\* was unknown.
THEOREM SettlementsAreFinal == Spec => SettlementIsFinal
<1>1. HInv /\ [Next]_vars => [\A r \in Rid : Stays(r)]_vars
  BY FinalStep
<1> QED
  BY <1>1, Invariance, PTL DEF Spec, SettlementIsFinal, HInv, Stays

-----------------------------------------------------------------------------
(* No hold is forgotten. *)

\* r is no open hold, or is accounted for.
Remembered(r) ==
  status[r] = "held" =>
    \/ r = Cur(Owner(r)) /\ pc[Owner(r)] \notin {"ready", "done"}
    \/ request[r] \in {"refused", "retryable"} /\ Late(hold[r], reply[r])

\* Whose reservation it is.
LEMMA OwnerFacts ==
  /\ \A r \in Rid : Owner(r) \in Task
  /\ \A t \in Task : Owner(Cur(t)) = t
BY DEF Rid, Owner, Cur

\* A step of t changes at most its own current reservation and does not end
\* up ready or done with it open, unless it failed late.
LEMMA OwnStep ==
  ASSUME HInv, NoForgottenHold, NEW t \in Task, made' = made,
         NEW place \in Place, pc' = [pc EXCEPT ![t] = place],
         \A r \in Rid : r # Cur(t) =>
           /\ status'[r] = "held" => status[r] = "held"
           /\ UNCHANGED <<hold[r], request[r], reply[r]>>,
         pc[t] \in {"ready", "done"} => place \in {"ready", "done", "stopped", "down"},
         Cur(t) \in Rid => Remembered(Cur(t))'
  PROVE  NoForgottenHold'
<1> SUFFICES ASSUME NEW r \in Rid, status'[r] = "held"
             PROVE  \/ r = Cur(Owner(r))' /\ pc'[Owner(r)] \notin {"ready", "done"}
                    \/ request'[r] \in {"refused", "retryable"} /\ Late(hold'[r], reply'[r])
  BY DEF NoForgottenHold, Owner, Late
<1>1. Owner(r) \in Task /\ Owner(r)' = Owner(r) /\ Cur(Owner(r))' = Cur(Owner(r))
  BY OwnerFacts DEF Owner, Cur
<1>2. CASE r = Cur(t)
  BY <1>1, <1>2 DEF Remembered, Late, Owner, Cur
<1>3. CASE r # Cur(t)
  <2>1. \/ r = Cur(Owner(r)) /\ pc[Owner(r)] \notin {"ready", "done"}
        \/ request[r] \in {"refused", "retryable"} /\ Late(hold[r], reply[r])
    BY <1>3 DEF NoForgottenHold
  <2>2. r = Cur(Owner(r)) => Owner(r) # t
    BY <1>3
  <2> QED BY <1>1, <1>3, <2>1, <2>2 DEF HInv, IInv, TypeOK, Late
<1> QED BY <1>2, <1>3

\* What is left open when the ledger cannot take a settlement was late.
LEMMA OpenIsLate ==
  ASSUME HInv, NEW r \in Rid, NEW u, Close(r, u), status'[r] = "held"
  PROVE  Late(hold[r], u)
BY DEF Close, CanSettle, HInv, IInv, TypeOK

LEMMA RememberedStep ==
  ASSUME HInv, NoForgottenHold, [Next]_vars
  PROVE  NoForgottenHold'
<1>1. CASE UNCHANGED vars
  BY <1>1 DEF vars, NoForgottenHold, Late, Cur, Owner
<1>2. ASSUME NEW t \in Task, Reserve(t) PROVE NoForgottenHold'
  <2> DEFINE q == <<t, made[t] + 1>>
  <2>1. /\ q \in Rid /\ made' = [made EXCEPT ![t] = made[t] + 1] /\ pc' = [pc EXCEPT ![t] = "reserved"]
        /\ UNCHANGED <<request, reply>> /\ pc[t] = "ready"
        /\ status' = [status EXCEPT ![q] = "held"] /\ \A r \in Rid : r # q => hold'[r] = hold[r]
    BY <1>2, LedgerAssumption DEF Reserve, Go, Rid, HInv, IInv, TypeOK, LedgerAssumption
  <2> SUFFICES ASSUME NEW r \in Rid, status'[r] = "held"
               PROVE  \/ r = Cur(Owner(r))' /\ pc'[Owner(r)] \notin {"ready", "done"}
                      \/ request'[r] \in {"refused", "retryable"} /\ Late(hold'[r], reply'[r])
    BY DEF NoForgottenHold, Owner, Late
  <2>2. CASE r = q
    <3>1. Owner(r) = t /\ Owner(r)' = t /\ Cur(t)' = q
      BY <2>1, <2>2 DEF Owner, Cur, HInv, IInv, TypeOK
    <3> QED BY <2>1, <2>2, <3>1 DEF HInv, IInv, TypeOK, Cur, Owner
  <2>3. CASE r # q
    <3>1. status[r] = "held" /\ Owner(r) \in Task
      BY <2>1, <2>3, OwnerFacts DEF HInv, IInv, TypeOK
    <3>2. \/ r = Cur(Owner(r)) /\ pc[Owner(r)] \notin {"ready", "done"}
          \/ request[r] \in {"refused", "retryable"} /\ Late(hold[r], reply[r])
      BY <3>1 DEF NoForgottenHold
    <3>3. CASE Owner(r) = t
      BY <2>1, <2>3, <3>2, <3>3 DEF Late
    <3>4. CASE Owner(r) # t
      BY <2>1, <2>3, <3>1, <3>2, <3>4 DEF Late, Cur, Owner, HInv, IInv, TypeOK
    <3> QED BY <3>3, <3>4
  <2> QED BY <2>2, <2>3
<1>3. ASSUME NEW t \in Task, Send(t) \/ Respond(t) \/ Fail(t) PROVE NoForgottenHold'
  <2>1. PICK place \in {"sending", "settling"} :
          pc' = [pc EXCEPT ![t] = place] /\ pc[t] \in Busy /\ made' = made /\ UNCHANGED <<status, hold>>
    BY <1>3 DEF Send, Respond, Fail, Outcome, Go, Busy
  <2>2. Cur(t) \in Rid
    BY <2>1, CurRid DEF HInv, IInv, Shape
  <2>3. \A r \in Rid : r # Cur(t) => UNCHANGED <<request[r], reply[r]>>
    BY <1>3, <2>2 DEF Send, Respond, Fail, Outcome, HInv, IInv, TypeOK
  <2>4. Remembered(Cur(t))'
    BY <2>1 DEF Remembered, Cur, Owner, HInv, IInv, TypeOK
  <2> QED BY <2>1, <2>3, <2>4, OwnStep DEF Place, Busy
<1>4. ASSUME NEW t \in Task, GiveUp(t) \/ Leave(t) \/ RestoreRefused(t) PROVE NoForgottenHold'
  <2>1. PICK place \in {"done", "stopped"} :
          /\ pc' = [pc EXCEPT ![t] = place] /\ (pc[t] = "ready" \/ place = "stopped")
          /\ UNCHANGED <<status, hold, made, request, reply>>
    BY <1>4 DEF GiveUp, Leave, RestoreRefused, Go
  <2>2. ASSUME Cur(t) \in Rid PROVE Remembered(Cur(t))'
    BY <2>1, <2>2, OwnerFacts DEF Remembered, NoForgottenHold, Cur, Owner, Late, HInv, IInv, TypeOK
  <2> QED BY <2>1, <2>2, OwnStep DEF Place
<1>5. ASSUME NEW t \in Task, Settle(t) PROVE NoForgottenHold'
  <2>1. /\ Cur(t) \in Rid /\ Close(Cur(t), reply[Cur(t)]) /\ pc[t] = "settling"
        /\ UNCHANGED <<made, hold, request, reply>>
    BY <1>5, CurRid DEF Settle, HInv, IInv, Shape, Busy
  <2>2. PICK place \in {"ready", "stopped"} :
          pc' = [pc EXCEPT ![t] = place] /\ (Late(hold[Cur(t)], reply[Cur(t)]) => place = "stopped")
    BY <1>5 DEF Settle, Go
  <2>3. \A r \in Rid : r # Cur(t) => status'[r] = status[r]
    BY <2>1 DEF Close, HInv, IInv, TypeOK
  <2>4. Remembered(Cur(t))'
    <3> SUFFICES ASSUME status'[Cur(t)] = "held" PROVE pc'[t] = "stopped"
      BY <2>1 DEF Remembered, Cur, Owner
    <3> QED BY <2>1, <2>2, OpenIsLate DEF HInv, IInv, TypeOK
  <2> QED BY <2>1, <2>2, <2>3, <2>4, OwnStep DEF Place
<1>6. ASSUME NEW t \in Task, RestoreIdle(t) PROVE NoForgottenHold'
  <2>1. PICK place \in {"ready", "stopped"} :
          pc' = [pc EXCEPT ![t] = place] /\ UNCHANGED <<made, hold, request, reply, status>> /\ pc[t] = "down"
    BY <1>6 DEF RestoreIdle, Restoring, Resumed, Go
  <2>2. ASSUME Cur(t) \in Rid PROVE Remembered(Cur(t))'
    <3>1. made[t] > 0
      BY <2>2 DEF Cur, Rid, HInv, IInv, TypeOK
    <3> QED BY <1>6, <2>1, <3>1 DEF RestoreIdle, Remembered, Cur
  <2> QED BY <2>1, <2>2, OwnStep DEF Place
<1>7. ASSUME NEW t \in Task, RestoreReplay(t) PROVE NoForgottenHold'
  <2> DEFINE r == Cur(t)
             known == IF status[r] = "held" THEN reply[r] ELSE usage[r]
             stop == Late(hold[r], reply[r]) \/ known["tokens"] = Unknown
  <2>1. /\ r \in Rid /\ pc[t] = "down" /\ UNCHANGED <<made, hold, request, reply>>
        /\ IF status[r] = "held" THEN Close(r, reply[r]) ELSE UNCHANGED <<status, usage, committed, overrun>>
        /\ Resumed(t, stop)
    BY <1>7, CurRid DEF RestoreReplay, Unbooked, Evidence, Restoring, Resumed, HInv
  <2>2. PICK place \in {"ready", "stopped"} :
          pc' = [pc EXCEPT ![t] = place] /\ (Late(hold[r], reply[r]) => place = "stopped")
    BY <2>1 DEF Resumed, Go
  <2>3. \A q \in Rid : q # r => status'[q] = status[q]
    BY <2>1 DEF Close, HInv, IInv, TypeOK
  <2>4. Remembered(r)'
    <3> SUFFICES ASSUME status'[r] = "held" PROVE pc'[t] = "stopped"
      BY <2>1 DEF Remembered, Cur, Owner
    <3> QED BY <2>1, <2>2, OpenIsLate DEF HInv, IInv, TypeOK
  <2> QED BY <2>1, <2>2, <2>3, <2>4, OwnStep DEF Place
<1>8. ASSUME NEW t \in Task, RestoreDangling(t) PROVE NoForgottenHold'
  <2> DEFINE r == Cur(t)
             u == IF request[r] = "sent" THEN Amounts(Unknown, Unknown) ELSE reply[r]
  <2>1. /\ r \in Rid /\ pc[t] = "down" /\ UNCHANGED <<made, hold, request, reply>>
        /\ request[r] \in {"sent", "refused", "retryable", "final"}
        /\ IF request[r] # "final" /\ status[r] = "held" THEN Close(r, u)
           ELSE UNCHANGED <<status, usage, committed, overrun>>
    BY <1>8, CurRid DEF RestoreDangling, Restoring, Resumed, HInv
  <2>2. PICK place \in {"ready", "stopped"} :
          pc' = [pc EXCEPT ![t] = place] /\ (request[r] = "final" => place = "stopped")
    BY <1>8 DEF RestoreDangling, Resumed, Go
  <2>3. \A q \in Rid : q # r => status'[q] = status[q]
    BY <2>1 DEF Close, HInv, IInv, TypeOK
  <2>4. Remembered(r)'
    <3> SUFFICES ASSUME status'[r] = "held"
                 PROVE  pc'[t] = "stopped" \/ (request[r] \in {"refused", "retryable"} /\ Late(hold[r], reply[r]))
      BY <2>1 DEF Remembered, Cur, Owner, Late
    <3>1. CASE request[r] = "final"
      BY <2>2, <3>1 DEF HInv, IInv, TypeOK
    <3>2. CASE request[r] # "final"
      <4>1. status[r] = "held"
        BY <2>1, <3>2
      <4>2. Late(hold[r], u)
        BY <2>1, <3>2, <4>1, OpenIsLate
      <4>3. request[r] # "sent"
        BY <4>2, DimFacts DEF Late, Amounts
      <4> QED BY <2>1, <3>2, <4>2, <4>3
    <3> QED BY <3>1, <3>2
  <2> QED BY <2>1, <2>2, <2>3, <2>4, OwnStep DEF Place
<1>9. ASSUME NEW q \in Rid, Release(q) PROVE NoForgottenHold'
  BY <1>9 DEF Release, NoForgottenHold, Cur, Owner, Late, HInv, IInv, TypeOK
<1>10. ASSUME NEW t \in Task, ReleaseUnsent(t) PROVE NoForgottenHold'
  BY <1>9, <1>10, CurRid DEF ReleaseUnsent, HInv
<1>11. ASSUME NEW q \in Rid, Reconcile(q) PROVE NoForgottenHold'
  BY <1>11 DEF Reconcile, NoForgottenHold, Cur, Owner, Late
<1>12. CASE ProcessEnds
  <2> SUFFICES ASSUME NEW r \in Rid, status'[r] = "held"
               PROVE  \/ r = Cur(Owner(r))' /\ pc'[Owner(r)] \notin {"ready", "done"}
                      \/ request'[r] \in {"refused", "retryable"} /\ Late(hold'[r], reply'[r])
    BY DEF NoForgottenHold, Owner, Late
  <2>1. reply'[r]["seconds"] = reply[r]["seconds"]
    BY <1>12, DimFacts DEF ProcessEnds, Amounts
  <2>2. Owner(r) \in Task /\ UNCHANGED <<request, hold, made, status>>
        /\ pc' = [t \in Task |-> IF pc[t] = "done" THEN "done" ELSE "down"]
    BY <1>12, OwnerFacts DEF ProcessEnds
  <2> QED BY <2>1, <2>2 DEF NoForgottenHold, Late, Cur, Owner
<1> QED
  BY <1>1, <1>2, <1>3, <1>4, <1>5, <1>6, <1>7, <1>8, <1>9, <1>10, <1>11, <1>12
     DEF Next, TaskStep, Progress, OfflineRelease

\* A task that goes on, or is done, has no open reservation behind it, except
\* for a request that failed after its reserved time.
THEOREM NoHoldIsForgotten == Spec => []NoForgottenHold
<1>1. Init => NoForgottenHold
  BY DEF Init, NoForgottenHold
<1>2. HInv /\ NoForgottenHold /\ [Next]_vars => NoForgottenHold'
  BY RememberedStep
<1> QED
  BY <1>1, <1>2, Invariance, PTL DEF Spec, HInv

-----------------------------------------------------------------------------
(* No admission before booking. *)

\* r's answer exceeds its hold and is not booked.
Overdue(r) ==
  /\ status[r] = "held" /\ request[r] = "answered"
  /\ reply[r]["tokens"] # Unknown /\ reply[r]["tokens"] > hold[r]["tokens"]

\* While an answer that exceeds its hold is not booked, no task of the run
\* admits a request (_recover_response_overrun).
THEOREM BookingComesFirst == Spec => NoAdmissionBeforeBooking
<1>1. ASSUME [Next]_vars, NEW r \in Rid, Overdue(r) PROVE made' = made
  <2>1. ASSUME NEW t \in Task, Reserve(t) PROVE FALSE
    <3>1. UnsettledAnswer(Root)
      BY <1>1 DEF UnsettledAnswer, Overdue, Books
    <3> QED BY <2>1, <3>1 DEF Reserve, BudgetStop, SettledStop
  <2> QED
    BY <1>1, <2>1
       DEF Next, vars, TaskStep, Progress, Send, Respond, Fail, Outcome, Settle, GiveUp, Leave,
           ProcessEnds, ReleaseUnsent, Release, RestoreIdle, RestoreReplay, RestoreDangling,
           RestoreRefused, Resumed, OfflineRelease, Reconcile
<1>2. [Next]_vars => [\A r \in Rid : Overdue(r) => made' = made]_vars
  BY <1>1
<1> QED
  BY <1>2, PTL DEF Spec, NoAdmissionBeforeBooking, Overdue

-----------------------------------------------------------------------------
(* The totals are sums: an entry changes one term of each, and the totals by   *)
(* as much.                                                                    *)

\* The units of one term.
LEMMA TermUnits ==
  ASSUME NEW x, NEW n \in Nat
  PROVE  IsFiniteSet({x} \X (1 .. n)) /\ Cardinality({x} \X (1 .. n)) = n
<1>1. IsFiniteSet({x}) /\ Cardinality({x}) = 1
  BY FS_Singleton
<1>2. IsFiniteSet(1 .. n) /\ Cardinality(1 .. n) = n
  BY FS_Interval
<1>3. /\ IsFiniteSet({x} \X (1 .. n))
      /\ Cardinality({x} \X (1 .. n)) = Cardinality({x}) * Cardinality(1 .. n)
  BY <1>1, <1>2, FS_Product
<1>4. 1 * n = n
  OBVIOUS
<1> QED
  BY <1>1, <1>2, <1>3, <1>4

\* Finitely many terms have a sum.
LEMMA SumType ==
  ASSUME NEW S, IsFiniteSet(S), NEW f \in [S -> Nat]
  PROVE  IsFiniteSet(Units(f)) /\ SumOf(f) \in Nat
<1> DEFINE g == [x \in S |-> {x} \X (1 .. f[x])]
           P == {{x} \X (1 .. f[x]) : x \in S}
<1>1. g \in Surjection(S, P)
  BY DEF Surjection
<1>2. IsFiniteSet(P)
  BY <1>1, FS_Surjection
<1>3. ASSUME NEW p \in P PROVE IsFiniteSet(p)
  <2>1. PICK x \in S : p = {x} \X (1 .. f[x])
    BY <1>3
  <2> QED
    BY <2>1, TermUnits
<1>4. IsFiniteSet(UNION P)
  BY <1>2, <1>3, FS_UNION
<1> QED
  BY <1>4, FS_CardinalityType DEF Units, SumOf

\* One term changes, and the sum by as much.
LEMMA SumUpdate ==
  ASSUME NEW S, IsFiniteSet(S), NEW f \in [S -> Nat], NEW r \in S, NEW n \in Nat
  PROVE  SumOf([f EXCEPT ![r] = n]) = SumOf(f) - f[r] + n
<1> DEFINE R == S \ {r}
           rest == [x \in R |-> f[x]]
           new == [f EXCEPT ![r] = n]
<1>1. IsFiniteSet(R)
  BY FS_Subset
<1>2. IsFiniteSet(Units(rest)) /\ SumOf(rest) \in Nat
  BY <1>1, SumType
<1>3. ASSUME NEW g \in [S -> Nat], \A x \in R : g[x] = f[x]
      PROVE  SumOf(g) = SumOf(rest) + g[r]
  <2> DEFINE term == {r} \X (1 .. g[r])
  <2>1. Units(g) = Units(rest) \cup term
    BY <1>3 DEF Units
  <2>2. Units(rest) \cap term = {}
    BY DEF Units
  <2>3. IsFiniteSet(term) /\ Cardinality(term) = g[r] /\ g[r] \in Nat
    BY TermUnits
  <2>4. Cardinality(Units(rest) \cap term) = 0
    BY <2>2, FS_EmptySet
  <2> HIDE DEF rest, term
  <2>5. Cardinality(Units(rest) \cup term) = Cardinality(Units(rest)) + Cardinality(term) - 0
    BY <1>2, <2>3, <2>4, FS_Union
  <2> QED
    BY <1>2, <2>1, <2>3, <2>5 DEF SumOf
<1>4. new \in [S -> Nat] /\ new[r] = n /\ \A x \in R : new[x] = f[x]
  OBVIOUS
<1> HIDE DEF rest, new
<1>5. SumOf(new) = SumOf(rest) + n /\ SumOf(f) = SumOf(rest) + f[r] /\ f[r] \in Nat
  BY <1>3, <1>4
<1> QED
  BY <1>2, <1>5 DEF new

\* All terms are 0.
LEMMA SumOfNothing ==
  ASSUME NEW S
  PROVE  SumOf([x \in S |-> 0]) = 0
<1>1. 1 .. 0 = {}
  OBVIOUS
<1>2. Units([x \in S |-> 0]) = {}
  BY <1>1 DEF Units
<1> QED
  BY <1>2, FS_EmptySet DEF SumOf

Booked(l) == {r \in Rid : Books(l, r)}

\* A ledger books finitely many reservations.
LEMMA FinitelyMany == \A l \in Ledger : IsFiniteSet(Booked(l))
<1>1. IsFiniteSet(Task) /\ IsFiniteSet(1 .. MaxRequests)
  BY LedgerAssumption, FS_Interval DEF LedgerAssumption
<1>2. IsFiniteSet(Rid)
  BY <1>1, FS_Product DEF Rid
<1> QED
  BY <1>2, FS_Subset DEF Booked

LEMMA ContributionType ==
  ASSUME IInv, NEW r \in Rid
  PROVE  Contribution(r) \in Amount /\ Excess(r) \in Amount
<1>1. hold[r] \in Amount /\ usage[r] \in Usage
  BY DEF IInv, TypeOK
<1>2. EffectiveCharge(hold[r], usage[r]) \in Amount /\ OverrunOf(hold[r], usage[r]) \in Amount
  BY <1>1, ChargeType
<1> QED
  BY <1>1, <1>2, ZeroAmount DEF Contribution, Excess

\* Only r's terms change.
OneEntry(r, after, over) ==
  /\ Book(r, Contribution(r), after, over)
  /\ Excess(r) = Zero /\ Contribution(r)' = after /\ Excess(r)' = over
  /\ \A q \in Rid \ {r} : UNCHANGED <<status[q], hold[q], usage[q]>>

LEMMA EntryAgrees ==
  ASSUME IInv, IInv', ProjectionsAgree, NEW r \in Rid, NEW after, NEW over,
         OneEntry(r, after, over)
  PROVE  ProjectionsAgree'
<1> SUFFICES ASSUME NEW l \in Ledger, NEW d \in Dim
             PROVE  /\ committed'[l][d] = SumOf([q \in Booked(l) |-> Contribution(q)'[d]])
                    /\ overrun'[l][d] = SumOf([q \in Booked(l) |-> Excess(q)'[d]])
  BY DEF ProjectionsAgree, Booked
<1> DEFINE B == Booked(l)
           f == [q \in B |-> Contribution(q)[d]]
           g == [q \in B |-> Excess(q)[d]]
           F == [q \in B |-> Contribution(q)'[d]]
           G == [q \in B |-> Excess(q)'[d]]
<1>1. committed[l][d] = SumOf(f) /\ overrun[l][d] = SumOf(g)
  BY DEF ProjectionsAgree, Booked
<1>2. \A q \in Rid \ {r} : Contribution(q)' = Contribution(q) /\ Excess(q)' = Excess(q)
  BY DEF OneEntry, Contribution, Excess
<1>3. B \subseteq Rid /\ IsFiniteSet(B)
  BY FinitelyMany DEF Booked
<1>4. \A q \in Rid : Contribution(q) \in Amount /\ Excess(q) \in Amount
  BY ContributionType
<1>5. f \in [B -> Nat] /\ g \in [B -> Nat]
  BY <1>3, <1>4 DEF Amount
<1>6. after[d] \in Nat /\ over[d] \in Nat
  <2>1. hold'[r] \in Amount /\ usage'[r] \in Usage
    BY DEF IInv, TypeOK
  <2>2. EffectiveCharge(hold'[r], usage'[r]) \in Amount /\ OverrunOf(hold'[r], usage'[r]) \in Amount
    BY <2>1, ChargeType
  <2>3. Contribution(r)' \in Amount /\ Excess(r)' \in Amount
    BY <2>1, <2>2, ZeroAmount DEF Contribution, Excess
  <2> QED
    BY <2>3 DEF OneEntry, Amount
<1>7. CASE r \in B
  <2>1. Books(l, r)
    BY <1>7 DEF Booked
  <2>2. F = [f EXCEPT ![r] = after[d]] /\ G = [g EXCEPT ![r] = over[d]]
    BY <1>2, <1>3, <1>7 DEF OneEntry
  <2>3. f[r] = Contribution(r)[d] /\ g[r] = 0 /\ f[r] \in Nat
    BY <1>3, <1>4, <1>7 DEF OneEntry, Zero, Amount
  <2>4. /\ committed'[l][d] = committed[l][d] - Contribution(r)[d] + after[d]
        /\ overrun'[l][d] = overrun[l][d] + over[d]
    BY <2>1 DEF OneEntry, Book
  <2> HIDE DEF B, f, g, F, G
  <2>5. SumOf(F) = SumOf(f) - f[r] + after[d]
    BY <1>3, <1>5, <1>6, <1>7, <2>2, SumUpdate
  <2>6. SumOf(G) = SumOf(g) - g[r] + over[d] /\ SumOf(g) \in Nat
    BY <1>3, <1>5, <1>6, <1>7, <2>2, SumUpdate, SumType
  <2>7. committed'[l][d] = SumOf(F) /\ overrun'[l][d] = SumOf(G)
    BY <1>1, <1>6, <2>3, <2>4, <2>5, <2>6
  <2> QED
    BY <2>7 DEF F, G, B
<1>8. CASE r \notin B
  <2>1. ~Books(l, r)
    BY <1>8 DEF Booked
  <2>2. F = f /\ G = g
    BY <1>2, <1>3, <1>8
  <2>3. committed'[l][d] = committed[l][d] /\ overrun'[l][d] = overrun[l][d]
    BY <2>1 DEF OneEntry, Book
  <2> QED
    BY <1>1, <2>2, <2>3
<1> QED
  BY <1>7, <1>8

LEMMA NoEntryAgrees ==
  ASSUME ProjectionsAgree, UNCHANGED <<status, hold, usage, committed, overrun>>
  PROVE  ProjectionsAgree'
BY DEF ProjectionsAgree, Contribution, Excess

\* A settlement is one entry, or none.
LEMMA CloseAgrees ==
  ASSUME IInv, IInv', ProjectionsAgree, NEW r \in Rid, status[r] = "held",
         NEW u \in Usage, Close(r, u), UNCHANGED hold
  PROVE  ProjectionsAgree'
<1> DEFINE s == Settlement(hold[r], u)
<1>1. CASE ~CanSettle(hold[r], u)
  BY <1>1, NoEntryAgrees DEF Close
<1>2. CASE CanSettle(hold[r], u)
  <2>1. /\ status' = [status EXCEPT ![r] = "settled"]
        /\ usage' = [usage EXCEPT ![r] = s]
        /\ Book(r, hold[r], EffectiveCharge(hold[r], s), OverrunOf(hold[r], s))
    BY <1>2 DEF Close
  <2>2. status'[r] = "settled" /\ usage'[r] = s /\ hold'[r] = hold[r]
    BY <2>1 DEF IInv, TypeOK
  <2>3. \A q \in Rid \ {r} : UNCHANGED <<status[q], hold[q], usage[q]>>
    BY <2>1 DEF IInv, TypeOK
  <2>4. Contribution(r) = hold[r] /\ Excess(r) = Zero
    BY DEF Contribution, Excess
  <2>5. Contribution(r)' = EffectiveCharge(hold[r], s) /\ Excess(r)' = OverrunOf(hold[r], s)
    BY <2>2 DEF Contribution, Excess
  <2>6. OneEntry(r, EffectiveCharge(hold[r], s), OverrunOf(hold[r], s))
    BY <2>1, <2>3, <2>4, <2>5 DEF OneEntry
  <2> QED
    BY <2>6, EntryAgrees
<1> QED
  BY <1>1, <1>2

LEMMA ReleaseAgrees ==
  ASSUME IInv, IInv', ProjectionsAgree, NEW r \in Rid, Release(r)
  PROVE  ProjectionsAgree'
<1>1. /\ status[r] = "held" /\ status' = [status EXCEPT ![r] = "released"]
      /\ Book(r, hold[r], Zero, Zero) /\ UNCHANGED <<hold, usage>>
  BY DEF Release
<1>2. Contribution(r) = hold[r] /\ Excess(r) = Zero
  BY <1>1 DEF Contribution, Excess
<1>3. Contribution(r)' = Zero /\ Excess(r)' = Zero
  BY <1>1 DEF IInv, TypeOK, Contribution, Excess, Zero
<1>4. \A q \in Rid \ {r} : UNCHANGED <<status[q], hold[q], usage[q]>>
  BY <1>1 DEF IInv, TypeOK
<1>5. OneEntry(r, Zero, Zero)
  BY <1>1, <1>2, <1>3, <1>4 DEF OneEntry
<1> QED
  BY <1>5, EntryAgrees

LEMMA ReserveAgrees ==
  ASSUME IInv, IInv', Fresh, ProjectionsAgree, NEW t \in Task, Reserve(t)
  PROVE  ProjectionsAgree'
<1>1. PICK r \in Rid : r = <<t, made[t] + 1>>
  BY LedgerAssumption DEF Reserve, IInv, TypeOK, Rid, LedgerAssumption
<1>2. status[r] = "free"
  BY <1>1, LedgerAssumption DEF Reserve, Fresh, IInv, TypeOK, Rid, LedgerAssumption
<1>3. PICK h : /\ status' = [status EXCEPT ![r] = "held"]
               /\ hold' = [hold EXCEPT ![r] = h]
               /\ Book(r, Zero, h, Zero)
  BY <1>1 DEF Reserve
<1>4. UNCHANGED usage
  BY DEF Reserve
<1>5. Contribution(r) = Zero /\ Excess(r) = Zero
  BY <1>2 DEF Contribution, Excess
<1>6. status'[r] = "held" /\ hold'[r] = h
  BY <1>3 DEF IInv, TypeOK
<1>7. Contribution(r)' = h /\ Excess(r)' = Zero
  BY <1>6 DEF Contribution, Excess, Zero
<1>8. \A q \in Rid \ {r} : UNCHANGED <<status[q], hold[q], usage[q]>>
  BY <1>3, <1>4 DEF IInv, TypeOK
<1>9. OneEntry(r, h, Zero)
  BY <1>3, <1>5, <1>7, <1>8 DEF OneEntry
<1> QED
  BY <1>9, EntryAgrees

\* What is amended was charged no excess: its tokens and its price were unknown.
LEMMA ReconcileAgrees ==
  ASSUME IInv, IInv', ProjectionsAgree, NEW r \in Rid, Reconcile(r)
  PROVE  ProjectionsAgree'
<1>1. PICK u : /\ usage' = [usage EXCEPT ![r] = u]
               /\ Book(r, EffectiveCharge(hold[r], usage[r]), EffectiveCharge(hold[r], u),
                       OverrunOf(hold[r], u))
  BY DEF Reconcile
<1>2. status[r] = "settled" /\ usage[r]["tokens"] = Unknown /\ UNCHANGED <<status, hold>>
  BY DEF Reconcile
<1>3. hold[r] \in Amount /\ Report(usage[r])
  BY DEF IInv, TypeOK, Shape
<1>4. \A d \in Dim : OverrunOf(hold[r], usage[r])[d] = 0
  BY <1>2, <1>3 DEF OverrunOf, EffectiveCharge, Report, Amount
<1>5. Excess(r) = Zero
  <2>1. OverrunOf(hold[r], usage[r]) \in Amount
    BY <1>3, ChargeType DEF IInv, TypeOK
  <2> QED
    BY <1>2, <1>4, <2>1 DEF Excess, Zero, Amount
<1>6. Contribution(r) = EffectiveCharge(hold[r], usage[r])
  BY <1>2 DEF Contribution
<1>7. usage'[r] = u /\ hold'[r] = hold[r] /\ status'[r] = "settled"
  BY <1>1, <1>2 DEF IInv, TypeOK
<1>8. Contribution(r)' = EffectiveCharge(hold[r], u) /\ Excess(r)' = OverrunOf(hold[r], u)
  BY <1>7 DEF Contribution, Excess
<1>9. \A q \in Rid \ {r} : UNCHANGED <<status[q], hold[q], usage[q]>>
  BY <1>1, <1>2 DEF IInv, TypeOK
<1>10. OneEntry(r, EffectiveCharge(hold[r], u), OverrunOf(hold[r], u))
  BY <1>1, <1>5, <1>6, <1>8, <1>9 DEF OneEntry
<1> QED
  BY <1>10, EntryAgrees

\* The last hold of a task is closed, or no entry is made.
LEMMA LastHoldAgrees ==
  ASSUME IInv, IInv', ProjectionsAgree, NEW t \in Task,
         Settle(t) \/ RestoreReplay(t) \/ RestoreDangling(t)
  PROVE  ProjectionsAgree'
<1> DEFINE r == Cur(t)
           u == IF request[r] = "sent" THEN Amounts(Unknown, Unknown) ELSE reply[r]
<1>1. made[t] > 0 /\ r \in Rid /\ UNCHANGED hold
  BY CurRid DEF Settle, RestoreReplay, RestoreDangling, Resumed, IInv, Shape, Busy
<1>2. reply[r] \in Usage /\ u \in Usage
  BY <1>1, AmountsOfEvidence DEF IInv, TypeOK, Shape
<1>3. \/ UNCHANGED <<status, usage, committed, overrun>>
      \/ status[r] = "held" /\ (Close(r, reply[r]) \/ Close(r, u))
  BY DEF Settle, RestoreReplay, Unbooked, Evidence, RestoreDangling, IInv, Shape, Busy
<1> HIDE DEF r, u
<1> QED
  BY <1>1, <1>2, <1>3, CloseAgrees, NoEntryAgrees

LEMMA AgreeInitially == Init => ProjectionsAgree
<1> SUFFICES ASSUME Init, NEW l \in Ledger, NEW d \in Dim
             PROVE  /\ committed[l][d] = SumOf([q \in Booked(l) |-> Contribution(q)[d]])
                    /\ overrun[l][d] = SumOf([q \in Booked(l) |-> Excess(q)[d]])
  BY DEF ProjectionsAgree, Booked
<1>1. committed[l][d] = 0 /\ overrun[l][d] = 0
  BY DEF Init, Zero
<1>2. \A q \in Booked(l) : Contribution(q)[d] = 0 /\ Excess(q)[d] = 0
  BY DEF Init, Booked, Contribution, Excess, Zero
<1>3. /\ [q \in Booked(l) |-> Contribution(q)[d]] = [q \in Booked(l) |-> 0]
      /\ [q \in Booked(l) |-> Excess(q)[d]] = [q \in Booked(l) |-> 0]
  BY <1>2
<1> QED
  BY <1>1, <1>3, SumOfNothing

LEMMA AgreeStep ==
  ASSUME IInv, IInv', Fresh, ProjectionsAgree, [Next]_vars
  PROVE  ProjectionsAgree'
<1>1. CASE UNCHANGED vars
  BY <1>1, NoEntryAgrees DEF vars
<1>2. ASSUME NEW t \in Task, Reserve(t) PROVE ProjectionsAgree'
  BY <1>2, ReserveAgrees
<1>3. ASSUME NEW t \in Task, Settle(t) \/ RestoreReplay(t) \/ RestoreDangling(t)
      PROVE  ProjectionsAgree'
  BY <1>3, LastHoldAgrees
<1>4. ASSUME NEW t \in Task, ReleaseUnsent(t) PROVE ProjectionsAgree'
  <2>1. Cur(t) \in Rid /\ Release(Cur(t))
    BY <1>4, CurRid DEF ReleaseUnsent
  <2> QED
    BY <2>1, ReleaseAgrees
<1>5. ASSUME NEW r \in Rid, OfflineRelease(r) \/ Reconcile(r) PROVE ProjectionsAgree'
  BY <1>5, ReleaseAgrees, ReconcileAgrees DEF OfflineRelease
<1>6. ASSUME \/ ProcessEnds
             \/ \E t \in Task : \/ Send(t) \/ Respond(t) \/ Fail(t) \/ GiveUp(t)
                               \/ Leave(t) \/ RestoreIdle(t) \/ RestoreRefused(t)
      PROVE  ProjectionsAgree'
  BY <1>6, NoEntryAgrees DEF ProcessEnds, Send, Respond, Fail, Outcome, GiveUp,
                             Leave, RestoreIdle, Resumed, RestoreRefused
<1> QED
  BY <1>1, <1>2, <1>3, <1>4, <1>5, <1>6 DEF Next, TaskStep, Progress

\* However tasks, crashes, repairs and late receipts interleave, the totals kept
\* step by step, which admit a request, are those of a full replay.
THEOREM TotalsAreReplayed == Spec => []ProjectionsAgree
<1>1. Spec => [](IInv /\ Fresh)
  BY Invariance
<1>2. IInv /\ Fresh /\ (IInv /\ Fresh)' /\ ProjectionsAgree /\ [Next]_vars => ProjectionsAgree'
  BY AgreeStep
<1> QED
  BY <1>1, <1>2, AgreeInitially, PTL DEF Spec

-----------------------------------------------------------------------------
(* RunLedger implements Escrow: every entry the code makes in the journal is   *)
(* one step of the promise to the payer, and every other step of a task, a     *)
(* crash or a restart is invisible to it.                                      *)

\* What r takes of the limit, by what the journal says of it.
LEMMA ShareValue ==
  ASSUME IInv, NEW r \in Rid
  PROVE  /\ status[r] \in {"free", "released"} => Share(r) = Zero
         /\ status[r] = "held" => Share(r) = hold[r]
         /\ status[r] = "settled" =>
              Share(r) = [d \in Dim |-> EffectiveCharge(hold[r], usage[r])[d]
                                        - OverrunOf(hold[r], usage[r])[d]]
<1>1. hold[r] \in Amount
  BY DEF IInv, TypeOK
<1>2. ASSUME status[r] \in {"free", "released"} PROVE Share(r) = Zero
  BY <1>2 DEF Share, Contribution, Excess, Zero
<1>3. ASSUME status[r] = "held" PROVE Share(r) = hold[r]
  <2>1. \A d \in Dim : hold[r][d] - 0 = hold[r][d]
    BY <1>1 DEF Amount
  <2>2. Share(r) = [d \in Dim |-> hold[r][d] - 0]
    BY <1>3 DEF Share, Contribution, Excess, Zero
  <2> QED
    BY <1>1, <2>1, <2>2 DEF Amount
<1>4. ASSUME status[r] = "settled"
      PROVE  Share(r) = [d \in Dim |-> EffectiveCharge(hold[r], usage[r])[d]
                                        - OverrunOf(hold[r], usage[r])[d]]
  BY <1>4 DEF Share, Contribution, Excess
<1> QED
  BY <1>2, <1>3, <1>4

\* A charge takes at least nothing.
LEMMA ChargeAmount ==
  ASSUME NEW h \in Amount, NEW u \in Usage
  PROVE  [d \in Dim |-> EffectiveCharge(h, u)[d] - OverrunOf(h, u)[d]] \in Amount
<1> SUFFICES ASSUME NEW d \in Dim
             PROVE  EffectiveCharge(h, u)[d] - OverrunOf(h, u)[d] \in Nat
  BY DEF Amount
<1>1. EffectiveCharge(h, u)[d] \in Nat /\ h[d] \in Nat
  BY ChargeType DEF Amount
<1> QED
  BY <1>1 DEF OverrunOf

\* An entry in the ledgers moves the share of one reservation.
LEMMA EntryMoves ==
  ASSUME IInv, IInv', NEW r \in Rid,
         NEW before \in Amount, NEW after \in Amount, NEW over \in Amount,
         Book(r, before, after, over),
         Share(r) = before, \A d \in Dim : Share(r)'[d] = after[d] - over[d],
         \A q \in Rid \ {r} : UNCHANGED <<status[q], hold[q], usage[q]>>
  PROVE  /\ E!SetAside(r, Shares'[r])
         /\ \A q \in Rid \ {r} : Phase(q)' = Phase(q)
         /\ E!AtMost(RootSpent', Limit[Root])
<1>1. \A q \in Rid \ {r} : Phase(q)' = Phase(q)
  BY DEF Phase
<1>2. \A q \in Rid \ {r} : Share(q)' = Share(q)
  BY DEF Share, Contribution, Excess
<1>3. Shares' = [Shares EXCEPT ![r] = Shares'[r]]
  BY <1>2 DEF Shares
<1>4. RootSpent' = [d \in Dim |-> RootSpent[d] - Shares[r][d] + Shares'[r][d]]
  <2>1. Root \in Ledger /\ Books(Root, r)
    BY DEF Ledger, Books
  <2> SUFFICES ASSUME NEW d \in Dim
               PROVE  RootSpent'[d] = RootSpent[d] - Shares[r][d] + Shares'[r][d]
    BY DEF RootSpent
  <2>2. /\ committed'[Root][d] = committed[Root][d] - before[d] + after[d]
        /\ overrun'[Root][d] = overrun[Root][d] + over[d]
    BY <2>1 DEF Book
  <2>3. /\ committed[Root][d] \in Int /\ overrun[Root][d] \in Nat
        /\ before[d] \in Nat /\ after[d] \in Nat /\ over[d] \in Nat
    BY <2>1 DEF IInv, TypeOK, Amount
  <2>4. Shares[r][d] = before[d] /\ Shares'[r][d] = after[d] - over[d]
    BY DEF Shares
  <2> QED
    BY <2>2, <2>3, <2>4 DEF RootSpent
<1>5. E!AtMost(RootSpent', Limit[Root])
  BY DEF IInv, CommittedWithinLimit, E!AtMost, RootSpent, Ledger
<1> QED
  BY <1>1, <1>3, <1>4, <1>5 DEF E!SetAside

\* A step that makes no entry is invisible.
LEMMA NoEntry ==
  ASSUME UNCHANGED <<status, hold, usage, committed, overrun>>
  PROVE  UNCHANGED E!vars
BY DEF E!vars, Phases, Shares, RootSpent, Phase, Share, Contribution, Excess

\* A settlement closes the hold, at no more than the hold.
LEMMA CloseImplements ==
  ASSUME IInv, IInv', NEW r \in Rid, status[r] = "held",
         NEW u \in Usage, Report(u), Close(r, u), UNCHANGED hold
  PROVE  E!Close(r) \/ UNCHANGED E!vars
<1> DEFINE h == hold[r]
           s == Settlement(h, u)
<1>1. CASE ~CanSettle(h, u)
  BY <1>1, NoEntry DEF Close
<1>2. CASE CanSettle(h, u)
  <2>1. h \in Amount /\ h["calls"] = 1
    BY DEF IInv, TypeOK, Shape
  <2>2. s \in Usage /\ Report(s) /\ ~Late(h, s)
    BY <2>1, SettlementReport
  <2>3. /\ status' = [status EXCEPT ![r] = "settled"]
        /\ usage' = [usage EXCEPT ![r] = s]
        /\ Book(r, h, EffectiveCharge(h, s), OverrunOf(h, s))
    BY <1>2 DEF Close
  <2>4. EffectiveCharge(h, s) \in Amount /\ OverrunOf(h, s) \in Amount
    BY <2>1, <2>2, ChargeType
  <2>5. status'[r] = "settled" /\ usage'[r] = s /\ hold'[r] = h
    BY <2>3 DEF IInv, TypeOK
  <2>6. Share(r)' = [d \in Dim |-> EffectiveCharge(h, s)[d] - OverrunOf(h, s)[d]]
    BY <2>5 DEF Share, Contribution, Excess
  <2>7. Share(r) = h
    BY ShareValue
  <2>8. \A q \in Rid \ {r} : UNCHANGED <<status[q], hold[q], usage[q]>>
    BY <2>3 DEF IInv, TypeOK
  <2>9. /\ E!SetAside(r, Shares'[r]) /\ \A q \in Rid \ {r} : Phase(q)' = Phase(q)
    BY <2>1, <2>3, <2>4, <2>6, <2>7, <2>8, EntryMoves
  <2>10. Shares'[r] \in Amount
    BY <2>1, <2>2, <2>6, ChargeAmount DEF Shares
  <2>11. \A d \in Dim : Shares'[r][d] <= Shares[r][d]
    BY <2>1, <2>2, <2>6, <2>7, ChargeShrinks DEF Shares, Shrinks
  <2>12. Phases[r] = "held" /\ Phase(r)' \in {"provisional", "charged"}
    BY <2>5 DEF Phases, Phase
  <2>13. Phases' = [Phases EXCEPT ![r] = Phase(r)']
    BY <2>9 DEF Phases
  <2> QED
    BY <2>9, <2>10, <2>11, <2>12, <2>13 DEF E!Close, E!AtMost, E!Amount, Amount
<1> QED
  BY <1>1, <1>2

LEMMA ReleaseImplements ==
  ASSUME IInv, IInv', NEW r \in Rid, Release(r)
  PROVE  E!Void(r)
<1>1. /\ status[r] = "held" /\ status' = [status EXCEPT ![r] = "released"]
      /\ Book(r, hold[r], Zero, Zero) /\ UNCHANGED <<hold, usage>>
  BY DEF Release
<1>2. hold[r] \in Amount /\ Share(r) = hold[r]
  BY <1>1, ShareValue DEF IInv, TypeOK
<1>3. status'[r] = "released" /\ Share(r)' = Zero
  BY <1>1 DEF IInv, TypeOK, Share, Contribution, Excess, Zero
<1>4. \A q \in Rid \ {r} : UNCHANGED <<status[q], hold[q], usage[q]>>
  BY <1>1 DEF IInv, TypeOK
<1>5. \A d \in Dim : Share(r)'[d] = Zero[d] - Zero[d]
  BY <1>3 DEF Zero
<1>6. /\ E!SetAside(r, Shares'[r]) /\ \A q \in Rid \ {r} : Phase(q)' = Phase(q)
  BY <1>1, <1>2, <1>4, <1>5, ZeroAmount, EntryMoves
<1>7. Phases[r] = "held" /\ Phases' = [Phases EXCEPT ![r] = "void"]
  BY <1>1, <1>3, <1>6 DEF Phases, Phase
<1>8. Shares'[r] = E!Zero
  BY <1>3 DEF Shares, E!Zero, Zero
<1> QED
  BY <1>6, <1>7, <1>8 DEF E!Void

LEMMA ReserveImplements ==
  ASSUME IInv, IInv', NEW t \in Task, Reserve(t),
         NEW r \in Rid, r = <<t, made[t] + 1>>, status[r] = "free"
  PROVE  E!Open(r)
<1>1. PICK est \in Estimate, sec \in 1 .. MaxSeconds :
        LET h == Amounts(est, sec) IN
        /\ status' = [status EXCEPT ![r] = "held"]
        /\ hold' = [hold EXCEPT ![r] = h]
        /\ Book(r, Zero, h, Zero)
  BY DEF Reserve
<1> DEFINE h == Amounts(est, sec)
<1>2. h \in Amount
  BY AmountsOfEstimate, LedgerAssumption DEF LedgerAssumption
<1>3. UNCHANGED usage
  BY DEF Reserve
<1>4. status'[r] = "held" /\ hold'[r] = h
  BY <1>1 DEF IInv, TypeOK
<1>5. Share(r) = Zero
  BY ShareValue
<1>6. Share(r)' = h
  <2>1. \A d \in Dim : h[d] - 0 = h[d]
    BY <1>2 DEF Amount
  <2>2. Share(r)' = [d \in Dim |-> h[d] - 0]
    BY <1>4 DEF Share, Contribution, Excess, Zero
  <2> QED
    BY <1>2, <2>1, <2>2 DEF Amount
<1>7. \A d \in Dim : Share(r)'[d] = h[d] - Zero[d]
  BY <1>2, <1>6 DEF Zero, Amount
<1>8. \A q \in Rid \ {r} : UNCHANGED <<status[q], hold[q], usage[q]>>
  BY <1>1, <1>3 DEF IInv, TypeOK
<1>9. /\ E!SetAside(r, Shares'[r]) /\ \A q \in Rid \ {r} : Phase(q)' = Phase(q)
      /\ E!AtMost(RootSpent', Limit[Root])
  BY <1>1, <1>2, <1>5, <1>7, <1>8, ZeroAmount, EntryMoves
<1>10. Phases[r] = "free" /\ Phases' = [Phases EXCEPT ![r] = "held"]
  BY <1>4, <1>9 DEF Phases, Phase
<1>11. Shares'[r] \in E!Amount
  BY <1>2, <1>6 DEF Shares, E!Amount, Amount
<1> QED
  BY <1>9, <1>10, <1>11 DEF E!Open

\* A late receipt amends a charge that was still the hold.
LEMMA ReconcileImplements ==
  ASSUME IInv, IInv', NEW r \in Rid, Reconcile(r)
  PROVE  E!Amend(r)
<1>1. PICK rec \in Receipt, sec \in {Unknown} \cup (0 .. hold[r]["seconds"]) :
        /\ usage[r]["seconds"] # Unknown => sec = usage[r]["seconds"]
        /\ usage' = [usage EXCEPT ![r] = Amounts(rec, sec)]
        /\ Book(r, EffectiveCharge(hold[r], usage[r]), EffectiveCharge(hold[r], Amounts(rec, sec)),
                OverrunOf(hold[r], Amounts(rec, sec)))
  BY DEF Reconcile, KnownTimeStays
<1> DEFINE h == hold[r]
           old == usage[r]
           u == Amounts(rec, sec)
           before == EffectiveCharge(h, old)
           after == EffectiveCharge(h, u)
           over == OverrunOf(h, u)
<1>2. /\ status[r] = "settled" /\ old["tokens"] = Unknown
      /\ UNCHANGED <<status, hold>>
  BY DEF Reconcile, KnownTimeStays
<1>3. h \in Amount /\ h["calls"] = 1 /\ h["seconds"] \in Nat /\ old \in Usage /\ Report(old)
  BY <1>2, DimFacts DEF IInv, TypeOK, Shape, Amount
<1>4. u \in Usage /\ Report(u)
  BY <1>3, AmountsOfEvidence
<1>5. before \in Amount /\ after \in Amount /\ over \in Amount
  BY <1>3, <1>4, ChargeType
<1>6. usage'[r] = u /\ hold'[r] = h /\ status'[r] = "settled"
  BY <1>1, <1>2 DEF IInv, TypeOK
<1>7. Share(r)' = [d \in Dim |-> after[d] - over[d]]
  BY <1>6 DEF Share, Contribution, Excess
<1>8. Share(r) = before
  <2>1. \A d \in Dim : OverrunOf(h, old)[d] = 0
    BY <1>2, <1>3 DEF OverrunOf, EffectiveCharge, Report, Amount
  <2>2. \A d \in Dim : before[d] - OverrunOf(h, old)[d] = before[d]
    BY <1>5, <2>1 DEF Amount
  <2>3. Share(r) = [d \in Dim |-> before[d] - OverrunOf(h, old)[d]]
    BY <1>2, ShareValue
  <2> HIDE DEF before
  <2> QED
    BY <1>5, <2>2, <2>3 DEF Amount
<1>9. \A q \in Rid \ {r} : UNCHANGED <<status[q], hold[q], usage[q]>>
  BY <1>1, <1>2 DEF IInv, TypeOK
<1>10. /\ E!SetAside(r, Shares'[r]) /\ \A q \in Rid \ {r} : Phase(q)' = Phase(q)
  <2> HIDE DEF before, after, over
  <2>1. \A d \in Dim : Share(r)'[d] = after[d] - over[d]
    BY <1>7
  <2>2. Book(r, before, after, over)
    BY <1>1 DEF before, after, over
  <2> QED
    BY <1>5, <1>8, <1>9, <2>1, <2>2, EntryMoves
<1>11. \A d \in Dim : Shares'[r][d] <= Shares[r][d]
  <2>1. u["calls"] = 1 /\ u["seconds"] = sec
    BY DimFacts DEF Amounts
  <2>2. ~Late(h, u)
    BY <1>3, <2>1 DEF Late
  <2>3. Shrinks(before, after, over)
    <3> HIDE DEF u
    <3> QED
      BY <1>1, <1>2, <1>3, <1>4, <2>1, <2>2, AmendShrinks
  <2> QED
    BY <1>7, <1>8, <2>3 DEF Shares, Shrinks
<1>12. Shares'[r] \in Amount
  BY <1>3, <1>4, <1>7, ChargeAmount DEF Shares
<1>13. Phases[r] = "provisional" /\ Phases' = [Phases EXCEPT ![r] = "charged"]
  <2>1. u["tokens"] # Unknown
    BY LedgerAssumption, DimFacts DEF u, Amounts, LedgerAssumption, Elastic
  <2>2. Phase(r) = "provisional" /\ Phase(r)' = "charged"
    BY <1>2, <1>6, <2>1 DEF Phase
  <2> QED
    BY <1>10, <2>2 DEF Phases
<1> QED
  BY <1>10, <1>11, <1>12, <1>13 DEF E!Amend, E!AtMost, E!Amount, Amount

-----------------------------------------------------------------------------
(* The refinement. *)

\* Settling or restoring a task closes its last hold, or makes no entry.
LEMMA CloseCurImplements ==
  ASSUME IInv, IInv', NEW t \in Task, made[t] > 0, status[Cur(t)] = "held",
         NEW u \in Usage, Report(u), Close(Cur(t), u), UNCHANGED hold
  PROVE  (\E r \in Rid : E!Close(r)) \/ UNCHANGED E!vars
<1>1. PICK r \in Rid : r = Cur(t)
  BY CurRid
<1>2. status[r] = "held" /\ Close(r, u)
  BY <1>1
<1> QED
  BY <1>2, CloseImplements

LEMMA RestoreImplements ==
  ASSUME IInv, IInv', NEW t \in Task, RestoreReplay(t) \/ RestoreDangling(t)
  PROVE  (\E r \in Rid : E!Close(r)) \/ UNCHANGED E!vars
<1> DEFINE r == Cur(t)
           u == IF request[r] = "sent" THEN Amounts(Unknown, Unknown) ELSE reply[r]
<1>1. made[t] > 0 /\ r \in Rid /\ UNCHANGED hold
  BY CurRid DEF RestoreReplay, Unbooked, Evidence, RestoreDangling, Resumed
<1>2. /\ reply[r] \in Usage /\ Report(reply[r])
      /\ u \in Usage /\ Report(u)
  BY <1>1, AmountsOfEvidence DEF IInv, TypeOK, Shape
<1>3. \/ UNCHANGED <<status, usage, committed, overrun>>
      \/ status[r] = "held" /\ (Close(r, reply[r]) \/ Close(r, u))
  BY DEF RestoreReplay, Unbooked, Evidence, RestoreDangling
<1> HIDE DEF u
<1> QED
  BY <1>1, <1>2, <1>3, CloseCurImplements, NoEntry

LEMMA ReserveOpens ==
  ASSUME IInv, IInv', Fresh, NEW t \in Task, Reserve(t)
  PROVE  \E r \in Rid : E!Open(r)
<1>1. PICK r \in Rid : r = <<t, made[t] + 1>>
  BY LedgerAssumption DEF Reserve, IInv, TypeOK, Rid, LedgerAssumption
<1>2. status[r] = "free"
  BY <1>1, LedgerAssumption DEF Reserve, Fresh, IInv, TypeOK, Rid, LedgerAssumption
<1>3. E!Open(r)
  BY <1>1, <1>2, ReserveImplements
<1> QED
  BY <1>3

LEMMA ReleaseVoids ==
  ASSUME IInv, IInv', NEW t \in Task, ReleaseUnsent(t)
  PROVE  \E r \in Rid : E!Void(r)
<1>1. PICK r \in Rid : r = Cur(t)
  BY CurRid DEF ReleaseUnsent
<1>2. Release(r)
  BY <1>1 DEF ReleaseUnsent
<1> QED
  BY <1>2, ReleaseImplements

LEMMA InitImplements == Init => E!Init
<1> SUFFICES ASSUME Init PROVE E!Init
  OBVIOUS
<1>1. Phases = [r \in Rid |-> "free"]
  BY DEF Init, Phases, Phase
<1>2. Shares = [r \in Rid |-> E!Zero]
  BY DEF Init, Shares, Share, Contribution, Excess, E!Zero, Zero
<1>3. RootSpent = E!Zero
  BY DEF Init, RootSpent, E!Zero, Zero, Ledger
<1> QED
  BY <1>1, <1>2, <1>3 DEF E!Init

LEMMA NextImplements ==
  ASSUME IInv, IInv', Fresh, [Next]_vars
  PROVE  [E!Next]_E!vars
<1>1. CASE UNCHANGED vars
  BY <1>1, NoEntry DEF vars
<1>2. ASSUME NEW t \in Task, Reserve(t) PROVE E!Next
  BY <1>2, ReserveOpens DEF E!Next
<1>3. ASSUME NEW t \in Task, Settle(t) PROVE [E!Next]_E!vars
  <2>1. made[t] > 0 /\ status[Cur(t)] = "held" /\ UNCHANGED hold
    BY <1>3 DEF IInv, Shape, Settle, Busy
  <2>2. reply[Cur(t)] \in Usage /\ Report(reply[Cur(t)])
    BY <2>1, CurRid DEF IInv, TypeOK, Shape
  <2>3. Close(Cur(t), reply[Cur(t)])
    BY <1>3 DEF Settle
  <2> QED
    BY <2>1, <2>2, <2>3, CloseCurImplements DEF E!Next
<1>4. ASSUME NEW t \in Task, RestoreReplay(t) \/ RestoreDangling(t) PROVE [E!Next]_E!vars
  BY <1>4, RestoreImplements DEF E!Next
<1>5. ASSUME NEW t \in Task, ReleaseUnsent(t) PROVE E!Next
  BY <1>5, ReleaseVoids DEF E!Next
<1>6. ASSUME NEW r \in Rid, OfflineRelease(r) \/ Reconcile(r) PROVE E!Next
  BY <1>6, ReleaseImplements, ReconcileImplements DEF OfflineRelease, E!Next
<1>7. ASSUME \/ ProcessEnds
             \/ \E t \in Task : \/ Send(t) \/ Respond(t) \/ Fail(t) \/ GiveUp(t)
                               \/ Leave(t) \/ RestoreIdle(t) \/ RestoreRefused(t)
      PROVE  UNCHANGED E!vars
  BY <1>7, NoEntry DEF ProcessEnds, Send, Respond, Fail, Outcome, GiveUp,
                       Leave, RestoreIdle, Resumed, RestoreRefused
<1> QED
  BY <1>1, <1>2, <1>3, <1>4, <1>5, <1>6, <1>7 DEF Next, TaskStep, Progress

\* The journal of a run keeps the promise made to its payer: what is set aside
\* never exceeds the total, a request is closed once, a closed request stays
\* closed, and a late receipt amends a provisional charge once.
THEOREM ImplementsEscrow == Spec => EscrowSpec
<1>1. Spec => [](IInv /\ Fresh)
  BY Invariance
<1>2. IInv /\ Fresh /\ (IInv /\ Fresh)' /\ [Next]_vars => [E!Next]_E!vars
  BY NextImplements
<1> QED
  BY <1>1, <1>2, InitImplements, PTL DEF Spec, EscrowSpec, E!Spec
=============================================================================
