---------------------------- MODULE ReaderBatch ----------------------------
(***************************************************************************)
(* The reading session: the coordinator delegates drawings to readers.     *)
(* The first delegation is extended to every drawing of the case; the      *)
(* batch is filed before any reader starts.  Readers are children of the   *)
(* same run: they wait for a slot, run their own loop over their own       *)
(* journal, deliver by a submission that the journal knows to be accepted, *)
(* and leave a record.  A delegation may be cancelled and the process may  *)
(* be killed anywhere; on a resume the session calls the interrupted       *)
(* delegation again, before the coordinator itself goes on.                *)
(*                                                                         *)
(* A reply of a reader is a truncated answer or a call of the submission   *)
(* tool, which may refuse: so other work is not a case of its own.         *)
(* Everything else that ends a reader (its time, its budget, a service)    *)
(* is GiveUp.  Runs with a money limit, rework of an earlier delivery and  *)
(* imported readers are left out.                                          *)
(*                                                                         *)
(* Source: src/agent/runtime_roles/session.py, artifacts.py,               *)
(* submission.py, reader_delivery.py and src/agent_runtime/loop.py.        *)
(***************************************************************************)
EXTENDS Naturals, Sequences, FiniteSets

CONSTANTS Readers,         \* readers are 1..Readers, in the order of dispatch
          Drawings,        \* the readers of the drawings in the manifest
          Slots,           \* max_concurrent_readers
          MaxTotal,        \* max_total_truncations, of the whole run
          MaxConsecutive,  \* max_consecutive_truncations, of one reader
          Requests,        \* bound: what the coordinator may ask for
          ModelCalls,      \* bound: replies to one reader (limits.model_calls)
          MaxDelegations,  \* bound: calls of delegate_readers
          MaxRestarts      \* bound: how many lives of the process are interrupted

Reader == 1..Readers

ASSUME ReaderBatchAssumption ==
  /\ Requests \subseteq (SUBSET Reader) \ {{}}
  /\ {Readers, MaxTotal, MaxConsecutive, ModelCalls, MaxDelegations, MaxRestarts} \subseteq Nat
  /\ Drawings \subseteq Reader /\ Slots \in Nat \ {0}

VARIABLES
  calls,     \* the delegations: what was asked, the filed batch, its state, the answer
  coord,     \* the coordinator: where it is, and whether it recovers a call
  record,    \* record[t]: reader_record.json
  child,     \* child[t]: the journal of the reader
  disk,      \* disk[t]: its submission and receipt files
  reader,    \* reader[t]: where its coroutine is, and why it ends
  replies,   \* the replies to readers in the order of the root journal
  restarts

vars == <<calls, coord, record, child, disk, reader, replies, restarts>>

NoRecord == [status |-> "none", reason |-> "none"]
NoChild == [phase |-> "empty", submit |-> "none", cancelled |-> FALSE, done |-> FALSE]
Idle == [at |-> "idle", why |-> "none"]

Init ==
  /\ calls = <<>>
  /\ coord = [at |-> "idle", recovers |-> FALSE]
  /\ record = [t \in Reader |-> NoRecord]
  /\ child = [t \in Reader |-> NoChild]
  /\ disk = [t \in Reader |-> [submission |-> FALSE, receipt |-> "none"]]
  /\ reader = [t \in Reader |-> Idle]
  /\ replies = <<>> /\ restarts = 0

Current == Len(calls)
Call == calls[Current]
Coordinator == <<calls, coord, restarts>>

At(t, place) == reader[t].at = place

\* Where no await lies before the next step: nobody else runs, nothing is cancelled.
Synchronous == {"starting", "halting", "delivered", "completing", "ending"}
Free(t) == \A u \in Reader \ {t} : reader[u].at \notin Synchronous
Turn(t, place) == coord.at = "gathering" /\ At(t, place) /\ Free(t)

Go(t, place) == reader' = [reader EXCEPT ![t] = [at |-> place, why |-> "none"]]

-----------------------------------------------------------------------------
(* The coordinator's calls.                                                    *)

\* The coordinator's model asks for readers; the intent is journaled.
Delegate(asked) ==
  /\ coord.at = "idle" /\ Len(calls) < MaxDelegations
  /\ calls' = Append(calls, [asked |-> asked, batch |-> {}, state |-> "open",
                             answer |-> [t \in {} |-> NoRecord]])
  /\ coord' = [coord EXCEPT !.at = "invoked"]
  /\ UNCHANGED <<record, child, disk, reader, replies, restarts>>

\* _with_plan_floors: the first dispatch takes the drawings nobody asked for.
FirstDispatch == \A t \in Reader : record[t] = NoRecord

Expanded(asked) == IF FirstDispatch THEN asked \cup Drawings ELSE asked

\* Wrong on purpose: the batch of an earlier attempt is not looked up.
BatchFromRecords == Expanded(Call.asked)

\* _delegate_batch: a batch that was filed is used again.
FiledOrExpanded == IF Call.batch # {} THEN Call.batch ELSE Expanded(Call.asked)

Expand ==
  /\ coord.at = "invoked"
  /\ LET batch == FiledOrExpanded
     IN /\ calls' = [calls EXCEPT ![Current].batch = batch]
        /\ reader' = [t \in Reader |-> IF t \in batch THEN [at |-> "waiting", why |-> "none"] ELSE Idle]
  /\ coord' = [coord EXCEPT !.at = "gathering"]
  /\ UNCHANGED <<record, child, disk, replies, restarts>>

\* Everybody has returned: the answer is journaled and shown.
Answer ==
  /\ coord.at = "gathering"
  /\ \A t \in Call.batch : At(t, "ended")
  /\ calls' = [calls EXCEPT ![Current].state = "answered",
                            ![Current].answer = [t \in Call.batch |-> record[t]]]
  /\ coord' = [at |-> "idle", recovers |-> FALSE]
  /\ reader' = [t \in Reader |-> Idle]
  /\ UNCHANGED <<record, child, disk, replies, restarts>>

\* The coordinator completes.
Finish ==
  /\ coord.at = "idle"
  /\ coord' = [coord EXCEPT !.at = "finished"]
  /\ UNCHANGED <<calls, record, child, disk, reader, replies, restarts>>

-----------------------------------------------------------------------------
(* A reader before its loop.                                                   *)

Works(t) == ~At(t, "idle") /\ ~At(t, "waiting") /\ ~At(t, "ended")

\* The semaphore is first in, first out.
HasSlot(t) ==
  /\ \A u \in Reader : At(u, "waiting") => t <= u
  /\ Cardinality({u \in Reader : Works(u)}) < Slots

\* Wrong on purpose: only a reader that was killed is run again.
OnlyRunning(t) == record[t].status \in {"none", "running"}

\* Wrong on purpose: a reader that is asked for again is run again.
AskedAgain(t) == TRUE

\* The reasons after which a failed reader is run again.
MayRun(t) ==
  \/ record[t].status \in {"none", "running"}
  \/ record[t].status = "failed" /\ record[t].reason \in {"cancelled", "resume_pending_operation"}

Saves(t, status, reason) == record' = [record EXCEPT ![t] = [status |-> status, reason |-> reason]]

Reuse(t) ==
  /\ Turn(t, "waiting") /\ HasSlot(t) /\ ~MayRun(t)
  /\ Go(t, "ended")
  /\ UNCHANGED <<Coordinator, record, child, disk, replies>>

\* The time of the run is over before the reader has started.
TooLate(t) ==
  /\ Turn(t, "waiting") /\ HasSlot(t) /\ MayRun(t) /\ record[t] = NoRecord
  /\ Saves(t, "failed", "final")
  /\ Go(t, "ended")
  /\ UNCHANGED <<Coordinator, child, disk, replies>>

Enter(t) ==
  /\ Turn(t, "waiting") /\ HasSlot(t) /\ MayRun(t)
  /\ Saves(t, "running", "none")
  /\ Go(t, "setup")
  /\ UNCHANGED <<Coordinator, child, disk, replies>>

\* A ValueError of the setup, which delegate_many turns into a record.
SetupFails(t) ==
  /\ Turn(t, "setup")
  /\ Saves(t, "failed", "final")
  /\ Go(t, "ended")
  /\ UNCHANGED <<Coordinator, child, disk, replies>>

\* The start event, ...
StartChild(t) ==
  /\ Turn(t, "setup") /\ child[t].phase = "empty"
  /\ child' = [child EXCEPT ![t].phase = "started"]
  /\ Go(t, "starting")
  /\ UNCHANGED <<Coordinator, record, disk, replies>>

\* ... and the first checkpoint.
FirstCheckpoint(t) ==
  /\ Turn(t, "starting")
  /\ child' = [child EXCEPT ![t].phase = "saved"]
  /\ Go(t, "loop")
  /\ UNCHANGED <<Coordinator, record, disk, replies>>

RepliesTo(t) == {i \in DOMAIN replies : replies[i].reader = t}
LatestOf(t) == {i \in RepliesTo(t) : \A j \in RepliesTo(t) : j <= i}
LastIs(t, kind, act) == \E i \in LatestOf(t) : replies[i].kind = kind /\ replies[i].act = act

\* _stop for any reason but completion, with its receipt.
StopChild(t, why) ==
  /\ disk' = [disk EXCEPT ![t].receipt = "other"]
  /\ reader' = [reader EXCEPT ![t] = [at |-> "ending", why |-> why]]

\* What _restore finds that ends the reader at once, in its order.
Refusal(t) ==
  LET c == child[t]
  IN CASE c.phase = "started" -> "final"
       [] c.phase # "started" /\ c.done /\ disk[t].receipt = "other" -> "final"
       [] c.submit \in {"invoked", "unknown"} -> "resume_pending_operation"
       [] c.cancelled -> "cancelled"
       [] OTHER -> "none"

\* Where the restored reader goes on.
RestoredAt(t) ==
  CASE LastIs(t, "cut", "none") -> "judging"
    [] LastIs(t, "cut", "stop") -> "halting"
    [] child[t].submit = "pending" -> "submitting"
    [] child[t].submit = "executed" -> "delivered"
    [] OTHER -> "loop"

Restores(t) == Turn(t, "setup") /\ child[t].phase # "empty"

RestoreRefuses(t) ==
  /\ Restores(t) /\ Refusal(t) # "none"
  /\ StopChild(t, Refusal(t))
  /\ child' = [child EXCEPT ![t].submit = IF @ = "invoked" THEN "unknown" ELSE @]
  /\ UNCHANGED <<Coordinator, record, replies>>

\* The receipt of the completion is there.
AlreadyCompleted(t) ==
  /\ Restores(t) /\ child[t].done /\ disk[t].receipt = "completed"
  /\ reader' = [reader EXCEPT ![t] = [at |-> "ending", why |-> "completed"]]
  /\ UNCHANGED <<Coordinator, record, child, disk, replies>>

\* A request without an answer is repeated, unless it has been often enough (GiveUp).
RestoreGoesOn(t) ==
  /\ Restores(t) /\ Refusal(t) = "none" /\ ~(child[t].done /\ disk[t].receipt = "completed")
  /\ Go(t, RestoredAt(t))
  /\ UNCHANGED <<Coordinator, record, child, disk, replies>>

-----------------------------------------------------------------------------
(* The loop of a reader.                                                       *)

Ask(t) ==
  /\ Turn(t, "loop") /\ Cardinality(RepliesTo(t)) < ModelCalls
  /\ Go(t, "away")
  /\ UNCHANGED <<Coordinator, record, child, disk, replies>>

\* Out of calls, time or tokens, or the service has failed for good.
GiveUp(t) ==
  /\ Turn(t, "loop") \/ Turn(t, "away")
  /\ StopChild(t, "final")
  /\ UNCHANGED <<Coordinator, record, child, replies>>

\* The answer is journaled and settled; the loop turns before it is looked at.
Respond(t, kind) ==
  /\ Turn(t, "away")
  /\ replies' = Append(replies, [reader |-> t, kind |-> kind, act |-> "none"])
  /\ child' = [child EXCEPT ![t].submit = IF kind = "submit" THEN "pending" ELSE @]
  /\ Go(t, IF kind = "cut" THEN "judging" ELSE "submitting")
  /\ UNCHANGED <<Coordinator, record, disk>>

\* Wrong on purpose: only the answers in the reader's own journal are counted.
OwnTruncations(i) ==
  Cardinality({j \in 1..i : replies[j].kind = "cut" /\ replies[j].reader = replies[i].reader})

\* The truncated answers of the run up to the i-th answer.
TruncatedUpTo(i) == Cardinality({j \in 1..i : replies[j].kind = "cut"})

ConsecutiveUpTo(i) ==
  LET own == {j \in 1..i : replies[j].reader = replies[i].reader}
  IN Cardinality({j \in own : \A k \in own : k >= j => replies[k].kind = "cut"})

Exceeded(i) == ConsecutiveUpTo(i) > MaxConsecutive \/ TruncatedUpTo(i) > MaxTotal

\* _record_truncation, which time may have overtaken.
Judge(t) ==
  /\ Turn(t, "judging")
  /\ \E i \in LatestOf(t) :
       \/ /\ replies' = [replies EXCEPT ![i].act = "stop"]
          /\ Go(t, "halting")
       \/ /\ ~Exceeded(i)
          /\ replies' = [replies EXCEPT ![i].act = "continue"]
          /\ Go(t, "loop")
  /\ UNCHANGED <<Coordinator, record, child, disk>>

Halt(t) ==
  /\ Turn(t, "halting")
  /\ StopChild(t, "final")
  /\ UNCHANGED <<Coordinator, record, child, replies>>

Invoke(t) ==
  /\ Turn(t, "submitting")
  /\ child' = [child EXCEPT ![t].submit = "invoked"]
  /\ Go(t, "calling")
  /\ UNCHANGED <<Coordinator, record, disk, replies>>

\* The submission file is replaced before the tool returns.
Submit(t) ==
  /\ Turn(t, "calling")
  /\ disk' = [disk EXCEPT ![t].submission = TRUE]
  /\ Go(t, "submitted")
  /\ UNCHANGED <<Coordinator, record, child, replies>>

RefuseSubmission(t) ==
  /\ Turn(t, "calling") /\ ~disk[t].submission
  /\ child' = [child EXCEPT ![t].submit = "none"]
  /\ Go(t, "loop")
  /\ UNCHANGED <<Coordinator, record, disk, replies>>

\* The execution event: the submission counts now.
Execute(t) ==
  /\ Turn(t, "submitted")
  /\ child' = [child EXCEPT ![t].submit = "executed"]
  /\ Go(t, "delivered")
  /\ UNCHANGED <<Coordinator, record, disk, replies>>

\* completed_reader_handoff, the checkpoint and the stop event, ...
Complete(t) ==
  /\ Turn(t, "delivered")
  /\ child' = [child EXCEPT ![t].done = TRUE]
  /\ Go(t, "completing")
  /\ UNCHANGED <<Coordinator, record, disk, replies>>

\* ... and the receipt.
WriteReceipt(t) ==
  /\ Turn(t, "completing")
  /\ disk' = [disk EXCEPT ![t].receipt = "completed"]
  /\ reader' = [reader EXCEPT ![t] = [at |-> "ending", why |-> "completed"]]
  /\ UNCHANGED <<Coordinator, record, child, replies>>

\* Wrong on purpose: a submission on the disk is taken for a delivery.
FileIsThere(t) == disk[t].submission

Accepted(t) == reader[t].why = "completed" /\ disk[t].submission

\* registry.save at the end of run_reader.
Record(t) ==
  /\ coord.at \in {"gathering", "cancelling"} /\ At(t, "ending")
  /\ IF Accepted(t) THEN Saves(t, "completed", "none") ELSE Saves(t, "failed", reader[t].why)
  /\ Go(t, "ended")
  /\ UNCHANGED <<Coordinator, child, disk, replies>>

-----------------------------------------------------------------------------
(* Interruptions.                                                              *)

\* The delegation is cancelled, from outside or by its time limit.
Cancel ==
  /\ coord.at = "gathering" /\ restarts < MaxRestarts
  /\ \A t \in Reader : reader[t].at \notin Synchronous
  /\ coord' = [coord EXCEPT !.at = "cancelling"]
  /\ UNCHANGED <<calls, record, child, disk, reader, replies, restarts>>

\* A reader in its loop turns the cancellation into a stop; one that waits or is
\* being set up leaves no trace.
TakesCancel(t) ==
  /\ coord.at = "cancelling" /\ Free(t)
  /\ \/ /\ reader[t].at \in {"waiting", "setup"}
        /\ Go(t, "ended") /\ UNCHANGED <<child, disk>>
     \/ /\ reader[t].at \in {"loop", "judging", "submitting"}
        /\ StopChild(t, "cancelled") /\ UNCHANGED child
     \/ /\ At(t, "away")
        /\ StopChild(t, "cancelled") /\ child' = [child EXCEPT ![t].cancelled = TRUE]
     \/ /\ reader[t].at \in {"calling", "submitted"}
        /\ StopChild(t, "final") /\ child' = [child EXCEPT ![t].submit = "unknown"]
  /\ UNCHANGED <<Coordinator, record, replies>>

\* The cancelled call has no known outcome; a recovered one stays open.
Cancelled ==
  /\ coord.at = "cancelling"
  /\ \A t \in Reader : reader[t].at \in {"idle", "ended"}
  /\ calls' = [calls EXCEPT ![Current].state = IF coord.recovers THEN @ ELSE "unknown"]
  /\ coord' = [at |-> "stopped", recovers |-> FALSE]
  /\ reader' = [t \in Reader |-> Idle]
  /\ UNCHANGED <<record, child, disk, replies, restarts>>

Kill ==
  /\ coord.at \notin {"stopped", "down", "finished"} /\ restarts < MaxRestarts
  /\ coord' = [at |-> "down", recovers |-> FALSE]
  /\ reader' = [t \in Reader |-> Idle]
  /\ UNCHANGED <<calls, record, child, disk, replies, restarts>>

Interrupted == IF calls = <<>> \/ Call.state = "answered" THEN "none" ELSE Call.state

\* recover_pending calls an interrupted delegation again.  One whose outcome is
\* unknown is a new attempt, of which the default limit allows one; a second one
\* is never needed, since a recovered call that is cancelled stays open.
Restart ==
  /\ coord.at \in {"stopped", "down"}
  /\ restarts' = restarts + 1
  /\ \/ /\ Interrupted = "none"
        /\ coord' = [at |-> "idle", recovers |-> FALSE] /\ UNCHANGED calls
     \/ /\ Interrupted \in {"open", "unknown"}
        /\ coord' = [at |-> "invoked", recovers |-> TRUE]
        /\ calls' = [calls EXCEPT ![Current].state = "open"]
  /\ UNCHANGED <<record, child, disk, reader, replies>>

-----------------------------------------------------------------------------
ReaderStep(t) ==
  \/ Reuse(t) \/ TooLate(t) \/ Enter(t) \/ SetupFails(t) \/ StartChild(t) \/ FirstCheckpoint(t)
  \/ RestoreRefuses(t) \/ AlreadyCompleted(t) \/ RestoreGoesOn(t)
  \/ Ask(t) \/ GiveUp(t) \/ (\E kind \in {"cut", "submit"} : Respond(t, kind))
  \/ Judge(t) \/ Halt(t) \/ Invoke(t) \/ Submit(t) \/ RefuseSubmission(t) \/ Execute(t)
  \/ Complete(t) \/ WriteReceipt(t) \/ Record(t) \/ TakesCancel(t)

CoordinatorStep == Expand \/ Answer \/ Cancelled

Next ==
  \/ \E t \in Reader : ReaderStep(t)
  \/ CoordinatorStep \/ Finish \/ Cancel \/ Kill \/ Restart
  \/ \E asked \in Requests : Delegate(asked)

Spec == Init /\ [][Next]_vars

-----------------------------------------------------------------------------
Reason == {"none", "final", "cancelled", "resume_pending_operation", "completed"}
RecordOf == [status : {"none", "running", "completed", "failed"}, reason : Reason]
CallOf == [asked : SUBSET Reader, batch : SUBSET Reader, state : {"open", "unknown", "answered"},
           answer : UNION {[S -> RecordOf] : S \in SUBSET Reader}]
ChildOf == [phase : {"empty", "started", "saved"}, cancelled : BOOLEAN, done : BOOLEAN,
            submit : {"none", "pending", "invoked", "unknown", "executed"}]
ReaderOf == [at : {"idle", "waiting", "setup", "loop", "away", "judging", "submitting", "calling",
                   "submitted", "ended"} \cup Synchronous, why : Reason]
ReplyOf == [reader : Reader, kind : {"cut", "submit"}, act : {"none", "continue", "stop"}]

\* The variables have their types (session.py 961-1184, artifacts.py 66-127).
TypeOK ==
  /\ calls \in Seq(CallOf) /\ Len(calls) <= MaxDelegations /\ restarts \in Nat
  /\ coord \in [at : {"idle", "invoked", "gathering", "cancelling", "stopped", "down", "finished"},
                recovers : BOOLEAN]
  /\ record \in [Reader -> RecordOf]
  /\ child \in [Reader -> ChildOf]
  /\ disk \in [Reader -> [submission : BOOLEAN, receipt : {"none", "other", "completed"}]]
  /\ reader \in [Reader -> ReaderOf]
  /\ replies \in Seq(ReplyOf)

\* An answered delegation accounts for everybody: the first one for every drawing
\* of the case, also when the process was killed while half of its readers had
\* left records, from which a restart would infer that it is not the first
\* (session.py 961-995, 1012-1017).
AnswerIsComplete ==
  \A k \in DOMAIN calls : calls[k].state = "answered" =>
    /\ calls[k].asked \subseteq DOMAIN calls[k].answer
    /\ k = 1 => Drawings \subseteq DOMAIN calls[k].answer
    /\ \A t \in DOMAIN calls[k].answer : calls[k].answer[t].status \in {"completed", "failed"}

\* A cancellation is not reported as the result of a reader, who is run again with
\* the recovered delegation, unless a request was cancelled while it was away,
\* which the restore of the reader does not repeat (session.py 1029-1034, loop.py 1804-1808).
CancelledIsNoResult ==
  \A k \in DOMAIN calls : calls[k].state = "answered" =>
    \A t \in DOMAIN calls[k].answer :
      calls[k].answer[t].reason = "cancelled" => child[t].cancelled

\* A delivery is one the journal knows to be submitted: what a killed or cancelled
\* submission left on the disk never becomes one (session.py 1177-1184).
DeliveredIsCommitted ==
  \A t \in Reader : record[t].status = "completed" =>
    child[t].submit = "executed" /\ child[t].done /\ disk[t].submission

\* No crash, recovery or later delegation spends work on a reader that has
\* delivered, or changes what it delivered (session.py 1024-1034, artifacts.py 85-90).
DeliveryIsFinal ==
  [][\A t \in Reader : record[t].status = "completed" =>
       record'[t] = record[t] /\ child'[t] = child[t] /\ disk'[t] = disk[t]]_vars

\* The run continues after no more truncated answers than its limit, although
\* answers are judged out of order and after restarts; and a reader that was
\* stopped for one is not asked again (loop.py 1000-1072).
TruncationsBounded ==
  /\ Cardinality({i \in DOMAIN replies : replies[i].act = "continue"}) <= MaxTotal
  /\ \A i, j \in DOMAIN replies :
       replies[i].act = "stop" /\ replies[j].reader = replies[i].reader => j <= i
=============================================================================
