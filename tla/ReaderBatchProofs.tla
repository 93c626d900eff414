------------------------- MODULE ReaderBatchProofs -------------------------
(***************************************************************************)
(* What ReaderBatch promises, for any number of readers, replies,          *)
(* delegations and restarts.  The inductive invariant has three parts:     *)
(* what the journal, the disk and the record of a reader know of its       *)
(* submission at each place of its coroutine; what the records say of a    *)
(* delegation that is being carried out; and which replies of the run a    *)
(* reader has gone on after.                                               *)
(***************************************************************************)
EXTENDS ReaderBatch, FiniteSetTheorems, TLAPS

\* The places of a reader in its loop, where nothing was submitted, ...
Working == {"starting", "loop", "away", "judging", "halting"}
\* ... and those with a submission on its way.
Submitting == {"submitting", "calling", "submitted", "delivered", "completing"}

SubmissionOf(t) ==
  /\ reader[t].at \in Working \cup Submitting => child[t].phase # "empty"
  /\ reader[t].at \in Working \/ child[t].phase = "empty" => child[t].submit = "none"
  /\ reader[t].at = "submitting" => child[t].submit = "pending"
  /\ reader[t].at \in {"calling", "submitted"} => child[t].submit = "invoked"
  /\ reader[t].at = "submitted" => disk[t].submission
  /\ reader[t].at \in {"delivered", "completing"} \/ child[t].done => child[t].submit = "executed"
  /\ child[t].submit = "executed" => disk[t].submission

DeliveryOf(t) ==
  /\ reader[t].at = "completing" \/ reader[t].why = "completed" => child[t].done
  /\ record[t].status = "completed" =>
       reader[t].at \in {"idle", "waiting", "ended"} /\ child[t].done /\ record[t].reason = "none"

\* The last reply to a reader that has submitted is its submission.
LastSubmits(t) ==
  child[t].submit # "none" => \E i \in LatestOf(t) : replies[i].kind = "submit"

Submissions == \A t \in Reader : SubmissionOf(t) /\ DeliveryOf(t) /\ LastSubmits(t)

\* What was filed for a delegation, and when it was the first.
Filed ==
  /\ \A k \in DOMAIN calls :
       /\ calls[k].asked # {}
       /\ calls[k].batch # {} => /\ calls[k].asked \subseteq calls[k].batch
                                 /\ k = 1 => Drawings \subseteq calls[k].batch
  /\ calls = <<>> \/ (Len(calls) = 1 /\ Call.batch = {}) => FirstDispatch
  /\ coord.at \in {"invoked", "gathering", "cancelling"} => calls # <<>> /\ Call.state = "open"
  /\ coord.at \in {"gathering", "cancelling"} => Call.batch # {}

\* What is known of a reader that the delegation need not wait for.
Returned ==
  coord.at = "gathering" => \A t \in Reader :
    /\ At(t, "ended") => record[t].status \in {"completed", "failed"}
    /\ At(t, "ended") /\ record[t].reason = "cancelled" => child[t].cancelled
    /\ At(t, "ending") /\ reader[t].why = "cancelled" => child[t].cancelled

Continued == {i \in DOMAIN replies : replies[i].act = "continue"}

\* A reader goes on only after replies that were judged, and none of them a stop.
RepliesOf(t) ==
  /\ child[t].phase = "empty" => RepliesTo(t) = {}
  /\ At(t, "judging") => LastIs(t, "cut", "none")
  /\ reader[t].at \in (Working \ {"halting"}) \cup Submitting =>
       \A i \in RepliesTo(t) : replies[i].act # "stop"

StopsAreLast ==
  \A i, j \in DOMAIN replies :
    replies[i].act = "stop" /\ replies[j].reader = replies[i].reader => j <= i

Truncations ==
  /\ \A t \in Reader : RepliesOf(t)
  /\ \A i \in DOMAIN replies : replies[i].act # "none" => replies[i].kind = "cut"
  /\ \A i \in Continued : TruncatedUpTo(i) <= MaxTotal
  /\ Continued # {} => \E m \in Continued : \A i \in Continued : i <= m
  /\ StopsAreLast

IInv ==
  /\ TypeOK /\ Submissions
  /\ Filed /\ Returned /\ AnswerIsComplete /\ CancelledIsNoResult
  /\ Truncations

\* The initial states satisfy the invariant.
THEOREM InitIInv == Init => IInv
<1> SUFFICES ASSUME Init PROVE IInv
  OBVIOUS
<1> USE ReaderBatchAssumption DEF Init, NoRecord, NoChild, Idle
<1>1. TypeOK
  BY DEF TypeOK, RecordOf, CallOf, ChildOf, ReaderOf, ReplyOf, Reason, Synchronous
<1>2. Submissions
  BY DEF Submissions, SubmissionOf, DeliveryOf, LastSubmits, Working, Submitting
<1>3. Filed /\ Returned /\ AnswerIsComplete /\ CancelledIsNoResult
  BY DEF Filed, Returned, AnswerIsComplete, CancelledIsNoResult, FirstDispatch
<1>4. Truncations
  BY DEF Truncations, RepliesOf, RepliesTo, Continued, StopsAreLast, At, Working, Submitting
<1> QED BY <1>1, <1>2, <1>3, <1>4 DEF IInv

-----------------------------------------------------------------------------
(* What a step leaves alone.                                                   *)

\* There is one latest reply to a reader.
LEMMA LatestIsOne ==
  ASSUME TypeOK, NEW t, NEW i \in LatestOf(t), NEW j \in LatestOf(t)
  PROVE  i = j
BY DEF TypeOK, LatestOf, RepliesTo

\* A step that adds no reply and judges none leaves what is said of them.
LEMMA SameReplies ==
  ASSUME UNCHANGED replies
  PROVE  /\ \A t : RepliesTo(t)' = RepliesTo(t) /\ LatestOf(t)' = LatestOf(t)
         /\ \A t, kind, act : LastIs(t, kind, act)' <=> LastIs(t, kind, act)
BY DEF RepliesTo, LatestOf, LastIs

\* Such a step keeps the truncations when the reader that moves goes on rightly.
LEMMA SameTruncations ==
  ASSUME TypeOK, Truncations, UNCHANGED replies, \A u \in Reader : RepliesOf(u)'
  PROVE  Truncations'
BY DEF Truncations, Continued, TruncatedUpTo, StopsAreLast

\* A reader's step leaves the delegations.
LEMMA SameDelegations ==
  ASSUME IInv, UNCHANGED Coordinator, coord.at \in {"gathering", "cancelling"},
         \A t \in Reader : child[t].cancelled => child'[t].cancelled
  PROVE  Filed' /\ AnswerIsComplete' /\ CancelledIsNoResult'
<1> USE DEF IInv, Coordinator
<1>1. Filed'
  BY DEF Filed, Call, Current, TypeOK
<1>2. AnswerIsComplete'
  BY DEF AnswerIsComplete
<1>3. CancelledIsNoResult'
  <2>1. \A k \in DOMAIN calls : DOMAIN calls[k].answer \subseteq Reader
    <3> SUFFICES ASSUME NEW k \in DOMAIN calls PROVE DOMAIN calls[k].answer \subseteq Reader
      OBVIOUS
    <3>1. calls[k] \in CallOf
      BY DEF TypeOK
    <3>2. PICK S \in SUBSET Reader : calls[k].answer \in [S -> RecordOf]
      BY <3>1 DEF CallOf
    <3> QED BY <3>2
  <2> QED BY <2>1 DEF CancelledIsNoResult
<1> QED BY <1>1, <1>2, <1>3

\* A reader's step keeps the invariant when it keeps what is said of that reader.
LEMMA ReaderMoves ==
  ASSUME NEW t \in Reader, IInv,
         child' \in [Reader -> ChildOf], reader' \in [Reader -> ReaderOf], record' \in [Reader -> RecordOf],
         disk' \in [Reader -> [submission : BOOLEAN, receipt : {"none", "other", "completed"}]],
         UNCHANGED <<Coordinator, replies>>, coord.at \in {"gathering", "cancelling"},
         \A u \in Reader \ {t} : UNCHANGED <<reader[u], child[u], record[u], disk[u]>>,
         child[t].cancelled => child'[t].cancelled,
         Returned', SubmissionOf(t)', DeliveryOf(t)', LastSubmits(t)', RepliesOf(t)'
  PROVE  IInv'
<1> USE DEF IInv
<1>1. TypeOK'
  BY DEF TypeOK, Coordinator
<1>2. Filed' /\ AnswerIsComplete' /\ CancelledIsNoResult'
  BY SameDelegations
<1>3. Submissions'
  <2>1. ASSUME NEW u \in Reader \ {t} PROVE (SubmissionOf(u) /\ DeliveryOf(u) /\ LastSubmits(u))'
    BY SameReplies DEF Submissions, SubmissionOf, DeliveryOf, LastSubmits
  <2> QED BY <2>1 DEF Submissions
<1>4. Truncations'
  <2>1. ASSUME NEW u \in Reader \ {t} PROVE RepliesOf(u)'
    BY SameReplies DEF Truncations, RepliesOf, At
  <2>2. \A u \in Reader : RepliesOf(u)'
    BY <2>1
  <2> QED BY <2>2, SameTruncations
<1> QED BY <1>1, <1>2, <1>3, <1>4

\* Why a restore ends a reader.
LEMMA RefusalIs ==
  ASSUME NEW t \in Reader, TypeOK
  PROVE  /\ Refusal(t) \in {"none", "final", "resume_pending_operation", "cancelled"}
         /\ Refusal(t) = "cancelled" => child[t].cancelled
         /\ Refusal(t) = "none" => child[t].submit \in {"none", "pending", "executed"}
BY DEF Refusal, TypeOK, ChildOf

\* Where a restored reader goes on, given what its journal and its replies say.
LEMMA RestoredAtIs ==
  ASSUME NEW t \in Reader, TypeOK, LastSubmits(t), Refusal(t) = "none"
  PROVE  /\ RestoredAt(t) \in {"judging", "halting", "submitting", "delivered", "loop"}
         /\ RestoredAt(t) = "judging" => LastIs(t, "cut", "none")
         /\ RestoredAt(t) \in {"judging", "halting", "loop"} => child[t].submit = "none"
         /\ RestoredAt(t) = "submitting" => child[t].submit = "pending"
         /\ RestoredAt(t) = "delivered" => child[t].submit = "executed"
         /\ RestoredAt(t) # "halting" => ~LastIs(t, "cut", "stop")
<1>1. LastIs(t, "cut", "none") \/ LastIs(t, "cut", "stop") => child[t].submit = "none"
  BY LatestIsOne DEF LastIs, LastSubmits
<1>2. ~(LastIs(t, "cut", "none") /\ LastIs(t, "cut", "stop"))
  BY LatestIsOne DEF LastIs
<1> QED BY <1>1, <1>2, RefusalIs DEF RestoredAt

-----------------------------------------------------------------------------
(* One lemma for each step of a reader.                                        *)

\* A reader that need not run again.
LEMMA ReuseIInv ==
  ASSUME NEW t \in Reader, IInv, Reuse(t)
  PROVE  IInv'
<1> USE DEF Reuse, Go
<1>a. TypeOK /\ SubmissionOf(t) /\ DeliveryOf(t) /\ LastSubmits(t) /\ RepliesOf(t)
  BY DEF IInv, Submissions, Truncations
<1>r. record[t].status \in {"completed", "failed"} /\ record[t].reason # "cancelled"
  <2>1. record[t] \in RecordOf
    BY <1>a DEF TypeOK
  <2> QED BY <1>a, <2>1 DEF MayRun, RecordOf, DeliveryOf
<1>1. child' \in [Reader -> ChildOf] /\ (child[t].cancelled => child'[t].cancelled)
  BY <1>a DEF TypeOK, ChildOf
<1>2. reader' \in [Reader -> ReaderOf]
  BY <1>a DEF TypeOK, ReaderOf, Reason, Synchronous
<1>3. record' \in [Reader -> RecordOf]
  BY <1>a DEF TypeOK, RecordOf, ReaderOf, Reason
<1>4. disk' \in [Reader -> [submission : BOOLEAN, receipt : {"none", "other", "completed"}]]
  BY <1>a DEF TypeOK
<1>5. /\ UNCHANGED <<Coordinator, replies>> /\ coord.at \in {"gathering", "cancelling"}
      /\ \A u \in Reader \ {t} : UNCHANGED <<reader[u], child[u], record[u], disk[u]>>
  BY <1>a DEF Turn, TypeOK
<1>6. Returned'
  BY <1>a, <1>r DEF IInv, Coordinator, Returned, At, Turn, TypeOK
<1>7. SubmissionOf(t)'
  BY <1>a DEF SubmissionOf, Working, Submitting, At, Turn, TypeOK
<1>8. DeliveryOf(t)'
  BY <1>a DEF SubmissionOf, DeliveryOf, Working, Submitting, At, Turn, TypeOK, RecordOf
<1>9. LastSubmits(t)'
  BY <1>a, SameReplies DEF SubmissionOf, LastSubmits, Working, Submitting, At, Turn, TypeOK
<1>10. RepliesOf(t)'
  BY <1>a, SameReplies DEF RepliesOf, SubmissionOf, Working, Submitting, At, Turn, TypeOK
<1> QED BY <1>1, <1>2, <1>3, <1>4, <1>5, <1>6, <1>7, <1>8, <1>9, <1>10, ReaderMoves

\* A reader that would start too late.
LEMMA TooLateIInv ==
  ASSUME NEW t \in Reader, IInv, TooLate(t)
  PROVE  IInv'
<1> USE DEF TooLate, Saves, Go, NoRecord
<1>a. TypeOK /\ SubmissionOf(t) /\ DeliveryOf(t) /\ LastSubmits(t) /\ RepliesOf(t)
  BY DEF IInv, Submissions, Truncations
<1>1. child' \in [Reader -> ChildOf] /\ (child[t].cancelled => child'[t].cancelled)
  BY <1>a DEF TypeOK, ChildOf
<1>2. reader' \in [Reader -> ReaderOf]
  BY <1>a DEF TypeOK, ReaderOf, Reason, Synchronous
<1>3. record' \in [Reader -> RecordOf]
  BY <1>a DEF TypeOK, RecordOf, ReaderOf, Reason
<1>4. disk' \in [Reader -> [submission : BOOLEAN, receipt : {"none", "other", "completed"}]]
  BY <1>a DEF TypeOK
<1>5. /\ UNCHANGED <<Coordinator, replies>> /\ coord.at \in {"gathering", "cancelling"}
      /\ \A u \in Reader \ {t} : UNCHANGED <<reader[u], child[u], record[u], disk[u]>>
  BY <1>a DEF Turn, TypeOK
<1>6. Returned'
  BY <1>a DEF IInv, Coordinator, Returned, At, Turn, TypeOK
<1>7. SubmissionOf(t)'
  BY <1>a DEF SubmissionOf, Working, Submitting, At, Turn, TypeOK
<1>8. DeliveryOf(t)'
  BY <1>a DEF SubmissionOf, DeliveryOf, Working, Submitting, At, Turn, TypeOK, RecordOf
<1>9. LastSubmits(t)'
  BY <1>a, SameReplies DEF SubmissionOf, LastSubmits, Working, Submitting, At, Turn, TypeOK
<1>10. RepliesOf(t)'
  BY <1>a, SameReplies DEF RepliesOf, SubmissionOf, Working, Submitting, At, Turn, TypeOK
<1> QED BY <1>1, <1>2, <1>3, <1>4, <1>5, <1>6, <1>7, <1>8, <1>9, <1>10, ReaderMoves

\* A reader that is set up.
LEMMA EnterIInv ==
  ASSUME NEW t \in Reader, IInv, Enter(t)
  PROVE  IInv'
<1> USE DEF Enter, Saves, Go
<1>a. TypeOK /\ SubmissionOf(t) /\ DeliveryOf(t) /\ LastSubmits(t) /\ RepliesOf(t)
  BY DEF IInv, Submissions, Truncations
<1>1. child' \in [Reader -> ChildOf] /\ (child[t].cancelled => child'[t].cancelled)
  BY <1>a DEF TypeOK, ChildOf
<1>2. reader' \in [Reader -> ReaderOf]
  BY <1>a DEF TypeOK, ReaderOf, Reason, Synchronous
<1>3. record' \in [Reader -> RecordOf]
  BY <1>a DEF TypeOK, RecordOf, ReaderOf, Reason
<1>4. disk' \in [Reader -> [submission : BOOLEAN, receipt : {"none", "other", "completed"}]]
  BY <1>a DEF TypeOK
<1>5. /\ UNCHANGED <<Coordinator, replies>> /\ coord.at \in {"gathering", "cancelling"}
      /\ \A u \in Reader \ {t} : UNCHANGED <<reader[u], child[u], record[u], disk[u]>>
  BY <1>a DEF Turn, TypeOK
<1>6. Returned'
  BY <1>a DEF IInv, Coordinator, Returned, At, Turn, TypeOK
<1>7. SubmissionOf(t)'
  BY <1>a DEF SubmissionOf, Working, Submitting, At, Turn, TypeOK
<1>8. DeliveryOf(t)'
  BY <1>a DEF SubmissionOf, DeliveryOf, Working, Submitting, At, Turn, TypeOK, RecordOf
<1>9. LastSubmits(t)'
  BY <1>a, SameReplies DEF SubmissionOf, LastSubmits, Working, Submitting, At, Turn, TypeOK
<1>10. RepliesOf(t)'
  BY <1>a, SameReplies DEF RepliesOf, SubmissionOf, Working, Submitting, At, Turn, TypeOK
<1> QED BY <1>1, <1>2, <1>3, <1>4, <1>5, <1>6, <1>7, <1>8, <1>9, <1>10, ReaderMoves

\* A reader whose setup fails.
LEMMA SetupFailsIInv ==
  ASSUME NEW t \in Reader, IInv, SetupFails(t)
  PROVE  IInv'
<1> USE DEF SetupFails, Saves, Go
<1>a. TypeOK /\ SubmissionOf(t) /\ DeliveryOf(t) /\ LastSubmits(t) /\ RepliesOf(t)
  BY DEF IInv, Submissions, Truncations
<1>1. child' \in [Reader -> ChildOf] /\ (child[t].cancelled => child'[t].cancelled)
  BY <1>a DEF TypeOK, ChildOf
<1>2. reader' \in [Reader -> ReaderOf]
  BY <1>a DEF TypeOK, ReaderOf, Reason, Synchronous
<1>3. record' \in [Reader -> RecordOf]
  BY <1>a DEF TypeOK, RecordOf, ReaderOf, Reason
<1>4. disk' \in [Reader -> [submission : BOOLEAN, receipt : {"none", "other", "completed"}]]
  BY <1>a DEF TypeOK
<1>5. /\ UNCHANGED <<Coordinator, replies>> /\ coord.at \in {"gathering", "cancelling"}
      /\ \A u \in Reader \ {t} : UNCHANGED <<reader[u], child[u], record[u], disk[u]>>
  BY <1>a DEF Turn, TypeOK
<1>6. Returned'
  BY <1>a DEF IInv, Coordinator, Returned, At, Turn, TypeOK
<1>7. SubmissionOf(t)'
  BY <1>a DEF SubmissionOf, Working, Submitting, At, Turn, TypeOK
<1>8. DeliveryOf(t)'
  BY <1>a DEF SubmissionOf, DeliveryOf, Working, Submitting, At, Turn, TypeOK, RecordOf
<1>9. LastSubmits(t)'
  BY <1>a, SameReplies DEF SubmissionOf, LastSubmits, Working, Submitting, At, Turn, TypeOK
<1>10. RepliesOf(t)'
  BY <1>a, SameReplies DEF RepliesOf, SubmissionOf, Working, Submitting, At, Turn, TypeOK
<1> QED BY <1>1, <1>2, <1>3, <1>4, <1>5, <1>6, <1>7, <1>8, <1>9, <1>10, ReaderMoves

\* The start of a journal.
LEMMA StartChildIInv ==
  ASSUME NEW t \in Reader, IInv, StartChild(t)
  PROVE  IInv'
<1> USE DEF StartChild, Go
<1>a. TypeOK /\ SubmissionOf(t) /\ DeliveryOf(t) /\ LastSubmits(t) /\ RepliesOf(t)
  BY DEF IInv, Submissions, Truncations
<1>1. child' \in [Reader -> ChildOf] /\ (child[t].cancelled => child'[t].cancelled)
  BY <1>a DEF TypeOK, ChildOf
<1>2. reader' \in [Reader -> ReaderOf]
  BY <1>a DEF TypeOK, ReaderOf, Reason, Synchronous
<1>3. record' \in [Reader -> RecordOf]
  BY <1>a DEF TypeOK, RecordOf, ReaderOf, Reason
<1>4. disk' \in [Reader -> [submission : BOOLEAN, receipt : {"none", "other", "completed"}]]
  BY <1>a DEF TypeOK
<1>5. /\ UNCHANGED <<Coordinator, replies>> /\ coord.at \in {"gathering", "cancelling"}
      /\ \A u \in Reader \ {t} : UNCHANGED <<reader[u], child[u], record[u], disk[u]>>
  BY <1>a DEF Turn, TypeOK
<1>6. Returned'
  BY <1>a DEF IInv, Coordinator, Returned, At, Turn, TypeOK
<1>7. SubmissionOf(t)'
  BY <1>a DEF SubmissionOf, Working, Submitting, At, Turn, TypeOK
<1>8. DeliveryOf(t)'
  BY <1>a DEF SubmissionOf, DeliveryOf, Working, Submitting, At, Turn, TypeOK, RecordOf
<1>9. LastSubmits(t)'
  BY <1>a, SameReplies DEF SubmissionOf, LastSubmits, Working, Submitting, At, Turn, TypeOK
<1>10. RepliesOf(t)'
  BY <1>a, SameReplies DEF RepliesOf, SubmissionOf, Working, Submitting, At, Turn, TypeOK
<1> QED BY <1>1, <1>2, <1>3, <1>4, <1>5, <1>6, <1>7, <1>8, <1>9, <1>10, ReaderMoves

\* The first checkpoint.
LEMMA FirstCheckpointIInv ==
  ASSUME NEW t \in Reader, IInv, FirstCheckpoint(t)
  PROVE  IInv'
<1> USE DEF FirstCheckpoint, Go
<1>a. TypeOK /\ SubmissionOf(t) /\ DeliveryOf(t) /\ LastSubmits(t) /\ RepliesOf(t)
  BY DEF IInv, Submissions, Truncations
<1>1. child' \in [Reader -> ChildOf] /\ (child[t].cancelled => child'[t].cancelled)
  BY <1>a DEF TypeOK, ChildOf
<1>2. reader' \in [Reader -> ReaderOf]
  BY <1>a DEF TypeOK, ReaderOf, Reason, Synchronous
<1>3. record' \in [Reader -> RecordOf]
  BY <1>a DEF TypeOK, RecordOf, ReaderOf, Reason
<1>4. disk' \in [Reader -> [submission : BOOLEAN, receipt : {"none", "other", "completed"}]]
  BY <1>a DEF TypeOK
<1>5. /\ UNCHANGED <<Coordinator, replies>> /\ coord.at \in {"gathering", "cancelling"}
      /\ \A u \in Reader \ {t} : UNCHANGED <<reader[u], child[u], record[u], disk[u]>>
  BY <1>a DEF Turn, TypeOK
<1>6. Returned'
  BY <1>a DEF IInv, Coordinator, Returned, At, Turn, TypeOK
<1>7. SubmissionOf(t)'
  BY <1>a DEF SubmissionOf, Working, Submitting, At, Turn, TypeOK
<1>8. DeliveryOf(t)'
  BY <1>a DEF SubmissionOf, DeliveryOf, Working, Submitting, At, Turn, TypeOK, RecordOf
<1>9. LastSubmits(t)'
  BY <1>a, SameReplies DEF SubmissionOf, LastSubmits, Working, Submitting, At, Turn, TypeOK
<1>10. RepliesOf(t)'
  BY <1>a, SameReplies DEF RepliesOf, SubmissionOf, Working, Submitting, At, Turn, TypeOK
<1> QED BY <1>1, <1>2, <1>3, <1>4, <1>5, <1>6, <1>7, <1>8, <1>9, <1>10, ReaderMoves

\* A restore that ends the reader.
LEMMA RestoreRefusesIInv ==
  ASSUME NEW t \in Reader, IInv, RestoreRefuses(t)
  PROVE  IInv'
<1> USE DEF RestoreRefuses, Restores, StopChild
<1>a. TypeOK /\ SubmissionOf(t) /\ DeliveryOf(t) /\ LastSubmits(t) /\ RepliesOf(t)
  BY DEF IInv, Submissions, Truncations
<1>c. /\ child' \in [Reader -> ChildOf]
      /\ \A u \in Reader \ {t} : child'[u] = child[u]
      /\ child'[t].phase = child[t].phase /\ child'[t].done = child[t].done
      /\ child'[t].cancelled = child[t].cancelled
      /\ child'[t].submit # child[t].submit => child'[t].submit = "unknown" /\ child[t].submit = "invoked"
  <2>1. CASE child[t].submit = "invoked"
    BY <1>a, <2>1 DEF TypeOK, ChildOf
  <2>2. CASE child[t].submit # "invoked"
    <3>1. child' = child
      BY <1>a, <2>2 DEF TypeOK, ChildOf
    <3> QED BY <1>a, <3>1 DEF TypeOK
  <2> QED BY <2>1, <2>2
<1>1. child' \in [Reader -> ChildOf] /\ (child[t].cancelled => child'[t].cancelled)
  BY <1>a, <1>c, RefusalIs DEF TypeOK, ChildOf
<1>2. reader' \in [Reader -> ReaderOf]
  BY <1>a, <1>c, RefusalIs DEF TypeOK, ReaderOf, Reason, Synchronous
<1>3. record' \in [Reader -> RecordOf]
  BY <1>a DEF TypeOK, RecordOf, ReaderOf, Reason
<1>4. disk' \in [Reader -> [submission : BOOLEAN, receipt : {"none", "other", "completed"}]]
  BY <1>a DEF TypeOK
<1>5. /\ UNCHANGED <<Coordinator, replies>> /\ coord.at \in {"gathering", "cancelling"}
      /\ \A u \in Reader \ {t} : UNCHANGED <<reader[u], child[u], record[u], disk[u]>>
  BY <1>a DEF Turn, TypeOK
<1>6. Returned'
  BY <1>a, <1>c, RefusalIs DEF IInv, Coordinator, Returned, At, Turn, TypeOK
<1>7. SubmissionOf(t)'
  BY <1>a, <1>c, RefusalIs DEF SubmissionOf, Working, Submitting, At, Turn, TypeOK
<1>8. DeliveryOf(t)'
  BY <1>a, <1>c, RefusalIs DEF SubmissionOf, DeliveryOf, Working, Submitting, At, Turn, TypeOK, RecordOf
<1>9. LastSubmits(t)'
  BY <1>a, SameReplies, <1>c, RefusalIs DEF SubmissionOf, LastSubmits, Working, Submitting, At, Turn, TypeOK
<1>10. RepliesOf(t)'
  BY <1>a, SameReplies DEF RepliesOf, SubmissionOf, Working, Submitting, At, Turn, TypeOK
<1> QED BY <1>1, <1>2, <1>3, <1>4, <1>5, <1>6, <1>7, <1>8, <1>9, <1>10, ReaderMoves

\* A reader whose completion has its receipt.
LEMMA AlreadyCompletedIInv ==
  ASSUME NEW t \in Reader, IInv, AlreadyCompleted(t)
  PROVE  IInv'
<1> USE DEF AlreadyCompleted, Restores
<1>a. TypeOK /\ SubmissionOf(t) /\ DeliveryOf(t) /\ LastSubmits(t) /\ RepliesOf(t)
  BY DEF IInv, Submissions, Truncations
<1>1. child' \in [Reader -> ChildOf] /\ (child[t].cancelled => child'[t].cancelled)
  BY <1>a DEF TypeOK, ChildOf
<1>2. reader' \in [Reader -> ReaderOf]
  BY <1>a DEF TypeOK, ReaderOf, Reason, Synchronous
<1>3. record' \in [Reader -> RecordOf]
  BY <1>a DEF TypeOK, RecordOf, ReaderOf, Reason
<1>4. disk' \in [Reader -> [submission : BOOLEAN, receipt : {"none", "other", "completed"}]]
  BY <1>a DEF TypeOK
<1>5. /\ UNCHANGED <<Coordinator, replies>> /\ coord.at \in {"gathering", "cancelling"}
      /\ \A u \in Reader \ {t} : UNCHANGED <<reader[u], child[u], record[u], disk[u]>>
  BY <1>a DEF Turn, TypeOK
<1>6. Returned'
  BY <1>a DEF IInv, Coordinator, Returned, At, Turn, TypeOK
<1>7. SubmissionOf(t)'
  BY <1>a DEF SubmissionOf, Working, Submitting, At, Turn, TypeOK
<1>8. DeliveryOf(t)'
  BY <1>a DEF SubmissionOf, DeliveryOf, Working, Submitting, At, Turn, TypeOK, RecordOf
<1>9. LastSubmits(t)'
  BY <1>a, SameReplies DEF SubmissionOf, LastSubmits, Working, Submitting, At, Turn, TypeOK
<1>10. RepliesOf(t)'
  BY <1>a, SameReplies DEF RepliesOf, SubmissionOf, Working, Submitting, At, Turn, TypeOK
<1> QED BY <1>1, <1>2, <1>3, <1>4, <1>5, <1>6, <1>7, <1>8, <1>9, <1>10, ReaderMoves

\* A restore that goes on.
LEMMA RestoreGoesOnIInv ==
  ASSUME NEW t \in Reader, IInv, RestoreGoesOn(t)
  PROVE  IInv'
<1> USE DEF RestoreGoesOn, Restores, Go
<1>a. TypeOK /\ SubmissionOf(t) /\ DeliveryOf(t) /\ LastSubmits(t) /\ RepliesOf(t)
  BY DEF IInv, Submissions, Truncations
<1>s. ~LastIs(t, "cut", "stop") => \A i \in RepliesTo(t) : replies[i].act # "stop"
  <2> SUFFICES ASSUME NEW i \in RepliesTo(t), replies[i].act = "stop" PROVE LastIs(t, "cut", "stop")
    OBVIOUS
  <2>1. i \in LatestOf(t)
    BY DEF IInv, RepliesTo, LatestOf, Truncations, StopsAreLast
  <2>2. replies[i].kind = "cut"
    BY DEF IInv, RepliesTo, Truncations
  <2> QED BY <2>1, <2>2 DEF LastIs
<1>1. child' \in [Reader -> ChildOf] /\ (child[t].cancelled => child'[t].cancelled)
  BY <1>a, RestoredAtIs DEF TypeOK, ChildOf
<1>2. reader' \in [Reader -> ReaderOf]
  BY <1>a, RestoredAtIs DEF TypeOK, ReaderOf, Reason, Synchronous
<1>3. record' \in [Reader -> RecordOf]
  BY <1>a DEF TypeOK, RecordOf, ReaderOf, Reason
<1>4. disk' \in [Reader -> [submission : BOOLEAN, receipt : {"none", "other", "completed"}]]
  BY <1>a DEF TypeOK
<1>5. /\ UNCHANGED <<Coordinator, replies>> /\ coord.at \in {"gathering", "cancelling"}
      /\ \A u \in Reader \ {t} : UNCHANGED <<reader[u], child[u], record[u], disk[u]>>
  BY <1>a DEF Turn, TypeOK
<1>6. Returned'
  BY <1>a, RestoredAtIs DEF IInv, Coordinator, Returned, At, Turn, TypeOK
<1>7. SubmissionOf(t)'
  BY <1>a, RestoredAtIs DEF SubmissionOf, Working, Submitting, At, Turn, TypeOK
<1>8. DeliveryOf(t)'
  BY <1>a, RestoredAtIs DEF SubmissionOf, DeliveryOf, Working, Submitting, At, Turn, TypeOK, RecordOf
<1>9. LastSubmits(t)'
  BY <1>a, SameReplies, RestoredAtIs DEF SubmissionOf, LastSubmits, Working, Submitting, At, Turn, TypeOK
<1>10. RepliesOf(t)'
  BY <1>a, SameReplies, <1>s, RestoredAtIs DEF RepliesOf, SubmissionOf, Working, Submitting, At, Turn, TypeOK
<1> QED BY <1>1, <1>2, <1>3, <1>4, <1>5, <1>6, <1>7, <1>8, <1>9, <1>10, ReaderMoves

\* A request leaves.
LEMMA AskIInv ==
  ASSUME NEW t \in Reader, IInv, Ask(t)
  PROVE  IInv'
<1> USE DEF Ask, Go
<1>a. TypeOK /\ SubmissionOf(t) /\ DeliveryOf(t) /\ LastSubmits(t) /\ RepliesOf(t)
  BY DEF IInv, Submissions, Truncations
<1>1. child' \in [Reader -> ChildOf] /\ (child[t].cancelled => child'[t].cancelled)
  BY <1>a DEF TypeOK, ChildOf
<1>2. reader' \in [Reader -> ReaderOf]
  BY <1>a DEF TypeOK, ReaderOf, Reason, Synchronous
<1>3. record' \in [Reader -> RecordOf]
  BY <1>a DEF TypeOK, RecordOf, ReaderOf, Reason
<1>4. disk' \in [Reader -> [submission : BOOLEAN, receipt : {"none", "other", "completed"}]]
  BY <1>a DEF TypeOK
<1>5. /\ UNCHANGED <<Coordinator, replies>> /\ coord.at \in {"gathering", "cancelling"}
      /\ \A u \in Reader \ {t} : UNCHANGED <<reader[u], child[u], record[u], disk[u]>>
  BY <1>a DEF Turn, TypeOK
<1>6. Returned'
  BY <1>a DEF IInv, Coordinator, Returned, At, Turn, TypeOK
<1>7. SubmissionOf(t)'
  BY <1>a DEF SubmissionOf, Working, Submitting, At, Turn, TypeOK
<1>8. DeliveryOf(t)'
  BY <1>a DEF SubmissionOf, DeliveryOf, Working, Submitting, At, Turn, TypeOK, RecordOf
<1>9. LastSubmits(t)'
  BY <1>a, SameReplies DEF SubmissionOf, LastSubmits, Working, Submitting, At, Turn, TypeOK
<1>10. RepliesOf(t)'
  BY <1>a, SameReplies DEF RepliesOf, SubmissionOf, Working, Submitting, At, Turn, TypeOK
<1> QED BY <1>1, <1>2, <1>3, <1>4, <1>5, <1>6, <1>7, <1>8, <1>9, <1>10, ReaderMoves

\* A reader that cannot go on.
LEMMA GiveUpIInv ==
  ASSUME NEW t \in Reader, IInv, GiveUp(t)
  PROVE  IInv'
<1> USE DEF GiveUp, StopChild
<1>a. TypeOK /\ SubmissionOf(t) /\ DeliveryOf(t) /\ LastSubmits(t) /\ RepliesOf(t)
  BY DEF IInv, Submissions, Truncations
<1>1. child' \in [Reader -> ChildOf] /\ (child[t].cancelled => child'[t].cancelled)
  BY <1>a DEF TypeOK, ChildOf
<1>2. reader' \in [Reader -> ReaderOf]
  BY <1>a DEF TypeOK, ReaderOf, Reason, Synchronous
<1>3. record' \in [Reader -> RecordOf]
  BY <1>a DEF TypeOK, RecordOf, ReaderOf, Reason
<1>4. disk' \in [Reader -> [submission : BOOLEAN, receipt : {"none", "other", "completed"}]]
  BY <1>a DEF TypeOK
<1>5. /\ UNCHANGED <<Coordinator, replies>> /\ coord.at \in {"gathering", "cancelling"}
      /\ \A u \in Reader \ {t} : UNCHANGED <<reader[u], child[u], record[u], disk[u]>>
  BY <1>a DEF Turn, TypeOK
<1>6. Returned'
  BY <1>a DEF IInv, Coordinator, Returned, At, Turn, TypeOK
<1>7. SubmissionOf(t)'
  BY <1>a DEF SubmissionOf, Working, Submitting, At, Turn, TypeOK
<1>8. DeliveryOf(t)'
  BY <1>a DEF SubmissionOf, DeliveryOf, Working, Submitting, At, Turn, TypeOK, RecordOf
<1>9. LastSubmits(t)'
  BY <1>a, SameReplies DEF SubmissionOf, LastSubmits, Working, Submitting, At, Turn, TypeOK
<1>10. RepliesOf(t)'
  BY <1>a, SameReplies DEF RepliesOf, SubmissionOf, Working, Submitting, At, Turn, TypeOK
<1> QED BY <1>1, <1>2, <1>3, <1>4, <1>5, <1>6, <1>7, <1>8, <1>9, <1>10, ReaderMoves

\* A stop after a truncated answer.
LEMMA HaltIInv ==
  ASSUME NEW t \in Reader, IInv, Halt(t)
  PROVE  IInv'
<1> USE DEF Halt, StopChild
<1>a. TypeOK /\ SubmissionOf(t) /\ DeliveryOf(t) /\ LastSubmits(t) /\ RepliesOf(t)
  BY DEF IInv, Submissions, Truncations
<1>1. child' \in [Reader -> ChildOf] /\ (child[t].cancelled => child'[t].cancelled)
  BY <1>a DEF TypeOK, ChildOf
<1>2. reader' \in [Reader -> ReaderOf]
  BY <1>a DEF TypeOK, ReaderOf, Reason, Synchronous
<1>3. record' \in [Reader -> RecordOf]
  BY <1>a DEF TypeOK, RecordOf, ReaderOf, Reason
<1>4. disk' \in [Reader -> [submission : BOOLEAN, receipt : {"none", "other", "completed"}]]
  BY <1>a DEF TypeOK
<1>5. /\ UNCHANGED <<Coordinator, replies>> /\ coord.at \in {"gathering", "cancelling"}
      /\ \A u \in Reader \ {t} : UNCHANGED <<reader[u], child[u], record[u], disk[u]>>
  BY <1>a DEF Turn, TypeOK
<1>6. Returned'
  BY <1>a DEF IInv, Coordinator, Returned, At, Turn, TypeOK
<1>7. SubmissionOf(t)'
  BY <1>a DEF SubmissionOf, Working, Submitting, At, Turn, TypeOK
<1>8. DeliveryOf(t)'
  BY <1>a DEF SubmissionOf, DeliveryOf, Working, Submitting, At, Turn, TypeOK, RecordOf
<1>9. LastSubmits(t)'
  BY <1>a, SameReplies DEF SubmissionOf, LastSubmits, Working, Submitting, At, Turn, TypeOK
<1>10. RepliesOf(t)'
  BY <1>a, SameReplies DEF RepliesOf, SubmissionOf, Working, Submitting, At, Turn, TypeOK
<1> QED BY <1>1, <1>2, <1>3, <1>4, <1>5, <1>6, <1>7, <1>8, <1>9, <1>10, ReaderMoves

\* The intent to submit.
LEMMA InvokeIInv ==
  ASSUME NEW t \in Reader, IInv, Invoke(t)
  PROVE  IInv'
<1> USE DEF Invoke, Go
<1>a. TypeOK /\ SubmissionOf(t) /\ DeliveryOf(t) /\ LastSubmits(t) /\ RepliesOf(t)
  BY DEF IInv, Submissions, Truncations
<1>1. child' \in [Reader -> ChildOf] /\ (child[t].cancelled => child'[t].cancelled)
  BY <1>a DEF TypeOK, ChildOf
<1>2. reader' \in [Reader -> ReaderOf]
  BY <1>a DEF TypeOK, ReaderOf, Reason, Synchronous
<1>3. record' \in [Reader -> RecordOf]
  BY <1>a DEF TypeOK, RecordOf, ReaderOf, Reason
<1>4. disk' \in [Reader -> [submission : BOOLEAN, receipt : {"none", "other", "completed"}]]
  BY <1>a DEF TypeOK
<1>5. /\ UNCHANGED <<Coordinator, replies>> /\ coord.at \in {"gathering", "cancelling"}
      /\ \A u \in Reader \ {t} : UNCHANGED <<reader[u], child[u], record[u], disk[u]>>
  BY <1>a DEF Turn, TypeOK
<1>6. Returned'
  BY <1>a DEF IInv, Coordinator, Returned, At, Turn, TypeOK
<1>7. SubmissionOf(t)'
  BY <1>a DEF SubmissionOf, Working, Submitting, At, Turn, TypeOK
<1>8. DeliveryOf(t)'
  BY <1>a DEF SubmissionOf, DeliveryOf, Working, Submitting, At, Turn, TypeOK, RecordOf
<1>9. LastSubmits(t)'
  BY <1>a, SameReplies DEF SubmissionOf, LastSubmits, Working, Submitting, At, Turn, TypeOK
<1>10. RepliesOf(t)'
  BY <1>a, SameReplies DEF RepliesOf, SubmissionOf, Working, Submitting, At, Turn, TypeOK
<1> QED BY <1>1, <1>2, <1>3, <1>4, <1>5, <1>6, <1>7, <1>8, <1>9, <1>10, ReaderMoves

\* The submission is on the disk.
LEMMA SubmitIInv ==
  ASSUME NEW t \in Reader, IInv, Submit(t)
  PROVE  IInv'
<1> USE DEF Submit, Go
<1>a. TypeOK /\ SubmissionOf(t) /\ DeliveryOf(t) /\ LastSubmits(t) /\ RepliesOf(t)
  BY DEF IInv, Submissions, Truncations
<1>1. child' \in [Reader -> ChildOf] /\ (child[t].cancelled => child'[t].cancelled)
  BY <1>a DEF TypeOK, ChildOf
<1>2. reader' \in [Reader -> ReaderOf]
  BY <1>a DEF TypeOK, ReaderOf, Reason, Synchronous
<1>3. record' \in [Reader -> RecordOf]
  BY <1>a DEF TypeOK, RecordOf, ReaderOf, Reason
<1>4. disk' \in [Reader -> [submission : BOOLEAN, receipt : {"none", "other", "completed"}]]
  BY <1>a DEF TypeOK
<1>5. /\ UNCHANGED <<Coordinator, replies>> /\ coord.at \in {"gathering", "cancelling"}
      /\ \A u \in Reader \ {t} : UNCHANGED <<reader[u], child[u], record[u], disk[u]>>
  BY <1>a DEF Turn, TypeOK
<1>6. Returned'
  BY <1>a DEF IInv, Coordinator, Returned, At, Turn, TypeOK
<1>7. SubmissionOf(t)'
  BY <1>a DEF SubmissionOf, Working, Submitting, At, Turn, TypeOK
<1>8. DeliveryOf(t)'
  BY <1>a DEF SubmissionOf, DeliveryOf, Working, Submitting, At, Turn, TypeOK, RecordOf
<1>9. LastSubmits(t)'
  BY <1>a, SameReplies DEF SubmissionOf, LastSubmits, Working, Submitting, At, Turn, TypeOK
<1>10. RepliesOf(t)'
  BY <1>a, SameReplies DEF RepliesOf, SubmissionOf, Working, Submitting, At, Turn, TypeOK
<1> QED BY <1>1, <1>2, <1>3, <1>4, <1>5, <1>6, <1>7, <1>8, <1>9, <1>10, ReaderMoves

\* The submission is refused.
LEMMA RefuseSubmissionIInv ==
  ASSUME NEW t \in Reader, IInv, RefuseSubmission(t)
  PROVE  IInv'
<1> USE DEF RefuseSubmission, Go
<1>a. TypeOK /\ SubmissionOf(t) /\ DeliveryOf(t) /\ LastSubmits(t) /\ RepliesOf(t)
  BY DEF IInv, Submissions, Truncations
<1>1. child' \in [Reader -> ChildOf] /\ (child[t].cancelled => child'[t].cancelled)
  BY <1>a DEF TypeOK, ChildOf
<1>2. reader' \in [Reader -> ReaderOf]
  BY <1>a DEF TypeOK, ReaderOf, Reason, Synchronous
<1>3. record' \in [Reader -> RecordOf]
  BY <1>a DEF TypeOK, RecordOf, ReaderOf, Reason
<1>4. disk' \in [Reader -> [submission : BOOLEAN, receipt : {"none", "other", "completed"}]]
  BY <1>a DEF TypeOK
<1>5. /\ UNCHANGED <<Coordinator, replies>> /\ coord.at \in {"gathering", "cancelling"}
      /\ \A u \in Reader \ {t} : UNCHANGED <<reader[u], child[u], record[u], disk[u]>>
  BY <1>a DEF Turn, TypeOK
<1>6. Returned'
  BY <1>a DEF IInv, Coordinator, Returned, At, Turn, TypeOK
<1>7. SubmissionOf(t)'
  BY <1>a DEF SubmissionOf, Working, Submitting, At, Turn, TypeOK
<1>8. DeliveryOf(t)'
  BY <1>a DEF SubmissionOf, DeliveryOf, Working, Submitting, At, Turn, TypeOK, RecordOf
<1>9. LastSubmits(t)'
  BY <1>a, SameReplies DEF SubmissionOf, LastSubmits, Working, Submitting, At, Turn, TypeOK
<1>10. RepliesOf(t)'
  BY <1>a, SameReplies DEF RepliesOf, SubmissionOf, Working, Submitting, At, Turn, TypeOK
<1> QED BY <1>1, <1>2, <1>3, <1>4, <1>5, <1>6, <1>7, <1>8, <1>9, <1>10, ReaderMoves

\* The submission counts.
LEMMA ExecuteIInv ==
  ASSUME NEW t \in Reader, IInv, Execute(t)
  PROVE  IInv'
<1> USE DEF Execute, Go
<1>a. TypeOK /\ SubmissionOf(t) /\ DeliveryOf(t) /\ LastSubmits(t) /\ RepliesOf(t)
  BY DEF IInv, Submissions, Truncations
<1>1. child' \in [Reader -> ChildOf] /\ (child[t].cancelled => child'[t].cancelled)
  BY <1>a DEF TypeOK, ChildOf
<1>2. reader' \in [Reader -> ReaderOf]
  BY <1>a DEF TypeOK, ReaderOf, Reason, Synchronous
<1>3. record' \in [Reader -> RecordOf]
  BY <1>a DEF TypeOK, RecordOf, ReaderOf, Reason
<1>4. disk' \in [Reader -> [submission : BOOLEAN, receipt : {"none", "other", "completed"}]]
  BY <1>a DEF TypeOK
<1>5. /\ UNCHANGED <<Coordinator, replies>> /\ coord.at \in {"gathering", "cancelling"}
      /\ \A u \in Reader \ {t} : UNCHANGED <<reader[u], child[u], record[u], disk[u]>>
  BY <1>a DEF Turn, TypeOK
<1>6. Returned'
  BY <1>a DEF IInv, Coordinator, Returned, At, Turn, TypeOK
<1>7. SubmissionOf(t)'
  BY <1>a DEF SubmissionOf, Working, Submitting, At, Turn, TypeOK
<1>8. DeliveryOf(t)'
  BY <1>a DEF SubmissionOf, DeliveryOf, Working, Submitting, At, Turn, TypeOK, RecordOf
<1>9. LastSubmits(t)'
  BY <1>a, SameReplies DEF SubmissionOf, LastSubmits, Working, Submitting, At, Turn, TypeOK
<1>10. RepliesOf(t)'
  BY <1>a, SameReplies DEF RepliesOf, SubmissionOf, Working, Submitting, At, Turn, TypeOK
<1> QED BY <1>1, <1>2, <1>3, <1>4, <1>5, <1>6, <1>7, <1>8, <1>9, <1>10, ReaderMoves

\* The reader is done.
LEMMA CompleteIInv ==
  ASSUME NEW t \in Reader, IInv, Complete(t)
  PROVE  IInv'
<1> USE DEF Complete, Go
<1>a. TypeOK /\ SubmissionOf(t) /\ DeliveryOf(t) /\ LastSubmits(t) /\ RepliesOf(t)
  BY DEF IInv, Submissions, Truncations
<1>1. child' \in [Reader -> ChildOf] /\ (child[t].cancelled => child'[t].cancelled)
  BY <1>a DEF TypeOK, ChildOf
<1>2. reader' \in [Reader -> ReaderOf]
  BY <1>a DEF TypeOK, ReaderOf, Reason, Synchronous
<1>3. record' \in [Reader -> RecordOf]
  BY <1>a DEF TypeOK, RecordOf, ReaderOf, Reason
<1>4. disk' \in [Reader -> [submission : BOOLEAN, receipt : {"none", "other", "completed"}]]
  BY <1>a DEF TypeOK
<1>5. /\ UNCHANGED <<Coordinator, replies>> /\ coord.at \in {"gathering", "cancelling"}
      /\ \A u \in Reader \ {t} : UNCHANGED <<reader[u], child[u], record[u], disk[u]>>
  BY <1>a DEF Turn, TypeOK
<1>6. Returned'
  BY <1>a DEF IInv, Coordinator, Returned, At, Turn, TypeOK
<1>7. SubmissionOf(t)'
  BY <1>a DEF SubmissionOf, Working, Submitting, At, Turn, TypeOK
<1>8. DeliveryOf(t)'
  BY <1>a DEF SubmissionOf, DeliveryOf, Working, Submitting, At, Turn, TypeOK, RecordOf
<1>9. LastSubmits(t)'
  BY <1>a, SameReplies DEF SubmissionOf, LastSubmits, Working, Submitting, At, Turn, TypeOK
<1>10. RepliesOf(t)'
  BY <1>a, SameReplies DEF RepliesOf, SubmissionOf, Working, Submitting, At, Turn, TypeOK
<1> QED BY <1>1, <1>2, <1>3, <1>4, <1>5, <1>6, <1>7, <1>8, <1>9, <1>10, ReaderMoves

\* The receipt of the completion.
LEMMA WriteReceiptIInv ==
  ASSUME NEW t \in Reader, IInv, WriteReceipt(t)
  PROVE  IInv'
<1> USE DEF WriteReceipt
<1>a. TypeOK /\ SubmissionOf(t) /\ DeliveryOf(t) /\ LastSubmits(t) /\ RepliesOf(t)
  BY DEF IInv, Submissions, Truncations
<1>1. child' \in [Reader -> ChildOf] /\ (child[t].cancelled => child'[t].cancelled)
  BY <1>a DEF TypeOK, ChildOf
<1>2. reader' \in [Reader -> ReaderOf]
  BY <1>a DEF TypeOK, ReaderOf, Reason, Synchronous
<1>3. record' \in [Reader -> RecordOf]
  BY <1>a DEF TypeOK, RecordOf, ReaderOf, Reason
<1>4. disk' \in [Reader -> [submission : BOOLEAN, receipt : {"none", "other", "completed"}]]
  BY <1>a DEF TypeOK
<1>5. /\ UNCHANGED <<Coordinator, replies>> /\ coord.at \in {"gathering", "cancelling"}
      /\ \A u \in Reader \ {t} : UNCHANGED <<reader[u], child[u], record[u], disk[u]>>
  BY <1>a DEF Turn, TypeOK
<1>6. Returned'
  BY <1>a DEF IInv, Coordinator, Returned, At, Turn, TypeOK
<1>7. SubmissionOf(t)'
  BY <1>a DEF SubmissionOf, Working, Submitting, At, Turn, TypeOK
<1>8. DeliveryOf(t)'
  BY <1>a DEF SubmissionOf, DeliveryOf, Working, Submitting, At, Turn, TypeOK, RecordOf
<1>9. LastSubmits(t)'
  BY <1>a, SameReplies DEF SubmissionOf, LastSubmits, Working, Submitting, At, Turn, TypeOK
<1>10. RepliesOf(t)'
  BY <1>a, SameReplies DEF RepliesOf, SubmissionOf, Working, Submitting, At, Turn, TypeOK
<1> QED BY <1>1, <1>2, <1>3, <1>4, <1>5, <1>6, <1>7, <1>8, <1>9, <1>10, ReaderMoves

\* The record of a reader that has ended.
LEMMA RecordIInv ==
  ASSUME NEW t \in Reader, IInv, Record(t)
  PROVE  IInv'
<1> USE DEF Record, Saves, Go, Accepted
<1>a. TypeOK /\ SubmissionOf(t) /\ DeliveryOf(t) /\ LastSubmits(t) /\ RepliesOf(t)
  BY DEF IInv, Submissions, Truncations
<1>1. child' \in [Reader -> ChildOf] /\ (child[t].cancelled => child'[t].cancelled)
  BY <1>a DEF TypeOK, ChildOf
<1>2. reader' \in [Reader -> ReaderOf]
  BY <1>a DEF TypeOK, ReaderOf, Reason, Synchronous
<1>3. record' \in [Reader -> RecordOf]
  BY <1>a DEF TypeOK, RecordOf, ReaderOf, Reason
<1>4. disk' \in [Reader -> [submission : BOOLEAN, receipt : {"none", "other", "completed"}]]
  BY <1>a DEF TypeOK
<1>5. /\ UNCHANGED <<Coordinator, replies>> /\ coord.at \in {"gathering", "cancelling"}
      /\ \A u \in Reader \ {t} : UNCHANGED <<reader[u], child[u], record[u], disk[u]>>
  BY <1>a DEF Turn, TypeOK
<1>6. Returned'
  BY <1>a DEF IInv, Coordinator, Returned, At, Turn, TypeOK
<1>7. SubmissionOf(t)'
  BY <1>a DEF SubmissionOf, Working, Submitting, At, Turn, TypeOK
<1>8. DeliveryOf(t)'
  BY <1>a DEF SubmissionOf, DeliveryOf, Working, Submitting, At, Turn, TypeOK, RecordOf
<1>9. LastSubmits(t)'
  BY <1>a, SameReplies DEF SubmissionOf, LastSubmits, Working, Submitting, At, Turn, TypeOK
<1>10. RepliesOf(t)'
  BY <1>a, SameReplies DEF RepliesOf, SubmissionOf, Working, Submitting, At, Turn, TypeOK
<1> QED BY <1>1, <1>2, <1>3, <1>4, <1>5, <1>6, <1>7, <1>8, <1>9, <1>10, ReaderMoves

\* A reader that is cancelled.
LEMMA TakesCancelIInv ==
  ASSUME NEW t \in Reader, IInv, TakesCancel(t)
  PROVE  IInv'
<1> USE DEF IInv
<1>b. \/ child' = child
      \/ child' = [child EXCEPT ![t].cancelled = TRUE]
      \/ child' = [child EXCEPT ![t].submit = "unknown"] /\ reader[t].at \in {"calling", "submitted"}
  BY DEF TakesCancel
<1>c. /\ child' \in [Reader -> ChildOf]
      /\ \A u \in Reader \ {t} : child'[u] = child[u]
      /\ child'[t].phase = child[t].phase /\ child'[t].done = child[t].done
      /\ child[t].cancelled => child'[t].cancelled
      /\ child'[t].submit # child[t].submit =>
           child'[t].submit = "unknown" /\ reader[t].at \in {"calling", "submitted"}
  <2>1. child[t] \in ChildOf
    BY DEF TypeOK
  <2>2. child'[t] = child[t] \/ child'[t] = [child[t] EXCEPT !.cancelled = TRUE]
          \/ (child'[t] = [child[t] EXCEPT !.submit = "unknown"] /\ reader[t].at \in {"calling", "submitted"})
    BY <1>b DEF TypeOK
  <2>3. child'[t] \in ChildOf
    BY <2>1, <2>2 DEF ChildOf
  <2>4. child' \in [Reader -> ChildOf] /\ \A u \in Reader \ {t} : child'[u] = child[u]
    BY <1>b, <2>3 DEF TypeOK
  <2> QED BY <2>1, <2>2, <2>4 DEF ChildOf
<1>d. PICK place \in {"ended", "ending"}, why \in {"none", "cancelled", "final"} :
           reader' = [reader EXCEPT ![t] = [at |-> place, why |-> why]]
  BY DEF TakesCancel, StopChild, Go
<1>e. /\ UNCHANGED <<Coordinator, record, replies>> /\ coord.at = "cancelling"
      /\ reader[t].at # "ending" /\ reader[t].at \notin {"delivered", "completing"}
      /\ reader[t].at \in {"idle", "waiting", "ended"} => reader'[t].at = "ended"
  BY <1>d DEF TakesCancel, StopChild, Go, At, TypeOK
<1>f. /\ disk'[t].submission = disk[t].submission /\ \A u \in Reader \ {t} : disk'[u] = disk[u]
      /\ disk' \in [Reader -> [submission : BOOLEAN, receipt : {"none", "other", "completed"}]]
  <2>1. disk' = disk \/ disk' = [disk EXCEPT ![t].receipt = "other"]
    BY DEF TakesCancel, StopChild
  <2> QED BY <2>1 DEF TypeOK
<1>1. reader' \in [Reader -> ReaderOf]
  BY <1>d DEF TypeOK, ReaderOf, Reason, Synchronous
<1>2. record' \in [Reader -> RecordOf]
  BY <1>e DEF TypeOK
<1>3. \A u \in Reader \ {t} : UNCHANGED <<reader[u], child[u], record[u], disk[u]>>
  BY <1>c, <1>d, <1>e, <1>f DEF TypeOK
<1>4. Returned'
  BY <1>e DEF Coordinator, Returned
<1>5. SubmissionOf(t) /\ DeliveryOf(t) /\ LastSubmits(t) /\ RepliesOf(t)
  BY DEF Submissions, Truncations
<1>6. reader'[t].at \in {"ended", "ending"} /\ reader'[t].why # "completed"
  BY <1>d DEF TypeOK
<1>7. SubmissionOf(t)'
  BY <1>c, <1>e, <1>f, <1>5, <1>6 DEF SubmissionOf, Working, Submitting
<1>8. DeliveryOf(t)'
  BY <1>c, <1>e, <1>5, <1>6 DEF DeliveryOf
<1>9. LastSubmits(t)'
  BY <1>c, <1>e, <1>5, SameReplies DEF LastSubmits, SubmissionOf
<1>10. RepliesOf(t)'
  BY <1>c, <1>e, <1>5, <1>6, SameReplies DEF RepliesOf, Working, Submitting, At
<1> QED BY <1>c, <1>e, <1>f, <1>1, <1>2, <1>3, <1>4, <1>7, <1>8, <1>9, <1>10, ReaderMoves

\* A reply that is added is the latest one to its reader.
LEMMA AddedReply ==
  ASSUME TypeOK, NEW t \in Reader, NEW kind, NEW n, n = Len(replies) + 1,
         replies' = Append(replies, [reader |-> t, kind |-> kind, act |-> "none"])
  PROVE  /\ DOMAIN replies' = 1..n /\ DOMAIN replies = 1..(n - 1) /\ n \in Nat
         /\ \A i \in DOMAIN replies : replies'[i] = replies[i]
         /\ replies'[n] = [reader |-> t, kind |-> kind, act |-> "none"]
         /\ RepliesTo(t)' = RepliesTo(t) \cup {n} /\ LatestOf(t)' = {n}
         /\ \A u \in Reader \ {t} : RepliesTo(u)' = RepliesTo(u) /\ LatestOf(u)' = LatestOf(u)
<1>1. /\ DOMAIN replies' = 1..n /\ DOMAIN replies = 1..(n - 1) /\ n \in Nat
      /\ \A i \in DOMAIN replies : replies'[i] = replies[i]
      /\ replies'[n] = [reader |-> t, kind |-> kind, act |-> "none"]
  BY DEF TypeOK
<1>2. RepliesTo(t)' = RepliesTo(t) \cup {n}
  BY <1>1 DEF RepliesTo
<1>3. LatestOf(t)' = {n}
  <2>1. \A i \in RepliesTo(t)' : i \in Nat /\ i <= n
    BY <1>1 DEF RepliesTo
  <2>2. n \in LatestOf(t)'
    BY <1>1, <1>2, <2>1 DEF LatestOf
  <2>3. ASSUME NEW i \in LatestOf(t)' PROVE i = n
    <3>1. i \in RepliesTo(t)' /\ n <= i
      BY <1>2 DEF LatestOf
    <3> QED BY <1>1, <2>1, <3>1
  <2> QED BY <2>2, <2>3
<1>4. \A u \in Reader \ {t} : RepliesTo(u)' = RepliesTo(u)
  BY <1>1 DEF RepliesTo
<1> QED BY <1>1, <1>2, <1>3, <1>4 DEF LatestOf

\* The answer to a request.
LEMMA RespondIInv ==
  ASSUME NEW t \in Reader, NEW kind \in {"cut", "submit"}, IInv, Respond(t, kind)
  PROVE  IInv'
<1> DEFINE n == Len(replies) + 1
<1> USE DEF IInv, Respond, Go
<1>0. /\ DOMAIN replies' = 1..n /\ DOMAIN replies = 1..(n - 1) /\ n \in Nat
      /\ \A i \in DOMAIN replies : replies'[i] = replies[i]
      /\ replies'[n] = [reader |-> t, kind |-> kind, act |-> "none"]
      /\ RepliesTo(t)' = RepliesTo(t) \cup {n} /\ LatestOf(t)' = {n}
      /\ \A u \in Reader \ {t} : /\ RepliesTo(u)' = RepliesTo(u) /\ LatestOf(u)' = LatestOf(u)
                                 /\ UNCHANGED <<reader[u], child[u], record[u], disk[u]>>
  BY AddedReply DEF TypeOK
<1>p. /\ At(t, "away") /\ child[t].phase # "empty" /\ child[t].submit = "none"
      /\ \A i \in RepliesTo(t) : replies[i].act # "stop"
  BY DEF Turn, At, Submissions, SubmissionOf, Truncations, RepliesOf, Working
<1>q. /\ child'[t].phase = child[t].phase /\ child'[t].done = child[t].done
      /\ child'[t].submit = IF kind = "submit" THEN "pending" ELSE "none"
  BY <1>p DEF TypeOK, ChildOf
<1>r. reader'[t] = [at |-> IF kind = "cut" THEN "judging" ELSE "submitting", why |-> "none"]
  BY DEF TypeOK
<1>1. TypeOK'
  <2>1. child' \in [Reader -> ChildOf]
    <3>1. child[t] \in ChildOf
      BY DEF TypeOK
    <3>2. [child[t] EXCEPT !.submit = IF kind = "submit" THEN "pending" ELSE @] \in ChildOf
      BY <3>1 DEF ChildOf
    <3> QED BY <3>2 DEF TypeOK
  <2>2. reader' \in [Reader -> ReaderOf]
    BY DEF TypeOK, ReaderOf, Reason
  <2>3. replies' \in Seq(ReplyOf)
    BY DEF TypeOK, ReplyOf
  <2> QED BY <2>1, <2>2, <2>3 DEF Coordinator, TypeOK
<1>2. UNCHANGED Coordinator /\ coord.at \in {"gathering", "cancelling"}
  BY DEF Turn
<1>3. Filed' /\ AnswerIsComplete' /\ CancelledIsNoResult'
  BY <1>2, SameDelegations DEF TypeOK, ChildOf
<1>4. Returned'
  BY DEF Coordinator, Returned, At, Turn, TypeOK
<1>5. Submissions'
  <2>1. SubmissionOf(t) /\ DeliveryOf(t)
    BY DEF Submissions
  <2>2. SubmissionOf(t)'
    BY <1>p, <1>q, <1>r, <2>1 DEF SubmissionOf, Working, Submitting, At
  <2>3. DeliveryOf(t)'
    BY <1>p, <1>q, <1>r, <2>1 DEF SubmissionOf, DeliveryOf, At
  <2>4. LastSubmits(t)'
    BY <1>0, <1>q DEF LastSubmits
  <2>5. ASSUME NEW u \in Reader \ {t} PROVE (SubmissionOf(u) /\ DeliveryOf(u) /\ LastSubmits(u))'
    <3>1. LatestOf(u) \subseteq DOMAIN replies
      BY DEF LatestOf, RepliesTo
    <3> QED BY <1>0, <3>1 DEF Submissions, SubmissionOf, DeliveryOf, LastSubmits
  <2> QED BY <2>2, <2>3, <2>4, <2>5 DEF Submissions
<1>6. Truncations'
  <2>1. RepliesOf(t)'
    <3>1. \A i \in RepliesTo(t) : i \in DOMAIN replies
      BY DEF RepliesTo
    <3>2. \A i \in RepliesTo(t)' : replies'[i].act # "stop"
      BY <1>0, <1>p, <3>1
    <3>3. At(t, "judging")' => LastIs(t, "cut", "none")'
      BY <1>0, <1>r DEF At, LastIs
    <3> QED BY <1>p, <1>q, <3>2, <3>3 DEF RepliesOf
  <2>2. ASSUME NEW u \in Reader \ {t} PROVE RepliesOf(u)'
    <3>1. RepliesTo(u) \subseteq DOMAIN replies /\ LatestOf(u) \subseteq DOMAIN replies
      BY DEF LatestOf, RepliesTo
    <3> QED BY <1>0, <3>1 DEF Truncations, RepliesOf, At, LastIs
  <2>3. \A i \in DOMAIN replies' : replies'[i].act # "none" => replies'[i].kind = "cut"
    BY <1>0 DEF Truncations
  <2>4. Continued' = Continued
    BY <1>0 DEF Continued
  <2>5. \A i \in Continued : TruncatedUpTo(i)' = TruncatedUpTo(i)
    <3> SUFFICES ASSUME NEW i \in DOMAIN replies
                 PROVE  {k \in 1..i : replies'[k].kind = "cut"} = {k \in 1..i : replies[k].kind = "cut"}
      BY DEF Continued, TruncatedUpTo
    <3>1. 1..i \subseteq DOMAIN replies
      BY DEF TypeOK
    <3> QED BY <1>0, <3>1
  <2>6. StopsAreLast'
    <3> SUFFICES ASSUME NEW i \in DOMAIN replies', NEW j \in DOMAIN replies',
                        replies'[i].act = "stop", replies'[j].reader = replies'[i].reader
                 PROVE  j <= i
      BY DEF StopsAreLast
    <3>1. i \in DOMAIN replies /\ replies[i].act = "stop"
      BY <1>0
    <3>2. CASE j \in DOMAIN replies
      BY <1>0, <3>1, <3>2 DEF Truncations, StopsAreLast
    <3>3. CASE j = n
      BY <1>0, <1>p, <3>1, <3>3 DEF RepliesTo
    <3> QED BY <1>0, <3>2, <3>3
  <2> QED BY <2>1, <2>2, <2>3, <2>4, <2>5, <2>6 DEF Truncations
<1> QED BY <1>1, <1>3, <1>4, <1>5, <1>6

\* Truncated answers can be counted.
LEMMA TruncatedIsNat ==
  ASSUME NEW i \in Nat
  PROVE  /\ IsFiniteSet({j \in 1..i : replies[j].kind = "cut"})
         /\ TruncatedUpTo(i) \in Nat
<1>1. IsFiniteSet(1..i)
  BY FS_Interval
<1>2. IsFiniteSet({j \in 1..i : replies[j].kind = "cut"})
  BY <1>1, FS_Subset
<1> QED BY <1>2, FS_CardinalityType DEF TruncatedUpTo

\* A reply that is judged stays what it was and whose it was.
LEMMA JudgedReply ==
  ASSUME TypeOK, NEW i \in DOMAIN replies, NEW act \in {"continue", "stop"},
         replies' = [replies EXCEPT ![i].act = act]
  PROVE  /\ DOMAIN replies' = DOMAIN replies /\ replies' \in Seq(ReplyOf)
         /\ \A j \in DOMAIN replies : /\ replies'[j].reader = replies[j].reader
                                      /\ replies'[j].kind = replies[j].kind
                                      /\ j # i => replies'[j] = replies[j]
         /\ replies'[i].act = act
         /\ \A u \in Reader : RepliesTo(u)' = RepliesTo(u) /\ LatestOf(u)' = LatestOf(u)
<1>1. replies[i] \in ReplyOf
  BY DEF TypeOK
<1>2. [replies[i] EXCEPT !.act = act] \in ReplyOf
  BY <1>1 DEF ReplyOf
<1>3. DOMAIN replies' = DOMAIN replies /\ replies' \in Seq(ReplyOf)
  BY <1>2 DEF TypeOK
<1>4. /\ \A j \in DOMAIN replies : /\ replies'[j].reader = replies[j].reader
                                   /\ replies'[j].kind = replies[j].kind
                                   /\ j # i => replies'[j] = replies[j]
      /\ replies'[i].act = act
  BY <1>1 DEF TypeOK, ReplyOf
<1>5. \A u \in Reader : RepliesTo(u)' = RepliesTo(u)
  BY <1>3, <1>4 DEF RepliesTo
<1> QED BY <1>3, <1>4, <1>5 DEF LatestOf

\* A truncated answer is judged.
LEMMA JudgeIInv ==
  ASSUME NEW t \in Reader, IInv, Judge(t)
  PROVE  IInv'
<1> USE DEF IInv
<1>0. PICK i \in LatestOf(t), act \in {"continue", "stop"} :
        /\ replies' = [replies EXCEPT ![i].act = act]
        /\ Go(t, IF act = "stop" THEN "halting" ELSE "loop")
        /\ act = "continue" => ~Exceeded(i)
  BY DEF Judge
<1>a. /\ i \in DOMAIN replies /\ i \in RepliesTo(t) /\ replies[i].reader = t /\ i \in Nat
      /\ \A j \in RepliesTo(t) : j <= i
  BY DEF LatestOf, RepliesTo, TypeOK
<1>b. At(t, "judging") /\ coord.at = "gathering" /\ UNCHANGED <<Coordinator, record, child, disk>>
  BY DEF Judge, Turn
<1>c. /\ reader' = [reader EXCEPT ![t] = [at |-> IF act = "stop" THEN "halting" ELSE "loop",
                                          why |-> "none"]]
      /\ \A u \in Reader \ {t} : reader'[u] = reader[u]
      /\ reader'[t] = [at |-> IF act = "stop" THEN "halting" ELSE "loop", why |-> "none"]
  BY <1>0 DEF Go, TypeOK
<1>d. /\ DOMAIN replies' = DOMAIN replies /\ replies' \in Seq(ReplyOf)
      /\ \A j \in DOMAIN replies : /\ replies'[j].reader = replies[j].reader
                                   /\ replies'[j].kind = replies[j].kind
                                   /\ j # i => replies'[j] = replies[j]
      /\ replies'[i].act = act
      /\ \A u \in Reader : RepliesTo(u)' = RepliesTo(u) /\ LatestOf(u)' = LatestOf(u)
  BY <1>0, <1>a, JudgedReply
<1>e. \A u \in Reader : RepliesTo(u) \subseteq DOMAIN replies /\ LatestOf(u) \subseteq DOMAIN replies
  BY DEF LatestOf, RepliesTo
<1>1. TypeOK'
  <2>1. reader' \in [Reader -> ReaderOf]
    BY <1>c DEF TypeOK, ReaderOf, Reason, Synchronous
  <2> QED BY <1>b, <1>d, <2>1 DEF Coordinator, TypeOK
<1>3. Filed' /\ AnswerIsComplete' /\ CancelledIsNoResult'
  BY <1>b, SameDelegations
<1>4. Returned'
  BY <1>b, <1>c DEF Coordinator, Returned, At
<1>5. Submissions'
  <2>1. SubmissionOf(t) /\ DeliveryOf(t)
    BY DEF Submissions
  <2>2. SubmissionOf(t)'
    BY <1>b, <1>c, <2>1 DEF SubmissionOf, Working, Submitting, At
  <2>3. DeliveryOf(t)'
    BY <1>b, <1>c, <2>1 DEF SubmissionOf, DeliveryOf, At
  <2>4. ASSUME NEW u \in Reader PROVE LastSubmits(u)'
    BY <1>b, <1>d, <1>e DEF Submissions, LastSubmits
  <2>5. ASSUME NEW u \in Reader \ {t} PROVE (SubmissionOf(u) /\ DeliveryOf(u))'
    BY <1>b, <1>c DEF Submissions, SubmissionOf, DeliveryOf
  <2> QED BY <2>2, <2>3, <2>4, <2>5 DEF Submissions
<1>6. Truncations'
  <2>a. /\ LastIs(t, "cut", "none") /\ child[t].phase # "empty"
        /\ \A j \in RepliesTo(t) : replies[j].act # "stop"
    BY <1>b DEF Truncations, RepliesOf, Submissions, SubmissionOf, Working, At
  <2>b. replies[i].kind = "cut"
    BY <2>a, LatestIsOne DEF LastIs
  <2>1. RepliesOf(t)'
    <3>1. act = "continue" => \A j \in RepliesTo(t)' : replies'[j].act # "stop"
      BY <1>d, <1>e, <2>a
    <3> QED BY <1>b, <1>c, <2>a, <3>1 DEF RepliesOf, At, Working, Submitting
  <2>2. ASSUME NEW u \in Reader \ {t} PROVE RepliesOf(u)'
    <3>1. i \notin RepliesTo(u)
      BY <1>a DEF RepliesTo
    <3>2. \A j \in RepliesTo(u) : replies'[j] = replies[j]
      BY <1>d, <1>e, <3>1
    <3>3. LatestOf(u) \subseteq RepliesTo(u)
      BY DEF LatestOf
    <3> QED BY <1>b, <1>c, <1>d, <3>2, <3>3 DEF Truncations, RepliesOf, At, LastIs
  <2>3. \A j \in DOMAIN replies' : replies'[j].act # "none" => replies'[j].kind = "cut"
    BY <1>d, <2>b DEF Truncations
  <2>4. \A j \in DOMAIN replies : TruncatedUpTo(j)' = TruncatedUpTo(j)
    <3> SUFFICES ASSUME NEW j \in DOMAIN replies
                 PROVE  {k \in 1..j : replies'[k].kind = "cut"} = {k \in 1..j : replies[k].kind = "cut"}
      BY DEF TruncatedUpTo
    <3>1. 1..j \subseteq DOMAIN replies
      BY DEF TypeOK
    <3> QED BY <1>d, <3>1
  <2>5. act = "continue" => TruncatedUpTo(i) <= MaxTotal
    <3>1. TruncatedUpTo(i) \in Nat
      BY <1>a, TruncatedIsNat
    <3>2. MaxTotal \in Nat
      BY ReaderBatchAssumption
    <3>3. act = "continue" => ~(TruncatedUpTo(i) > MaxTotal)
      BY <1>0 DEF Exceeded
    <3> QED BY <3>1, <3>2, <3>3
  <2>6. Continued' = IF act = "continue" THEN Continued \cup {i} ELSE Continued \ {i}
    BY <1>a, <1>d DEF Continued
  <2>7. i \notin Continued \/ act = "continue"
    <3>1. replies[i].act = "none"
      BY <2>a, LatestIsOne DEF LastIs
    <3> QED BY <3>1 DEF Continued
  <2>8. \A j \in Continued' : TruncatedUpTo(j)' <= MaxTotal
    BY <1>a, <2>4, <2>5, <2>6 DEF Truncations, Continued
  <2>9. Continued' # {} => \E m \in Continued' : \A j \in Continued' : j <= m
    <3>1. Continued \subseteq Nat
      BY DEF Continued, TypeOK
    <3>2. CASE act = "stop"
      BY <2>6, <2>7, <3>2 DEF Truncations
    <3>3. CASE act = "continue" /\ Continued = {}
      BY <1>a, <2>6, <3>3
    <3>4. CASE act = "continue" /\ Continued # {}
      <4>1. PICK m \in Continued : \A j \in Continued : j <= m
        BY <3>4 DEF Truncations
      <4>2. CASE i <= m
        BY <1>a, <2>6, <3>1, <3>4, <4>1, <4>2
      <4>3. CASE ~(i <= m)
        BY <1>a, <2>6, <3>1, <3>4, <4>1, <4>3
      <4> QED BY <4>2, <4>3
    <3> QED BY <3>2, <3>3, <3>4
  <2>10. StopsAreLast'
    <3> SUFFICES ASSUME NEW k \in DOMAIN replies, NEW j \in DOMAIN replies,
                        replies'[k].act = "stop", replies'[j].reader = replies'[k].reader
                 PROVE  j <= k
      BY <1>d DEF StopsAreLast
    <3>1. replies[j].reader = replies[k].reader
      BY <1>d
    <3>2. CASE k = i
      BY <1>a, <3>1, <3>2 DEF RepliesTo
    <3>3. CASE k # i
      BY <1>d, <3>1, <3>3 DEF Truncations, StopsAreLast
    <3> QED BY <3>2, <3>3
  <2> QED BY <2>1, <2>2, <2>3, <2>8, <2>9, <2>10 DEF Truncations
<1> QED BY <1>1, <1>3, <1>4, <1>5, <1>6

-----------------------------------------------------------------------------
(* The steps of the coordinator and the interruptions.                         *)

\* What is said of the readers when all they may do is stop.
LEMMA ReadersStand ==
  ASSUME IInv, UNCHANGED <<record, child, disk, replies>>,
         \A u \in Reader : \/ reader'[u] = reader[u]
                           \/ reader'[u].at \in {"idle", "waiting"} /\ reader'[u].why = "none"
  PROVE  Submissions' /\ Truncations'
<1> USE DEF IInv
<1>1. Submissions'
  <2> SUFFICES ASSUME NEW u \in Reader PROVE (SubmissionOf(u) /\ DeliveryOf(u) /\ LastSubmits(u))'
    BY DEF Submissions
  <2>1. SubmissionOf(u) /\ DeliveryOf(u) /\ LastSubmits(u)
    BY DEF Submissions
  <2>2. CASE reader'[u] = reader[u]
    BY <2>1, <2>2, SameReplies DEF SubmissionOf, DeliveryOf, LastSubmits
  <2>3. CASE reader'[u].at \in {"idle", "waiting"} /\ reader'[u].why = "none"
    BY <2>1, <2>3, SameReplies DEF SubmissionOf, DeliveryOf, LastSubmits, Working, Submitting
  <2> QED BY <2>2, <2>3
<1>2. \A u \in Reader : RepliesOf(u)'
  <2> SUFFICES ASSUME NEW u \in Reader PROVE RepliesOf(u)'
    OBVIOUS
  <2>1. RepliesOf(u)
    BY DEF Truncations
  <2> QED BY <2>1, SameReplies DEF RepliesOf, At, Working, Submitting
<1>3. Truncations'
  BY <1>2, SameTruncations
<1> QED BY <1>1, <1>3

\* What is said of the answers when no answer is given.
LEMMA SameAnswers ==
  ASSUME IInv, UNCHANGED child,
         \A k \in DOMAIN calls' : calls'[k].state = "answered" =>
           k \in DOMAIN calls /\ calls'[k] = calls[k]
  PROVE  AnswerIsComplete' /\ CancelledIsNoResult'
BY DEF IInv, AnswerIsComplete, CancelledIsNoResult

\* A delegation.
LEMMA DelegateIInv ==
  ASSUME NEW asked \in Requests, IInv, Delegate(asked)
  PROVE  IInv'
<1> DEFINE new == [asked |-> asked, batch |-> {}, state |-> "open", answer |-> [t \in {} |-> NoRecord]]
<1> USE DEF IInv, Delegate
<1>0. /\ calls' = Append(calls, new) /\ DOMAIN calls' = 1..Len(calls) + 1
      /\ \A k \in DOMAIN calls : calls'[k] = calls[k]
      /\ calls'[Len(calls) + 1] = new /\ Len(calls') = Len(calls) + 1 /\ Len(calls) \in Nat
  BY DEF TypeOK
<1>1. TypeOK'
  <2>1. new.answer \in UNION {[S -> RecordOf] : S \in SUBSET Reader}
    <3>1. new.answer \in [{} -> RecordOf]
      OBVIOUS
    <3> QED BY <3>1
  <2>2. new \in CallOf
    BY <2>1, ReaderBatchAssumption DEF CallOf
  <2>3. calls' \in Seq(CallOf)
    BY <2>2 DEF TypeOK
  <2>4. Len(calls') <= MaxDelegations
    BY <1>0, ReaderBatchAssumption
  <2> QED BY <2>3, <2>4 DEF TypeOK
<1>2. Filed'
  <2>1. asked # {}
    BY ReaderBatchAssumption
  <2>2. \A k \in DOMAIN calls' :
          /\ calls'[k].asked # {}
          /\ calls'[k].batch # {} => /\ calls'[k].asked \subseteq calls'[k].batch
                                     /\ k = 1 => Drawings \subseteq calls'[k].batch
    BY <1>0, <2>1 DEF Filed
  <2>3. Len(calls') = 1 => FirstDispatch'
    <3>1. Len(calls') = 1 => calls = <<>>
      BY <1>0 DEF TypeOK
    <3> QED BY <3>1 DEF Filed, FirstDispatch
  <2>4. calls' # <<>> /\ Call'.state = "open" /\ coord'.at = "invoked"
    BY <1>0 DEF Call, Current, TypeOK
  <2> QED BY <2>2, <2>3, <2>4 DEF Filed
<1>3. AnswerIsComplete' /\ CancelledIsNoResult'
  BY <1>0, SameAnswers
<1>4. Returned'
  BY DEF Returned, TypeOK
<1> QED BY <1>1, <1>2, <1>3, <1>4, ReadersStand

\* The current delegation is amended.
LEMMA AmendedCall ==
  ASSUME TypeOK, calls # <<>>, NEW new \in CallOf, calls' = [calls EXCEPT ![Current] = new]
  PROVE  /\ DOMAIN calls' = DOMAIN calls /\ calls' \in Seq(CallOf) /\ Len(calls') = Len(calls)
         /\ Current \in DOMAIN calls /\ Current \in Nat /\ Current' = Current /\ Call' = new
         /\ calls'[Current] = new /\ \A k \in DOMAIN calls : k # Current => calls'[k] = calls[k]
         /\ calls' # <<>>
BY DEF TypeOK, Current, Call

\* What is filed, when the current delegation is amended but not what was asked.
LEMMA AmendedFiled ==
  ASSUME IInv, calls # <<>>, NEW new \in CallOf, calls' = [calls EXCEPT ![Current] = new],
         new.asked = Call.asked, new.batch = {} => Call.batch = {},
         new.batch # {} => new.asked \subseteq new.batch /\ (Current = 1 => Drawings \subseteq new.batch),
         UNCHANGED record,
         coord'.at \in {"invoked", "gathering", "cancelling"} => new.state = "open",
         coord'.at \in {"gathering", "cancelling"} => new.batch # {}
  PROVE  Filed'
<1>1. /\ DOMAIN calls' = DOMAIN calls /\ Len(calls') = Len(calls)
      /\ Current \in DOMAIN calls /\ Current' = Current /\ Call' = new
      /\ calls'[Current] = new /\ \A k \in DOMAIN calls : k # Current => calls'[k] = calls[k]
      /\ calls' # <<>>
  BY AmendedCall DEF IInv
<1>2. \A k \in DOMAIN calls' :
        /\ calls'[k].asked # {}
        /\ calls'[k].batch # {} => /\ calls'[k].asked \subseteq calls'[k].batch
                                   /\ k = 1 => Drawings \subseteq calls'[k].batch
  BY <1>1 DEF IInv, Filed, Call
<1>3. Len(calls') = 1 /\ new.batch = {} => FirstDispatch'
  BY <1>1 DEF IInv, Filed, FirstDispatch
<1> QED BY <1>1, <1>2, <1>3 DEF Filed

\* The batch is filed and its readers line up.
LEMMA ExpandIInv ==
  ASSUME IInv, Expand
  PROVE  IInv'
<1> DEFINE batch == FiledOrExpanded
           new == [Call EXCEPT !.batch = batch]
<1> USE DEF IInv
<1>0. /\ calls # <<>> /\ Current \in DOMAIN calls /\ Call \in CallOf /\ Call.asked # {} /\ Current \in Nat
      /\ Call.state = "open"
  BY DEF Expand, Filed, Call, Current, TypeOK
<1>a. /\ batch \subseteq Reader /\ batch # {} /\ Call.asked \subseteq batch
      /\ Current = 1 => Drawings \subseteq batch
  <2>1. CASE Call.batch # {}
    BY <1>0, <2>1 DEF FiledOrExpanded, Filed, Call, CallOf
  <2>2. CASE Call.batch = {}
    BY <1>0, <2>2, ReaderBatchAssumption DEF FiledOrExpanded, Expanded, Filed, CallOf, Current
  <2> QED BY <2>1, <2>2
<1>b. /\ calls' = [calls EXCEPT ![Current] = new]
      /\ new.asked = Call.asked /\ new.batch = batch /\ new.state = Call.state /\ new \in CallOf
  BY <1>0, <1>a DEF Expand, Call, CallOf
<1>c. /\ DOMAIN calls' = DOMAIN calls /\ calls' \in Seq(CallOf) /\ Len(calls') = Len(calls)
      /\ calls'[Current] = new /\ \A k \in DOMAIN calls : k # Current => calls'[k] = calls[k]
  BY <1>0, <1>b, AmendedCall
<1>d. /\ reader' = [t \in Reader |-> IF t \in batch THEN [at |-> "waiting", why |-> "none"] ELSE Idle]
      /\ coord' = [coord EXCEPT !.at = "gathering"]
      /\ UNCHANGED <<record, child, disk, replies, restarts>>
  BY DEF Expand
<1>1. TypeOK'
  <2>1. reader' \in [Reader -> ReaderOf]
    BY <1>d DEF ReaderOf, Reason, Idle
  <2> QED BY <1>c, <1>d, <2>1 DEF TypeOK
<1>2. Filed'
  BY <1>0, <1>a, <1>b, <1>d, AmendedFiled
<1>3. AnswerIsComplete' /\ CancelledIsNoResult'
  BY <1>0, <1>b, <1>c, <1>d, SameAnswers
<1>4. Returned'
  BY <1>d DEF Returned, At, Idle
<1>5. Submissions' /\ Truncations'
  BY <1>d, ReadersStand DEF Idle
<1> QED BY <1>1, <1>2, <1>3, <1>4, <1>5

\* The answer to a delegation.
LEMMA AnswerIInv ==
  ASSUME IInv, Answer
  PROVE  IInv'
<1> DEFINE given == [t \in Call.batch |-> record[t]]
           new == [Call EXCEPT !.state = "answered", !.answer = given]
<1> USE DEF IInv
<1>0. /\ calls # <<>> /\ Current \in DOMAIN calls /\ Call \in CallOf /\ Call.batch # {}
      /\ Call.batch \subseteq Reader /\ coord.at = "gathering"
  <2>1. coord.at = "gathering"
    BY DEF Answer
  <2>2. calls # <<>> /\ Call.batch # {}
    BY <2>1 DEF Filed
  <2>3. Current \in DOMAIN calls /\ Call \in CallOf
    BY <2>2 DEF Current, Call, TypeOK
  <2> QED BY <2>1, <2>2, <2>3 DEF CallOf
<1>a. Call.asked \subseteq Call.batch /\ (Current = 1 => Drawings \subseteq Call.batch)
  BY <1>0 DEF Filed, Call
<1>b. given \in [Call.batch -> RecordOf] /\ DOMAIN given = Call.batch
  BY <1>0 DEF TypeOK
<1>c. /\ new \in CallOf /\ calls' = [calls EXCEPT ![Current] = new]
      /\ new.asked = Call.asked /\ new.batch = Call.batch /\ new.state = "answered" /\ new.answer = given
  <2>1. given \in UNION {[S -> RecordOf] : S \in SUBSET Reader}
    BY <1>0, <1>b
  <2>2. calls' = [calls EXCEPT ![Current] = new]
    BY <1>0 DEF Answer, Call, TypeOK
  <2>3. new \in CallOf
    BY <1>0, <2>1 DEF CallOf
  <2> HIDE DEF given
  <2> QED BY <1>0, <2>2, <2>3 DEF CallOf
<1> HIDE DEF given, new
<1>d. /\ DOMAIN calls' = DOMAIN calls /\ calls' \in Seq(CallOf) /\ Len(calls') = Len(calls)
      /\ calls'[Current] = new /\ \A k \in DOMAIN calls : k # Current => calls'[k] = calls[k]
  BY <1>0, <1>c, AmendedCall
<1>e. /\ reader' = [t \in Reader |-> Idle] /\ coord' = [at |-> "idle", recovers |-> FALSE]
      /\ UNCHANGED <<record, child, disk, replies, restarts>>
      /\ \A t \in Call.batch : At(t, "ended")
  BY DEF Answer
<1>f. \A t \in Call.batch : given[t] = record[t]
  BY DEF given
<1>1. TypeOK'
  <2>1. reader' \in [Reader -> ReaderOf]
    BY <1>e DEF ReaderOf, Reason, Idle
  <2> QED BY <1>d, <1>e, <2>1 DEF TypeOK
<1>2. Filed'
  BY <1>0, <1>a, <1>c, <1>e, AmendedFiled
<1>3. AnswerIsComplete'
  <2>1. \A t \in Call.batch : given[t].status \in {"completed", "failed"}
    BY <1>0, <1>e, <1>f DEF Returned
  <2> QED BY <1>a, <1>b, <1>c, <1>d, <2>1 DEF AnswerIsComplete
<1>4. CancelledIsNoResult'
  <2>1. \A t \in Call.batch : given[t].reason = "cancelled" => child'[t].cancelled
    BY <1>0, <1>e, <1>f DEF Returned
  <2> QED BY <1>b, <1>c, <1>d, <1>e, <2>1 DEF CancelledIsNoResult
<1>5. Returned'
  BY <1>e DEF Returned
<1>6. Submissions' /\ Truncations'
  BY <1>e, ReadersStand DEF Idle
<1> QED BY <1>1, <1>2, <1>3, <1>4, <1>5, <1>6

\* Steps of the coordinator that leave the delegations alone.
LEMMA CoordinatorMoves ==
  ASSUME IInv, UNCHANGED <<calls, record, child, disk, replies, restarts>>,
         coord' \in [at : {"cancelling", "down", "finished"}, recovers : BOOLEAN],
         coord'.at = "cancelling" => coord.at = "gathering",
         reader' = reader \/ reader' = [t \in Reader |-> Idle]
  PROVE  IInv'
<1> USE DEF IInv
<1>1. TypeOK'
  BY DEF TypeOK, ReaderOf, Reason, Idle
<1>2. Filed'
  BY DEF Filed, Call, Current, FirstDispatch
<1>3. AnswerIsComplete' /\ CancelledIsNoResult' /\ Returned'
  BY DEF AnswerIsComplete, CancelledIsNoResult, Returned
<1>4. Submissions' /\ Truncations'
  BY ReadersStand DEF Idle
<1> QED BY <1>1, <1>2, <1>3, <1>4

\* The coordinator completes, its delegation is cancelled, or the process is killed.
LEMMA InterruptionIInv ==
  ASSUME IInv, Finish \/ Cancel \/ Kill
  PROVE  IInv'
<1>1. CASE Finish
  BY <1>1, CoordinatorMoves DEF IInv, Finish, TypeOK
<1>2. CASE Cancel
  BY <1>2, CoordinatorMoves DEF IInv, Cancel, TypeOK
<1>3. CASE Kill
  BY <1>3, CoordinatorMoves DEF IInv, Kill, TypeOK
<1> QED BY <1>1, <1>2, <1>3

\* A cancelled delegation.
LEMMA CancelledIInv ==
  ASSUME IInv, Cancelled
  PROVE  IInv'
<1> USE DEF IInv
<1>0. calls # <<>> /\ Current \in DOMAIN calls /\ Call \in CallOf /\ Call.state = "open"
  BY DEF Cancelled, Filed, Call, Current, TypeOK
<1>1. PICK state \in {"open", "unknown"} : calls' = [calls EXCEPT ![Current].state = state]
  BY <1>0 DEF Cancelled, Call
<1> DEFINE new == [Call EXCEPT !.state = state]
<1>2. /\ calls' = [calls EXCEPT ![Current] = new] /\ new \in CallOf
      /\ new.asked = Call.asked /\ new.batch = Call.batch /\ new.state = state
  BY <1>0, <1>1 DEF Call, CallOf, TypeOK
<1>3. /\ reader' = [t \in Reader |-> Idle] /\ coord' = [at |-> "stopped", recovers |-> FALSE]
      /\ UNCHANGED <<record, child, disk, replies, restarts>>
  BY DEF Cancelled
<1> HIDE DEF new
<1>4. /\ DOMAIN calls' = DOMAIN calls /\ calls' \in Seq(CallOf) /\ Len(calls') = Len(calls)
      /\ calls'[Current] = new /\ \A k \in DOMAIN calls : k # Current => calls'[k] = calls[k]
  BY <1>0, <1>2, AmendedCall
<1>5. TypeOK'
  <2>1. reader' \in [Reader -> ReaderOf]
    BY <1>3 DEF ReaderOf, Reason, Idle
  <2> QED BY <1>3, <1>4, <2>1 DEF TypeOK
<1>6. Filed'
  <2>1. new.batch # {} => new.asked \subseteq new.batch /\ (Current = 1 => Drawings \subseteq new.batch)
    BY <1>0, <1>2 DEF Filed, Call
  <2> QED BY <1>0, <1>2, <1>3, <2>1, AmendedFiled
<1>7. AnswerIsComplete' /\ CancelledIsNoResult'
  BY <1>2, <1>3, <1>4, SameAnswers
<1>8. Returned'
  BY <1>3 DEF Returned
<1>9. Submissions' /\ Truncations'
  BY <1>3, ReadersStand DEF Idle
<1> QED BY <1>5, <1>6, <1>7, <1>8, <1>9

\* A new life of the process.
LEMMA RestartIInv ==
  ASSUME IInv, Restart
  PROVE  IInv'
<1> USE DEF IInv
<1>0. restarts' \in Nat /\ UNCHANGED <<record, child, disk, reader, replies>>
  BY ReaderBatchAssumption DEF Restart, TypeOK
<1>1. Submissions' /\ Truncations'
  BY <1>0, ReadersStand
<1>2. CASE UNCHANGED calls /\ coord' = [at |-> "idle", recovers |-> FALSE]
  <2>1. TypeOK'
    BY <1>0, <1>2 DEF TypeOK
  <2>2. Filed' /\ Returned'
    BY <1>0, <1>2 DEF Filed, Returned, FirstDispatch, Call, Current
  <2>3. AnswerIsComplete' /\ CancelledIsNoResult'
    BY <1>0, <1>2 DEF AnswerIsComplete, CancelledIsNoResult
  <2> QED BY <1>1, <2>1, <2>2, <2>3
<1>3. CASE /\ Interrupted \in {"open", "unknown"}
           /\ coord' = [at |-> "invoked", recovers |-> TRUE]
           /\ calls' = [calls EXCEPT ![Current].state = "open"]
  <2> DEFINE new == [Call EXCEPT !.state = "open"]
  <2>0. calls # <<>> /\ Current \in DOMAIN calls /\ Call \in CallOf
    BY <1>3 DEF Interrupted, Call, Current, TypeOK
  <2>1. /\ calls' = [calls EXCEPT ![Current] = new] /\ new \in CallOf
        /\ new.asked = Call.asked /\ new.batch = Call.batch /\ new.state = "open"
    BY <1>3, <2>0 DEF Call, CallOf, TypeOK
  <2> HIDE DEF new
  <2>2. /\ DOMAIN calls' = DOMAIN calls /\ calls' \in Seq(CallOf) /\ Len(calls') = Len(calls)
        /\ calls'[Current] = new /\ \A k \in DOMAIN calls : k # Current => calls'[k] = calls[k]
    BY <2>0, <2>1, AmendedCall
  <2>3. TypeOK'
    BY <1>0, <1>3, <2>2 DEF TypeOK
  <2>4. Filed'
    <3>1. new.batch # {} => new.asked \subseteq new.batch /\ (Current = 1 => Drawings \subseteq new.batch)
      BY <2>0, <2>1 DEF Filed, Call
    <3> QED BY <1>0, <1>3, <2>0, <2>1, <3>1, AmendedFiled
  <2>5. AnswerIsComplete' /\ CancelledIsNoResult'
    BY <1>0, <2>1, <2>2, SameAnswers
  <2>6. Returned'
    BY <1>3 DEF Returned
  <2> QED BY <1>1, <2>3, <2>4, <2>5, <2>6
<1> QED BY <1>2, <1>3 DEF Restart

-----------------------------------------------------------------------------
(* The theorems.                                                               *)

\* Every step keeps the invariant.
THEOREM NextIInv == IInv /\ [Next]_vars => IInv'
<1> SUFFICES ASSUME IInv, [Next]_vars PROVE IInv'
  OBVIOUS
<1>1. ASSUME NEW t \in Reader, ReaderStep(t) PROVE IInv'
  BY <1>1, ReuseIInv, TooLateIInv, EnterIInv, SetupFailsIInv, StartChildIInv, FirstCheckpointIInv,
     RestoreRefusesIInv, AlreadyCompletedIInv, RestoreGoesOnIInv, AskIInv, GiveUpIInv, RespondIInv,
     JudgeIInv, HaltIInv, InvokeIInv, SubmitIInv, RefuseSubmissionIInv, ExecuteIInv, CompleteIInv,
     WriteReceiptIInv, RecordIInv, TakesCancelIInv
  DEF ReaderStep
<1>2. CASE CoordinatorStep
  BY <1>2, ExpandIInv, AnswerIInv, CancelledIInv DEF CoordinatorStep
<1>3. CASE Finish \/ Cancel \/ Kill \/ Restart
  BY <1>3, InterruptionIInv, RestartIInv
<1>4. CASE \E asked \in Requests : Delegate(asked)
  BY <1>4, DelegateIInv
<1>5. CASE UNCHANGED vars
  <2>1. TypeOK' /\ Filed' /\ Returned' /\ AnswerIsComplete' /\ CancelledIsNoResult'
    BY <1>5 DEF IInv, vars, TypeOK, Filed, FirstDispatch, Call, Current, Returned, At, AnswerIsComplete,
                CancelledIsNoResult
  <2>2. Submissions' /\ Truncations'
    BY <1>5, ReadersStand DEF vars
  <2> QED BY <2>1, <2>2 DEF IInv
<1> QED BY <1>1, <1>2, <1>3, <1>4, <1>5 DEF Next

\* The invariant always holds.
THEOREM SessionInvariant == Spec => []IInv
BY InitIInv, NextIInv, PTL DEF Spec

\* The variables keep their types, in every instance.
THEOREM SessionTypes == Spec => []TypeOK
<1>1. IInv => TypeOK
  BY DEF IInv
<1> QED BY <1>1, SessionInvariant, PTL

\* An answered delegation accounts for every reader it asked for, and the first one
\* for every drawing, however often it was interrupted (session.py 961-1017).
THEOREM SessionAnswers == Spec => []AnswerIsComplete
<1>1. IInv => AnswerIsComplete
  BY DEF IInv
<1> QED BY <1>1, SessionInvariant, PTL

\* A cancellation is no result of a reader, unless its request was away (session.py 1029-1034).
THEOREM SessionCancellations == Spec => []CancelledIsNoResult
<1>1. IInv => CancelledIsNoResult
  BY DEF IInv
<1> QED BY <1>1, SessionInvariant, PTL

\* A delivery was submitted, executed and is on the disk (session.py 1177-1184).
THEOREM SessionDeliveries == Spec => []DeliveredIsCommitted
<1>1. IInv => DeliveredIsCommitted
  BY DEF IInv, Submissions, SubmissionOf, DeliveryOf, DeliveredIsCommitted
<1> QED BY <1>1, SessionInvariant, PTL

\* No step touches what a reader has delivered (session.py 1024-1034).
LEMMA StepDelivery ==
  ASSUME IInv, [Next]_vars, NEW t \in Reader, record[t].status = "completed"
  PROVE  record'[t] = record[t] /\ child'[t] = child[t] /\ disk'[t] = disk[t]
<1>1. reader[t].at \in {"idle", "waiting", "ended"} /\ ~MayRun(t) /\ record[t] # NoRecord
  BY DEF IInv, Submissions, DeliveryOf, MayRun, NoRecord
<1>2. ASSUME NEW u \in Reader, ReaderStep(u), u # t
      PROVE  record'[t] = record[t] /\ child'[t] = child[t] /\ disk'[t] = disk[t]
  BY <1>2 DEF IInv, TypeOK, ReaderStep, Saves, StopChild, Reuse, TooLate, Enter, SetupFails,
    StartChild, FirstCheckpoint, RestoreRefuses, AlreadyCompleted, RestoreGoesOn, Ask, GiveUp,
    Respond, Judge, Halt, Invoke, Submit, RefuseSubmission, Execute, Complete, WriteReceipt,
    Record, TakesCancel
<1>3. CASE ReaderStep(t)
  BY <1>1, <1>3 DEF IInv, TypeOK, ReaderStep, Turn, At, Restores, Reuse, TooLate, Enter,
    SetupFails, StartChild, FirstCheckpoint, RestoreRefuses, AlreadyCompleted, RestoreGoesOn,
    Ask, GiveUp, Respond, Judge, Halt, Invoke, Submit, RefuseSubmission, Execute, Complete,
    WriteReceipt, Record, TakesCancel
<1>4. CASE ~\E u \in Reader : ReaderStep(u)
  BY <1>4 DEF Next, vars, CoordinatorStep, Expand, Answer, Cancelled, Finish, Cancel, Kill, Restart, Delegate
<1> QED BY <1>2, <1>3, <1>4

\* A delivery is final, in every instance.
THEOREM SessionFinal == Spec => DeliveryIsFinal
<1>1. IInv /\ [Next]_vars =>
        [\A t \in Reader : record[t].status = "completed" =>
           record'[t] = record[t] /\ child'[t] = child[t] /\ disk'[t] = disk[t]]_vars
  BY StepDelivery
<1> QED BY <1>1, SessionInvariant, PTL DEF Spec, DeliveryIsFinal

\* The run goes on after no more truncated answers than its limit, and a reader that
\* was stopped for one is not asked again (loop.py 1000-1072).
THEOREM SessionTruncations == Spec => []TruncationsBounded
<1>1. ASSUME IInv PROVE Cardinality(Continued) <= MaxTotal
  <2> USE DEF IInv
  <2>0. MaxTotal \in Nat
    BY ReaderBatchAssumption
  <2>1. CASE Continued = {}
    BY <2>0, <2>1, FS_EmptySet
  <2>2. CASE Continued # {}
    <3>1. PICK m \in Continued : \A i \in Continued : i <= m
      BY <1>1, <2>2 DEF Truncations
    <3>2. m \in Nat /\ \A i \in Continued : i \in 1..m /\ replies[i].kind = "cut"
      BY <1>1, <3>1 DEF Continued, Truncations, TypeOK
    <3>3. Continued \subseteq {j \in 1..m : replies[j].kind = "cut"}
      BY <3>2
    <3>4. Cardinality(Continued) <= TruncatedUpTo(m) /\ Cardinality(Continued) \in Nat
      BY <3>2, <3>3, TruncatedIsNat, FS_Subset, FS_CardinalityType DEF TruncatedUpTo
    <3>5. TruncatedUpTo(m) <= MaxTotal /\ TruncatedUpTo(m) \in Nat
      BY <1>1, <3>1, <3>2, TruncatedIsNat DEF Truncations
    <3> QED BY <2>0, <3>4, <3>5
  <2> QED BY <2>1, <2>2
<1>2. IInv => TruncationsBounded
  BY <1>1 DEF IInv, Truncations, StopsAreLast, TruncationsBounded, Continued
<1> QED BY <1>2, SessionInvariant, PTL
=============================================================================
