---------------------------- MODULE TaskControl ----------------------------
(***************************************************************************)
(* One task and its operator.  The operator, in another process, puts      *)
(* commands into an inbox; the task reads it at a safe boundary, records   *)
(* every command in its journal, applies it, and saves a checkpoint.       *)
(* Commands meet pauses, tool batches, retries, the final answer, crashes  *)
(* and restarts.                                                           *)
(*                                                                         *)
(* Memory is lost with the process.  A resume rebuilds it from the last    *)
(* checkpoint and the journal after it.                                    *)
(*                                                                         *)
(* Source: src/agent_runtime/control.py, and in loop.py run,               *)
(* _control_boundary, _apply_control, _checkpoint, _restore and _stop.     *)
(***************************************************************************)
EXTENDS Integers, FiniteSets, Sequences, SequencesExt

CONSTANTS Id,        \* command identities
          None,      \* no command
          MaxCalls,  \* the model calls the task may make
          MaxRuns    \* bound: how often the task is started or resumed

ASSUME ControlAssumption == MaxCalls \in Nat /\ MaxRuns \in Nat /\ None \notin Id

VARIABLES
  inbox,    \* the commands, in the order of their sequence numbers
  draft,    \* a command checked under the inbox lock and not yet in place
  journal,  \* the task's events
  saved,    \* the last checkpoint: memory, and the journal's length; 0 if none
  mem,      \* the task's memory
  todo,     \* the commands read from the inbox and not yet looked at
  pc,       \* where the task is
  receipt,  \* receipt.json: status, and whether it has completion evidence
  runs,     \* starts and resumes so far
  domain    \* completion is decided by saved results and not by an answer

vars == <<inbox, draft, journal, saved, mem, todo, pc, receipt, runs, domain>>

operator == <<inbox, draft>>

Action == {"pause", "resume", "message"}
Command == [id : Id, action : Action]

Memory == [applied : SUBSET Id, paused : BOOLEAN, pending : {"none", "open", "executed"},
           terminal : {"none", "completed", "stopped"}, evidence : BOOLEAN]

Blank == [applied |-> {}, paused |-> FALSE, pending |-> "none",
          terminal |-> "none", evidence |-> FALSE]

\* A reply ends the task, needs another turn, calls tools, or cannot be used.
Reply == {"answer", "interim", "calls", "rejected"}
Lifecycle == {"start", "resume", "failure", "completed", "stopped"}
Kind == Reply \cup Lifecycle \cup {"request", "results", "control"}

Event(kind) == [kind |-> kind, command |-> None]
Record(kind) == journal' = Append(journal, Event(kind))
Latest(kinds) == SelectLastInSeq(journal, LAMBDA e : e.kind \in kinds)
Count(kind) == Len(SelectSeq(journal, LAMBDA e : e.kind = kind))

\* The last lifecycle event of the task is its completion.
Completed == Latest(Lifecycle) > 0 /\ journal[Latest(Lifecycle)].kind = "completed"

Suffix == SubSeq(journal, saved.at + 1, Len(journal))

\* Wrong on purpose: whatever comes from the operator ends a pause.
ApplyAndGoOn(m, c) ==
  IF c.id \in m.applied THEN m
  ELSE [m EXCEPT !.applied = @ \cup {c.id}, !.paused = (c.action = "pause"),
                 !.terminal = IF c.action = "message" /\ @ = "completed" THEN "none" ELSE @]

\* Wrong on purpose: a message leaves the final answer as it is.
ApplyAfterAnswer(m, c) ==
  IF c.id \in m.applied THEN m
  ELSE [m EXCEPT !.applied = @ \cup {c.id},
                 !.paused = IF c.action = "message" THEN @ ELSE c.action = "pause"]

\* A message reopens a task whose answer is already there.
Apply(m, c) ==
  IF c.id \in m.applied THEN m
  ELSE LET seen == [m EXCEPT !.applied = @ \cup {c.id}] IN
       IF c.action = "message"
       THEN [seen EXCEPT !.terminal = IF @ = "completed" THEN "none" ELSE @]
       ELSE [seen EXCEPT !.paused = (c.action = "pause")]

Accept(m, kind) ==
  CASE kind = "answer"   -> [m EXCEPT !.terminal = "completed"]
    [] kind = "rejected" -> [m EXCEPT !.terminal = "stopped"]
    [] kind = "calls"    -> [m EXCEPT !.pending = "open"]
    [] OTHER             -> m

Replay(m, e) ==
  CASE e.kind = "control" -> Apply(m, e.command)
    [] e.kind = "results" -> [m EXCEPT !.pending = "executed"]
    [] OTHER              -> Accept(m, e.kind)

\* Wrong on purpose: a resume trusts the checkpoint alone.
CheckpointOnly == saved.mem

\* The checkpoint, and on it one event of the suffix after the other.
Restored ==
  LET after[n \in 0 .. Len(Suffix)] ==
        IF n = 0 THEN saved.mem ELSE Replay(after[n - 1], Suffix[n])
  IN  after[Len(Suffix)]

Position == Len(journal)

Checkpoint == saved' = [mem |-> mem, at |-> Position]

Alive == {"saving", "loop", "deliver", "asleep", "decide", "await", "failed", "replied"}

-----------------------------------------------------------------------------
Init ==
  /\ inbox = <<>> /\ draft = None
  /\ journal = <<>> /\ saved = [mem |-> Blank, at |-> 0]
  /\ mem = Blank /\ todo = <<>>
  /\ pc = "none" /\ runs = 0
  /\ receipt = [status |-> "none", evidence |-> FALSE]
  /\ domain \in BOOLEAN

(* The operator. *)

\* Under the inbox lock: the identity is new (which new one makes no difference),
\* and the task is not completed.  The same command again is answered with the
\* first one, and a reused identity refused; neither leaves a trace.
Submit(action) ==
  LET new == Id \ {inbox[i].id : i \in 1 .. Len(inbox)} IN
  /\ draft = None /\ new # {} /\ ~Completed
  /\ draft' = [id |-> CHOOSE id \in new : TRUE, action |-> action]
  /\ UNCHANGED <<inbox, journal, saved, mem, todo, pc, receipt, runs, domain>>

\* The command file gets its final name.
PlaceFile ==
  /\ draft # None
  /\ inbox' = Append(inbox, draft) /\ draft' = None
  /\ UNCHANGED <<journal, saved, mem, todo, pc, receipt, runs, domain>>

\* The operator's process ends before that; nobody reads a pending file.
LosePending ==
  /\ draft # None
  /\ draft' = None
  /\ UNCHANGED <<inbox, journal, saved, mem, todo, pc, receipt, runs, domain>>

(* The task. *)

Start ==
  /\ pc = "none" /\ runs < MaxRuns
  /\ Record("start")
  /\ pc' = "saving" /\ runs' = runs + 1
  /\ UNCHANGED <<operator, saved, mem, todo, receipt, domain>>

Save ==
  /\ pc = "saving"
  /\ Checkpoint
  /\ pc' = "loop"
  /\ UNCHANGED <<operator, journal, mem, todo, receipt, runs, domain>>

\* The saved results already are what the task was asked for.
FindEvidence ==
  /\ pc = "loop" /\ domain
  /\ mem.pending = "none" /\ mem.terminal = "none"
  /\ mem' = [mem EXCEPT !.evidence = TRUE, !.terminal = "completed"]
  /\ pc' = "saving"
  /\ UNCHANGED <<operator, journal, saved, todo, receipt, runs, domain>>

Stop(status) == Record(status) /\ pc' = "stopping"

StopOnEvidence ==
  /\ pc = "loop" /\ mem.evidence /\ mem.terminal = "completed"
  /\ Stop("completed")
  /\ UNCHANGED <<operator, saved, mem, todo, receipt, runs, domain>>

\* Wrong on purpose: the inbox is read in the middle of a tool batch.
AnyTime == TRUE

\* A complete tool interaction stays intact.
AtBoundary == mem.pending = "none"

ReadInbox ==
  /\ pc = "loop" /\ AtBoundary
  /\ ~(mem.evidence /\ mem.terminal = "completed")
  /\ todo' = inbox /\ pc' = "deliver"
  /\ UNCHANGED <<operator, journal, saved, mem, receipt, runs, domain>>

\* One command: its event and its effect.
Deliver ==
  /\ pc = "deliver" /\ todo # <<>>
  /\ todo' = Tail(todo)
  /\ IF Head(todo).id \in mem.applied
     THEN UNCHANGED <<journal, mem>>
     ELSE /\ journal' = Append(journal, [kind |-> "control", command |-> Head(todo)])
          /\ mem' = Apply(mem, Head(todo))
  /\ UNCHANGED <<operator, saved, pc, receipt, runs, domain>>

Delivered ==
  /\ pc = "deliver" /\ todo = <<>>
  /\ IF mem.applied # saved.mem.applied THEN Checkpoint ELSE UNCHANGED saved
  /\ pc' = IF mem.paused THEN "asleep" ELSE "decide"
  /\ UNCHANGED <<operator, journal, mem, todo, receipt, runs, domain>>

\* Wrong on purpose: a paused task waits without looking.
NothingNew == <<>>

Inbox == inbox

\* Paused: the inbox is read again every 0.1 seconds.
Wake ==
  /\ pc = "asleep"
  /\ todo' = Inbox /\ pc' = "deliver"
  /\ UNCHANGED <<operator, journal, saved, mem, receipt, runs, domain>>

Conclude ==
  /\ pc = "decide" /\ mem.terminal # "none"
  /\ Stop(mem.terminal)
  /\ UNCHANGED <<operator, saved, mem, todo, receipt, runs, domain>>

\* The batch of tools the last reply called, and its end.
RunTools ==
  /\ pc = "loop" /\ mem.pending = "open"
  /\ Record("results")
  /\ mem' = [mem EXCEPT !.pending = "executed"] /\ pc' = "saving"
  /\ UNCHANGED <<operator, saved, todo, receipt, runs, domain>>

FinishTools ==
  /\ pc = "loop" /\ mem.pending = "executed"
  /\ mem' = [mem EXCEPT !.pending = "none"] /\ pc' = "saving"
  /\ UNCHANGED <<operator, journal, saved, todo, receipt, runs, domain>>

\* A turn's first request, or another one after a failure, a refusal, a
\* truncated reply or a summary: these go out without another look at the inbox.
SendRequest ==
  /\ pc = "failed" \/ (pc = "decide" /\ mem.terminal = "none")
  /\ IF Count("request") < MaxCalls
     THEN Record("request") /\ pc' = "await"
     ELSE Stop("stopped")
  /\ UNCHANGED <<operator, saved, mem, todo, receipt, runs, domain>>

NoUsableReply ==
  /\ pc = "await"
  /\ Record("failure") /\ pc' = "failed"
  /\ UNCHANGED <<operator, saved, mem, todo, receipt, runs, domain>>

Receive(kind) ==
  /\ pc = "await" /\ (kind = "answer" => ~domain)
  /\ Record(kind) /\ pc' = "replied"
  /\ UNCHANGED <<operator, saved, mem, todo, receipt, runs, domain>>

AcceptReply ==
  /\ pc = "replied"
  /\ mem' = Accept(mem, Last(journal).kind) /\ pc' = "saving"
  /\ UNCHANGED <<operator, journal, saved, todo, receipt, runs, domain>>

\* Any other stop: budgets, deadlines, cancellation, errors.
GiveUp ==
  /\ pc \in Alive
  /\ Stop("stopped")
  /\ UNCHANGED <<operator, saved, mem, todo, receipt, runs, domain>>

WriteReceipt ==
  /\ pc = "stopping"
  /\ receipt' = [status |-> Last(journal).kind, evidence |-> mem.evidence]
  /\ pc' = "ended" /\ mem' = Blank /\ todo' = <<>>
  /\ UNCHANGED <<operator, journal, saved, runs, domain>>

ProcessEnds ==
  /\ pc \in Alive \cup {"stopping"}
  /\ pc' = "down" /\ mem' = Blank /\ todo' = <<>>
  /\ UNCHANGED <<operator, journal, saved, receipt, runs, domain>>

(* A resume. *)

Resuming == pc \in {"ended", "down"} /\ runs < MaxRuns /\ runs' = runs + 1

\* The journal after the checkpoint has a completion, and there is a receipt.
HasReceipt ==
  /\ \E i \in 1 .. Len(Suffix) : Suffix[i].kind = "completed"
  /\ receipt.status # "none"

\* Returns the receipt as it is.
AlreadyCompleted ==
  /\ Resuming /\ saved.at > 0 /\ HasReceipt
  /\ receipt.evidence = domain
  /\ pc' = "ended" /\ mem' = Blank /\ todo' = <<>>
  /\ UNCHANGED <<operator, journal, saved, receipt, domain>>

\* The configuration, the saved state or the outcome of a tool does not allow it.
RefuseResume ==
  /\ Resuming
  /\ mem' \in IF saved.at > 0 THEN {Blank, Restored} ELSE {Blank}
  /\ todo' = <<>>
  /\ Stop("stopped")
  /\ UNCHANGED <<operator, saved, receipt, domain>>

Resume ==
  /\ Resuming /\ saved.at > 0 /\ ~HasReceipt
  /\ mem' = Restored /\ todo' = <<>>
  /\ Record("resume") /\ pc' = "saving"
  /\ UNCHANGED <<operator, saved, receipt, domain>>

Progress ==
  \/ Save \/ FindEvidence \/ StopOnEvidence \/ ReadInbox \/ Deliver \/ Delivered
  \/ Wake \/ Conclude \/ RunTools \/ FinishTools \/ SendRequest
  \/ NoUsableReply \/ (\E kind \in Reply : Receive(kind)) \/ AcceptReply
  \/ WriteReceipt

Next ==
  \/ \E action \in Action : Submit(action)
  \/ PlaceFile \/ LosePending
  \/ Start \/ Progress \/ GiveUp \/ ProcessEnds
  \/ AlreadyCompleted \/ RefuseResume \/ Resume

Spec == Init /\ [][Next]_vars

\* The event loop runs the task, requests time out and tools return; nobody has
\* to submit, start, resume or stop anything.
FairSpec == Spec /\ WF_vars(Progress)

-----------------------------------------------------------------------------
(* Properties. *)

TypeOK ==
  /\ inbox \in Seq(Command) /\ draft \in Command \cup {None}
  /\ journal \in Seq([kind : Kind, command : Command \cup {None}])
  /\ saved \in [mem : Memory, at : 0 .. Len(journal)]
  /\ mem \in Memory /\ todo \in Seq(Command)
  /\ pc \in Alive \cup {"none", "stopping", "ended", "down"}
  /\ receipt \in [status : {"none", "completed", "stopped"}, evidence : BOOLEAN]
  /\ runs \in 0 .. MaxRuns /\ domain \in BOOLEAN

\* What the first n events of s say: which of them are acknowledgements, ...
Acks(s, n) == {i \in 1 .. n : s[i].kind = "control"}

Switches(e) == e.kind = "control" /\ e.command.action # "message"

\* ... whether a pause is in force, ...
Paused(s, n) ==
  \E p \in 1 .. n : /\ Switches(s[p]) /\ s[p].command.action = "pause"
                     /\ \A q \in p + 1 .. n : ~Switches(s[q])

\* ... whether every tool call has its results, ...
Whole(s, n) ==
  \A c \in 1 .. n : s[c].kind = "calls" => \E r \in c + 1 .. n : s[r].kind = "results"

\* ... and whether there is an answer after which no message came in.
Answered(s, n) ==
  \E a \in 1 .. n : /\ s[a].kind = "answer"
                     /\ \A m \in a + 1 .. n :
                          s[m].kind = "control" => s[m].command.action # "message"

\* Every command is acknowledged at most once and in the order it was put into
\* the inbox, whatever process ended between an acknowledgement and the next
\* checkpoint (_control_boundary against the replay in _restore): the k-th
\* acknowledgement is that of the k-th command.
AckedOnceInOrder ==
  \A n \in Acks(journal, Len(journal)) :
    LET k == Cardinality(Acks(journal, n))
    IN  k <= Len(inbox) /\ journal[n].command = inbox[k]

\* No request is sent while an acknowledged pause is in force, also not by the
\* process that resumes the task (runtime_controls.md: a restart keeps the pause).
PausedIsQuiet ==
  \A n \in 1 .. Len(journal) : journal[n].kind = "request" => ~Paused(journal, n - 1)

\* A task that ends by its answer has heard everything it acknowledged: between
\* that answer and the completion no message was taken in ("a correction arriving
\* during a final response still gets one ordinary budgeted turn", _apply_control).
MessageGetsATurn ==
  ~domain =>
    \A n \in 1 .. Len(journal) : journal[n].kind = "completed" => Answered(journal, n - 1)

\* Nothing comes between a tool call and its results but stops and restarts: no
\* command and no request ("a complete tool interaction stays intact", run).
InteractionIntact ==
  \A n \in 1 .. Len(journal) :
    journal[n].kind \in {"control", "request"} => Whole(journal, n - 1)

\* A command in the inbox is acknowledged, unless the task stops or its process
\* ends: a paused task keeps reading.
EveryCommandIsRead ==
  \A id \in Id :
    (\E i \in 1 .. Len(inbox) : inbox[i].id = id)
      ~> (id \in mem.applied \/ pc \in {"none", "stopping", "ended", "down"})

\* "Completed task cannot accept new controls" (submit_command).
NoControlAfterCompletion == [][inbox' # inbox => ~Completed]_vars

\* A task that has returned, and is completed by its journal, left the receipt of
\* that completion (continuation.py calls anything else an error: "source receipt
\* disagrees with terminal journal").
ReceiptOfCompletion == pc = "ended" /\ Completed => receipt.status = "completed"
=============================================================================
