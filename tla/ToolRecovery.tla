---------------------------- MODULE ToolRecovery ----------------------------
(***************************************************************************)
(* The tool calls of one task and their recovery.  A reply of the model    *)
(* asks for a batch of calls; the loop runs them one after the other: it   *)
(* journals the intent, awaits the tool, journals the result, shows it to  *)
(* the model and checkpoints.  A tool may raise or time out, and the       *)
(* process may end anywhere; the effect of a tool that was left behind can *)
(* still land later.  A resumed process replays the journal after the last *)
(* checkpoint, one entry at a time, decides about calls without a result,  *)
(* and compares the files with what the journal says they should be.  The  *)
(* coordinator first completes the calls it can recover by itself.         *)
(*                                                                         *)
(* The files are reduced to how often each call took effect, to edits made *)
(* while no process ran, and to a reader's cache of observations.          *)
(*                                                                         *)
(* Source: src/agent_runtime/loop.py, src/agent/runtime_tools.py,          *)
(* src/agent/runtime_roles/readers.py and session.py.                      *)
(***************************************************************************)
EXTENDS Integers, Sequences, FiniteSets, SequencesExt, Functions

CONSTANTS Call,           \* the identities of tool calls
          Roles,          \* the roles the task may have
          MaxRetries,     \* max_tool_recovery_retries
          RootToolCalls,  \* root_tool_calls, shared with the other tasks
          MaxBatch,       \* bound: calls in a reply
          MaxReplies,     \* bound: replies of the model (limits.model_calls)
          MaxResumes,     \* bound: how often the task is started again
          MaxEdits        \* bound: edits made while no process runs

ASSUME ToolRecoveryAssumption ==
  /\ "none" \notin Call /\ Roles \subseteq {"agent", "reader", "coordinator"}
  /\ {MaxRetries, RootToolCalls, MaxBatch, MaxReplies, MaxResumes, MaxEdits} \subseteq Nat

VARIABLES
  role,        \* what kind of agent the task is
  kind,        \* kind[c]: the kind of tool c calls, once a reply asked for it
  proc,        \* where the process is
  pc,          \* where the loop of a running process is
  reason,      \* why the process stopped
  mem,         \* what the process remembers
  at,          \* the journal entry the restore replays next
  attempt,     \* the tool call that is awaited
  world,       \* the files
  receipt,     \* receipt[c]: what the coordinator's own record of c says
  straggler,   \* calls left behind whose effect may still land
  journal,     \* replies and known results, in order
  invoked,     \* invoked[c]: tool_invocation events of c
  before,      \* before[c]: the files when c was last invoked
  open,        \* open[c]: the last invocation of c has no execution event
  outcome,     \* outcome[c]: the latest execution event of c
  checkpoint,  \* the last checkpoint, and the journal's length then
  rootCalls,   \* tool_invocation events of all tasks of the run
  resumes,     \* how often the task was started again
  told         \* what the model knew at its last request

vars == <<role, kind, proc, pc, reason, mem, at, attempt, world, receipt, straggler, journal,
          invoked, before, open, outcome, checkpoint, rootCalls, resumes, told>>

CallEvents == <<invoked, before, open, outcome>>
Process == <<proc, pc, reason>>
Fixed == <<role, resumes>>

NoCall == [call |-> "none", stage |-> "none", ok |-> FALSE]
Untouched == [applied |-> [c \in Call |-> 0], edits |-> 0, cache |-> {}]
NoMemory == [sources |-> <<>>, pending |-> 0, terminal |-> "", toolState |-> Untouched]

\* read may be fetched again; query only reads but may not; write and receipted
\* change the files, the second with a record of its own; delegate runs children.
KindsOf(r) == IF r = "coordinator" THEN {"read", "query", "write", "receipted", "delegate"}
              ELSE {"read", "query", "write"}

IsWrite(c) == kind[c] \in {"write", "receipted"}

\* Wrong on purpose: a write is fetched again.
PolicyRepeats(k) == IF k = "delegate" THEN "resume_task" ELSE "retry_read"

Policy(k) == CASE k = "read" -> "retry_read"
               [] k = "delegate" -> "resume_task"
               [] OTHER -> "manual"

RetriesLeft(c) == invoked[c] <= MaxRetries

AllowanceLeft == rootCalls < RootToolCalls

Known(c) == outcome[c] \in {"shown", "unshown"}

Reply(calls) == [type |-> "reply", calls |-> calls]
Result(c, shown) == [type |-> "result", call |-> c, shown |-> shown,
                     before |-> before[c], after |-> world]

\* The calls whose results are among the sources s of the conversation.
Answered(s) == {journal[s[i]].call : i \in {j \in DOMAIN s : journal[s[j]].type = "result"}}

\* c is the first call of the pending reply without an answer.
IsNext(c, m) ==
  LET calls == journal[m.pending].calls IN
  \E k \in DOMAIN calls :
    /\ calls[k] = c /\ c \notin Answered(m.sources)
    /\ \A j \in 1..(k - 1) : calls[j] \in Answered(m.sources)

-----------------------------------------------------------------------------
Init ==
  /\ role \in Roles
  /\ kind = [c \in Call |-> "unset"]
  /\ proc = "running" /\ pc = "loop" /\ reason = ""
  /\ mem = NoMemory
  /\ at = 0 /\ attempt = NoCall
  /\ world = Untouched
  /\ receipt = [c \in Call |-> "none"]
  /\ straggler = {}
  /\ journal = <<>>
  /\ invoked = [c \in Call |-> 0]
  /\ before = [c \in Call |-> Untouched]
  /\ open = [c \in Call |-> FALSE]
  /\ outcome = [c \in Call |-> "none"]
  /\ checkpoint = [memory |-> NoMemory, length |-> 0]
  /\ rootCalls = 0 /\ resumes = 0 /\ told = <<>>

Checkpoint(m) == checkpoint' = [memory |-> m, length |-> Len(journal)]

Stop(why) ==
  /\ proc' = "stopped" /\ reason' = why /\ pc' = "loop"
  /\ mem' = NoMemory /\ at' = 0 /\ attempt' = NoCall

InLoop == proc = "running" /\ pc = "loop"

StopOnTerminal ==
  /\ InLoop /\ mem.terminal # ""
  /\ Stop(mem.terminal)
  /\ UNCHANGED <<Fixed, kind, world, receipt, straggler, journal, CallEvents, checkpoint, rootCalls, told>>

Replies == Cardinality({i \in DOMAIN journal : journal[i].type = "reply"})

Batches == {s \in UNION {[1..n -> Call] : n \in 0..MaxBatch} : IsInjective(s)}

\* The model is asked and its reply journaled.  An identity may come again.
Ask(calls) ==
  /\ InLoop /\ mem.terminal = "" /\ mem.pending = 0 /\ Replies < MaxReplies
  /\ \E k \in [ToSet(calls) -> KindsOf(role)] :
       kind' = [c \in Call |-> IF c \in ToSet(calls) /\ kind[c] = "unset" THEN k[c] ELSE kind[c]]
  /\ journal' = Append(journal, Reply(calls))
  /\ told' = mem.sources
  /\ pc' = "replied"
  /\ UNCHANGED <<Fixed, proc, reason, mem, at, attempt, world, receipt, straggler, CallEvents,
                 checkpoint, rootCalls>>

OutOfReplies ==
  /\ InLoop /\ mem.terminal = "" /\ mem.pending = 0 /\ Replies = MaxReplies
  /\ Stop("model_budget_exhausted")
  /\ UNCHANGED <<Fixed, kind, world, receipt, straggler, journal, CallEvents, checkpoint, rootCalls, told>>

\* _accept_response on the memory m.
WithReply(m, i) ==
  LET calls == ToSet(journal[i].calls)
      additional == {c \in calls : invoked[c] = 0}
  IN CASE i \in ToSet(m.sources) -> m
       [] i \notin ToSet(m.sources) /\ rootCalls + Cardinality(additional) > RootToolCalls ->
            [m EXCEPT !.terminal = "root_tool_budget_exhausted"]
       [] i \notin ToSet(m.sources) /\ rootCalls + Cardinality(additional) <= RootToolCalls
            /\ calls \cap Answered(m.sources) # {} ->
            [m EXCEPT !.terminal = "tool_authorization_failed"]
       [] OTHER ->
            [m EXCEPT !.sources = Append(@, i), !.pending = IF calls = {} THEN @ ELSE i,
                      !.terminal = IF calls = {} THEN "completed" ELSE @]

\* _accept_execution on the memory m.
WithResult(m, i) ==
  IF journal[i].call \in Answered(m.sources) THEN m
  ELSE IF journal[i].shown THEN [m EXCEPT !.sources = Append(@, i)]
  ELSE [m EXCEPT !.terminal = "tool_presentation_failed"]

AcceptReply ==
  /\ proc = "running" /\ pc = "replied"
  /\ mem' = WithReply(mem, Len(journal))
  /\ Checkpoint(mem')
  /\ pc' = "loop"
  /\ UNCHANGED <<Fixed, kind, proc, reason, at, attempt, world, receipt, straggler, journal,
                 CallEvents, rootCalls, told>>

\* Why the call c is not made; "" when it is.
Refusal(c) ==
  IF ~(rootCalls < RootToolCalls) THEN "root_tool_budget_exhausted"
  ELSE IF outcome[c] = "unknown" /\ Policy(kind[c]) # "retry_read" THEN "resume_pending_operation"
  ELSE IF outcome[c] = "unknown" /\ ~RetriesLeft(c) THEN "tool_recovery_retries_exhausted"
  ELSE ""

AtCall(c) == InLoop /\ mem.terminal = "" /\ mem.pending # 0 /\ IsNext(c, mem)

RefuseCall(c) ==
  /\ AtCall(c)
  /\ \E why \in {"time_budget_exhausted", Refusal(c)} \ {""} : Stop(why)
  /\ UNCHANGED <<Fixed, kind, world, receipt, straggler, journal, CallEvents, checkpoint, rootCalls, told>>

\* An invocation event of c.
Intend(c) ==
  /\ invoked' = [invoked EXCEPT ![c] = @ + 1]
  /\ before' = [before EXCEPT ![c] = world]
  /\ open' = [open EXCEPT ![c] = TRUE]
  /\ rootCalls' = rootCalls + 1
  /\ UNCHANGED outcome

Invoke(c) ==
  /\ AtCall(c) /\ Refusal(c) = ""
  /\ Intend(c)
  /\ mem' = [mem EXCEPT !.toolState = world]
  /\ attempt' = [call |-> c, stage |-> "started", ok |-> TRUE]
  /\ pc' = "calling"
  /\ UNCHANGED <<Fixed, kind, proc, reason, at, world, receipt, straggler, journal, checkpoint, told>>

-----------------------------------------------------------------------------
\* The tool.  A call the coordinator recovers goes the same way.
At(c, k, stage) == attempt.call = c /\ kind[c] \in k /\ attempt.stage = stage

Becomes(stage) == attempt' = [attempt EXCEPT !.stage = stage]

Applied(c) == world' = [world EXCEPT !.applied[c] = @ + 1]

InTool == <<Fixed, kind, Process, mem, at, journal, CallEvents, checkpoint, rootCalls, told>>

\* A reader remembers the references it was given.
ToolReads(c) ==
  /\ At(c, {"read", "query"}, "started") /\ Becomes("returned")
  /\ world' \in {world, [world EXCEPT !.cache = IF role = "reader" THEN @ \cup {c} ELSE @]}
  /\ UNCHANGED <<InTool, receipt, straggler>>

ToolWrites(c) ==
  /\ At(c, {"write"}, "started") /\ Becomes("applied") /\ Applied(c)
  /\ UNCHANGED <<InTool, receipt, straggler>>

\* Wrong on purpose: an operation that began before is begun again.
BeginsAgain(c) == receipt[c] # "done"

\* A record without a result refuses the operation.
MayBegin(c) == receipt[c] = "none"

\* _once: the record before the call, ...
ToolBegins(c) ==
  /\ At(c, {"receipted"}, "started") /\ MayBegin(c) /\ Becomes("begun")
  /\ receipt' = [receipt EXCEPT ![c] = "begun"]
  /\ UNCHANGED <<InTool, world, straggler>>

\* ... the call, ...
ToolMutates(c) ==
  /\ At(c, {"receipted"}, "begun") /\ Becomes("applied") /\ Applied(c)
  /\ UNCHANGED <<InTool, receipt, straggler>>

\* ... and the result after it.
ToolSaves(c) ==
  /\ At(c, {"receipted"}, "applied") /\ Becomes("returned")
  /\ receipt' = [receipt EXCEPT ![c] = "done"]
  /\ UNCHANGED <<InTool, world, straggler>>

\* Children that delivered are not run again.
ToolDelegates(c) ==
  /\ At(c, {"delegate"}, "started") /\ receipt[c] # "done" /\ Becomes("returned")
  /\ Applied(c)
  /\ receipt' = [receipt EXCEPT ![c] = "done"]
  /\ UNCHANGED <<InTool, straggler>>

\* A write answers, or the saved answer of an earlier attempt is returned.
ToolReturns(c) ==
  /\ \/ At(c, {"write"}, "applied")
     \/ At(c, {"receipted", "delegate"}, "started") /\ receipt[c] = "done"
  /\ Becomes("returned")
  /\ UNCHANGED <<InTool, world, receipt, straggler>>

\* A tool answers that it refuses.
ToolRefuses(c) ==
  /\ \/ At(c, {"write", "delegate"}, "started")
     \/ At(c, {"receipted"}, "started") /\ receipt[c] # "done"
  /\ attempt' = [attempt EXCEPT !.stage = "returned", !.ok = FALSE]
  /\ UNCHANGED <<InTool, world, receipt, straggler>>

\* The call was handed over and its effect has not been seen.
LeftBehind ==
  {c \in Call : At(c, {"write"}, "started") \/ At(c, {"receipted"}, "begun")}

\* The effect of a call left behind.
LateEffect(c) ==
  /\ c \in straggler
  /\ straggler' = straggler \ {c} /\ Applied(c)
  /\ UNCHANGED <<Fixed, kind, Process, mem, at, attempt, receipt, journal, CallEvents, checkpoint,
                 rootCalls, told>>

\* The tool raises or runs out of time: its outcome is unknown, and the task stops.
ToolRaises(c) ==
  /\ pc = "calling" /\ attempt.call = c /\ attempt.stage # "returned"
  /\ open' = [open EXCEPT ![c] = FALSE]
  /\ outcome' = [outcome EXCEPT ![c] = "unknown"]
  /\ straggler' = straggler \cup LeftBehind
  /\ Stop(IF IsWrite(c) THEN "unknown_write_outcome" ELSE "tool_error")
  /\ UNCHANGED <<Fixed, kind, world, receipt, journal, invoked, before, checkpoint, rootCalls, told>>

\* An execution event of c with a known outcome.
Execute(c, shown) ==
  /\ journal' = Append(journal, Result(c, shown))
  /\ outcome' = [outcome EXCEPT ![c] = IF shown THEN "shown" ELSE "unshown"]
  /\ open' = [open EXCEPT ![c] = FALSE]
  /\ UNCHANGED <<invoked, before>>

Record(c) ==
  /\ pc = "calling" /\ attempt.call = c /\ attempt.stage = "returned"
  /\ Execute(c, TRUE)
  /\ mem' = [mem EXCEPT !.toolState = world]
  /\ attempt' = NoCall /\ pc' = "recorded"
  /\ UNCHANGED <<Fixed, kind, proc, reason, at, world, receipt, straggler, checkpoint, rootCalls, told>>

\* The answer cannot be presented.
PresentationFails(c) ==
  /\ pc = "calling" /\ attempt.call = c /\ attempt.stage = "returned"
  /\ Execute(c, FALSE)
  /\ Stop("tool_presentation_failed")
  /\ UNCHANGED <<Fixed, kind, world, receipt, straggler, checkpoint, rootCalls, told>>

AcceptResult ==
  /\ pc = "recorded"
  /\ mem' = WithResult(mem, Len(journal))
  /\ Checkpoint(mem')
  /\ pc' = "loop"
  /\ UNCHANGED <<Fixed, kind, proc, reason, at, attempt, world, receipt, straggler, journal,
                 CallEvents, rootCalls, told>>

\* Wrong on purpose: the batch ends with its first answer.
SomeAnswer == ToSet(journal[mem.pending].calls) \cap Answered(mem.sources) # {}

\* Wrong on purpose: the batch stays pending.
StillPending == mem

BatchIsAnswered == ToSet(journal[mem.pending].calls) \subseteq Answered(mem.sources)

NothingPending == [mem EXCEPT !.pending = 0]

FinishBatch ==
  /\ InLoop /\ mem.terminal = "" /\ mem.pending # 0 /\ BatchIsAnswered
  /\ mem' = NothingPending
  /\ Checkpoint(mem')
  /\ UNCHANGED <<Fixed, kind, Process, at, attempt, world, receipt, straggler, journal, CallEvents,
                 rootCalls, told>>

-----------------------------------------------------------------------------
\* The process ends, wherever it is.
Crash ==
  /\ proc \notin {"down", "stopped"}
  /\ proc' = "down" /\ reason' = "" /\ pc' = "loop"
  /\ straggler' = straggler \cup LeftBehind
  /\ mem' = NoMemory /\ at' = 0 /\ attempt' = NoCall
  /\ UNCHANGED <<Fixed, kind, world, receipt, journal, CallEvents, checkpoint, rootCalls, told>>

\* Somebody edits the files while no process runs.
Edit ==
  /\ proc \in {"down", "stopped"} /\ world.edits < MaxEdits
  /\ world' = [world EXCEPT !.edits = @ + 1]
  /\ UNCHANGED <<Fixed, kind, Process, mem, at, attempt, receipt, straggler, journal, CallEvents,
                 checkpoint, rootCalls, told>>

\* Another task of the run makes a tool call, within the allowance.
OthersInvoke ==
  /\ proc = "running" /\ rootCalls < RootToolCalls
  /\ rootCalls' = rootCalls + 1
  /\ UNCHANGED <<Fixed, kind, Process, mem, at, attempt, world, receipt, straggler, journal,
                 CallEvents, checkpoint, told>>

\* A completed task is not run again: its receipt is returned.
Resume ==
  /\ proc \in {"down", "stopped"} /\ reason # "completed" /\ resumes < MaxResumes
  /\ resumes' = resumes + 1
  /\ proc' = "recovering" /\ reason' = "" /\ pc' = "loop"
  /\ UNCHANGED <<role, kind, mem, at, attempt, world, receipt, straggler, journal, CallEvents,
                 checkpoint, rootCalls, told>>

-----------------------------------------------------------------------------
\* recover_pending, which only the coordinator has.
Recovering == proc = "recovering" /\ attempt = NoCall

HasNoResult(c) == role = "coordinator" /\ invoked[c] > 0 /\ ~Known(c)

\* Its own record, or its children, tell how an interrupted call ended.
MayContinue(c) == HasNoResult(c) /\ open[c] /\ kind[c] \in {"receipted", "delegate"}

\* Children are run again within the bounds of a retry.
MayInvokeAgain(c) ==
  HasNoResult(c) /\ ~open[c] /\ kind[c] = "delegate" /\ RetriesLeft(c) /\ AllowanceLeft

RecoverCall(c) ==
  /\ Recovering
  /\ \/ MayContinue(c) /\ UNCHANGED <<CallEvents, rootCalls>>
     \/ MayInvokeAgain(c) /\ Intend(c)
  /\ attempt' = [call |-> c, stage |-> "started", ok |-> TRUE]
  /\ UNCHANGED <<Fixed, kind, Process, mem, at, world, receipt, straggler, journal, checkpoint, told>>

\* An answer is journaled, except for a refused write.
RecordRecovered(c) ==
  /\ proc = "recovering" /\ attempt.call = c /\ attempt.stage = "returned"
  /\ attempt.ok \/ kind[c] = "delegate"
  /\ Execute(c, TRUE)
  /\ attempt' = NoCall
  /\ UNCHANGED <<Fixed, kind, Process, mem, at, world, receipt, straggler, checkpoint, rootCalls, told>>

\* Wrong on purpose: the first entry after the checkpoint is left out.
OneTooFar == checkpoint.length + 2

FirstReplayed == checkpoint.length + 1

\* _restore starts: nothing is left to recover, or the write was refused, or it
\* can only be answered from a record that is not there.
BeginRestore ==
  /\ proc = "recovering"
  /\ \/ attempt = NoCall /\ \A c \in Call : ~MayContinue(c) /\ ~MayInvokeAgain(c)
     \/ attempt = NoCall /\ \E c \in Call : MayContinue(c) /\ kind[c] = "receipted" /\ receipt[c] # "done"
     \/ attempt.stage = "returned" /\ ~attempt.ok /\ kind[attempt.call] = "receipted"
  /\ proc' = "restoring"
  /\ mem' = checkpoint.memory /\ at' = FirstReplayed /\ attempt' = NoCall
  /\ UNCHANGED <<Fixed, kind, pc, reason, world, receipt, straggler, journal, CallEvents, checkpoint,
                 rootCalls, told>>

\* The files are expected to be what the last known result left.
Replay ==
  /\ proc = "restoring" /\ at <= Len(journal)
  /\ \/ journal[at].type = "reply" /\ mem' = WithReply(mem, at)
     \/ /\ journal[at].type = "result"
        /\ mem' = [WithResult(mem, at) EXCEPT
                     !.toolState = IF journal[at].shown THEN journal[at].after ELSE @]
  /\ at' = at + 1
  /\ UNCHANGED <<Fixed, kind, Process, attempt, world, receipt, straggler, journal, CallEvents,
                 checkpoint, rootCalls, told>>

\* Wrong on purpose: the files are not compared.
NeverCompared(unresolved) == TRUE

\* With a read to fetch again, a reader's observations may have grown.
Safe(unresolved) ==
  \/ mem.toolState = world
  \/ /\ unresolved # {} /\ role = "reader"
     /\ [mem.toolState EXCEPT !.cache = {}] = [world EXCEPT !.cache = {}]
     /\ mem.toolState.cache \subseteq world.cache

Inspect ==
  /\ proc = "restoring" /\ at > Len(journal)
  /\ open' = [c \in Call |-> FALSE]
  /\ outcome' = [c \in Call |-> IF open[c] THEN "unknown" ELSE outcome[c]]
  /\ LET unresolved == {c \in Call : outcome'[c] = "unknown"}
         refusals == {why \in {"resume_pending_operation", "tool_recovery_retries_exhausted"} :
           \E c \in unresolved :
             IF Policy(kind[c]) # "retry_read" THEN why = "resume_pending_operation"
             ELSE ~RetriesLeft(c) /\ why = "tool_recovery_retries_exhausted"}
     IN \/ /\ refusals # {}
           /\ \E why \in refusals : Stop(why)
           /\ UNCHANGED checkpoint
        \/ /\ refusals = {} /\ ~Safe(unresolved)
           /\ Stop("resume_state_changed")
           /\ UNCHANGED checkpoint
        \/ /\ refusals = {} /\ Safe(unresolved)
           /\ proc' = "running"
           /\ mem' = [mem EXCEPT !.toolState = world]
           /\ Checkpoint(mem')
           /\ at' = 0
           /\ UNCHANGED <<pc, reason, attempt>>
  /\ UNCHANGED <<Fixed, kind, world, receipt, straggler, journal, invoked, before, rootCalls, told>>

-----------------------------------------------------------------------------
LoopStep ==
  \/ StopOnTerminal \/ OutOfReplies \/ AcceptReply \/ AcceptResult \/ FinishBatch
  \/ \E calls \in Batches : Ask(calls)
  \/ \E c \in Call : RefuseCall(c) \/ Invoke(c) \/ Record(c) \/ PresentationFails(c)

ToolStep ==
  \E c \in Call : \/ ToolReads(c) \/ ToolWrites(c) \/ ToolBegins(c) \/ ToolMutates(c)
                  \/ ToolSaves(c) \/ ToolDelegates(c) \/ ToolReturns(c) \/ ToolRefuses(c)
                  \/ ToolRaises(c)

RestoreStep ==
  \/ BeginRestore \/ Replay \/ Inspect
  \/ \E c \in Call : RecoverCall(c) \/ RecordRecovered(c)

Environment == Crash \/ Edit \/ OthersInvoke \/ Resume \/ \E c \in Call : LateEffect(c)

Next == LoopStep \/ ToolStep \/ RestoreStep \/ Environment

Spec == Init /\ [][Next]_vars

\* The event loop runs what is ready, and an awaited tool answers or runs out of time.
FairSpec == Spec /\ WF_vars(LoopStep) /\ WF_vars(ToolStep) /\ WF_vars(RestoreStep)

-----------------------------------------------------------------------------
Files == [applied : [Call -> Nat], edits : Nat, cache : SUBSET Call]

\* Why a task stops; "" while it runs.
StopReason == {"", "completed", "model_budget_exhausted", "time_budget_exhausted",
  "root_tool_budget_exhausted", "tool_authorization_failed", "tool_presentation_failed",
  "tool_error", "unknown_write_outcome", "resume_pending_operation",
  "tool_recovery_retries_exhausted", "resume_state_changed"}

Memory == [sources : Seq(Nat), pending : Nat, terminal : StopReason, toolState : Files]

Entry == [type : {"reply"}, calls : Seq(Call)]
  \cup [type : {"result"}, call : Call, shown : BOOLEAN, before : Files, after : Files]

\* The variables have their types (loop.py 1385-1473, 1615-1850).
TypeOK ==
  /\ role \in Roles
  /\ kind \in [Call -> KindsOf("coordinator") \cup {"unset"}]
  /\ proc \in {"running", "stopped", "down", "recovering", "restoring"}
  /\ pc \in {"loop", "replied", "calling", "recorded"} /\ reason \in StopReason
  /\ mem \in Memory /\ at \in Nat
  /\ attempt \in [call : Call \cup {"none"}, stage : {"none", "started", "begun", "applied", "returned"},
                  ok : BOOLEAN]
  /\ world \in Files
  /\ receipt \in [Call -> {"none", "begun", "done"}]
  /\ straggler \subseteq Call
  /\ journal \in Seq(Entry)
  /\ invoked \in [Call -> Nat] /\ before \in [Call -> Files] /\ open \in [Call -> BOOLEAN]
  /\ outcome \in [Call -> {"none", "unknown", "unshown", "shown"}]
  /\ checkpoint \in [memory : Memory, length : Nat]
  /\ {rootCalls, resumes} \subseteq Nat /\ told \in Seq(Nat)

\* Whatever raises, runs out of time or crashes, and however often the task is
\* resumed, a call changes the files at most once, late effects included
\* (loop.py 1407-1413, session.py 1189-1212, 1305-1410).
EffectAtMostOnce == \A c \in Call : world.applied[c] <= 1

\* Once the outcome of a write is journaled as unknown, the task never asks the
\* model or calls a tool again (loop.py 1446-1448, 1765-1772).
UnknownWriteIsFinal ==
  [][(\E c \in Call : IsWrite(c) /\ outcome[c] = "unknown") => UNCHANGED <<journal, invoked>>]_vars

\* The model is asked only when each call of each reply has its answer, in the
\* order of the calls, right behind the reply (loop.py 1385-1473, 1520-1534).
ConversationIsWhole ==
  pc = "replied" =>
    \A i \in DOMAIN told : journal[told[i]].type = "reply" =>
      LET calls == journal[told[i]].calls IN
      \A k \in DOMAIN calls :
        /\ i + k \in DOMAIN told
        /\ journal[told[i + k]].type = "result" /\ journal[told[i + k]].call = calls[k]

\* When the model is asked, it is told everything the journal holds, each entry
\* once and in its place: no crash, retry or recovery loses an answer, doubles it
\* or moves it (loop.py 1624, 1693-1755, session.py 1336-1424).
ConversationIsJournal == pc = "replied" => told = [i \in 1..(Len(journal) - 1) |-> i]

\* A read, a query or a write works on the files as the answer before it in the
\* conversation left them: an edit or a late effect stops the task at its resume
\* (loop.py 1775-1791, readers.py 553-565).  Delegated and recovered calls account
\* for what changed while they were away.
WorksOnKnownFiles ==
  \A i, j \in DOMAIN mem.sources :
    LET earlier == journal[mem.sources[i]]
        later == journal[mem.sources[j]]
    IN (/\ earlier.type = "result" /\ later.type = "result"
        /\ \A k \in (i + 1)..(j - 1) : journal[mem.sources[k]].type = "reply"
        /\ i < j /\ kind[later.call] # "delegate") =>
       /\ later.before.applied = earlier.after.applied
       /\ later.before.edits = earlier.after.edits

\* Every process comes to an end: no reply, no tool and no resume keeps it running
\* for ever (loop.py 301-345).
EveryProcessEnds == []<>(proc \in {"stopped", "down"})
=============================================================================
