------------------------- MODULE ToolRecoveryProofs -------------------------
(***************************************************************************)
(* What ToolRecovery promises for any number of calls, replies, retries    *)
(* and resumes: no call takes effect twice, a write whose outcome is       *)
(* unknown is final, the model is told the journal, each reply with its    *)
(* answers, and a call works on the files the answer before it left.       *)
(*                                                                         *)
(* The invariant comes in two layers.  The first says at which places of   *)
(* the process a call can be open, how far each kind of call can have      *)
(* gone, that at most one call that is no read is without a result, and up *)
(* to where the memory and the checkpoint follow the journal.  The second, *)
(* proved on top of it, says in which order the journal is and which       *)
(* result is due, that the checkpoint is at most one entry behind, what    *)
(* can be left behind, and how the files were left.                        *)
(***************************************************************************)
EXTENDS ToolRecovery, FiniteSetTheorems, TLAPS

\* Where a call can be open, and what is known when the loop runs.
Places ==
  /\ proc # "running" => pc = "loop"
  /\ attempt.call # "none" =>
       /\ open[attempt.call]
       /\ \/ proc = "running" /\ pc = "calling"
          \/ proc = "recovering" /\ kind[attempt.call] \in {"receipted", "delegate"}
  /\ proc = "running" => \A c \in Call :
       /\ open[c] => attempt.call = c
       /\ outcome[c] = "unknown" => kind[c] = "read"

\* What a call has gone through.
LifeOf(c) ==
  /\ kind[c] = "unset" => invoked[c] = 0
  /\ invoked[c] = 0 => /\ ~open[c] /\ outcome[c] = "none" /\ receipt[c] = "none"
                       /\ world.applied[c] = 0 /\ c \notin straggler
  /\ invoked[c] # 0 /\ outcome[c] = "none" => open[c]
  /\ open[c] => outcome[c] \in {"none", "unknown"}
  /\ open[c] /\ IsWrite(c) => outcome[c] = "none"

\* How far the effect of a call can have gone.
EffectOf(c) ==
  /\ world.applied[c] <= 1
  /\ c \in straggler => world.applied[c] = 0
  /\ kind[c] = "write" /\ attempt.call = c =>
       /\ attempt.stage = "started" => world.applied[c] = 0
       /\ attempt.stage \in {"started", "applied"} => c \notin straggler
  /\ kind[c] = "receipted" =>
       /\ receipt[c] = "none" => world.applied[c] = 0 /\ c \notin straggler
       /\ attempt.call = c /\ attempt.stage = "begun" => world.applied[c] = 0 /\ c \notin straggler
       /\ attempt.call = c /\ attempt.stage \in {"begun", "applied"} => receipt[c] # "none"
  /\ kind[c] = "delegate" =>
       /\ receipt[c] # "done" => world.applied[c] = 0
       /\ c \notin straggler

Calls == \A c \in Call : LifeOf(c) /\ EffectOf(c)

Unresolved(c) == open[c] \/ outcome[c] = "unknown"

\* Only reads can be without a result beside another call.
Single ==
  \A c, d \in Call :
    Unresolved(c) /\ Unresolved(d) /\ kind[c] # "read" /\ kind[d] # "read" => c = d

\* A call has one result in the journal, when its outcome is known.
Results ==
  /\ \A i \in DOMAIN journal : journal[i].type = "result" => Known(journal[i].call)
  /\ \A i, j \in DOMAIN journal :
       journal[i].type = "result" /\ journal[j].type = "result" /\ journal[i].call = journal[j].call => i = j
  /\ \A c \in Call : Known(c) =>
       \E i \in DOMAIN journal : journal[i].type = "result" /\ journal[i].call = c

First(n) == [i \in 1..n |-> i]

\* The memory m follows the journal up to n, unless it is about to stop.
Follows(m, n) == m.terminal = "" => m.sources = First(n)

Conversation ==
  /\ checkpoint.length <= Len(journal) /\ Follows(checkpoint.memory, checkpoint.length)
  /\ proc = "running" /\ pc \in {"loop", "calling"} => Follows(mem, Len(journal))
  /\ pc \in {"replied", "recorded"} => journal # <<>> /\ Follows(mem, Len(journal) - 1)
  /\ pc = "replied" => journal[Len(journal)].type = "reply" /\ told = First(Len(journal) - 1)
  /\ pc = "recorded" => journal[Len(journal)].type = "result"
  /\ proc = "restoring" => at \in 1..(Len(journal) + 1) /\ Follows(mem, at - 1)

Pending(m) == m.pending # 0 => m.pending \in DOMAIN journal /\ journal[m.pending].type = "reply"

\* What is pending is a reply, and the kind of every call asked for is known.
Asked ==
  /\ Pending(mem) /\ Pending(checkpoint.memory)
  /\ \A i \in DOMAIN journal : journal[i].type = "reply" =>
       \A k \in DOMAIN journal[i].calls : kind[journal[i].calls[k]] # "unset"

IInv == TypeOK /\ Places /\ Calls /\ Single /\ Results /\ Conversation /\ Asked

-----------------------------------------------------------------------------
(* Types, in three groups.                                                     *)

Attempts == [call : Call \cup {"none"}, stage : {"none", "started", "begun", "applied", "returned"},
             ok : BOOLEAN]

ProcessTypes ==
  /\ proc \in {"running", "stopped", "down", "recovering", "restoring"}
  /\ pc \in {"loop", "replied", "calling", "recorded"} /\ reason \in StopReason
  /\ mem \in Memory /\ at \in Nat /\ attempt \in Attempts

CallTypes ==
  /\ kind \in [Call -> KindsOf("coordinator") \cup {"unset"}]
  /\ receipt \in [Call -> {"none", "begun", "done"}]
  /\ world \in Files /\ straggler \subseteq Call
  /\ invoked \in [Call -> Nat] /\ before \in [Call -> Files] /\ open \in [Call -> BOOLEAN]
  /\ outcome \in [Call -> {"none", "unknown", "unshown", "shown"}]

JournalTypes ==
  /\ journal \in Seq(Entry) /\ checkpoint \in [memory : Memory, length : Nat]
  /\ role \in Roles /\ rootCalls \in Nat /\ resumes \in Nat /\ told \in Seq(Nat)

\* The groups are the types.
LEMMA Groups == TypeOK <=> ProcessTypes /\ CallTypes /\ JournalTypes
BY DEF TypeOK, ProcessTypes, CallTypes, JournalTypes, Attempts

\* What a process that ended remembers has its type.
LEMMA NothingTypes == Untouched \in Files /\ NoMemory \in Memory /\ NoCall \in Attempts
<1>1. Untouched \in Files
  BY DEF Untouched, Files
<1>2. NoMemory \in Memory
  BY <1>1 DEF NoMemory, Memory, StopReason
<1> QED BY <1>1, <1>2 DEF NoCall, Attempts

\* The files with one effect more.
LEMMA AppliedTypes ==
  ASSUME NEW c \in Call, world \in Files, Applied(c)
  PROVE  /\ world' \in Files
         /\ \A d \in Call : world'.applied[d] = IF d = c THEN world.applied[d] + 1 ELSE world.applied[d]
BY DEF Files, Applied

-----------------------------------------------------------------------------
(* The memory follows the journal.                                             *)

\* One entry more.
LEMMA AppendFirst ==
  ASSUME NEW n \in Nat, n # 0, NEW s \in Seq(Nat), s = First(n - 1)
  PROVE  Append(s, n) = First(n)
<1>1. Len(s) = n - 1 /\ \A i \in 1..(n - 1) : s[i] = i
  <2>1. DOMAIN s = 1..(n - 1)
    BY DEF First
  <2>2. Len(s) = n - 1
    BY <2>1
  <2> QED BY <2>2 DEF First
<1>2. Append(s, n) \in Seq(Nat) /\ Len(Append(s, n)) = n
  BY <1>1
<1>3. ASSUME NEW i \in 1..n PROVE Append(s, n)[i] = i
  BY <1>1
<1>4. Append(s, n) = [i \in 1..n |-> Append(s, n)[i]]
  BY <1>2
<1> QED BY <1>3, <1>4 DEF First

\* The place of an entry.
LEMMA Place ==
  ASSUME JournalTypes, NEW i \in DOMAIN journal
  PROVE  i \in Nat /\ i # 0 /\ i - 1 \in Nat /\ i \in 1..Len(journal) /\ journal[i] \in Entry
BY DEF JournalTypes

\* One entry more in the journal.
LEMMA Grows ==
  ASSUME JournalTypes, NEW e \in Entry, journal' = Append(journal, e)
  PROVE  /\ journal' \in Seq(Entry) /\ Len(journal) \in Nat /\ Len(journal') = Len(journal) + 1
         /\ DOMAIN journal = 1..Len(journal) /\ DOMAIN journal' = 1..(Len(journal) + 1)
         /\ journal' # <<>> /\ journal'[Len(journal')] = e
         /\ \A i \in DOMAIN journal : i \in DOMAIN journal' /\ journal'[i] = journal[i]
         /\ \A i \in DOMAIN journal' : i \in DOMAIN journal \/ journal'[i] = e
BY DEF JournalTypes

\* A reply is put behind the entries the memory follows.
LEMMA ReplyFollows ==
  ASSUME JournalTypes, NEW m \in Memory, NEW i \in DOMAIN journal, Follows(m, i - 1)
  PROVE  WithReply(m, i) \in Memory /\ Follows(WithReply(m, i), i)
<1>0. i \in Nat /\ i # 0 /\ i - 1 \in Nat /\ m.sources \in Seq(Nat) /\ m.pending \in Nat
      /\ m.terminal \in StopReason /\ Append(m.sources, i) \in Seq(Nat)
  BY Place DEF Memory
<1>a. CASE WithReply(m, i) = m /\ i \in ToSet(m.sources)
  <2>1. ASSUME m.terminal = "" PROVE FALSE
    <3>1. m.sources = First(i - 1)
      BY <2>1 DEF Follows
    <3>2. PICK k \in DOMAIN m.sources : m.sources[k] = i
      BY <1>a, <1>0 DEF ToSet
    <3> QED BY <1>0, <3>1, <3>2 DEF First
  <2> QED BY <1>a, <2>1 DEF Follows
<1>b. CASE \/ WithReply(m, i) = [m EXCEPT !.terminal = "root_tool_budget_exhausted"]
           \/ WithReply(m, i) = [m EXCEPT !.terminal = "tool_authorization_failed"]
  <2>1. WithReply(m, i) \in Memory /\ WithReply(m, i).terminal # ""
    BY <1>0, <1>b DEF Memory, StopReason
  <2> QED BY <2>1 DEF Follows
<1>c. CASE \E q \in {m.pending, i}, t \in {m.terminal, "completed"} :
             WithReply(m, i) = [m EXCEPT !.sources = Append(@, i), !.pending = q, !.terminal = t]
  <2>1. PICK q \in {m.pending, i}, t \in {m.terminal, "completed"} :
             WithReply(m, i) = [m EXCEPT !.sources = Append(@, i), !.pending = q, !.terminal = t]
    BY <1>c
  <2>2. WithReply(m, i) \in Memory /\ WithReply(m, i).sources = Append(m.sources, i) /\ WithReply(m, i).terminal = t
    BY <1>0, <2>1 DEF Memory, StopReason
  <2>3. ASSUME t = "" PROVE Append(m.sources, i) = First(i)
    <3>1. m.sources = First(i - 1)
      BY <2>1, <2>3 DEF Follows
    <3> QED BY <1>0, <3>1, AppendFirst
  <2> QED BY <2>2, <2>3 DEF Follows
<1> DEFINE none == ToSet(journal[i].calls) = {}
<1>3. \/ WithReply(m, i) = m /\ i \in ToSet(m.sources)
      \/ WithReply(m, i) = [m EXCEPT !.terminal = "root_tool_budget_exhausted"]
      \/ WithReply(m, i) = [m EXCEPT !.terminal = "tool_authorization_failed"]
      \/ WithReply(m, i) = [m EXCEPT !.sources = Append(@, i), !.pending = IF none THEN @ ELSE i,
                                     !.terminal = IF none THEN "completed" ELSE @]
  BY DEF WithReply
<1>4. (IF none THEN m.pending ELSE i) \in {m.pending, i} /\ (IF none THEN "completed" ELSE m.terminal) \in {m.terminal, "completed"}
  OBVIOUS
<1> QED BY <1>a, <1>b, <1>c, <1>3, <1>4, Zenon

\* So is a result, which is not there yet.
LEMMA ResultFollows ==
  ASSUME JournalTypes, Results, NEW m \in Memory, NEW i \in DOMAIN journal, journal[i].type = "result",
         Follows(m, i - 1)
  PROVE  WithResult(m, i) \in Memory /\ Follows(WithResult(m, i), i)
<1>0. i \in Nat /\ i # 0 /\ i - 1 \in Nat /\ m.sources \in Seq(Nat) /\ m.terminal \in StopReason
      /\ Append(m.sources, i) \in Seq(Nat)
  BY Place DEF Memory
<1>1. ASSUME m.terminal = "" PROVE m.sources = First(i - 1) /\ journal[i].call \notin Answered(m.sources)
  <2>2. m.sources = First(i - 1)
    BY <1>1 DEF Follows
  <2> SUFFICES ASSUME journal[i].call \in Answered(m.sources) PROVE FALSE
    BY <2>2
  <2>3. PICK k \in DOMAIN m.sources :
          journal[m.sources[k]].type = "result" /\ journal[m.sources[k]].call = journal[i].call
    BY DEF Answered
  <2>4. k \in 1..(i - 1) /\ m.sources[k] = k
    BY <2>2 DEF First
  <2>5. k \in DOMAIN journal /\ k # i
    BY <1>0, <2>4, Place DEF JournalTypes
  <2> QED BY <2>3, <2>4, <2>5 DEF Results
<1>a. CASE WithResult(m, i) = m /\ journal[i].call \in Answered(m.sources)
  BY <1>a, <1>1 DEF Follows
<1>b. CASE WithResult(m, i) = [m EXCEPT !.terminal = "tool_presentation_failed"]
  <2>1. WithResult(m, i) \in Memory /\ WithResult(m, i).terminal # ""
    BY <1>0, <1>b DEF Memory, StopReason
  <2> QED BY <2>1 DEF Follows
<1>c. CASE WithResult(m, i) = [m EXCEPT !.sources = Append(@, i)]
  <2>1. WithResult(m, i) \in Memory /\ WithResult(m, i).sources = Append(m.sources, i)
        /\ WithResult(m, i).terminal = m.terminal
    BY <1>0, <1>c DEF Memory
  <2>2. ASSUME m.terminal = "" PROVE Append(m.sources, i) = First(i)
    BY <1>0, <1>1, <2>2, AppendFirst
  <2> QED BY <2>1, <2>2 DEF Follows
<1> QED BY <1>a, <1>b, <1>c, Zenon DEF WithResult

\* A call with a known outcome has its answer in a memory that follows the journal.
LEMMA KnownIsAnswered ==
  ASSUME JournalTypes, Results, NEW c \in Call, Known(c), Follows(mem, Len(journal)), mem.terminal = ""
  PROVE  c \in Answered(mem.sources)
<1>1. PICK i \in DOMAIN journal : journal[i].type = "result" /\ journal[i].call = c
  BY DEF Results
<1>2. mem.sources = First(Len(journal))
  BY DEF Follows
<1>3. i \in 1..Len(journal)
  BY Place
<1>4. i \in DOMAIN mem.sources /\ mem.sources[i] = i
  BY <1>2, <1>3 DEF First
<1> QED BY <1>1, <1>4 DEF Answered

-----------------------------------------------------------------------------
(* What steps leave alone.                                                     *)

\* The life of a call.
LEMMA LifeFrame ==
  ASSUME NEW d \in Call, LifeOf(d), kind'[d] = kind[d], invoked'[d] = invoked[d], open'[d] = open[d],
         outcome'[d] = outcome[d], receipt'[d] = receipt[d], world'.applied[d] = world.applied[d],
         d \in straggler' <=> d \in straggler
  PROVE  LifeOf(d)'
BY DEF LifeOf, IsWrite

\* The effect of a call; a stage may be left.
LEMMA EffectFrame ==
  ASSUME NEW d \in Call, EffectOf(d), kind'[d] = kind[d], receipt'[d] = receipt[d],
         world'.applied[d] = world.applied[d], d \in straggler' <=> d \in straggler,
         attempt'.call = d => attempt'.call = attempt.call /\ attempt'.stage = attempt.stage
  PROVE  EffectOf(d)'
BY DEF EffectOf

\* All calls.
LEMMA CallsFrame ==
  ASSUME Calls, UNCHANGED <<kind, world, receipt, straggler, invoked, open, outcome>>,
         \/ attempt' = attempt
         \/ attempt' = NoCall /\ ToolRecoveryAssumption
  PROVE  Calls'
<1> SUFFICES ASSUME NEW d \in Call PROVE LifeOf(d)' /\ EffectOf(d)'
  BY DEF Calls
<1>0. LifeOf(d) /\ EffectOf(d)
  BY DEF Calls
<1>1. LifeOf(d)'
  BY <1>0, LifeFrame
<1>2. attempt'.call = d => attempt'.call = attempt.call /\ attempt'.stage = attempt.stage
  BY ToolRecoveryAssumption DEF NoCall
<1>3. EffectOf(d)'
  BY <1>0, <1>2, EffectFrame
<1> QED BY <1>1, <1>3

\* The calls without a result.
LEMMA SingleFrame ==
  ASSUME Single, UNCHANGED <<kind, open, outcome>>
  PROVE  Single'
BY DEF Single, Unresolved

\* The results, when the same outcomes are known.
LEMMA ResultsFrame ==
  ASSUME Results, JournalTypes, journal' = journal, \A d \in Call : Known(d)' <=> Known(d)
  PROVE  Results'
<1>1. ASSUME NEW i \in DOMAIN journal, journal[i].type = "result" PROVE journal[i].call \in Call
  BY <1>1, Place DEF Entry
<1>2. \A i \in DOMAIN journal : journal[i].type = "result" => Known(journal[i].call)'
  BY <1>1 DEF Results
<1> QED BY <1>2 DEF Results

\* A reply is no result.
LEMMA ResultsReply ==
  ASSUME Results, JournalTypes, UNCHANGED outcome, NEW e \in Entry, e.type = "reply", journal' = Append(journal, e)
  PROVE  Results'
<1>1. DOMAIN journal = 1..Len(journal) /\ DOMAIN journal' = 1..(Len(journal) + 1) /\ Len(journal) \in Nat
  BY DEF JournalTypes
<1>2. \A i \in DOMAIN journal : i \in DOMAIN journal' /\ journal'[i] = journal[i]
  BY <1>1 DEF JournalTypes
<1>3. \A i \in DOMAIN journal' : journal'[i].type = "result" => i \in DOMAIN journal
  BY <1>1 DEF JournalTypes
<1>4. \A c : Known(c)' <=> Known(c)
  BY DEF Known
<1> QED BY <1>2, <1>3, <1>4 DEF Results

\* An execution event of a call whose outcome was not known.
LEMMA ResultsExecute ==
  ASSUME Results, JournalTypes, CallTypes, NEW c \in Call, NEW shown \in BOOLEAN, ~Known(c), Execute(c, shown)
  PROVE  Results'
<1>1. DOMAIN journal = 1..Len(journal) /\ DOMAIN journal' = 1..(Len(journal) + 1) /\ Len(journal) \in Nat
  BY DEF JournalTypes, Execute
<1>2. \A i \in DOMAIN journal : i \in DOMAIN journal' /\ journal'[i] = journal[i]
  BY <1>1 DEF JournalTypes, Execute
<1>3. Len(journal) + 1 \in DOMAIN journal' /\ journal'[Len(journal) + 1] = Result(c, shown)
  BY <1>1 DEF JournalTypes, Execute
<1>4. \A i \in DOMAIN journal' : i \in DOMAIN journal \/ i = Len(journal) + 1
  BY <1>1
<1>5. \A d \in Call : Known(d)' <=> (Known(d) \/ d = c)
  BY DEF Known, Execute, CallTypes
<1>6. ASSUME NEW i \in DOMAIN journal, journal[i].type = "result" PROVE journal[i].call \in Call /\ journal[i].call # c
  <2>1. journal[i].call \in Call
    BY <1>6, Place DEF Entry
  <2> QED BY <1>6, <2>1 DEF Results
<1>7. Result(c, shown).type = "result" /\ Result(c, shown).call = c
  BY DEF Result
<1>a. ASSUME NEW i \in DOMAIN journal', journal'[i].type = "result" PROVE Known(journal[i].call)'
  <2>1. CASE i \in DOMAIN journal
    BY <1>2, <1>5, <1>6, <1>a, <2>1 DEF Results
  <2>2. CASE i = Len(journal) + 1
    BY <1>3, <1>5, <1>7, <2>2
  <2> QED BY <1>4, <2>1, <2>2
<1>b. ASSUME NEW i \in DOMAIN journal', NEW j \in DOMAIN journal', journal'[i].type = "result",
             journal'[j].type = "result", journal'[i].call = journal'[j].call
      PROVE  i = j
  <2>1. CASE i \in DOMAIN journal /\ j \in DOMAIN journal
    BY <1>2, <1>b, <2>1 DEF Results
  <2>2. CASE i = Len(journal) + 1 \/ j = Len(journal) + 1
    BY <1>2, <1>3, <1>4, <1>6, <1>7, <1>b, <2>2
  <2> QED BY <1>4, <2>1, <2>2
<1>c. ASSUME NEW d \in Call, Known(d)'
      PROVE  \E i \in DOMAIN journal' : journal'[i].type = "result" /\ journal'[i].call = d
  <2>1. CASE d = c
    BY <1>3, <1>7, <2>1
  <2>2. CASE Known(d)
    <3>1. PICK i \in DOMAIN journal : journal[i].type = "result" /\ journal[i].call = d
      BY <2>2 DEF Results
    <3> QED BY <1>2, <3>1
  <2> QED BY <1>5, <1>c, <2>1, <2>2
<1> QED BY <1>a, <1>b, <1>c DEF Results

\* What is asked for stays so while the journal grows by a result or not at all.
LEMMA AskedFrame ==
  ASSUME Asked, JournalTypes, UNCHANGED kind, Pending(mem'), Pending(checkpoint'.memory),
         \/ UNCHANGED journal
         \/ \E e \in Entry : e.type = "result" /\ journal' = Append(journal, e)
  PROVE  Asked'
<1>1. \A i \in DOMAIN journal : i \in DOMAIN journal' /\ journal'[i] = journal[i]
  BY DEF JournalTypes
<1>2. \A i \in DOMAIN journal' : journal'[i].type = "reply" => i \in DOMAIN journal
  <2>1. CASE UNCHANGED journal
    BY <2>1
  <2>2. CASE \E e \in Entry : e.type = "result" /\ journal' = Append(journal, e)
    <3>1. PICK e \in Entry : e.type = "result" /\ journal' = Append(journal, e)
      BY <2>2
    <3>2. ASSUME NEW i \in DOMAIN journal', i \notin DOMAIN journal PROVE journal'[i] = e
      BY <3>1, <3>2 DEF JournalTypes
    <3> QED BY <3>1, <3>2
  <2> QED BY <2>1, <2>2
<1>3. Pending(mem)' /\ Pending(checkpoint.memory)'
  BY <1>1 DEF Pending
<1> QED BY <1>1, <1>2, <1>3 DEF Asked

\* A process that ended leaves the checkpoint and the journal.
LEMMA ConversationEnds ==
  ASSUME Conversation, UNCHANGED checkpoint, proc' \notin {"running", "restoring"}, pc' = "loop",
         JournalTypes, Len(journal') \in Nat, Len(journal') >= Len(journal)
  PROVE  Conversation'
<1>1. checkpoint.length \in Nat /\ Len(journal) \in Nat
  BY DEF JournalTypes
<1>2. checkpoint.length <= Len(journal')
  BY <1>1 DEF Conversation
<1> QED BY <1>2 DEF Conversation, Follows

\* Nobody touches the conversation.
LEMMA ConversationFrame ==
  ASSUME Conversation, UNCHANGED <<proc, pc, at, checkpoint, journal, told>>,
         mem'.terminal = mem.terminal, mem'.sources = mem.sources
  PROVE  Conversation'
BY DEF Conversation, Follows, First

\* The initial states satisfy the invariant.
THEOREM InitIInv == Init => IInv
<1> SUFFICES ASSUME Init PROVE IInv
  OBVIOUS
<1>1. TypeOK
  <2>1. ProcessTypes
    BY NothingTypes DEF Init, ProcessTypes, StopReason
  <2>2. CallTypes
    BY NothingTypes DEF Init, CallTypes
  <2>3. JournalTypes
    <3>0. journal = <<>> /\ told = <<>>
      BY Zenon DEF Init
    <3>1. journal \in Seq(Entry) /\ told \in Seq(Nat)
      BY <3>0
    <3>2. checkpoint \in [memory : Memory, length : Nat]
      BY NothingTypes DEF Init
    <3> QED BY <3>1, <3>2 DEF Init, JournalTypes
  <2> QED BY <2>1, <2>2, <2>3, Groups
<1>2. Places /\ Single
  BY ToolRecoveryAssumption DEF Init, NoCall, Places, Single, Unresolved
<1>3. Calls
  <2> SUFFICES ASSUME NEW d \in Call PROVE LifeOf(d) /\ EffectOf(d)
    BY DEF Calls
  <2>1. world.applied[d] = 0 /\ straggler = {} /\ receipt[d] = "none" /\ invoked[d] = 0 /\ ~open[d]
        /\ outcome[d] = "none" /\ attempt.call = "none"
    BY DEF Init, Untouched, NoCall
  <2>2. LifeOf(d)
    BY <2>1 DEF LifeOf
  <2>3. EffectOf(d)
    BY <2>1, ToolRecoveryAssumption DEF EffectOf
  <2> QED BY <2>2, <2>3
<1>4. Results
  <2>0. journal = <<>> /\ outcome = [c \in Call |-> "none"]
    BY Zenon DEF Init
  <2>1. DOMAIN journal = {} /\ \A c \in Call : ~Known(c)
    BY <2>0 DEF Known
  <2> QED BY <2>1 DEF Results
<1>5. Conversation
  <2>1. NoMemory.sources = First(0)
    BY DEF NoMemory, First
  <2>2. Follows(NoMemory, 0)
    BY <2>1 DEF Follows
  <2>3. mem = NoMemory /\ checkpoint.memory = NoMemory /\ checkpoint.length = 0 /\ proc = "running"
        /\ pc = "loop" /\ Len(journal) = 0
    BY DEF Init
  <2> QED BY <2>2, <2>3 DEF Conversation
<1>6. Asked
  <2>1. journal = <<>> /\ mem = NoMemory /\ checkpoint = [memory |-> NoMemory, length |-> 0]
    BY Zenon DEF Init
  <2>2. NoMemory.pending = 0
    BY DEF NoMemory
  <2>3. DOMAIN journal = {}
    BY <2>1
  <2>4. mem.pending = 0 /\ checkpoint.memory.pending = 0
    BY <2>1, <2>2
  <2> QED BY <2>3, <2>4 DEF Asked, Pending
<1> QED BY <1>1, <1>2, <1>3, <1>4, <1>5, <1>6 DEF IInv


-----------------------------------------------------------------------------
(* Tools at work.                                                              *)

\* What is common to the steps of a tool.
LEMMA ToolFrame ==
  ASSUME NEW c \in Call, IInv, attempt.call = c, attempt' \in Attempts, attempt'.call = c,
         UNCHANGED InTool, world' \in Files, straggler' = straggler,
         receipt' \in [Call -> {"none", "begun", "done"}],
         \A d \in Call : d # c => world'.applied[d] = world.applied[d] /\ receipt'[d] = receipt[d],
         EffectOf(c)'
  PROVE  IInv'
<1> USE DEF InTool, Fixed, CallEvents, Process
<1>0. TypeOK /\ Places /\ Calls /\ Single /\ Results /\ Conversation /\ Asked
  BY DEF IInv
<1>1. ProcessTypes /\ CallTypes /\ JournalTypes
  BY <1>0, Groups
<1>2. TypeOK'
  BY <1>1 DEF TypeOK, ProcessTypes, CallTypes, JournalTypes, Attempts
<1>3. Places'
  BY <1>0 DEF Places
<1>4. Calls'
  <2> SUFFICES ASSUME NEW d \in Call PROVE LifeOf(d)' /\ EffectOf(d)'
    BY DEF Calls
  <2>1. LifeOf(d) /\ EffectOf(d)
    BY <1>0 DEF Calls
  <2>2. CASE d # c
    <3>1. LifeOf(d)'
      BY <2>1, <2>2, LifeFrame
    <3>2. EffectOf(d)'
      BY <2>1, <2>2, EffectFrame
    <3> QED BY <3>1, <3>2
  <2>3. CASE d = c
    <3>1. open[c] /\ invoked[c] # 0
      BY <1>0, <2>1, <2>3, ToolRecoveryAssumption DEF Places, LifeOf
    <3> QED BY <2>1, <2>3, <3>1 DEF LifeOf, IsWrite
  <2> QED BY <2>2, <2>3
<1>5. Single'
  BY <1>0, SingleFrame
<1>6. Results'
  BY <1>0, <1>1, ResultsFrame DEF Known
<1>7. Conversation'
  BY <1>0, ConversationFrame
<1>8. Asked'
  BY <1>0 DEF Asked, Pending
<1> QED BY <1>2, <1>3, <1>4, <1>5, <1>6, <1>7, <1>8 DEF IInv

\* A tool at work.
LEMMA ToolIInv ==
  ASSUME NEW c \in Call, IInv,
         \/ ToolReads(c) \/ ToolWrites(c) \/ ToolBegins(c) \/ ToolMutates(c)
         \/ ToolSaves(c) \/ ToolDelegates(c) \/ ToolReturns(c) \/ ToolRefuses(c)
  PROVE  IInv'
<1>0. EffectOf(c) /\ ProcessTypes /\ CallTypes
  BY Groups DEF IInv, Calls
<1>1. world \in Files /\ attempt \in Attempts /\ receipt \in [Call -> {"none", "begun", "done"}]
      /\ world.applied[c] \in Nat
  BY <1>0 DEF ProcessTypes, CallTypes, Files
<1>2. ASSUME NEW stage \in {"begun", "applied", "returned"}, NEW ok \in BOOLEAN,
             attempt' = [attempt EXCEPT !.stage = stage, !.ok = ok]
      PROVE  attempt' \in Attempts /\ attempt'.call = attempt.call /\ attempt'.stage = stage
  BY <1>1, <1>2 DEF Attempts
<1>3. ASSUME NEW stage \in {"begun", "applied", "returned"}, Becomes(stage)
      PROVE  attempt' \in Attempts /\ attempt'.call = attempt.call /\ attempt'.stage = stage
  BY <1>1, <1>3 DEF Attempts, Becomes
<1>4. CASE ToolReads(c)
  <2> USE <1>4 DEF ToolReads, At
  <2>1. attempt' \in Attempts /\ attempt'.call = c /\ attempt'.stage = "returned" /\ attempt.call = c
    BY <1>3
  <2>2. world' \in Files /\ world'.applied = world.applied
    BY <1>1 DEF Files
  <2>3. UNCHANGED InTool /\ receipt' = receipt /\ straggler' = straggler /\ kind' = kind
    BY DEF InTool
  <2>4. EffectOf(c)'
    BY <1>0, <2>1, <2>2, <2>3 DEF EffectOf
  <2> QED BY <1>1, <2>1, <2>2, <2>3, <2>4, ToolFrame
<1>5. CASE ToolWrites(c)
  <2> USE <1>5 DEF ToolWrites, At
  <2>1. attempt' \in Attempts /\ attempt'.call = c /\ attempt'.stage = "applied" /\ attempt.call = c
        /\ attempt.stage = "started"
    BY <1>3
  <2>2. world' \in Files /\ world'.applied[c] = world.applied[c] + 1
        /\ \A d \in Call : d # c => world'.applied[d] = world.applied[d]
    BY <1>1, AppliedTypes
  <2>3. UNCHANGED InTool /\ receipt' = receipt /\ straggler' = straggler /\ kind' = kind
    BY DEF InTool
  <2>4. EffectOf(c)'
    BY <1>0, <1>1, <2>1, <2>2, <2>3 DEF EffectOf
  <2> QED BY <1>1, <2>1, <2>2, <2>3, <2>4, ToolFrame
<1>6. CASE ToolBegins(c)
  <2> USE <1>6 DEF ToolBegins, At, MayBegin
  <2>1. attempt' \in Attempts /\ attempt'.call = c /\ attempt'.stage = "begun" /\ attempt.call = c
    BY <1>3
  <2>2. receipt' \in [Call -> {"none", "begun", "done"}] /\ receipt'[c] = "begun"
        /\ \A d \in Call : d # c => receipt'[d] = receipt[d]
    BY <1>1
  <2>3. UNCHANGED InTool /\ world' = world /\ straggler' = straggler /\ kind' = kind
    BY DEF InTool
  <2>4. EffectOf(c)'
    BY <1>0, <1>1, <2>1, <2>2, <2>3 DEF EffectOf
  <2> QED BY <1>1, <2>1, <2>2, <2>3, <2>4, ToolFrame
<1>7. CASE ToolMutates(c)
  <2> USE <1>7 DEF ToolMutates, At
  <2>1. attempt' \in Attempts /\ attempt'.call = c /\ attempt'.stage = "applied" /\ attempt.call = c
        /\ attempt.stage = "begun"
    BY <1>3
  <2>2. world' \in Files /\ world'.applied[c] = world.applied[c] + 1
        /\ \A d \in Call : d # c => world'.applied[d] = world.applied[d]
    BY <1>1, AppliedTypes
  <2>3. UNCHANGED InTool /\ receipt' = receipt /\ straggler' = straggler /\ kind' = kind
    BY DEF InTool
  <2>4. EffectOf(c)'
    BY <1>0, <1>1, <2>1, <2>2, <2>3 DEF EffectOf
  <2> QED BY <1>1, <2>1, <2>2, <2>3, <2>4, ToolFrame
<1>8. CASE ToolSaves(c)
  <2> USE <1>8 DEF ToolSaves, At
  <2>1. attempt' \in Attempts /\ attempt'.call = c /\ attempt'.stage = "returned" /\ attempt.call = c
        /\ attempt.stage = "applied"
    BY <1>3
  <2>2. receipt' \in [Call -> {"none", "begun", "done"}] /\ receipt'[c] = "done"
        /\ \A d \in Call : d # c => receipt'[d] = receipt[d]
    BY <1>1
  <2>3. UNCHANGED InTool /\ world' = world /\ straggler' = straggler /\ kind' = kind
    BY DEF InTool
  <2>4. EffectOf(c)'
    BY <1>0, <1>1, <2>1, <2>2, <2>3 DEF EffectOf
  <2> QED BY <1>1, <2>1, <2>2, <2>3, <2>4, ToolFrame
<1>9. CASE ToolDelegates(c)
  <2> USE <1>9 DEF ToolDelegates, At
  <2>1. attempt' \in Attempts /\ attempt'.call = c /\ attempt'.stage = "returned" /\ attempt.call = c
    BY <1>3
  <2>2. world' \in Files /\ world'.applied[c] = world.applied[c] + 1
        /\ \A d \in Call : d # c => world'.applied[d] = world.applied[d]
    BY <1>1, AppliedTypes
  <2>3. receipt' \in [Call -> {"none", "begun", "done"}] /\ receipt'[c] = "done"
        /\ \A d \in Call : d # c => receipt'[d] = receipt[d]
    BY <1>1
  <2>4. UNCHANGED InTool /\ straggler' = straggler /\ kind' = kind
    BY DEF InTool
  <2>5. EffectOf(c)'
    BY <1>0, <1>1, <2>1, <2>2, <2>3, <2>4 DEF EffectOf
  <2> QED BY <1>1, <2>1, <2>2, <2>3, <2>4, <2>5, ToolFrame
<1>10. CASE ToolReturns(c) \/ ToolRefuses(c)
  <2> USE <1>10 DEF ToolReturns, ToolRefuses, At
  <2>1. attempt' \in Attempts /\ attempt'.call = attempt.call /\ attempt'.stage = "returned"
    BY <1>2, <1>3
  <2>2. attempt.call = c
    OBVIOUS
  <2>3. UNCHANGED InTool /\ world' = world /\ receipt' = receipt /\ straggler' = straggler /\ kind' = kind
    BY DEF InTool
  <2>4. EffectOf(c)'
    BY <1>0, <2>1, <2>2, <2>3 DEF EffectOf
  <2> QED BY <1>1, <2>1, <2>2, <2>3, <2>4, ToolFrame
<1> QED BY <1>4, <1>5, <1>6, <1>7, <1>8, <1>9, <1>10

\* The effect of a call that was left behind.
LEMMA LateEffectIInv ==
  ASSUME NEW c \in Call, IInv, LateEffect(c)
  PROVE  IInv'
<1> USE DEF Fixed, CallEvents, Process
<1>0. /\ TypeOK /\ Places /\ Calls /\ Single /\ Results /\ Conversation /\ Asked
      /\ ProcessTypes /\ CallTypes /\ JournalTypes
  BY Groups DEF IInv
<1>1. /\ UNCHANGED <<Fixed, kind, Process, mem, at, attempt, receipt, journal, CallEvents, checkpoint, rootCalls, told>>
      /\ c \in straggler /\ straggler' = straggler \ {c}
  BY DEF LateEffect
<1>2. /\ world' \in Files
      /\ \A d \in Call : world'.applied[d] = IF d = c THEN world.applied[d] + 1 ELSE world.applied[d]
  BY <1>0, AppliedTypes DEF LateEffect, CallTypes
<1>3. TypeOK'
  BY <1>0, <1>1, <1>2 DEF TypeOK
<1>4. Places' /\ Single'
  BY <1>0, <1>1, SingleFrame DEF Places
<1>5. Calls'
  <2> SUFFICES ASSUME NEW d \in Call PROVE LifeOf(d)' /\ EffectOf(d)'
    BY DEF Calls
  <2>1. LifeOf(d) /\ EffectOf(d)
    BY <1>0 DEF Calls
  <2>2. CASE d # c
    <3>1. d \in straggler' <=> d \in straggler
      BY <1>1, <2>2
    <3>2. world'.applied[d] = world.applied[d]
      BY <1>2, <2>2
    <3>3. LifeOf(d)'
      BY <1>1, <2>1, <3>1, <3>2, LifeFrame
    <3>4. EffectOf(d)'
      BY <1>1, <2>1, <3>1, <3>2, EffectFrame
    <3> QED BY <3>3, <3>4
  <2>3. CASE d = c
    <3>1. world'.applied[c] = 1 /\ c \notin straggler' /\ invoked[c] # 0
      BY <1>1, <1>2, <2>1, <2>3 DEF EffectOf, LifeOf
    <3>2. LifeOf(c)'
      BY <1>1, <2>1, <2>3, <3>1 DEF LifeOf, IsWrite
    <3>3. EffectOf(c)'
      BY <1>1, <2>1, <2>3, <3>1 DEF EffectOf
    <3> QED BY <2>3, <3>2, <3>3
  <2> QED BY <2>2, <2>3
<1>6. Results'
  BY <1>0, <1>1, ResultsFrame DEF Known
<1>7. Conversation'
  BY <1>0, <1>1, ConversationFrame
<1>8. Asked'
  BY <1>0, <1>1 DEF Asked, Pending
<1> QED BY <1>3, <1>4, <1>5, <1>6, <1>7, <1>8 DEF IInv

\* An edit, or a call of another task.
LEMMA OutsideIInv ==
  ASSUME IInv, Edit \/ OthersInvoke
  PROVE  IInv'
<1> USE DEF Fixed, CallEvents, Process
<1>0. /\ TypeOK /\ Places /\ Calls /\ Single /\ Results /\ Conversation /\ Asked
      /\ ProcessTypes /\ CallTypes /\ JournalTypes
  BY Groups DEF IInv
<1>1. UNCHANGED <<Fixed, kind, Process, mem, at, attempt, receipt, straggler, journal, CallEvents, checkpoint, told>>
  BY DEF Edit, OthersInvoke
<1>2. world' \in Files /\ world'.applied = world.applied /\ rootCalls' \in Nat
  <2>1. CASE Edit
    <3>1. world' \in Files /\ world'.applied = world.applied
      <4>1. world \in Files /\ world' = [world EXCEPT !.edits = @ + 1]
        BY <1>0, <2>1 DEF Edit, CallTypes
      <4> QED BY <4>1 DEF Files
    <3> QED BY <1>0, <2>1, <3>1 DEF Edit, JournalTypes
  <2>2. CASE OthersInvoke
    BY <1>0, <2>2 DEF OthersInvoke, CallTypes, JournalTypes
  <2> QED BY <2>1, <2>2
<1>3. TypeOK'
  BY <1>0, <1>1, <1>2 DEF TypeOK
<1>4. Places' /\ Single'
  BY <1>0, <1>1, SingleFrame DEF Places
<1>5. Calls'
  BY <1>0, <1>1, <1>2, LifeFrame, EffectFrame DEF Calls
<1>6. Results'
  BY <1>0, <1>1, ResultsFrame DEF Known
<1>7. Conversation'
  BY <1>0, <1>1, ConversationFrame
<1>8. Asked'
  BY <1>0, <1>1 DEF Asked, Pending
<1> QED BY <1>3, <1>4, <1>5, <1>6, <1>7, <1>8 DEF IInv

-----------------------------------------------------------------------------
(* The loop stops, and the process ends.                                       *)

\* What a process that ended leaves behind.
LEMMA EndsProcess ==
  ASSUME ProcessTypes, proc' \in {"stopped", "down"}, reason' \in StopReason, pc' = "loop",
         mem' = NoMemory, at' = 0, attempt' = NoCall
  PROVE  ProcessTypes' /\ Places' /\ Pending(mem')
<1>1. ProcessTypes'
  BY NothingTypes DEF ProcessTypes
<1>2. Places'
  BY ToolRecoveryAssumption DEF Places, NoCall
<1>3. Pending(mem')
  BY DEF Pending, NoMemory
<1> QED BY <1>1, <1>2, <1>3

\* The loop stops, or a call is refused.
LEMMA StopIInv ==
  ASSUME IInv, StopOnTerminal \/ OutOfReplies \/ \E c \in Call : RefuseCall(c)
  PROVE  IInv'
<1> USE DEF Fixed, CallEvents
<1>0. /\ TypeOK /\ Places /\ Calls /\ Single /\ Results /\ Conversation /\ Asked
      /\ ProcessTypes /\ CallTypes /\ JournalTypes
  BY Groups DEF IInv
<1>1. UNCHANGED <<Fixed, kind, world, receipt, straggler, journal, CallEvents, checkpoint, rootCalls, told>>
  BY DEF StopOnTerminal, OutOfReplies, RefuseCall
<1>2. PICK why \in StopReason : Stop(why)
  <2>1. CASE StopOnTerminal
    BY <1>0, <2>1 DEF StopOnTerminal, ProcessTypes, Memory
  <2>2. CASE OutOfReplies
    BY <2>2 DEF OutOfReplies, StopReason
  <2>3. CASE \E c \in Call : RefuseCall(c)
    BY <2>3 DEF RefuseCall, Refusal, StopReason
  <2> QED BY <2>1, <2>2, <2>3
<1>3. /\ proc' = "stopped" /\ reason' \in StopReason /\ pc' = "loop"
      /\ mem' = NoMemory /\ at' = 0 /\ attempt' = NoCall
  BY <1>2 DEF Stop
<1>4. ProcessTypes' /\ Places' /\ Pending(mem')
  BY <1>0, <1>3, EndsProcess
<1>5. TypeOK'
  BY <1>0, <1>1, <1>4 DEF TypeOK, ProcessTypes, Attempts
<1>6. Calls' /\ Single'
  BY <1>0, <1>1, <1>3, CallsFrame, SingleFrame, ToolRecoveryAssumption
<1>7. Results'
  BY <1>0, <1>1, ResultsFrame DEF Known
<1>8. Conversation'
  BY <1>0, <1>1, <1>3, ConversationEnds DEF JournalTypes
<1>9. Asked'
  BY <1>0, <1>1, <1>4, AskedFrame DEF Asked
<1> QED BY <1>4, <1>5, <1>6, <1>7, <1>8, <1>9 DEF IInv

\* A call that was handed over and did not answer is left behind.
LEMMA LeftBehindCalls ==
  ASSUME Calls, Places, ProcessTypes, CallTypes, straggler' = straggler \cup LeftBehind, attempt' = NoCall,
         UNCHANGED <<kind, world, receipt, invoked>>,
         \/ UNCHANGED <<open, outcome>>
         \/ \E c \in Call : /\ attempt.call = c /\ open' = [open EXCEPT ![c] = FALSE]
                            /\ outcome' = [outcome EXCEPT ![c] = "unknown"]
  PROVE  Calls'
<1> SUFFICES ASSUME NEW d \in Call PROVE LifeOf(d)' /\ EffectOf(d)'
  BY DEF Calls
<1>1. LifeOf(d) /\ EffectOf(d)
  BY DEF Calls
<1>2. attempt.call = d => open[d] /\ invoked[d] # 0
  BY <1>1, ToolRecoveryAssumption DEF Places, LifeOf
<1>3. d \in LeftBehind => attempt.call = d
  BY DEF LeftBehind, At
<1>4. \/ open'[d] = open[d] /\ outcome'[d] = outcome[d]
      \/ attempt.call = d /\ ~open'[d] /\ outcome'[d] = "unknown"
  BY DEF CallTypes
<1>5. LifeOf(d)'
  <2>1. CASE attempt.call = d
    BY <1>1, <1>2, <1>4, <2>1 DEF LifeOf, IsWrite
  <2>2. CASE attempt.call # d
    BY <1>1, <1>3, <1>4, <2>2 DEF LifeOf, IsWrite
  <2> QED BY <2>1, <2>2
<1>6. attempt'.call # d
  BY ToolRecoveryAssumption DEF NoCall
<1>7. EffectOf(d)'
  <2>1. CASE d \in LeftBehind
    BY <1>1, <1>6, <2>1 DEF EffectOf, LeftBehind, At
  <2>2. CASE d \notin LeftBehind
    BY <1>1, <1>6, <2>2 DEF EffectOf
  <2> QED BY <2>1, <2>2
<1> QED BY <1>5, <1>7

\* The process ends.
LEMMA CrashIInv ==
  ASSUME IInv, Crash
  PROVE  IInv'
<1> USE DEF Fixed, CallEvents
<1>0. /\ TypeOK /\ Places /\ Calls /\ Single /\ Results /\ Conversation /\ Asked
      /\ ProcessTypes /\ CallTypes /\ JournalTypes
  BY Groups DEF IInv
<1>1. /\ UNCHANGED <<Fixed, kind, world, receipt, journal, CallEvents, checkpoint, rootCalls, told>>
      /\ straggler' = straggler \cup LeftBehind
  BY DEF Crash
<1>2. /\ proc' = "down" /\ reason' \in StopReason /\ pc' = "loop"
      /\ mem' = NoMemory /\ at' = 0 /\ attempt' = NoCall
  BY DEF Crash, StopReason
<1>3. ProcessTypes' /\ Places' /\ Pending(mem')
  BY <1>0, <1>2, EndsProcess
<1>4. TypeOK'
  <2>1. straggler' \subseteq Call
    BY <1>0, <1>1 DEF CallTypes, LeftBehind
  <2> QED BY <1>0, <1>1, <1>3, <2>1 DEF TypeOK, ProcessTypes, Attempts
<1>5. Calls' /\ Single'
  BY <1>0, <1>1, <1>2, LeftBehindCalls, SingleFrame
<1>6. Results'
  BY <1>0, <1>1, ResultsFrame DEF Known
<1>7. Conversation'
  BY <1>0, <1>1, <1>2, ConversationEnds DEF JournalTypes
<1>8. Asked'
  BY <1>0, <1>1, <1>3, AskedFrame DEF Asked
<1> QED BY <1>3, <1>4, <1>5, <1>6, <1>7, <1>8 DEF IInv

\* A tool raises or runs out of time.
LEMMA ToolRaisesIInv ==
  ASSUME NEW c \in Call, IInv, ToolRaises(c)
  PROVE  IInv'
<1> USE DEF Fixed, CallEvents
<1>0. /\ TypeOK /\ Places /\ Calls /\ Single /\ Results /\ Conversation /\ Asked
      /\ ProcessTypes /\ CallTypes /\ JournalTypes
  BY Groups DEF IInv
<1>1. /\ UNCHANGED <<Fixed, kind, world, receipt, journal, invoked, before, checkpoint, rootCalls, told>>
      /\ straggler' = straggler \cup LeftBehind /\ attempt.call = c
      /\ open' = [open EXCEPT ![c] = FALSE] /\ outcome' = [outcome EXCEPT ![c] = "unknown"]
  BY DEF ToolRaises
<1>2. /\ proc' = "stopped" /\ reason' \in StopReason /\ pc' = "loop"
      /\ mem' = NoMemory /\ at' = 0 /\ attempt' = NoCall
  BY DEF ToolRaises, Stop, StopReason
<1>3. ProcessTypes' /\ Places' /\ Pending(mem')
  BY <1>0, <1>2, EndsProcess
<1>4. open[c] /\ outcome[c] \in {"none", "unknown"}
  BY <1>0, <1>1, ToolRecoveryAssumption DEF Places, Calls, LifeOf
<1>5. TypeOK'
  <2>1. straggler' \subseteq Call
    BY <1>0, <1>1 DEF CallTypes, LeftBehind
  <2>2. open' \in [Call -> BOOLEAN] /\ outcome' \in [Call -> {"none", "unknown", "unshown", "shown"}]
    BY <1>0, <1>1 DEF CallTypes
  <2> QED BY <1>0, <1>1, <1>3, <2>1, <2>2 DEF TypeOK, ProcessTypes, Attempts
<1>6. Calls'
  BY <1>0, <1>1, <1>2, LeftBehindCalls
<1>7. Single'
  <2>1. \A d \in Call : Unresolved(d)' => Unresolved(d)
    BY <1>0, <1>1, <1>4 DEF Unresolved, CallTypes
  <2> QED BY <1>0, <1>1, <2>1 DEF Single
<1>8. Results'
  <2>1. \A d \in Call : Known(d)' <=> Known(d)
    BY <1>0, <1>1, <1>4 DEF Known, CallTypes
  <2> QED BY <1>0, <1>1, <2>1, ResultsFrame
<1>9. Conversation'
  BY <1>0, <1>1, <1>2, ConversationEnds DEF JournalTypes
<1>10. Asked'
  BY <1>0, <1>1, <1>3, AskedFrame DEF Asked
<1> QED BY <1>3, <1>5, <1>6, <1>7, <1>8, <1>9, <1>10 DEF IInv

-----------------------------------------------------------------------------
(* The conversation grows.                                                     *)

\* A reply asks only for what was pending before, or for itself.
LEMMA ReplyPending ==
  ASSUME JournalTypes, NEW m \in Memory, Pending(m), NEW i \in DOMAIN journal, journal[i].type = "reply"
  PROVE  Pending(WithReply(m, i))
<1>1. WithReply(m, i).pending \in {m.pending, i}
  BY DEF WithReply, Memory
<1> QED BY <1>1 DEF Pending

\* A result leaves alone what is pending.
LEMMA ResultPending ==
  ASSUME NEW m \in Memory, Pending(m), NEW i
  PROVE  Pending(WithResult(m, i))
<1>1. WithResult(m, i).pending = m.pending
  BY DEF WithResult, Memory
<1> QED BY <1>1 DEF Pending

\* The running process takes in what was journaled last, or ends a batch.
LEMMA TakesIn ==
  ASSUME IInv, mem' \in Memory, Follows(mem', Len(journal)), Pending(mem'), Checkpoint(mem'),
         pc' = "loop", proc = "running", attempt.call = "none",
         UNCHANGED <<Fixed, kind, proc, reason, at, attempt, world, receipt, straggler, journal,
                     CallEvents, rootCalls, told>>
  PROVE  IInv'
<1> USE DEF Fixed, CallEvents
<1>0. /\ TypeOK /\ Places /\ Calls /\ Single /\ Results /\ Conversation /\ Asked
      /\ ProcessTypes /\ CallTypes /\ JournalTypes
  BY Groups DEF IInv
<1>1. checkpoint' = [memory |-> mem', length |-> Len(journal)] /\ Len(journal) \in Nat
  BY <1>0 DEF Checkpoint, JournalTypes
<1>2. TypeOK'
  <2>1. checkpoint' \in [memory : Memory, length : Nat]
    BY <1>1
  <2> QED BY <1>0, <2>1 DEF TypeOK
<1>3. Places' /\ Single'
  BY <1>0, SingleFrame DEF Places
<1>4. Calls'
  BY <1>0, CallsFrame
<1>5. Results'
  BY <1>0, ResultsFrame DEF Known
<1>6. Conversation'
  <2>1. checkpoint'.memory = mem' /\ checkpoint'.length = Len(journal)
    BY <1>1
  <2>2. Follows(checkpoint.memory, checkpoint.length)' /\ Follows(mem, Len(journal))'
    BY <2>1 DEF Follows
  <2>3. checkpoint'.length <= Len(journal')
    BY <1>1, <2>1
  <2>4. proc' = "running" /\ pc' = "loop"
    OBVIOUS
  <2> QED BY <2>2, <2>3, <2>4 DEF Conversation
<1>7. Asked'
  BY <1>0, <1>1, AskedFrame DEF Asked
<1> QED BY <1>2, <1>3, <1>4, <1>5, <1>6, <1>7 DEF IInv

\* A reply, a result, or the end of a batch.
LEMMA AcceptIInv ==
  ASSUME IInv, AcceptReply \/ AcceptResult \/ FinishBatch
  PROVE  IInv'
<1>0. /\ Places /\ Results /\ Conversation /\ Asked /\ ProcessTypes /\ JournalTypes
      /\ mem \in Memory /\ Pending(mem)
  BY Groups DEF IInv, ProcessTypes, Asked
<1>1. pc \in {"replied", "recorded"} => Len(journal) \in DOMAIN journal
  BY <1>0 DEF Conversation, JournalTypes
<1>2. CASE AcceptReply
  <2>1. pc = "replied" /\ proc = "running" /\ mem' = WithReply(mem, Len(journal)) /\ Checkpoint(mem')
        /\ pc' = "loop"
    BY <1>2 DEF AcceptReply
  <2>2. Follows(mem, Len(journal) - 1) /\ journal[Len(journal)].type = "reply"
    BY <1>0, <2>1 DEF Conversation
  <2>3. mem' \in Memory /\ Follows(mem', Len(journal)) /\ Pending(mem')
    BY <1>0, <1>1, <2>1, <2>2, ReplyFollows, ReplyPending
  <2>4. attempt.call = "none"
    BY <1>0, <2>1 DEF Places
  <2> QED BY <1>2, <2>1, <2>3, <2>4, TakesIn DEF AcceptReply
<1>3. CASE AcceptResult
  <2>1. pc = "recorded" /\ proc = "running" /\ mem' = WithResult(mem, Len(journal)) /\ Checkpoint(mem')
        /\ pc' = "loop"
    BY <1>0, <1>3 DEF AcceptResult, Places
  <2>2. Follows(mem, Len(journal) - 1) /\ journal[Len(journal)].type = "result"
    BY <1>0, <2>1 DEF Conversation
  <2>3. mem' \in Memory /\ Follows(mem', Len(journal)) /\ Pending(mem')
    BY <1>0, <1>1, <2>1, <2>2, ResultFollows, ResultPending
  <2>4. attempt.call = "none"
    BY <1>0, <2>1 DEF Places
  <2> QED BY <1>3, <2>1, <2>3, <2>4, TakesIn DEF AcceptResult
<1>4. CASE FinishBatch
  <2>1. pc = "loop" /\ proc = "running" /\ mem' = [mem EXCEPT !.pending = 0] /\ Checkpoint(mem')
        /\ pc' = "loop" /\ UNCHANGED proc
    BY <1>4 DEF FinishBatch, InLoop, NothingPending, Process
  <2>2. mem' \in Memory /\ mem'.pending = 0 /\ mem'.sources = mem.sources /\ mem'.terminal = mem.terminal
    BY <1>0, <2>1 DEF Memory
  <2>3. Follows(mem', Len(journal)) /\ Pending(mem')
    BY <1>0, <2>1, <2>2 DEF Conversation, Follows, Pending
  <2>4. attempt.call = "none"
    BY <1>0, <2>1 DEF Places
  <2> QED BY <1>4, <2>1, <2>2, <2>3, <2>4, TakesIn DEF FinishBatch, Process
<1> QED BY <1>2, <1>3, <1>4

\* The model is asked.
LEMMA AskIInv ==
  ASSUME NEW calls \in Batches, IInv, Ask(calls)
  PROVE  IInv'
<1> USE DEF Fixed, CallEvents
<1>0. /\ TypeOK /\ Places /\ Calls /\ Single /\ Results /\ Conversation /\ Asked
      /\ ProcessTypes /\ CallTypes /\ JournalTypes
  BY Groups DEF IInv
<1>1. /\ proc = "running" /\ pc = "loop" /\ mem.terminal = "" /\ told' = mem.sources /\ pc' = "replied"
      /\ journal' = Append(journal, Reply(calls))
      /\ UNCHANGED <<Fixed, proc, reason, mem, at, attempt, world, receipt, straggler, CallEvents,
                     checkpoint, rootCalls>>
  BY DEF Ask, InLoop
<1>2. PICK k \in [ToSet(calls) -> KindsOf(role)] :
        kind' = [c \in Call |-> IF c \in ToSet(calls) /\ kind[c] = "unset" THEN k[c] ELSE kind[c]]
  BY DEF Ask
<1>3. calls \in Seq(Call)
  BY DEF Batches
<1>4. Reply(calls) \in Entry /\ Reply(calls).type = "reply" /\ Reply(calls).calls = calls
  BY <1>3 DEF Reply, Entry
<1>5. KindsOf(role) \subseteq KindsOf("coordinator") /\ "unset" \notin KindsOf("coordinator")
  BY DEF KindsOf
<1>6. kind' \in [Call -> KindsOf("coordinator") \cup {"unset"}]
  BY <1>0, <1>2, <1>5 DEF CallTypes
<1>7. \A d \in Call : (kind[d] # "unset" => kind'[d] = kind[d])
                      /\ (d \in ToSet(calls) => kind'[d] # "unset")
  BY <1>0, <1>2, <1>5 DEF CallTypes
<1>8. TypeOK'
  <2>1. journal' \in Seq(Entry)
    BY <1>0, <1>1, <1>4, Grows
  <2>2. told' \in Seq(Nat)
    BY <1>0, <1>1 DEF ProcessTypes, Memory
  <2> QED BY <1>0, <1>1, <1>6, <2>1, <2>2 DEF TypeOK
<1>9. \A d \in Call : LifeOf(d) /\ EffectOf(d)
  BY <1>0 DEF Calls
<1>10. Places'
  <2>1. attempt.call = "none"
    BY <1>0, <1>1 DEF Places
  <2>2. \A d \in Call : outcome[d] = "unknown" => kind[d] = "read"
    BY <1>0, <1>1 DEF Places
  <2> QED BY <1>0, <1>1, <1>7, <2>1, <2>2 DEF Places
<1>11. Calls'
  <2> SUFFICES ASSUME NEW d \in Call PROVE LifeOf(d)' /\ EffectOf(d)'
    BY DEF Calls
  <2>1. CASE kind[d] = "unset"
    <3>1. /\ invoked[d] = 0 /\ ~open[d] /\ outcome[d] = "none" /\ receipt[d] = "none"
          /\ world.applied[d] = 0 /\ d \notin straggler
      BY <1>9, <2>1 DEF LifeOf
    <3>2. attempt.call = "none" /\ attempt.call # d
      BY <1>0, <1>1, ToolRecoveryAssumption DEF Places
    <3>3. LifeOf(d)'
      BY <1>1, <3>1 DEF LifeOf
    <3>4. world' = world /\ receipt' = receipt /\ straggler' = straggler /\ attempt' = attempt
      BY <1>1
    <3>5. EffectOf(d)'
      BY <3>1, <3>2, <3>4 DEF EffectOf
    <3> QED BY <3>3, <3>5
  <2>2. CASE kind[d] # "unset"
    BY <1>1, <1>7, <1>9, <2>2, LifeFrame, EffectFrame
  <2> QED BY <2>1, <2>2
<1>12. Single'
  <2>1. \A d \in Call : Unresolved(d) => kind[d] # "unset"
    BY <1>9 DEF Unresolved, LifeOf
  <2> QED BY <1>0, <1>1, <1>7, <2>1 DEF Single, Unresolved
<1>13. Results'
  BY <1>0, <1>1, <1>4, ResultsReply
<1>14. Conversation'
  <2>1. Len(journal') = Len(journal) + 1 /\ Len(journal) \in Nat /\ journal'[Len(journal')] = Reply(calls)
        /\ journal' # <<>>
    BY <1>0, <1>1, <1>4, Grows
  <2>2. Follows(mem, Len(journal)) /\ told' = First(Len(journal))
    BY <1>0, <1>1 DEF Conversation, Follows
  <2>3. checkpoint.length <= Len(journal') /\ Follows(checkpoint.memory, checkpoint.length)
    BY <1>0, <2>1 DEF Conversation, JournalTypes
  <2>4. Len(journal') - 1 = Len(journal)
    BY <2>1
  <2> QED BY <1>1, <1>4, <2>1, <2>2, <2>3, <2>4 DEF Conversation, Follows
<1>15. Asked'
  <2>1. \A i \in DOMAIN journal : i \in DOMAIN journal' /\ journal'[i] = journal[i]
    BY <1>0, <1>1, <1>4, Grows
  <2>2. \A i \in DOMAIN journal' : i \in DOMAIN journal \/ journal'[i] = Reply(calls)
    BY <1>0, <1>1, <1>4, Grows
  <2>3. ASSUME NEW i \in DOMAIN journal', journal'[i].type = "reply", NEW n \in DOMAIN journal'[i].calls
        PROVE  kind'[journal'[i].calls[n]] # "unset"
    <3>1. CASE i \in DOMAIN journal
      <4>1. journal[i].calls \in Seq(Call) /\ n \in DOMAIN journal[i].calls /\ journal[i].type = "reply"
        BY <1>0, <2>1, <2>3, <3>1, Place DEF Entry
      <4>2. journal[i].calls[n] \in Call
        BY <4>1
      <4> QED BY <1>0, <1>7, <2>1, <3>1, <4>1, <4>2 DEF Asked
    <3>2. CASE journal'[i] = Reply(calls)
      <4>1. n \in DOMAIN calls
        BY <1>4, <2>3, <3>2
      <4>2. calls[n] \in Call /\ calls[n] \in ToSet(calls)
        BY <1>3, <4>1 DEF ToSet
      <4> QED BY <1>4, <1>7, <3>2, <4>2
    <3> QED BY <2>2, <3>1, <3>2
  <2>4. Pending(mem)' /\ Pending(checkpoint.memory)'
    BY <1>0, <1>1, <2>1 DEF Asked, Pending
  <2> QED BY <2>3, <2>4 DEF Asked
<1> QED BY <1>8, <1>10, <1>11, <1>12, <1>13, <1>14, <1>15 DEF IInv

-----------------------------------------------------------------------------
(* A call begins and ends.                                                     *)

\* A call that no loop has begun before begins, or a read again.
LEMMA FirstOrRead ==
  ASSUME NEW c \in Call, IInv, AtCall(c), Refusal(c) = ""
  PROVE  ~open[c] /\ kind[c] # "unset" /\ (invoked[c] = 0 \/ (kind[c] = "read" /\ outcome[c] = "unknown"))
<1>0. /\ Places /\ Calls /\ Results /\ Conversation /\ Asked /\ ProcessTypes /\ CallTypes /\ JournalTypes
      /\ LifeOf(c)
  BY Groups DEF IInv, Calls
<1>1. proc = "running" /\ pc = "loop" /\ mem.terminal = "" /\ mem.pending # 0 /\ IsNext(c, mem)
  BY DEF AtCall, InLoop
<1>2. ~open[c]
  BY <1>0, <1>1, ToolRecoveryAssumption DEF Places
<1>3. ~Known(c)
  <2>1. c \notin Answered(mem.sources)
    BY <1>1 DEF IsNext
  <2>2. Follows(mem, Len(journal))
    BY <1>0, <1>1 DEF Conversation
  <2> QED BY <1>0, <1>1, <2>1, <2>2, KnownIsAnswered
<1>4. kind[c] # "unset"
  <2>1. PICK k \in DOMAIN journal[mem.pending].calls : journal[mem.pending].calls[k] = c
    BY <1>1 DEF IsNext
  <2>2. mem.pending \in DOMAIN journal /\ journal[mem.pending].type = "reply"
    BY <1>0, <1>1 DEF Asked, Pending
  <2> QED BY <1>0, <2>1, <2>2 DEF Asked
<1>5. outcome[c] \in {"none", "unknown"}
  BY <1>0, <1>3 DEF CallTypes, Known
<1>6. outcome[c] = "unknown" => kind[c] = "read"
  BY <1>0, <1>1 DEF Places
<1>7. invoked[c] = 0 \/ outcome[c] # "none"
  BY <1>0, <1>2 DEF LifeOf
<1> QED BY <1>2, <1>4, <1>5, <1>6, <1>7

\* What an invocation does to the calls.
LEMMA IntendCalls ==
  ASSUME NEW c \in Call, IInv, Intend(c), ~open[c], kind[c] # "unset",
         \/ invoked[c] = 0
         \/ kind[c] \in {"read", "delegate"} /\ outcome[c] = "unknown",
         attempt' = [call |-> c, stage |-> "started", ok |-> TRUE],
         UNCHANGED <<kind, world, receipt, straggler>>
  PROVE  /\ CallTypes' /\ Calls' /\ attempt' \in Attempts /\ rootCalls' \in Nat
         /\ outcome' = outcome /\ open'[c] /\ \A d \in Call : d # c => open'[d] = open[d]
<1>0. Calls /\ ProcessTypes /\ CallTypes /\ JournalTypes
  BY Groups DEF IInv
<1>1. /\ invoked' \in [Call -> Nat] /\ before' \in [Call -> Files] /\ open' \in [Call -> BOOLEAN]
      /\ rootCalls' \in Nat /\ outcome' = outcome
  BY <1>0 DEF CallTypes, JournalTypes, Intend
<1>2. /\ invoked'[c] # 0 /\ open'[c]
      /\ \A d \in Call : d # c => open'[d] = open[d] /\ invoked'[d] = invoked[d]
  BY <1>0 DEF CallTypes, Intend
<1>3. CallTypes'
  BY <1>0, <1>1 DEF CallTypes
<1>4. attempt' \in Attempts /\ attempt'.call = c /\ attempt'.stage = "started"
  BY DEF Attempts
<1>5. Calls'
  <2> SUFFICES ASSUME NEW d \in Call PROVE LifeOf(d)' /\ EffectOf(d)'
    BY DEF Calls
  <2>1. LifeOf(d) /\ EffectOf(d)
    BY <1>0 DEF Calls
  <2>2. CASE d # c
    BY <1>1, <1>2, <1>4, <2>1, <2>2, LifeFrame, EffectFrame
  <2>3. CASE d = c
    <3>1. LifeOf(c)'
      BY <1>1, <1>2, <2>1, <2>3 DEF LifeOf, IsWrite
    <3>2. invoked[c] = 0 \/ kind[c] \in {"read", "delegate"}
      OBVIOUS
    <3>3. EffectOf(c)'
      BY <1>4, <2>1, <2>3, <3>2 DEF LifeOf, EffectOf
    <3> QED BY <2>3, <3>1, <3>3
  <2> QED BY <2>2, <2>3
<1> QED BY <1>1, <1>2, <1>3, <1>4, <1>5

\* A call begins.
LEMMA InvokeIInv ==
  ASSUME NEW c \in Call, IInv, Invoke(c)
  PROVE  IInv'
<1>0. /\ TypeOK /\ Places /\ Calls /\ Single /\ Results /\ Conversation /\ Asked
      /\ ProcessTypes /\ CallTypes /\ JournalTypes /\ mem \in Memory /\ world \in Files
  BY Groups DEF IInv, ProcessTypes, CallTypes
<1>1. ~open[c] /\ kind[c] # "unset" /\ (invoked[c] = 0 \/ (kind[c] = "read" /\ outcome[c] = "unknown"))
  BY FirstOrRead DEF Invoke
<1>2. /\ proc = "running" /\ pc = "loop" /\ pc' = "calling" /\ Intend(c)
      /\ mem' = [mem EXCEPT !.toolState = world]
      /\ attempt' = [call |-> c, stage |-> "started", ok |-> TRUE]
      /\ UNCHANGED <<Fixed, kind, proc, reason, at, world, receipt, straggler, journal, checkpoint, told>>
  BY DEF Invoke, AtCall, InLoop
<1>3. /\ CallTypes' /\ Calls' /\ attempt' \in Attempts /\ rootCalls' \in Nat
      /\ outcome' = outcome /\ open'[c] /\ \A d \in Call : d # c => open'[d] = open[d]
  BY <1>1, <1>2, IntendCalls
<1>4. mem' \in Memory /\ mem'.sources = mem.sources /\ mem'.terminal = mem.terminal
      /\ mem'.pending = mem.pending
  BY <1>0, <1>2 DEF Memory
<1>5. TypeOK'
  BY <1>0, <1>2, <1>3, <1>4 DEF TypeOK, ProcessTypes, CallTypes, JournalTypes, Attempts, Fixed
<1>6. \A d \in Call : ~open[d]
  BY <1>0, <1>2, ToolRecoveryAssumption DEF Places
<1>7. attempt'.call = c
  BY <1>2
<1>8. Places'
  BY <1>0, <1>2, <1>3, <1>6, <1>7 DEF Places
<1>9. Single'
  <2>1. \A d \in Call : Unresolved(d)' /\ kind'[d] # "read" => d = c
    BY <1>0, <1>2, <1>3, <1>6 DEF Places, Unresolved
  <2> QED BY <2>1 DEF Single
<1>10. Results'
  BY <1>0, <1>2, <1>3, ResultsFrame DEF Known
<1>11. Conversation'
  BY <1>0, <1>2, <1>4 DEF Conversation, Follows
<1>12. Asked'
  <2>1. Pending(mem')
    BY <1>0, <1>4 DEF Asked, Pending
  <2> QED BY <1>0, <1>2, <2>1, AskedFrame DEF Asked
<1> QED BY <1>3, <1>5, <1>8, <1>9, <1>10, <1>11, <1>12 DEF IInv

\* The coordinator takes up a call.
LEMMA RecoverCallIInv ==
  ASSUME NEW c \in Call, IInv, RecoverCall(c)
  PROVE  IInv'
<1>0. /\ TypeOK /\ Places /\ Calls /\ Single /\ Results /\ Conversation /\ Asked
      /\ ProcessTypes /\ CallTypes /\ JournalTypes /\ LifeOf(c) /\ EffectOf(c)
  BY Groups DEF IInv, Calls
<1>1. /\ proc = "recovering" /\ attempt = NoCall
      /\ attempt' = [call |-> c, stage |-> "started", ok |-> TRUE]
      /\ UNCHANGED <<Fixed, kind, Process, mem, at, world, receipt, straggler, journal, checkpoint, told>>
  BY DEF RecoverCall, Recovering
<1>2. attempt'.call = c /\ attempt'.stage = "started" /\ attempt' \in Attempts /\ pc = "loop"
  BY <1>0, <1>1 DEF Attempts, Places
<1>3. /\ CallTypes' /\ Calls' /\ rootCalls' \in Nat /\ outcome' = outcome
      /\ open'[c] /\ \A d \in Call : d # c => open'[d] = open[d]
      /\ kind[c] \in {"receipted", "delegate"} /\ Unresolved(c)
  <2>1. CASE MayContinue(c) /\ UNCHANGED <<CallEvents, rootCalls>>
    <3>1. kind[c] \in {"receipted", "delegate"} /\ open[c]
      BY <2>1 DEF MayContinue
    <3>2. UNCHANGED <<kind, world, receipt, straggler, invoked, before, open, outcome, rootCalls>>
      BY <1>1, <2>1 DEF CallEvents
    <3>3. Calls'
      <4> SUFFICES ASSUME NEW d \in Call PROVE LifeOf(d)' /\ EffectOf(d)'
        BY DEF Calls
      <4>1. LifeOf(d) /\ EffectOf(d)
        BY <1>0 DEF Calls
      <4>2. LifeOf(d)'
        BY <3>2, <4>1, LifeFrame
      <4>a. kind' = kind /\ world' = world /\ receipt' = receipt /\ straggler' = straggler
        BY <3>2
      <4>3. CASE d # c
        BY <1>2, <4>1, <4>2, <4>3, <4>a, EffectFrame
      <4>4. CASE d = c
        BY <1>2, <3>1, <4>1, <4>2, <4>4, <4>a DEF EffectOf
      <4> QED BY <4>2, <4>3, <4>4
    <3>4. CallTypes' /\ rootCalls' \in Nat
      BY <1>0, <3>2 DEF CallTypes, JournalTypes
    <3> QED BY <3>1, <3>2, <3>3, <3>4 DEF Unresolved
  <2>2. CASE MayInvokeAgain(c) /\ Intend(c)
    <3>1. invoked[c] # 0 /\ ~Known(c) /\ ~open[c] /\ kind[c] = "delegate"
      BY <1>0, <2>2 DEF MayInvokeAgain, HasNoResult, CallTypes
    <3>2. outcome[c] = "unknown"
      BY <1>0, <3>1 DEF LifeOf, CallTypes, Known
    <3>3. UNCHANGED <<kind, world, receipt, straggler>>
      BY <1>1
    <3> QED BY <1>1, <2>2, <3>1, <3>2, <3>3, IntendCalls DEF Unresolved
  <2> QED BY <2>1, <2>2 DEF RecoverCall
<1>4. TypeOK'
  BY <1>0, <1>1, <1>2, <1>3 DEF TypeOK, ProcessTypes, CallTypes, JournalTypes, Attempts, Fixed, Process
<1>5. Places'
  BY <1>0, <1>1, <1>2, <1>3 DEF Places, Process
<1>6. Single'
  <2>1. \A d \in Call : Unresolved(d)' => Unresolved(d)
    BY <1>3 DEF Unresolved
  <2> QED BY <1>0, <1>1, <2>1 DEF Single
<1>7. Results'
  BY <1>0, <1>1, <1>3, ResultsFrame DEF Known
<1>8. Conversation'
  BY <1>0, <1>1, ConversationFrame DEF Process
<1>9. Asked'
  BY <1>0, <1>1, AskedFrame DEF Asked
<1> QED BY <1>3, <1>4, <1>5, <1>6, <1>7, <1>8, <1>9 DEF IInv

\* What an execution event does to the calls.
LEMMA ExecuteCalls ==
  ASSUME NEW c \in Call, NEW shown \in BOOLEAN, IInv, Execute(c, shown), open[c], attempt' = NoCall,
         UNCHANGED <<kind, world, receipt, straggler>>
  PROVE  /\ CallTypes' /\ Calls' /\ Single' /\ Results' /\ ~open'[c] /\ Known(c)'
         /\ \A d \in Call : d # c => open'[d] = open[d] /\ outcome'[d] = outcome[d]
         /\ Result(c, shown) \in Entry /\ Result(c, shown).type = "result"
         /\ journal' = Append(journal, Result(c, shown))
<1>0. Calls /\ Single /\ Results /\ ProcessTypes /\ CallTypes /\ JournalTypes
  BY Groups DEF IInv
<1>1. open' \in [Call -> BOOLEAN] /\ outcome' \in [Call -> {"none", "unknown", "unshown", "shown"}]
      /\ UNCHANGED <<invoked, before>>
  BY <1>0 DEF CallTypes, Execute
<1>2. /\ ~open'[c] /\ outcome'[c] \in {"shown", "unshown"}
      /\ \A d \in Call : d # c => open'[d] = open[d] /\ outcome'[d] = outcome[d]
  BY <1>0 DEF CallTypes, Execute
<1>3. CallTypes'
  BY <1>0, <1>1 DEF CallTypes
<1>4. Calls'
  <2> SUFFICES ASSUME NEW d \in Call PROVE LifeOf(d)' /\ EffectOf(d)'
    BY DEF Calls
  <2>1. LifeOf(d) /\ EffectOf(d)
    BY <1>0 DEF Calls
  <2>2. attempt'.call # d
    BY ToolRecoveryAssumption DEF NoCall
  <2>3. EffectOf(d)'
    BY <2>1, <2>2, EffectFrame
  <2>4. LifeOf(d)'
    BY <1>1, <1>2, <2>1 DEF LifeOf, IsWrite
  <2> QED BY <2>3, <2>4
<1>5. Single'
  <2>1. \A d \in Call : Unresolved(d)' => Unresolved(d)
    BY <1>2 DEF Unresolved
  <2> QED BY <1>0, <2>1 DEF Single
<1>6. Results'
  <2>1. ~Known(c)
    BY <1>0 DEF Calls, LifeOf, Known
  <2> QED BY <1>0, <2>1, ResultsExecute
<1>7. Result(c, shown) \in Entry /\ Result(c, shown).type = "result"
  BY <1>0 DEF Result, Entry, CallTypes
<1> QED BY <1>2, <1>3, <1>4, <1>5, <1>6, <1>7 DEF Execute, Known

\* A result is journaled by the loop.
LEMMA RecordIInv ==
  ASSUME NEW c \in Call, IInv, Record(c) \/ PresentationFails(c)
  PROVE  IInv'
<1>0. /\ TypeOK /\ Places /\ Calls /\ Single /\ Results /\ Conversation /\ Asked
      /\ ProcessTypes /\ CallTypes /\ JournalTypes /\ mem \in Memory /\ world \in Files
  BY Groups DEF IInv, ProcessTypes, CallTypes
<1>1. /\ pc = "calling" /\ attempt.call = c /\ attempt' = NoCall
      /\ UNCHANGED <<Fixed, kind, world, receipt, straggler, checkpoint, rootCalls, told>>
  BY DEF Record, PresentationFails, Stop
<1>2. PICK shown \in BOOLEAN : Execute(c, shown)
  BY DEF Record, PresentationFails
<1>3. proc = "running" /\ open[c]
  BY <1>0, <1>1, ToolRecoveryAssumption DEF Places
<1>4. /\ CallTypes' /\ Calls' /\ Single' /\ Results' /\ ~open'[c] /\ Known(c)'
      /\ \A d \in Call : d # c => open'[d] = open[d] /\ outcome'[d] = outcome[d]
      /\ Result(c, shown) \in Entry /\ Result(c, shown).type = "result"
      /\ journal' = Append(journal, Result(c, shown))
  BY <1>1, <1>2, <1>3, ExecuteCalls
<1>5. /\ journal' \in Seq(Entry) /\ Len(journal) \in Nat /\ Len(journal') = Len(journal) + 1
      /\ journal' # <<>> /\ journal'[Len(journal')] = Result(c, shown)
  BY <1>0, <1>4, Grows
<1>6. JournalTypes'
  BY <1>0, <1>1, <1>5 DEF JournalTypes, Fixed
<1>7. ProcessTypes' /\ Places' /\ Pending(mem') /\ Conversation'
  <2>1. CASE Record(c)
    <3>1. pc' = "recorded" /\ mem' = [mem EXCEPT !.toolState = world] /\ UNCHANGED <<proc, reason, at>>
      BY <2>1 DEF Record
    <3>2. mem' \in Memory /\ mem'.sources = mem.sources /\ mem'.terminal = mem.terminal
          /\ mem'.pending = mem.pending
      BY <1>0, <3>1 DEF Memory
    <3>3. ProcessTypes'
      BY <1>0, <1>1, <3>1, <3>2, NothingTypes DEF ProcessTypes
    <3>4. Places'
      <4>1. attempt'.call = "none"
        BY <1>1 DEF NoCall
      <4>2. \A d \in Call : ~open'[d]
        BY <1>0, <1>1, <1>3, <1>4 DEF Places
      <4>3. \A d \in Call : outcome'[d] = "unknown" => kind'[d] = "read"
        BY <1>0, <1>1, <1>3, <1>4 DEF Places, Known
      <4> QED BY <1>3, <3>1, <4>1, <4>2, <4>3 DEF Places
    <3>5. Pending(mem')
      BY <1>0, <3>2 DEF Asked, Pending
    <3>6. Conversation'
      <4>a. Len(journal') - 1 = Len(journal)
        BY <1>5
      <4>b. Follows(mem, Len(journal)) /\ checkpoint.length <= Len(journal)
            /\ Follows(checkpoint.memory, checkpoint.length)
        BY <1>0, <1>1, <1>3 DEF Conversation
      <4>1. Follows(mem, Len(journal) - 1)'
        BY <3>2, <4>a, <4>b DEF Follows
      <4>c. checkpoint.length \in Nat /\ UNCHANGED checkpoint
        BY <1>0, <1>1 DEF JournalTypes
      <4>2. checkpoint'.length <= Len(journal') /\ Follows(checkpoint.memory, checkpoint.length)'
        <5>1. checkpoint.length <= Len(journal')
          BY <1>5, <4>b, <4>c
        <5> QED BY <4>b, <4>c, <5>1 DEF Follows
      <4> QED BY <1>3, <1>4, <1>5, <3>1, <4>1, <4>2 DEF Conversation
    <3> QED BY <3>3, <3>4, <3>5, <3>6
  <2>2. CASE PresentationFails(c)
    <3>1. /\ proc' = "stopped" /\ reason' \in StopReason /\ pc' = "loop" /\ mem' = NoMemory /\ at' = 0
      BY <2>2 DEF PresentationFails, Stop, StopReason
    <3>2. ProcessTypes' /\ Places' /\ Pending(mem')
      BY <1>0, <1>1, <3>1, EndsProcess
    <3>3. Conversation'
      BY <1>0, <1>1, <1>5, <3>1, ConversationEnds DEF JournalTypes
    <3> QED BY <3>2, <3>3
  <2> QED BY <2>1, <2>2
<1>8. TypeOK'
  BY <1>4, <1>6, <1>7 DEF TypeOK, ProcessTypes, CallTypes, JournalTypes, Attempts
<1>9. Asked'
  <2>1. Pending(checkpoint'.memory) /\ UNCHANGED kind
    BY <1>0, <1>1 DEF Asked
  <2> QED BY <1>0, <1>4, <1>7, <2>1, AskedFrame
<1> QED BY <1>4, <1>7, <1>8, <1>9 DEF IInv

\* The result of a recovered call is journaled.
LEMMA RecordRecoveredIInv ==
  ASSUME NEW c \in Call, IInv, RecordRecovered(c)
  PROVE  IInv'
<1>0. /\ TypeOK /\ Places /\ Calls /\ Single /\ Results /\ Conversation /\ Asked
      /\ ProcessTypes /\ CallTypes /\ JournalTypes
  BY Groups DEF IInv
<1>1. /\ proc = "recovering" /\ attempt.call = c /\ attempt' = NoCall /\ Execute(c, TRUE)
      /\ UNCHANGED <<Fixed, kind, Process, mem, at, world, receipt, straggler, checkpoint, rootCalls, told>>
  BY DEF RecordRecovered
<1>2. open[c] /\ pc = "loop"
  BY <1>0, <1>1, ToolRecoveryAssumption DEF Places
<1>3. /\ CallTypes' /\ Calls' /\ Single' /\ Results'
      /\ Result(c, TRUE) \in Entry /\ Result(c, TRUE).type = "result"
      /\ journal' = Append(journal, Result(c, TRUE))
  BY <1>1, <1>2, ExecuteCalls
<1>4. /\ journal' \in Seq(Entry) /\ Len(journal) \in Nat /\ Len(journal') = Len(journal) + 1
  BY <1>0, <1>3, Grows
<1>5. JournalTypes'
  BY <1>0, <1>1, <1>4 DEF JournalTypes, Fixed
<1>6. ProcessTypes' /\ Places'
  <2>1. ProcessTypes'
    BY <1>0, <1>1, NothingTypes DEF ProcessTypes, Process
  <2>2. attempt'.call = "none" /\ proc' = "recovering" /\ pc' = "loop"
    BY <1>1, <1>2 DEF NoCall, Process
  <2> QED BY <2>1, <2>2 DEF Places
<1>7. Conversation'
  BY <1>0, <1>1, <1>2, <1>4, ConversationEnds DEF Process
<1>8. TypeOK'
  BY <1>3, <1>5, <1>6 DEF TypeOK, ProcessTypes, CallTypes, JournalTypes, Attempts
<1>9. Asked'
  <2>1. Pending(mem') /\ Pending(checkpoint'.memory) /\ UNCHANGED kind
    BY <1>0, <1>1 DEF Asked
  <2> QED BY <1>0, <1>3, <2>1, AskedFrame
<1> QED BY <1>3, <1>6, <1>7, <1>8, <1>9 DEF IInv

-----------------------------------------------------------------------------
(* The task is started again.                                                  *)

\* A resume.
LEMMA ResumeIInv ==
  ASSUME IInv, Resume
  PROVE  IInv'
<1>0. /\ TypeOK /\ Places /\ Calls /\ Single /\ Results /\ Conversation /\ Asked
      /\ ProcessTypes /\ CallTypes /\ JournalTypes /\ resumes \in Nat /\ Len(journal) \in Nat
  BY Groups DEF IInv, JournalTypes
<1>1. /\ proc \in {"down", "stopped"} /\ proc' = "recovering" /\ reason' = "" /\ pc' = "loop" /\ resumes' = resumes + 1
      /\ UNCHANGED <<role, kind, mem, at, attempt, world, receipt, straggler, journal, checkpoint, rootCalls, told>>
      /\ UNCHANGED <<invoked, before, open, outcome>>
  BY DEF Resume, CallEvents
<1>2. TypeOK'
  <2>0. resumes' = resumes + 1 /\ resumes \in Nat
    BY <1>0, <1>1, Zenon
  <2>1. resumes' \in Nat
    BY <2>0
  <2>2. reason' \in StopReason
    BY <1>1 DEF StopReason
  <2> QED BY <1>0, <1>1, <2>1, <2>2 DEF TypeOK
<1>3. Places'
  <2>1. attempt'.call = "none"
    BY <1>0, <1>1 DEF Places
  <2> QED BY <1>1, <2>1 DEF Places
<1>4. Calls' /\ Single'
  BY <1>0, <1>1, CallsFrame, SingleFrame
<1>5. Results'
  BY <1>0, <1>1, ResultsFrame DEF Known
<1>6. Conversation'
  <2>1. Len(journal) \in Nat /\ journal' = journal /\ checkpoint' = checkpoint
    BY <1>0, <1>1
  <2>2. proc' \notin {"running", "restoring"} /\ pc' = "loop"
    BY <1>1
  <2> QED BY <1>0, <2>1, <2>2, ConversationEnds
<1>7. Asked'
  BY <1>0, <1>1, AskedFrame DEF Asked
<1> QED BY <1>2, <1>3, <1>4, <1>5, <1>6, <1>7 DEF IInv

\* The restore begins.
LEMMA BeginRestoreIInv ==
  ASSUME IInv, BeginRestore
  PROVE  IInv'
<1>0. /\ TypeOK /\ Places /\ Calls /\ Single /\ Results /\ Conversation /\ Asked
      /\ ProcessTypes /\ CallTypes /\ JournalTypes /\ checkpoint.memory \in Memory /\ checkpoint.length \in Nat
  BY Groups DEF IInv, JournalTypes
<1>1. /\ proc = "recovering" /\ proc' = "restoring" /\ mem' = checkpoint.memory
      /\ at' = checkpoint.length + 1 /\ attempt' = NoCall
      /\ UNCHANGED <<role, resumes, kind, pc, reason, world, receipt, straggler, journal, checkpoint, rootCalls, told>>
      /\ UNCHANGED <<invoked, before, open, outcome>>
  BY DEF BeginRestore, FirstReplayed, Fixed, CallEvents
<1>2. TypeOK'
  <2>1. ProcessTypes'
    BY <1>0, <1>1, NothingTypes DEF ProcessTypes
  <2> QED BY <1>0, <1>1, <2>1 DEF TypeOK, ProcessTypes, Attempts
<1>3. Places'
  <2>1. attempt'.call = "none" /\ pc = "loop"
    BY <1>0, <1>1 DEF NoCall, Places
  <2> QED BY <1>1, <2>1 DEF Places
<1>4. Calls' /\ Single'
  BY <1>0, <1>1, CallsFrame, SingleFrame, ToolRecoveryAssumption
<1>5. Results'
  BY <1>0, <1>1, ResultsFrame DEF Known
<1>6. Conversation'
  <2>1. pc' = "loop" /\ at' - 1 = checkpoint.length /\ Len(journal) \in Nat
    BY <1>0, <1>1 DEF Places, JournalTypes
  <2>2. at' \in 1..(Len(journal) + 1) /\ checkpoint.length <= Len(journal)
    BY <1>0, <1>1, <2>1 DEF Conversation
  <2>3. Follows(mem', at' - 1) /\ Follows(checkpoint.memory, checkpoint.length)
    BY <1>0, <1>1, <2>1 DEF Conversation
  <2> QED BY <1>1, <2>1, <2>2, <2>3 DEF Conversation, Follows
<1>7. Asked'
  BY <1>0, <1>1, AskedFrame DEF Asked
<1> QED BY <1>2, <1>3, <1>4, <1>5, <1>6, <1>7 DEF IInv

\* An entry is replayed.
LEMMA ReplayIInv ==
  ASSUME IInv, Replay
  PROVE  IInv'
<1>0. /\ TypeOK /\ Places /\ Calls /\ Single /\ Results /\ Conversation /\ Asked
      /\ ProcessTypes /\ CallTypes /\ JournalTypes /\ mem \in Memory /\ at \in Nat /\ Len(journal) \in Nat
  BY Groups DEF IInv, ProcessTypes, JournalTypes
<1>1. /\ proc = "restoring" /\ at <= Len(journal) /\ at' = at + 1
      /\ UNCHANGED <<role, resumes, kind, proc, pc, reason, attempt, world, receipt, straggler, journal>>
      /\ UNCHANGED <<invoked, before, open, outcome, checkpoint, rootCalls, told>>
  BY DEF Replay, Fixed, CallEvents, Process
<1>2. at \in DOMAIN journal /\ Follows(mem, at - 1) /\ Pending(mem) /\ journal[at] \in Entry
  BY <1>0, <1>1 DEF Conversation, Asked, JournalTypes
<1>3. mem' \in Memory /\ Follows(mem', at) /\ Pending(mem')
  <2>1. CASE journal[at].type = "reply" /\ mem' = WithReply(mem, at)
    BY <1>0, <1>2, <2>1, ReplyFollows, ReplyPending
  <2>2. CASE /\ journal[at].type = "result"
             /\ mem' = [WithResult(mem, at) EXCEPT
                          !.toolState = IF journal[at].shown THEN journal[at].after ELSE @]
    <3>1. WithResult(mem, at) \in Memory /\ Follows(WithResult(mem, at), at) /\ Pending(WithResult(mem, at))
      BY <1>0, <1>2, <2>2, ResultFollows, ResultPending
    <3>2. journal[at].after \in Files
      BY <1>2, <2>2 DEF Entry
    <3>3. PICK w \in Files : mem' = [WithResult(mem, at) EXCEPT !.toolState = w]
      BY <2>2, <3>1, <3>2 DEF Memory
    <3>4. /\ mem' \in Memory /\ mem'.sources = WithResult(mem, at).sources
          /\ mem'.terminal = WithResult(mem, at).terminal /\ mem'.pending = WithResult(mem, at).pending
      BY <3>1, <3>3 DEF Memory
    <3> QED BY <3>1, <3>4 DEF Follows, Pending
  <2> QED BY <2>1, <2>2 DEF Replay
<1>4. TypeOK'
  BY <1>0, <1>1, <1>3 DEF TypeOK
<1>5. Places' /\ Single'
  BY <1>0, <1>1, SingleFrame DEF Places
<1>6. Calls'
  BY <1>0, <1>1, CallsFrame
<1>7. Results'
  BY <1>0, <1>1, ResultsFrame DEF Known
<1>8. Conversation'
  <2>1. at' - 1 = at /\ at' \in 1..(Len(journal) + 1)
    BY <1>0, <1>1
  <2>2. Follows(mem', at' - 1)
    BY <1>3, <2>1
  <2>3. pc' = "loop" /\ proc' = "restoring"
    BY <1>0, <1>1 DEF Places
  <2>4. checkpoint.length <= Len(journal) /\ Follows(checkpoint.memory, checkpoint.length)
    BY <1>0 DEF Conversation
  <2> QED BY <1>1, <2>1, <2>2, <2>3, <2>4 DEF Conversation, Follows
<1>9. Asked'
  BY <1>0, <1>1, <1>3, AskedFrame DEF Asked
<1> QED BY <1>4, <1>5, <1>6, <1>7, <1>8, <1>9 DEF IInv

\* The calls without a result are looked at.
LEMMA InspectIInv ==
  ASSUME IInv, Inspect
  PROVE  IInv'
<1>0. /\ TypeOK /\ Places /\ Calls /\ Single /\ Results /\ Conversation /\ Asked
      /\ ProcessTypes /\ CallTypes /\ JournalTypes /\ mem \in Memory /\ at \in Nat /\ Len(journal) \in Nat
      /\ world \in Files
  BY Groups DEF IInv, ProcessTypes, CallTypes, JournalTypes
<1>1. /\ proc = "restoring" /\ at > Len(journal)
      /\ open' = [c \in Call |-> FALSE]
      /\ outcome' = [c \in Call |-> IF open[c] THEN "unknown" ELSE outcome[c]]
      /\ UNCHANGED <<role, resumes, kind, world, receipt, straggler, journal, invoked, before, rootCalls, told>>
  BY DEF Inspect, Fixed
<1>2. pc = "loop" /\ attempt.call = "none"
  BY <1>0, <1>1 DEF Places
<1>3. at = Len(journal) + 1 /\ Follows(mem, Len(journal))
  BY <1>0, <1>1 DEF Conversation
<1>4. \A d \in Call : ~open'[d] /\ outcome'[d] = IF open[d] THEN "unknown" ELSE outcome[d]
  BY <1>1
<1>5. CallTypes'
  <2>1. open' \in [Call -> BOOLEAN]
    BY <1>1
  <2>2. outcome' \in [Call -> {"none", "unknown", "unshown", "shown"}]
    BY <1>0, <1>1 DEF CallTypes
  <2> QED BY <1>0, <1>1, <2>1, <2>2 DEF CallTypes
<1>6. ASSUME attempt'.call = "none" PROVE Calls'
  <2> SUFFICES ASSUME NEW d \in Call PROVE LifeOf(d)' /\ EffectOf(d)'
    BY DEF Calls
  <2>1. LifeOf(d) /\ EffectOf(d)
    BY <1>0 DEF Calls
  <2>2. attempt'.call # d
    BY <1>6, ToolRecoveryAssumption
  <2>3. UNCHANGED <<kind, invoked, receipt, world, straggler>>
    BY <1>1
  <2>4. EffectOf(d)'
    BY <2>1, <2>2, <2>3, EffectFrame
  <2>5. LifeOf(d)'
    BY <1>4, <2>1, <2>3 DEF LifeOf, IsWrite
  <2> QED BY <2>4, <2>5
<1>7. Single'
  <2>1. \A d \in Call : Unresolved(d)' => Unresolved(d)
    BY <1>4 DEF Unresolved
  <2>2. UNCHANGED kind
    BY <1>1
  <2> QED BY <1>0, <2>1, <2>2 DEF Single
<1>8. Results'
  <2>1. \A d \in Call : Known(d)' <=> Known(d)
    BY <1>0, <1>4 DEF Known, Calls, LifeOf
  <2>2. UNCHANGED journal
    BY <1>1
  <2> QED BY <1>0, <2>1, <2>2, ResultsFrame
<1>a. CASE (\E why \in StopReason : Stop(why)) /\ UNCHANGED checkpoint
  <2>1. /\ proc' = "stopped" /\ reason' \in StopReason /\ pc' = "loop"
        /\ mem' = NoMemory /\ at' = 0 /\ attempt' = NoCall
    BY <1>a DEF Stop
  <2>2. ProcessTypes' /\ Places' /\ Pending(mem')
    BY <1>0, <2>1, EndsProcess
  <2>3. TypeOK'
    BY <1>0, <1>1, <1>5, <1>a, <2>2 DEF TypeOK, ProcessTypes, CallTypes, JournalTypes, Attempts
  <2>4. Calls'
    BY <1>6, <2>1 DEF NoCall
  <2>5. Conversation'
    <3>1. journal' = journal /\ checkpoint' = checkpoint
      BY <1>1, <1>a
    <3>2. proc' \notin {"running", "restoring"} /\ pc' = "loop"
      BY <2>1
    <3> QED BY <1>0, <3>1, <3>2, ConversationEnds
  <2>6. Asked'
    <3>1. UNCHANGED <<kind, journal, checkpoint>>
      BY <1>1, <1>a
    <3> QED BY <1>0, <2>2, <3>1, AskedFrame DEF Asked
  <2> QED BY <1>7, <1>8, <2>2, <2>3, <2>4, <2>5, <2>6 DEF IInv
<1>b. CASE /\ \A d \in Call : outcome'[d] = "unknown" => kind[d] = "read"
           /\ proc' = "running" /\ mem' = [mem EXCEPT !.toolState = world] /\ Checkpoint(mem') /\ at' = 0
           /\ UNCHANGED <<pc, reason, attempt>>
  <2>1. /\ mem' \in Memory /\ mem'.sources = mem.sources /\ mem'.terminal = mem.terminal
        /\ mem'.pending = mem.pending
    BY <1>0, <1>b DEF Memory
  <2>2. checkpoint' = [memory |-> mem', length |-> Len(journal)]
    BY <1>b DEF Checkpoint
  <2>3. checkpoint' \in [memory : Memory, length : Nat] /\ checkpoint'.memory = mem'
        /\ checkpoint'.length = Len(journal)
    BY <1>0, <2>1, <2>2
  <2>4. TypeOK'
    BY <1>0, <1>1, <1>5, <1>b, <2>1, <2>3 DEF TypeOK, CallTypes
  <2>5. Places'
    BY <1>1, <1>2, <1>4, <1>b DEF Places
  <2>6. Calls'
    BY <1>2, <1>6, <1>b
  <2>7. Conversation'
    <3>1. journal' = journal /\ proc' = "running" /\ pc' = "loop"
      BY <1>1, <1>2, <1>b
    <3>2. Follows(mem, Len(journal))' /\ Follows(checkpoint.memory, checkpoint.length)'
      BY <1>3, <2>1, <2>3, <3>1 DEF Follows
    <3>3. checkpoint'.length <= Len(journal')
      BY <1>0, <2>3, <3>1
    <3> QED BY <3>1, <3>2, <3>3 DEF Conversation
  <2>8. Asked'
    <3>1. UNCHANGED <<kind, journal>>
      BY <1>1
    <3>2. Pending(mem') /\ Pending(checkpoint'.memory)
      BY <1>0, <2>1, <2>3 DEF Asked, Pending
    <3> QED BY <1>0, <3>1, <3>2, AskedFrame
  <2> QED BY <1>7, <1>8, <2>4, <2>5, <2>6, <2>7, <2>8 DEF IInv
<1> DEFINE unresolved == {c \in Call : outcome'[c] = "unknown"}
           refusals == {why \in {"resume_pending_operation", "tool_recovery_retries_exhausted"} :
             \E c \in unresolved :
               IF Policy(kind[c]) # "retry_read" THEN why = "resume_pending_operation"
               ELSE ~RetriesLeft(c) /\ why = "tool_recovery_retries_exhausted"}
           goesOn == /\ proc' = "running" /\ mem' = [mem EXCEPT !.toolState = world] /\ Checkpoint(mem')
                     /\ at' = 0 /\ UNCHANGED <<pc, reason, attempt>>
<1>9. \/ (\E why \in refusals \cup {"resume_state_changed"} : Stop(why)) /\ UNCHANGED checkpoint
      \/ refusals = {} /\ goesOn
  BY Zenon DEF Inspect
<1>10. refusals \cup {"resume_state_changed"} \subseteq StopReason
  BY DEF StopReason
<1>11. ASSUME refusals = {} PROVE \A d \in Call : outcome'[d] = "unknown" => kind[d] = "read"
  <2> SUFFICES ASSUME NEW d \in Call, outcome'[d] = "unknown", kind[d] # "read" PROVE FALSE
    OBVIOUS
  <2>1. Policy(kind[d]) # "retry_read" /\ d \in unresolved
    BY DEF Policy
  <2>2. "resume_pending_operation" \in refusals
    BY <2>1
  <2> QED BY <1>11, <2>2
<1> HIDE DEF unresolved, refusals
<1>12. CASE refusals = {} /\ goesOn
  BY <1>b, <1>11, <1>12
<1>13. CASE (\E why \in refusals \cup {"resume_state_changed"} : Stop(why)) /\ UNCHANGED checkpoint
  BY <1>a, <1>10, <1>13
<1> QED BY <1>9, <1>12, <1>13

-----------------------------------------------------------------------------
(* What the first layer gives.                                                 *)

\* Every step keeps the invariant.
THEOREM NextIInv == IInv /\ [Next]_vars => IInv'
<1> SUFFICES ASSUME IInv, [Next]_vars PROVE IInv'
  OBVIOUS
<1>1. CASE LoopStep
  BY <1>1, StopIInv, AcceptIInv, AskIInv, InvokeIInv, RecordIInv DEF LoopStep
<1>2. CASE ToolStep
  BY <1>2, ToolIInv, ToolRaisesIInv DEF ToolStep
<1>3. CASE RestoreStep
  BY <1>3, BeginRestoreIInv, ReplayIInv, InspectIInv, RecoverCallIInv, RecordRecoveredIInv DEF RestoreStep
<1>4. CASE Environment
  BY <1>4, CrashIInv, OutsideIInv, ResumeIInv, LateEffectIInv DEF Environment
<1>5. CASE UNCHANGED vars
  <2>1. TypeOK' /\ Places'
    BY <1>5 DEF IInv, vars, TypeOK, Places
  <2>2. Calls' /\ Single' /\ Results' /\ Conversation' /\ Asked'
    <3>1. Calls' /\ Single'
      BY <1>5, CallsFrame, SingleFrame DEF IInv, vars
    <3>2. Results'
      BY <1>5, Groups, ResultsFrame DEF IInv, vars, Known
    <3>3. Conversation' /\ Asked'
      BY <1>5, ConversationFrame DEF IInv, vars, Asked, Pending
    <3> QED BY <3>1, <3>2, <3>3
  <2> QED BY <2>1, <2>2 DEF IInv
<1> QED BY <1>1, <1>2, <1>3, <1>4, <1>5 DEF Next

\* The invariant holds of every run.
THEOREM ToolInvariant == Spec => []IInv
BY InitIInv, NextIInv, PTL DEF Spec

\* The variables have their types (loop.py 1385-1473, 1615-1850).
THEOREM ToolTypes == Spec => []TypeOK
<1>1. IInv => TypeOK
  BY DEF IInv
<1> QED BY <1>1, ToolInvariant, PTL

\* A call changes the files at most once, whatever raises, runs out of time,
\* crashes or lands late (loop.py 1407-1413, session.py 1189-1212, 1305-1410).
THEOREM ToolEffects == Spec => []EffectAtMostOnce
<1>1. IInv => EffectAtMostOnce
  BY DEF IInv, Calls, EffectOf, EffectAtMostOnce
<1> QED BY <1>1, ToolInvariant, PTL

\* The model is told the journal, each entry once and in its place
\* (loop.py 1624, 1693-1755, session.py 1336-1424).
THEOREM ToolConversation == Spec => []ConversationIsJournal
<1>1. IInv => ConversationIsJournal
  BY DEF IInv, Conversation, First, ConversationIsJournal
<1> QED BY <1>1, ToolInvariant, PTL

\* The steps that change the journal or begin a call are never taken while the
\* outcome of a write is unknown.
LEMMA UnknownWriteStops ==
  ASSUME IInv, [Next]_vars, NEW c \in Call, IsWrite(c), outcome[c] = "unknown"
  PROVE  UNCHANGED <<journal, invoked>>
<1>0. Places /\ Calls /\ Single /\ CallTypes /\ Unresolved(c) /\ kind[c] # "read"
  BY Groups DEF IInv, Unresolved, IsWrite
<1>1. proc # "running" /\ pc = "loop"
  BY <1>0 DEF Places
<1>2. ~open[c]
  BY <1>0 DEF Calls, LifeOf
<1>3. ASSUME NEW d \in Call, RecordRecovered(d) PROVE FALSE
  <2>1. open[d] /\ kind[d] \in {"receipted", "delegate"}
    BY <1>0, <1>3, ToolRecoveryAssumption DEF RecordRecovered, Places
  <2>2. c = d
    BY <1>0, <2>1 DEF Single, Unresolved
  <2> QED BY <1>2, <2>1, <2>2
<1>4. ASSUME NEW d \in Call, MayInvokeAgain(d) PROVE FALSE
  <2>1. invoked[d] # 0 /\ ~Known(d) /\ ~open[d] /\ kind[d] = "delegate"
    BY <1>0, <1>4 DEF MayInvokeAgain, HasNoResult, CallTypes
  <2>2. outcome[d] = "unknown"
    BY <1>0, <2>1 DEF Calls, LifeOf, CallTypes, Known
  <2>3. c = d
    BY <1>0, <2>1, <2>2 DEF Single, Unresolved
  <2> QED BY <2>1, <2>3 DEF IsWrite
<1>5. CASE LoopStep
  BY <1>1, <1>5 DEF LoopStep, StopOnTerminal, OutOfReplies, AcceptReply, AcceptResult, FinishBatch, Ask,
     RefuseCall, Invoke, AtCall, InLoop, Record, PresentationFails
<1>6. CASE ToolStep
  <2>1. PICK d \in Call :
          \/ ToolReads(d) \/ ToolWrites(d) \/ ToolBegins(d) \/ ToolMutates(d)
          \/ ToolSaves(d) \/ ToolDelegates(d) \/ ToolReturns(d) \/ ToolRefuses(d) \/ ToolRaises(d)
    BY <1>6 DEF ToolStep
  <2>2. CASE ToolRaises(d)
    BY <2>2 DEF ToolRaises
  <2>3. CASE ~ToolRaises(d)
    <3>1. UNCHANGED InTool
      BY <2>1, <2>3, Zenon DEF ToolReads, ToolWrites, ToolBegins, ToolMutates, ToolSaves, ToolDelegates,
         ToolReturns, ToolRefuses, InTool
    <3> QED BY <3>1 DEF InTool, CallEvents
  <2> QED BY <2>2, <2>3
<1>7. CASE RestoreStep
  <2>1. CASE BeginRestore \/ Replay \/ Inspect
    BY <2>1 DEF BeginRestore, Replay, Inspect, CallEvents
  <2>2. CASE \E d \in Call : RecoverCall(d) \/ RecordRecovered(d)
    BY <1>3, <1>4, <2>2 DEF RecoverCall, CallEvents
  <2> QED BY <1>7, <2>1, <2>2 DEF RestoreStep
<1>8. CASE Environment
  BY <1>8 DEF Environment, Crash, Edit, OthersInvoke, Resume, LateEffect, CallEvents
<1>9. CASE UNCHANGED vars
  BY <1>9 DEF vars
<1> QED BY <1>5, <1>6, <1>7, <1>8, <1>9 DEF Next

\* Once the outcome of a write is journaled as unknown, the task never asks the
\* model or calls a tool again (loop.py 1446-1448, 1765-1772).
THEOREM ToolFinality == Spec => UnknownWriteIsFinal
<1>1. IInv /\ [Next]_vars =>
        [(\E c \in Call : IsWrite(c) /\ outcome[c] = "unknown") => UNCHANGED <<journal, invoked>>]_vars
  BY UnknownWriteStops
<1> QED BY <1>1, ToolInvariant, PTL DEF Spec, UnknownWriteIsFinal

-----------------------------------------------------------------------------
(* The order of the journal.  Results follow their reply, one for each call,   *)
(* in the order of the calls.  Then the call whose result is still to come is  *)
(* known, and no other was ever begun.                                         *)

\* In the journal s each reply is followed by the results of its calls.
InPlace(s) ==
  \A i \in 1..Len(s) : s[i].type = "reply" =>
    /\ IsInjective(s[i].calls)
    /\ \A k \in 1..Len(s[i].calls) :
         i + k <= Len(s) => s[i + k].type = "result" /\ s[i + k].call = s[i].calls[k]

\* After s comes the result of c.
Due(s, c) ==
  \E p \in 1..Len(s) : /\ s[p].type = "reply" /\ Len(s) + 1 - p \in 1..Len(s[p].calls)
                       /\ s[p].calls[Len(s) + 1 - p] = c

\* Nothing is due after the first n entries of s.
Complete(s, n) == \A i \in 1..n : s[i].type = "reply" => i + Len(s[i].calls) <= n

\* The last of the first n entries of s that is a reply is the p-th, and none of its
\* calls was answered before.
Fresh(s, p, n) ==
  /\ p \in 1..n /\ s[p].type = "reply"
  /\ \A i \in (p + 1)..n : s[i].type = "result"
  /\ \A i \in 1..(p - 1) : s[i].type = "result" => s[i].call \notin ToSet(s[p].calls)

\* The memory m is not about to stop.
GoesOn(m) == m.terminal = ""

\* The memory m has taken in the first n entries of s, unless it stopped at the last.
Taken(s, m, n) ==
  /\ m.sources \in {First(n - 1), First(n)}
  /\ GoesOn(m) => IF m.pending = 0 THEN Complete(s, n) ELSE Fresh(s, m.pending, n)

\* A result more.
LEMMA ResultInPlace ==
  ASSUME NEW s \in Seq(Entry), InPlace(s), NEW e \in Entry, e.type = "result", Due(s, e.call),
         NEW t, t = Append(s, e)
  PROVE  InPlace(t)
<1>1. /\ Len(s) \in Nat /\ Len(t) = Len(s) + 1 /\ t[Len(s) + 1] = e
      /\ \A i \in 1..Len(s) : t[i] = s[i]
  OBVIOUS
<1>2. PICK p \in 1..Len(s) : /\ s[p].type = "reply" /\ Len(s) + 1 - p \in 1..Len(s[p].calls)
                             /\ s[p].calls[Len(s) + 1 - p] = e.call
  BY DEF Due
<1>3. \A j \in 1..Len(s) : s[j].type = "reply" => Len(s[j].calls) \in Nat
  BY DEF Entry
<1> SUFFICES ASSUME NEW i \in 1..Len(t), t[i].type = "reply"
             PROVE  /\ IsInjective(t[i].calls)
                    /\ \A k \in 1..Len(t[i].calls) :
                         i + k <= Len(t) => t[i + k].type = "result" /\ t[i + k].call = t[i].calls[k]
  BY DEF InPlace
<1>4. i \in 1..Len(s) /\ t[i] = s[i] /\ s[i].type = "reply"
  BY <1>1
<1>5. IsInjective(t[i].calls)
  BY <1>4 DEF InPlace
<1>6. ASSUME NEW k \in 1..Len(t[i].calls), i + k <= Len(t)
      PROVE  t[i + k].type = "result" /\ t[i + k].call = t[i].calls[k]
  <2>0. k \in Nat /\ k # 0 /\ i \in Nat /\ p \in Nat
    BY <1>3, <1>4
  <2>1. CASE i + k <= Len(s)
    BY <1>1, <1>4, <2>0, <2>1 DEF InPlace
  <2>2. CASE i + k = Len(s) + 1
    <3>1. CASE i = p
      <4>1. k = Len(s) + 1 - p
        BY <1>1, <2>0, <2>2, <3>1
      <4>2. s[p].calls[k] = e.call /\ t[i].calls = s[p].calls
        BY <1>2, <1>4, <3>1, <4>1
      <4>3. t[i + k] = e
        BY <1>1, <2>2
      <4> QED
        BY <4>2, <4>3
    <3>2. CASE i < p
      <4>1. p - i \in 1..Len(s[i].calls) /\ i + (p - i) <= Len(s) /\ i + (p - i) = p
        BY <1>1, <1>3, <1>4, <2>0, <2>2, <3>2
      <4>2. s[p].type = "result"
        BY <1>4, <4>1 DEF InPlace
      <4> QED
        BY <1>2, <4>2
    <3>3. CASE p < i
      <4>1. i - p \in 1..Len(s[p].calls) /\ p + (i - p) <= Len(s) /\ p + (i - p) = i
        BY <1>1, <1>2, <1>3, <1>4, <2>0, <2>2, <3>3
      <4>2. s[i].type = "result"
        BY <1>2, <4>1 DEF InPlace
      <4> QED
        BY <1>4, <4>2
    <3>4. i = p \/ i < p \/ p < i
      BY <2>0
    <3> QED
      BY <3>1, <3>2, <3>3, <3>4
  <2>3. i + k <= Len(s) \/ i + k = Len(s) + 1
    BY <1>1, <1>6, <2>0
  <2> QED
    BY <2>1, <2>2, <2>3
<1> QED
  BY <1>5, <1>6

\* Only one result can be due.
LEMMA OneIsDue ==
  ASSUME NEW s \in Seq(Entry), InPlace(s), NEW c, NEW d, Due(s, c), Due(s, d)
  PROVE  c = d
<1>1. PICK p \in 1..Len(s) : /\ s[p].type = "reply" /\ Len(s) + 1 - p \in 1..Len(s[p].calls)
                             /\ s[p].calls[Len(s) + 1 - p] = c
  BY DEF Due
<1>2. PICK q \in 1..Len(s) : /\ s[q].type = "reply" /\ Len(s) + 1 - q \in 1..Len(s[q].calls)
                             /\ s[q].calls[Len(s) + 1 - q] = d
  BY DEF Due
<1>3. \A j \in 1..Len(s) : s[j].type = "reply" => Len(s[j].calls) \in Nat
  BY DEF Entry
<1>4. ASSUME NEW i \in 1..Len(s), NEW j \in 1..Len(s), i < j, s[i].type = "reply", s[j].type = "reply",
             Len(s) + 1 - i \in 1..Len(s[i].calls)
      PROVE  FALSE
  <2>1. j - i \in 1..Len(s[i].calls) /\ i + (j - i) <= Len(s) /\ i + (j - i) = j
    BY <1>3, <1>4
  <2>2. s[j].type = "result"
    BY <1>4, <2>1 DEF InPlace
  <2> QED
    BY <1>4, <2>2
<1>5. p = q
  BY <1>1, <1>2, <1>4
<1> QED
  BY <1>1, <1>2, <1>5

\* A reply more, where nothing is due.
LEMMA ReplyInPlace ==
  ASSUME NEW s \in Seq(Entry), InPlace(s), Complete(s, Len(s)), NEW e \in Entry,
         e.type = "reply", IsInjective(e.calls), NEW t, t = Append(s, e)
  PROVE  InPlace(t) /\ \A c : ~Due(s, c)
<1>1. /\ Len(s) \in Nat /\ Len(t) = Len(s) + 1 /\ t[Len(s) + 1] = e
      /\ \A i \in 1..Len(s) : t[i] = s[i]
  OBVIOUS
<1>2. ASSUME NEW i \in 1..Len(t), t[i].type = "reply"
      PROVE  /\ IsInjective(t[i].calls)
             /\ \A k \in 1..Len(t[i].calls) :
                  i + k <= Len(t) => t[i + k].type = "result" /\ t[i + k].call = t[i].calls[k]
  <2>1. CASE i = Len(s) + 1
    BY <1>1, <2>1
  <2>2. CASE i \in 1..Len(s)
    <3>1. i + Len(s[i].calls) <= Len(s) /\ Len(s[i].calls) \in Nat
      BY <1>1, <1>2, <2>2 DEF Complete, Entry
    <3> QED
      BY <1>1, <1>2, <2>2, <3>1 DEF InPlace
  <2> QED
    BY <1>1, <2>1, <2>2
<1>3. \A c : ~Due(s, c)
  BY <1>1 DEF Due, Complete, Entry
<1> QED
  BY <1>2, <1>3 DEF InPlace

\* What was taken in stays so.
LEMMA TakenStays ==
  ASSUME NEW s, NEW t, NEW m, NEW n \in Nat, \A i \in 1..n : t[i] = s[i], Taken(s, m, n)
  PROVE  Taken(t, m, n)
<1>1. Complete(s, n) => Complete(t, n)
  BY DEF Complete
<1>2. ASSUME NEW p, Fresh(s, p, n) PROVE Fresh(t, p, n)
  <2>1. p \in 1..n /\ t[p] = s[p] /\ \A i \in (p + 1)..n : i \in 1..n
    BY <1>2 DEF Fresh
  <2>2. \A i \in 1..(p - 1) : i \in 1..n
    BY <2>1
  <2> QED
    BY <1>2, <2>1, <2>2 DEF Fresh
<1> QED
  BY <1>1, <1>2 DEF Taken

\* The next call of the pending reply is the one whose result is due.
LEMMA NextIsDue ==
  ASSUME JournalTypes, InPlace(journal), NEW m, m.sources = First(Len(journal)), m.pending # 0,
         Fresh(journal, m.pending, Len(journal)), NEW c \in Call, IsNext(c, m)
  PROVE  Due(journal, c)
<1> DEFINE n == Len(journal)
           p == m.pending
           calls == journal[p].calls
<1>1. /\ n \in Nat /\ p \in 1..n /\ p \in Nat /\ journal[p].type = "reply" /\ calls \in Seq(Call)
      /\ DOMAIN calls = 1..Len(calls) /\ Len(calls) \in Nat /\ IsInjective(calls)
  BY DEF JournalTypes, Fresh, Entry, InPlace
<1>2. \A d : d \in Answered(m.sources) <=> \E l \in 1..n : journal[l].type = "result" /\ journal[l].call = d
  BY DEF Answered, First
<1>3. PICK k \in 1..Len(calls) : /\ calls[k] = c /\ c \notin Answered(m.sources)
                                 /\ \A j \in 1..(k - 1) : calls[j] \in Answered(m.sources)
  BY <1>1 DEF IsNext
<1> HIDE DEF n, p, calls
<1>4. ASSUME k < n + 1 - p PROVE FALSE
  <2>1. p + k \in 1..n /\ p + k <= Len(journal)
    BY <1>1, <1>3, <1>4 DEF n
  <2>2. journal[p + k].type = "result" /\ journal[p + k].call = calls[k]
    BY <1>1, <2>1 DEF InPlace, calls, n
  <2> QED
    BY <1>2, <1>3, <2>1, <2>2
<1>5. ASSUME k > n + 1 - p PROVE FALSE
  <2> DEFINE j == n + 1 - p
  <2>1. j \in 1..(k - 1) /\ j \in 1..Len(calls)
    BY <1>1, <1>5
  <2>2. PICK l \in 1..n : journal[l].type = "result" /\ journal[l].call = calls[j]
    BY <1>2, <1>3, <2>1
  <2>3. calls[j] \in ToSet(calls)
    BY <1>1, <2>1 DEF ToSet
  <2>4. p < l
    <3>1. ~(l \in 1..(p - 1))
      BY <2>2, <2>3 DEF Fresh, p, calls, n
    <3>2. l # p
      BY <1>1, <2>2
    <3> QED
      BY <1>1, <3>1, <3>2
  <2>5. l - p \in 1..Len(calls) /\ p + (l - p) = l /\ l <= Len(journal)
    BY <1>1, <1>5, <2>4 DEF n
  <2>6. journal[l].call = calls[l - p]
    BY <1>1, <2>5 DEF InPlace, calls, n
  <2>7. l - p = j
    BY <1>1, <2>1, <2>2, <2>5, <2>6 DEF IsInjective
  <2> QED
    BY <1>1, <2>7
<1>6. k = n + 1 - p
  BY <1>1, <1>4, <1>5
<1> QED
  BY <1>1, <1>3, <1>6 DEF Due, n, calls

\* A batch whose calls have their answers is complete.
LEMMA AnsweredIsComplete ==
  ASSUME JournalTypes, InPlace(journal), NEW m, m.sources = First(Len(journal)), m.pending # 0,
         Fresh(journal, m.pending, Len(journal)),
         ToSet(journal[m.pending].calls) \subseteq Answered(m.sources)
  PROVE  Complete(journal, Len(journal))
<1> DEFINE n == Len(journal)
           p == m.pending
           calls == journal[p].calls
<1>1. /\ n \in Nat /\ p \in 1..n /\ p \in Nat /\ journal[p].type = "reply" /\ calls \in Seq(Call)
      /\ DOMAIN calls = 1..Len(calls) /\ Len(calls) \in Nat /\ IsInjective(calls)
  BY DEF JournalTypes, Fresh, Entry, InPlace
<1>2. \A d : d \in Answered(m.sources) <=> \E l \in 1..n : journal[l].type = "result" /\ journal[l].call = d
  BY DEF Answered, First
<1>3. ToSet(calls) \subseteq Answered(m.sources)
  OBVIOUS
<1> HIDE DEF n, p, calls
<1>4. p + Len(calls) <= n
  <2> SUFFICES ASSUME p + Len(calls) > n PROVE FALSE
    BY <1>1
  <2>1. Len(calls) \in 1..Len(calls)
    BY <1>1
  <2>2. calls[Len(calls)] \in ToSet(calls)
    BY <1>1, <2>1 DEF ToSet
  <2>3. PICK l \in 1..n : journal[l].type = "result" /\ journal[l].call = calls[Len(calls)]
    BY <1>2, <1>3, <2>2
  <2>4. p < l
    <3>1. ~(l \in 1..(p - 1))
      BY <2>2, <2>3 DEF Fresh, p, calls, n
    <3>2. l # p
      BY <1>1, <2>3
    <3> QED
      BY <1>1, <3>1, <3>2
  <2>5. l - p \in 1..Len(calls) /\ p + (l - p) = l /\ l <= Len(journal)
    BY <1>1, <2>4 DEF n
  <2>6. journal[l].call = calls[l - p]
    BY <1>1, <2>5 DEF InPlace, calls, n
  <2>7. l - p = Len(calls)
    BY <1>1, <2>1, <2>3, <2>5, <2>6 DEF IsInjective
  <2> QED
    BY <1>1, <2>7
<1>5. ASSUME NEW i \in 1..n, journal[i].type = "reply" PROVE i + Len(journal[i].calls) <= n
  <2>0. Len(journal[i].calls) \in Nat /\ i \in Nat
    BY <1>1, <1>5 DEF JournalTypes, Entry, n
  <2>1. CASE i = p
    BY <1>4, <2>1 DEF calls
  <2>2. CASE i < p
    <3> SUFFICES ASSUME i + Len(journal[i].calls) > n PROVE FALSE
      BY <1>1, <2>0
    <3>1. p - i \in 1..Len(journal[i].calls) /\ i + (p - i) = p /\ p <= Len(journal) /\ i <= Len(journal)
      BY <1>1, <2>0, <2>2 DEF n
    <3>2. journal[p].type = "result"
      BY <1>5, <2>0, <3>1 DEF InPlace, n
    <3> QED
      BY <1>1, <3>2
  <2>3. CASE p < i
    BY <1>1, <1>5, <2>0, <2>3 DEF Fresh, n, p
  <2> QED
    BY <1>1, <2>0, <2>1, <2>2, <2>3
<1> QED
  BY <1>5 DEF Complete, n

\* Invoked, and without a known outcome.
Away(c) == invoked[c] # 0 /\ ~Known(c)

\* What a sequence lists is finite.
LEMMA ListedIsFinite ==
  ASSUME NEW S, NEW s \in Seq(S)
  PROVE  IsFiniteSet(ToSet(s))
<1>1. DOMAIN s = 1..Len(s) /\ Len(s) \in Nat
  OBVIOUS
<1>2. IsFiniteSet(1..Len(s))
  BY <1>1, FS_Interval
<1>3. s \in Surjection(1..Len(s), ToSet(s))
  <2>1. s \in [1..Len(s) -> ToSet(s)]
    BY <1>1 DEF ToSet
  <2>2. \A e \in ToSet(s) : \E l \in 1..Len(s) : s[l] = e
    BY <1>1 DEF ToSet
  <2> QED
    BY <2>1, <2>2 DEF Surjection
<1> QED
  BY <1>2, <1>3, FS_Surjection

\* Numbers are more or at most.
LEMMA MoreOrAtMost ==
  ASSUME JournalTypes, NEW k \in Nat
  PROVE  rootCalls + k > RootToolCalls \/ rootCalls + k <= RootToolCalls
<1>1. rootCalls \in Nat /\ RootToolCalls \in Nat
  BY ToolRecoveryAssumption DEF JournalTypes
<1> QED
  BY <1>1

\* The results before the n-th entry are among the first n - 1.
LEMMA AnsweredFirst ==
  ASSUME NEW n \in Nat, n # 0, NEW s, s = First(n - 1)
  PROVE  /\ \A c : c \in Answered(s) <=> \E l \in 1..(n - 1) : journal[l].type = "result" /\ journal[l].call = c
         /\ n \notin ToSet(s)
<1>1. DOMAIN s = 1..(n - 1) /\ \A l \in 1..(n - 1) : s[l] = l
  BY DEF First
<1>2. \A c : c \in Answered(s) <=> \E l \in 1..(n - 1) : journal[l].type = "result" /\ journal[l].call = c
  BY <1>1 DEF Answered
<1>3. n \notin ToSet(s)
  BY <1>1 DEF ToSet
<1> QED
  BY <1>2, <1>3

\* What becomes of a reply.
LEMMA ReplyCases ==
  ASSUME JournalTypes, NEW m, NEW n \in Nat, n # 0, n \in DOMAIN journal, journal[n].type = "reply",
         m.sources = First(n - 1)
  PROVE  LET calls == ToSet(journal[n].calls) IN
         \/ WithReply(m, n) = [m EXCEPT !.terminal = "root_tool_budget_exhausted"]
         \/ WithReply(m, n) = [m EXCEPT !.terminal = "tool_authorization_failed"]
         \/ /\ calls \cap Answered(m.sources) = {}
            /\ WithReply(m, n) = [m EXCEPT !.sources = Append(@, n), !.pending = IF calls = {} THEN @ ELSE n,
                                           !.terminal = IF calls = {} THEN "completed" ELSE @]
<1> DEFINE calls == ToSet(journal[n].calls)
           size == Cardinality({c \in calls : invoked[c] = 0})
           over == rootCalls + size > RootToolCalls
           within == rootCalls + size <= RootToolCalls
<1>1. n \notin ToSet(m.sources)
  BY AnsweredFirst
<1>2. over \/ within
  <2>1. journal[n].calls \in Seq(Call)
    BY Place DEF Entry
  <2>2. IsFiniteSet(calls)
    BY <2>1, ListedIsFinite
  <2>3. size \in Nat
    BY <2>2, FS_Subset, FS_CardinalityType
  <2> HIDE DEF size
  <2> QED
    BY <2>3, MoreOrAtMost
<1> SUFFICES
      \/ WithReply(m, n) = [m EXCEPT !.terminal = "root_tool_budget_exhausted"]
      \/ WithReply(m, n) = [m EXCEPT !.terminal = "tool_authorization_failed"]
      \/ /\ calls \cap Answered(m.sources) = {}
         /\ WithReply(m, n) = [m EXCEPT !.sources = Append(@, n), !.pending = IF calls = {} THEN @ ELSE n,
                                        !.terminal = IF calls = {} THEN "completed" ELSE @]
  OBVIOUS
<1>3. WithReply(m, n) =
        CASE n \in ToSet(m.sources) -> m
          [] n \notin ToSet(m.sources) /\ over -> [m EXCEPT !.terminal = "root_tool_budget_exhausted"]
          [] n \notin ToSet(m.sources) /\ within /\ calls \cap Answered(m.sources) # {} ->
               [m EXCEPT !.terminal = "tool_authorization_failed"]
          [] OTHER -> [m EXCEPT !.sources = Append(@, n), !.pending = IF calls = {} THEN @ ELSE n,
                                !.terminal = IF calls = {} THEN "completed" ELSE @]
  BY DEF WithReply
<1> HIDE DEF over, within
<1> QED
  BY <1>1, <1>2, <1>3

\* A reply is taken in.
LEMMA ReplyTaken ==
  ASSUME JournalTypes, NEW m \in Memory, NEW n \in Nat, n # 0, n \in DOMAIN journal,
         journal[n].type = "reply", GoesOn(m), m.sources = First(n - 1)
  PROVE  Taken(journal, WithReply(m, n), n)
<1>1. Append(m.sources, n) = First(n)
  BY AppendFirst DEF Memory
<1>2. n \in 1..n /\ \A i \in (n + 1)..n : FALSE
  OBVIOUS
<1> DEFINE calls == ToSet(journal[n].calls)
           w == WithReply(m, n)
<1>3. \/ w = [m EXCEPT !.terminal = "root_tool_budget_exhausted"]
      \/ w = [m EXCEPT !.terminal = "tool_authorization_failed"]
      \/ /\ calls \cap Answered(m.sources) = {}
         /\ w = [m EXCEPT !.sources = Append(@, n), !.pending = IF calls = {} THEN @ ELSE n,
                          !.terminal = IF calls = {} THEN "completed" ELSE @]
  BY ReplyCases
<1> HIDE DEF w
<1>4. CASE w = [m EXCEPT !.terminal = "root_tool_budget_exhausted"] \/ w = [m EXCEPT !.terminal = "tool_authorization_failed"]
  <2>1. w.sources = First(n - 1) /\ w.terminal # ""
    BY <1>4 DEF Memory
  <2> QED
    BY <2>1 DEF Taken, w, GoesOn
<1>5. CASE /\ calls \cap Answered(m.sources) = {}
           /\ w = [m EXCEPT !.sources = Append(@, n), !.pending = IF calls = {} THEN @ ELSE n,
                            !.terminal = IF calls = {} THEN "completed" ELSE @]
  <2>1. w.sources = First(n)
    BY <1>1, <1>5 DEF Memory
  <2>2. CASE calls = {}
    <3>1. w.terminal = "completed"
      BY <1>5, <2>2 DEF Memory
    <3> QED
      BY <2>1, <3>1 DEF Taken, w, GoesOn
  <2>3. CASE calls # {}
    <3>1. w.pending = n
      BY <1>5, <2>3 DEF Memory
    <3>3. \A i \in 1..(n - 1) : journal[i].type = "result" => journal[i].call \in Answered(m.sources)
      BY AnsweredFirst
    <3>4. \A i \in 1..(n - 1) : journal[i].type = "result" => journal[i].call \notin calls
      BY <1>5, <3>3
    <3>5. Fresh(journal, n, n)
      BY <1>2, <3>4 DEF Fresh
    <3> QED
      BY <1>2, <2>1, <3>1, <3>5 DEF Taken, w
  <2> QED
    BY <2>2, <2>3
<1> QED
  BY <1>3, <1>4, <1>5 DEF w

\* A result leaves nothing behind it.
LEMMA ResultCompletes ==
  ASSUME JournalTypes, NEW n \in Nat, n # 0, n \in DOMAIN journal, journal[n].type = "result"
  PROVE  /\ Complete(journal, n - 1) => Complete(journal, n)
         /\ \A p \in Nat : Fresh(journal, p, n - 1) => Fresh(journal, p, n)
<1>1. ASSUME Complete(journal, n - 1), NEW i \in 1..n, journal[i].type = "reply"
      PROVE  i + Len(journal[i].calls) <= n
  <2>1. i \in 1..(n - 1)
    <3>1. i # n
      BY <1>1
    <3> QED
      BY <3>1
  <2>2. Len(journal[i].calls) \in Nat
    <3>1. DOMAIN journal = 1..Len(journal) /\ Len(journal) \in Nat
      BY DEF JournalTypes
    <3>2. i \in DOMAIN journal
      BY <2>1, <3>1
    <3>3. journal[i].calls \in Seq(Call)
      BY <1>1, <3>2, Place DEF Entry
    <3> QED
      BY <3>3
  <2>3. i + Len(journal[i].calls) <= n - 1
    BY <1>1, <2>1 DEF Complete
  <2> QED
    BY <2>2, <2>3
<1>2. ASSUME NEW p \in Nat, Fresh(journal, p, n - 1) PROVE Fresh(journal, p, n)
  <2>1. p \in 1..n
    BY <1>2 DEF Fresh
  <2>2. ASSUME NEW i \in (p + 1)..n PROVE journal[i].type = "result"
    <3>1. i = n \/ i \in (p + 1)..(n - 1)
      OBVIOUS
    <3> QED
      BY <1>2, <3>1 DEF Fresh
  <2> QED
    BY <1>2, <2>1, <2>2 DEF Fresh
<1> QED
  BY <1>1, <1>2 DEF Complete

\* A result is taken in.
LEMMA ResultTaken ==
  ASSUME JournalTypes, Results, NEW m \in Memory, NEW n \in Nat, n # 0, n \in DOMAIN journal,
         journal[n].type = "result", GoesOn(m), m.sources = First(n - 1), Taken(journal, m, n - 1)
  PROVE  Taken(journal, WithResult(m, n), n)
<1>0. Append(m.sources, n) = First(n) /\ m.pending \in Nat
  BY AppendFirst DEF Memory
<1>1. journal[n].call \notin Answered(m.sources)
  <2> SUFFICES ASSUME journal[n].call \in Answered(m.sources) PROVE FALSE
    OBVIOUS
  <2>1. PICK k \in 1..(n - 1) : journal[k].type = "result" /\ journal[k].call = journal[n].call
    BY AnsweredFirst
  <2>2. DOMAIN journal = 1..Len(journal) /\ Len(journal) \in Nat
    BY DEF JournalTypes
  <2>3. k \in DOMAIN journal /\ k # n
    BY <2>2
  <2> QED
    BY <2>1, <2>3 DEF Results
<1> DEFINE w == WithResult(m, n)
<1>2. \/ w = [m EXCEPT !.terminal = "tool_presentation_failed"]
      \/ w = [m EXCEPT !.sources = Append(@, n)]
  BY <1>1, Zenon DEF WithResult
<1> HIDE DEF w
<1>3. CASE w = [m EXCEPT !.terminal = "tool_presentation_failed"]
  <2>1. w.sources = First(n - 1) /\ w.terminal = "tool_presentation_failed"
    BY <1>3 DEF Memory
  <2> QED
    BY <2>1 DEF Taken, w, GoesOn
<1>4. CASE w = [m EXCEPT !.sources = Append(@, n)]
  <2>1. w.sources = First(n) /\ w.terminal = "" /\ w.pending = m.pending
    BY <1>0, <1>4 DEF Memory, GoesOn
  <2> QED
    BY <1>0, <2>1, ResultCompletes DEF Taken, w, GoesOn
<1> QED
  BY <1>2, <1>3, <1>4

NobodyAway == \A c \in Call : ~Away(c)

\* The checkpoint is at most one entry behind the journal; while it is behind, or
\* about to stop, no call is without its result.
Near ==
  /\ Len(journal) \in {checkpoint.length, checkpoint.length + 1}
  /\ ~GoesOn(checkpoint.memory) => Len(journal) = checkpoint.length
  /\ Len(journal) # checkpoint.length \/ ~GoesOn(checkpoint.memory) => NobodyAway

\* The journal is in order, and only the call whose result is due was begun.
Order ==
  /\ InPlace(journal) /\ \A c \in Call : Away(c) => Due(journal, c)
  /\ Taken(journal, checkpoint.memory, checkpoint.length)

SameMind(m, k) == m.sources = k.sources /\ m.pending = k.pending /\ m.terminal = k.terminal

\* What the process remembers, beside the checkpoint.
Minds ==
  /\ proc = "running" =>
       /\ SameMind(mem, checkpoint.memory)
       /\ Len(journal) = IF pc \in {"replied", "recorded"} THEN checkpoint.length + 1 ELSE checkpoint.length
  /\ proc = "restoring" /\ at <= Len(journal) => mem = checkpoint.memory /\ at = checkpoint.length + 1
  /\ proc = "restoring" /\ at > Len(journal) =>
       Taken(journal, mem, Len(journal)) /\ (~GoesOn(mem) => NobodyAway)
  /\ proc \notin {"running", "restoring"} => mem = NoMemory

Orderly == Near /\ Order /\ Minds

\* Nothing is journaled or saved, and no call begun.
LEMMA OrderFrame ==
  ASSUME Near, Order, UNCHANGED <<journal, checkpoint>>, \A c \in Call : Away(c)' => Away(c)
  PROVE  Near' /\ Order' /\ (NobodyAway => NobodyAway')
<1>1. NobodyAway => NobodyAway'
  BY DEF NobodyAway
<1>2. Near'
  BY <1>1 DEF Near
<1>3. Order'
  BY DEF Order
<1> QED
  BY <1>1, <1>2, <1>3

\* The same, and the process goes on where it is.
LEMMA StaysOrderly ==
  ASSUME Orderly, UNCHANGED <<proc, pc, mem, at, journal, checkpoint>>, \A c \in Call : Away(c)' => Away(c)
  PROVE  Orderly'
<1>1. Near' /\ Order' /\ (NobodyAway => NobodyAway')
  BY OrderFrame DEF Orderly
<1>2. Minds'
  BY <1>1 DEF Orderly, Minds
<1> QED
  BY <1>1, <1>2 DEF Orderly

\* The same, and the process ends or waits to be restored.
LEMMA EndsOrderly ==
  ASSUME Orderly, UNCHANGED <<journal, checkpoint>>, \A c \in Call : Away(c)' => Away(c),
         proc' \notin {"running", "restoring"}, mem' = NoMemory
  PROVE  Orderly'
<1>1. Near' /\ Order'
  BY OrderFrame DEF Orderly
<1>2. Minds'
  BY DEF Minds
<1> QED
  BY <1>1, <1>2 DEF Orderly

\* A checkpoint of a memory that has taken in the whole journal.
LEMMA SavesOrderly ==
  ASSUME JournalTypes, Order, journal' = journal, Checkpoint(mem'), \A c \in Call : Away(c)' => Away(c),
         Taken(journal, mem', Len(journal)), ~GoesOn(mem') => NobodyAway,
         proc' = "running", pc' = "loop"
  PROVE  Orderly'
<1>1. checkpoint'.memory = mem' /\ checkpoint'.length = Len(journal)
  BY DEF Checkpoint
<1>2. NobodyAway => NobodyAway'
  BY DEF NobodyAway
<1>3. GoesOn(checkpoint.memory)' <=> GoesOn(mem')
  BY <1>1 DEF GoesOn
<1>4. Near'
  BY <1>1, <1>2, <1>3 DEF Near
<1>5. Order'
  BY <1>1 DEF Order
<1>6. Minds'
  BY <1>1 DEF Minds, SameMind
<1> QED
  BY <1>4, <1>5, <1>6 DEF Orderly

\* Where the memories agree, both have taken in the same.
LEMMA TakenMind ==
  ASSUME NEW s, NEW m, NEW k, NEW n, SameMind(m, k), Taken(s, k, n)
  PROVE  Taken(s, m, n)
BY DEF SameMind, Taken, GoesOn

\* No entry.
LEMMA NothingFirst == First(0) = <<>>
<1>1. First(0) = [i \in {} |-> i]
  BY DEF First
<1> QED
  BY <1>1

\* The first state.
LEMMA InitOrderly ==
  ASSUME Init
  PROVE  Orderly
<1>1. /\ proc = "running" /\ pc = "loop" /\ mem = NoMemory /\ journal = <<>>
      /\ checkpoint.memory = NoMemory /\ checkpoint.length = 0 /\ \A c \in Call : invoked[c] = 0
  BY DEF Init
<1>2. NobodyAway
  BY <1>1 DEF NobodyAway, Away
<1>3. NoMemory.sources = <<>> /\ NoMemory.pending = 0 /\ NoMemory.terminal = ""
  BY DEF NoMemory
<1>4. First(0) = <<>> /\ Len(journal) = 0
  BY <1>1, NothingFirst
<1>5. Taken(journal, NoMemory, 0)
  <2>1. Complete(journal, 0)
    BY DEF Complete
  <2>2. NoMemory.sources = First(0)
    BY <1>3, <1>4
  <2> QED
    BY <1>3, <2>1, <2>2 DEF Taken
<1>6. InPlace(journal)
  BY <1>4 DEF InPlace
<1>7. Near
  BY <1>1, <1>2, <1>3, <1>4 DEF Near, GoesOn
<1>8. Order
  BY <1>1, <1>2, <1>5, <1>6 DEF Order, NobodyAway
<1>9. Minds
  BY <1>1, <1>4 DEF Minds, SameMind
<1> QED
  BY <1>7, <1>8, <1>9 DEF Orderly

\* The tool goes on, a late effect lands, or the coordinator recovers a call.
LEMMA QuietOrderly ==
  ASSUME IInv, Orderly, NEW c \in Call,
         \/ ToolReads(c) \/ ToolWrites(c) \/ ToolBegins(c) \/ ToolMutates(c) \/ ToolSaves(c)
         \/ ToolDelegates(c) \/ ToolReturns(c) \/ ToolRefuses(c)
         \/ LateEffect(c) \/ RecoverCall(c)
  PROVE  Orderly'
<1>0. CallTypes
  BY Groups DEF IInv
<1>1. CASE UNCHANGED <<proc, pc, mem, at, journal, checkpoint, invoked, outcome>>
  <2>1. \A d \in Call : Away(d)' => Away(d)
    BY <1>1 DEF Away, Known
  <2> QED
    BY <1>1, <2>1, StaysOrderly
<1>2. CASE RecoverCall(c) /\ MayInvokeAgain(c) /\ Intend(c)
  <2>1. UNCHANGED <<proc, pc, mem, at, journal, checkpoint, outcome>> /\ invoked' = [invoked EXCEPT ![c] = @ + 1]
    BY <1>2 DEF RecoverCall, Process, Intend
  <2>2. Away(c)
    BY <1>0, <1>2 DEF MayInvokeAgain, HasNoResult, Away, CallTypes
  <2>3. \A d \in Call : d # c => invoked'[d] = invoked[d]
    BY <1>0, <2>1 DEF CallTypes
  <2>4. \A d \in Call : Away(d)' => Away(d)
    BY <2>1, <2>2, <2>3 DEF Away, Known
  <2> QED
    BY <2>1, <2>4, StaysOrderly
<1>3. CASE RecoverCall(c)
  BY <1>1, <1>2, <1>3 DEF RecoverCall, Process, CallEvents
<1>4. CASE \/ ToolReads(c) \/ ToolWrites(c) \/ ToolBegins(c) \/ ToolMutates(c) \/ ToolSaves(c)
           \/ ToolDelegates(c) \/ ToolReturns(c) \/ ToolRefuses(c)
  <2>1. UNCHANGED InTool
    BY <1>4, Zenon DEF ToolReads, ToolWrites, ToolBegins, ToolMutates, ToolSaves, ToolDelegates,
       ToolReturns, ToolRefuses, InTool
  <2> QED
    BY <1>1, <2>1 DEF InTool, Process, CallEvents
<1>5. CASE LateEffect(c)
  BY <1>1, <1>5 DEF LateEffect, Process, CallEvents
<1> QED
  BY <1>3, <1>4, <1>5

\* Somebody edits, another task begins a call, or nothing happens.
LEMMA OutsideOrderly ==
  ASSUME Orderly, Edit \/ OthersInvoke \/ UNCHANGED vars
  PROVE  Orderly'
<1>1. UNCHANGED <<proc, pc, mem, at, journal, checkpoint, invoked, outcome>>
  BY DEF Edit, OthersInvoke, Process, CallEvents, vars
<1>2. \A c \in Call : Away(c)' => Away(c)
  BY <1>1 DEF Away, Known
<1> QED
  BY <1>1, <1>2, StaysOrderly

\* The process ends, or the task is started again.
LEMMA StopOrderly ==
  ASSUME IInv, Orderly,
         \/ StopOnTerminal \/ OutOfReplies \/ Crash \/ Resume
         \/ \E c \in Call : RefuseCall(c) \/ ToolRaises(c)
  PROVE  Orderly'
<1>0. CallTypes /\ Places /\ Calls
  BY Groups DEF IInv
<1>1. CASE StopOnTerminal \/ OutOfReplies \/ Crash \/ \E c \in Call : RefuseCall(c)
  <2>1. UNCHANGED <<journal, checkpoint, invoked, outcome>> /\ mem' = NoMemory
        /\ proc' \notin {"running", "restoring"}
    BY <1>1 DEF StopOnTerminal, OutOfReplies, RefuseCall, Crash, Stop, CallEvents
  <2>2. \A d \in Call : Away(d)' => Away(d)
    BY <2>1 DEF Away, Known
  <2> QED
    BY <2>1, <2>2, EndsOrderly
<1>2. ASSUME NEW c \in Call, ToolRaises(c) PROVE Orderly'
  <2>1. UNCHANGED <<journal, checkpoint, invoked>> /\ mem' = NoMemory /\ proc' = "stopped"
        /\ outcome' = [outcome EXCEPT ![c] = "unknown"] /\ attempt.call = c
    BY <1>2 DEF ToolRaises, Stop
  <2>2. open[c]
    BY <1>0, <2>1, ToolRecoveryAssumption DEF Places
  <2>3. ~Known(c)
    BY <1>0, <2>2 DEF Calls, LifeOf, Known
  <2>4. \A d \in Call : d # c => outcome'[d] = outcome[d]
    BY <1>0, <2>1 DEF CallTypes
  <2>5. \A d \in Call : Away(d)' => Away(d)
    BY <2>1, <2>3, <2>4 DEF Away, Known
  <2> QED
    BY <2>1, <2>5, EndsOrderly
<1>3. CASE Resume
  <2>1. UNCHANGED <<journal, checkpoint, invoked, outcome, mem>> /\ proc' = "recovering"
        /\ proc \in {"down", "stopped"}
    BY <1>3 DEF Resume, CallEvents
  <2>2. mem' = NoMemory
    BY <2>1 DEF Orderly, Minds
  <2>3. \A d \in Call : Away(d)' => Away(d)
    BY <2>1 DEF Away, Known
  <2> QED
    BY <2>1, <2>2, <2>3, EndsOrderly
<1> QED
  BY <1>1, <1>2, <1>3

\* The model's reply is journaled.
LEMMA AskOrderly ==
  ASSUME IInv, Orderly, NEW calls \in Batches, Ask(calls)
  PROVE  Orderly'
<1>0. JournalTypes /\ Near /\ Order /\ Minds /\ checkpoint.length \in Nat
  BY Groups DEF IInv, Orderly, JournalTypes
<1>1. /\ proc = "running" /\ pc = "loop" /\ GoesOn(mem) /\ mem.pending = 0
      /\ journal' = Append(journal, Reply(calls)) /\ proc' = "running" /\ pc' = "replied"
      /\ UNCHANGED <<mem, checkpoint, invoked, outcome>>
  BY DEF Ask, InLoop, CallEvents, GoesOn
<1>2. Reply(calls) \in Entry /\ Reply(calls).type = "reply" /\ IsInjective(Reply(calls).calls)
  <2>1. PICK k \in 0..MaxBatch : calls \in [1..k -> Call]
    BY DEF Batches
  <2>2. calls \in Seq(Call)
    BY <2>1
  <2>3. IsInjective(calls)
    BY DEF Batches
  <2> QED
    BY <2>2, <2>3 DEF Reply, Entry
<1>3. SameMind(mem, checkpoint.memory) /\ Len(journal) = checkpoint.length
  BY <1>0, <1>1 DEF Minds
<1>4. GoesOn(checkpoint.memory) /\ checkpoint.memory.pending = 0
  BY <1>1, <1>3 DEF SameMind, GoesOn
<1>5. Complete(journal, Len(journal))
  BY <1>0, <1>3, <1>4 DEF Order, Taken
<1>6. InPlace(journal') /\ \A c : ~Due(journal, c)
  BY <1>0, <1>1, <1>2, <1>5, ReplyInPlace DEF JournalTypes, Order
<1>7. NobodyAway'
  BY <1>0, <1>1, <1>6 DEF Order, NobodyAway, Away, Known
<1>8. Len(journal') = checkpoint.length + 1 /\ \A i \in 1..checkpoint.length : journal'[i] = journal[i]
  BY <1>0, <1>1, <1>2, <1>3 DEF JournalTypes
<1>9. Taken(journal', checkpoint.memory, checkpoint.length)
  BY <1>0, <1>8, TakenStays DEF Order
<1>10. Near'
  BY <1>1, <1>4, <1>7, <1>8 DEF Near, GoesOn
<1>11. Order'
  BY <1>1, <1>6, <1>7, <1>9 DEF Order, NobodyAway
<1>12. Minds'
  BY <1>1, <1>3, <1>8 DEF Minds, SameMind
<1> QED
  BY <1>10, <1>11, <1>12 DEF Orderly

\* What was journaled last is taken in and saved.
LEMMA AcceptOrderly ==
  ASSUME IInv, Orderly, AcceptReply \/ AcceptResult
  PROVE  Orderly'
<1> DEFINE n == Len(journal)
<1>0. /\ JournalTypes /\ Near /\ Order /\ Minds /\ Places /\ Results /\ Conversation
      /\ checkpoint.length \in Nat /\ mem \in Memory /\ n \in Nat
  BY Groups DEF IInv, Orderly, JournalTypes, ProcessTypes
<1>1. /\ proc = "running" /\ pc \in {"replied", "recorded"} /\ Checkpoint(mem')
      /\ proc' = "running" /\ pc' = "loop" /\ UNCHANGED <<journal, invoked, outcome>>
  BY <1>0 DEF AcceptReply, AcceptResult, CallEvents, Places
<1>2. SameMind(mem, checkpoint.memory) /\ n = checkpoint.length + 1
  BY <1>0, <1>1 DEF Minds
<1>3. NobodyAway /\ GoesOn(checkpoint.memory) /\ n # 0 /\ checkpoint.length = n - 1
  BY <1>0, <1>2 DEF Near
<1>4. GoesOn(mem)
  BY <1>2, <1>3 DEF SameMind, GoesOn
<1>5. mem.sources = First(n - 1)
  BY <1>0, <1>1, <1>4 DEF Conversation, Follows, GoesOn
<1>6. n \in DOMAIN journal
  BY <1>0, <1>3 DEF JournalTypes
<1>7. Taken(journal, mem, n - 1)
  BY <1>0, <1>2, <1>3, TakenMind DEF Order
<1>8. \A c \in Call : Away(c)' => Away(c)
  BY <1>1 DEF Away, Known
<1>9. Taken(journal, mem', n)
  <2>1. CASE AcceptReply
    <3>1. journal[n].type = "reply" /\ mem' = WithReply(mem, n)
      BY <1>0, <2>1 DEF AcceptReply, Conversation
    <3> QED
      BY <1>0, <1>3, <1>4, <1>5, <1>6, <3>1, ReplyTaken
  <2>2. CASE AcceptResult
    <3>1. journal[n].type = "result" /\ mem' = WithResult(mem, n)
      BY <1>0, <2>2 DEF AcceptResult, Conversation
    <3> QED
      BY <1>0, <1>3, <1>4, <1>5, <1>6, <1>7, <3>1, ResultTaken
  <2> QED
    BY <2>1, <2>2
<1> QED
  BY <1>0, <1>1, <1>3, <1>8, <1>9, SavesOrderly

\* The batch is answered.
LEMMA FinishOrderly ==
  ASSUME IInv, Orderly, FinishBatch
  PROVE  Orderly'
<1>0. /\ JournalTypes /\ Near /\ Order /\ Minds /\ Conversation
      /\ checkpoint.length \in Nat /\ mem \in Memory /\ Len(journal) \in Nat
  BY Groups DEF IInv, Orderly, JournalTypes, ProcessTypes
<1>1. /\ proc = "running" /\ pc = "loop" /\ GoesOn(mem) /\ mem.pending # 0 /\ Checkpoint(mem')
      /\ ToSet(journal[mem.pending].calls) \subseteq Answered(mem.sources)
      /\ mem' = [mem EXCEPT !.pending = 0]
      /\ proc' = "running" /\ pc' = "loop" /\ UNCHANGED <<journal, invoked, outcome>>
  BY DEF FinishBatch, InLoop, BatchIsAnswered, NothingPending, Process, CallEvents, GoesOn
<1>2. SameMind(mem, checkpoint.memory) /\ Len(journal) = checkpoint.length
  BY <1>0, <1>1 DEF Minds
<1>3. mem.sources = First(Len(journal))
  BY <1>0, <1>1 DEF Conversation, Follows, GoesOn
<1>4. Taken(journal, mem, Len(journal))
  BY <1>0, <1>2, TakenMind DEF Order
<1>5. Fresh(journal, mem.pending, Len(journal))
  BY <1>1, <1>4 DEF Taken
<1>6. Complete(journal, Len(journal))
  BY <1>0, <1>1, <1>3, <1>5, AnsweredIsComplete DEF Order
<1>7. mem'.sources = First(Len(journal)) /\ mem'.pending = 0 /\ mem'.terminal = mem.terminal
  BY <1>0, <1>1, <1>3 DEF Memory
<1>8. Taken(journal, mem', Len(journal)) /\ GoesOn(mem')
  BY <1>1, <1>6, <1>7 DEF Taken, GoesOn
<1>9. \A c \in Call : Away(c)' => Away(c)
  BY <1>1 DEF Away, Known
<1> QED
  BY <1>0, <1>1, <1>8, <1>9, SavesOrderly

\* The next call is begun.
LEMMA InvokeOrderly ==
  ASSUME IInv, Orderly, NEW c \in Call, Invoke(c)
  PROVE  Orderly'
<1>0. /\ JournalTypes /\ CallTypes /\ Near /\ Order /\ Minds /\ Conversation
      /\ checkpoint.length \in Nat /\ mem \in Memory /\ Len(journal) \in Nat
  BY Groups DEF IInv, Orderly, JournalTypes, ProcessTypes
<1>1. /\ proc = "running" /\ pc = "loop" /\ GoesOn(mem) /\ mem.pending # 0 /\ IsNext(c, mem)
      /\ invoked' = [invoked EXCEPT ![c] = @ + 1] /\ mem' = [mem EXCEPT !.toolState = world]
      /\ proc' = "running" /\ pc' = "calling" /\ UNCHANGED <<journal, checkpoint, outcome>>
  BY DEF Invoke, AtCall, InLoop, Intend, GoesOn
<1>2. SameMind(mem, checkpoint.memory) /\ Len(journal) = checkpoint.length
  BY <1>0, <1>1 DEF Minds
<1>3. mem.sources = First(Len(journal))
  BY <1>0, <1>1 DEF Conversation, Follows, GoesOn
<1>4. Taken(journal, mem, Len(journal))
  BY <1>0, <1>2, TakenMind DEF Order
<1>5. Fresh(journal, mem.pending, Len(journal))
  BY <1>1, <1>4 DEF Taken
<1>6. Due(journal, c)
  BY <1>0, <1>1, <1>3, <1>5, NextIsDue DEF Order
<1>7. \A d \in Call : d # c => invoked'[d] = invoked[d]
  BY <1>0, <1>1 DEF CallTypes
<1>8. \A d \in Call : Away(d)' => Away(d) \/ d = c
  BY <1>1, <1>7 DEF Away, Known
<1>9. GoesOn(checkpoint.memory)
  BY <1>1, <1>2 DEF SameMind, GoesOn
<1>10. Near'
  BY <1>1, <1>2, <1>9 DEF Near, GoesOn
<1>11. Order'
  BY <1>0, <1>1, <1>6, <1>8 DEF Order
<1>12. SameMind(mem', mem)
  BY <1>0, <1>1 DEF Memory, SameMind
<1>13. Minds'
  BY <1>1, <1>2, <1>12 DEF Minds, SameMind
<1> QED
  BY <1>10, <1>11, <1>13 DEF Orderly

\* A result is journaled.
LEMMA ExecuteOrderly ==
  ASSUME IInv, Orderly, NEW c \in Call, Record(c) \/ PresentationFails(c) \/ RecordRecovered(c)
  PROVE  Orderly'
<1>0. /\ JournalTypes /\ CallTypes /\ Near /\ Order /\ Minds /\ Places /\ Calls
      /\ checkpoint.length \in Nat /\ Len(journal) \in Nat /\ mem \in Memory
  BY Groups DEF IInv, Orderly, JournalTypes, ProcessTypes
<1>1. PICK shown \in BOOLEAN : Execute(c, shown)
  BY DEF Record, PresentationFails, RecordRecovered
<1>2. attempt.call = c /\ UNCHANGED checkpoint /\ attempt' = NoCall /\ UNCHANGED <<kind, world, receipt, straggler>>
  BY DEF Record, PresentationFails, RecordRecovered, Stop
<1>3. open[c]
  BY <1>0, <1>2, ToolRecoveryAssumption DEF Places
<1>4. Away(c)
  BY <1>0, <1>3 DEF Calls, LifeOf, Away, Known
<1>5. Len(journal) = checkpoint.length /\ GoesOn(checkpoint.memory)
  BY <1>0, <1>4 DEF Near, NobodyAway
<1>6. /\ Known(c)' /\ \A d \in Call : d # c => outcome'[d] = outcome[d]
      /\ Result(c, shown) \in Entry /\ Result(c, shown).type = "result"
      /\ journal' = Append(journal, Result(c, shown)) /\ UNCHANGED invoked
  BY <1>1, <1>2, <1>3, ExecuteCalls DEF Execute
<1>7. Due(journal, c)
  BY <1>0, <1>4 DEF Order
<1>8. InPlace(journal')
  <2>1. Result(c, shown).call = c
    BY DEF Result
  <2> QED
    BY <1>0, <1>6, <1>7, <2>1, ResultInPlace DEF JournalTypes, Order
<1>9. NobodyAway'
  <2>1. ASSUME NEW d \in Call, Away(d)' PROVE FALSE
    <3>1. d # c
      BY <1>6, <2>1 DEF Away
    <3>2. Away(d)
      BY <1>6, <2>1, <3>1 DEF Away, Known
    <3>3. Due(journal, d)
      BY <1>0, <3>2 DEF Order
    <3> QED
      BY <1>0, <1>7, <3>1, <3>3, OneIsDue DEF JournalTypes, Order
  <2> QED
    BY <2>1 DEF NobodyAway
<1>10. Len(journal') = checkpoint.length + 1 /\ \A i \in 1..checkpoint.length : journal'[i] = journal[i]
  BY <1>0, <1>5, <1>6 DEF JournalTypes
<1>11. Taken(journal', checkpoint.memory, checkpoint.length)
  BY <1>0, <1>10, TakenStays DEF Order
<1>12. Near'
  BY <1>2, <1>5, <1>9, <1>10 DEF Near, GoesOn
<1>13. Order'
  BY <1>2, <1>8, <1>9, <1>11 DEF Order, NobodyAway
<1>14. Minds'
  <2>1. CASE Record(c)
    <3>1. proc' = proc /\ pc' = "recorded" /\ mem' = [mem EXCEPT !.toolState = world] /\ pc = "calling"
      BY <2>1 DEF Record
    <3>2. proc = "running"
      BY <1>0, <3>1 DEF Places
    <3>3. SameMind(mem', mem)
      BY <1>0, <3>1 DEF Memory, SameMind
    <3>4. SameMind(mem, checkpoint.memory)
      BY <1>0, <3>2 DEF Minds
    <3> QED
      BY <1>2, <1>10, <3>1, <3>2, <3>3, <3>4 DEF Minds, SameMind
  <2>2. CASE PresentationFails(c)
    BY <2>2 DEF PresentationFails, Stop, Minds
  <2>3. CASE RecordRecovered(c)
    BY <1>0, <2>3 DEF RecordRecovered, Process, Minds
  <2> QED
    BY <2>1, <2>2, <2>3
<1> QED
  BY <1>12, <1>13, <1>14 DEF Orderly

\* The restore begins at the checkpoint.
LEMMA BeginRestoreOrderly ==
  ASSUME IInv, Orderly, BeginRestore
  PROVE  Orderly'
<1>0. JournalTypes /\ Near /\ Order /\ checkpoint.length \in Nat /\ Len(journal) \in Nat
  BY Groups DEF IInv, Orderly, JournalTypes
<1>1. /\ proc' = "restoring" /\ mem' = checkpoint.memory /\ at' = checkpoint.length + 1
      /\ UNCHANGED <<journal, checkpoint, invoked, outcome>>
  BY DEF BeginRestore, FirstReplayed, CallEvents
<1>2. Near' /\ Order' /\ (NobodyAway => NobodyAway')
  BY <1>0, <1>1, OrderFrame DEF Away, Known
<1>3. ASSUME at' > Len(journal) PROVE Taken(journal, mem', Len(journal)) /\ (~GoesOn(mem') => NobodyAway')
  <2>1. Len(journal) = checkpoint.length
    BY <1>0, <1>1, <1>3 DEF Near
  <2> QED
    BY <1>0, <1>1, <1>2, <2>1 DEF Near, Order
<1>4. Minds'
  BY <1>1, <1>3 DEF Minds, GoesOn
<1> QED
  BY <1>2, <1>4 DEF Orderly

\* The entry after the checkpoint is replayed.
LEMMA ReplayOrderly ==
  ASSUME IInv, Orderly, Replay
  PROVE  Orderly'
<1> DEFINE n == Len(journal)
<1>0. /\ JournalTypes /\ Near /\ Order /\ Minds /\ Places /\ Results /\ Conversation
      /\ checkpoint.length \in Nat /\ mem \in Memory /\ n \in Nat /\ at \in Nat
  BY Groups DEF IInv, Orderly, JournalTypes, ProcessTypes
<1>1. /\ proc = "restoring" /\ at <= n /\ at' = at + 1 /\ proc' = "restoring"
      /\ UNCHANGED <<journal, checkpoint, invoked, outcome>>
  BY DEF Replay, CallEvents, Process
<1>2. mem = checkpoint.memory /\ at = checkpoint.length + 1
  BY <1>0, <1>1 DEF Minds
<1>3. n = at /\ n = checkpoint.length + 1 /\ n # 0 /\ checkpoint.length = n - 1
  BY <1>0, <1>1, <1>2 DEF Near
<1>4. NobodyAway /\ GoesOn(mem)
  BY <1>0, <1>2, <1>3 DEF Near
<1>5. mem.sources = First(n - 1)
  BY <1>0, <1>1, <1>3, <1>4 DEF Conversation, Follows, GoesOn
<1>6. n \in DOMAIN journal
  BY <1>0, <1>3 DEF JournalTypes
<1>7. Taken(journal, mem, n - 1)
  BY <1>0, <1>2, <1>3 DEF Order
<1>8. Near' /\ Order' /\ NobodyAway'
  BY <1>0, <1>1, <1>4, OrderFrame DEF Away, Known
<1>9. Taken(journal, mem', n)
  <2>1. CASE journal[n].type = "reply" /\ mem' = WithReply(mem, n)
    BY <1>0, <1>3, <1>4, <1>5, <1>6, <2>1, ReplyTaken
  <2>2. CASE /\ journal[n].type = "result"
             /\ \E w : mem' = [WithResult(mem, n) EXCEPT !.toolState = w]
    <3>1. Taken(journal, WithResult(mem, n), n)
      BY <1>0, <1>3, <1>4, <1>5, <1>6, <1>7, <2>2, ResultTaken
    <3>2. WithResult(mem, n) \in Memory
      <4>1. Follows(mem, n - 1)
        BY <1>0, <1>1, <1>3 DEF Conversation
      <4> QED
        BY <1>0, <1>6, <2>2, <4>1, ResultFollows
    <3>3. SameMind(mem', WithResult(mem, n))
      BY <2>2, <3>2 DEF Memory, SameMind
    <3> QED
      BY <3>1, <3>3, TakenMind
  <2> QED
    BY <1>3, <2>1, <2>2 DEF Replay
<1>10. Minds'
  <2>1. at' > n /\ Len(journal') = n
    BY <1>0, <1>1, <1>3
  <2>2. ~(at' <= Len(journal'))
    BY <1>0, <1>1, <2>1
  <2> QED
    BY <1>1, <1>8, <1>9, <2>1, <2>2 DEF Minds
<1> QED
  BY <1>8, <1>10 DEF Orderly

\* The task goes on where the journal ends, or stops.
LEMMA InspectOrderly ==
  ASSUME IInv, Orderly, Inspect
  PROVE  Orderly'
<1>0. /\ JournalTypes /\ CallTypes /\ Near /\ Order /\ Minds /\ Places /\ Calls
      /\ mem \in Memory /\ Len(journal) \in Nat
  BY Groups DEF IInv, Orderly, JournalTypes, ProcessTypes
<1>1. /\ proc = "restoring" /\ at > Len(journal) /\ UNCHANGED <<journal, invoked>>
      /\ outcome' = [c \in Call |-> IF open[c] THEN "unknown" ELSE outcome[c]]
  BY DEF Inspect
<1>2. pc = "loop"
  BY <1>0, <1>1 DEF Places
<1>3. Taken(journal, mem, Len(journal)) /\ (~GoesOn(mem) => NobodyAway)
  BY <1>0, <1>1 DEF Minds
<1>4. \A c \in Call : Away(c)' => Away(c)
  <2> SUFFICES ASSUME NEW c \in Call, Away(c)' PROVE Away(c)
    OBVIOUS
  <2>1. LifeOf(c) /\ outcome'[c] = IF open[c] THEN "unknown" ELSE outcome[c]
    BY <1>0, <1>1 DEF Calls
  <2> QED
    BY <1>1, <2>1 DEF Away, Known, LifeOf
<1>5. CASE /\ proc' = "running" /\ mem' = [mem EXCEPT !.toolState = world] /\ Checkpoint(mem')
           /\ UNCHANGED pc
  <2>1. SameMind(mem', mem)
    BY <1>0, <1>5 DEF Memory, SameMind
  <2>2. Taken(journal, mem', Len(journal)) /\ (~GoesOn(mem') => NobodyAway)
    BY <1>3, <2>1, TakenMind DEF SameMind, GoesOn
  <2> QED
    BY <1>0, <1>1, <1>2, <1>4, <1>5, <2>2, SavesOrderly
<1>6. CASE UNCHANGED checkpoint /\ proc' = "stopped" /\ mem' = NoMemory
  BY <1>1, <1>4, <1>6, EndsOrderly
<1> QED
  BY <1>5, <1>6, Zenon DEF Inspect, Stop

\* Every step keeps the order.
THEOREM NextOrderly == IInv /\ Orderly /\ [Next]_vars => Orderly'
<1> SUFFICES ASSUME IInv, Orderly, [Next]_vars PROVE Orderly'
  OBVIOUS
<1>1. CASE LoopStep
  BY <1>1, StopOrderly, AcceptOrderly, FinishOrderly, AskOrderly, InvokeOrderly, ExecuteOrderly DEF LoopStep
<1>2. CASE ToolStep
  BY <1>2, QuietOrderly, StopOrderly DEF ToolStep
<1>3. CASE RestoreStep
  BY <1>3, BeginRestoreOrderly, ReplayOrderly, InspectOrderly, QuietOrderly, ExecuteOrderly DEF RestoreStep
<1>4. CASE Environment
  BY <1>4, StopOrderly, OutsideOrderly, QuietOrderly DEF Environment
<1>5. CASE UNCHANGED vars
  BY <1>5, OutsideOrderly
<1> QED
  BY <1>1, <1>2, <1>3, <1>4, <1>5 DEF Next

-----------------------------------------------------------------------------
(* The calls left behind.                                                      *)

\* Nothing is left behind while the loop runs.  A call left behind is a write without
\* a result that no attempt takes further; its record says that it began.
Stragglers ==
  /\ proc = "running" => straggler = {}
  /\ \A c \in straggler :
       /\ IsWrite(c) /\ ~Known(c) /\ (kind[c] = "receipted" => receipt[c] = "begun")
       /\ attempt.call = c => attempt.stage = "started" \/ (attempt.stage = "returned" /\ ~attempt.ok)
  /\ \A c \in Call :
       kind[c] = "receipted" /\ attempt.call = c /\ attempt.stage \in {"begun", "applied"} => receipt[c] = "begun"

\* No call is taken further, none is left behind and no outcome is found.
LEMMA StragglersStay ==
  ASSUME TypeOK, Stragglers, UNCHANGED <<kind, receipt>>, straggler' \subseteq straggler,
         \A c \in Call : Known(c)' => Known(c), attempt' \in {attempt, NoCall},
         proc' = "running" => proc = "running"
  PROVE  Stragglers'
<1>1. straggler \subseteq Call /\ NoCall.call \notin Call
  BY ToolRecoveryAssumption DEF TypeOK, NoCall
<1>2. proc' = "running" => straggler' = {}
  BY DEF Stragglers
<1>3. ASSUME NEW c \in straggler'
      PROVE  /\ IsWrite(c)' /\ ~Known(c)' /\ (kind'[c] = "receipted" => receipt'[c] = "begun")
             /\ attempt'.call = c => attempt'.stage = "started" \/ (attempt'.stage = "returned" /\ ~attempt'.ok)
  <2>1. c \in straggler /\ c \in Call
    BY <1>1
  <2>2. IsWrite(c)' /\ ~Known(c)' /\ (kind'[c] = "receipted" => receipt'[c] = "begun")
    BY <2>1 DEF Stragglers, IsWrite
  <2>3. attempt'.call = c => attempt'.stage = "started" \/ (attempt'.stage = "returned" /\ ~attempt'.ok)
    BY <1>1, <2>1 DEF Stragglers
  <2> QED
    BY <2>2, <2>3
<1>4. ASSUME NEW c \in Call, kind'[c] = "receipted", attempt'.call = c, attempt'.stage \in {"begun", "applied"}
      PROVE  receipt'[c] = "begun"
  <2>1. attempt' = attempt
    BY <1>1, <1>4
  <2> QED
    BY <1>4, <2>1 DEF Stragglers
<1> QED
  BY <1>2, <1>3, <1>4 DEF Stragglers

\* A tool goes on.
LEMMA ToolStragglers ==
  ASSUME IInv, Stragglers, NEW c \in Call,
         \/ ToolReads(c) \/ ToolWrites(c) \/ ToolBegins(c) \/ ToolMutates(c) \/ ToolSaves(c)
         \/ ToolDelegates(c) \/ ToolReturns(c) \/ ToolRefuses(c)
  PROVE  Stragglers'
<1>0. TypeOK /\ Places /\ attempt \in Attempts /\ receipt \in [Call -> {"none", "begun", "done"}]
  BY Groups DEF IInv, ProcessTypes, CallTypes
<1>1. UNCHANGED <<kind, proc, outcome, straggler>> /\ attempt.call = c
  BY DEF ToolReads, ToolWrites, ToolBegins, ToolMutates, ToolSaves, ToolDelegates, ToolReturns, ToolRefuses,
     InTool, Process, CallEvents, At
<1>2. attempt'.call = c
  BY <1>0, <1>1 DEF ToolReads, ToolWrites, ToolBegins, ToolMutates, ToolSaves, ToolDelegates, ToolReturns,
     ToolRefuses, Becomes, Attempts
<1>3. \A d \in Call : d # c => receipt'[d] = receipt[d]
  BY <1>0 DEF ToolReads, ToolWrites, ToolBegins, ToolMutates, ToolSaves, ToolDelegates, ToolReturns,
     ToolRefuses
<1>4. c \in straggler => ToolRefuses(c)
  <2> SUFFICES ASSUME c \in straggler, ~ToolRefuses(c) PROVE FALSE
    OBVIOUS
  <2>1. proc = "recovering" /\ kind[c] = "receipted" /\ receipt[c] = "begun" /\ attempt.stage \in {"started", "returned"}
    BY <1>0, <1>1, ToolRecoveryAssumption DEF Stragglers, Places, IsWrite
  <2> QED
    BY <2>1 DEF ToolReads, ToolWrites, ToolBegins, ToolMutates, ToolSaves, ToolDelegates, ToolReturns, At, MayBegin
<1>5. ToolRefuses(c) => receipt' = receipt /\ attempt'.stage = "returned" /\ ~attempt'.ok
  BY <1>0 DEF ToolRefuses, Attempts
<1>6. kind[c] = "receipted" /\ attempt'.stage \in {"begun", "applied"} => receipt'[c] = "begun"
  <2>1. CASE ToolBegins(c)
    BY <1>0, <2>1 DEF ToolBegins
  <2>2. CASE ToolMutates(c)
    BY <1>0, <2>2 DEF ToolMutates, At, Stragglers
  <2>3. CASE ToolWrites(c) \/ ToolDelegates(c)
    BY <2>3 DEF ToolWrites, ToolDelegates, At
  <2>4. CASE ToolReads(c) \/ ToolSaves(c) \/ ToolReturns(c) \/ ToolRefuses(c)
    <3>1. attempt'.stage = "returned"
      BY <1>0, <2>4 DEF ToolReads, ToolSaves, ToolReturns, ToolRefuses, Becomes, Attempts
    <3> QED
      BY <3>1
  <2> QED
    BY <2>1, <2>2, <2>3, <2>4
<1> QED
  BY <1>0, <1>1, <1>2, <1>3, <1>4, <1>5, <1>6 DEF Stragglers, IsWrite, Known, TypeOK

\* The process ends with a call on its way.
LEMMA BreakStragglers ==
  ASSUME IInv, Stragglers, Crash \/ \E c \in Call : ToolRaises(c)
  PROVE  Stragglers'
<1>0. TypeOK /\ Places /\ Calls
  BY DEF IInv
<1>1. /\ UNCHANGED <<kind, receipt>> /\ straggler' = straggler \cup LeftBehind /\ attempt' = NoCall
      /\ proc' # "running"
  BY DEF Crash, ToolRaises, Stop
<1>2. ASSUME NEW c \in Call PROVE Known(c)' => Known(c)
  <2>1. CASE Crash
    BY <2>1 DEF Crash, CallEvents, Known
  <2>2. ASSUME NEW d \in Call, ToolRaises(d) PROVE Known(c)' => Known(c)
    BY <1>0, <2>2 DEF ToolRaises, Known, TypeOK
  <2> QED
    BY <2>1, <2>2
<1>3. ASSUME NEW c \in LeftBehind
      PROVE  c \in Call /\ IsWrite(c) /\ ~Known(c) /\ (kind[c] = "receipted" => receipt[c] = "begun")
  <2>1. c \in Call /\ attempt.call = c /\ IsWrite(c) /\ (kind[c] = "receipted" => attempt.stage = "begun")
    BY DEF LeftBehind, At, IsWrite
  <2>2. open[c] /\ LifeOf(c)
    BY <1>0, <2>1, ToolRecoveryAssumption DEF Places, Calls
  <2> QED
    BY <2>1, <2>2 DEF LifeOf, Known, Stragglers
<1>4. straggler \subseteq Call /\ NoCall.call \notin Call
  BY <1>0, ToolRecoveryAssumption DEF TypeOK, NoCall
<1> QED
  BY <1>1, <1>2, <1>3, <1>4 DEF Stragglers, IsWrite

\* The loop begins or records, or the model is asked: nothing is left behind.
LEMMA LoopStragglers ==
  ASSUME IInv, Stragglers,
         \/ \E calls \in Batches : Ask(calls)
         \/ \E c \in Call : Invoke(c) \/ Record(c) \/ PresentationFails(c)
  PROVE  Stragglers'
<1>0. TypeOK /\ Places
  BY DEF IInv
<1>1. proc = "running" /\ straggler' = straggler
  BY <1>0 DEF Ask, Invoke, Record, PresentationFails, AtCall, InLoop, Places
<1>2. straggler' = {}
  BY <1>1 DEF Stragglers
<1>3. attempt'.call \notin Call \/ attempt'.stage = "started"
  <2>1. CASE \E calls \in Batches : Ask(calls)
    <3>1. pc = "loop" /\ attempt' = attempt
      BY <2>1 DEF Ask, InLoop
    <3> QED
      BY <1>0, <1>1, <3>1, ToolRecoveryAssumption DEF Places
  <2>2. ASSUME NEW c \in Call, Invoke(c) PROVE attempt'.stage = "started"
    <3>1. attempt' = [call |-> c, stage |-> "started", ok |-> TRUE]
      BY <2>2, Zenon DEF Invoke
    <3> QED
      BY <3>1
  <2>3. CASE \E c \in Call : Record(c) \/ PresentationFails(c)
    <3>1. attempt' = NoCall
      BY <2>3, Zenon DEF Record, PresentationFails, Stop
    <3> QED
      BY <3>1, ToolRecoveryAssumption DEF NoCall
  <2> QED
    BY <2>1, <2>2, <2>3
<1> QED
  BY <1>2, <1>3 DEF Stragglers

\* The coordinator recovers.
LEMMA RecoverStragglers ==
  ASSUME IInv, Stragglers, NEW c \in Call, RecoverCall(c) \/ RecordRecovered(c)
  PROVE  Stragglers'
<1>0. TypeOK /\ NoCall.call \notin Call
  BY ToolRecoveryAssumption DEF IInv, NoCall
<1>1. UNCHANGED <<kind, receipt, straggler, proc>> /\ proc = "recovering"
  BY DEF RecoverCall, RecordRecovered, Process, Recovering
<1>2. attempt' = NoCall \/ attempt'.stage = "started"
  <2>1. attempt' = NoCall \/ attempt' = [call |-> c, stage |-> "started", ok |-> TRUE]
    BY Zenon DEF RecoverCall, RecordRecovered
  <2> QED
    BY <2>1
<1>3. ASSUME NEW d \in straggler, Known(d)' PROVE FALSE
  <2>1. CASE RecoverCall(c)
    <3>1. outcome' = outcome
      BY <2>1 DEF RecoverCall, CallEvents, Intend
    <3> QED
      BY <1>3, <3>1 DEF Stragglers, Known
  <2>2. CASE RecordRecovered(c)
    <3>1. \A b \in Call : b # c => outcome'[b] = outcome[b]
      BY <1>0, <2>2 DEF RecordRecovered, Execute, TypeOK
    <3>2. d = c
      BY <1>0, <1>3, <3>1 DEF Stragglers, Known, TypeOK
    <3> QED
      BY <2>2, <3>2 DEF RecordRecovered, Stragglers, IsWrite
  <2> QED
    BY <2>1, <2>2
<1> QED
  BY <1>0, <1>1, <1>2, <1>3 DEF Stragglers, IsWrite, TypeOK

\* The task goes on only where no write is without its result.
LEMMA InspectStragglers ==
  ASSUME IInv, Stragglers, Inspect
  PROVE  Stragglers'
<1>0. TypeOK /\ Calls
  BY DEF IInv
<1>1. /\ proc = "restoring" /\ UNCHANGED <<kind, receipt, straggler, invoked>> /\ attempt' \in {attempt, NoCall}
      /\ outcome' = [c \in Call |-> IF open[c] THEN "unknown" ELSE outcome[c]]
  BY DEF Inspect, Stop
<1>2. \A c \in Call : Known(c)' => Known(c)
  BY <1>1 DEF Known
<1>3. CASE proc' # "running"
  BY <1>0, <1>1, <1>2, <1>3, StragglersStay
<1>4. CASE proc' = "running"
  <2> DEFINE unresolved == {c \in Call : outcome'[c] = "unknown"}
             refusals == {why \in {"resume_pending_operation", "tool_recovery_retries_exhausted"} :
               \E c \in unresolved :
                 IF Policy(kind[c]) # "retry_read" THEN why = "resume_pending_operation"
                 ELSE ~RetriesLeft(c) /\ why = "tool_recovery_retries_exhausted"}
  <2>0. (\E why : Stop(why)) \/ refusals = {}
    BY Zenon DEF Inspect
  <2>1. refusals = {}
    BY <1>4, <2>0 DEF Stop
  <2>2. ASSUME NEW c \in straggler PROVE FALSE
    <3>0. c \in Call /\ LifeOf(c)
      BY <1>0 DEF Calls, TypeOK
    <3>1. IsWrite(c) /\ ~Known(c)
      BY DEF Stragglers
    <3>2. open[c] \/ outcome[c] = "unknown"
      BY <1>0, <3>0, <3>1 DEF LifeOf, Known, TypeOK
    <3>3. c \in unresolved
      BY <1>1, <3>0, <3>2
    <3>4. Policy(kind[c]) # "retry_read"
      BY <3>1 DEF IsWrite, Policy
    <3> QED
      BY <2>1, <3>3, <3>4
  <2>3. straggler' = {}
    BY <1>1, <2>2
  <2>4. attempt' = attempt \/ attempt'.call \notin Call
    BY <1>1, ToolRecoveryAssumption DEF NoCall
  <2> QED
    BY <1>1, <2>3, <2>4 DEF Stragglers
<1> QED
  BY <1>3, <1>4

\* Every step keeps it.
LEMMA NextStragglers ==
  ASSUME IInv, Stragglers, [Next]_vars
  PROVE  Stragglers'
<1>0. TypeOK /\ Places
  BY DEF IInv
<1>1. CASE \/ StopOnTerminal \/ OutOfReplies \/ AcceptReply \/ AcceptResult \/ FinishBatch
           \/ \E c \in Call : RefuseCall(c)
  <2>1. UNCHANGED <<kind, receipt, straggler, outcome>> /\ attempt' \in {attempt, NoCall} /\ proc = "running"
    BY <1>0, <1>1 DEF StopOnTerminal, OutOfReplies, AcceptReply, AcceptResult, FinishBatch, RefuseCall, Stop,
       AtCall, InLoop, CallEvents, Places
  <2> QED
    BY <1>0, <2>1, StragglersStay DEF Known
<1>2. CASE BeginRestore \/ Replay
  <2>1. UNCHANGED <<kind, receipt, straggler, outcome>> /\ attempt' \in {attempt, NoCall} /\ proc' # "running"
    BY <1>2 DEF BeginRestore, Replay, CallEvents, Process
  <2> QED
    BY <1>0, <2>1, StragglersStay DEF Known
<1>3. CASE Edit \/ OthersInvoke \/ Resume \/ (\E c \in Call : LateEffect(c)) \/ UNCHANGED vars
  <2>1. UNCHANGED <<kind, receipt, outcome, attempt>> /\ straggler' \subseteq straggler
        /\ (proc' = "running" => proc = "running")
    BY <1>3 DEF Edit, OthersInvoke, Resume, LateEffect, CallEvents, Process, vars
  <2> QED
    BY <1>0, <2>1, StragglersStay DEF Known
<1>4. CASE LoopStep
  BY <1>1, <1>4, LoopStragglers DEF LoopStep
<1>5. CASE ToolStep
  BY <1>5, ToolStragglers, BreakStragglers DEF ToolStep
<1>6. CASE RestoreStep
  BY <1>2, <1>6, InspectStragglers, RecoverStragglers DEF RestoreStep
<1>7. CASE Environment
  BY <1>3, <1>7, BreakStragglers DEF Environment
<1> QED
  BY <1>3, <1>4, <1>5, <1>6, <1>7 DEF Next

-----------------------------------------------------------------------------
(* The files.  While the loop is at rest they are as the last result in the     *)
(* journal left them, and so they were when a call without its result was begun.*)

SameFiles(f, g) == f.applied = g.applied /\ f.edits = g.edits

\* With the kinds K, each result in the journal s starts from what the one before left.
Linked(s, K) ==
  \A i, j \in 1..Len(s) :
    /\ i < j /\ s[i].type = "result" /\ s[j].type = "result"
    /\ \A k \in (i + 1)..(j - 1) : s[k].type = "reply"
    /\ K[s[j].call] # "delegate"
    => SameFiles(s[j].before, s[i].after)

\* The last result among the first n entries of s left the files as in f.
Left(s, n, f) ==
  \A i \in 1..n :
    s[i].type = "result" /\ (\A k \in (i + 1)..n : s[k].type = "reply") => SameFiles(f, s[i].after)

\* What the journal and the checkpoint know of the files.
FilesJournaled ==
  /\ Linked(journal, kind)
  /\ \A c \in Call : Away(c) /\ kind[c] # "delegate" => Left(journal, Len(journal), before[c])
  /\ GoesOn(checkpoint.memory) => Left(journal, checkpoint.length, checkpoint.memory.toolState)

\* What the process knows of them.
FilesMinded ==
  /\ proc = "running" /\ GoesOn(mem) =>
       Left(journal, Len(journal), mem.toolState) /\ (pc # "calling" => SameFiles(mem.toolState, world))
  /\ proc = "restoring" /\ at > Len(journal) /\ GoesOn(mem) => Left(journal, Len(journal), mem.toolState)

FilesKnown == FilesJournaled /\ FilesMinded

\* Files that are the same were left by the same.
LEMMA LeftSame ==
  ASSUME NEW s, NEW n, NEW f, NEW g, Left(s, n, f), SameFiles(f, g)
  PROVE  Left(s, n, g)
BY DEF Left, SameFiles

\* A reply leaves the files alone.
LEMMA LeftReply ==
  ASSUME NEW s, NEW t, NEW n \in Nat, NEW f, Left(s, n, f), \A i \in 1..n : t[i] = s[i],
         t[n + 1].type = "reply"
  PROVE  Left(t, n + 1, f)
<1> SUFFICES ASSUME NEW i \in 1..(n + 1), t[i].type = "result",
                    \A k \in (i + 1)..(n + 1) : t[k].type = "reply"
             PROVE  SameFiles(f, t[i].after)
  BY DEF Left
<1>1. i # n + 1
  OBVIOUS
<1>2. i \in 1..n /\ t[i] = s[i]
  BY <1>1
<1>3. \A k \in (i + 1)..n : s[k].type = "reply"
  <2> SUFFICES ASSUME NEW k \in (i + 1)..n PROVE s[k].type = "reply"
    OBVIOUS
  <2>1. k \in (i + 1)..(n + 1) /\ k \in 1..n
    BY <1>2
  <2> QED
    BY <2>1
<1> QED
  BY <1>2, <1>3 DEF Left

\* A result is the last.
LEMMA LeftResult ==
  ASSUME NEW t, NEW n \in Nat, n # 0, t[n].type = "result", NEW f, SameFiles(f, t[n].after)
  PROVE  Left(t, n, f)
<1> SUFFICES ASSUME NEW i \in 1..n, t[i].type = "result",
                    \A k \in (i + 1)..n : t[k].type = "reply"
             PROVE  SameFiles(f, t[i].after)
  BY DEF Left
<1>1. CASE i = n
  BY <1>1
<1>2. CASE i # n
  <2>1. n \in (i + 1)..n
    BY <1>2
  <2> QED
    BY <2>1
<1> QED
  BY <1>1, <1>2

\* What the first entries left does not change.
LEMMA LeftStays ==
  ASSUME NEW s, NEW t, NEW n \in Nat, NEW f, Left(s, n, f), \A i \in 1..n : t[i] = s[i]
  PROVE  Left(t, n, f)
<1> SUFFICES ASSUME NEW i \in 1..n, t[i].type = "result", \A k \in (i + 1)..n : t[k].type = "reply"
             PROVE  SameFiles(f, t[i].after)
  BY DEF Left
<1>1. \A k \in (i + 1)..n : k \in 1..n
  OBVIOUS
<1>2. t[i] = s[i] /\ \A k \in (i + 1)..n : s[k].type = "reply"
  BY <1>1
<1> QED
  BY <1>2 DEF Left

\* An entry more: a result starts from what the entries before it left.
LEMMA LinkedGrows ==
  ASSUME NEW s \in Seq(Entry), NEW e \in Entry, NEW t, t = Append(s, e), NEW K, NEW L, Linked(s, K),
         \A i \in 1..Len(s) : s[i].type = "result" => L[s[i].call] = K[s[i].call],
         e.type = "result" /\ L[e.call] # "delegate" => Left(s, Len(s), e.before)
  PROVE  Linked(t, L)
<1>1. /\ Len(s) \in Nat /\ Len(t) = Len(s) + 1 /\ t[Len(s) + 1] = e
      /\ \A i \in 1..Len(s) : t[i] = s[i]
  OBVIOUS
<1>6. \A l \in 1..Len(t) : l \in 1..Len(s) \/ l = Len(s) + 1
  BY <1>1
<1> SUFFICES ASSUME NEW i \in 1..Len(t), NEW j \in 1..Len(t),
                    i < j, t[i].type = "result", t[j].type = "result",
                    \A k \in (i + 1)..(j - 1) : t[k].type = "reply", L[t[j].call] # "delegate"
             PROVE  SameFiles(t[j].before, t[i].after)
  BY DEF Linked
<1>2. i \in Nat /\ j \in Nat /\ i \in 1..Len(s) /\ t[i] = s[i]
  BY <1>1
<1>3. \A k \in (i + 1)..(j - 1) : s[k].type = "reply"
  <2> SUFFICES ASSUME NEW k \in (i + 1)..(j - 1) PROVE s[k].type = "reply"
    OBVIOUS
  <2>1. k \in 1..Len(s)
    BY <1>1, <1>2
  <2> QED
    BY <1>1, <2>1
<1>4. CASE j \in 1..Len(s)
  <2>1. t[j] = s[j] /\ K[s[j].call] # "delegate"
    BY <1>1, <1>4
  <2>2. s[i].type = "result" /\ s[j].type = "result"
    BY <1>2, <2>1
  <2>3. SameFiles(s[j].before, s[i].after)
    BY <1>2, <1>3, <1>4, <2>1, <2>2, Zenon DEF Linked
  <2> QED
    BY <1>2, <2>1, <2>3
<1>5. CASE j = Len(s) + 1
  <2>1. Left(s, Len(s), e.before) /\ t[j] = e
    BY <1>1, <1>5
  <2>2. \A k \in (i + 1)..Len(s) : s[k].type = "reply"
    BY <1>1, <1>3, <1>5
  <2> QED
    BY <1>2, <2>1, <2>2 DEF Left
<1> QED
  BY <1>4, <1>5, <1>6

\* Nothing is journaled or saved; a call that is begun again runs children.
LEMMA FilesFrame ==
  ASSUME FilesJournaled, UNCHANGED <<journal, checkpoint, kind>>,
         \A c \in Call : Away(c)' => Away(c) /\ (before'[c] = before[c] \/ kind[c] = "delegate")
  PROVE  FilesJournaled'
<1>1. GoesOn(checkpoint.memory)' <=> GoesOn(checkpoint.memory)
  BY DEF GoesOn
<1>2. Linked(journal, kind)'
  BY DEF FilesJournaled
<1>3. ASSUME NEW c \in Call, Away(c)', kind'[c] # "delegate" PROVE Left(journal, Len(journal), before'[c])
  BY <1>3 DEF FilesJournaled
<1> QED
  BY <1>1, <1>2, <1>3 DEF FilesJournaled

\* The same, and the process goes on where it is: the files change only under a tool.
LEMMA FilesStay ==
  ASSUME FilesKnown, UNCHANGED <<proc, pc, mem, at, journal, checkpoint, kind>>,
         \A c \in Call : Away(c)' => Away(c) /\ (before'[c] = before[c] \/ kind[c] = "delegate"),
         proc # "running" \/ pc = "calling" \/ world' = world
  PROVE  FilesKnown'
<1>1. FilesJournaled'
  BY FilesFrame DEF FilesKnown
<1>2. FilesMinded'
  BY DEF FilesKnown, FilesMinded, GoesOn
<1> QED
  BY <1>1, <1>2 DEF FilesKnown

\* A checkpoint where the files are known.
LEMMA FilesSaved ==
  ASSUME FilesKnown, Checkpoint(mem'), UNCHANGED <<journal, kind, before>>, \A c \in Call : Away(c)' => Away(c),
         GoesOn(mem') => /\ Left(journal, Len(journal), mem'.toolState)
                         /\ SameFiles(mem'.toolState, world'),
         proc' = "running"
  PROVE  FilesKnown'
<1>1. checkpoint'.memory = mem' /\ checkpoint'.length = Len(journal)
  BY DEF Checkpoint
<1>2. FilesJournaled'
  BY <1>1 DEF FilesKnown, FilesJournaled, GoesOn
<1>3. FilesMinded'
  BY DEF FilesMinded, GoesOn
<1> QED
  BY <1>2, <1>3 DEF FilesKnown

\* The tool goes on, a late effect lands, or the coordinator recovers a call.
LEMMA QuietFiles ==
  ASSUME IInv, Stragglers, FilesKnown, NEW c \in Call,
         \/ ToolReads(c) \/ ToolWrites(c) \/ ToolBegins(c) \/ ToolMutates(c) \/ ToolSaves(c)
         \/ ToolDelegates(c) \/ ToolReturns(c) \/ ToolRefuses(c)
         \/ LateEffect(c) \/ RecoverCall(c)
  PROVE  FilesKnown'
<1>0. CallTypes /\ Places
  BY Groups DEF IInv
<1>1. CASE /\ UNCHANGED <<proc, pc, mem, at, journal, checkpoint, kind, before, invoked, outcome>>
           /\ proc # "running" \/ pc = "calling" \/ world' = world
  BY <1>1, FilesStay DEF Away, Known
<1>2. CASE RecoverCall(c) /\ MayInvokeAgain(c) /\ Intend(c)
  <2>1. /\ UNCHANGED <<proc, pc, mem, at, journal, checkpoint, kind, world, outcome>>
        /\ invoked' = [invoked EXCEPT ![c] = @ + 1] /\ before' = [before EXCEPT ![c] = world]
        /\ kind[c] = "delegate"
    BY <1>2 DEF RecoverCall, Process, Intend, MayInvokeAgain
  <2>2. Away(c)
    BY <1>0, <1>2 DEF MayInvokeAgain, HasNoResult, Away, CallTypes
  <2>3. \A d \in Call : d # c => invoked'[d] = invoked[d] /\ before'[d] = before[d]
    BY <1>0, <2>1 DEF CallTypes
  <2>4. \A d \in Call : Away(d)' => Away(d) /\ (before'[d] = before[d] \/ kind[d] = "delegate")
    BY <2>1, <2>2, <2>3 DEF Away, Known
  <2> QED
    BY <2>1, <2>4, FilesStay
<1>3. CASE RecoverCall(c)
  BY <1>1, <1>2, <1>3 DEF RecoverCall, Process, CallEvents
<1>4. CASE \/ ToolReads(c) \/ ToolWrites(c) \/ ToolBegins(c) \/ ToolMutates(c) \/ ToolSaves(c)
           \/ ToolDelegates(c) \/ ToolReturns(c) \/ ToolRefuses(c)
  <2>1. UNCHANGED InTool
    BY <1>4, Zenon DEF ToolReads, ToolWrites, ToolBegins, ToolMutates, ToolSaves, ToolDelegates,
       ToolReturns, ToolRefuses, InTool
  <2>2. attempt.call = c
    BY <1>4 DEF ToolReads, ToolWrites, ToolBegins, ToolMutates, ToolSaves, ToolDelegates,
       ToolReturns, ToolRefuses, At
  <2>3. proc # "running" \/ pc = "calling"
    BY <1>0, <2>2, ToolRecoveryAssumption DEF Places
  <2> QED
    BY <1>1, <2>1, <2>3 DEF InTool, Process, CallEvents
<1>5. CASE LateEffect(c)
  <2>1. proc # "running"
    BY <1>5 DEF LateEffect, Stragglers
  <2> QED
    BY <1>1, <1>5, <2>1 DEF LateEffect, Process, CallEvents
<1> QED
  BY <1>3, <1>4, <1>5

\* Somebody edits, another task begins a call, or nothing happens.
LEMMA OutsideFiles ==
  ASSUME FilesKnown, Edit \/ OthersInvoke \/ UNCHANGED vars
  PROVE  FilesKnown'
<1>1. /\ UNCHANGED <<proc, pc, mem, at, journal, checkpoint, kind, before, invoked, outcome>>
      /\ proc # "running" \/ world' = world
  BY DEF Edit, OthersInvoke, Process, CallEvents, vars
<1> QED
  BY <1>1, FilesStay DEF Away, Known

\* The process ends, or the task is started again.
LEMMA StopFiles ==
  ASSUME IInv, FilesKnown,
         \/ StopOnTerminal \/ OutOfReplies \/ Crash \/ Resume
         \/ \E c \in Call : RefuseCall(c) \/ ToolRaises(c)
  PROVE  FilesKnown'
<1>0. CallTypes /\ Places /\ Calls
  BY Groups DEF IInv
<1>1. UNCHANGED <<journal, checkpoint, kind, before, invoked>> /\ proc' \notin {"running", "restoring"}
  BY Zenon DEF StopOnTerminal, OutOfReplies, RefuseCall, ToolRaises, Crash, Resume, Stop, CallEvents
<1>2. \A c \in Call : Away(c)' => Away(c)
  <2>1. CASE outcome' = outcome
    BY <1>1, <2>1 DEF Away, Known
  <2>2. ASSUME NEW c \in Call, ToolRaises(c) PROVE \A d \in Call : Away(d)' => Away(d)
    <3>1. open[c] /\ outcome' = [outcome EXCEPT ![c] = "unknown"]
      BY <1>0, <2>2, ToolRecoveryAssumption DEF ToolRaises, Places
    <3>2. ~Known(c)
      BY <1>0, <3>1 DEF Calls, LifeOf, Known
    <3>3. \A d \in Call : d # c => outcome'[d] = outcome[d]
      BY <1>0, <3>1 DEF CallTypes
    <3> QED
      BY <1>1, <3>2, <3>3 DEF Away, Known
  <2> QED
    BY <2>1, <2>2 DEF StopOnTerminal, OutOfReplies, RefuseCall, Crash, Resume, CallEvents
<1>3. FilesJournaled'
  BY <1>1, <1>2, FilesFrame DEF FilesKnown
<1>4. FilesMinded'
  BY <1>1 DEF FilesMinded
<1> QED
  BY <1>3, <1>4 DEF FilesKnown

\* What taking in does to what the memory knows of the files.
LEMMA TakesFiles ==
  ASSUME JournalTypes, NEW m \in Memory, NEW n \in DOMAIN journal
  PROVE  WithReply(m, n).toolState = m.toolState /\ WithResult(m, n).toolState = m.toolState
<1>1. WithResult(m, n).toolState = m.toolState
  BY DEF WithResult, Memory
<1> DEFINE none == ToSet(journal[n].calls) = {}
<1>2. \/ WithReply(m, n) = m
      \/ WithReply(m, n) = [m EXCEPT !.terminal = "root_tool_budget_exhausted"]
      \/ WithReply(m, n) = [m EXCEPT !.terminal = "tool_authorization_failed"]
      \/ WithReply(m, n) = [m EXCEPT !.sources = Append(@, n), !.pending = IF none THEN @ ELSE n,
                                     !.terminal = IF none THEN "completed" ELSE @]
  BY DEF WithReply
<1>3. WithReply(m, n).toolState = m.toolState
  BY <1>2 DEF Memory
<1> QED
  BY <1>1, <1>3

\* The model's reply is journaled: it only names the kinds of calls that were never begun.
LEMMA AskFiles ==
  ASSUME IInv, Orderly, Orderly', FilesKnown, NEW calls \in Batches, Ask(calls)
  PROVE  FilesKnown'
<1>0. JournalTypes /\ Calls /\ Results /\ Near /\ Minds /\ Near' /\ checkpoint.length \in Nat /\ Len(journal) \in Nat
  BY Groups DEF IInv, Orderly, JournalTypes
<1>1. /\ proc = "running" /\ pc = "loop" /\ GoesOn(mem)
      /\ journal' = Append(journal, Reply(calls)) /\ proc' = "running" /\ pc' = "replied"
      /\ UNCHANGED <<mem, checkpoint, invoked, outcome, world>>
  BY DEF Ask, InLoop, CallEvents, GoesOn
<1>2. Reply(calls) \in Entry /\ Reply(calls).type = "reply"
  <2>1. PICK k \in 0..MaxBatch : calls \in [1..k -> Call]
    BY DEF Batches
  <2>2. calls \in Seq(Call)
    BY <2>1
  <2> QED
    BY <2>2 DEF Reply, Entry
<1>3. /\ Len(journal') = Len(journal) + 1 /\ journal'[Len(journal) + 1] = Reply(calls)
      /\ \A i \in 1..Len(journal) : journal'[i] = journal[i]
  BY <1>1, <1>2 DEF JournalTypes
<1>4. Len(journal) = checkpoint.length
  BY <1>0, <1>1 DEF Minds
<1>5. NobodyAway'
  BY <1>0, <1>1, <1>3, <1>4 DEF Near
<1>6. ASSUME NEW i \in 1..Len(journal), journal[i].type = "result"
      PROVE  kind'[journal[i].call] = kind[journal[i].call]
  <2>1. i \in DOMAIN journal
    BY <1>0 DEF JournalTypes
  <2>2. journal[i].call \in Call
    BY <1>0, <1>6, <2>1, Place DEF Entry
  <2>3. Known(journal[i].call) /\ LifeOf(journal[i].call)
    BY <1>0, <1>6, <2>1, <2>2 DEF Results, Calls
  <2>4. kind[journal[i].call] # "unset"
    BY <2>3 DEF LifeOf, Known
  <2>5. PICK k : kind' = [c \in Call |-> IF c \in ToSet(calls) /\ kind[c] = "unset" THEN k[c] ELSE kind[c]]
    BY Zenon DEF Ask
  <2> QED
    BY <2>2, <2>4, <2>5
<1>7. Linked(journal', kind')
  <2>1. journal \in Seq(Entry) /\ Linked(journal, kind)
    BY <1>0 DEF JournalTypes, FilesKnown, FilesJournaled
  <2> DEFINE e == Reply(calls)
             later == kind'
  <2>2. e \in Entry /\ journal' = Append(journal, e)
    BY <1>1, <1>2
  <2>3. e.type = "result" /\ later[e.call] # "delegate" => Left(journal, Len(journal), e.before)
    BY <1>2
  <2>4. \A i \in 1..Len(journal) : journal[i].type = "result" => later[journal[i].call] = kind[journal[i].call]
    BY <1>6
  <2> HIDE DEF e, later
  <2>5. Linked(journal', later)
    BY <2>1, <2>2, <2>3, <2>4, LinkedGrows
  <2> QED
    BY <2>5 DEF later
<1>8. GoesOn(checkpoint.memory) => Left(journal', checkpoint.length, checkpoint.memory.toolState)
  BY <1>0, <1>3, <1>4, LeftStays DEF FilesKnown, FilesJournaled
<1>9. FilesJournaled'
  BY <1>1, <1>5, <1>7, <1>8 DEF FilesJournaled, NobodyAway, GoesOn
<1>10. Left(journal, Len(journal), mem.toolState) /\ SameFiles(mem.toolState, world)
  BY <1>1 DEF FilesKnown, FilesMinded
<1>11. Left(journal', Len(journal) + 1, mem.toolState)
  BY <1>0, <1>2, <1>3, <1>10, LeftReply
<1>12. FilesMinded'
  BY <1>1, <1>3, <1>10, <1>11 DEF FilesMinded
<1> QED
  BY <1>9, <1>12 DEF FilesKnown

\* What was journaled last is taken in, or the batch is answered.
LEMMA AcceptFiles ==
  ASSUME IInv, Orderly, FilesKnown, AcceptReply \/ AcceptResult \/ FinishBatch
  PROVE  FilesKnown'
<1>0. /\ JournalTypes /\ Near /\ Minds /\ Places /\ Conversation
      /\ checkpoint.length \in Nat /\ mem \in Memory /\ Len(journal) \in Nat
  BY Groups DEF IInv, Orderly, JournalTypes, ProcessTypes
<1>1. /\ proc = "running" /\ pc # "calling" /\ Checkpoint(mem') /\ proc' = "running"
      /\ UNCHANGED <<journal, kind, before, world, invoked, outcome>>
  BY <1>0 DEF AcceptReply, AcceptResult, FinishBatch, InLoop, CallEvents, Process, Places
<1>2. GoesOn(mem) /\ mem'.toolState = mem.toolState
  <2>1. CASE FinishBatch
    BY <1>0, <2>1 DEF FinishBatch, NothingPending, GoesOn, Memory
  <2>2. CASE AcceptReply \/ AcceptResult
    <3>1. pc \in {"replied", "recorded"} /\ Len(journal) = checkpoint.length + 1 /\ SameMind(mem, checkpoint.memory)
      BY <1>0, <1>1, <2>2 DEF AcceptReply, AcceptResult, Minds
    <3>2. GoesOn(checkpoint.memory)
      BY <1>0, <3>1 DEF Near
    <3>3. Len(journal) \in DOMAIN journal
      BY <1>0, <3>1 DEF JournalTypes
    <3>4. mem'.toolState = mem.toolState
      BY <1>0, <2>2, <3>3, TakesFiles DEF AcceptReply, AcceptResult
    <3> QED
      BY <3>1, <3>2, <3>4 DEF SameMind, GoesOn
  <2> QED
    BY <2>1, <2>2
<1>3. Left(journal, Len(journal), mem'.toolState) /\ SameFiles(mem'.toolState, world')
  BY <1>1, <1>2 DEF FilesKnown, FilesMinded
<1>4. \A c \in Call : Away(c)' => Away(c)
  BY <1>1 DEF Away, Known
<1> QED
  BY <1>1, <1>3, <1>4, FilesSaved

\* The next call is begun.
LEMMA InvokeFiles ==
  ASSUME IInv, FilesKnown, NEW c \in Call, Invoke(c)
  PROVE  FilesKnown'
<1>0. CallTypes /\ mem \in Memory
  BY Groups DEF IInv, ProcessTypes
<1>1. /\ proc = "running" /\ pc = "loop" /\ GoesOn(mem)
      /\ invoked' = [invoked EXCEPT ![c] = @ + 1] /\ before' = [before EXCEPT ![c] = world]
      /\ mem' = [mem EXCEPT !.toolState = world]
      /\ proc' = "running" /\ pc' = "calling" /\ UNCHANGED <<journal, checkpoint, outcome, kind>>
  BY DEF Invoke, AtCall, InLoop, Intend, GoesOn
<1>2. Left(journal, Len(journal), mem.toolState) /\ SameFiles(mem.toolState, world)
  BY <1>1 DEF FilesKnown, FilesMinded
<1>3. Left(journal, Len(journal), world)
  BY <1>2, LeftSame
<1>4. before'[c] = world /\ \A d \in Call : d # c => invoked'[d] = invoked[d] /\ before'[d] = before[d]
  BY <1>0, <1>1 DEF CallTypes
<1>5. ASSUME NEW d \in Call, Away(d)', kind[d] # "delegate" PROVE Left(journal, Len(journal), before'[d])
  <2>1. CASE d = c
    BY <1>3, <1>4, <2>1
  <2>2. CASE d # c
    <3>1. Away(d)
      BY <1>1, <1>4, <1>5, <2>2 DEF Away, Known
    <3> QED
      BY <1>4, <1>5, <2>2, <3>1 DEF FilesKnown, FilesJournaled
  <2> QED
    BY <2>1, <2>2
<1>6. FilesJournaled'
  BY <1>1, <1>5 DEF FilesKnown, FilesJournaled, GoesOn
<1>7. mem'.toolState = world
  BY <1>0, <1>1 DEF Memory
<1>8. FilesMinded'
  BY <1>1, <1>3, <1>7 DEF FilesMinded
<1> QED
  BY <1>6, <1>8 DEF FilesKnown

\* A result is journaled: it starts from what the one before left.
LEMMA ExecuteFiles ==
  ASSUME IInv, Orderly, Orderly', FilesKnown, NEW c \in Call,
         Record(c) \/ PresentationFails(c) \/ RecordRecovered(c)
  PROVE  FilesKnown'
<1>0. /\ JournalTypes /\ CallTypes /\ Near /\ Near' /\ Places /\ Calls
      /\ checkpoint.length \in Nat /\ Len(journal) \in Nat /\ mem \in Memory
  BY Groups DEF IInv, Orderly, JournalTypes, ProcessTypes
<1>1. PICK shown \in BOOLEAN : Execute(c, shown)
  BY DEF Record, PresentationFails, RecordRecovered
<1>2. attempt.call = c /\ attempt' = NoCall /\ UNCHANGED <<checkpoint, kind, world, receipt, straggler>>
  BY DEF Record, PresentationFails, RecordRecovered, Stop
<1>3. open[c]
  BY <1>0, <1>2, ToolRecoveryAssumption DEF Places
<1>4. Away(c)
  BY <1>0, <1>3 DEF Calls, LifeOf, Away, Known
<1>5. Len(journal) = checkpoint.length
  BY <1>0, <1>4 DEF Near, NobodyAway
<1>6. /\ Result(c, shown) \in Entry /\ Result(c, shown).type = "result"
      /\ journal' = Append(journal, Result(c, shown))
  BY <1>1, <1>2, <1>3, ExecuteCalls
<1>7. Result(c, shown).call = c /\ Result(c, shown).before = before[c] /\ Result(c, shown).after = world
  BY DEF Result
<1>8. /\ Len(journal') = Len(journal) + 1 /\ journal'[Len(journal) + 1] = Result(c, shown)
      /\ \A i \in 1..Len(journal) : journal'[i] = journal[i]
  BY <1>6 DEF JournalTypes
<1>9. NobodyAway'
  BY <1>0, <1>2, <1>5, <1>8 DEF Near
<1>10. kind[c] # "delegate" => Left(journal, Len(journal), before[c])
  BY <1>4 DEF FilesKnown, FilesJournaled
<1>11. Linked(journal', kind')
  <2> DEFINE e == Result(c, shown)
  <2>1. journal \in Seq(Entry) /\ Linked(journal, kind)
    BY <1>0 DEF JournalTypes, FilesKnown, FilesJournaled
  <2>2. e \in Entry /\ journal' = Append(journal, e) /\ kind' = kind
    BY <1>2, <1>6
  <2>3. e.type = "result" /\ kind[e.call] # "delegate" => Left(journal, Len(journal), e.before)
    BY <1>7, <1>10
  <2> HIDE DEF e
  <2>4. Linked(journal', kind)
    BY <2>1, <2>2, <2>3, LinkedGrows
  <2> QED
    BY <2>2, <2>4
<1>12. GoesOn(checkpoint.memory) => Left(journal', checkpoint.length, checkpoint.memory.toolState)
  BY <1>0, <1>5, <1>8, LeftStays DEF FilesKnown, FilesJournaled
<1>13. FilesJournaled'
  BY <1>2, <1>9, <1>11, <1>12 DEF FilesJournaled, NobodyAway, GoesOn
<1>14. FilesMinded'
  <2>1. CASE Record(c)
    <3>1. mem' = [mem EXCEPT !.toolState = world] /\ proc' = proc /\ pc = "calling"
      BY <2>1 DEF Record
    <3>2. proc' = "running" /\ mem'.toolState = world
      BY <1>0, <3>1 DEF Places, Memory
    <3>3. SameFiles(world, world)
      BY DEF SameFiles
    <3>4. Left(journal', Len(journal) + 1, world)
      <4> DEFINE l == Len(journal) + 1
      <4>1. l \in Nat /\ l # 0
        BY <1>0
      <4>2. journal'[l].type = "result" /\ journal'[l].after = world
        BY <1>6, <1>7, <1>8
      <4>3. SameFiles(world, journal'[l].after)
        BY <3>3, <4>2
      <4> HIDE DEF l
      <4>4. Left(journal', l, world)
        BY <4>1, <4>2, <4>3, LeftResult
      <4> QED
        BY <4>4 DEF l
    <3> QED
      BY <1>2, <1>8, <3>2, <3>3, <3>4 DEF FilesMinded
  <2>2. CASE PresentationFails(c)
    BY <2>2 DEF PresentationFails, Stop, FilesMinded
  <2>3. CASE RecordRecovered(c)
    BY <2>3 DEF RecordRecovered, Process, FilesMinded
  <2> QED
    BY <2>1, <2>2, <2>3
<1> QED
  BY <1>13, <1>14 DEF FilesKnown

\* The restore begins at the checkpoint.
LEMMA BeginRestoreFiles ==
  ASSUME IInv, Orderly, FilesKnown, BeginRestore
  PROVE  FilesKnown'
<1>0. Near /\ checkpoint.length \in Nat /\ Len(journal) \in Nat
  BY Groups DEF IInv, Orderly, JournalTypes
<1>1. /\ proc' = "restoring" /\ mem' = checkpoint.memory /\ at' = checkpoint.length + 1
      /\ UNCHANGED <<journal, checkpoint, kind, invoked, before, outcome>>
  BY DEF BeginRestore, FirstReplayed, CallEvents
<1>2. FilesJournaled'
  BY <1>1, FilesFrame DEF FilesKnown, Away, Known
<1>3. ASSUME at' > Len(journal), GoesOn(mem') PROVE Left(journal, Len(journal), mem'.toolState)
  <2>1. Len(journal) = checkpoint.length
    BY <1>0, <1>1, <1>3 DEF Near
  <2> QED
    BY <1>1, <1>3, <2>1 DEF FilesKnown, FilesJournaled
<1>4. FilesMinded'
  BY <1>1, <1>3 DEF FilesMinded
<1> QED
  BY <1>2, <1>4 DEF FilesKnown

\* The entry after the checkpoint is replayed.
LEMMA ReplayFiles ==
  ASSUME IInv, Orderly, FilesKnown, Replay
  PROVE  FilesKnown'
<1> DEFINE n == Len(journal)
<1>0. /\ JournalTypes /\ Near /\ Minds /\ Results /\ Conversation
      /\ checkpoint.length \in Nat /\ mem \in Memory /\ n \in Nat /\ at \in Nat
  BY Groups DEF IInv, Orderly, JournalTypes, ProcessTypes
<1>1. /\ proc = "restoring" /\ at <= n /\ at' = at + 1 /\ proc' = "restoring"
      /\ UNCHANGED <<journal, checkpoint, kind, before, invoked, outcome>>
  BY DEF Replay, CallEvents, Process
<1>2. mem = checkpoint.memory /\ at = checkpoint.length + 1
  BY <1>0, <1>1 DEF Minds
<1>3. n = at /\ n # 0 /\ checkpoint.length = n - 1
  BY <1>0, <1>1, <1>2 DEF Near
<1>4. GoesOn(mem)
  BY <1>0, <1>2, <1>3 DEF Near
<1>5. n \in DOMAIN journal
  BY <1>0, <1>3 DEF JournalTypes
<1>6. FilesJournaled'
  BY <1>1, FilesFrame DEF FilesKnown, Away, Known
<1>7. Left(journal, n - 1, mem.toolState)
  BY <1>2, <1>3, <1>4 DEF FilesKnown, FilesJournaled
<1>8. ASSUME GoesOn(mem') PROVE Left(journal, n, mem'.toolState)
  <2>1. CASE journal[n].type = "reply" /\ mem' = WithReply(mem, n)
    <3>1. mem'.toolState = mem.toolState
      BY <1>0, <1>5, <2>1, TakesFiles
    <3>2. n - 1 \in Nat /\ (n - 1) + 1 = n
      BY <1>0, <1>3
    <3>3. Left(journal, (n - 1) + 1, mem.toolState)
      BY <1>7, <2>1, <3>2, LeftReply
    <3> QED
      BY <3>1, <3>2, <3>3
  <2>2. CASE /\ journal[n].type = "result"
             /\ mem' = [WithResult(mem, n) EXCEPT
                          !.toolState = IF journal[n].shown THEN journal[n].after ELSE @]
    <3>1. Follows(mem, n - 1)
      BY <1>0, <1>1, <1>3 DEF Conversation
    <3>2. WithResult(mem, n) \in Memory
      BY <1>0, <1>5, <2>2, <3>1, ResultFollows
    <3>3. GoesOn(WithResult(mem, n))
      BY <1>8, <2>2, <3>2 DEF GoesOn, Memory
    <3>4. journal[n].call \notin Answered(mem.sources)
      <4>1. mem.sources = First(n - 1)
        BY <1>4, <3>1 DEF Follows, GoesOn
      <4> SUFFICES ASSUME journal[n].call \in Answered(mem.sources) PROVE FALSE
        OBVIOUS
      <4>2. PICK k \in 1..(n - 1) : journal[k].type = "result" /\ journal[k].call = journal[n].call
        BY <1>0, <1>3, <4>1, AnsweredFirst
      <4>3. k \in DOMAIN journal /\ k # n
        BY <1>0 DEF JournalTypes
      <4> QED
        BY <1>0, <1>5, <2>2, <4>2, <4>3 DEF Results
    <3>5. journal[n].shown
      <4>1. ~journal[n].shown => WithResult(mem, n) = [mem EXCEPT !.terminal = "tool_presentation_failed"]
        BY <3>4, Zenon DEF WithResult
      <4> QED
        BY <1>0, <3>3, <4>1 DEF GoesOn, Memory
    <3>6. mem'.toolState = journal[n].after
      BY <2>2, <3>2, <3>5 DEF Memory
    <3>7. SameFiles(mem'.toolState, journal[n].after)
      BY <3>6 DEF SameFiles
    <3> QED
      BY <1>0, <1>3, <2>2, <3>7, LeftResult
  <2> QED
    BY <1>3, <2>1, <2>2 DEF Replay
<1>9. FilesMinded'
  BY <1>1, <1>8 DEF FilesMinded
<1> QED
  BY <1>6, <1>9 DEF FilesKnown

\* The task goes on only with the files as the journal knows them.
LEMMA InspectFiles ==
  ASSUME IInv, FilesKnown, Inspect
  PROVE  FilesKnown'
<1>0. CallTypes /\ Calls /\ mem \in Memory /\ world \in Files /\ mem.toolState \in Files
  BY Groups DEF IInv, ProcessTypes, CallTypes, Memory
<1>1. /\ proc = "restoring" /\ at > Len(journal) /\ UNCHANGED <<journal, kind, world, invoked, before>>
      /\ outcome' = [c \in Call |-> IF open[c] THEN "unknown" ELSE outcome[c]]
  BY DEF Inspect
<1>2. \A c \in Call : Away(c)' => Away(c)
  <2> SUFFICES ASSUME NEW c \in Call, Away(c)' PROVE Away(c)
    OBVIOUS
  <2>1. LifeOf(c) /\ outcome'[c] = IF open[c] THEN "unknown" ELSE outcome[c]
    BY <1>0, <1>1 DEF Calls
  <2> QED
    BY <1>1, <2>1 DEF Away, Known, LifeOf
<1>3. CASE /\ \E u : Safe(u)
           /\ proc' = "running" /\ mem' = [mem EXCEPT !.toolState = world] /\ Checkpoint(mem')
  <2>1. SameFiles(mem.toolState, world)
    BY <1>0, <1>3 DEF Safe, SameFiles, Files
  <2>2. mem'.toolState = world /\ mem'.terminal = mem.terminal
    BY <1>0, <1>3 DEF Memory
  <2>3. ASSUME GoesOn(mem') PROVE Left(journal, Len(journal), world)
    <3>1. GoesOn(mem)
      BY <2>2, <2>3 DEF GoesOn
    <3> QED
      BY <1>1, <2>1, <3>1, LeftSame DEF FilesKnown, FilesMinded
  <2>4. SameFiles(world, world)
    BY DEF SameFiles
  <2> QED
    BY <1>1, <1>2, <1>3, <2>2, <2>3, <2>4, FilesSaved
<1>4. CASE UNCHANGED checkpoint /\ proc' = "stopped"
  <2>1. FilesJournaled'
    BY <1>1, <1>2, <1>4, FilesFrame DEF FilesKnown
  <2>2. FilesMinded'
    BY <1>4 DEF FilesMinded
  <2> QED
    BY <2>1, <2>2 DEF FilesKnown
<1> QED
  BY <1>3, <1>4, Zenon DEF Inspect, Stop

\* Every step keeps it.
LEMMA NextFiles ==
  ASSUME IInv, Orderly, Orderly', Stragglers, FilesKnown, [Next]_vars
  PROVE  FilesKnown'
<1>1. CASE LoopStep
  BY <1>1, StopFiles, AcceptFiles, AskFiles, InvokeFiles, ExecuteFiles DEF LoopStep
<1>2. CASE ToolStep
  BY <1>2, QuietFiles, StopFiles DEF ToolStep
<1>3. CASE RestoreStep
  BY <1>3, BeginRestoreFiles, ReplayFiles, InspectFiles, QuietFiles, ExecuteFiles DEF RestoreStep
<1>4. CASE Environment
  BY <1>4, StopFiles, OutsideFiles, QuietFiles DEF Environment
<1>5. CASE UNCHANGED vars
  BY <1>5, OutsideFiles
<1> QED
  BY <1>1, <1>2, <1>3, <1>4, <1>5 DEF Next

-----------------------------------------------------------------------------
(* The order and the files hold of every run.                                  *)

\* The first state.
LEMMA InitFiles ==
  ASSUME Init
  PROVE  Stragglers /\ FilesKnown
<1>1. /\ straggler = {} /\ attempt = NoCall /\ journal = <<>> /\ proc = "running" /\ mem = NoMemory
      /\ world = Untouched /\ checkpoint.memory = NoMemory /\ checkpoint.length = 0
      /\ \A c \in Call : invoked[c] = 0
  BY DEF Init
<1>2. Stragglers
  BY <1>1, ToolRecoveryAssumption DEF Stragglers, NoCall
<1>3. Len(journal) = 0
  BY <1>1
<1>4. Linked(journal, kind) /\ \A f : Left(journal, 0, f)
  BY <1>3 DEF Linked, Left
<1>5. FilesJournaled
  BY <1>1, <1>4 DEF FilesJournaled, Away
<1>6. SameFiles(mem.toolState, world)
  BY <1>1 DEF SameFiles, NoMemory
<1>7. FilesMinded
  BY <1>1, <1>3, <1>4, <1>6 DEF FilesMinded
<1> QED
  BY <1>2, <1>5, <1>7 DEF FilesKnown

\* What holds of every run, all together.
Accounted == IInv /\ Orderly /\ Stragglers /\ FilesKnown

\* The journal is in order, and the files are known where the loop is at rest.
THEOREM ToolAccount == Spec => []Accounted
<1>1. Init => Accounted
  BY InitIInv, InitOrderly, InitFiles DEF Accounted
<1>2. Accounted /\ [Next]_vars => Accounted'
  BY NextIInv, NextOrderly, NextStragglers, NextFiles DEF Accounted
<1> QED
  BY <1>1, <1>2, PTL DEF Spec

\* The model is asked only when each call of each reply has its answer, in the
\* order of the calls, right behind the reply (loop.py 1385-1473, 1520-1534).
THEOREM ToolAnswers == Spec => []ConversationIsWhole
<1>1. Accounted => ConversationIsWhole
  <2> SUFFICES ASSUME Accounted, pc = "replied", NEW i \in DOMAIN told, journal[told[i]].type = "reply",
                      NEW k \in DOMAIN journal[told[i]].calls
               PROVE  /\ i + k \in DOMAIN told
                      /\ journal[told[i + k]].type = "result"
                      /\ journal[told[i + k]].call = journal[told[i]].calls[k]
    BY DEF ConversationIsWhole
  <2> DEFINE n == Len(journal)
  <2>1. JournalTypes /\ Conversation /\ InPlace(journal)
    BY Groups DEF Accounted, IInv, Orderly, Order
  <2>2. /\ n \in Nat /\ n # 0 /\ n \in 1..n /\ journal[n].type = "reply" /\ told = First(n - 1)
        /\ DOMAIN journal = 1..n
    <3>1. journal # <<>> /\ journal[n].type = "reply" /\ told = First(n - 1)
      BY <2>1 DEF Conversation
    <3> QED
      BY <2>1, <3>1 DEF JournalTypes
  <2>3. DOMAIN told = 1..(n - 1) /\ \A l \in 1..(n - 1) : told[l] = l
    BY <2>2 DEF First
  <2>4. i \in 1..(n - 1) /\ told[i] = i /\ i \in Nat /\ i \in DOMAIN journal /\ i \in 1..n
    BY <2>2, <2>3
  <2>5. Len(journal[i].calls) \in Nat /\ DOMAIN journal[i].calls = 1..Len(journal[i].calls)
    <3>1. journal[i].calls \in Seq(Call)
      BY <2>1, <2>4, Place DEF Entry
    <3> QED
      BY <3>1
  <2>6. k \in 1..Len(journal[i].calls) /\ k \in Nat
    BY <2>4, <2>5
  <2>7. \A l \in 1..Len(journal[i].calls) :
          i + l <= n => journal[i + l].type = "result" /\ journal[i + l].call = journal[i].calls[l]
    BY <2>1, <2>4 DEF InPlace
  <2> HIDE DEF n
  <2>8. i + k < n
    <3> SUFFICES ASSUME n <= i + k PROVE FALSE
      BY <2>2, <2>4, <2>6
    <3>1. n - i \in 1..Len(journal[i].calls) /\ i + (n - i) = n
      BY <2>2, <2>4, <2>5, <2>6
    <3> QED
      BY <2>2, <2>7, <3>1
  <2>9. i + k \in 1..(n - 1) /\ i + k <= n
    BY <2>2, <2>4, <2>6, <2>8
  <2> QED
    BY <2>3, <2>4, <2>6, <2>7, <2>9
<1> QED
  BY <1>1, ToolAccount, PTL

\* A read, a query or a write works on the files as the answer before it in the
\* conversation left them (loop.py 1775-1791, readers.py 553-565).
THEOREM ToolFiles == Spec => []WorksOnKnownFiles
<1>1. Accounted => WorksOnKnownFiles
  <2> SUFFICES ASSUME Accounted, NEW i \in DOMAIN mem.sources, NEW j \in DOMAIN mem.sources,
                      journal[mem.sources[i]].type = "result", journal[mem.sources[j]].type = "result",
                      \A k \in (i + 1)..(j - 1) : journal[mem.sources[k]].type = "reply",
                      i < j, kind[journal[mem.sources[j]].call] # "delegate"
               PROVE  SameFiles(journal[mem.sources[j]].before, journal[mem.sources[i]].after)
    BY DEF WorksOnKnownFiles, SameFiles
  <2>1. PICK l \in 0..Len(journal) : mem.sources = First(l)
    <3>1. JournalTypes /\ Near /\ Order /\ Minds /\ Conversation /\ checkpoint.length \in Nat /\ Len(journal) \in Nat
      BY Groups DEF Accounted, IInv, Orderly, JournalTypes
    <3>2. CASE mem.sources = checkpoint.memory.sources
      <4>1. mem.sources = First(checkpoint.length - 1) \/ mem.sources = First(checkpoint.length)
        BY <3>1, <3>2 DEF Order, Taken
      <4>2. CASE checkpoint.length = 0 /\ mem.sources = First(checkpoint.length - 1)
        BY <3>1, <4>2 DEF First
      <4>3. CASE checkpoint.length # 0 /\ mem.sources = First(checkpoint.length - 1)
        BY <3>1, <4>3 DEF Conversation
      <4>4. CASE mem.sources = First(checkpoint.length)
        BY <3>1, <4>4 DEF Conversation
      <4> QED
        BY <4>1, <4>2, <4>3, <4>4
    <3>3. CASE proc = "restoring" /\ at > Len(journal)
      <4>1. mem.sources = First(Len(journal) - 1) \/ mem.sources = First(Len(journal))
        BY <3>1, <3>3 DEF Minds, Taken
      <4>2. CASE Len(journal) = 0 /\ mem.sources = First(Len(journal) - 1)
        BY <3>1, <4>2 DEF First
      <4>3. CASE Len(journal) # 0 /\ mem.sources = First(Len(journal) - 1)
        <5>1. Len(journal) - 1 \in 0..Len(journal)
          BY <3>1, <4>3
        <5> QED
          BY <4>3, <5>1
      <4>4. CASE mem.sources = First(Len(journal))
        <5>1. Len(journal) \in 0..Len(journal)
          BY <3>1
        <5> QED
          BY <4>4, <5>1
      <4> QED
        BY <4>1, <4>2, <4>3, <4>4
    <3>4. CASE mem = NoMemory
      <4>1. NoMemory.sources = <<>>
        BY DEF NoMemory
      <4>2. mem.sources = First(0) /\ 0 \in 0..Len(journal)
        BY <3>1, <3>4, <4>1, NothingFirst
      <4> QED
        BY <4>2
    <3>5. proc = "restoring" => at \in 1..(Len(journal) + 1)
      BY <3>1 DEF Conversation
    <3> QED
      BY <3>1, <3>2, <3>3, <3>4, <3>5 DEF Minds, SameMind
  <2>2. DOMAIN mem.sources = 1..l /\ \A k \in 1..l : mem.sources[k] = k
    BY <2>1 DEF First
  <2>3. Len(journal) \in Nat /\ Linked(journal, kind)
    BY Groups DEF Accounted, IInv, JournalTypes, FilesKnown, FilesJournaled
  <2>4. /\ i \in 1..Len(journal) /\ j \in 1..Len(journal) /\ mem.sources[i] = i /\ mem.sources[j] = j
        /\ \A k \in (i + 1)..(j - 1) : k \in 1..l
    BY <2>2, <2>3
  <2>5. \A k \in (i + 1)..(j - 1) : journal[k].type = "reply"
    BY <2>2, <2>4
  <2> QED
    BY <2>3, <2>4, <2>5 DEF Linked
<1> QED
  BY <1>1, ToolAccount, PTL
=============================================================================
