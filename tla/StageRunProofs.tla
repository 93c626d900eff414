--------------------------- MODULE StageRunProofs ---------------------------
(***************************************************************************)
(* What StageRun promises for any number of draws and commands, any last   *)
(* stage and any verdicts: nothing passes the geometry checkpoint          *)
(* unapproved; and, as long as nothing is run out of turn, whatever is     *)
(* accepted was drawn from what is accepted, and a correction during whose *)
(* draw nobody replaced the views read only views that gate 1 passed.      *)
(* The invariant says how the manifest in memory differs from the saved    *)
(* one, what was approved when a gated stage is drawn, what stands up- and *)
(* downstream of a draw, and what a correction has read so far.            *)
(***************************************************************************)
EXTENDS StageRun, WellFoundedInduction, TLAPS

\* Where a command can be.
Running ==
  /\ cmd.kind = None <=> cmd.pc = "idle"
  /\ cmd.pc # "idle" => cmd.stage \in InReach
  /\ cmd.force \subseteq {cmd.stage}
  /\ cmd.pc \in {"idle", "saved"} => cmd.force = {}

InStep == {"look", "redraw", "drawing", "saved"}

\* The manifest in memory is the saved one, but for the stage just decided; a
\* reading merged meanwhile is not seen.
Manifests ==
  /\ \A s \in Stage :
       /\ cmd.manifest[s] <= Existing(s)
       /\ cmd.manifest[s] # 0 => filed[s][cmd.manifest[s]].passed
       /\ accepted[s] # 0 => filed[s][accepted[s]].passed
  /\ \A s \in Stage \ {"reading"} :
       cmd.pc \in InStep \/ (cmd.pc = "decided" /\ s # cmd.stage) => cmd.manifest[s] = accepted[s]
  /\ cmd.pc \in {"decided", "saved"} /\ cmd.outcome \in Passed \cup {"judge_block"} =>
       cmd.manifest[cmd.stage] # 0
  /\ cmd.outcome = "judge_block" => cmd.target \in Verdict \cap Stochastic

\* What was approved when a stage behind the checkpoint is drawn.
Gate ==
  /\ approval # NoDigest => approval.correction \in approved
  /\ cmd.pc \in {"redraw", "drawing"} /\ cmd.stage \in Gated =>
       accepted["correction"] # 0 /\ accepted["correction"] \in approved
  /\ cmd.pc = "drawing" /\ cmd.stage \in Gated => cmd.from \in approved
  /\ OnlyApprovedGeometryGoesOn

\* What a correction has read while nobody replaced the views, in its draw and
\* on file.
ReadSoFar ==
  CorrectionIsDrawn /\ ~disturbed => views = cmd.from /\ cmd.seen \subseteq {cmd.from}

ReadOnFile ==
  \A k \in DOMAIN filed["correction"] :
    ~filed["correction"][k].disturbed => filed["correction"][k].seen = {filed["correction"][k].from}

Reads == ReadSoFar /\ ReadOnFile

\* The views that corrections were compared with passed gate 1.
GatedViews ==
  \A k \in DOMAIN filed["correction"] : \E j \in DOMAIN filed["reading"] :
    filed["reading"][j].passed /\ filed["reading"][j].from = filed["correction"][k].from

NothingBehind(s) == \A t \in Downstream(s) : accepted[t] = 0

\* What stands around a draw while nothing is run out of turn.
Order ==
  /\ \A s \in Stage : accepted[s] # 0 => DrawnFrom(s, accepted[s])
  /\ cmd.pc # "idle" => \A d \in DependsOn(cmd.stage) : accepted[d] # 0
  /\ cmd.pc \in InStep \/ (cmd.pc = "decided" /\ cmd.stage # "reading") =>
       cmd.manifest["reading"] = accepted["reading"]
  /\ cmd.pc \in {"redraw", "drawing"} \/ cmd.force # {} => NothingBehind(cmd.stage)
  /\ cmd.pc = "decided" =>
       \/ cmd.manifest[cmd.stage] = accepted[cmd.stage]
       \/ cmd.manifest[cmd.stage] # 0 /\ NothingBehind(cmd.stage) /\ DrawnFrom(cmd.stage, cmd.manifest[cmd.stage])
  /\ cmd.pc = "drawing" =>
       /\ cmd.stage = "correction" => cmd.from = Version("reading", accepted["reading"])
       /\ cmd.stage \notin {"reading", "correction"} => cmd.from = accepted["correction"]
  /\ GatedViews

IInv == TypeOK /\ Running /\ Manifests /\ Gate /\ Reads /\ (~strayed => Order)

-----------------------------------------------------------------------------
(* The stages.                                                                 *)

\* The stages and their places.
LEMMA StageFacts ==
  /\ Stage = {"reading", "correction", "modelling", "split_pairing", "mep", "intakeoutput"}
  /\ Position("reading") = 1 /\ Position("correction") = 2 /\ Position("modelling") = 3
  /\ Position("split_pairing") = 4 /\ Position("mep") = 5 /\ Position("intakeoutput") = 6
  /\ Manual \cup Stochastic \cup Deterministic \cup Judged \cup Gated \subseteq Stage
<1>1. DOMAIN Pipeline = 1..6
  BY DEF Pipeline
<1>2. Stage = {Pipeline[1], Pipeline[2], Pipeline[3], Pipeline[4], Pipeline[5], Pipeline[6]}
  BY <1>1 DEF Stage
<1>3. /\ Pipeline[1] = "reading" /\ Pipeline[2] = "correction" /\ Pipeline[3] = "modelling"
      /\ Pipeline[4] = "split_pairing" /\ Pipeline[5] = "mep" /\ Pipeline[6] = "intakeoutput"
  BY DEF Pipeline
<1>4. ASSUME NEW i \in 1..6 PROVE Position(Pipeline[i]) = i
  <2>1. \A j \in 1..6 : Pipeline[j] = Pipeline[i] => j = i
    BY <1>3
  <2> QED BY <1>1, <2>1 DEF Position
<1>5. /\ Position("reading") = 1 /\ Position("correction") = 2 /\ Position("modelling") = 3
      /\ Position("split_pairing") = 4 /\ Position("mep") = 5 /\ Position("intakeoutput") = 6
  BY <1>3, <1>4
<1> QED BY <1>2, <1>3, <1>5 DEF Manual, Stochastic, Deterministic, Judged, Gated

\* A stage has a place from one to six, and the stage behind it is the next one.
LEMMA Places ==
  ASSUME NEW s \in Stage
  PROVE  /\ Position(s) \in 1..6 /\ Pipeline[Position(s)] = s
         /\ \A t \in Stage : Position(t) = Position(s) => t = s
         /\ s # "intakeoutput" => /\ Pipeline[Position(s) + 1] \in Stage
                                  /\ Position(Pipeline[Position(s) + 1]) = Position(s) + 1
<1>1. /\ Pipeline[1] = "reading" /\ Pipeline[2] = "correction" /\ Pipeline[3] = "modelling"
      /\ Pipeline[4] = "split_pairing" /\ Pipeline[5] = "mep" /\ Pipeline[6] = "intakeoutput"
  BY DEF Pipeline
<1> QED BY <1>1, StageFacts

\* What a stage needs comes before it, and something does but for the first.
LEMMA Needs ==
  ASSUME NEW s \in Stage
  PROVE  /\ DependsOn(s) \subseteq Stage
         /\ \A d \in DependsOn(s) : Position(d) < Position(s)
         /\ \A t \in Stage : Position(t) < Position(s) =>
              \E d \in DependsOn(s) : Position(t) <= Position(d)
BY StageFacts DEF DependsOn

\* The stages a flow reaches, and the root stages it is sent back to.
LEMMA Reach == InReach \subseteq Stage /\ LastStage \in InReach
<1>1. LastStage \in Stage
  BY StageRunAssumption
<1> QED BY <1>1, Places DEF InReach

-----------------------------------------------------------------------------
(* Least elements.                                                             *)

\* A set of naturals that is not empty has a least element.
LEMMA MinNat ==
  ASSUME NEW S \in SUBSET Nat, S # {}
  PROVE  \E n \in S : \A m \in S : n <= m
<1>1. IsWellFoundedOn(OpToRel(<, Nat), Nat)
  BY NatLessThanWellFounded
<1>2. PICK n \in S : \A m \in S : <<m, n>> \notin OpToRel(<, Nat)
  BY <1>1, WFMin
<1>3. ASSUME NEW m \in S PROVE n <= m
  <2>1. m \in Nat /\ n \in Nat /\ ~(m < n)
    BY <1>2 DEF OpToRel
  <2> QED BY <2>1
<1> QED BY <1>3

\* AutoStart is a stage of the flow, and every stage before it may be left behind.
LEMMA AutoStartIsDue ==
  /\ AutoStart \in InReach
  /\ \A t \in InReach : Position(t) < Position(AutoStart) => AdvanceReady(t)
<1> DEFINE open == {s \in InReach : ~AdvanceReady(s)}
           places == {Position(s) : s \in open}
<1>1. CASE open = {}
  BY <1>1, Reach DEF AutoStart
<1>2. CASE open # {}
  <2>1. places \in SUBSET Nat /\ places # {}
    BY <1>2, Reach, Places
  <2>2. PICK n \in places : \A m \in places : n <= m
    BY <2>1, MinNat
  <2>3. \E s \in open : \A t \in open : Position(s) <= Position(t)
    BY <2>2
  <2>4. AutoStart \in open /\ \A t \in open : Position(AutoStart) <= Position(t)
    BY <1>2, <2>3 DEF AutoStart
  <2>5. ASSUME NEW t \in InReach, Position(t) < Position(AutoStart) PROVE t \notin open
    BY <2>4, <2>5, Reach, Places
  <2> QED BY <2>4, <2>5
<1> QED BY <1>1, <1>2

\* The copy at the stage root is one that gate 1 passed.
LEMMA SnappedPassed ==
  ASSUME TypeOK, Snapped # 0
  PROVE  /\ Snapped \in DOMAIN filed["correction"] /\ filed["correction"][Snapped].passed
         /\ Snapped \in Nat
<1> DEFINE good == {k \in DOMAIN filed["correction"] : filed["correction"][k].passed}
           n == Len(filed["correction"])
           above == {m \in Nat : \A k \in good : k <= m}
<1>1. filed["correction"] \in Seq(AttemptOf) /\ DOMAIN filed["correction"] = 1..n /\ n \in Nat
  BY StageFacts DEF TypeOK
<1>2. good # {}
  BY DEF Snapped
<1>3. good \subseteq 1..n
  BY <1>1
<1> HIDE DEF good, n
<1>4. n \in above
  BY <1>1, <1>3
<1>5. PICK b \in above : \A m \in above : b <= m
  BY <1>4, MinNat
<1>6. b \in good
  <2>1. SUFFICES ASSUME b \notin good PROVE FALSE
    OBVIOUS
  <2>2. \A k \in good : k < b /\ k \in Nat
    BY <1>1, <1>3, <1>5, <2>1
  <2>3. PICK k \in good : TRUE
    BY <1>2
  <2>4. b - 1 \in above
    BY <2>2, <2>3, <1>5
  <2> QED BY <2>4, <1>5
<1>7. \E k \in good : \A j \in good : j <= k
  BY <1>5, <1>6
<1>8. Snapped \in good
  BY <1>2, <1>7 DEF Snapped, good
<1> QED BY <1>8, <1>3, <1>1 DEF good

\* The copy at the stage root is a number.
LEMMA SnappedNat == TypeOK => Snapped \in Nat
BY SnappedPassed

-----------------------------------------------------------------------------
(* Types, in groups.                                                           *)

StopOf == [status : Pending \cup {None}, stage : Stage \cup {None}]

DiskTypes ==
  /\ filed \in [Stage -> Seq(AttemptOf)]
  /\ accepted \in [Stage -> Nat] /\ \A s \in Stage : accepted[s] <= Existing(s)

ReviewTypes ==
  /\ shown \in CheckpointOf /\ approval \in CheckpointOf
  /\ reviews \in [ReviewStages -> Nat] /\ stop \in StopOf /\ approved \subseteq Nat

CommandTypes ==
  /\ cmd \in CommandOf
  /\ views \in Nat /\ geometry \in Nat /\ commands \in Nat
  /\ strayed \in BOOLEAN /\ disturbed \in BOOLEAN

\* The groups are the types.
LEMMA Groups == TypeOK <=> DiskTypes /\ ReviewTypes /\ CommandTypes
BY DEF TypeOK, DiskTypes, ReviewTypes, CommandTypes, StopOf

\* No command, no stop and no digest have their types.
LEMMA NothingTypes ==
  NoCommand \in CommandOf /\ NoStop \in StopOf /\ NoDigest \in CheckpointOf
<1>1. 0 \in 0..PerStageDraws
  BY StageRunAssumption
<1>2. [s \in Stage |-> 0] \in [Stage -> Nat]
  OBVIOUS
<1>3. NoCommand \in CommandOf
  BY <1>1, <1>2 DEF NoCommand, CommandOf, Status
<1> QED BY <1>3 DEF NoStop, StopOf, NoDigest, CheckpointOf

\* An attempt that a number up to the count names is on file.
LEMMA OnFile ==
  ASSUME DiskTypes, NEW s \in Stage
  PROVE  /\ DOMAIN filed[s] = 1..Existing(s) /\ Existing(s) \in Nat /\ accepted[s] \in Nat
         /\ \A k \in DOMAIN filed[s] :
              /\ filed[s][k] \in AttemptOf
              /\ filed[s][k].passed \in BOOLEAN /\ filed[s][k].from \in Nat
              /\ VerdictOf(s, k) \in Verdict \cup {None}
         /\ accepted[s] # 0 => accepted[s] \in DOMAIN filed[s]
<1>1. filed[s] \in Seq(AttemptOf) /\ accepted[s] \in Nat /\ accepted[s] <= Existing(s)
  BY DEF DiskTypes
<1>2. DOMAIN filed[s] = 1..Existing(s) /\ Existing(s) \in Nat
  BY <1>1 DEF Existing
<1>3. ASSUME NEW k \in DOMAIN filed[s] PROVE filed[s][k] \in AttemptOf
  BY <1>1
<1> QED BY <1>1, <1>2, <1>3 DEF AttemptOf, VerdictOf

\* A checkpoint has its type, and says which correction is accepted.
LEMMA CheckpointTypes ==
  ASSUME DiskTypes, NEW built \in Nat
  PROVE  /\ Checkpoint(built) \in CheckpointOf
         /\ Checkpoint(built).correction = accepted["correction"]
         /\ Checkpoint(built).ready => accepted["correction"] # 0
<1> DEFINE c == accepted["correction"]
           m == accepted["modelling"]
           v == IF c = 0 THEN None ELSE VerdictOf("correction", c)
<1>1. c \in Nat /\ m \in Nat /\ v \in Verdict \cup {None}
  BY OnFile, StageFacts
<1>2. Ready(built) \in BOOLEAN /\ (Ready(built) => c # 0)
  BY DEF Ready
<1>3. Checkpoint(built) = [correction |-> c, modelling |-> m, verdict |-> v, ready |-> Ready(built)]
  BY DEF Checkpoint
<1> HIDE DEF c, m, v
<1>4. Checkpoint(built) \in CheckpointOf
  BY <1>1, <1>2, <1>3 DEF CheckpointOf
<1> QED BY <1>2, <1>3, <1>4 DEF c

\* What is decided of an attempt; only a verdict on file blocks it.
Outcomes == [status : Status, target : Stage \cup {None}]

\* A blocking verdict names the stage it is sent back to.
LEMMA VerdictOutcomes ==
  ASSUME NEW v \in Verdict
  PROVE  /\ VerdictOutcome(v) \in Outcomes
         /\ VerdictOutcome(v).status = "judge_block" => VerdictOutcome(v).target \in Verdict \cap Stochastic
<1>1. v \in {"pass", "unrouted"} \cup Stage
  BY StageRunAssumption
<1>2. CASE v = "pass"
  <2>1. VerdictOutcome(v) = Outcome("judge_pass", None)
    BY <1>2 DEF VerdictOutcome, Deterministic, Manual
  <2> QED BY <2>1 DEF Outcome, Outcomes, Status, Passed
<1>3. CASE v # "pass" /\ (v = "unrouted" \/ v \in Deterministic)
  <2>1. VerdictOutcome(v) = Outcome("judge_block_human", None)
    BY <1>3 DEF VerdictOutcome, Deterministic, Manual
  <2> QED BY <2>1 DEF Outcome, Outcomes, Status, Pending
<1>4. CASE v # "pass" /\ ~(v = "unrouted" \/ v \in Deterministic) /\ v \in Manual
  <2>1. VerdictOutcome(v) = RereadOr(v)
    BY <1>4 DEF VerdictOutcome, Deterministic, Manual
  <2>2. v \in Stage
    BY <1>1, <1>4
  <2> QED BY <2>1, <2>2 DEF RereadOr, Outcome, Outcomes, Status, Passed, Pending, None
<1>5. CASE v # "pass" /\ ~(v = "unrouted" \/ v \in Deterministic) /\ v \notin Manual
  <2>1. VerdictOutcome(v) = Outcome("judge_block", v)
    BY <1>5 DEF VerdictOutcome, Deterministic, Manual
  <2>2. v \in Stochastic
    BY <1>1, <1>5, StageFacts DEF Manual, Stochastic, Deterministic
  <2>3. v \in Stage
    BY <1>1, <1>5
  <2> QED BY <2>1, <2>2, <2>3 DEF Outcome, Outcomes, Status
<1> QED BY <1>2, <1>3, <1>4, <1>5

\* What follows gate 1 has its type.
LEMMA PostGateOutcomes ==
  ASSUME NEW s \in Stage, NEW v \in Verdict \cup {None}, NEW confirmed \in BOOLEAN
  PROVE  /\ PostGate(s, v, confirmed) \in Outcomes
         /\ PostGate(s, v, confirmed).status = "judge_block" =>
              PostGate(s, v, confirmed).target \in Verdict \cap Stochastic
<1>1. CASE s = "modelling" /\ ~confirmed
  BY <1>1 DEF PostGate, Outcome, Outcomes, Status, Passed, Pending, None
<1>2. CASE ~(s = "modelling" /\ ~confirmed) /\ s \notin Judged
  BY <1>2 DEF PostGate, Outcome, Outcomes, Status, Passed, Pending, None
<1>3. CASE ~(s = "modelling" /\ ~confirmed) /\ s \in Judged /\ v = None
  BY <1>3 DEF PostGate, Outcome, Outcomes, Status, Passed, Pending, None
<1>4. CASE ~(s = "modelling" /\ ~confirmed) /\ s \in Judged /\ v # None
  <2>1. v \in Verdict
    BY <1>4
  <2> QED BY <1>4, <2>1, VerdictOutcomes DEF PostGate
<1> QED BY <1>1, <1>2, <1>3, <1>4

\* A pending stop has its type.
LEMMA StopTypes ==
  ASSUME NEW status \in Status, NEW s \in Stage
  PROVE  StopReason(status, s) \in StopOf
BY DEF StopReason, StopOf, NoStop, Status

\* An attempt more on file.
LEMMA AppendFiled ==
  ASSUME DiskTypes, NEW s \in Stage, NEW a \in AttemptOf, filed' = [filed EXCEPT ![s] = Append(@, a)]
  PROVE  /\ filed' \in [Stage -> Seq(AttemptOf)]
         /\ \A t \in Stage : Existing(t)' = IF t = s THEN Existing(t) + 1 ELSE Existing(t)
         /\ \A t \in Stage : \A k \in DOMAIN filed[t] : k \in DOMAIN filed'[t] /\ filed'[t][k] = filed[t][k]
         /\ \A t \in Stage : \A k \in DOMAIN filed'[t] :
              k \in DOMAIN filed[t] \/ (t = s /\ k = Existing(s) + 1)
         /\ Existing(s) + 1 \in DOMAIN filed'[s] /\ filed'[s][Existing(s) + 1] = a
<1>1. filed \in [Stage -> Seq(AttemptOf)]
  BY DEF DiskTypes
<1>2. filed' \in [Stage -> Seq(AttemptOf)]
  BY <1>1
<1>3. ASSUME NEW t \in Stage, t # s PROVE filed'[t] = filed[t]
  BY <1>1, <1>3
<1>4. filed'[s] = Append(filed[s], a) /\ filed[s] \in Seq(AttemptOf)
  BY <1>1
<1>5. /\ Existing(s) \in Nat /\ DOMAIN filed[s] = 1..Existing(s)
      /\ Len(filed'[s]) = Existing(s) + 1 /\ DOMAIN filed'[s] = 1..(Existing(s) + 1)
  BY <1>4 DEF Existing
<1>6. filed'[s][Existing(s) + 1] = a /\ \A k \in DOMAIN filed[s] : filed'[s][k] = filed[s][k]
  BY <1>4 DEF Existing
<1>7. \A t \in Stage : Existing(t)' = IF t = s THEN Existing(t) + 1 ELSE Existing(t)
  BY <1>3, <1>5 DEF Existing
<1> QED BY <1>2, <1>3, <1>5, <1>6, <1>7

\* A verdict more on file.
LEMMA VerdictFiled ==
  ASSUME DiskTypes, NEW s \in Stage, NEW k \in DOMAIN filed[s], NEW v \in Verdict,
         filed' = [filed EXCEPT ![s][k].verdict = v]
  PROVE  /\ filed' \in [Stage -> Seq(AttemptOf)]
         /\ \A t \in Stage : Existing(t)' = Existing(t) /\ DOMAIN filed'[t] = DOMAIN filed[t]
         /\ \A t \in Stage : \A j \in DOMAIN filed[t] :
              /\ filed'[t][j].passed = filed[t][j].passed /\ filed'[t][j].from = filed[t][j].from
              /\ filed'[t][j].seen = filed[t][j].seen /\ filed'[t][j].disturbed = filed[t][j].disturbed
<1>1. filed \in [Stage -> Seq(AttemptOf)] /\ filed[s] \in Seq(AttemptOf) /\ filed[s][k] \in AttemptOf
  BY DEF DiskTypes
<1> DEFINE a == [filed[s][k] EXCEPT !.verdict = v]
           q == [filed[s] EXCEPT ![k] = a]
<1>2. /\ a \in AttemptOf /\ a.passed = filed[s][k].passed /\ a.from = filed[s][k].from
      /\ a.seen = filed[s][k].seen /\ a.disturbed = filed[s][k].disturbed
  BY <1>1 DEF AttemptOf
<1>3. filed' = [filed EXCEPT ![s] = q]
  BY <1>1
<1> HIDE DEF a
<1>4. q \in Seq(AttemptOf) /\ DOMAIN q = DOMAIN filed[s] /\ Len(q) = Len(filed[s])
  BY <1>1, <1>2
<1>5. \A j \in DOMAIN filed[s] : q[j] = IF j = k THEN a ELSE filed[s][j]
  BY <1>1
<1> HIDE DEF q
<1>6. filed' \in [Stage -> Seq(AttemptOf)]
  BY <1>1, <1>3, <1>4
<1>7. \A t \in Stage : filed'[t] = IF t = s THEN q ELSE filed[t]
  BY <1>1, <1>3
<1> QED BY <1>2, <1>4, <1>5, <1>6, <1>7 DEF Existing

-----------------------------------------------------------------------------
(* The command that runs.                                                      *)

\* The stage of a command that runs is one of the flow.
LEMMA RunningStage ==
  ASSUME CommandTypes, Running, cmd.pc # "idle"
  PROVE  /\ cmd.stage \in Stage /\ cmd.stage \in InReach
         /\ cmd.manifest \in [Stage -> Nat] /\ cmd.manifest[cmd.stage] \in Nat
         /\ cmd.existing \in 0..PerStageDraws /\ cmd.from \in Nat
<1>1. cmd.stage \in Stage
  BY Reach DEF Running
<1> QED BY <1>1 DEF Running, CommandTypes, CommandOf

\* A decision is remembered, and nothing else of the command changes.
LEMMA Decides ==
  ASSUME CommandTypes, NEW o \in Outcomes, Decide(o)
  PROVE  /\ cmd' \in CommandOf
         /\ cmd'.pc = "decided" /\ cmd'.outcome = o.status /\ cmd'.target = o.target
         /\ cmd'.kind = cmd.kind /\ cmd'.stage = cmd.stage /\ cmd'.manifest = cmd.manifest
         /\ cmd'.force = cmd.force /\ cmd'.from = cmd.from
BY DEF CommandTypes, CommandOf, Outcomes, Decide

\* A command looks at a stage.
LEMMA Looks ==
  ASSUME CommandTypes, NEW s \in Stage, LookAt(s)
  PROVE  /\ cmd' \in CommandOf /\ cmd'.pc = "look" /\ cmd'.stage = s
         /\ cmd'.kind = cmd.kind /\ cmd'.manifest = cmd.manifest /\ cmd'.force = cmd.force
         /\ cmd'.outcome = cmd.outcome /\ cmd'.target = cmd.target
BY DEF CommandTypes, CommandOf, LookAt

\* A command starts at a stage.
LEMMA Starts ==
  ASSUME NEW kind \in {"flow", "run", "resample"}, NEW s \in Stage, NEW force \in SUBSET Stage,
         NEW auto \in BOOLEAN, NEW manifest \in [Stage -> Nat], Start(kind, s, force, auto, manifest)
  PROVE  /\ cmd' \in CommandOf /\ cmd'.kind = kind /\ cmd'.pc = "look" /\ cmd'.stage = s
         /\ cmd'.manifest = manifest /\ cmd'.force = force
         /\ cmd'.outcome = None /\ cmd'.target = None
<1>1. 0 \in 0..PerStageDraws
  BY StageRunAssumption
<1>2. cmd' = [kind |-> kind, stage |-> s, pc |-> "look", manifest |-> manifest,
              force |-> force, existing |-> 0, from |-> 0, seen |-> {}, outcome |-> None,
              target |-> None, auto |-> auto]
  BY DEF Start, NoCommand
<1> QED BY <1>1, <1>2 DEF CommandOf, Status

\* A manifest without what hangs on a stage.
LEMMA InvalidatedTypes ==
  ASSUME NEW m \in [Stage -> Nat], NEW s \in Stage
  PROVE  /\ Invalidated(m, s) \in [Stage -> Nat]
         /\ \A t \in Stage : Invalidated(m, s)[t] = IF t \in Downstream(s) THEN 0 ELSE m[t]
BY DEF Invalidated

\* A flow is sent back to a root stage.
LEMMA Routes ==
  ASSUME CommandTypes, NEW t \in Stage, RouteTo(t)
  PROVE  /\ cmd' \in CommandOf /\ cmd'.pc = "look" /\ cmd'.stage = t /\ cmd'.kind = cmd.kind
         /\ cmd'.manifest = Invalidated(cmd.manifest, t) /\ cmd'.force = cmd.force \cup {t}
         /\ cmd'.outcome = cmd.outcome /\ cmd'.target = cmd.target
<1>1. Invalidated(cmd.manifest, t) \in [Stage -> Nat]
  BY InvalidatedTypes DEF CommandTypes, CommandOf
<1> QED BY <1>1 DEF CommandTypes, CommandOf, RouteTo

-----------------------------------------------------------------------------
(* Types, the place of a command and its manifest.                             *)

Sound == DiskTypes /\ ReviewTypes /\ CommandTypes /\ Running /\ Manifests

\* A command that ended leaves everything sound.
LEMMA Ended ==
  ASSUME Sound, cmd' = NoCommand, UNCHANGED <<filed, accepted>>
  PROVE  cmd' \in CommandOf /\ DiskTypes' /\ Running' /\ Manifests'
<1>1. cmd' \in CommandOf
  BY NothingTypes
<1>2. DiskTypes'
  BY DEF Sound, DiskTypes, Existing
<1>3. /\ cmd'.pc = "idle" /\ cmd'.kind = None /\ cmd'.force = {} /\ cmd'.outcome = None
      /\ \A s \in Stage : cmd'.manifest[s] = 0
  BY DEF NoCommand
<1>4. Running'
  BY <1>3 DEF Running
<1>5. ASSUME NEW s \in Stage
      PROVE  /\ cmd'.manifest[s] <= Existing(s)' /\ cmd'.manifest[s] = 0
             /\ accepted'[s] # 0 => filed'[s][accepted'[s]].passed
  <2>1. Existing(s)' \in Nat
    BY <1>2, OnFile DEF Sound, DiskTypes, Existing
  <2>2. accepted[s] # 0 => filed[s][accepted[s]].passed
    BY DEF Sound, Manifests
  <2> QED BY <1>3, <2>1, <2>2
<1> QED BY <1>1, <1>2, <1>3, <1>4, <1>5 DEF Manifests, None, InStep

\* A command that goes on to look at a stage does.
LEMMA Looked ==
  ASSUME Sound, NEW s \in InReach, cmd.pc = "saved", LookAt(s), UNCHANGED <<filed, accepted>>
  PROVE  cmd' \in CommandOf /\ DiskTypes' /\ Running' /\ Manifests'
<1>1. s \in Stage
  BY Reach
<1>2. /\ cmd' \in CommandOf /\ cmd'.pc = "look" /\ cmd'.stage = s
      /\ cmd'.kind = cmd.kind /\ cmd'.manifest = cmd.manifest /\ cmd'.force = cmd.force
      /\ cmd'.outcome = cmd.outcome /\ cmd'.target = cmd.target
  BY <1>1, Looks DEF Sound
<1>3. DiskTypes'
  BY DEF Sound, DiskTypes, Existing
<1>4. Running'
  BY <1>2 DEF Sound, Running
<1>5. \A t \in Stage : Existing(t)' = Existing(t)
  BY DEF Existing
<1>6. Manifests'
  BY <1>2, <1>5 DEF Sound, Manifests, InStep
<1> QED BY <1>2, <1>3, <1>4, <1>6

\* So does one that decides without a draw.
LEMMA Decided ==
  ASSUME Sound, NEW o \in Outcomes, cmd.pc \in InStep, Decide(o), UNCHANGED <<filed, accepted>>,
         o.status \in Passed \cup {"judge_block"} => cmd.manifest[cmd.stage] # 0,
         o.status = "judge_block" => o.target \in Verdict \cap Stochastic
  PROVE  cmd' \in CommandOf /\ DiskTypes' /\ Running' /\ Manifests'
<1>1. /\ cmd' \in CommandOf
      /\ cmd'.pc = "decided" /\ cmd'.outcome = o.status /\ cmd'.target = o.target
      /\ cmd'.kind = cmd.kind /\ cmd'.stage = cmd.stage /\ cmd'.manifest = cmd.manifest
      /\ cmd'.force = cmd.force /\ cmd'.from = cmd.from
  BY Decides DEF Sound
<1>2. DiskTypes'
  BY DEF Sound, DiskTypes, Existing
<1>3. Running'
  BY <1>1 DEF Sound, Running, InStep
<1>4. \A t \in Stage : Existing(t)' = Existing(t)
  BY DEF Existing
<1>5. Manifests'
  BY <1>1, <1>4 DEF Sound, Manifests, InStep
<1> QED BY <1>1, <1>2, <1>3, <1>5

\* Commands that only look, approve or re-read do.
LEMMA LookedAside ==
  ASSUME Sound, UNCHANGED <<filed, accepted, cmd>>
  PROVE  DiskTypes' /\ Running' /\ Manifests'
<1>1. \A t \in Stage : Existing(t)' = Existing(t)
  BY DEF Existing
<1> QED BY <1>1 DEF Sound, DiskTypes, Running, Manifests, InStep

\* Stays, in parts.
LEMMA Staying ==
  ASSUME Sound, Stays
  PROVE  /\ views' = views /\ approval' = approval /\ reviews' = reviews
         /\ commands' = commands /\ strayed' = strayed /\ disturbed' = disturbed
         /\ approved' = approved
BY DEF Stays

\* A stage that needs no draw.
LEMMA DecideWithoutDrawSound == Sound /\ DecideWithoutDraw => Sound'
<1> SUFFICES ASSUME Sound, DecideWithoutDraw PROVE Sound'
  OBVIOUS
<1> DEFINE s == cmd.stage
           k == cmd.manifest[s]
           o == IF s \in Gated /\ ~Approved THEN Outcome("awaiting_geometry_approval", None)
                ELSE PostGate(s, VerdictOf(s, k), Approved)
<1>1. /\ cmd.pc = "look" /\ NeedsNoDraw /\ Decide(o)
      /\ UNCHANGED <<filed, accepted>> /\ UNCHANGED <<geometry, shown, stop>> /\ Stays
  BY DEF DecideWithoutDraw
<1>2. s \in Stage /\ k \in Nat
  BY <1>1, RunningStage DEF Sound
<1>3. Approved \in BOOLEAN
  BY DEF Approved, ApprovedAs
<1>4. CASE s \in Gated /\ ~Approved
  <2>1. o = Outcome("awaiting_geometry_approval", None)
    BY <1>4
  <2>2. o \in Outcomes /\ o.status \notin Passed \cup {"judge_block"}
    BY <2>1 DEF Outcome, Outcomes, Status, Pending, Passed
  <2> HIDE DEF o
  <2> QED BY <1>1, <2>2, Decided, Staying DEF Sound, ReviewTypes, CommandTypes, InStep
<1>5. CASE ~(s \in Gated /\ ~Approved)
  <2>1. k # 0 /\ o = PostGate(s, VerdictOf(s, k), Approved)
    BY <1>1, <1>5 DEF NeedsNoDraw
  <2>2. k <= Existing(s) /\ Existing(s) \in Nat
    BY <1>2, OnFile DEF Sound, Manifests
  <2>3. k \in DOMAIN filed[s]
    BY <1>2, <2>1, <2>2, OnFile DEF Sound
  <2>4. VerdictOf(s, k) \in Verdict \cup {None}
    BY <1>2, <2>3, OnFile DEF Sound
  <2>5. o \in Outcomes /\ (o.status = "judge_block" => o.target \in Verdict \cap Stochastic)
    BY <1>2, <1>3, <2>1, <2>4, PostGateOutcomes
  <2> HIDE DEF o
  <2> QED BY <1>1, <2>1, <2>5, Decided, Staying DEF Sound, ReviewTypes, CommandTypes, InStep
<1> QED BY <1>4, <1>5

\* No draw is left.
LEMMA BudgetSpentSound == Sound /\ BudgetSpent => Sound'
<1> SUFFICES ASSUME Sound, BudgetSpent PROVE Sound'
  OBVIOUS
<1> DEFINE o == Outcome("quarantined", None)
<1>1. /\ AboutToDraw /\ Decide(o)
      /\ UNCHANGED <<filed, accepted>> /\ UNCHANGED <<geometry, shown, stop>> /\ Stays
  BY DEF BudgetSpent
<1>2. o \in Outcomes /\ o.status \notin Passed \cup {"judge_block"}
  BY DEF Outcome, Outcomes, Status, Pending, Passed
<1> HIDE DEF o
<1>3. cmd.pc \in InStep
  BY <1>1 DEF AboutToDraw, InStep
<1> QED BY <1>1, <1>2, <1>3, Decided, Staying DEF Sound, ReviewTypes, CommandTypes

\* What a draw is made from is a number.
LEMMA SourceNat ==
  ASSUME Sound, NEW s \in Stage
  PROVE  Source(s) \in Nat
<1>1. accepted["correction"] \in Nat /\ cmd.manifest["correction"] \in Nat /\ views \in Nat
  BY StageFacts DEF Sound, DiskTypes, CommandTypes, CommandOf
<1>2. Snapped \in Nat
  BY SnappedNat, Groups DEF Sound
<1> QED BY <1>1, <1>2, StageFacts DEF Source

\* A draw begins.
LEMMA BeginDrawSound == Sound /\ BeginDraw => Sound'
<1> SUFFICES ASSUME Sound, BeginDraw PROVE Sound'
  OBVIOUS
<1> DEFINE s == cmd.stage
           made == DrawsMade(s)
           from == Source(s)
<1>1. /\ AboutToDraw /\ made < PerStageDraws
      /\ UNCHANGED <<filed, accepted>> /\ UNCHANGED <<geometry, shown, stop>> /\ Stays
      /\ \/ cmd' = [cmd EXCEPT !.pc = "drawing", !.existing = made + 1, !.from = from, !.seen = {}]
         \/ cmd' = NoCommand
  BY DEF BeginDraw
<1>2. s \in Stage /\ cmd.existing \in Nat /\ cmd.pc \in InStep \ {"saved"}
  BY <1>1, RunningStage, StageRunAssumption DEF Sound, AboutToDraw, InStep
<1>3. made \in Nat /\ from \in Nat
  BY <1>2, OnFile, SourceNat DEF Sound, DrawsMade
<1>4. made + 1 \in 0..PerStageDraws
  BY <1>1, <1>3, StageRunAssumption
<1>5. CASE cmd' = NoCommand
  BY <1>1, <1>5, Ended, Staying DEF Sound, ReviewTypes, CommandTypes
<1>6. CASE cmd' = [cmd EXCEPT !.pc = "drawing", !.existing = made + 1, !.from = from, !.seen = {}]
  <2> HIDE DEF made, from
  <2>1. /\ cmd' \in CommandOf /\ cmd'.pc = "drawing"
        /\ cmd'.kind = cmd.kind /\ cmd'.stage = cmd.stage /\ cmd'.manifest = cmd.manifest
        /\ cmd'.force = cmd.force /\ cmd'.outcome = cmd.outcome /\ cmd'.target = cmd.target
    BY <1>3, <1>4, <1>6 DEF Sound, CommandTypes, CommandOf
  <2>2. DiskTypes' /\ (\A t \in Stage : Existing(t)' = Existing(t))
    BY <1>1 DEF Sound, DiskTypes, Existing
  <2>3. Running'
    BY <1>2, <2>1 DEF Sound, Running, InStep
  <2>4. Manifests'
    BY <1>1, <1>2, <2>1, <2>2 DEF Sound, Manifests, InStep
  <2> QED BY <1>1, <2>1, <2>2, <2>3, <2>4, Staying DEF Sound, ReviewTypes, CommandTypes
<1> QED BY <1>1, <1>5, <1>6

\* The prompt of a correction is read.
LEMMA ReadViewsSound == Sound /\ ReadViews => Sound'
<1> SUFFICES ASSUME Sound, ReadViews PROVE Sound'
  OBVIOUS
<1>1. /\ cmd' = [cmd EXCEPT !.seen = {views}] /\ UNCHANGED <<filed, accepted>>
      /\ UNCHANGED <<geometry, shown, stop>> /\ Stays
  BY DEF ReadViews
<1>2. /\ cmd' \in CommandOf /\ cmd'.pc = cmd.pc /\ cmd'.kind = cmd.kind /\ cmd'.stage = cmd.stage
      /\ cmd'.manifest = cmd.manifest /\ cmd'.force = cmd.force
      /\ cmd'.outcome = cmd.outcome /\ cmd'.target = cmd.target
  BY <1>1 DEF Sound, CommandTypes, CommandOf
<1>3. DiskTypes' /\ (\A t \in Stage : Existing(t)' = Existing(t))
  BY <1>1 DEF Sound, DiskTypes, Existing
<1>4. Running'
  BY <1>2 DEF Sound, Running
<1>5. Manifests'
  BY <1>1, <1>2, <1>3 DEF Sound, Manifests, InStep
<1> QED BY <1>1, <1>2, <1>3, <1>4, <1>5, Staying DEF Sound, ReviewTypes, CommandTypes

\* A stage whose gate 1 blocked is decided or drawn again.
LEMMA BlockedSound ==
  ASSUME Sound, cmd.pc = "drawing", Blocked(cmd.stage)
  PROVE  /\ cmd' \in CommandOf
         /\ cmd'.pc \in {"decided", "redraw"} /\ cmd'.kind = cmd.kind /\ cmd'.stage = cmd.stage
         /\ cmd'.manifest = cmd.manifest /\ cmd'.force = cmd.force
         /\ cmd'.pc = "decided" => cmd'.outcome \notin Passed \cup {"judge_block"}
         /\ cmd'.outcome = "judge_block" => cmd'.target \in Verdict \cap Stochastic
         /\ cmd'.pc = "redraw" => cmd.stage \in Stochastic
<1> DEFINE s == cmd.stage
           a == Outcome("deterministic_defect", None)
           b == Outcome("human_redraw_required", None)
           c == Outcome("awaiting_reread", s)
           d == Outcome("quarantined", s)
<1>1. s \in Stage
  BY RunningStage DEF Sound
<1>2. {a, b, c, d} \subseteq Outcomes /\ \A o \in {a, b, c, d} : o.status \notin Passed \cup {"judge_block"}
  BY <1>1 DEF Outcome, Outcomes, Status, Pending, Passed
<1>3. \/ \E o \in {a, b, c, d} : Decide(o)
      \/ s \notin Manual \cup Deterministic /\ cmd' = [cmd EXCEPT !.pc = "redraw"]
  BY DEF Blocked
<1> HIDE DEF a, b, c, d
<1>4. CASE \E o \in {a, b, c, d} : Decide(o)
  <2>1. PICK o \in {a, b, c, d} : Decide(o)
    BY <1>4
  <2> QED BY <1>2, <2>1, Decides DEF Sound
<1>5. CASE s \notin Manual \cup Deterministic /\ cmd' = [cmd EXCEPT !.pc = "redraw"]
  <2>1. /\ cmd' \in CommandOf /\ cmd'.pc = "redraw"
        /\ cmd'.kind = cmd.kind /\ cmd'.stage = cmd.stage /\ cmd'.manifest = cmd.manifest
        /\ cmd'.force = cmd.force /\ cmd'.outcome = cmd.outcome /\ cmd'.target = cmd.target
    BY <1>5 DEF Sound, CommandTypes, CommandOf
  <2>2. s \in Stochastic
    BY <1>1, <1>5, StageFacts DEF Manual, Deterministic, Stochastic
  <2> QED BY <2>1, <2>2 DEF Sound, Manifests
<1> QED BY <1>3, <1>4, <1>5

\* What is filed of a draw.
LEMMA Filed ==
  ASSUME Sound, NEW passed \in BOOLEAN, FileAttempt(passed)
  PROVE  \E a \in AttemptOf :
           /\ filed' = [filed EXCEPT ![cmd.stage] = Append(@, a)]
           /\ a.passed = passed /\ a.from = cmd.from /\ a.disturbed = disturbed
           /\ cmd.stage = "correction" => cmd.seen # {} /\ a.seen \in {cmd.seen, cmd.seen \cup {views}}
<1>1. PICK seen \in SeenInTheEnd(cmd.stage, passed) :
        filed' = [filed EXCEPT ![cmd.stage] =
                   Append(@, [passed |-> passed, from |-> cmd.from, seen |-> seen,
                              disturbed |-> disturbed, verdict |-> None])]
  BY DEF FileAttempt
<1> DEFINE a == [passed |-> passed, from |-> cmd.from, seen |-> seen,
                 disturbed |-> disturbed, verdict |-> None]
<1>2. cmd.stage = "correction" => cmd.seen # {}
  BY DEF FileAttempt
<1>3. cmd.seen \in SUBSET Nat /\ views \in Nat /\ cmd.from \in Nat /\ disturbed \in BOOLEAN
  BY DEF Sound, CommandTypes, CommandOf
<1>4. seen \in {cmd.seen, cmd.seen \cup {views}}
  BY <1>1 DEF SeenInTheEnd
<1>5. seen \in SUBSET Nat
  BY <1>3, <1>4
<1>6. a \in AttemptOf
  BY <1>3, <1>5 DEF AttemptOf
<1>7. a.passed = passed /\ a.from = cmd.from /\ a.disturbed = disturbed /\ a.seen = seen
  OBVIOUS
<1>8. filed' = [filed EXCEPT ![cmd.stage] = Append(@, a)]
  BY <1>1
<1> HIDE DEF a
<1> QED BY <1>2, <1>4, <1>6, <1>7, <1>8

\* A draw is filed.
LEMMA FileAttemptSound ==
  ASSUME Sound, NEW passed \in BOOLEAN, FileAttempt(passed)
  PROVE  Sound'
<1> DEFINE s == cmd.stage
           n == Existing(s) + 1
           o == PostGate(s, None, ApprovedAs(shown', geometry'))
<1>0. PICK a \in AttemptOf : filed' = [filed EXCEPT ![s] = Append(@, a)] /\ a.passed = passed
  BY Filed
<1>1. /\ cmd.pc = "drawing" /\ accepted' = accepted /\ stop' = stop
      /\ UNCHANGED <<views, approval, reviews, commands, approved>>
      /\ \/ geometry' = cmd.from /\ shown' = Checkpoint(cmd.from)
         \/ geometry' = geometry /\ shown' = shown
      /\ IF passed
         THEN cmd' = [cmd EXCEPT !.pc = "decided", !.manifest[s] = n, !.outcome = o.status,
                                 !.target = o.target]
         ELSE Blocked(s)
  BY Zenon DEF FileAttempt
<1>2. s \in Stage /\ cmd.from \in Nat /\ cmd.manifest \in [Stage -> Nat]
  BY <1>1, RunningStage DEF Sound
<1>3. strayed' \in BOOLEAN /\ disturbed' \in BOOLEAN
  BY DEF FileAttempt, Sound, CommandTypes
<1>4. /\ filed' \in [Stage -> Seq(AttemptOf)]
      /\ \A t \in Stage : Existing(t)' = IF t = s THEN Existing(t) + 1 ELSE Existing(t)
      /\ \A t \in Stage : \A k \in DOMAIN filed[t] : k \in DOMAIN filed'[t] /\ filed'[t][k] = filed[t][k]
      /\ n \in DOMAIN filed'[s] /\ filed'[s][n] = a
  BY <1>0, <1>2, AppendFiled DEF Sound
<1>5. \A t \in Stage : Existing(t) \in Nat /\ accepted[t] \in Nat /\ cmd.manifest[t] \in Nat
  BY <1>2, OnFile DEF Sound
<1>6. DiskTypes'
  <2>0. accepted' = accepted
    BY <1>1
  <2>1. ASSUME NEW t \in Stage PROVE accepted'[t] <= Existing(t)'
    <3>1. accepted[t] <= Existing(t)
      BY DEF Sound, DiskTypes
    <3>2. Existing(t)' \in {Existing(t), Existing(t) + 1}
      BY <1>4
    <3> QED BY <1>5, <2>0, <3>1, <3>2
  <2> QED BY <1>4, <2>0, <2>1 DEF Sound, DiskTypes
<1>7. Checkpoint(cmd.from) \in CheckpointOf
  BY <1>2, CheckpointTypes DEF Sound
<1>8. ReviewTypes' /\ geometry' \in Nat
  BY <1>1, <1>2, <1>7 DEF Sound, ReviewTypes, CommandTypes
<1>9. \A t \in Stage : accepted[t] # 0 => filed'[t][accepted[t]].passed
  <2> SUFFICES ASSUME NEW t \in Stage, accepted[t] # 0
               PROVE  filed'[t][accepted[t]].passed
    OBVIOUS
  <2>1. accepted[t] \in DOMAIN filed[t]
    BY OnFile DEF Sound
  <2> QED BY <1>4, <2>1 DEF Sound, Manifests
<1>10. \A t \in Stage : cmd.manifest[t] # 0 => filed'[t][cmd.manifest[t]].passed
  <2> SUFFICES ASSUME NEW t \in Stage, cmd.manifest[t] # 0
               PROVE  filed'[t][cmd.manifest[t]].passed
    OBVIOUS
  <2>1. cmd.manifest[t] \in DOMAIN filed[t]
    BY <1>5, OnFile DEF Sound, Manifests
  <2> QED BY <1>4, <2>1 DEF Sound, Manifests
<1>11. CASE passed
  <2>1. ApprovedAs(shown', geometry') \in BOOLEAN
    BY DEF ApprovedAs
  <2>2. o \in Outcomes /\ o.status # "judge_block"
    BY <1>2, <2>1, PostGateOutcomes DEF PostGate, Outcome, VerdictOutcome
  <2> HIDE DEF o
  <2>3. n \in Nat /\ n # 0
    BY <1>2, <1>5
  <2>4. /\ cmd' \in CommandOf /\ cmd'.pc = "decided" /\ cmd'.outcome = o.status
        /\ cmd'.kind = cmd.kind /\ cmd'.stage = cmd.stage /\ cmd'.force = cmd.force
        /\ cmd'.manifest = [cmd.manifest EXCEPT ![s] = n]
    <3> DEFINE m == [cmd.manifest EXCEPT ![s] = n]
    <3>1. cmd \in CommandOf
      BY DEF Sound, CommandTypes
    <3>2. cmd' = [cmd EXCEPT !.pc = "decided", !.manifest = m, !.outcome = o.status, !.target = o.target]
      BY <1>1, <1>11, <3>1 DEF CommandOf
    <3>3. m \in [Stage -> Nat]
      BY <1>2, <2>3
    <3>4. o.status \in Status /\ o.target \in Stage \cup {None}
      BY <2>2 DEF Outcomes
    <3> HIDE DEF m, n, s
    <3>5. /\ cmd' \in CommandOf /\ cmd'.pc = "decided" /\ cmd'.outcome = o.status
          /\ cmd'.kind = cmd.kind /\ cmd'.stage = cmd.stage /\ cmd'.force = cmd.force
          /\ cmd'.manifest = m
      BY <3>1, <3>2, <3>3, <3>4 DEF CommandOf
    <3> QED BY <3>5 DEF m
  <2>5. Running'
    BY <1>1, <2>4 DEF Sound, Running
  <2>6. \A t \in Stage : cmd'.manifest[t] = IF t = s THEN n ELSE cmd.manifest[t]
    BY <1>2, <2>4
  <2>7. filed'[s][n].passed
    BY <1>0, <1>4, <1>11
  <2>8. \A t \in Stage : cmd'.manifest[t] <= Existing(t)'
    BY <1>2, <1>4, <1>5, <2>6 DEF Sound, Manifests
  <2>9. Manifests'
    <3>1. \A t \in Stage : cmd'.manifest[t] # 0 => filed'[t][cmd'.manifest[t]].passed
      BY <1>10, <2>6, <2>7
    <3>2. \A t \in Stage \ {"reading"} : t # s => cmd'.manifest[t] = accepted[t]
      BY <1>1, <2>6 DEF Sound, Manifests, InStep
    <3>3. cmd'.manifest[s] # 0
      BY <1>2, <2>3, <2>6
    <3> HIDE DEF s, n
    <3>4. cmd'.stage = s
      BY <2>4 DEF s
    <3> QED BY <1>1, <1>9, <2>2, <2>4, <2>8, <3>1, <3>2, <3>3, <3>4 DEF Manifests, InStep
  <2> QED BY <1>6, <1>8, <2>4, <2>5, <2>9, <1>1, <1>3 DEF Sound, CommandTypes
<1>12. CASE ~passed
  <2>1. /\ cmd' \in CommandOf
        /\ cmd'.pc \in {"decided", "redraw"} /\ cmd'.kind = cmd.kind /\ cmd'.stage = cmd.stage
        /\ cmd'.manifest = cmd.manifest /\ cmd'.force = cmd.force
        /\ cmd'.pc = "decided" => cmd'.outcome \notin Passed \cup {"judge_block"}
        /\ cmd'.outcome = "judge_block" => cmd'.target \in Verdict \cap Stochastic
    BY <1>1, <1>12, BlockedSound
  <2>2. Running'
    BY <1>1, <2>1 DEF Sound, Running
  <2>3. \A t \in Stage : cmd'.manifest[t] <= Existing(t)'
    BY <1>2, <1>4, <1>5, <2>1 DEF Sound, Manifests
  <2>4. Manifests'
    <3>1. \A t \in Stage \ {"reading"} : cmd'.manifest[t] = accepted[t]
      BY <1>1, <2>1 DEF Sound, Manifests, InStep
    <3> QED BY <1>1, <1>9, <1>10, <2>1, <2>3, <3>1 DEF Manifests, InStep
  <2> QED BY <1>6, <1>8, <2>1, <2>2, <2>4, <1>1, <1>3 DEF Sound, CommandTypes
<1> QED BY <1>11, <1>12

\* The manifest is saved.
LEMMA SaveSound == Sound /\ Save => Sound'
<1> SUFFICES ASSUME Sound, Save PROVE Sound'
  OBVIOUS
<1>1. /\ cmd.pc = "decided" /\ accepted' = cmd.manifest
      /\ cmd' = [cmd EXCEPT !.pc = "saved", !.force = @ \ {cmd.stage}]
      /\ filed' = filed /\ UNCHANGED <<geometry, shown, stop>> /\ Stays
  BY DEF Save
<1>2. cmd.manifest \in [Stage -> Nat] /\ cmd.stage \in Stage
  BY <1>1, RunningStage DEF Sound
<1>3. /\ cmd' \in CommandOf /\ cmd'.pc = "saved" /\ cmd'.force = cmd.force \ {cmd.stage}
      /\ cmd'.kind = cmd.kind /\ cmd'.stage = cmd.stage /\ cmd'.manifest = cmd.manifest
      /\ cmd'.outcome = cmd.outcome /\ cmd'.target = cmd.target
  BY <1>1 DEF Sound, CommandTypes, CommandOf
<1>4. cmd'.force = {}
  BY <1>3 DEF Sound, Running
<1>5. \A t \in Stage : Existing(t)' = Existing(t)
  BY <1>1 DEF Existing
<1>6. DiskTypes'
  BY <1>1, <1>2, <1>5 DEF Sound, DiskTypes, Manifests
<1>7. Running'
  BY <1>1, <1>3, <1>4 DEF Sound, Running
<1>8. Manifests'
  BY <1>1, <1>3, <1>5 DEF Sound, Manifests, InStep
<1> QED BY <1>1, <1>3, <1>6, <1>7, <1>8, Staying DEF Sound, ReviewTypes, CommandTypes

\* A run ends.
LEMMA EndRunSound == Sound /\ EndRun => Sound'
<1> SUFFICES ASSUME Sound, EndRun PROVE Sound'
  OBVIOUS
<1>1. /\ cmd.pc = "saved" /\ stop' = StopReason(cmd.outcome, cmd.stage)
      /\ shown' \in {Checkpoint(geometry), shown}
      /\ cmd' = NoCommand /\ UNCHANGED <<filed, accepted>> /\ geometry' = geometry /\ Stays
  BY DEF EndRun
<1>2. cmd.stage \in Stage /\ cmd.outcome \in Status
  BY <1>1, RunningStage DEF Sound, CommandTypes, CommandOf
<1>3. stop' \in StopOf
  BY <1>1, <1>2, StopTypes
<1>4. shown' \in CheckpointOf
  BY <1>1, CheckpointTypes DEF Sound, CommandTypes, ReviewTypes
<1> QED BY <1>1, <1>3, <1>4, Ended, Staying DEF Sound, ReviewTypes, CommandTypes

\* What follows the saved manifest in a flow.
LEMMA FlowStepStage ==
  ASSUME Sound, FlowStep
  PROVE  cmd.pc = "saved" /\ cmd.stage \in Stage /\ cmd.stage \in InReach /\ cmd.outcome \in Status
BY RunningStage DEF FlowStep, Sound, CommandTypes, CommandOf

\* The stage behind a stage of the flow, unless that is the last one.
LEMMA NextStage ==
  ASSUME NEW s \in InReach, s # LastStage
  PROVE  Pipeline[Position(s) + 1] \in InReach
<1>1. s \in Stage /\ LastStage \in Stage
  BY Reach
<1>2. Position(s) < Position(LastStage) /\ Position(s) \in 1..6 /\ Position(LastStage) \in 1..6
  BY <1>1, Places DEF InReach
<1>3. s # "intakeoutput"
  BY <1>2, StageFacts
<1> QED BY <1>1, <1>2, <1>3, Places DEF InReach

\* The flow passes a stage.
LEMMA FlowPassesSound == Sound /\ FlowPasses => Sound'
<1> SUFFICES ASSUME Sound, FlowPasses PROVE Sound'
  OBVIOUS
<1> DEFINE s == cmd.stage
           next == Pipeline[Position(s) + 1]
<1>1. /\ FlowStep /\ stop' \in {StopReason("awaiting_human_review", s), StopReason(cmd.outcome, s)}
      /\ cmd' = NoCommand \/ (s # LastStage /\ LookAt(next))
      /\ UNCHANGED <<filed, accepted>> /\ UNCHANGED <<geometry, shown>> /\ Stays
  BY DEF FlowPasses
<1>2. cmd.pc = "saved" /\ s \in Stage /\ s \in InReach /\ cmd.outcome \in Status
  BY <1>1, FlowStepStage
<1>3. "awaiting_human_review" \in Status
  BY DEF Status, Pending
<1>4. stop' \in StopOf
  BY <1>1, <1>2, <1>3, StopTypes
<1>5. cmd' \in CommandOf /\ DiskTypes' /\ Running' /\ Manifests'
  <2>1. CASE cmd' = NoCommand
    BY <1>1, <2>1, Ended
  <2>2. CASE s # LastStage /\ LookAt(next)
    BY <1>1, <1>2, <2>2, NextStage, Looked
  <2> QED BY <1>1, <2>1, <2>2
<1> QED BY <1>1, <1>4, <1>5, Staying DEF Sound, ReviewTypes, CommandTypes

\* The geometry is shown, and approved or left to a human.
LEMMA FlowShowsGeometrySound == Sound /\ FlowShowsGeometry => Sound'
<1> SUFFICES ASSUME Sound, FlowShowsGeometry PROVE Sound'
  OBVIOUS
<1> DEFINE now == Checkpoint(geometry)
<1>1. /\ FlowStep /\ shown' = now /\ approval' \in {now, approval}
      /\ approved' \in {approved \cup {now.correction}, approved}
      /\ stop' \in {NoStop, StopReason(cmd.outcome, cmd.stage)}
      /\ cmd' = NoCommand \/ LookAt(cmd.stage)
      /\ UNCHANGED <<filed, accepted>> /\ UNCHANGED <<views, geometry, reviews, commands, strayed, disturbed>>
  BY DEF FlowShowsGeometry
<1>2. cmd.pc = "saved" /\ cmd.stage \in Stage /\ cmd.stage \in InReach /\ cmd.outcome \in Status
  BY <1>1, FlowStepStage
<1>3. now \in CheckpointOf /\ now.correction \in Nat
  BY CheckpointTypes DEF Sound, CommandTypes, CheckpointOf
<1> HIDE DEF now
<1>4. ReviewTypes'
  BY <1>1, <1>2, <1>3, StopTypes, NothingTypes DEF Sound, ReviewTypes
<1>5. cmd' \in CommandOf /\ DiskTypes' /\ Running' /\ Manifests'
  BY <1>1, <1>2, Ended, Looked
<1> QED BY <1>1, <1>4, <1>5 DEF Sound, CommandTypes

\* The flow is sent back to a root stage.
LEMMA FlowRoutesSound == Sound /\ FlowRoutes => Sound'
<1> SUFFICES ASSUME Sound, FlowRoutes PROVE Sound'
  OBVIOUS
<1> DEFINE t == cmd.target
<1>1. /\ FlowStep /\ stop' = NoStop /\ filed' = filed
      /\ \/ t \in InReach /\ RouteTo(t) /\ accepted' = Invalidated(cmd.manifest, t)
         \/ cmd' = NoCommand /\ accepted' = accepted
      /\ strayed' \in {strayed, strayed \/ OutOfTurn(t)}
      /\ UNCHANGED <<geometry, shown, views, approval, reviews, commands, disturbed, approved>>
  BY DEF FlowRoutes
<1>2. cmd.pc = "saved" /\ strayed' \in BOOLEAN
  BY <1>1, FlowStepStage DEF OutOfTurn, Sound, CommandTypes
<1>3. ReviewTypes'
  BY <1>1, NothingTypes DEF Sound, ReviewTypes
<1>4. CASE cmd' = NoCommand /\ accepted' = accepted
  BY <1>1, <1>2, <1>3, <1>4, Ended DEF Sound, CommandTypes
<1>5. CASE t \in InReach /\ RouteTo(t) /\ accepted' = Invalidated(cmd.manifest, t)
  <2>1. t \in Stage /\ cmd.manifest \in [Stage -> Nat]
    BY <1>5, Reach DEF Sound, CommandTypes, CommandOf
  <2>2. /\ cmd' \in CommandOf /\ cmd'.pc = "look" /\ cmd'.stage = t /\ cmd'.kind = cmd.kind
        /\ cmd'.manifest = accepted' /\ cmd'.force = cmd.force \cup {t}
        /\ cmd'.outcome = cmd.outcome /\ cmd'.target = cmd.target
    BY <1>5, <2>1, Routes DEF Sound
  <2>3. /\ accepted' \in [Stage -> Nat]
        /\ \A u \in Stage : accepted'[u] = 0 \/ accepted'[u] = cmd.manifest[u]
    BY <1>5, <2>1, InvalidatedTypes
  <2>4. \A u \in Stage : Existing(u)' = Existing(u) /\ Existing(u) \in Nat
    BY <1>1, OnFile DEF Sound, Existing
  <2>5. \A u \in Stage : accepted'[u] <= Existing(u)'
    BY <2>3, <2>4 DEF Sound, Manifests
  <2>6. DiskTypes'
    BY <1>1, <2>3, <2>5 DEF Sound, DiskTypes
  <2>7. Running'
    BY <1>2, <1>5, <2>2 DEF Sound, Running
  <2>8. \A u \in Stage : accepted'[u] # 0 => filed[u][accepted'[u]].passed
    BY <2>3 DEF Sound, Manifests
  <2>9. Manifests'
    BY <1>1, <2>2, <2>5, <2>8 DEF Sound, Manifests, InStep
  <2> QED BY <1>1, <1>2, <1>3, <2>2, <2>6, <2>7, <2>9 DEF Sound, CommandTypes
<1> QED BY <1>1, <1>4, <1>5

\* The flow stops.
LEMMA FlowStopsSound == Sound /\ FlowStops => Sound'
<1> SUFFICES ASSUME Sound, FlowStops PROVE Sound'
  OBVIOUS
<1>1. /\ FlowStep /\ stop' = StopReason(cmd.outcome, cmd.stage)
      /\ cmd' = NoCommand /\ UNCHANGED <<filed, accepted>> /\ UNCHANGED <<geometry, shown>> /\ Stays
  BY DEF FlowStops
<1>2. stop' \in StopOf
  BY <1>1, FlowStepStage, StopTypes
<1> QED BY <1>1, <1>2, Ended, Staying DEF Sound, ReviewTypes, CommandTypes

\* A command is killed.
LEMMA KillSound == Sound /\ Kill => Sound'
<1> SUFFICES ASSUME Sound, Kill PROVE Sound'
  OBVIOUS
<1>1. /\ commands' = commands + 1 /\ cmd' = NoCommand /\ UNCHANGED <<filed, accepted>>
      /\ UNCHANGED <<views, geometry, shown, approval, reviews, stop, approved>>
  BY DEF Kill, MayCommand
<1>2. strayed' \in BOOLEAN /\ disturbed' \in BOOLEAN
  BY DEF Kill, Sound, CommandTypes
<1> QED BY <1>1, <1>2, Ended DEF Sound, ReviewTypes, CommandTypes

\* A command starts: the manifest it reads is the saved one.
LEMMA StartSound ==
  ASSUME Sound, NEW kind \in {"flow", "run", "resample"}, NEW s \in InReach, NEW force \in SUBSET {s},
         NEW auto \in BOOLEAN, Start(kind, s, force, auto, accepted'), filed' = filed,
         accepted' = accepted \/ accepted' = Invalidated(accepted, s)
  PROVE  cmd' \in CommandOf /\ DiskTypes' /\ Running' /\ Manifests'
<1>1. s \in Stage /\ accepted \in [Stage -> Nat]
  BY Reach DEF Sound, DiskTypes
<1>2. accepted' \in [Stage -> Nat] /\ \A t \in Stage : accepted'[t] = 0 \/ accepted'[t] = accepted[t]
  BY <1>1, InvalidatedTypes
<1>3. /\ cmd' \in CommandOf /\ cmd'.kind = kind /\ cmd'.pc = "look" /\ cmd'.stage = s
      /\ cmd'.manifest = accepted' /\ cmd'.force = force /\ cmd'.outcome = None
  BY <1>1, <1>2, Starts
<1>4. \A t \in Stage : Existing(t)' = Existing(t) /\ Existing(t) \in Nat
  BY OnFile DEF Sound, Existing
<1>5. \A t \in Stage : accepted'[t] <= Existing(t)'
  BY <1>2, <1>4 DEF Sound, DiskTypes
<1>6. DiskTypes'
  BY <1>2, <1>5 DEF Sound, DiskTypes
<1>7. Running'
  BY <1>3 DEF Running, None
<1>8. \A t \in Stage : accepted'[t] # 0 => filed'[t][accepted'[t]].passed
  BY <1>2 DEF Sound, Manifests
<1>9. Manifests'
  BY <1>3, <1>5, <1>8 DEF Manifests, InStep, None
<1> QED BY <1>3, <1>6, <1>7, <1>9

\* A flow starts.
LEMMA FlowSound ==
  ASSUME Sound, NEW from \in InReach \cup {"auto"}, NEW auto \in BOOLEAN, Flow(from, auto)
  PROVE  Sound'
<1> DEFINE s == IF from = "auto" THEN AutoStart ELSE from
<1>1. /\ commands' = commands + 1 /\ Start("flow", s, {}, auto, accepted)
      /\ strayed' = (strayed \/ OutOfTurn(s)) /\ accepted' = accepted /\ filed' = filed
      /\ UNCHANGED <<views, geometry, shown, approval, reviews, stop, disturbed, approved>>
  BY DEF Flow, MayCommand
<1>2. s \in InReach
  BY AutoStartIsDue
<1> HIDE DEF s
<1>3. strayed' \in BOOLEAN
  BY <1>1 DEF OutOfTurn, Sound, CommandTypes
<1>4. Start("flow", s, {}, auto, accepted')
  BY <1>1
<1>5. cmd' \in CommandOf /\ DiskTypes' /\ Running' /\ Manifests'
  BY <1>1, <1>2, <1>4, StartSound
<1> QED BY <1>1, <1>3, <1>5 DEF Sound, ReviewTypes, CommandTypes

\* A run starts.
LEMMA RunSound ==
  ASSUME Sound, NEW s \in InReach, NEW force \in BOOLEAN, Run(s, force)
  PROVE  Sound'
<1> DEFINE f == IF force THEN {s} ELSE {}
<1>1. /\ commands' = commands + 1 /\ Start("run", s, f, FALSE, accepted)
      /\ strayed' = TRUE /\ accepted' = accepted /\ filed' = filed
      /\ UNCHANGED <<views, geometry, shown, approval, reviews, stop, disturbed, approved>>
  BY DEF Run, MayCommand
<1>2. f \in SUBSET {s}
  OBVIOUS
<1> HIDE DEF f
<1>3. Start("run", s, f, FALSE, accepted')
  BY <1>1
<1>4. cmd' \in CommandOf /\ DiskTypes' /\ Running' /\ Manifests'
  BY <1>1, <1>2, <1>3, StartSound
<1> QED BY <1>1, <1>4 DEF Sound, ReviewTypes, CommandTypes

\* A resample starts.
LEMMA ResampleSound ==
  ASSUME Sound, NEW s \in InReach, Resample(s)
  PROVE  Sound'
<1>1. /\ commands' = commands + 1 /\ Start("resample", s, {s}, FALSE, accepted')
      /\ strayed' = (strayed \/ OutOfTurn(s)) /\ accepted' = Invalidated(accepted, s) /\ filed' = filed
      /\ UNCHANGED <<views, geometry, shown, approval, reviews, stop, disturbed, approved>>
  BY DEF Resample, MayCommand
<1>2. strayed' \in BOOLEAN
  BY <1>1 DEF OutOfTurn, Sound, CommandTypes
<1>3. cmd' \in CommandOf /\ DiskTypes' /\ Running' /\ Manifests'
  BY <1>1, StartSound
<1> QED BY <1>1, <1>2, <1>3 DEF Sound, ReviewTypes, CommandTypes

\* A verdict is filed.
LEMMA JudgeSound ==
  ASSUME Sound, NEW s \in Judged, NEW v \in Verdict, Judge(s, v)
  PROVE  Sound'
<1> DEFINE k == accepted[s]
<1>1. /\ k # 0 /\ commands' = commands + 1
      /\ filed' = [filed EXCEPT ![s][k].verdict = v]
      /\ stop' = StopReason(VerdictOutcome(v).status, s)
      /\ UNCHANGED <<accepted, shown, approval, reviews, strayed, approved>>
      /\ UNCHANGED <<views, geometry, cmd, disturbed>>
  BY DEF Judge, MayCommand, Aside
<1>2. s \in Stage
  BY StageFacts
<1>3. k \in DOMAIN filed[s]
  BY <1>1, <1>2, OnFile DEF Sound
<1>4. /\ filed' \in [Stage -> Seq(AttemptOf)]
      /\ \A t \in Stage : Existing(t)' = Existing(t) /\ DOMAIN filed'[t] = DOMAIN filed[t]
      /\ \A t \in Stage : \A j \in DOMAIN filed[t] :
           filed'[t][j].passed = filed[t][j].passed /\ filed'[t][j].from = filed[t][j].from
  BY <1>1, <1>2, <1>3, VerdictFiled DEF Sound
<1>5. VerdictOutcome(v).status \in Status
  BY VerdictOutcomes DEF Outcomes
<1>6. stop' \in StopOf
  BY <1>1, <1>2, <1>5, StopTypes
<1>7. DiskTypes'
  BY <1>1, <1>4 DEF Sound, DiskTypes
<1>8. Running'
  BY <1>1 DEF Sound, Running
<1>9. ASSUME NEW t \in Stage
      PROVE  /\ cmd.manifest[t] # 0 => filed'[t][cmd.manifest[t]].passed
             /\ accepted[t] # 0 => filed'[t][accepted[t]].passed
  <2>1. cmd.manifest[t] \in Nat /\ Existing(t) \in Nat /\ accepted[t] \in Nat
    BY OnFile DEF Sound, CommandTypes, CommandOf
  <2>2. accepted[t] # 0 => accepted[t] \in DOMAIN filed[t]
    BY OnFile DEF Sound
  <2>3. cmd.manifest[t] # 0 => cmd.manifest[t] \in DOMAIN filed[t]
    BY <2>1, OnFile DEF Sound, Manifests
  <2> QED BY <1>4, <2>2, <2>3 DEF Sound, Manifests
<1>10. Manifests'
  BY <1>1, <1>4, <1>9 DEF Sound, Manifests, InStep
<1> QED BY <1>1, <1>6, <1>7, <1>8, <1>10 DEF Sound, ReviewTypes, CommandTypes

\* The geometry is approved.
LEMMA ApproveGeometrySound == Sound /\ ApproveGeometry => Sound'
<1> SUFFICES ASSUME Sound, ApproveGeometry PROVE Sound'
  OBVIOUS
<1>1. /\ commands' = commands + 1 /\ approval' = shown /\ approved' = approved \cup {shown.correction}
      /\ stop' \in {NoStop, stop}
      /\ UNCHANGED <<filed, accepted, cmd>> /\ UNCHANGED <<shown, reviews, strayed, views, geometry, disturbed>>
  BY DEF ApproveGeometry, MayCommand, Aside
<1>2. shown.correction \in Nat
  BY DEF Sound, ReviewTypes, CheckpointOf
<1>3. ReviewTypes'
  BY <1>1, <1>2, NothingTypes DEF Sound, ReviewTypes
<1> QED BY <1>1, <1>3, LookedAside DEF Sound, CommandTypes

\* An output is approved in a review.
LEMMA ApproveReviewSound ==
  ASSUME Sound, NEW s \in ReviewStages, ApproveReview(s)
  PROVE  Sound'
<1> DEFINE k == accepted[s]
<1>1. /\ k # 0 /\ commands' = commands + 1
      /\ reviews' = [reviews EXCEPT ![s] = Version(s, k)] /\ stop' \in {NoStop, stop}
      /\ UNCHANGED <<filed, accepted, cmd>> /\ UNCHANGED <<shown, approval, strayed, approved, views, geometry, disturbed>>
  BY DEF ApproveReview, MayCommand, Aside, StopAfterReview
<1>2. s \in Stage
  BY StageRunAssumption, StageFacts
<1>3. k \in DOMAIN filed[s] /\ k \in Nat
  BY <1>1, <1>2, OnFile DEF Sound
<1>4. Version(s, k) \in Nat
  BY <1>2, <1>3, OnFile DEF Sound, Version
<1>5. reviews' \in [ReviewStages -> Nat]
  BY <1>1, <1>4 DEF Sound, ReviewTypes
<1> QED BY <1>1, <1>5, LookedAside, NothingTypes DEF Sound, ReviewTypes, CommandTypes

\* A reader replaces the views.
LEMMA RereadSound == Sound /\ Reread => Sound'
<1> SUFFICES ASSUME Sound, Reread PROVE Sound'
  OBVIOUS
<1>1. /\ commands' = commands + 1 /\ views' = commands + 2
      /\ disturbed' = (disturbed \/ CorrectionIsDrawn)
      /\ UNCHANGED <<filed, accepted, cmd>>
      /\ UNCHANGED <<geometry, shown, approval, reviews, stop, strayed, approved>>
  BY DEF Reread, Replace, MayCommand, NextViews
<1>2. disturbed' \in BOOLEAN
  BY <1>1 DEF CorrectionIsDrawn, Sound, CommandTypes
<1> QED BY <1>1, <1>2, LookedAside DEF Sound, ReviewTypes, CommandTypes

\* A reading made elsewhere is merged.
LEMMA MergeSound ==
  ASSUME Sound, NEW passed \in BOOLEAN, Merge(passed)
  PROVE  Sound'
<1> DEFINE s == "reading"
           n == Existing(s) + 1
           a == [passed |-> passed, from |-> commands + 2, seen |-> {}, disturbed |-> FALSE,
                 verdict |-> None]
<1>1. /\ commands' = commands + 1 /\ filed' = [filed EXCEPT ![s] = Append(@, a)]
      /\ \/ passed /\ accepted' = [accepted EXCEPT ![s] = n] /\ views' = commands + 2
         \/ accepted' = accepted /\ views' = views
      /\ UNCHANGED <<geometry, shown, approval, reviews, stop, cmd, approved>>
  BY DEF Merge, Replace, MayCommand, NextViews
<1>0. strayed' \in BOOLEAN /\ disturbed' \in BOOLEAN
  BY DEF Merge, Replace, CorrectionIsDrawn, Sound, CommandTypes
<1>2. s \in Stage /\ commands \in Nat
  BY StageFacts DEF Sound, CommandTypes
<1>3. a \in AttemptOf /\ a.passed = passed
  BY <1>2 DEF AttemptOf
<1> HIDE DEF a
<1>4. /\ filed' \in [Stage -> Seq(AttemptOf)]
      /\ \A t \in Stage : Existing(t)' = IF t = s THEN Existing(t) + 1 ELSE Existing(t)
      /\ \A t \in Stage : \A k \in DOMAIN filed[t] : k \in DOMAIN filed'[t] /\ filed'[t][k] = filed[t][k]
      /\ n \in DOMAIN filed'[s] /\ filed'[s][n] = a
  BY <1>1, <1>2, <1>3, AppendFiled DEF Sound
<1>5. \A t \in Stage : Existing(t) \in Nat /\ accepted[t] \in Nat /\ cmd.manifest[t] \in Nat
  BY OnFile DEF Sound, CommandTypes, CommandOf
<1>6. accepted' \in [Stage -> Nat]
  BY <1>1, <1>2, <1>5 DEF Sound, DiskTypes
<1>7. \A t \in Stage : accepted'[t] = accepted[t] \/ (t = s /\ passed /\ accepted'[t] = n)
  BY <1>1 DEF Sound, DiskTypes
<1>8. \A t \in Stage : accepted'[t] <= Existing(t)' /\ cmd.manifest[t] <= Existing(t)'
  <2> SUFFICES ASSUME NEW t \in Stage
               PROVE  accepted'[t] <= Existing(t)' /\ cmd.manifest[t] <= Existing(t)'
    OBVIOUS
  <2>1. accepted[t] <= Existing(t) /\ cmd.manifest[t] <= Existing(t)
    BY DEF Sound, DiskTypes, Manifests
  <2>2. accepted[t] <= Existing(t)' /\ cmd.manifest[t] <= Existing(t)' /\ (t = s => n = Existing(t)')
    BY <1>4, <1>5, <2>1
  <2>3. Existing(t)' \in Nat
    BY <1>4, <1>5
  <2> QED BY <1>7, <2>2, <2>3
<1>9. DiskTypes'
  BY <1>4, <1>6, <1>8 DEF DiskTypes
<1>10. ASSUME NEW t \in Stage
       PROVE  /\ cmd.manifest[t] # 0 => filed'[t][cmd.manifest[t]].passed
              /\ accepted'[t] # 0 => filed'[t][accepted'[t]].passed
  <2>1. accepted[t] # 0 => accepted[t] \in DOMAIN filed[t]
    BY OnFile DEF Sound
  <2>2. cmd.manifest[t] # 0 => cmd.manifest[t] \in DOMAIN filed[t]
    BY <1>5, OnFile DEF Sound, Manifests
  <2> QED BY <1>3, <1>4, <1>7, <2>1, <2>2 DEF Sound, Manifests
<1>11. \A t \in Stage \ {s} : accepted'[t] = accepted[t]
  BY <1>7
<1>12. Manifests'
  BY <1>1, <1>8, <1>10, <1>11 DEF Sound, Manifests, InStep
<1>13. Running'
  BY <1>1 DEF Sound, Running
<1>14. views' \in Nat /\ commands' \in Nat
  BY <1>1, <1>2 DEF Sound, CommandTypes
<1> QED BY <1>0, <1>1, <1>9, <1>12, <1>13, <1>14 DEF Sound, ReviewTypes, CommandTypes

\* Every step leaves everything sound.
LEMMA SoundStep == Sound /\ [Next]_vars => Sound'
<1> SUFFICES ASSUME Sound, [Next]_vars PROVE Sound'
  OBVIOUS
<1>1. CASE UNCHANGED vars
  BY <1>1, LookedAside DEF vars, Sound, ReviewTypes, CommandTypes
<1>2. CASE Step
  BY <1>2, DecideWithoutDrawSound, BudgetSpentSound, BeginDrawSound, ReadViewsSound, FileAttemptSound, SaveSound,
     EndRunSound, FlowPassesSound, FlowShowsGeometrySound, FlowRoutesSound, FlowStopsSound DEF Step
<1>3. CASE Command
  BY <1>3, FlowSound, RunSound, ResampleSound, JudgeSound, ApproveGeometrySound, ApproveReviewSound,
     RereadSound, MergeSound DEF Command
<1> QED BY <1>1, <1>2, <1>3, KillSound DEF Next

\* At the beginning everything is sound.
LEMMA SoundInit == Init => Sound
<1> SUFFICES ASSUME Init PROVE Sound
  OBVIOUS
<1>1. /\ filed = [s \in Stage |-> <<>>] /\ accepted = [s \in Stage |-> 0] /\ views = 1 /\ geometry = 0
      /\ shown = NoDigest /\ approval = NoDigest /\ reviews = [s \in ReviewStages |-> 0]
      /\ stop = NoStop /\ cmd = NoCommand /\ commands = 0 /\ strayed = FALSE
      /\ disturbed = FALSE /\ approved = {}
  BY DEF Init
<1>2. filed \in [Stage -> Seq(AttemptOf)] /\ \A s \in Stage : Existing(s) = 0
  BY <1>1 DEF Existing
<1>3. DiskTypes
  BY <1>1, <1>2 DEF DiskTypes
<1>4. ReviewTypes /\ CommandTypes
  BY <1>1, NothingTypes DEF ReviewTypes, CommandTypes
<1>5. /\ cmd.pc = "idle" /\ cmd.kind = None /\ cmd.force = {} /\ cmd.outcome = None
      /\ \A s \in Stage : cmd.manifest[s] = 0
  BY <1>1 DEF NoCommand
<1>6. Running
  BY <1>5 DEF Running
<1>7. Manifests
  BY <1>1, <1>2, <1>5 DEF Manifests, None, InStep
<1> QED BY <1>3, <1>4, <1>6, <1>7 DEF Sound

-----------------------------------------------------------------------------
(* The geometry checkpoint.                                                    *)

\* An approved geometry is the one on disk, of the accepted correction.
LEMMA ApprovedCorrection ==
  ASSUME Sound, Gate, Approved
  PROVE  accepted["correction"] # 0 /\ accepted["correction"] \in approved
<1>1. shown.ready /\ shown = Checkpoint(geometry) /\ approval = shown
  BY DEF Approved, ApprovedAs, ReviewIsCurrent
<1>2. /\ Checkpoint(geometry).correction = accepted["correction"]
      /\ Checkpoint(geometry).ready => accepted["correction"] # 0
  BY CheckpointTypes DEF Sound, CommandTypes
<1>3. approval # NoDigest
  BY <1>1 DEF NoDigest
<1> QED BY <1>1, <1>2, <1>3 DEF Gate

\* Steps that file nothing behind the checkpoint and begin no draw.
LEMMA GateKept ==
  ASSUME Gate, approved \subseteq approved',
         approval' = approval \/ approval'.correction \in approved',
         \A s \in Gated : \A k \in DOMAIN filed'[s] :
           k \in DOMAIN filed[s] /\ filed'[s][k].from = filed[s][k].from,
         \/ cmd'.pc \notin {"redraw", "drawing"}
         \/ cmd' = cmd /\ accepted'["correction"] = accepted["correction"]
  PROVE  Gate'
<1>1. (approval # NoDigest => approval.correction \in approved)'
  BY DEF Gate
<1>2. OnlyApprovedGeometryGoesOn'
  BY DEF Gate, OnlyApprovedGeometryGoesOn
<1> QED BY <1>1, <1>2 DEF Gate

\* Where a step of a command leaves it.
LEMMA NotDrawing ==
  ASSUME Sound, \/ DecideWithoutDraw \/ BudgetSpent \/ Save \/ EndRun \/ FlowPasses \/ FlowShowsGeometry
                \/ FlowRoutes \/ FlowStops \/ Kill
                \/ \E from \in InReach \cup {"auto"}, auto \in BOOLEAN : Flow(from, auto)
                \/ \E s \in InReach, force \in BOOLEAN : Run(s, force)
                \/ \E s \in InReach : Resample(s)
  PROVE  cmd'.pc \notin {"redraw", "drawing"} /\ filed' = filed
<1> DEFINE P == cmd'.pc \in {"decided", "idle", "saved", "look"}
<1>1. cmd \in CommandOf
  BY DEF Sound, CommandTypes
<1>2. cmd' = NoCommand => P
  BY DEF NoCommand
<1>3. ASSUME NEW s, LookAt(s) \/ RouteTo(s) PROVE P
  BY <1>1, <1>3 DEF LookAt, RouteTo, CommandOf
<1>4. ASSUME NEW o, Decide(o) PROVE P
  BY <1>1, <1>4 DEF Decide, CommandOf
<1>5. ASSUME NEW kind, NEW s, NEW force, NEW auto, NEW m, Start(kind, s, force, auto, m) PROVE P
  BY <1>5 DEF Start, NoCommand
<1>6. Save => P
  BY <1>1 DEF Save, CommandOf
<1> HIDE DEF P
<1>7. CASE DecideWithoutDraw \/ BudgetSpent
  BY <1>4, <1>7 DEF DecideWithoutDraw, BudgetSpent, P
<1>8. CASE Save \/ EndRun \/ FlowStops \/ Kill
  BY <1>2, <1>6, <1>8 DEF Save, EndRun, FlowStops, Kill, P
<1>9. CASE FlowPasses \/ FlowShowsGeometry \/ FlowRoutes
  BY <1>2, <1>3, <1>9 DEF FlowPasses, FlowShowsGeometry, FlowRoutes, P
<1>10. CASE \E from \in InReach \cup {"auto"}, auto \in BOOLEAN : Flow(from, auto)
  BY <1>5, <1>10 DEF Flow, P
<1>11. CASE \E s \in InReach, force \in BOOLEAN : Run(s, force)
  BY <1>5, <1>11 DEF Run, P
<1>12. CASE \E s \in InReach : Resample(s)
  BY <1>5, <1>12 DEF Resample, P
<1> QED BY <1>7, <1>8, <1>9, <1>10, <1>11, <1>12

\* What was approved stays approved, and the approval moves with it.
LEMMA ApprovedGrows ==
  ASSUME Sound, Gate, [Next]_vars
  PROVE  /\ approved \subseteq approved'
         /\ approval' = approval \/ approval'.correction \in approved'
<1>1. CASE Step
  <2>1. CASE FlowShowsGeometry
    BY <2>1 DEF FlowShowsGeometry
  <2>2. CASE ~FlowShowsGeometry
    BY <1>1, <2>2 DEF Step, DecideWithoutDraw, BudgetSpent, BeginDraw, ReadViews, FileAttempt, Save,
                      EndRun, FlowPasses, FlowRoutes, FlowStops, Stays
  <2> QED BY <2>1, <2>2
<1>2. CASE ApproveGeometry
  BY <1>2 DEF ApproveGeometry
<1>3. CASE Command /\ ~ApproveGeometry
  BY <1>3 DEF Command, Flow, Run, Resample, Judge, ApproveReview, Reread, Merge
<1>4. CASE Kill \/ UNCHANGED vars
  BY <1>4 DEF Kill, vars
<1> QED BY <1>1, <1>2, <1>3, <1>4 DEF Next

\* A draw behind the checkpoint begins from an approved geometry.
LEMMA BeginDrawGate == Sound /\ Gate /\ BeginDraw => Gate'
<1> SUFFICES ASSUME Sound, Gate, BeginDraw PROVE Gate'
  OBVIOUS
<1> DEFINE s == cmd.stage
           c == accepted["correction"]
           made == DrawsMade(s) + 1
           from == Source(s)
<1>1. /\ AboutToDraw /\ filed' = filed /\ accepted' = accepted /\ approval' = approval /\ approved' = approved
      /\ \/ cmd' = [cmd EXCEPT !.pc = "drawing", !.existing = made, !.from = from, !.seen = {}]
         \/ cmd' = NoCommand
  BY Staying DEF BeginDraw
<1>2. CASE cmd' = NoCommand
  <2>1. cmd'.pc = "idle"
    BY <1>2 DEF NoCommand
  <2> QED BY <1>1, <2>1, GateKept
<1>3. CASE cmd' = [cmd EXCEPT !.pc = "drawing", !.existing = made, !.from = from, !.seen = {}]
  <2>1. cmd'.pc = "drawing" /\ cmd'.stage = s /\ cmd'.from = from
    BY <1>3 DEF Sound, CommandTypes, CommandOf
  <2>2. ASSUME s \in Gated PROVE c # 0 /\ c \in approved
    <3>1. CASE cmd.pc = "redraw"
      BY <2>2, <3>1 DEF Gate
    <3>2. CASE cmd.pc = "look"
      <4>1. Approved
        BY <1>1, <2>2, <3>2 DEF AboutToDraw, NeedsNoDraw
      <4> QED BY <4>1, ApprovedCorrection
    <3> QED BY <1>1, <3>1, <3>2 DEF AboutToDraw
  <2>3. cmd.manifest["correction"] = c
    BY <1>1, StageFacts DEF Sound, Manifests, AboutToDraw, InStep
  <2>4. ASSUME s \in Gated PROVE from = c
    <3>1. s \in {"split_pairing", "mep", "intakeoutput"}
      BY <2>4 DEF Gated
    <3> QED BY <2>2, <2>3, <2>4, <3>1 DEF Source
  <2>5. OnlyApprovedGeometryGoesOn'
    BY <1>1 DEF Gate, OnlyApprovedGeometryGoesOn
  <2> HIDE DEF from, s
  <2>6. (approval # NoDigest => approval.correction \in approved)'
    BY <1>1 DEF Gate
  <2> QED BY <1>1, <2>1, <2>2, <2>4, <2>5, <2>6 DEF Gate
<1> QED BY <1>1, <1>2, <1>3

\* Nor does the reading of a prompt pass it.
LEMMA ReadViewsGate == Sound /\ Gate /\ ReadViews => Gate'
<1> SUFFICES ASSUME Sound, Gate, ReadViews PROVE Gate'
  OBVIOUS
<1>1. /\ cmd' = [cmd EXCEPT !.seen = {views}] /\ filed' = filed /\ accepted' = accepted
      /\ approval' = approval /\ approved' = approved
  BY Staying DEF ReadViews
<1>2. cmd'.pc = cmd.pc /\ cmd'.stage = cmd.stage /\ cmd'.from = cmd.from
  BY <1>1 DEF Sound, CommandTypes, CommandOf
<1> QED BY <1>1, <1>2 DEF Gate, OnlyApprovedGeometryGoesOn

\* What is filed behind the checkpoint was drawn from it.
LEMMA FileAttemptGate ==
  ASSUME Sound, Gate, NEW passed \in BOOLEAN, FileAttempt(passed)
  PROVE  Gate'
<1> DEFINE s == cmd.stage
           n == Existing(s) + 1
<1>0. PICK a \in AttemptOf : filed' = [filed EXCEPT ![s] = Append(@, a)] /\ a.from = cmd.from
  BY Filed
<1>1. /\ cmd.pc = "drawing" /\ accepted' = accepted /\ approval' = approval /\ approved' = approved
      /\ \/ cmd'.pc = "decided"
         \/ ~passed /\ Blocked(s)
  <2>1. cmd \in CommandOf
    BY DEF Sound, CommandTypes
  <2>2. passed => cmd'.pc = "decided"
    BY <2>1 DEF FileAttempt, CommandOf
  <2> QED BY <2>2 DEF FileAttempt
<1>2. s \in Stage /\ cmd.from \in Nat
  BY <1>1, RunningStage DEF Sound
<1>4. /\ \A t \in Stage : \A k \in DOMAIN filed[t] : k \in DOMAIN filed'[t] /\ filed'[t][k] = filed[t][k]
      /\ \A t \in Stage : \A k \in DOMAIN filed'[t] : k \in DOMAIN filed[t] \/ (t = s /\ k = n)
      /\ filed'[s][n] = a
  BY <1>0, <1>2, AppendFiled DEF Sound
<1>5. OnlyApprovedGeometryGoesOn'
  <2> SUFFICES ASSUME NEW t \in Gated, NEW k \in DOMAIN filed'[t] PROVE filed'[t][k].from \in approved
    BY <1>1 DEF OnlyApprovedGeometryGoesOn
  <2>1. t \in Stage
    BY StageFacts
  <2>2. CASE k \in DOMAIN filed[t]
    BY <1>4, <2>1, <2>2 DEF Gate, OnlyApprovedGeometryGoesOn
  <2>3. CASE t = s /\ k = n
    BY <1>0, <1>1, <1>4, <2>3 DEF Gate
  <2> QED BY <1>4, <2>1, <2>2, <2>3
<1>6. cmd'.pc = "decided" \/ (cmd'.pc = "redraw" /\ cmd'.stage = cmd.stage)
  BY <1>1, BlockedSound
<1>7. (cmd.pc \in {"redraw", "drawing"} /\ cmd.stage \in Gated =>
         accepted["correction"] # 0 /\ accepted["correction"] \in approved)'
  BY <1>1, <1>6 DEF Gate
<1>8. (cmd.pc = "drawing" /\ cmd.stage \in Gated => cmd.from \in approved)'
  BY <1>6
<1> QED BY <1>1, <1>5, <1>7, <1>8 DEF Gate

\* Every step keeps the checkpoint.
LEMMA GateStep == Sound /\ Gate /\ [Next]_vars => Gate'
<1> SUFFICES ASSUME Sound, Gate, [Next]_vars PROVE Gate'
  OBVIOUS
<1>0. /\ approved \subseteq approved'
      /\ approval' = approval \/ approval'.correction \in approved'
  BY ApprovedGrows
<1>1. CASE BeginDraw \/ ReadViews
  BY <1>1, BeginDrawGate, ReadViewsGate
<1>2. CASE \E passed \in BOOLEAN : FileAttempt(passed)
  BY <1>2, FileAttemptGate
<1>3. CASE \E s \in Judged, v \in Verdict : Judge(s, v)
  <2>1. PICK s \in Judged, v \in Verdict : Judge(s, v)
    BY <1>3
  <2>2. s \in Stage /\ accepted[s] # 0 /\ filed' = [filed EXCEPT ![s][accepted[s]].verdict = v]
    BY <2>1, StageFacts DEF Judge
  <2>3. accepted[s] \in DOMAIN filed[s]
    BY <2>2, OnFile DEF Sound
  <2>4. \A t \in Stage : DOMAIN filed'[t] = DOMAIN filed[t]
          /\ \A j \in DOMAIN filed[t] : filed'[t][j].from = filed[t][j].from
    BY <2>2, <2>3, VerdictFiled DEF Sound
  <2>5. cmd' = cmd /\ accepted' = accepted
    BY <2>1 DEF Judge, Aside
  <2> QED BY <1>0, <2>4, <2>5, GateKept, StageFacts
<1>4. CASE \E passed \in BOOLEAN : Merge(passed)
  <2>1. PICK passed \in BOOLEAN : Merge(passed)
    BY <1>4
  <2>2. cmd' = cmd /\ accepted'["correction"] = accepted["correction"]
    BY <2>1, StageFacts DEF Merge, Sound, DiskTypes
  <2>3. \A s \in Gated : filed'[s] = filed[s]
    BY <2>1, StageFacts DEF Merge, Sound, DiskTypes, Gated
  <2> QED BY <1>0, <2>2, <2>3, GateKept
<1>5. CASE ApproveGeometry \/ (\E s \in ReviewStages : ApproveReview(s)) \/ Reread \/ UNCHANGED vars
  <2>1. cmd' = cmd /\ accepted' = accepted /\ filed' = filed
    BY <1>5 DEF ApproveGeometry, ApproveReview, Reread, Aside, vars
  <2> QED BY <1>0, <2>1, GateKept
<1>6. CASE \/ DecideWithoutDraw \/ BudgetSpent \/ Save \/ EndRun \/ FlowPasses \/ FlowShowsGeometry
           \/ FlowRoutes \/ FlowStops \/ Kill
           \/ \E from \in InReach \cup {"auto"}, auto \in BOOLEAN : Flow(from, auto)
           \/ \E s \in InReach, force \in BOOLEAN : Run(s, force)
           \/ \E s \in InReach : Resample(s)
  BY <1>0, <1>6, NotDrawing, GateKept
<1> QED BY <1>1, <1>2, <1>3, <1>4, <1>5, <1>6 DEF Next, Step, Command

\* At the beginning nothing is approved and nothing behind the checkpoint.
LEMMA GateInit == Init => Gate
<1> SUFFICES ASSUME Init PROVE Gate
  OBVIOUS
<1>1. \A s \in Stage : filed[s] = <<>>
  BY DEF Init
<1>2. approval = NoDigest /\ cmd.pc = "idle"
  BY DEF Init, NoCommand
<1>3. OnlyApprovedGeometryGoesOn
  BY <1>1, StageFacts DEF OnlyApprovedGeometryGoesOn
<1> QED BY <1>2, <1>3 DEF Gate

-----------------------------------------------------------------------------
(* What a correction reads.                                                    *)

\* What is filed of a correction that nobody disturbed read what it was compared
\* with.
LEMMA FiledReads ==
  ASSUME Sound, Reads, NEW passed \in BOOLEAN, FileAttempt(passed)
  PROVE  \E a \in AttemptOf :
           /\ filed' = [filed EXCEPT ![cmd.stage] = Append(@, a)] /\ a.from = cmd.from
           /\ cmd.stage = "correction" /\ ~a.disturbed => a.seen = {a.from}
<1>1. PICK a \in AttemptOf :
        /\ filed' = [filed EXCEPT ![cmd.stage] = Append(@, a)]
        /\ a.passed = passed /\ a.from = cmd.from /\ a.disturbed = disturbed
        /\ cmd.stage = "correction" => cmd.seen # {} /\ a.seen \in {cmd.seen, cmd.seen \cup {views}}
  BY Filed
<1>2. ASSUME cmd.stage = "correction", ~a.disturbed PROVE a.seen = {a.from}
  <2>1. CorrectionIsDrawn
    BY <1>2 DEF FileAttempt, CorrectionIsDrawn
  <2>2. views = cmd.from /\ cmd.seen \subseteq {cmd.from}
    BY <1>1, <1>2, <2>1 DEF Reads, ReadSoFar
  <2> QED BY <1>1, <1>2, <2>2
<1> QED BY <1>1, <1>2

\* Corrections on file that stay as they are.
LEMMA ReadKept ==
  ASSUME ReadOnFile, \A k \in DOMAIN filed'["correction"] :
                       /\ k \in DOMAIN filed["correction"]
                       /\ filed'["correction"][k].from = filed["correction"][k].from
                       /\ filed'["correction"][k].seen = filed["correction"][k].seen
                       /\ filed'["correction"][k].disturbed = filed["correction"][k].disturbed
  PROVE  ReadOnFile'
BY DEF ReadOnFile

\* Every step keeps what is known of the reads of a correction.
LEMMA ReadsStep == Sound /\ Reads /\ [Next]_vars => Reads'
<1> SUFFICES ASSUME Sound, Reads, [Next]_vars PROVE Reads'
  OBVIOUS
<1>1. CASE BeginDraw
  <2>1. filed' = filed /\ views' = views
    BY <1>1, Staying DEF BeginDraw
  <2>2. PICK made, from :
          /\ from = Source(cmd.stage)
          /\ \/ cmd' = [cmd EXCEPT !.pc = "drawing", !.existing = made, !.from = from, !.seen = {}]
             \/ cmd' = NoCommand
    BY <1>1 DEF BeginDraw
  <2>3. cmd'.stage = "correction" => cmd'.pc = "idle" \/ (cmd'.from = views /\ cmd'.seen = {})
    <3>1. CASE cmd' = NoCommand
      BY <3>1 DEF NoCommand
    <3>2. CASE cmd' = [cmd EXCEPT !.pc = "drawing", !.existing = made, !.from = from, !.seen = {}]
      <4>1. cmd'.stage = cmd.stage /\ cmd'.from = from /\ cmd'.seen = {}
        BY <3>2 DEF Sound, CommandTypes, CommandOf
      <4> QED BY <2>2, <4>1 DEF Source
    <3> QED BY <2>2, <3>1, <3>2
  <2>4. ReadSoFar'
    BY <2>1, <2>3 DEF ReadSoFar, CorrectionIsDrawn
  <2> QED BY <2>1, <2>4, ReadKept DEF Reads
<1>2. CASE ReadViews
  <2>1. /\ filed' = filed /\ views' = views /\ disturbed' = disturbed
        /\ CorrectionIsDrawn /\ cmd' = [cmd EXCEPT !.seen = {views}]
    BY <1>2, Staying DEF ReadViews
  <2>2. cmd'.from = cmd.from /\ cmd'.seen = {views}
    BY <2>1 DEF Sound, CommandTypes, CommandOf
  <2>3. ReadSoFar'
    BY <2>1, <2>2 DEF Reads, ReadSoFar
  <2> QED BY <2>1, <2>3, ReadKept DEF Reads
<1>3. CASE \E passed \in BOOLEAN : FileAttempt(passed)
  <2>1. PICK passed \in BOOLEAN : FileAttempt(passed)
    BY <1>3
  <2>2. PICK a \in AttemptOf :
          /\ filed' = [filed EXCEPT ![cmd.stage] = Append(@, a)] /\ a.from = cmd.from
          /\ cmd.stage = "correction" /\ ~a.disturbed => a.seen = {a.from}
    BY <2>1, FiledReads
  <2>3. cmd.pc = "drawing" /\ cmd.stage \in Stage
    BY <2>1, RunningStage DEF FileAttempt, Sound
  <2>4. /\ \A t \in Stage : \A k \in DOMAIN filed[t] : k \in DOMAIN filed'[t] /\ filed'[t][k] = filed[t][k]
        /\ \A t \in Stage : \A k \in DOMAIN filed'[t] :
             k \in DOMAIN filed[t] \/ (t = cmd.stage /\ k = Existing(cmd.stage) + 1)
        /\ filed'[cmd.stage][Existing(cmd.stage) + 1] = a
    BY <2>2, <2>3, AppendFiled DEF Sound
  <2>5. ReadOnFile'
    <3> SUFFICES ASSUME NEW k \in DOMAIN filed'["correction"], ~filed'["correction"][k].disturbed
                 PROVE  filed'["correction"][k].seen = {filed'["correction"][k].from}
      BY DEF ReadOnFile
    <3>1. CASE k \in DOMAIN filed["correction"]
      BY <2>4, <3>1, StageFacts DEF Reads, ReadOnFile
    <3>2. CASE cmd.stage = "correction" /\ k = Existing(cmd.stage) + 1
      BY <2>2, <2>4, <3>2
    <3> QED BY <2>4, <3>1, <3>2, StageFacts
  <2>6. cmd'.pc \in {"decided", "redraw"}
    <3>1. CASE passed
      BY <2>1, <3>1 DEF FileAttempt, Sound, CommandTypes, CommandOf
    <3>2. CASE ~passed
      BY <2>1, <2>3, <3>2, BlockedSound DEF FileAttempt
    <3> QED BY <3>1, <3>2
  <2> QED BY <2>5, <2>6 DEF Reads, ReadSoFar, CorrectionIsDrawn
<1>4. CASE Reread \/ \E passed \in BOOLEAN : Merge(passed)
  <2>1. cmd' = cmd /\ (UNCHANGED <<views, disturbed>> \/ disturbed' = (disturbed \/ CorrectionIsDrawn))
    BY <1>4 DEF Reread, Merge, Replace
  <2>2. filed'["correction"] = filed["correction"]
    BY <1>4, StageFacts DEF Reread, Merge, Sound, DiskTypes
  <2>3. ReadSoFar'
    BY <2>1 DEF Reads, ReadSoFar, CorrectionIsDrawn
  <2> QED BY <2>2, <2>3, ReadKept DEF Reads
<1>5. CASE \E s \in Judged, v \in Verdict : Judge(s, v)
  <2>1. PICK s \in Judged, v \in Verdict : Judge(s, v)
    BY <1>5
  <2>2. s \in Stage /\ accepted[s] # 0 /\ filed' = [filed EXCEPT ![s][accepted[s]].verdict = v]
    BY <2>1, StageFacts DEF Judge
  <2>3. accepted[s] \in DOMAIN filed[s]
    BY <2>2, OnFile DEF Sound
  <2>4. \A t \in Stage : DOMAIN filed'[t] = DOMAIN filed[t]
          /\ \A j \in DOMAIN filed[t] :
               /\ filed'[t][j].from = filed[t][j].from
               /\ filed'[t][j].seen = filed[t][j].seen /\ filed'[t][j].disturbed = filed[t][j].disturbed
    BY <2>2, <2>3, VerdictFiled DEF Sound
  <2>5. ReadOnFile'
    BY <2>4, StageFacts, ReadKept DEF Reads
  <2>6. UNCHANGED <<cmd, views, disturbed>>
    BY <2>1 DEF Judge, Aside
  <2> QED BY <2>5, <2>6 DEF Reads, ReadSoFar, CorrectionIsDrawn
<1>6. CASE ApproveGeometry \/ (\E s \in ReviewStages : ApproveReview(s)) \/ UNCHANGED vars
  <2>1. UNCHANGED <<filed, cmd, views, disturbed>>
    BY <1>6 DEF ApproveGeometry, ApproveReview, Aside, vars
  <2> QED BY <2>1, ReadKept DEF Reads, ReadSoFar, CorrectionIsDrawn
<1>7. CASE \/ DecideWithoutDraw \/ BudgetSpent \/ Save \/ EndRun \/ FlowPasses \/ FlowShowsGeometry
           \/ FlowRoutes \/ FlowStops \/ Kill
           \/ \E from \in InReach \cup {"auto"}, auto \in BOOLEAN : Flow(from, auto)
           \/ \E s \in InReach, force \in BOOLEAN : Run(s, force)
           \/ \E s \in InReach : Resample(s)
  <2>1. cmd'.pc \notin {"redraw", "drawing"} /\ filed' = filed
    BY <1>7, NotDrawing
  <2> QED BY <2>1, ReadKept DEF Reads, ReadSoFar, CorrectionIsDrawn
<1> QED BY <1>1, <1>2, <1>3, <1>4, <1>5, <1>6, <1>7 DEF Next, Step, Command

\* At the beginning no correction was drawn.
LEMMA ReadsInit == Init => Reads
<1> SUFFICES ASSUME Init PROVE Reads
  OBVIOUS
<1>1. cmd.pc = "idle" /\ filed["correction"] = <<>>
  BY StageFacts DEF Init, NoCommand
<1> QED BY <1>1 DEF Reads, ReadSoFar, ReadOnFile, CorrectionIsDrawn

-----------------------------------------------------------------------------
(* The order of the stages.                                                    *)

\* Attempts are never changed but for their verdict.
FilesKept ==
  \A t \in Stage : \A k \in DOMAIN filed[t] :
    /\ k \in DOMAIN filed'[t]
    /\ filed'[t][k].passed = filed[t][k].passed /\ filed'[t][k].from = filed[t][k].from
    /\ filed'[t][k].seen = filed[t][k].seen /\ filed'[t][k].disturbed = filed[t][k].disturbed

\* What an attempt was drawn from changes only with a pointer before it.
LEMMA FreshKept ==
  ASSUME Sound, FilesKept, NEW t \in Stage, NEW k \in DOMAIN filed[t], DrawnFrom(t, k),
         \A u \in Stage : Position(u) < Position(t) => accepted'[u] = accepted[u]
  PROVE  DrawnFrom(t, k)'
<1>1. /\ filed'[t][k].from = filed[t][k].from
      /\ filed'[t][k].seen = filed[t][k].seen /\ filed'[t][k].disturbed = filed[t][k].disturbed
  BY DEF FilesKept
<1>2. CASE t = "reading"
  BY <1>2 DEF DrawnFrom
<1>3. CASE t = "correction"
  <2> DEFINE r == accepted["reading"]
  <2>1. /\ r # 0 /\ filed[t][k].from = filed["reading"][r].from
        /\ ~filed[t][k].disturbed => filed[t][k].seen = {filed[t][k].from}
    BY <1>3 DEF DrawnFrom, Version
  <2>2. accepted'["reading"] = r
    BY <1>3, StageFacts
  <2>3. filed'["reading"][r].from = filed["reading"][r].from
    BY <2>1, OnFile, StageFacts DEF Sound, FilesKept
  <2> QED BY <1>1, <1>3, <2>1, <2>2, <2>3 DEF DrawnFrom, Version
<1>4. CASE t \notin {"reading", "correction"}
  <2>1. filed[t][k].from = accepted["correction"] /\ \A d \in DependsOn(t) : accepted[d] # 0
    BY <1>4 DEF DrawnFrom
  <2>2. accepted'["correction"] = accepted["correction"]
    BY <1>4, StageFacts
  <2>3. \A d \in DependsOn(t) : accepted'[d] # 0
    BY <2>1, Needs
  <2> QED BY <1>1, <1>4, <2>1, <2>2, <2>3 DEF DrawnFrom
<1> QED BY <1>2, <1>3, <1>4

Fresh == \A s \in Stage : accepted[s] # 0 => DrawnFrom(s, accepted[s])

\* Nothing stands on a stage that is not accepted.
LEMMA Upstream ==
  ASSUME Fresh, NEW s \in Stage, accepted[s] # 0
  PROVE  \A t \in Stage : Position(t) <= Position(s) => accepted[t] # 0
<1>1. /\ accepted["intakeoutput"] # 0 => accepted["mep"] # 0
      /\ accepted["mep"] # 0 => accepted["split_pairing"] # 0
      /\ accepted["split_pairing"] # 0 => accepted["modelling"] # 0
      /\ accepted["modelling"] # 0 => accepted["correction"] # 0
      /\ accepted["correction"] # 0 => accepted["reading"] # 0
  BY StageFacts DEF Fresh, DrawnFrom, DependsOn
<1> QED BY <1>1, StageFacts

\* So nothing is accepted behind one that is not.
LEMMA Closed ==
  ASSUME Fresh, NEW s \in Stage, accepted[s] = 0
  PROVE  NothingBehind(s)
<1> SUFFICES ASSUME NEW t \in Downstream(s), accepted[t] # 0 PROVE FALSE
  BY DEF NothingBehind
<1>1. t \in Stage /\ Position(s) <= Position(t)
  BY Places DEF Downstream
<1> QED BY <1>1, Upstream

\* Before the stage that is drawn everything is accepted.
LEMMA NeedsMet ==
  ASSUME Fresh, NEW s \in Stage, \A d \in DependsOn(s) : accepted[d] # 0
  PROVE  \A t \in Stage : Position(t) < Position(s) => accepted[t] # 0
<1> SUFFICES ASSUME NEW t \in Stage, Position(t) < Position(s) PROVE accepted[t] # 0
  OBVIOUS
<1>1. PICK d \in DependsOn(s) : Position(t) <= Position(d)
  BY Needs
<1>2. d \in Stage /\ accepted[d] # 0
  BY <1>1, Needs
<1> QED BY <1>1, <1>2, Upstream

\* Pointers that stay, with what they point at.
LEMMA FreshSame ==
  ASSUME Sound, Fresh, FilesKept, \A s \in Stage : accepted'[s] = accepted[s]
  PROVE  Fresh'
<1> SUFFICES ASSUME NEW s \in Stage, accepted'[s] # 0 PROVE DrawnFrom(s, accepted[s])'
  BY DEF Fresh
<1> DEFINE k == accepted[s]
<1>1. k \in DOMAIN filed[s] /\ DrawnFrom(s, k)
  BY OnFile DEF Sound, Fresh
<1>2. accepted'[s] = k
  OBVIOUS
<1> HIDE DEF k
<1>3. PICK j : j = k
  OBVIOUS
<1>4. DrawnFrom(s, j)'
  BY <1>1, <1>3, FreshKept
<1> QED BY <1>2, <1>3, <1>4 DEF DrawnFrom, Version

\* Corrections on file stay drawn from gated views.
LEMMA GatedViewsKept ==
  ASSUME Sound, FilesKept, GatedViews,
         DOMAIN filed'["correction"] = DOMAIN filed["correction"]
  PROVE  GatedViews'
<1> SUFFICES ASSUME NEW k \in DOMAIN filed["correction"]
             PROVE  \E j \in DOMAIN filed'["reading"] :
                      filed'["reading"][j].passed /\ filed'["reading"][j].from = filed'["correction"][k].from
  BY DEF GatedViews
<1>1. PICK j \in DOMAIN filed["reading"] :
        filed["reading"][j].passed /\ filed["reading"][j].from = filed["correction"][k].from
  BY DEF GatedViews
<1> QED BY <1>1, StageFacts DEF FilesKept

\* A command that ended keeps the order.
LEMMA EndedOrder ==
  ASSUME Sound, Order, cmd' = NoCommand, UNCHANGED <<filed, accepted>>
  PROVE  Order'
<1>1. cmd'.pc = "idle" /\ cmd'.force = {}
  BY DEF NoCommand
<1>2. FilesKept
  BY DEF FilesKept
<1>3. Fresh'
  BY <1>2, FreshSame DEF Order, Fresh
<1>4. GatedViews'
  BY <1>2, GatedViewsKept DEF Order
<1> QED BY <1>1, <1>3, <1>4 DEF Order, Fresh, InStep

\* Commands that only look, approve, judge or re-read keep it.
LEMMA AsideOrder ==
  ASSUME Sound, Order, FilesKept, DOMAIN filed'["correction"] = DOMAIN filed["correction"],
         UNCHANGED <<accepted, cmd>>
  PROVE  Order'
<1>1. Fresh'
  BY FreshSame DEF Order, Fresh
<1>2. GatedViews'
  BY GatedViewsKept DEF Order
<1>3. (cmd.pc # "idle" => \A d \in DependsOn(cmd.stage) : accepted[d] # 0)'
  BY DEF Order
<1>4. (cmd.pc \in InStep \/ (cmd.pc = "decided" /\ cmd.stage # "reading") =>
         cmd.manifest["reading"] = accepted["reading"])'
  BY DEF Order
<1>5. (cmd.pc \in {"redraw", "drawing"} \/ cmd.force # {} => NothingBehind(cmd.stage))'
  BY DEF Order, NothingBehind
<1>6. (cmd.pc = "decided" =>
         \/ cmd.manifest[cmd.stage] = accepted[cmd.stage]
         \/ /\ cmd.manifest[cmd.stage] # 0 /\ NothingBehind(cmd.stage)
            /\ DrawnFrom(cmd.stage, cmd.manifest[cmd.stage]))'
  <2> SUFFICES ASSUME cmd.pc = "decided", cmd.manifest[cmd.stage] # accepted[cmd.stage]
               PROVE  /\ cmd.manifest[cmd.stage] # 0 /\ NothingBehind(cmd.stage)'
                      /\ DrawnFrom(cmd.stage, cmd.manifest[cmd.stage])'
    OBVIOUS
  <2>1. cmd.stage \in Stage /\ cmd.manifest[cmd.stage] \in Nat
    BY RunningStage DEF Sound
  <2>2. PICK s \in Stage, k \in Nat : s = cmd.stage /\ k = cmd.manifest[cmd.stage]
    BY <2>1
  <2>3. k # 0 /\ NothingBehind(s) /\ DrawnFrom(s, k)
    BY <2>2 DEF Order
  <2>4. k <= Existing(s)
    BY <2>2 DEF Sound, Manifests
  <2>5. k \in DOMAIN filed[s]
    BY <2>3, <2>4, OnFile DEF Sound
  <2>6. DrawnFrom(s, k)'
    BY <2>3, <2>5, FreshKept
  <2>7. \A t \in Downstream(s) : accepted'[t] = 0
    BY <2>3 DEF NothingBehind
  <2>8. NothingBehind(cmd.stage)'
    BY <2>2, <2>7 DEF NothingBehind
  <2>9. DrawnFrom(cmd.stage, cmd.manifest[cmd.stage])'
    BY <2>2, <2>6 DEF DrawnFrom, Version
  <2> QED BY <2>2, <2>3, <2>8, <2>9
<1>7. (cmd.pc = "drawing" =>
         /\ cmd.stage = "correction" => cmd.from = Version("reading", accepted["reading"])
         /\ cmd.stage \notin {"reading", "correction"} => cmd.from = accepted["correction"])'
  <2> SUFFICES ASSUME cmd.pc = "drawing", cmd.stage = "correction"
               PROVE  cmd.from = filed'["reading"][accepted["reading"]].from
    BY DEF Order, Version
  <2>1. accepted["reading"] # 0 /\ cmd.from = filed["reading"][accepted["reading"]].from
    BY DEF Order, Version, DependsOn
  <2>2. accepted["reading"] \in DOMAIN filed["reading"]
    BY <2>1, OnFile, StageFacts DEF Sound
  <2> QED BY <2>1, <2>2, StageFacts DEF FilesKept
<1> QED BY <1>1, <1>2, <1>3, <1>4, <1>5, <1>6, <1>7 DEF Order, Fresh

\* A command that goes on to look at a stage whose needs are met keeps it.
LEMMA LookedOrder ==
  ASSUME Sound, Order, NEW s \in Stage, cmd.pc = "saved", LookAt(s),
         UNCHANGED <<filed, accepted>>, \A d \in DependsOn(s) : accepted[d] # 0
  PROVE  Order'
<1>1. /\ cmd'.pc = "look" /\ cmd'.stage = s /\ cmd'.manifest = cmd.manifest /\ cmd'.force = cmd.force
  BY Looks DEF Sound
<1>2. cmd.force = {}
  BY DEF Sound, Running
<1>3. FilesKept
  BY DEF FilesKept
<1>4. Fresh'
  BY <1>3, FreshSame DEF Order, Fresh
<1>5. GatedViews'
  BY <1>3, GatedViewsKept DEF Order
<1>6. cmd.manifest["reading"] = accepted["reading"]
  BY DEF Order, InStep
<1> QED BY <1>1, <1>2, <1>4, <1>5, <1>6 DEF Order, Fresh, InStep

\* The manifest in memory is the saved one before the stage is decided.
LEMMA ManifestIsSaved ==
  ASSUME Sound, Order, cmd.pc \in InStep, NEW t \in Stage
  PROVE  cmd.manifest[t] = accepted[t]
BY DEF Sound, Manifests, Order

\* A command that decides without a draw keeps it.
LEMMA DecidedOrder ==
  ASSUME Sound, Order, NEW o \in Outcomes, cmd.pc \in InStep, Decide(o),
         UNCHANGED <<filed, accepted>>
  PROVE  Order'
<1>1. /\ cmd'.pc = "decided" /\ cmd'.stage = cmd.stage /\ cmd'.manifest = cmd.manifest
      /\ cmd'.force = cmd.force
  BY Decides DEF Sound
<1>2. FilesKept
  BY DEF FilesKept
<1>3. Fresh'
  BY <1>2, FreshSame DEF Order, Fresh
<1>4. GatedViews'
  BY <1>2, GatedViewsKept DEF Order
<1>5. cmd.stage \in Stage /\ cmd.pc # "idle"
  BY RunningStage DEF Sound, InStep
<1>6. cmd.manifest[cmd.stage] = accepted[cmd.stage] /\ cmd.manifest["reading"] = accepted["reading"]
  BY <1>5, ManifestIsSaved, StageFacts
<1>7. (cmd.pc \in {"redraw", "drawing"} \/ cmd.force # {} => NothingBehind(cmd.stage))'
  BY <1>1 DEF Order, NothingBehind
<1> QED BY <1>1, <1>3, <1>4, <1>5, <1>6, <1>7 DEF Order, Fresh, InStep

\* A draw begins from what is accepted, with nothing behind its stage.
LEMMA BeginDrawOrder == Sound /\ Order /\ BeginDraw => Order'
<1> SUFFICES ASSUME Sound, Order, BeginDraw PROVE Order'
  OBVIOUS
<1> DEFINE s == cmd.stage
           made == DrawsMade(s) + 1
           from == Source(s)
<1>1. /\ AboutToDraw /\ UNCHANGED <<filed, accepted>>
      /\ \/ Drawable(s) /\ cmd' = [cmd EXCEPT !.pc = "drawing", !.existing = made, !.from = from, !.seen = {}]
         \/ cmd' = NoCommand
  BY Staying DEF BeginDraw
<1>2. CASE cmd' = NoCommand
  BY <1>1, <1>2, EndedOrder
<1>3. CASE Drawable(s) /\ cmd' = [cmd EXCEPT !.pc = "drawing", !.existing = made, !.from = from, !.seen = {}]
  <2>1. /\ cmd'.pc = "drawing" /\ cmd'.stage = s /\ cmd'.from = from /\ cmd'.manifest = cmd.manifest
        /\ cmd'.force = cmd.force
    BY <1>3 DEF Sound, CommandTypes, CommandOf
  <2>2. cmd.pc \in InStep /\ s \in Stage /\ cmd.pc # "idle"
    BY <1>1, RunningStage DEF Sound, AboutToDraw, InStep
  <2>3. \A d \in DependsOn(s) : accepted[d] # 0
    BY <2>2 DEF Order
  <2>4. \A t \in Stage : Position(t) < Position(s) => accepted[t] # 0
    BY <2>2, <2>3, NeedsMet DEF Order, Fresh
  <2>5. NothingBehind(s)
    <3>1. CASE cmd.pc = "redraw" \/ cmd.force # {}
      BY <3>1 DEF Order
    <3>2. CASE cmd.pc = "look" /\ cmd.force = {}
      <4>1. cmd.manifest[s] = 0
        BY <1>1, <3>2 DEF AboutToDraw, NeedsNoDraw
      <4>2. accepted[s] = 0
        BY <2>2, <4>1, ManifestIsSaved
      <4> QED BY <2>2, <4>2, Closed DEF Order, Fresh
    <3> QED BY <1>1, <3>1, <3>2 DEF AboutToDraw
  <2>6. s = "correction" => from = Version("reading", accepted["reading"])
    BY <1>3, <2>4, StageFacts DEF Drawable, ViewsAreAccepted, Source, Version
  <2>7. s \notin {"reading", "correction"} => from = accepted["correction"]
    <3>1. cmd.manifest["correction"] = accepted["correction"]
      BY <2>2, ManifestIsSaved, StageFacts
    <3> QED BY <2>2, <2>4, <3>1, StageFacts DEF Source
  <2>8. cmd.manifest["reading"] = accepted["reading"]
    BY <2>2, ManifestIsSaved, StageFacts
  <2>9. FilesKept
    BY <1>1 DEF FilesKept
  <2>10. Fresh'
    BY <1>1, <2>9, FreshSame DEF Order, Fresh
  <2>11. GatedViews'
    BY <1>1, <2>9, GatedViewsKept DEF Order
  <2> HIDE DEF s, from, made
  <2>12. PICK st \in Stage : st = s
    BY <2>2
  <2>13. (cmd.pc # "idle" => \A d \in DependsOn(cmd.stage) : accepted[d] # 0)'
    BY <1>1, <2>1, <2>3
  <2>14. NothingBehind(cmd.stage)'
    BY <1>1, <2>1, <2>5, <2>12 DEF NothingBehind
  <2>15. (/\ cmd.stage = "correction" => cmd.from = Version("reading", accepted["reading"])
          /\ cmd.stage \notin {"reading", "correction"} => cmd.from = accepted["correction"])'
    BY <1>1, <2>1, <2>6, <2>7 DEF Version
  <2>16. (cmd.manifest["reading"] = accepted["reading"])'
    BY <1>1, <2>1, <2>8
  <2> QED BY <2>1, <2>10, <2>11, <2>13, <2>14, <2>15, <2>16 DEF Order, Fresh
<1> QED BY <1>1, <1>2, <1>3

\* The prompt of a correction is read in the order the draw stands in.
LEMMA ReadViewsOrder == Sound /\ Order /\ ReadViews => Order'
<1> SUFFICES ASSUME Sound, Order, ReadViews PROVE Order'
  OBVIOUS
<1>1. /\ CorrectionIsDrawn /\ cmd' = [cmd EXCEPT !.seen = {views}] /\ UNCHANGED <<filed, accepted>>
  BY DEF ReadViews
<1>2. /\ cmd.pc = "drawing" /\ cmd'.pc = cmd.pc /\ cmd'.stage = cmd.stage /\ cmd'.from = cmd.from
      /\ cmd'.manifest = cmd.manifest /\ cmd'.force = cmd.force
  BY <1>1 DEF CorrectionIsDrawn, Sound, CommandTypes, CommandOf
<1>3. FilesKept
  BY <1>1 DEF FilesKept
<1>4. Fresh'
  BY <1>1, <1>3, FreshSame DEF Order, Fresh
<1>5. GatedViews'
  BY <1>1, <1>3, GatedViewsKept DEF Order
<1>6. NothingBehind(cmd.stage)'
  BY <1>1, <1>2 DEF Order, NothingBehind
<1>7. (/\ cmd.stage = "correction" => cmd.from = Version("reading", accepted["reading"])
       /\ cmd.stage \notin {"reading", "correction"} => cmd.from = accepted["correction"])'
  BY <1>1, <1>2 DEF Order, Version
<1>8. (\A d \in DependsOn(cmd.stage) : accepted[d] # 0)'
  BY <1>1, <1>2 DEF Order
<1>9. (cmd.manifest["reading"] = accepted["reading"])'
  BY <1>1, <1>2 DEF Order, InStep
<1> QED BY <1>2, <1>4, <1>5, <1>6, <1>7, <1>8, <1>9 DEF Order, Fresh

\* A draw is filed as made from what is accepted.
LEMMA FileAttemptOrder ==
  ASSUME Sound, Reads, Order, NEW passed \in BOOLEAN, FileAttempt(passed)
  PROVE  Order'
<1>1. cmd.pc = "drawing" /\ accepted' = accepted
  BY DEF FileAttempt
<1>2. cmd.stage \in Stage /\ cmd.from \in Nat /\ cmd.manifest \in [Stage -> Nat]
  BY <1>1, RunningStage DEF Sound
<1>3. PICK a \in AttemptOf :
        /\ filed' = [filed EXCEPT ![cmd.stage] = Append(@, a)] /\ a.from = cmd.from
        /\ cmd.stage = "correction" /\ ~a.disturbed => a.seen = {a.from}
  BY <1>1, FiledReads
<1>4. PICK s \in Stage, n \in Nat : s = cmd.stage /\ n = Existing(cmd.stage) + 1
  BY <1>2, OnFile DEF Sound
<1>5. /\ \A t \in Stage : \A k \in DOMAIN filed[t] : k \in DOMAIN filed'[t] /\ filed'[t][k] = filed[t][k]
      /\ \A t \in Stage : \A k \in DOMAIN filed'[t] : k \in DOMAIN filed[t] \/ (t = s /\ k = n)
      /\ n \in DOMAIN filed'[s] /\ filed'[s][n] = a
  BY <1>2, <1>3, <1>4, AppendFiled DEF Sound
<1>6. n \in Nat /\ n # 0
  BY <1>2, <1>4, OnFile DEF Sound
<1>7. \/ /\ cmd'.pc = "decided" /\ cmd'.stage = s /\ cmd'.force = cmd.force
         /\ cmd'.manifest = [cmd.manifest EXCEPT ![s] = n]
      \/ /\ cmd'.pc \in {"decided", "redraw"} /\ cmd'.stage = s
         /\ cmd'.manifest = cmd.manifest /\ cmd'.force = cmd.force
  <2>1. cmd \in CommandOf
    BY DEF Sound, CommandTypes
  <2>2. CASE passed
    BY <1>4, <2>1, <2>2 DEF FileAttempt, CommandOf
  <2>3. CASE ~passed
    <3>1. Blocked(cmd.stage)
      BY <2>3 DEF FileAttempt
    <3> QED BY <1>1, <1>4, <3>1, BlockedSound
  <2> QED BY <2>2, <2>3
<1>8. /\ \A d \in DependsOn(s) : accepted[d] # 0
      /\ \A t \in Downstream(s) : accepted[t] = 0
      /\ s = "correction" => cmd.from = filed["reading"][accepted["reading"]].from
      /\ s \notin {"reading", "correction"} => cmd.from = accepted["correction"]
  BY <1>1, <1>4 DEF Order, NothingBehind, Version
<1>9. \A t \in Stage : cmd.manifest[t] = accepted[t]
  BY <1>1, ManifestIsSaved DEF InStep
<1>10. FilesKept
  BY <1>5 DEF FilesKept
<1>11. s = "correction" => /\ accepted["reading"] \in DOMAIN filed["reading"]
                           /\ filed["reading"][accepted["reading"]].passed
  BY <1>8, OnFile, StageFacts DEF DependsOn, Sound, Manifests
<1>12. Fresh'
  BY <1>1, <1>10, FreshSame DEF Order, Fresh
<1>13. GatedViews'
  <2> SUFFICES ASSUME NEW k \in DOMAIN filed'["correction"]
               PROVE  \E j \in DOMAIN filed'["reading"] :
                        filed'["reading"][j].passed /\ filed'["reading"][j].from = filed'["correction"][k].from
    BY DEF GatedViews
  <2>1. CASE k \in DOMAIN filed["correction"]
    <3>1. PICK j \in DOMAIN filed["reading"] :
            filed["reading"][j].passed /\ filed["reading"][j].from = filed["correction"][k].from
      BY <2>1 DEF Order, GatedViews
    <3> QED BY <1>5, <2>1, <3>1, StageFacts
  <2>2. CASE s = "correction" /\ k = n
    <3>1. filed'["correction"][k].from = filed["reading"][accepted["reading"]].from
      BY <1>3, <1>5, <1>8, <2>2
    <3> QED BY <1>5, <1>11, <2>2, <3>1, StageFacts
  <2> QED BY <1>5, <2>1, <2>2, StageFacts
<1>14. (cmd.pc # "idle" => \A d \in DependsOn(cmd.stage) : accepted[d] # 0)'
  BY <1>1, <1>7, <1>8
<1>15. (cmd.pc \in InStep \/ (cmd.pc = "decided" /\ cmd.stage # "reading") =>
          cmd.manifest["reading"] = accepted["reading"])'
  BY <1>1, <1>2, <1>7, <1>9, StageFacts DEF InStep
<1>16. NothingBehind(cmd.stage)'
  BY <1>1, <1>7, <1>8 DEF NothingBehind
<1>17. DrawnFrom(s, n)'
  <2>1. /\ filed'[s][n].from = cmd.from
        /\ s = "correction" /\ ~filed'[s][n].disturbed => filed'[s][n].seen = {filed'[s][n].from}
    BY <1>3, <1>4, <1>5
  <2>2. s = "correction" => /\ accepted["reading"] # 0
                            /\ filed'["reading"][accepted["reading"]] = filed["reading"][accepted["reading"]]
    BY <1>5, <1>8, <1>11, StageFacts DEF DependsOn
  <2> QED BY <1>1, <1>8, <2>1, <2>2 DEF DrawnFrom, Version
<1>18. (cmd.pc = "decided" =>
          \/ cmd.manifest[cmd.stage] = accepted[cmd.stage]
          \/ /\ cmd.manifest[cmd.stage] # 0 /\ NothingBehind(cmd.stage)
             /\ DrawnFrom(cmd.stage, cmd.manifest[cmd.stage]))'
  <2>1. CASE cmd'.manifest = cmd.manifest
    BY <1>1, <1>4, <1>7, <1>9, <2>1
  <2>2. CASE cmd'.manifest = [cmd.manifest EXCEPT ![s] = n]
    <3>1. cmd'.manifest[cmd'.stage] = n /\ cmd'.stage = s
      BY <1>2, <1>4, <1>7, <2>2
    <3>2. DrawnFrom(cmd.stage, cmd.manifest[cmd.stage])'
      BY <1>17, <3>1 DEF DrawnFrom, Version
    <3> QED BY <1>6, <1>16, <3>1, <3>2
  <2> QED BY <1>7, <2>1, <2>2
<1> QED BY <1>7, <1>12, <1>13, <1>14, <1>15, <1>16, <1>18 DEF Order, Fresh

\* What is saved is drawn from what is saved.
LEMMA SaveOrder == Sound /\ Order /\ Save => Order'
<1> SUFFICES ASSUME Sound, Order, Save PROVE Order'
  OBVIOUS
<1>1. /\ cmd.pc = "decided" /\ accepted' = cmd.manifest
      /\ cmd' = [cmd EXCEPT !.pc = "saved", !.force = @ \ {cmd.stage}]
      /\ filed' = filed
  BY DEF Save
<1>2. cmd.stage \in Stage /\ cmd.manifest[cmd.stage] \in Nat
  BY <1>1, RunningStage DEF Sound
<1>3. PICK s \in Stage, k \in Nat : s = cmd.stage /\ k = cmd.manifest[cmd.stage]
  BY <1>2
<1>4. /\ cmd'.pc = "saved" /\ cmd'.stage = s /\ cmd'.manifest = accepted' /\ cmd'.force = {}
  BY <1>1, <1>3 DEF Sound, CommandTypes, CommandOf, Running
<1>5. \A t \in Stage : t # s => accepted'[t] = accepted[t]
  BY <1>1, <1>3, StageFacts DEF Sound, Manifests, Order
<1>6. accepted'[s] = k
  BY <1>1, <1>3
<1>7. k = accepted[s] \/ (k # 0 /\ (\A t \in Downstream(s) : accepted[t] = 0) /\ DrawnFrom(s, k))
  BY <1>1, <1>3 DEF Order, NothingBehind
<1>8. FilesKept
  BY <1>1 DEF FilesKept
<1>9. Fresh'
  <2>1. CASE k = accepted[s]
    BY <1>5, <1>6, <1>8, <2>1, FreshSame DEF Order, Fresh
  <2>2. CASE k # 0 /\ (\A t \in Downstream(s) : accepted[t] = 0) /\ DrawnFrom(s, k)
    <3> SUFFICES ASSUME NEW t \in Stage, accepted'[t] # 0 PROVE DrawnFrom(t, accepted[t])'
      BY DEF Fresh
    <3>1. PICK j : j = accepted'[t]
      OBVIOUS
    <3>2. Position(t) <= Position(s)
      BY <1>5, <2>2, Places DEF Downstream
    <3>3. DrawnFrom(t, j)
      BY <1>5, <1>6, <2>2, <3>1 DEF Order
    <3>4. j \in DOMAIN filed[t]
      <4>1. CASE t = s
        <5>1. k <= Existing(s)
          BY <1>3 DEF Sound, Manifests
        <5> QED BY <1>6, <2>2, <3>1, <4>1, <5>1, OnFile DEF Sound
      <4>2. CASE t # s
        BY <1>5, <3>1, <4>2, OnFile DEF Sound
      <4> QED BY <4>1, <4>2
    <3>5. \A u \in Stage : Position(u) < Position(t) => accepted'[u] = accepted[u]
      BY <1>5, <3>2, Places
    <3>6. DrawnFrom(t, j)'
      BY <1>8, <3>3, <3>4, <3>5, FreshKept
    <3> QED BY <3>1, <3>6 DEF DrawnFrom, Version
  <2> QED BY <1>7, <2>1, <2>2
<1>10. GatedViews'
  BY <1>1, <1>8, GatedViewsKept DEF Order
<1>11. \A d \in DependsOn(s) : accepted'[d] # 0
  <2>1. \A d \in DependsOn(s) : d \in Stage /\ d # s /\ accepted[d] # 0
    BY <1>1, <1>3, Needs, Places DEF Order
  <2> QED BY <1>5, <2>1
<1> QED BY <1>4, <1>9, <1>10, <1>11 DEF Order, Fresh

\* Dropping what hangs on a stage keeps the rest fresh.
LEMMA InvalidatedFresh ==
  ASSUME Sound, Fresh, NEW s \in Stage, filed' = filed,
         \A t \in Stage : accepted'[t] = IF t \in Downstream(s) THEN 0 ELSE accepted[t]
  PROVE  Fresh' /\ \A t \in Downstream(s) : accepted'[t] = 0
<1>1. FilesKept
  BY DEF FilesKept
<1>2. \A t \in Downstream(s) : accepted'[t] = 0
  BY DEF Downstream
<1>3. Fresh'
  <2> SUFFICES ASSUME NEW t \in Stage, accepted'[t] # 0 PROVE DrawnFrom(t, accepted[t])'
    BY DEF Fresh
  <2>1. PICK j : j = accepted'[t]
    OBVIOUS
  <2>2. j = accepted[t] /\ t \notin Downstream(s) /\ j # 0
    BY <2>1
  <2>3. DrawnFrom(t, j) /\ j \in DOMAIN filed[t]
    BY <2>2, OnFile DEF Fresh, Sound
  <2>4. \A u \in Stage : Position(u) < Position(t) => accepted'[u] = accepted[u]
    BY <2>2, Places DEF Downstream
  <2>5. DrawnFrom(t, j)'
    BY <1>1, <2>3, <2>4, FreshKept
  <2> QED BY <2>1, <2>5 DEF DrawnFrom, Version
<1> QED BY <1>2, <1>3

\* A command starts at a stage whose needs are met.
LEMMA StartOrder ==
  ASSUME Sound, Order, NEW kind \in {"flow", "resample"}, NEW s \in InReach, NEW force \in SUBSET Stage,
         NEW auto \in BOOLEAN, Start(kind, s, force, auto, accepted'), filed' = filed,
         \/ accepted' = accepted /\ force = {}
         \/ accepted' = Invalidated(accepted, s),
         \A d \in DependsOn(s) : accepted[d] # 0
  PROVE  Order'
<1>1. s \in Stage /\ accepted \in [Stage -> Nat]
  BY Reach DEF Sound, DiskTypes
<1>2. \/ /\ accepted' = accepted /\ force = {}
      \/ \A t \in Stage : accepted'[t] = IF t \in Downstream(s) THEN 0 ELSE accepted[t]
  BY <1>1, InvalidatedTypes
<1>3. accepted' \in [Stage -> Nat]
  BY <1>1, InvalidatedTypes
<1>4. /\ cmd'.pc = "look" /\ cmd'.stage = s /\ cmd'.manifest = accepted' /\ cmd'.force = force
  BY <1>1, <1>3, Starts
<1>5. FilesKept
  BY DEF FilesKept
<1>6. Fresh' /\ (force = {} \/ \A t \in Downstream(s) : accepted'[t] = 0)
  <2>1. CASE accepted' = accepted /\ force = {}
    BY <1>5, <2>1, FreshSame DEF Order, Fresh
  <2>2. CASE \A t \in Stage : accepted'[t] = IF t \in Downstream(s) THEN 0 ELSE accepted[t]
    BY <1>1, <2>2, InvalidatedFresh DEF Order, Fresh
  <2> QED BY <1>2, <2>1, <2>2
<1>7. \A d \in DependsOn(s) : accepted'[d] # 0
  <2>1. \A d \in DependsOn(s) : d \in Stage /\ d \notin Downstream(s)
    <3> SUFFICES ASSUME NEW d \in DependsOn(s) PROVE d \in Stage /\ d \notin Downstream(s)
      OBVIOUS
    <3>1. d \in Stage /\ Position(d) < Position(s)
      BY <1>1, Needs
    <3>2. Position(d) \in 1..6 /\ Position(s) \in 1..6
      BY <1>1, <3>1, Places
    <3> QED BY <3>1, <3>2 DEF Downstream
  <2> QED BY <1>2, <2>1
<1>8. GatedViews'
  BY <1>5, GatedViewsKept DEF Order
<1>9. (cmd.pc \in {"redraw", "drawing"} \/ cmd.force # {} => NothingBehind(cmd.stage))'
  BY <1>4, <1>6 DEF NothingBehind
<1> QED BY <1>4, <1>6, <1>7, <1>8, <1>9 DEF Order, Fresh

\* A passed stage meets the needs of the next one.
LEMMA NextNeeds ==
  ASSUME NEW s \in Stage, s # "intakeoutput"
  PROVE  DependsOn(Pipeline[Position(s) + 1]) \subseteq {s} \cup DependsOn(s)
<1>1. /\ Pipeline[2] = "correction" /\ Pipeline[3] = "modelling"
      /\ Pipeline[4] = "split_pairing" /\ Pipeline[5] = "mep" /\ Pipeline[6] = "intakeoutput"
  BY DEF Pipeline
<1> QED BY <1>1, StageFacts DEF DependsOn

\* The flow goes on in order.
LEMMA FlowPassesOrder == Sound /\ Order /\ FlowPasses => Order'
<1> SUFFICES ASSUME Sound, Order, FlowPasses PROVE Order'
  OBVIOUS
<1>1. /\ FlowStep /\ cmd.outcome \in Passed /\ UNCHANGED <<filed, accepted>>
      /\ cmd' = NoCommand \/ (cmd.stage # LastStage /\ LookAt(Pipeline[Position(cmd.stage) + 1]))
  BY Staying DEF FlowPasses
<1>2. cmd.pc = "saved" /\ cmd.stage \in Stage /\ cmd.stage \in InReach
  BY <1>1, FlowStepStage
<1>3. CASE cmd' = NoCommand
  BY <1>1, <1>3, EndedOrder
<1>4. CASE cmd.stage # LastStage /\ LookAt(Pipeline[Position(cmd.stage) + 1])
  <2>1. PICK s \in Stage, n \in Stage : s = cmd.stage /\ n = Pipeline[Position(s) + 1]
    BY <1>2, <1>4, NextStage, Reach
  <2>2. s # "intakeoutput"
    <3>1. Position(s) # Position(LastStage) /\ Position(s) <= Position(LastStage) /\ LastStage \in Stage
      BY <1>2, <1>4, <2>1, Places, Reach DEF InReach
    <3> QED BY <2>1, <3>1, Places, StageFacts
  <2>3. accepted[s] # 0
    BY <1>1, <1>2, <2>1, ManifestIsSaved DEF Sound, Manifests, InStep
  <2>4. \A d \in DependsOn(n) : accepted[d] # 0
    BY <1>2, <2>1, <2>2, <2>3, NextNeeds DEF Order
  <2>5. LookAt(n)
    BY <1>4, <2>1
  <2> QED BY <1>1, <1>2, <2>4, <2>5, LookedOrder
<1> QED BY <1>1, <1>3, <1>4

\* The flow looks at the stage again, or ends.
LEMMA FlowShowsOrder == Sound /\ Order /\ FlowShowsGeometry => Order'
<1> SUFFICES ASSUME Sound, Order, FlowShowsGeometry PROVE Order'
  OBVIOUS
<1>1. /\ FlowStep /\ UNCHANGED <<filed, accepted>> /\ (cmd' = NoCommand \/ LookAt(cmd.stage))
  BY DEF FlowShowsGeometry
<1>2. cmd.pc = "saved" /\ cmd.stage \in Stage
  BY <1>1, FlowStepStage
<1>3. PICK s \in Stage : s = cmd.stage
  BY <1>2
<1>4. \A d \in DependsOn(s) : accepted[d] # 0
  BY <1>2, <1>3 DEF Order
<1>5. CASE LookAt(cmd.stage)
  <2>1. LookAt(s)
    BY <1>3, <1>5
  <2> QED BY <1>1, <1>2, <1>4, <2>1, LookedOrder
<1> QED BY <1>1, <1>5, EndedOrder

\* The flow is sent to a root stage whose needs are met, with everything behind
\* it dropped.
LEMMA FlowRoutesOrder == Sound /\ Order /\ FlowRoutes /\ ~strayed' => Order'
<1> SUFFICES ASSUME Sound, Order, FlowRoutes, ~strayed' PROVE Order'
  OBVIOUS
<1>1. /\ FlowStep /\ filed' = filed
      /\ \/ /\ cmd.target \in InReach /\ RouteTo(cmd.target) /\ ~OutOfTurn(cmd.target)
            /\ accepted' = Invalidated(cmd.manifest, cmd.target)
         \/ cmd' = NoCommand /\ accepted' = accepted
  BY DEF FlowRoutes
<1>2. cmd.pc = "saved"
  BY <1>1, FlowStepStage
<1>3. CASE cmd' = NoCommand /\ accepted' = accepted
  BY <1>1, <1>3, EndedOrder
<1>4. CASE /\ cmd.target \in InReach /\ RouteTo(cmd.target) /\ ~OutOfTurn(cmd.target)
           /\ accepted' = Invalidated(cmd.manifest, cmd.target)
  <2>1. PICK s \in Stage : s = cmd.target /\ s \in InReach
    BY <1>4, Reach
  <2>2. cmd.manifest \in [Stage -> Nat]
    BY DEF Sound, CommandTypes, CommandOf
  <2>3. \A t \in Stage : cmd.manifest[t] = accepted[t]
    BY <1>2, ManifestIsSaved DEF InStep
  <2>4. \A t \in Stage : accepted'[t] = IF t \in Downstream(s) THEN 0 ELSE accepted[t]
    BY <1>4, <2>1, <2>2, <2>3, InvalidatedTypes
  <2>5. Fresh' /\ \A t \in Downstream(s) : accepted'[t] = 0
    BY <1>1, <2>4, InvalidatedFresh DEF Order, Fresh
  <2>6. RouteTo(s)
    BY <1>4, <2>1
  <2>7. cmd'.pc = "look" /\ cmd'.stage = s /\ cmd'.manifest = Invalidated(cmd.manifest, s)
    BY <2>6, Routes DEF Sound
  <2>8. cmd'.manifest = accepted'
    BY <1>4, <2>1, <2>7
  <2>9. \A d \in DependsOn(s) : accepted'[d] # 0
    <3> SUFFICES ASSUME NEW d \in DependsOn(s) PROVE accepted'[d] # 0
      OBVIOUS
    <3>1. d \in Stage /\ Position(d) < Position(s) /\ accepted[d] # 0
      BY <1>4, <2>1, Needs DEF OutOfTurn
    <3>2. Position(d) \in 1..6 /\ Position(s) \in 1..6
      BY <3>1, Places
    <3>3. d \notin Downstream(s)
      BY <3>1, <3>2 DEF Downstream
    <3> QED BY <2>4, <3>1, <3>3
  <2>10. GatedViews'
    <3>1. FilesKept
      BY <1>1 DEF FilesKept
    <3> QED BY <1>1, <3>1, GatedViewsKept DEF Order
  <2>11. NothingBehind(cmd.stage)'
    BY <2>5, <2>7 DEF NothingBehind
  <2>12. (\A d \in DependsOn(cmd.stage) : accepted[d] # 0)'
    BY <2>7, <2>9
  <2> QED BY <2>5, <2>7, <2>8, <2>10, <2>11, <2>12 DEF Order, Fresh
<1> QED BY <1>1, <1>3, <1>4

\* Every step keeps the order, as long as nothing is run out of turn.
LEMMA OrderStep == Sound /\ Reads /\ Order /\ [Next]_vars /\ ~strayed' => Order'
<1> SUFFICES ASSUME Sound, Reads, Order, [Next]_vars, ~strayed' PROVE Order'
  OBVIOUS
<1>1. CASE DecideWithoutDraw \/ BudgetSpent
  <2>1. PICK o : Decide(o) /\ UNCHANGED <<filed, accepted>>
    BY <1>1 DEF DecideWithoutDraw, BudgetSpent
  <2>2. cmd.pc \in InStep
    BY <1>1 DEF DecideWithoutDraw, BudgetSpent, AboutToDraw, InStep
  <2>3. Sound'
    BY <1>1, DecideWithoutDrawSound, BudgetSpentSound
  <2>4. cmd'.outcome = o.status /\ cmd'.target = o.target /\ cmd' \in CommandOf
    BY <2>1, <2>3 DEF Decide, Sound, CommandTypes, CommandOf
  <2>5. PICK q \in Outcomes : q.status = o.status /\ q.target = o.target
    <3>1. [status |-> o.status, target |-> o.target] \in Outcomes
      BY <2>4 DEF Outcomes, CommandOf
    <3> QED BY <3>1
  <2>6. Decide(q)
    BY <2>1, <2>5 DEF Decide
  <2> QED BY <2>1, <2>2, <2>6, DecidedOrder
<1>2. CASE BeginDraw \/ ReadViews
  BY <1>2, BeginDrawOrder, ReadViewsOrder
<1>3. CASE \E passed \in BOOLEAN : FileAttempt(passed)
  BY <1>3, FileAttemptOrder
<1>4. CASE Save
  BY <1>4, SaveOrder
<1>5. CASE EndRun \/ FlowStops \/ Kill
  <2>1. cmd' = NoCommand /\ UNCHANGED <<filed, accepted>>
    BY <1>5 DEF EndRun, FlowStops, Kill
  <2> QED BY <2>1, EndedOrder
<1>6. CASE FlowPasses \/ FlowShowsGeometry \/ FlowRoutes
  BY <1>6, FlowPassesOrder, FlowShowsOrder, FlowRoutesOrder
<1>7. CASE \E from \in InReach \cup {"auto"}, auto \in BOOLEAN : Flow(from, auto)
  <2>1. PICK s \in InReach, auto \in BOOLEAN :
          /\ Start("flow", s, {}, auto, accepted) /\ accepted' = accepted /\ filed' = filed
          /\ ~OutOfTurn(s)
    BY <1>7, AutoStartIsDue DEF Flow
  <2>2. \A d \in DependsOn(s) : accepted[d] # 0
    BY <2>1 DEF OutOfTurn
  <2>3. Start("flow", s, {}, auto, accepted')
    BY <2>1
  <2> QED BY <2>1, <2>2, <2>3, StartOrder
<1>8. CASE \E s \in InReach : Resample(s)
  <2>1. PICK s \in InReach :
          /\ Start("resample", s, {s}, FALSE, accepted') /\ accepted' = Invalidated(accepted, s)
          /\ filed' = filed /\ ~OutOfTurn(s)
    BY <1>8 DEF Resample
  <2>2. \A d \in DependsOn(s) : accepted[d] # 0
    BY <2>1 DEF OutOfTurn
  <2>3. {s} \in SUBSET Stage
    BY Reach
  <2> QED BY <2>1, <2>2, <2>3, StartOrder
<1>9. CASE (\E s \in InReach, force \in BOOLEAN : Run(s, force)) \/ (\E passed \in BOOLEAN : Merge(passed))
  BY <1>9 DEF Run, Merge
<1>10. CASE \E s \in Judged, v \in Verdict : Judge(s, v)
  <2>1. PICK s \in Judged, v \in Verdict : Judge(s, v)
    BY <1>10
  <2>2. s \in Stage /\ accepted[s] # 0 /\ filed' = [filed EXCEPT ![s][accepted[s]].verdict = v]
    BY <2>1, StageFacts DEF Judge
  <2>3. accepted[s] \in DOMAIN filed[s]
    BY <2>2, OnFile DEF Sound
  <2>4. FilesKept /\ DOMAIN filed'["correction"] = DOMAIN filed["correction"]
    BY <2>2, <2>3, VerdictFiled, StageFacts DEF Sound, FilesKept
  <2> QED BY <2>1, <2>4, AsideOrder DEF Judge, Aside
<1>11. CASE ApproveGeometry \/ (\E s \in ReviewStages : ApproveReview(s)) \/ Reread \/ UNCHANGED vars
  <2>1. UNCHANGED <<filed, accepted, cmd>>
    BY <1>11 DEF ApproveGeometry, ApproveReview, Reread, Aside, vars
  <2>2. FilesKept
    BY <2>1 DEF FilesKept
  <2> QED BY <2>1, <2>2, AsideOrder
<1> QED BY <1>1, <1>2, <1>3, <1>4, <1>5, <1>6, <1>7, <1>8, <1>9, <1>10, <1>11 DEF Next, Step, Command

\* What was run out of turn stays so.
LEMMA StrayedStays == Sound /\ [Next]_vars /\ ~strayed' => ~strayed
<1> SUFFICES ASSUME Sound, [Next]_vars, strayed PROVE strayed'
  OBVIOUS
<1>1. CASE Step
  BY <1>1, Staying DEF Step, DecideWithoutDraw, BudgetSpent, BeginDraw, ReadViews, FileAttempt, Save, EndRun,
     FlowPasses, FlowShowsGeometry, FlowRoutes, FlowStops
<1>2. CASE Command
  BY <1>2 DEF Command, Flow, Run, Resample, Judge, ApproveGeometry, ApproveReview, Reread, Merge
<1>3. CASE Kill \/ UNCHANGED vars
  BY <1>3 DEF Kill, vars
<1> QED BY <1>1, <1>2, <1>3 DEF Next

\* At the beginning nothing is accepted.
LEMMA OrderInit == Init => Order
<1> SUFFICES ASSUME Init PROVE Order
  OBVIOUS
<1>1. cmd.pc = "idle" /\ cmd.force = {}
  BY DEF Init, NoCommand
<1>2. \A s \in Stage : accepted[s] = 0 /\ filed[s] = <<>>
  BY DEF Init
<1>3. GatedViews
  BY <1>2, StageFacts DEF GatedViews
<1> QED BY <1>1, <1>2, <1>3 DEF Order, InStep

-----------------------------------------------------------------------------
(* The theorems.                                                               *)

\* The invariant: types, the command and its manifest, the geometry checkpoint,
\* what a correction has read, and, as long as nothing is run out of turn, the
\* order of the stages (run_stage.py, step_orchestrator.py).
THEOREM StageInvariant == Spec => []IInv
<1>1. Init => IInv
  BY SoundInit, GateInit, ReadsInit, OrderInit, Groups DEF Sound, IInv
<1>2. IInv /\ [Next]_vars => IInv'
  <2> SUFFICES ASSUME IInv, [Next]_vars PROVE IInv'
    OBVIOUS
  <2>1. Sound /\ Gate /\ Reads
    BY Groups DEF Sound, IInv
  <2>2. Sound' /\ Gate' /\ Reads'
    BY <2>1, SoundStep, GateStep, ReadsStep
  <2>3. TypeOK'
    BY <2>2 DEF Sound, TypeOK, DiskTypes, ReviewTypes, CommandTypes, StopOf
  <2>4. ~strayed' => Order'
    BY <2>1, StrayedStays, OrderStep DEF IInv
  <2> QED BY <2>2, <2>3, <2>4 DEF Sound, IInv
<1> QED BY <1>1, <1>2, PTL DEF Spec

\* The variables have their types, whatever verdicts are filed.
THEOREM StageTypes == Spec => []TypeOK
<1>1. IInv => TypeOK
  BY DEF IInv
<1> QED BY <1>1, StageInvariant, PTL

\* Nothing passes the geometry checkpoint unapproved, whatever order the
\* commands come in and whatever verdicts are filed (GEOMETRY_GATED_STAGES).
THEOREM StageCheckpoint == Spec => []OnlyApprovedGeometryGoesOn
<1>1. IInv => OnlyApprovedGeometryGoesOn
  BY DEF IInv, Gate
<1> QED BY <1>1, StageInvariant, PTL

\* Every correction was compared with views that gate 1 passed, and read no others
\* unless they were replaced during its draw, as long as nothing is run out of turn
\* (verify_reading_stage_root_against_accepted_attempt).
THEOREM StageGatedViews == Spec => []CorrectionReadsGatedViews
<1>1. IInv => CorrectionReadsGatedViews
  <2> SUFFICES ASSUME IInv, ~strayed, NEW k \in DOMAIN filed["correction"]
               PROVE  /\ filed["correction"][k].from \in GatedReading
                      /\ filed["correction"][k].disturbed \/ filed["correction"][k].seen \subseteq GatedReading
    BY DEF CorrectionReadsGatedViews
  <2>1. filed["correction"][k].from \in GatedReading
    BY DEF IInv, Order, GatedViews, GatedReading
  <2>2. ~filed["correction"][k].disturbed => filed["correction"][k].seen = {filed["correction"][k].from}
    BY DEF IInv, Reads, ReadOnFile
  <2> QED BY <2>1, <2>2
<1> QED BY <1>1, StageInvariant, PTL

\* What is accepted was drawn from what is accepted, however often commands are
\* killed, started again, judged and routed, as long as nothing is run out of
\* turn (invalidation.py).
THEOREM StageFreshness == Spec => []AcceptedIsFresh
<1>1. IInv => AcceptedIsFresh
  BY DEF IInv, Order, AcceptedIsFresh
<1> QED BY <1>1, StageInvariant, PTL

=============================================================================
