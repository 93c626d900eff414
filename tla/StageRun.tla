------------------------------ MODULE StageRun ------------------------------
(* The staged run of a case (run_stage.py over step_orchestrator.py,           *)
(* invalidation.py and manifest.py): six stages are drawn one after the other, *)
(* each draw is filed as an attempt that is never changed, and the manifest    *)
(* points at the accepted attempt of each stage.  A flow, run or resample      *)
(* command holds the manifest in memory and saves it after each stage; verdicts,*)
(* approvals, re-reads and merges come in between, and a command may be        *)
(* killed at any moment and started again.  A correction compares the reading  *)
(* views once, when its draw begins, and reads them twice after that.          *)
EXTENDS Naturals, Sequences, FiniteSets

CONSTANTS
  LastStage,      \* --to: the last stage a flow runs
  PerStageDraws,  \* RunBudget.per_stage_draws
  ReviewStages,   \* the stages whose review switch is on
  Verdict,        \* verdicts a judge may file: "pass", "unrouted" or a root stage
  ReadingRunner,  \* BOOLEAN: policy.reading_runner_available
  MaxCommands     \* bound: commands of the operator and kills

Pipeline == <<"reading", "correction", "modelling", "split_pairing", "mep", "intakeoutput">>

Stage == {Pipeline[i] : i \in DOMAIN Pipeline}

Position(s) == CHOOSE i \in DOMAIN Pipeline : Pipeline[i] = s

InReach == {s \in Stage : Position(s) <= Position(LastStage)}

ASSUME StageRunAssumption ==
  /\ LastStage \in Stage
  /\ PerStageDraws \in Nat \ {0}
  /\ ReviewStages \subseteq {"reading", "correction"}
  /\ Verdict \subseteq {"pass", "unrouted"} \cup Stage
  /\ ReadingRunner \in BOOLEAN
  /\ MaxCommands \in Nat

\* StageSpec.capability and StageSpec.depends_on.
Manual == {"reading"}
Stochastic == {"correction", "mep"}
Deterministic == {"modelling", "split_pairing", "intakeoutput"}

DependsOn(s) ==
  CASE s = "reading" -> {}
    [] s = "correction" -> {"reading"}
    [] s = "modelling" -> {"correction"}
    [] s = "split_pairing" -> {"modelling"}
    [] s = "mep" -> {"split_pairing"}
    [] s = "intakeoutput" -> {"split_pairing", "mep"}

\* The stages with an enabled judge (J0, J1; J4 is a disabled stub).
Judged == {"reading", "correction"}

\* GEOMETRY_GATED_STAGES.
Gated == {"split_pairing", "mep", "intakeoutput"}

\* Wrong on purpose: the direct dependents only.
DirectDependents(s) == {t \in Stage : s \in DependsOn(t)}

\* downstream_of: the transitive dependents, which are the later stages.
Downstream(s) == {t \in Stage : Position(t) > Position(s)}

-----------------------------------------------------------------------------
VARIABLES
  filed,     \* [Stage -> sequence of attempts on disk, each with its judge.json]
  accepted,  \* [Stage -> index of the accepted attempt in the saved manifest, 0: none]
  views,     \* the version of the reading views in the working copy
  geometry,  \* the correction that 2_modelling/building_geometry.json was built from
  shown,     \* the source review published by the viewer
  approval,  \* the geometry approval
  reviews,   \* [ReviewStages -> version of the output the human review is bound to]
  stop,      \* orchestration_state.json: the pending stop_reason
  cmd,       \* the flow, run or resample command that is running
  commands,  \* commands and kills so far
  strayed,   \* history: a stage was run out of turn, or a reading merged
  disturbed, \* history: the views were replaced since the draw of a correction began
  approved   \* history: the corrections whose geometry was approved

vars == <<filed, accepted, views, geometry, shown, approval, reviews, stop, cmd,
          commands, strayed, disturbed, approved>>

None == "none"
NoDigest == [correction |-> 0, modelling |-> 0, verdict |-> None, ready |-> FALSE]
NoStop == [status |-> None, stage |-> None]
NoCommand == [kind |-> None, stage |-> None, pc |-> "idle", manifest |-> [s \in Stage |-> 0],
              force |-> {}, existing |-> 0, from |-> 0, seen |-> {}, outcome |-> None,
              target |-> None, auto |-> FALSE]

Idle == cmd.kind = None
Existing(s) == Len(filed[s])
VerdictOf(s, k) == filed[s][k].verdict

\* What the output of an attempt is known by: its views for a reading, the
\* attempt itself for what is drawn anew.
Version(s, k) == IF s = "reading" THEN filed[s][k].from ELSE k

-----------------------------------------------------------------------------
(* The source checkpoint and its approval (source_checkpoint.py,               *)
(* geometry_is_approved).  It is recomputed from the disk at every look.       *)

Blocking(v) == v \notin {None, "pass"}

\* inspect_source_checkpoint without problems: both versions accepted, the
\* accepted geometry and the one on disk both rebuilt from that correction, and
\* no blocking verdict.
Ready(built) ==
  LET c == accepted["correction"] m == accepted["modelling"]
  IN /\ c # 0 /\ m # 0
     /\ filed["modelling"][m].from = c
     /\ built = c
     /\ ~Blocking(VerdictOf("correction", c))

Checkpoint(built) ==
  LET c == accepted["correction"]
  IN [correction |-> c, modelling |-> accepted["modelling"],
      verdict |-> IF c = 0 THEN None ELSE VerdictOf("correction", c),
      ready |-> Ready(built)]

\* current_source_review: what is shown is current and may be approved.
ReviewIsCurrent(show, built) == show.ready /\ show = Checkpoint(built)

\* geometry_is_approved.
\* Wrong on purpose: any approval will do.
ApprovedOnce(show, built) == approval # NoDigest

ApprovedAs(show, built) == ReviewIsCurrent(show, built) /\ approval = show

Approved == ApprovedAs(shown, geometry)

-----------------------------------------------------------------------------
(* The decisions of step_orchestrator.py.                                      *)

Outcome(status, target) == [status |-> status, target |-> target]

RereadOr(s) ==
  IF ~ReadingRunner THEN Outcome("human_redraw_required", s)
  ELSE IF Existing("reading") < PerStageDraws THEN Outcome("awaiting_reread", s)
  ELSE Outcome("quarantined", s)

\* _verdict_outcome.
VerdictOutcome(v) ==
  CASE v = "pass" -> Outcome("judge_pass", None)
    [] v = "unrouted" \/ v \in Deterministic -> Outcome("judge_block_human", None)
    [] v \in Manual -> RereadOr(v)
    [] OTHER -> Outcome("judge_block", v)

\* _post_gate1, for an attempt with the verdict v.
PostGate(s, v, confirmed) ==
  IF s = "modelling" /\ ~confirmed THEN Outcome("awaiting_geometry_approval", None)
  ELSE IF s \notin Judged THEN Outcome("deterministic_pass", None)
  ELSE IF v = None THEN Outcome("awaiting_judge", None)
  ELSE VerdictOutcome(v)

Passed == {"deterministic_pass", "judge_pass"}

Pending == {"quarantined", "deterministic_defect", "human_redraw_required", "judge_block_human",
            "awaiting_geometry_approval", "awaiting_human_review", "awaiting_reread"}

\* update_state: a terminal stop or a wait is pending, anything else clears it.
StopReason(status, s) == IF status \in Pending THEN [status |-> status, stage |-> s] ELSE NoStop

\* review_is_current.
Reviewed(s, k) == s \in ReviewStages => reviews[s] = Version(s, k)

\* _stage_advance_ready.
AdvanceReady(s) ==
  LET k == accepted[s]
  IN /\ k # 0
     /\ s \in Judged => VerdictOf(s, k) = "pass"
     /\ Reviewed(s, k)
     /\ s = "modelling" => Approved

\* _auto_start_stage.
AutoStart ==
  LET open == {s \in InReach : ~AdvanceReady(s)}
  IN IF open = {} THEN LastStage
     ELSE CHOOSE s \in open : \A t \in open : Position(s) <= Position(t)

-----------------------------------------------------------------------------
(* Commands that draw: flow, run and resample.                                 *)

Init ==
  /\ filed = [s \in Stage |-> <<>>]
  /\ accepted = [s \in Stage |-> 0]
  /\ views = 1
  /\ geometry = 0
  /\ shown = NoDigest /\ approval = NoDigest
  /\ reviews = [s \in ReviewStages |-> 0]
  /\ stop = NoStop
  /\ cmd = NoCommand
  /\ commands = 0
  /\ strayed = FALSE /\ disturbed = FALSE
  /\ approved = {}

MayCommand == commands < MaxCommands /\ commands' = commands + 1

Start(kind, s, force, auto, manifest) ==
  cmd' = [NoCommand EXCEPT !.kind = kind, !.stage = s, !.pc = "look", !.force = force,
                           !.auto = auto, !.manifest = manifest]

OutOfTurn(s) == \E d \in DependsOn(s) : accepted[d] = 0

\* cmd_flow --from auto or a stage, --geometry auto or human.
Flow(from, auto) ==
  /\ Idle /\ MayCommand
  /\ LET s == IF from = "auto" THEN AutoStart ELSE from
     IN /\ Start("flow", s, {}, auto, accepted)
        /\ strayed' = (strayed \/ OutOfTurn(s))
  /\ UNCHANGED <<filed, accepted, views, geometry, shown, approval, reviews, stop, disturbed, approved>>

\* cmd_run with or without --force.
Run(s, force) ==
  /\ Idle /\ MayCommand
  /\ Start("run", s, IF force THEN {s} ELSE {}, FALSE, accepted)
  /\ strayed' = TRUE
  /\ UNCHANGED <<filed, accepted, views, geometry, shown, approval, reviews, stop, disturbed, approved>>

\* invalidate: drop the pointers of everything downstream.
Invalidated(manifest, s) == [t \in Stage |-> IF t \in Downstream(s) THEN 0 ELSE manifest[t]]

\* cmd_resample: invalidate, save, then a forced run.
Resample(s) ==
  /\ Idle /\ MayCommand
  /\ accepted' = Invalidated(accepted, s)
  /\ Start("resample", s, {s}, FALSE, accepted')
  /\ strayed' = (strayed \/ OutOfTurn(s))
  /\ UNCHANGED <<filed, views, geometry, shown, approval, reviews, stop, disturbed, approved>>

Decide(outcome) ==
  cmd' = [cmd EXCEPT !.pc = "decided", !.outcome = outcome.status, !.target = outcome.target]

Stays == UNCHANGED <<views, approval, reviews, commands, strayed, disturbed, approved>>

\* run_one_stage: a gated stage waits, an accepted one is decided again without
\* a draw.
NeedsNoDraw ==
  LET s == cmd.stage
      k == cmd.manifest[s]
  IN \/ s \in Gated /\ ~Approved
     \/ k # 0 /\ s \notin cmd.force

DecideWithoutDraw ==
  LET s == cmd.stage
  IN /\ cmd.pc = "look" /\ NeedsNoDraw
     /\ Decide(IF s \in Gated /\ ~Approved THEN Outcome("awaiting_geometry_approval", None)
               ELSE PostGate(s, VerdictOf(s, cmd.manifest[s]), Approved))
     /\ UNCHANGED <<filed, accepted, geometry, shown, stop>> /\ Stays

\* The draws already made are counted on disk when the stage is looked at.
DrawsMade(s) == IF cmd.pc = "look" THEN Existing(s) ELSE cmd.existing

AboutToDraw == \/ cmd.pc = "look" /\ ~NeedsNoDraw
               \/ cmd.pc = "redraw"

BudgetSpent ==
  /\ AboutToDraw
  /\ DrawsMade(cmd.stage) >= PerStageDraws
  /\ Decide(Outcome("quarantined", None))
  /\ UNCHANGED <<filed, accepted, geometry, shown, stop>> /\ Stays

\* verify_reading_stage_root_against_accepted_attempt.
\* Wrong on purpose: the views are not compared.
AnyViews == TRUE

ViewsAreAccepted ==
  accepted["reading"] # 0 => filed["reading"][accepted["reading"]].from = views

\* The correction the later stages are drawn from (_load_snapped_with_proof; the
\* assembly takes it from the manifest in memory): the accepted one, or without
\* one the copy that the last accepted draw left at the stage root.
Snapped ==
  LET good == {k \in DOMAIN filed["correction"] : filed["correction"][k].passed}
  IN IF good = {} THEN 0 ELSE CHOOSE k \in good : \A j \in good : j <= k

Source(s) ==
  CASE s \in {"reading", "correction"} -> views
    [] s = "intakeoutput" -> cmd.manifest["correction"]
    [] OTHER -> IF accepted["correction"] # 0 THEN accepted["correction"] ELSE Snapped

\* The draw has what it needs; without it the command ends with an error.
Drawable(s) ==
  CASE s = "reading" -> TRUE
    [] s = "correction" -> ViewsAreAccepted
    [] s = "intakeoutput" -> TRUE
    [] OTHER -> Source(s) # 0

\* A draw begins: a correction compares its views, the others read their input.
\* The result is filed later.
BeginDraw ==
  LET s == cmd.stage
  IN /\ AboutToDraw
     /\ DrawsMade(s) < PerStageDraws
     /\ IF Drawable(s)
        THEN cmd' = [cmd EXCEPT !.pc = "drawing", !.existing = DrawsMade(s) + 1,
                                !.from = Source(s), !.seen = {}]
        ELSE cmd' = NoCommand
     /\ UNCHANGED <<filed, accepted, geometry, shown, stop>> /\ Stays

CorrectionIsDrawn == cmd.pc = "drawing" /\ cmd.stage = "correction"

\* run_correction puts the views into its prompt; they are not compared again.
ReadViews ==
  /\ CorrectionIsDrawn /\ cmd.seen = {}
  /\ cmd' = [cmd EXCEPT !.seen = {views}]
  /\ UNCHANGED <<filed, accepted, geometry, shown, stop>> /\ Stays

\* What a correction has read in the end: the strokes are counted, and the outline
\* is taken, from the views as they are when the answer is there.  A draw that
\* fails may have failed before that.
SeenInTheEnd(s, passed) ==
  IF s # "correction" THEN {cmd.seen}
  ELSE {cmd.seen \cup {views}} \cup (IF passed THEN {} ELSE {cmd.seen})

\* What gate 1 may say of the draw: a reading is judged by its views alone, the
\* serialization must match the geometry on disk, and the assembly needs the
\* accepted correction and equipment.
GateAllows(s, passed) ==
  CASE s = "reading" ->
         \A k \in DOMAIN filed[s] : filed[s][k].from = cmd.from => filed[s][k].passed = passed
    [] s = "split_pairing" -> passed => geometry = cmd.from
    [] s = "intakeoutput" -> passed => cmd.from # 0 /\ cmd.manifest["mep"] # 0
    [] OTHER -> TRUE

\* gate 1 blocked: resample, fail closed, or a human (or a re-read).
Blocked(s) ==
  IF s \in Deterministic THEN Decide(Outcome("deterministic_defect", None))
  ELSE IF s \notin Manual
  THEN cmd' = [cmd EXCEPT !.pc = "redraw"]
  ELSE Decide(IF ~ReadingRunner THEN Outcome("human_redraw_required", None)
              ELSE IF cmd.existing < PerStageDraws THEN Outcome("awaiting_reread", s)
              ELSE Outcome("quarantined", s))

\* The draw is filed as the next attempt; the pointer in memory moves when gate 1
\* passes.  A modelling writes its geometry and shows it, before it is filed; one
\* that fails may have written nothing.
FileAttempt(passed) ==
  LET s == cmd.stage
  IN /\ cmd.pc = "drawing" /\ (s = "correction" => cmd.seen # {})
     /\ GateAllows(s, passed)
     /\ \E seen \in SeenInTheEnd(s, passed) :
          filed' = [filed EXCEPT ![s] =
                     Append(@, [passed |-> passed, from |-> cmd.from, seen |-> seen,
                                disturbed |-> disturbed, verdict |-> None])]
     /\ disturbed' = FALSE
     /\ \/ geometry' = cmd.from /\ shown' = Checkpoint(cmd.from) /\ s = "modelling"
        \/ UNCHANGED <<geometry, shown>> /\ ~(s = "modelling" /\ passed)
     /\ IF passed
        THEN LET outcome == PostGate(s, None, ApprovedAs(shown', geometry'))
             IN cmd' = [cmd EXCEPT !.pc = "decided", !.manifest[s] = Existing(s) + 1,
                                   !.outcome = outcome.status, !.target = outcome.target]
        ELSE Blocked(s)
     /\ UNCHANGED <<accepted, stop, views, approval, reviews, commands, strayed, approved>>

\* manifest.save.
Save ==
  /\ cmd.pc = "decided"
  /\ accepted' = cmd.manifest
  /\ cmd' = [cmd EXCEPT !.pc = "saved", !.force = @ \ {cmd.stage}]
  /\ UNCHANGED <<filed, geometry, shown, stop>> /\ Stays

\* update_state, the end of run and resample: the viewer is rendered for an
\* accepted modelling or serialization.
EndRun ==
  /\ cmd.pc = "saved" /\ cmd.kind # "flow"
  /\ stop' = StopReason(cmd.outcome, cmd.stage)
  /\ shown' = IF \/ cmd.outcome = "deterministic_pass" /\ cmd.stage \in {"modelling", "split_pairing"}
                 \/ cmd.outcome = "awaiting_geometry_approval" /\ cmd.stage = "modelling"
              THEN Checkpoint(geometry) ELSE shown
  /\ cmd' = NoCommand
  /\ UNCHANGED <<filed, accepted, geometry>> /\ Stays

FlowStep == cmd.pc = "saved" /\ cmd.kind = "flow"

LookAt(s) == cmd' = [cmd EXCEPT !.pc = "look", !.stage = s]

\* The stage passed: the next one, unless a review is due.
FlowPasses ==
  LET s == cmd.stage
      due == ~Reviewed(s, cmd.manifest[s])
  IN /\ FlowStep /\ cmd.outcome \in Passed
     /\ stop' = StopReason(IF due THEN "awaiting_human_review" ELSE cmd.outcome, s)
     /\ IF due \/ s = LastStage THEN cmd' = NoCommand ELSE LookAt(Pipeline[Position(s) + 1])
     /\ UNCHANGED <<filed, accepted, geometry, shown>> /\ Stays

\* The geometry waits for its approval; --geometry auto approves what is shown.
FlowShowsGeometry ==
  LET now == Checkpoint(geometry)
      grant == cmd.auto /\ now.ready
  IN /\ FlowStep /\ cmd.outcome = "awaiting_geometry_approval"
     /\ shown' = now
     /\ approval' = IF grant THEN now ELSE approval
     /\ approved' = IF grant THEN approved \cup {now.correction} ELSE approved
     /\ stop' = IF grant THEN NoStop ELSE StopReason(cmd.outcome, cmd.stage)
     /\ IF grant THEN LookAt(cmd.stage) ELSE cmd' = NoCommand
     /\ UNCHANGED <<filed, accepted, views, geometry, reviews, commands, strayed, disturbed>>

\* A blocking verdict: drop what hangs on the root stage and draw it again.
\* Wrong on purpose: the root stage is visited without a forced draw.
RouteWithoutForce(target) ==
  cmd' = [cmd EXCEPT !.pc = "look", !.stage = target, !.manifest = Invalidated(@, target)]

RouteTo(target) ==
  cmd' = [cmd EXCEPT !.pc = "look", !.stage = target, !.force = @ \cup {target},
                     !.manifest = Invalidated(@, target)]

\* The root may also be a later stage than the judged one; it is visited all the
\* same, whether or not what it needs was drawn.
FlowRoutes ==
  /\ FlowStep /\ cmd.outcome = "judge_block"
  /\ stop' = NoStop
  /\ IF cmd.target \in InReach
     THEN /\ RouteTo(cmd.target)
          /\ accepted' = Invalidated(cmd.manifest, cmd.target)
          /\ strayed' = (strayed \/ OutOfTurn(cmd.target))
     ELSE cmd' = NoCommand /\ UNCHANGED <<accepted, strayed>>
  /\ UNCHANGED <<filed, geometry, shown, views, approval, reviews, commands, disturbed, approved>>

\* Any other outcome ends the flow.
FlowStops ==
  /\ FlowStep
  /\ cmd.outcome \notin Passed \cup {"awaiting_geometry_approval", "judge_block"}
  /\ stop' = StopReason(cmd.outcome, cmd.stage)
  /\ cmd' = NoCommand
  /\ UNCHANGED <<filed, accepted, geometry, shown>> /\ Stays

\* The process of the command is killed; what it has not saved is lost.
Kill ==
  /\ ~Idle /\ MayCommand
  /\ cmd' = NoCommand /\ disturbed' = FALSE
  /\ UNCHANGED <<filed, accepted, views, geometry, shown, approval, reviews, stop, strayed, approved>>

-----------------------------------------------------------------------------
(* Commands that do not draw; they may be given while another one draws.       *)

Aside == UNCHANGED <<views, geometry, cmd, disturbed>>

\* cmd_judge: the verdict is filed with the attempt the saved manifest accepts.
Judge(s, v) ==
  LET k == accepted[s]
      outcome == VerdictOutcome(v)
  IN /\ k # 0 /\ MayCommand
     /\ filed' = [filed EXCEPT ![s][k].verdict = v]
     /\ stop' = StopReason(outcome.status, s)
     /\ UNCHANGED <<accepted, shown, approval, reviews, strayed, approved>> /\ Aside

\* cmd_approve_geometry with the digest that is shown.
ApproveGeometry ==
  /\ ReviewIsCurrent(shown, geometry) /\ MayCommand
  /\ approval' = shown
  /\ approved' = approved \cup {shown.correction}
  /\ stop' = IF stop.status = "awaiting_geometry_approval" THEN NoStop ELSE stop
  /\ UNCHANGED <<filed, accepted, shown, reviews, strayed>> /\ Aside

\* mark_review_approved clears the pending stop of that review only.
StopAfterReview(s) ==
  IF stop = [status |-> "awaiting_human_review", stage |-> s] THEN NoStop ELSE stop

\* cmd_approve_review of the accepted output.
ApproveReview(s) ==
  /\ accepted[s] # 0 /\ MayCommand
  /\ reviews' = [reviews EXCEPT ![s] = Version(s, accepted[s])]
  /\ stop' = StopAfterReview(s)
  /\ UNCHANGED <<filed, accepted, shown, approval, strayed, approved>> /\ Aside

\* Views that no draw has read yet: numbered by the command that brings them.
NextViews == commands + 2

Replace == views' = NextViews /\ disturbed' = (disturbed \/ CorrectionIsDrawn)

\* A reader replaces the views in the working copy (the re-read protocol).
Reread ==
  /\ MayCommand
  /\ Replace
  /\ UNCHANGED <<filed, accepted, geometry, shown, approval, reviews, stop, cmd, strayed, approved>>

\* merge_isolated_output: a reading made in an isolated workspace is filed, and
\* if gate 1 passes accepted and copied over the working copy.
Merge(passed) ==
  /\ MayCommand
  /\ filed' = [filed EXCEPT !["reading"] =
                Append(@, [passed |-> passed, from |-> NextViews, seen |-> {},
                           disturbed |-> FALSE, verdict |-> None])]
  /\ IF passed
     THEN /\ accepted' = [accepted EXCEPT !["reading"] = Existing("reading") + 1]
          /\ Replace
     ELSE UNCHANGED <<accepted, views, disturbed>>
  /\ strayed' = TRUE
  /\ UNCHANGED <<geometry, shown, approval, reviews, stop, cmd, approved>>

-----------------------------------------------------------------------------
Step ==
  \/ DecideWithoutDraw \/ BudgetSpent \/ BeginDraw \/ ReadViews
  \/ \E passed \in BOOLEAN : FileAttempt(passed)
  \/ Save \/ EndRun
  \/ FlowPasses \/ FlowShowsGeometry \/ FlowRoutes \/ FlowStops

Command ==
  \/ \E from \in InReach \cup {"auto"}, auto \in BOOLEAN : Flow(from, auto)
  \/ \E s \in InReach, force \in BOOLEAN : Run(s, force)
  \/ \E s \in InReach : Resample(s)
  \/ \E s \in Judged, v \in Verdict : Judge(s, v)
  \/ ApproveGeometry
  \/ \E s \in ReviewStages : ApproveReview(s)
  \/ Reread
  \/ \E passed \in BOOLEAN : Merge(passed)

Next == Step \/ Command \/ Kill

Spec == Init /\ [][Next]_vars

\* A command that nobody kills goes on.
FairSpec == Spec /\ WF_vars(Step)

-----------------------------------------------------------------------------
(* Properties.                                                                 *)

AttemptOf == [passed : BOOLEAN, from : Nat, seen : SUBSET Nat, disturbed : BOOLEAN,
              verdict : Verdict \cup {None}]

CheckpointOf == [correction : Nat, modelling : Nat, verdict : Verdict \cup {None}, ready : BOOLEAN]

Status == Passed \cup Pending \cup {None, "awaiting_judge", "judge_block"}

CommandOf ==
  [kind : {None, "flow", "run", "resample"}, stage : Stage \cup {None},
   pc : {"idle", "look", "redraw", "drawing", "decided", "saved"}, manifest : [Stage -> Nat],
   force : SUBSET Stage, existing : 0 .. PerStageDraws, from : Nat, seen : SUBSET Nat,
   outcome : Status, target : Stage \cup {None}, auto : BOOLEAN]

\* The variables have their types (manifest.py, step_orchestrator.py).
TypeOK ==
  /\ filed \in [Stage -> Seq(AttemptOf)]
  /\ accepted \in [Stage -> Nat] /\ \A s \in Stage : accepted[s] <= Existing(s)
  /\ views \in Nat /\ geometry \in Nat
  /\ shown \in CheckpointOf /\ approval \in CheckpointOf
  /\ reviews \in [ReviewStages -> Nat]
  /\ stop \in [status : Pending \cup {None}, stage : Stage \cup {None}]
  /\ cmd \in CommandOf
  /\ commands \in Nat /\ strayed \in BOOLEAN /\ disturbed \in BOOLEAN /\ approved \subseteq Nat

\* Every accepted stage was drawn from what is accepted upstream of it now, as
\* long as nothing is run out of turn: whatever is killed, re-read, judged or
\* routed, a resume never goes on with the product of an older input
\* (invalidation.py).  Out of turn are a bare run, a flow or resample that names a
\* stage whose inputs are missing, a verdict that routes to one, and a merge.  A
\* correction is bound to the views it was compared with when its draw began; if
\* nobody replaced them until it was filed, it read no others.
DrawnFrom(s, k) ==
  LET a == filed[s][k]
  IN CASE s = "reading" -> TRUE
       [] s = "correction" ->
            /\ accepted["reading"] # 0
            /\ a.from = Version("reading", accepted["reading"])
            /\ ~a.disturbed => a.seen = {a.from}
       [] OTHER -> /\ a.from = accepted["correction"]
                   /\ \A d \in DependsOn(s) : accepted[d] # 0

AcceptedIsFresh ==
  ~strayed => \A s \in Stage : accepted[s] # 0 => DrawnFrom(s, accepted[s])

\* Every correction was compared with views that gate 1 passed, and read no others
\* unless they were replaced while it was being drawn: the code compares them once,
\* before the first read (verify_reading_stage_root_against_accepted_attempt), and
\* a re-read that was not merged or judged yet must not get into a draw that begins
\* after it.
GatedReading == {filed["reading"][j].from : j \in {k \in DOMAIN filed["reading"] : filed["reading"][k].passed}}

CorrectionReadsGatedViews ==
  ~strayed => \A k \in DOMAIN filed["correction"] :
    LET a == filed["correction"][k]
    IN a.from \in GatedReading /\ (a.disturbed \/ a.seen \subseteq GatedReading)

\* Everything behind the geometry checkpoint was drawn from a correction whose
\* geometry was approved, whatever order the commands come in
\* (GEOMETRY_GATED_STAGES and the digest the approval is bound to).
OnlyApprovedGeometryGoesOn ==
  \A s \in Gated : \A k \in DOMAIN filed[s] : filed[s][k].from \in approved

\* Every command comes to its end: a blocking verdict cannot send a flow round
\* in circles (run_one_stage, _cmd_flow_with_config).
EveryCommandEnds == (cmd.kind # None) ~> Idle

=============================================================================
