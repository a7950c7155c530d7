------------------------------ MODULE MCHelpers ------------------------------
(***************************************************************************)
(* The coordinators that hand work to hosted tasks, one at a time, beside  *)
(* the instance of CloudTask: Init chooses which of them runs.  They share *)
(* no state with CloudTask, and the coordinators share the names of their  *)
(* variables only, so that the state spaces add up.                        *)
(***************************************************************************)
EXTENDS MCCloudTask

VARIABLES helper, github, local, hosted, state, proc, budget

helperVars == <<github, local, hosted, state, proc, budget>>

\* ci_fix_loop.py: the loop with two repairs, and two sweeps of one repair each.
CiLoop == INSTANCE CiFixLoop WITH Bounded <- FALSE, MaxIterations <- 2, StabilityPolls <- 2, MaxSweeps <- 1, MaxMoves <- 1
CiSteps == INSTANCE CiFixLoop WITH Bounded <- TRUE, MaxIterations <- 1, StabilityPolls <- 2, MaxSweeps <- 2, MaxMoves <- 1

\* ci_fix_loop.py in the hands of an agent: one check and a move of others, in a
\* stack and alone; two checks in a stack.
Unsettled == [c \in {"k1"} |-> "unknown"]
RepairGuarded == INSTANCE CiRepair WITH Checks <- {"k1"}, Baseline <- Unsettled, Guarded <- TRUE, MaxIterations <- 1,
                                        MaxRuns <- 2, MaxCommits <- 1, MaxMoves <- 1
RepairAlone == INSTANCE CiRepair WITH Checks <- {"k1"}, Baseline <- Unsettled, Guarded <- FALSE, MaxIterations <- 1,
                                      MaxRuns <- 2, MaxCommits <- 1, MaxMoves <- 1
RepairTwo == INSTANCE CiRepair WITH Checks <- {"k1", "k2"}, Baseline <- ("k2" :> "pre_existing") @@ Unsettled,
                                    Guarded <- TRUE, MaxIterations <- 1, MaxRuns <- 2, MaxCommits <- 1, MaxMoves <- 0

\* The native stack run of ci_fix_loop.py: two members and a move of others, and
\* three members.
CiStackTwo == INSTANCE CiStack WITH N <- 2, MaxCommits <- 4, MaxMoves <- 1
CiStackThree == INSTANCE CiStack WITH N <- 3, MaxCommits <- 5, MaxMoves <- 0

\* copilot_review_loop.py: the loop; two sweeps of one iteration each; and where
\* only the source may be changed.
ReviewAlone == INSTANCE CopilotReview WITH Bounded <- FALSE, SourceOnly <- FALSE, MaxIterations <- 1, MaxSweeps <- 1,
                                           StabilityPolls <- 2, MaxReviews <- 2, MaxMoves <- 1
ReviewSteps == INSTANCE CopilotReview WITH Bounded <- TRUE, SourceOnly <- FALSE, MaxIterations <- 1, MaxSweeps <- 2,
                                           StabilityPolls <- 2, MaxReviews <- 2, MaxMoves <- 1
ReviewSourceOnly == INSTANCE CopilotReview WITH Bounded <- TRUE, SourceOnly <- TRUE, MaxIterations <- 1, MaxSweeps <- 2,
                                                StabilityPolls <- 2, MaxReviews <- 2, MaxMoves <- 1

\* self_review_loop.py: the loop with two passes, and two sweeps of two passes.
SelfAlone == INSTANCE SelfReview WITH Bounded <- FALSE, MaxIterations <- 2, MaxSweeps <- 1, MaxAttempts <- 2, MaxMoves <- 1
SelfSteps == INSTANCE SelfReview WITH Bounded <- TRUE, MaxIterations <- 2, MaxSweeps <- 2, MaxAttempts <- 2, MaxMoves <- 1

\* pr_description.py: two runs that overlap, and the calls of two sweeps.
DescribeAlone == INSTANCE PrDescription WITH Runs <- {1, 2}, Bounded <- FALSE, MaxSweeps <- 1, MaxAttempts <- 2, MaxEvents <- 0
DescribeSteps == INSTANCE PrDescription WITH Runs <- {1}, Bounded <- TRUE, MaxSweeps <- 2, MaxAttempts <- 2, MaxEvents <- 2

\* pr_conflict_resolver.py: two members at once and step by step, and the calls of
\* two sweeps for a pull request of its own.
ConflictAlone == INSTANCE ConflictResolver WITH N <- 2, Bounded <- FALSE, MaxSweeps <- 1, MaxMoves <- 2
ConflictSteps == INSTANCE ConflictResolver WITH N <- 1, Bounded <- TRUE, MaxSweeps <- 2, MaxMoves <- 2
ConflictStack == INSTANCE ConflictResolver WITH N <- 2, Bounded <- TRUE, MaxSweeps <- 2, MaxMoves <- 2

\* pr_reviewer.py: two runs that overlap, and one with two findings and changes of
\* others.
ReviewerTwo == INSTANCE PrReviewer WITH Runs <- {1, 2}, Candidates <- {"c1"}, MaxEvents <- 0
ReviewerOne == INSTANCE PrReviewer WITH Runs <- {1}, Candidates <- {"c1", "c2"}, MaxEvents <- 2

\* historical_pr_audit.py: two runs in one checkout, and in two.
AuditShared == INSTANCE HistoricalAudit WITH Runs <- {1, 2}, Shared <- TRUE, MaxEvents <- 1
AuditApart == INSTANCE HistoricalAudit WITH Runs <- {1, 2}, Shared <- FALSE, MaxEvents <- 1

ASSUME HelpersAssumption ==
  /\ CiLoop!CiFixLoopAssumption /\ CiSteps!CiFixLoopAssumption
  /\ RepairGuarded!CiRepairAssumption /\ RepairAlone!CiRepairAssumption /\ RepairTwo!CiRepairAssumption
  /\ CiStackTwo!CiStackAssumption /\ CiStackThree!CiStackAssumption
  /\ ReviewAlone!CopilotReviewAssumption /\ ReviewSteps!CopilotReviewAssumption
  /\ ReviewSourceOnly!CopilotReviewAssumption
  /\ SelfAlone!SelfReviewAssumption /\ SelfSteps!SelfReviewAssumption
  /\ DescribeAlone!PrDescriptionAssumption /\ DescribeSteps!PrDescriptionAssumption
  /\ ConflictAlone!ConflictResolverAssumption /\ ConflictSteps!ConflictResolverAssumption /\ ConflictStack!ConflictResolverAssumption
  /\ ReviewerTwo!PrReviewerAssumption /\ ReviewerOne!PrReviewerAssumption
  /\ AuditShared!HistoricalAuditAssumption /\ AuditApart!HistoricalAuditAssumption

HelpersInit ==
  /\ Init
  /\ \/ helper = "none" /\ CiLoop!Init
     \/ helper = "ci_loop" /\ CiLoop!Init
     \/ helper = "ci_steps" /\ CiSteps!Init
     \/ helper = "review_alone" /\ ReviewAlone!Init
     \/ helper = "review_steps" /\ ReviewSteps!Init
     \/ helper = "review_source_only" /\ ReviewSourceOnly!Init
     \/ /\ hosted = "none"
        /\ \/ helper = "repair_guarded" /\ RepairGuarded!Init
           \/ helper = "repair_alone" /\ RepairAlone!Init
           \/ helper = "repair_two" /\ RepairTwo!Init
           \/ helper = "ci_stack_two" /\ CiStackTwo!Init
           \/ helper = "ci_stack_three" /\ CiStackThree!Init
     \/ helper = "self_alone" /\ SelfAlone!Init
     \/ helper = "self_steps" /\ SelfSteps!Init
     \/ helper = "describe_alone" /\ DescribeAlone!Init
     \/ helper = "describe_steps" /\ DescribeSteps!Init
     \/ helper = "conflict_alone" /\ ConflictAlone!Init
     \/ helper = "conflict_steps" /\ ConflictSteps!Init
     \/ helper = "conflict_stack" /\ ConflictStack!Init
     \/ helper = "reviewer_two" /\ ReviewerTwo!Init
     \/ helper = "reviewer_one" /\ ReviewerOne!Init
     \/ helper = "audit_shared" /\ AuditShared!Init
     \/ helper = "audit_apart" /\ AuditApart!Init

HelpersNext ==
  \/ helper = "none" /\ Next /\ UNCHANGED <<helper, helperVars>>
  \/ helper = "ci_loop" /\ CiLoop!Next /\ UNCHANGED <<helper, vars>>
  \/ helper = "ci_steps" /\ CiSteps!Next /\ UNCHANGED <<helper, vars>>
  \/ helper = "review_alone" /\ ReviewAlone!Next /\ UNCHANGED <<helper, vars>>
  \/ helper = "review_steps" /\ ReviewSteps!Next /\ UNCHANGED <<helper, vars>>
  \/ helper = "review_source_only" /\ ReviewSourceOnly!Next /\ UNCHANGED <<helper, vars>>
  \/ helper = "repair_guarded" /\ RepairGuarded!Next /\ UNCHANGED <<helper, vars, hosted>>
  \/ helper = "repair_alone" /\ RepairAlone!Next /\ UNCHANGED <<helper, vars, hosted>>
  \/ helper = "repair_two" /\ RepairTwo!Next /\ UNCHANGED <<helper, vars, hosted>>
  \/ helper = "ci_stack_two" /\ CiStackTwo!Next /\ UNCHANGED <<helper, vars, hosted>>
  \/ helper = "ci_stack_three" /\ CiStackThree!Next /\ UNCHANGED <<helper, vars, hosted>>
  \/ helper = "self_alone" /\ SelfAlone!Next /\ UNCHANGED <<helper, vars>>
  \/ helper = "self_steps" /\ SelfSteps!Next /\ UNCHANGED <<helper, vars>>
  \/ helper = "describe_alone" /\ DescribeAlone!Next /\ UNCHANGED <<helper, vars>>
  \/ helper = "describe_steps" /\ DescribeSteps!Next /\ UNCHANGED <<helper, vars>>
  \/ helper = "conflict_alone" /\ ConflictAlone!Next /\ UNCHANGED <<helper, vars>>
  \/ helper = "conflict_steps" /\ ConflictSteps!Next /\ UNCHANGED <<helper, vars>>
  \/ helper = "conflict_stack" /\ ConflictStack!Next /\ UNCHANGED <<helper, vars>>
  \/ helper = "reviewer_two" /\ ReviewerTwo!Next /\ UNCHANGED <<helper, vars>>
  \/ helper = "reviewer_one" /\ ReviewerOne!Next /\ UNCHANGED <<helper, vars>>
  \/ helper = "audit_shared" /\ AuditShared!Next /\ UNCHANGED <<helper, vars>>
  \/ helper = "audit_apart" /\ AuditApart!Next /\ UNCHANGED <<helper, vars>>

HelpersSpec == HelpersInit /\ [][HelpersNext]_<<helper, vars, helperVars>>

-----------------------------------------------------------------------------
(* What the coordinators have in common, and what each says of it. *)

\* Every variable of the coordinator that runs has its type.
HelperTypeOK ==
  /\ helper = "ci_loop" => CiLoop!TypeOK
  /\ helper = "ci_steps" => CiSteps!TypeOK
  /\ helper = "repair_guarded" => RepairGuarded!TypeOK
  /\ helper = "repair_alone" => RepairAlone!TypeOK
  /\ helper = "repair_two" => RepairTwo!TypeOK
  /\ helper = "ci_stack_two" => CiStackTwo!TypeOK
  /\ helper = "ci_stack_three" => CiStackThree!TypeOK
  /\ helper = "review_alone" => ReviewAlone!TypeOK
  /\ helper = "review_steps" => ReviewSteps!TypeOK
  /\ helper = "review_source_only" => ReviewSourceOnly!TypeOK
  /\ helper = "self_alone" => SelfAlone!TypeOK
  /\ helper = "self_steps" => SelfSteps!TypeOK
  /\ helper = "describe_alone" => DescribeAlone!TypeOK
  /\ helper = "describe_steps" => DescribeSteps!TypeOK
  /\ helper = "conflict_alone" => ConflictAlone!TypeOK
  /\ helper = "conflict_steps" => ConflictSteps!TypeOK
  /\ helper = "conflict_stack" => ConflictStack!TypeOK
  /\ helper = "reviewer_two" => ReviewerTwo!TypeOK
  /\ helper = "reviewer_one" => ReviewerOne!TypeOK
  /\ helper = "audit_shared" => AuditShared!TypeOK
  /\ helper = "audit_apart" => AuditApart!TypeOK

\* Never a second hosted task of ours while one may run (ci_fix_loop.py,
\* fresh_invocation_may_supersede_task; copilot_review_loop.py, command_agent_task;
\* self_review_loop.py, _command_agent_task_pass; pr_description.py, command_agent_task).
\* pr_conflict_resolver.py: and each member on what the one below became.
OneTaskAtATime ==
  [][/\ helper = "ci_loop" => CiLoop!Alone
     /\ helper = "ci_steps" => CiSteps!Alone
     /\ helper = "review_alone" => ReviewAlone!Alone
     /\ helper = "review_steps" => ReviewSteps!Alone
     /\ helper = "review_source_only" => ReviewSourceOnly!Alone
     /\ helper = "self_alone" => SelfAlone!Alone
     /\ helper = "self_steps" => SelfSteps!Alone
     /\ helper = "describe_alone" => DescribeAlone!Alone
     /\ helper = "describe_steps" => DescribeSteps!Alone
     /\ helper = "conflict_alone" => ConflictAlone!Alone
     /\ helper = "conflict_steps" => ConflictSteps!Alone
     /\ helper = "conflict_stack" => ConflictStack!Alone]_helperVars

\* The same is never asked twice: a repair of one snapshot in a sweep, a rerun
\* of one head (ci_fix_loop.py, charge_iteration and retry_diagnosed_ci;
\* copilot_review_loop.py, processed_review_snapshot_ids); nor is a task asked for
\* before the last one is paid for (self_review_loop.py, charge_iteration); nor
\* twice in a sweep (pr_description.py, command_agent_task).
AskedOnce ==
  [][/\ helper = "ci_loop" => CiLoop!OncePerSnapshot /\ CiLoop!RequestedOnce
     /\ helper = "ci_steps" => CiSteps!OncePerSnapshot /\ CiSteps!RequestedOnce
     /\ helper = "review_alone" => ReviewAlone!OncePerSnapshot
     /\ helper = "review_steps" => ReviewSteps!OncePerSnapshot
     /\ helper = "review_source_only" => ReviewSourceOnly!OncePerSnapshot
     /\ helper = "self_alone" => SelfAlone!AskedWhenPaid
     /\ helper = "self_steps" => SelfSteps!AskedWhenPaid
     /\ helper = "describe_alone" => DescribeAlone!AskedOnce
     /\ helper = "describe_steps" => DescribeSteps!AskedOnce]_helperVars

\* Never more hosted tasks, or iterations, than the run may spend
\* (ci_fix_loop.py, exhausted_budget and charge_iteration; copilot_review_loop.py,
\* pipeline_scope and budget_spent; self_review_loop.py, exhausted_budget;
\* pr_description.py: a task a sweep).
BudgetHolds ==
  /\ helper = "ci_loop" => CiLoop!BudgetHolds
  /\ helper = "ci_steps" => CiSteps!BudgetHolds
  /\ helper = "repair_guarded" => RepairGuarded!BudgetHolds
  /\ helper = "repair_alone" => RepairAlone!BudgetHolds
  /\ helper = "repair_two" => RepairTwo!BudgetHolds
  /\ helper = "review_alone" => ReviewAlone!BudgetHolds
  /\ helper = "review_steps" => ReviewSteps!BudgetHolds
  /\ helper = "review_source_only" => ReviewSourceOnly!BudgetHolds
  /\ helper = "self_alone" => SelfAlone!BudgetHolds
  /\ helper = "self_steps" => SelfSteps!BudgetHolds
  /\ helper = "describe_alone" => DescribeAlone!BudgetHolds
  /\ helper = "describe_steps" => DescribeSteps!BudgetHolds

\* Our push only ever extends the branch (ci_fix_loop.py, command_agent_task,
\* command_publish and publish_empty_rerun_commit; copilot_review_loop.py; self_review_loop.py), and
\* nothing newer in the state repository is written over (publish_shared_state).
\* pr_description.py: nor a title or body that the run did not read last, nor a
\* newer run in the index (apply_proposal, update_run_index).
\* pr_conflict_resolver.py: a push moves every branch or none, and drops nothing of
\* others (conflict_push_command).
\* pr_reviewer.py: no pending review is replaced, and one is of the source that the
\* tasks were asked about (ensure_snapshot_unchanged).
\* historical_pr_audit.py: the remote's audit branch is only ever created, and that of a
\* checkout leaves commits behind only where they came after the look that found none
\* (unique_local_work, realign_branch, publish_agent_task_result).
NoPushLost ==
  [][/\ helper = "ci_loop" => CiLoop!Extends
     /\ helper = "ci_steps" => CiSteps!Extends
     /\ helper = "repair_guarded" => RepairGuarded!Extends
     /\ helper = "repair_alone" => RepairAlone!Extends
     /\ helper = "repair_two" => RepairTwo!Extends
     /\ helper = "ci_stack_two" => CiStackTwo!Extends
     /\ helper = "ci_stack_three" => CiStackThree!Extends
     /\ helper = "review_alone" => ReviewAlone!Extends
     /\ helper = "review_steps" => ReviewSteps!Extends
     /\ helper = "review_source_only" => ReviewSourceOnly!Extends
     /\ helper = "self_alone" => SelfAlone!Extends /\ SelfAlone!SharedNeverOlder
     /\ helper = "self_steps" => SelfSteps!Extends
     /\ helper = "describe_alone" => DescribeAlone!OverwritesOnlyPinned /\ DescribeAlone!NeverOlder
     /\ helper = "describe_steps" => DescribeSteps!OverwritesOnlyPinned /\ DescribeSteps!NeverOlder
     /\ helper = "conflict_alone" => ConflictAlone!NothingLost
     /\ helper = "conflict_steps" => ConflictSteps!NothingLost
     /\ helper = "conflict_stack" => ConflictStack!NothingLost
     /\ helper = "reviewer_two" => ReviewerTwo!SourceKept
     /\ helper = "reviewer_one" => ReviewerOne!SourceKept
     /\ helper = "audit_shared" => AuditShared!NothingLost
     /\ helper = "audit_apart" => AuditApart!NothingLost]_helperVars

\* A verdict on record is one that was earned.  ci_fix_loop.py: at a clearance
\* nothing of ours is under way; every check passed at the head of the run, and
\* no publication follows; a flake that failed twice ended twice; a stack is green
\* from the bottom up (verify_stack_member_guard, command_stack_next).
\* copilot_review_loop.py: a clearance stands for a review of that head, an error
\* leaves none, and no thread is resolved without its reply.  self_review_loop.py: a
\* clean head is one that a task reviewed and left as it was.  pr_description.py: a
\* settled head was live with the title and body that the task kept or we wrote.
\* pr_conflict_resolver.py: a clearance is of the live head on a base that did not
\* move on (published_conflict_snapshot, revalidate_pipeline_conflict).
\* pr_reviewer.py: no findings are said of the base that was reviewed, and a verified
\* review stands on the live head (command_check, verify_created_review).
\* historical_pr_audit.py: a clean head is declared clean and published.
VerdictIsEarned ==
  [][/\ helper = "ci_loop" => CiLoop!ClearedIsQuiet'
     /\ helper = "ci_steps" => CiSteps!ClearedIsQuiet'
     /\ helper = "repair_guarded" => RepairGuarded!Cleared' /\ RepairGuarded!ClearedWhenGreen /\ RepairGuarded!TwiceIsTwice
     /\ helper = "repair_alone" => RepairAlone!Cleared' /\ RepairAlone!ClearedWhenGreen /\ RepairAlone!TwiceIsTwice
     /\ helper = "repair_two" => RepairTwo!Cleared' /\ RepairTwo!ClearedWhenGreen /\ RepairTwo!TwiceIsTwice
     /\ helper = "ci_stack_two" => CiStackTwo!Chain' /\ CiStackTwo!CompletesGreen
     /\ helper = "ci_stack_three" => CiStackThree!Chain' /\ CiStackThree!CompletesGreen
     /\ helper = "review_alone" => ReviewAlone!ErrorsUnclear' /\ ReviewAlone!ClearedByReview /\ ReviewAlone!ResolvedAfterReply
     /\ helper = "review_steps" => ReviewSteps!ErrorsUnclear' /\ ReviewSteps!ClearedByReview /\ ReviewSteps!ResolvedAfterReply
     /\ helper = "review_source_only" => ReviewSourceOnly!ErrorsUnclear' /\ ReviewSourceOnly!ClearedByReview /\ ReviewSourceOnly!ResolvedAfterReply
     /\ helper = "self_alone" => SelfAlone!CleanIsReviewed' /\ SelfAlone!ClearedIsLocal
     /\ helper = "self_steps" => SelfSteps!CleanIsReviewed' /\ SelfSteps!ClearedIsLocal
     /\ helper = "describe_alone" => DescribeAlone!Settled' /\ DescribeAlone!ClearedIsLive
     /\ helper = "describe_steps" => DescribeSteps!Settled' /\ DescribeSteps!ClearedIsLive
     /\ helper = "conflict_alone" => ConflictAlone!ClearedIsLive
     /\ helper = "conflict_steps" => ConflictSteps!ClearedIsLive
     /\ helper = "conflict_stack" => ConflictStack!ClearedIsLive
     /\ helper = "reviewer_two" => ReviewerTwo!VerdictHolds
     /\ helper = "reviewer_one" => ReviewerOne!VerdictHolds
     /\ helper = "audit_shared" => AuditShared!CleanIsEarned
     /\ helper = "audit_apart" => AuditApart!CleanIsEarned]_helperVars

\* A push of ours is never lost from the records and never recorded twice, also
\* when the command that made it died (ci_fix_loop.py, prepare_pending_stack_push
\* and finalize_pending_stack_push); no reply names a head that was not published
\* (copilot_review_loop.py, post_missing_replies); the index and the state
\* repository end up with the last run (pr_description.py, update_run_index);
\* replayed branches are on the remote only if the file says so (publish_conflict_result);
\* a pending review is on record, with what the critique left (claim_mutation);
\* an audit's result is nowhere without its state file (command_agent_task).
PublicationIsAccounted ==
  /\ helper = "repair_guarded" => RepairGuarded!Accounted /\ RepairGuarded!CheckpointOnce
  /\ helper = "repair_alone" => RepairAlone!CheckpointOnce
  /\ helper = "repair_two" => RepairTwo!Accounted /\ RepairTwo!CheckpointOnce
  /\ helper = "ci_stack_two" => CiStackTwo!Accounted
  /\ helper = "ci_stack_three" => CiStackThree!Accounted
  /\ helper = "review_alone" => ReviewAlone!RepliesArePublished
  /\ helper = "review_steps" => ReviewSteps!RepliesArePublished
  /\ helper = "review_source_only" => ReviewSourceOnly!RepliesArePublished
  /\ helper = "describe_alone" => DescribeAlone!Accounted
  /\ helper = "describe_steps" => DescribeSteps!Accounted
  /\ helper = "conflict_alone" => ConflictAlone!Accounted
  /\ helper = "conflict_steps" => ConflictSteps!Accounted
  /\ helper = "conflict_stack" => ConflictStack!Accounted
  /\ helper = "reviewer_two" => ReviewerTwo!Accounted
  /\ helper = "reviewer_one" => ReviewerOne!Accounted
  /\ helper = "audit_shared" => AuditShared!Accounted
  /\ helper = "audit_apart" => AuditApart!Accounted
=============================================================================
