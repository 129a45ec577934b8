------------------------- MODULE PublicationLifecycle -------------------------
(***************************************************************************)
(* The statuses of a publication and the transitions between them          *)
(* (packages/publication types.ts and lifecycle.ts), with the sets of      *)
(* statuses that the store and the API ask about.                          *)
(***************************************************************************)

InFlight == {"PUBLICATION_REQUESTED", "POLICY_CHECK", "COMMIT_MATERIALIZING",
             "BRANCH_PUBLISHING", "DRAFT_PR_CREATING"}
Executable == InFlight \cup {"PUSH_FAILED", "PR_CREATION_FAILED"}
Retryable == {"PUSH_FAILED", "PR_CREATION_FAILED", "CI_FAILED", "REVISION_REQUIRED",
              "BASE_BRANCH_STALE", "SECURITY_BLOCKED"}
Status == Executable \cup Retryable \cup
  {"CI_MONITORING", "REVIEW_MONITORING", "AWAITING_REVIEW", "READY_FOR_HUMAN_MERGE", "MERGED",
   "POST_MERGE_VERIFYING", "RECOVERY_CONFIRMED", "CLOSED", "PUBLICATION_BLOCKED",
   "CHANGES_REQUESTED", "POST_MERGE_FAILED", "MERGE_REVERTED", "CANCELLED", "TIMED_OUT"}

(* The table of lifecycle.ts. *)
transitions ==
  [st \in Status |->
     CASE st = "PUBLICATION_REQUESTED" -> {"POLICY_CHECK", "CANCELLED"}
       [] st = "POLICY_CHECK" -> {"COMMIT_MATERIALIZING", "PUBLICATION_BLOCKED", "BASE_BRANCH_STALE",
                                  "SECURITY_BLOCKED", "CANCELLED"}
       [] st = "COMMIT_MATERIALIZING" -> {"BRANCH_PUBLISHING", "PUBLICATION_BLOCKED",
                                          "BASE_BRANCH_STALE", "TIMED_OUT"}
       [] st = "BRANCH_PUBLISHING" -> {"DRAFT_PR_CREATING", "PUBLICATION_BLOCKED", "PUSH_FAILED", "TIMED_OUT"}
       [] st = "DRAFT_PR_CREATING" -> {"CI_MONITORING", "PUBLICATION_BLOCKED", "BASE_BRANCH_STALE",
                                       "PR_CREATION_FAILED", "TIMED_OUT"}
       [] st = "CI_MONITORING" -> {"REVIEW_MONITORING", "CI_FAILED", "SECURITY_BLOCKED", "CANCELLED"}
       [] st = "REVIEW_MONITORING" -> {"AWAITING_REVIEW", "CHANGES_REQUESTED", "SECURITY_BLOCKED", "CANCELLED"}
       [] st = "AWAITING_REVIEW" -> {"READY_FOR_HUMAN_MERGE", "CHANGES_REQUESTED", "BASE_BRANCH_STALE",
                                     "CI_FAILED", "SECURITY_BLOCKED", "CANCELLED"}
       [] st = "READY_FOR_HUMAN_MERGE" -> {"MERGED", "CHANGES_REQUESTED", "BASE_BRANCH_STALE",
                                           "CI_FAILED", "SECURITY_BLOCKED"}
       [] st = "MERGED" -> {"POST_MERGE_VERIFYING", "MERGE_REVERTED"}
       [] st = "POST_MERGE_VERIFYING" -> {"RECOVERY_CONFIRMED", "POST_MERGE_FAILED", "MERGE_REVERTED"}
       [] st = "RECOVERY_CONFIRMED" -> {"CLOSED"}
       [] st = "PUSH_FAILED" -> {"BRANCH_PUBLISHING", "CANCELLED"}
       [] st = "PR_CREATION_FAILED" -> {"DRAFT_PR_CREATING", "CANCELLED"}
       [] st = "CI_FAILED" -> {"CI_MONITORING", "REVISION_REQUIRED", "CANCELLED"}
       [] st = "REVISION_REQUIRED" -> {"POLICY_CHECK", "CANCELLED"}
       [] st \in {"CHANGES_REQUESTED", "BASE_BRANCH_STALE", "SECURITY_BLOCKED"} ->
            {"REVISION_REQUIRED", "CANCELLED"}
       [] OTHER -> {}]

assertPublicationTransition(from, to) == from = to \/ to \in transitions[from]
=============================================================================
