--------------------------- MODULE MCWorkflowView ---------------------------
(***************************************************************************)
(* Instances of ChatStream and WorkflowView for TLC: one tab, and pieces of logs *)
(* of a review, each in the order the run task emits it, with file events of a    *)
(* reviewer in between.                                                           *)
(***************************************************************************)
EXTENDS WorkflowView

Accepted == Verdict("yes")

\* Repo mode from the clone to the first reviewers.
CloneAndAccept ==
  <<Progress("clone_repo", "active"), Progress("clone_repo", "fired"), Accepted,
    Progress("owasp_review", "fired"), FileProgress("injection_review", "file_done")>>

\* PR mode: the last reviewers come in, two of them with nothing.
Reviewers ==
  <<Accepted, Progress("injection_review", "fired"), Progress("dependency_review", "empty"),
    Progress("configuration_review", "empty"), Progress("review_decision", "empty")>>

\* The end of a review, from the last reviewer on.
Ending ==
  <<Progress("injection_review", "fired"), Progress("review_decision", "fired"),
    Progress("aggregate_results", "fired"), Progress("publish_report", "fired"),
    Terminal("__done__")>>

Rejected ==
  <<Progress("clone_repo", "fired"), Verdict("no"), Progress("retrieve_past_context", "empty"),
    Progress("notify_rejection", "rejected"), Terminal("__done__")>>

Stopped ==
  <<Accepted, FileProgress("injection_review", "file_done"),
    Progress("dependency_review", "fired"), Terminal("__cancelled__"),
    FileProgress("injection_review", "finished")>>

MCLogs == {CloneAndAccept, Reviewers, Ending, Rejected, Stopped}

StreamSymmetry == Permutations(Producers)
=============================================================================
