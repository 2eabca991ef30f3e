--------------------------- MODULE MCIssueService ---------------------------
(* Instances of IssueService for TLC. *)
EXTENDS IssueService

\* The arcs the repository's own clients ask of POST /status: the Runner's
\* issue_complete and issue_block tools, the UI's buttons, and the documented
\* rejection of a result.
ClientArcs == Transitions \ {<<"running", "needs_human", "human_input_requested">>}

AllArcs == Transitions
=============================================================================
