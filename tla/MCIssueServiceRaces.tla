------------------------ MODULE MCIssueServiceRaces ------------------------
(* Instances of IssueServiceRaces for TLC. *)
EXTENDS IssueServiceRaces, TLC

\* The arcs that the repository's own clients ask of POST /status.
ClientArcs == Transitions \ {<<"running", "needs_human", "human_input_requested">>}

\* Of those, the cancellation of a running Issue.
RunningCancels == {arc \in Transitions : arc[1] = "running" /\ arc[2] = "cancelled"}

\* Handlers are interchangeable: no action and no invariant names one.
Symmetry == Permutations(Handlers)
=============================================================================
