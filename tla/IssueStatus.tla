---------------------------- MODULE IssueStatus ----------------------------
(***************************************************************************)
(* The lifecycle of an Issue as the repository states it twice: as data in *)
(* protocol/state-machine.yaml (the arcs of Protocol) and as the table     *)
(* TRANSITIONS which the endpoint POST /issues/{id}/status accepts.        *)
(* An arc is <<from, to, event>>.                                          *)
(***************************************************************************)

Status == {"ready", "running", "retry_queued", "needs_human", "blocked",
           "reviewing", "awaiting_publish", "pr_open", "done", "cancelled"}

Terminal == {"done", "cancelled"}

\* The statuses in which POST /status accepts a cancellation.
Cancellable == {"ready", "running", "retry_queued", "needs_human", "blocked",
                "reviewing"}

Cancellations == {<<s, "cancelled", "cancelled">> : s \in Cancellable}

\* TRANSITIONS of service.py.
Transitions ==
    Cancellations \cup
    {<<"running", "reviewing", "agent_completed">>,
     <<"running", "needs_human", "human_input_requested">>,
     <<"running", "blocked", "agent_blocked">>,
     <<"reviewing", "ready", "result_rejected">>,
     <<"blocked", "ready", "retry_requested">>}

\* The transitions of protocol/state-machine.yaml.
Protocol ==
    Transitions \cup
    {<<"ready", "running", "claimed">>,
     <<"running", "retry_queued", "retry_scheduled">>,
     <<"running", "retry_queued", "lease_expired">>,
     <<"retry_queued", "ready", "retry_due">>,
     <<"needs_human", "ready", "human_input_resolved">>,
     <<"reviewing", "awaiting_publish", "result_approved">>,
     <<"awaiting_publish", "pr_open", "review_request_created">>,
     <<"pr_open", "done", "review_request_merged">>}
=============================================================================
