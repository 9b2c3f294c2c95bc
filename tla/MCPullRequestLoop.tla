-------------------------- MODULE MCPullRequestLoop --------------------------
(* Small instances of PullRequestLoop: deliveries e1, e2 and e3, session s1, *)
(* and the check run c1, which every delivery about a check tells of.        *)
EXTENDS PullRequestLoop

CONSTANTS e1, e2, e3, s1, c1

OneRun == [d \in Delivery |-> c1]

With(a, b, c) == [d \in Delivery |-> CASE d = e1 -> a [] d = e2 -> b [] d = e3 -> c]

\* The life of a merged pull request beside a review of it; one that was closed,
\* opened again and merged beside a check; one that is opened while a check of
\* it runs and fails; and a merge beside a body that cannot be used.
Lives == {With("opened", "merged", "review"), With("closed", "merged", "failing"),
          With("opened", "pending", "failing"), With("unfit", "merged", "passing")}

\* Opened, checked, merged.
Checked == {With("opened", "merged", "failing")}
=============================================================================
