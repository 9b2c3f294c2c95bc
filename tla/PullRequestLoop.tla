--------------------------- MODULE PullRequestLoop ---------------------------
(* One pull request as the platform sees it, from two sides that share only  *)
(* the database: the GitHub App's webhook route and its handlers             *)
(* (apps/github-app: routes/webhooks.ts, handlers/, lib/), and the ingest    *)
(* service, which links a session to the pull request its events name        *)
(* (apps/ingest/src/lib/session-pr-link.ts).                                 *)
(*                                                                           *)
(* GitHub sends a delivery again until it hears a 2xx, in no particular      *)
(* order; the route answers 202 once the delivery is recorded and handles it *)
(* detached, so handlers of different deliveries run side by side.  Every    *)
(* step below is one statement or one call of GitHub's API: no handler but   *)
(* the revert pair uses a transaction.                                       *)
(*                                                                           *)
(* Left out: signatures and bodies that are no JSON (answered before anything*)
(* is recorded), revert detection, pushes, the columns of a pull request     *)
(* other than its state, and links made by hand in the dashboard.            *)
EXTENDS Integers, FiniteSets

CONSTANTS
  Delivery,   \* X-GitHub-Delivery ids
  Session,    \* sessions whose events name the pull request and its branch
  CheckRun,   \* check runs of the pull request
  RunOf,      \* RunOf[d]: the check run d tells of, if it tells of one
  MaxSends,   \* how often GitHub may send one delivery (bound)
  MaxTrouble, \* how many things may go wrong (bound)
  Scenario    \* what the deliveries are

\* What a check_run says of its run: no conclusion yet, one of
\* FAILING_CONCLUSIONS, or another.
Conclusion == {"pending", "failing", "passing"}

\* An "unfit" body is one that its handler cannot use: it fails its schema, or
\* names its repository in no form that is known.
Kind == {"opened", "merged", "closed", "review", "unfit"} \cup Conclusion

ASSUME BoundsAssumption ==
  MaxSends \in Nat /\ MaxTrouble \in Nat /\ IsFiniteSet(Delivery)
ASSUME ChecksAssumption == IsFiniteSet(CheckRun) /\ RunOf \in [Delivery -> CheckRun]
ASSUME ScenarioAssumption == Scenario \subseteq [Delivery -> Kind]

NoRollup == -1

VARIABLES
  kind,        \* what each delivery tells (chosen once)
  sent,        \* how often GitHub sent it
  acked,       \* deliveries GitHub heard a 2xx for
  record,      \* webhook_deliveries.status, "none" without a row
  at,          \* where each request's handling is
  found,       \* sessions a handler read in its last SELECT
  counted,     \* ... and the rows it counted
  pr,          \* pull_requests.state, "absent" without a row
  links,       \* session_pr_links
  linker,      \* where ingest's linking of a session is
  unlinked,    \* sessions whose linking failed
  reviews,     \* pr_reviews, by the delivery that told of them
  reviewCount, \* pull_requests.review_count
  checks,      \* pr_check_runs.conclusion of each run, "none" without a row
  failures,    \* pr_rollups.check_failures_count, NoRollup without a row
  comments,    \* summary comments on the pull request
  unheard,     \* those the client got no answer for and posted again (ghost)
  trouble      \* what went wrong so far

github == <<kind, sent, acked>>
local == <<found, counted>>
tables == <<pr, links, reviews, reviewCount, checks, failures>>
ingest == <<linker, unlinked>>
thread == <<comments, unheard>>
vars == <<github, record, at, local, tables, ingest, thread, trouble>>

\* One request for each time a delivery is sent.
Req == Delivery \X (1..MaxSends)
Resting == {"none", "over"}
KindOf(q) == kind[q[1]]
Running(q) == at[q] \notin Resting \cup {"arriving"}

Init ==
  /\ kind \in Scenario
  /\ sent = [d \in Delivery |-> 0] /\ acked = {}
  /\ record = [d \in Delivery |-> "none"]
  /\ at = [q \in Req |-> "none"]
  /\ found = [q \in Req |-> {}] /\ counted = [q \in Req |-> 0]
  /\ pr = "absent" /\ links = {}
  /\ linker = [s \in Session |-> "away"] /\ unlinked = {}
  /\ reviews = {} /\ reviewCount = 0 /\ failures = NoRollup
  /\ checks = [c \in CheckRun |-> "none"]
  /\ comments = 0 /\ unheard = 0 /\ trouble = 0

Goes(q, from, to) == at[q] = from /\ at' = [at EXCEPT ![q] = to]

(***************************************************************************)
(* The route: POST /webhooks/github.                                       *)
(***************************************************************************)

\* Again only once the last request came to nothing GitHub took for a yes.
Send(d) ==
  /\ d \notin acked /\ sent[d] < MaxSends
  /\ \A k \in 1..MaxSends : at[<<d, k>>] # "arriving"
  /\ sent' = [sent EXCEPT ![d] = @ + 1]
  /\ at' = [at EXCEPT ![<<d, sent'[d]>>] = "arriving"]
  /\ UNCHANGED <<kind, acked, record, local, tables, ingest, thread, trouble>>

FirstStep(k) ==
  CASE k \in {"opened", "merged", "closed"} -> "upsert"
    [] k = "review" -> "track"
    [] k \in Conclusion -> "tracked"
    [] k = "unfit" -> "mark"

\* Whether GitHub hears the 202.
Heard(d, heard) ==
  /\ acked' = IF heard THEN acked \cup {d} ELSE acked
  /\ heard \/ trouble < MaxTrouble
  /\ trouble' = IF heard THEN trouble ELSE trouble + 1

\* Slip: the row is upserted, so that no id counts as seen.
AcceptAnyway(q, heard) ==
  /\ Goes(q, "arriving", FirstStep(KindOf(q)))
  /\ record' = [record EXCEPT ![q[1]] = "received"]
  /\ Heard(q[1], heard)
  /\ UNCHANGED <<kind, sent, local, tables, ingest, thread>>

\* The row is written before the answer, and the handler runs after it.  Only
\* then is the body looked at: one that is unfit is passed over.
Accept(q, heard) ==
  /\ record[q[1]] = "none"
  /\ Goes(q, "arriving", FirstStep(KindOf(q)))
  /\ record' = [record EXCEPT ![q[1]] = "received"]
  /\ Heard(q[1], heard)
  /\ UNCHANGED <<kind, sent, local, tables, ingest, thread>>

\* The unique id was seen before: answered, never handled again.
Duplicate(q, heard) ==
  /\ record[q[1]] # "none"
  /\ Goes(q, "arriving", "over")
  /\ Heard(q[1], heard)
  /\ UNCHANGED <<kind, sent, record, local, tables, ingest, thread>>

\* Slip: without a row the delivery is handled all the same, and answered 503.
UnavailableHandled(q) ==
  /\ trouble < MaxTrouble
  /\ Goes(q, "arriving", FirstStep(KindOf(q)))
  /\ trouble' = trouble + 1
  /\ UNCHANGED <<github, record, local, tables, ingest, thread>>

\* Slip: without a row the delivery is answered 202.
UnavailableAcked(q) ==
  /\ trouble < MaxTrouble
  /\ Goes(q, "arriving", "over")
  /\ acked' = acked \cup {q[1]}
  /\ trouble' = trouble + 1
  /\ UNCHANGED <<kind, sent, record, local, tables, ingest, thread>>

\* The row cannot be written, as far as the route can tell: 503, so that GitHub
\* sends the delivery again.  If only the database's answer was lost the row is
\* there, and the delivery is a duplicate when it comes again.
Unavailable(q) ==
  /\ trouble < MaxTrouble
  /\ Goes(q, "arriving", "over")
  /\ \/ UNCHANGED record
     \/ record[q[1]] = "none" /\ record' = [record EXCEPT ![q[1]] = "received"]
  /\ trouble' = trouble + 1
  /\ UNCHANGED <<github, local, tables, ingest, thread>>

(***************************************************************************)
(* pull_request: opened or synchronize, closed, merged.                    *)
(***************************************************************************)

\* A race of two creates is retried once and then finds the row.
UpsertPullRequest(q) ==
  /\ Goes(q, "upsert", CASE KindOf(q) = "opened" -> "match"
                         [] KindOf(q) = "merged" -> "shas"
                         [] KindOf(q) = "closed" -> "mark")
  /\ pr' = CASE KindOf(q) = "opened" -> "OPEN"
             [] KindOf(q) = "merged" -> "MERGED"
             [] KindOf(q) = "closed" -> "CLOSED"
  /\ UNCHANGED <<github, record, local, links, reviews, reviewCount, checks, failures,
                 ingest, thread, trouble>>

\* The token and the commits of the pull request, from GitHub.
ListCommits(q) ==
  /\ Goes(q, "shas", "match")
  /\ UNCHANGED <<github, record, local, tables, ingest, thread, trouble>>

\* backfillPRLinks reads the sessions of the branch that have no link ...
Match(q) ==
  /\ Goes(q, "match", "link")
  /\ found' = [found EXCEPT ![q] = {s \in Session \ links : linker[s] # "away"}]
  /\ UNCHANGED <<github, record, counted, tables, ingest, thread, trouble>>

\* ... and links them, skipping those linked meanwhile.
Link(q) ==
  /\ Goes(q, "link", IF KindOf(q) = "merged" THEN "rollup" ELSE "mark")
  /\ links' = links \cup found[q]
  /\ UNCHANGED <<github, record, local, pr, reviews, reviewCount, checks, failures,
                 ingest, thread, trouble>>

\* computePRRollup: the counter of failed checks is not part of what it writes.
Rollup(q) ==
  /\ Goes(q, "rollup", "list")
  /\ failures' = IF failures = NoRollup THEN 0 ELSE failures
  /\ UNCHANGED <<github, record, local, pr, links, reviews, reviewCount, checks,
                 ingest, thread, trouble>>

\* maybePostComment looks for a summary that is there already ...
ListComments(q) ==
  /\ Goes(q, "list", IF comments > 0 THEN "mark" ELSE "post")
  /\ UNCHANGED <<github, record, local, tables, ingest, thread, trouble>>

\* ... and posts its own if there is none.
PostComment(q) ==
  /\ Goes(q, "post", "mark")
  /\ comments' = comments + 1
  /\ UNCHANGED <<github, record, local, tables, ingest, unheard, trouble>>

\* The comment is there, but its answer is lost on the way or is a 5xx: the
\* client sends the POST again, without a look at the comments.
PostAgain(q) ==
  /\ at[q] = "post" /\ trouble < MaxTrouble
  /\ comments' = comments + 1 /\ unheard' = unheard + 1
  /\ trouble' = trouble + 1
  /\ UNCHANGED <<github, record, at, local, tables, ingest>>

\* No token, no .aiot.yml, or a call that fails: the comment is skipped and the
\* delivery is none the worse for it.
SkipComment(q) ==
  /\ Goes(q, "list", "mark") \/ Goes(q, "post", "mark")
  /\ UNCHANGED <<github, record, local, tables, ingest, thread, trouble>>

(***************************************************************************)
(* pull_request_review and check_run.                                      *)
(***************************************************************************)

\* A pull request that is not tracked yet is created from the payload, as open
\* as it was when the review was written.
Track(q) ==
  /\ Goes(q, "track", IF pr = "absent" THEN "create" ELSE "review")
  /\ UNCHANGED <<github, record, local, tables, ingest, thread, trouble>>

CreateFromReview(q) ==
  /\ Goes(q, "create", "review")
  /\ pr' = "OPEN"
  /\ UNCHANGED <<github, record, local, links, reviews, reviewCount, checks, failures,
                 ingest, thread, trouble>>

UpsertReview(q) ==
  /\ Goes(q, "review", "countReviews")
  /\ reviews' = reviews \cup {q[1]}
  /\ UNCHANGED <<github, record, local, pr, links, reviewCount, checks, failures,
                 ingest, thread, trouble>>

CountReviews(q) ==
  /\ Goes(q, "countReviews", "writeReviews")
  /\ counted' = [counted EXCEPT ![q] = Cardinality(reviews)]
  /\ UNCHANGED <<github, record, found, tables, ingest, thread, trouble>>

WriteReviewCount(q) ==
  /\ Goes(q, "writeReviews", "mark")
  /\ reviewCount' = counted[q]
  /\ UNCHANGED <<github, record, local, pr, links, reviews, checks, failures,
                 ingest, thread, trouble>>

\* Only for a pull request that is tracked.
TrackedCheck(q) ==
  /\ Goes(q, "tracked", IF pr = "absent" THEN "mark" ELSE "check")
  /\ UNCHANGED <<github, record, local, tables, ingest, thread, trouble>>

\* The row of the run is written over, whatever it said and however old the
\* delivery is; without a conclusion that is all.
UpsertCheckRun(q) ==
  /\ Goes(q, "check", IF KindOf(q) = "pending" THEN "mark" ELSE "countChecks")
  /\ checks' = [checks EXCEPT ![RunOf[q[1]]] = KindOf(q)]
  /\ UNCHANGED <<github, record, local, pr, links, reviews, reviewCount, failures,
                 ingest, thread, trouble>>

Failing == {c \in CheckRun : checks[c] = "failing"}

CountChecks(q) ==
  /\ Goes(q, "countChecks", "writeChecks")
  /\ counted' = [counted EXCEPT ![q] = Cardinality(Failing)]
  /\ UNCHANGED <<github, record, found, tables, ingest, thread, trouble>>

\* updateMany: no row, no update.
WriteFailures(q) ==
  /\ Goes(q, "writeChecks", "mark")
  /\ failures' = IF failures = NoRollup THEN NoRollup ELSE counted[q]
  /\ UNCHANGED <<github, record, local, pr, links, reviews, reviewCount, checks,
                 ingest, thread, trouble>>

(***************************************************************************)
(* How a handler ends.                                                     *)
(***************************************************************************)

MarkProcessed(q) ==
  /\ Goes(q, "mark", "over")
  /\ record' = [record EXCEPT ![q[1]] = "processed"]
  /\ UNCHANGED <<github, local, tables, ingest, thread, trouble>>

\* Slip: the row is marked in a finally block.
HandlerFailsQuietly(q) ==
  /\ Running(q) /\ at[q] # "mark" /\ trouble < MaxTrouble
  /\ at' = [at EXCEPT ![q] = "over"]
  /\ record' = [record EXCEPT ![q[1]] = "processed"]
  /\ trouble' = trouble + 1
  /\ UNCHANGED <<github, local, tables, ingest, thread>>

\* A statement or call throws; what was written before it stays.  Writing down
\* the error may fail as well.
HandlerFails(q) ==
  /\ Running(q) /\ at[q] # "mark" /\ trouble < MaxTrouble
  /\ at' = [at EXCEPT ![q] = "over"]
  /\ record' \in {record, [record EXCEPT ![q[1]] = "error"]}
  /\ trouble' = trouble + 1
  /\ UNCHANGED <<github, local, tables, ingest, thread>>

\* The last update fails: logged, and the row goes on saying "received".
MarkFails(q) ==
  /\ trouble < MaxTrouble
  /\ Goes(q, "mark", "over")
  /\ trouble' = trouble + 1
  /\ UNCHANGED <<github, record, local, tables, ingest, thread>>

\* The process dies and nothing takes its handlers up again.
Crash ==
  /\ trouble < MaxTrouble
  /\ \E q \in Req : at[q] \notin Resting
  /\ at' = [q \in Req |-> IF at[q] \in Resting THEN at[q] ELSE "over"]
  /\ trouble' = trouble + 1
  /\ UNCHANGED <<github, record, local, tables, ingest, thread>>

(***************************************************************************)
(* Ingest: a session is stored, then linked if the pull request is known.  *)
(***************************************************************************)

StoreSession(s) ==
  /\ linker[s] = "away"
  /\ linker' = [linker EXCEPT ![s] = "stored"]
  /\ UNCHANGED <<github, record, at, local, tables, unlinked, thread, trouble>>

\* Slip: only a pull request that is open is looked for.
FindPullRequestOpen(s) ==
  /\ linker[s] = "stored"
  /\ linker' = [linker EXCEPT ![s] = IF pr # "OPEN" THEN "over" ELSE "known"]
  /\ UNCHANGED <<github, record, at, local, tables, unlinked, thread, trouble>>

FindPullRequest(s) ==
  /\ linker[s] = "stored"
  /\ linker' = [linker EXCEPT ![s] = IF pr = "absent" THEN "over" ELSE "known"]
  /\ UNCHANGED <<github, record, at, local, tables, unlinked, thread, trouble>>

LinkSession(s) ==
  /\ linker[s] = "known"
  /\ linker' = [linker EXCEPT ![s] = "over"]
  /\ links' = links \cup {s}
  /\ UNCHANGED <<github, record, at, local, pr, reviews, reviewCount, checks, failures,
                 unlinked, thread, trouble>>

\* Best effort: the failure is logged and nothing tries again.
LinkFails(s) ==
  /\ linker[s] \in {"stored", "known"} /\ trouble < MaxTrouble
  /\ linker' = [linker EXCEPT ![s] = "over"]
  /\ unlinked' = unlinked \cup {s}
  /\ trouble' = trouble + 1
  /\ UNCHANGED <<github, record, at, local, tables, thread>>

Arrives(q) == Unavailable(q) \/ \E heard \in BOOLEAN : Accept(q, heard) \/ Duplicate(q, heard)

Handle(q) ==
  \/ UpsertPullRequest(q) \/ ListCommits(q) \/ Match(q) \/ Link(q) \/ Rollup(q)
  \/ ListComments(q) \/ PostComment(q) \/ SkipComment(q)
  \/ Track(q) \/ CreateFromReview(q) \/ UpsertReview(q) \/ CountReviews(q)
  \/ WriteReviewCount(q)
  \/ TrackedCheck(q) \/ UpsertCheckRun(q) \/ CountChecks(q) \/ WriteFailures(q)
  \/ MarkProcessed(q)

Ingest(s) == StoreSession(s) \/ FindPullRequest(s) \/ LinkSession(s) \/ LinkFails(s)

Next ==
  \/ \E d \in Delivery : Send(d)
  \/ \E q \in Req : Arrives(q) \/ Handle(q) \/ PostAgain(q) \/ HandlerFails(q) \/ MarkFails(q)
  \/ Crash
  \/ \E s \in Session : Ingest(s)

Spec == Init /\ [][Next]_vars

\* GitHub sends until it is answered; a request that arrived is answered; a
\* handler of a process that lives goes on.
Fairness ==
  /\ \A d \in Delivery : WF_vars(Send(d))
  /\ \A q \in Req : WF_vars(Arrives(q)) /\ WF_vars(Handle(q))

FairSpec == Spec /\ Fairness

(***************************************************************************)
(* Properties.                                                             *)
(***************************************************************************)

\* Every variable has its type, and no delivery is handled twice at a time.
TypeOK ==
  /\ \A d \in Delivery, j, k \in 1..MaxSends :
       Running(<<d, j>>) /\ Running(<<d, k>>) => j = k
  /\ kind \in Scenario
  /\ sent \in [Delivery -> 0..MaxSends] /\ acked \subseteq Delivery
  /\ record \in [Delivery -> {"none", "received", "processed", "error"}]
  /\ at \in [Req -> Resting \cup
       {"arriving", "upsert", "shas", "match", "link", "rollup", "list", "post", "track",
        "create", "review", "countReviews", "writeReviews", "tracked", "check",
        "countChecks", "writeChecks", "mark"}]
  /\ found \in [Req -> SUBSET Session]
  /\ counted \in [Req -> Nat]
  /\ pr \in {"absent", "OPEN", "CLOSED", "MERGED"}
  /\ links \subseteq Session
  /\ linker \in [Session -> {"away", "stored", "known", "over"}]
  /\ unlinked \subseteq Session
  /\ reviews \subseteq Delivery /\ reviewCount \in Nat
  /\ checks \in [CheckRun -> Conclusion \cup {"none"}]
  /\ failures \in Nat \cup {NoRollup}
  /\ comments \in Nat /\ unheard \in Nat /\ trouble \in 0..MaxTrouble

\* However often a merge is delivered, in whatever order its requests and their
\* calls interleave and whenever the process dies, its pull request gets one
\* summary comment at most from the handlers (webhooks.ts:83), and beyond that
\* only those that the GitHub client posts again for want of an answer.
OneComment ==
  Cardinality({d \in Delivery : kind[d] = "merged"}) <= 1 => comments <= 1 + unheard

\* Whether ingest links a session first or the webhook reads the sessions
\* first, a session that is stored when its linking is over has its link once
\* an "opened" or a merge is processed: each side commits its own row before it
\* looks for the other's (session-pr-link.ts:5, backfill-pr-links.ts:42).
LinkNotLost ==
  \A s \in Session, d \in Delivery :
    /\ linker[s] = "over" /\ s \notin unlinked
    /\ kind[d] \in {"opened", "merged"} /\ record[d] = "processed"
    => s \in links

\* What a processed delivery must have left in the tables.
Effect(d) ==
  CASE kind[d] \in {"opened", "closed"} -> pr # "absent"
    [] kind[d] = "merged" -> pr # "absent" /\ failures # NoRollup
    [] kind[d] = "review" -> d \in reviews
    [] kind[d] \in Conclusion -> TRUE

\* A delivery GitHub will not send again has had its effect, or its row says
\* "received" or "error": a loss can be seen
\* (jobs/sweep-stale-deliveries.ts).  So it is with every body its handler can
\* use; one that is unfit is "processed" like any other, and only the log tells.
LossIsVisible ==
  \A d \in acked :
    \/ record[d] \in {"received", "error"}
    \/ record[d] = "processed" /\ (kind[d] # "unfit" => Effect(d))

\* Every delivery is recorded in the end, whatever was unavailable or died when
\* it first came, and none stays under way for ever.
EveryDeliveryRecorded ==
  <>[](\A d \in Delivery : d \in acked /\ record[d] # "none"
         /\ \A k \in 1..MaxSends : at[<<d, k>>] \in Resting)

\* Once nothing is under way and nothing failed, the counter on the rollup
\* "always equals the number of failing runs" (check-run.ts:95).
FailuresCounted ==
  (/\ \A q \in Req : at[q] \in Resting
   /\ trouble = 0 /\ failures # NoRollup)
  => failures = Cardinality(Failing)
=============================================================================
