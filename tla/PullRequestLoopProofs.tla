------------------------ MODULE PullRequestLoopProofs ------------------------
(***************************************************************************)
(* Proofs about PullRequestLoop: its types, that the handlers give a merge *)
(* one comment at most, that no link is lost between ingest and the        *)
(* webhook, that a delivery that was acknowledged has had its effect or    *)
(* shows that it has not, that a settled delivery stays settled, and that  *)
(* the counters of a pull request say nothing no delivery has told.        *)
(***************************************************************************)
EXTENDS PullRequestLoop, FiniteSetTheorems, TLAPS

\* The stages a delivery of each kind goes through.
StagesOf(k) ==
  CASE k = "opened" -> {"upsert", "match", "link", "mark"}
    [] k = "merged" -> {"upsert", "shas", "match", "link", "rollup", "list", "post", "mark"}
    [] k = "closed" -> {"upsert", "mark"}
    [] k = "review" -> {"track", "create", "review", "countReviews", "writeReviews", "mark"}
    [] k \in Conclusion -> {"tracked", "check", "countChecks", "writeChecks", "mark"}
    [] k = "unfit" -> {"mark"}

\* What a handler that has come so far has left in the tables.
Left(q) ==
  /\ KindOf(q) \in {"opened", "merged", "closed"} /\ at[q] # "upsert" => pr # "absent"
  /\ KindOf(q) = "merged" /\ at[q] \in {"list", "post", "mark"} => failures # NoRollup
  /\ KindOf(q) = "review" /\ at[q] \in {"countReviews", "writeReviews", "mark"}
       => q[1] \in reviews

\* A request that is handled is of a delivery that is recorded and not settled.
Progress ==
  \A q \in Req : Running(q) =>
    at[q] \in StagesOf(KindOf(q)) /\ record[q[1]] = "received" /\ Left(q)

\* A settled delivery has had its effect unless its body was unfit; an
\* acknowledged one is recorded.
Settled ==
  /\ \A d \in Delivery : record[d] = "processed" /\ kind[d] # "unfit" => Effect(d)
  /\ \A d \in acked : record[d] # "none"

\* A session whose linking found no pull request, and that has no link yet.
Missed(s) == linker[s] = "over" /\ s \notin unlinked /\ s \notin links

\* Such a session is linked by every handler that goes on to look for sessions:
\* it is among those a handler has read, and none has got past its links.
Linked ==
  \A s \in Session : Missed(s) =>
    /\ \A q \in Req : KindOf(q) \in {"opened", "merged"} =>
         /\ at[q] \notin {"rollup", "list", "post", "mark"}
         /\ at[q] = "link" => s \in found[q]
    /\ \A d \in Delivery : kind[d] \in {"opened", "merged"} => record[d] # "processed"

\* With one merge, nobody has been heard to comment while a handler is about to.
OneMerge == \A d, e \in Delivery : kind[d] = "merged" /\ kind[e] = "merged" => d = e

Commented ==
  /\ unheard <= comments
  /\ OneMerge => comments <= 1 + unheard /\ \A q \in Req : at[q] = "post" => comments = unheard

Inv == TypeOK /\ Progress /\ Settled /\ Linked /\ Commented

\* The types alone; TypeOK says besides that no delivery is handled twice at a time.
Stage == Resting \cup
  {"arriving", "upsert", "shas", "match", "link", "rollup", "list", "post", "track",
   "create", "review", "countReviews", "writeReviews", "tracked", "check",
   "countChecks", "writeChecks", "mark"}

Types ==
  /\ kind \in [Delivery -> Kind]
  /\ sent \in [Delivery -> 0..MaxSends] /\ acked \subseteq Delivery
  /\ record \in [Delivery -> {"none", "received", "processed", "error"}]
  /\ at \in [Req -> Stage]
  /\ found \in [Req -> SUBSET Session]
  /\ counted \in [Req -> Nat]
  /\ pr \in {"absent", "OPEN", "CLOSED", "MERGED"}
  /\ links \subseteq Session
  /\ linker \in [Session -> {"away", "stored", "known", "over"}]
  /\ unlinked \subseteq Session
  /\ reviews \subseteq Delivery /\ reviewCount \in Nat
  /\ checks \in [CheckRun -> Conclusion \cup {"none"}]
  /\ failures \in Nat \cup {NoRollup}
  /\ comments \in Nat /\ unheard \in Nat /\ trouble \in 0..MaxTrouble

\* No delivery is handled twice at a time.
Alone ==
  \A d \in Delivery, j, k \in 1..MaxSends : Running(<<d, j>>) /\ Running(<<d, k>>) => j = k

\* What is in the tables stays, and a delivery is what it is.
Monotone ==
  /\ kind' = kind
  /\ pr # "absent" => pr' # "absent"
  /\ failures # NoRollup => failures' # NoRollup
  /\ reviews \subseteq reviews'

-----------------------------------------------------------------------------
(* Types.                                                                  *)

\* There are as many rows of a table as a number says.
LEMMA CountsFit ==
  /\ \A S \in SUBSET Delivery : IsFiniteSet(S) /\ Cardinality(S) \in Nat
  /\ \A S \in SUBSET CheckRun : IsFiniteSet(S) /\ Cardinality(S) \in Nat
BY BoundsAssumption, ChecksAssumption, FS_Subset, FS_CardinalityType

\* Every kind of delivery has a stage to begin with.
LEMMA FirstStages ==
  ASSUME NEW k \in Kind
  PROVE  /\ FirstStep(k) \in StagesOf(k)
         /\ FirstStep(k) \in {"upsert", "track", "tracked"} \/ (FirstStep(k) = "mark" /\ k = "unfit")
BY DEF Kind, Conclusion, FirstStep, StagesOf

\* Every delivery has a kind.
LEMMA Kinds == TypeOK => \A q \in Req : KindOf(q) \in Kind /\ q[1] \in Delivery
BY ScenarioAssumption DEF TypeOK, KindOf, Req

\* The invariant holds before anything is delivered.
LEMMA InvInit == Init => Inv
<1> SUFFICES ASSUME Init PROVE Inv
  OBVIOUS
<1>1. \A q \in Req : at[q] = "none"
  BY DEF Init
<1>2. TypeOK
  <2>1. checks \in [CheckRun -> Conclusion \cup {"none"}]
    BY DEF Init
  <2>2. \A d \in Delivery, j \in 1..MaxSends : ~Running(<<d, j>>)
    BY <1>1 DEF Running, Resting, Req
  <2>3. QED
    BY <2>1, <2>2, BoundsAssumption DEF Init, TypeOK, Resting
<1>3. Progress
  BY <1>1 DEF Progress, Running, Resting
<1>4. Settled /\ Linked /\ Commented
  BY <1>1 DEF Init, Settled, Linked, Missed, Commented
<1> QED
  BY <1>2, <1>3, <1>4 DEF Inv

\* TypeOK is the types and the rule of one handler at a time.
LEMMA TypeParts == TypeOK => Types /\ Alone
BY ScenarioAssumption DEF TypeOK, Types, Alone, Stage

\* The parts of the invariant, by name.
LEMMA InvParts == Inv => Types /\ Alone /\ Progress /\ Settled /\ Linked /\ Commented
BY TypeParts DEF Inv

\* No step breaks a type.
LEMMA TypesNext == Inv /\ [Next]_vars => Types'
<1> SUFFICES ASSUME Inv, [Next]_vars PROVE Types'
  OBVIOUS
<1>0. Types
  BY InvParts
<1> USE <1>0, BoundsAssumption DEF github, local, tables, ingest, thread
<1>1. ASSUME NEW d \in Delivery, Send(d) PROVE Types'
  <2>1. sent' \in [Delivery -> 0..MaxSends]
    BY <1>1 DEF Send, Types
  <2>2. at' \in [Req -> Stage]
    BY <1>1 DEF Send, Types, Stage
  <2>3. QED
    BY <1>1, <2>1, <2>2 DEF Send, Types
<1>2. ASSUME NEW q \in Req, UpsertPullRequest(q) PROVE Types'
  <2>1. at' \in [Req -> Stage] /\ pr' \in {"absent", "OPEN", "CLOSED", "MERGED"}
    <3>1. KindOf(q) \in {"opened", "merged", "closed"}
      BY <1>2, Kinds DEF UpsertPullRequest, Goes, Inv, Progress, Running, Resting, StagesOf, Kind, Conclusion
    <3>2. QED
      BY <1>2, <3>1 DEF UpsertPullRequest, Goes, Types, Stage
  <2>2. QED
    BY <1>2, <2>1 DEF UpsertPullRequest, Types
<1>3. ASSUME NEW q \in Req, ListCommits(q) PROVE Types'
  BY <1>3 DEF ListCommits, Types, Goes, Stage, Resting
<1>4. ASSUME NEW q \in Req, Match(q) PROVE Types'
  BY <1>4 DEF Match, Types, Goes, Stage, Resting
<1>5. ASSUME NEW q \in Req, Link(q) PROVE Types'
  BY <1>5 DEF Link, Types, Goes, Stage, Resting
<1>6. ASSUME NEW q \in Req, Rollup(q) PROVE Types'
  BY <1>6 DEF Rollup, Types, Goes, Stage
<1>7. ASSUME NEW q \in Req, ListComments(q) PROVE Types'
  BY <1>7 DEF ListComments, Types, Goes, Stage, Resting
<1>8. ASSUME NEW q \in Req, PostComment(q) PROVE Types'
  BY <1>8 DEF PostComment, Types, Goes, Stage, Resting
<1>9. ASSUME NEW q \in Req, SkipComment(q) PROVE Types'
  BY <1>9 DEF SkipComment, Types, Goes, Stage, Resting
<1>10. ASSUME NEW q \in Req, Track(q) PROVE Types'
  BY <1>10 DEF Track, Types, Goes, Stage, Resting
<1>11. ASSUME NEW q \in Req, CreateFromReview(q) PROVE Types'
  BY <1>11 DEF CreateFromReview, Types, Goes, Stage, Resting
<1>12. ASSUME NEW q \in Req, UpsertReview(q) PROVE Types'
  BY <1>12 DEF UpsertReview, Types, Goes, Stage, Req
<1>13. ASSUME NEW q \in Req, CountReviews(q) PROVE Types'
  <2>1. Cardinality(reviews) \in Nat
    BY CountsFit DEF Types
  <2>2. QED
    BY <1>13, <2>1 DEF CountReviews, Types, Goes, Stage
<1>14. ASSUME NEW q \in Req, WriteReviewCount(q) PROVE Types'
  BY <1>14 DEF WriteReviewCount, Types, Goes, Stage, Resting
<1>15. ASSUME NEW q \in Req, TrackedCheck(q) PROVE Types'
  BY <1>15 DEF TrackedCheck, Types, Goes, Stage, Resting
<1>16. ASSUME NEW q \in Req, UpsertCheckRun(q) PROVE Types'
  <2>1. KindOf(q) \in Conclusion
    BY <1>16, Kinds DEF UpsertCheckRun, Goes, Inv, Progress, Running, Resting, StagesOf, Kind, Conclusion
  <2>2. checks' \in [CheckRun -> Conclusion \cup {"none"}] /\ at' \in [Req -> Stage]
    BY <1>16, <2>1 DEF UpsertCheckRun, Types, Goes, Stage
  <2>3. QED
    BY <1>16, <2>2 DEF UpsertCheckRun, Types
<1>17. ASSUME NEW q \in Req, CountChecks(q) PROVE Types'
  <2>1. Cardinality(Failing) \in Nat
    BY CountsFit DEF Failing
  <2>2. QED
    BY <1>17, <2>1 DEF CountChecks, Types, Goes, Stage
<1>18. ASSUME NEW q \in Req, WriteFailures(q) PROVE Types'
  <2>1. at' \in [Req -> Stage] /\ failures' \in Nat \cup {NoRollup}
    BY <1>18 DEF WriteFailures, Goes, Types, Stage
  <2>2. QED
    BY <1>18, <2>1 DEF WriteFailures, Types
<1>19. ASSUME NEW q \in Req, MarkProcessed(q) PROVE Types'
  BY <1>19 DEF MarkProcessed, Types, Goes, Stage, Resting
<1>20. ASSUME NEW q \in Req, HandlerFails(q) PROVE Types'
  BY <1>20 DEF HandlerFails, Types, Goes, Stage, Resting
<1>21. ASSUME NEW q \in Req, MarkFails(q) PROVE Types'
  BY <1>21 DEF MarkFails, Types, Goes, Stage, Resting
<1>22. ASSUME NEW q \in Req, Unavailable(q) PROVE Types'
  <2>1. record' \in [Delivery -> {"none", "received", "processed", "error"}]
    BY <1>22 DEF Unavailable, Types
  <2>2. QED
    BY <1>22, <2>1 DEF Unavailable, Types, Goes, Stage, Resting
<1>23. ASSUME NEW q \in Req, NEW heard \in BOOLEAN, Accept(q, heard) PROVE Types'
  <2>1. FirstStep(KindOf(q)) \in Stage
    BY FirstStages DEF Types, KindOf, Req, Stage
  <2>2. at' \in [Req -> Stage] /\ record' \in [Delivery -> {"none", "received", "processed", "error"}]
    BY <1>23, <2>1 DEF Accept, Goes, Types
  <2>3. acked' \subseteq Delivery /\ trouble' \in 0..MaxTrouble
    BY <1>23 DEF Accept, Heard, Types, Req
  <2>4. QED
    BY <1>23, <2>2, <2>3 DEF Accept, Types
<1>24. ASSUME NEW q \in Req, NEW heard \in BOOLEAN, Duplicate(q, heard) PROVE Types'
  <2>1. acked' \subseteq Delivery /\ trouble' \in 0..MaxTrouble
    BY <1>24 DEF Duplicate, Heard, Types, Req
  <2>2. QED
    BY <1>24, <2>1 DEF Duplicate, Goes, Types, Stage, Resting
<1>25. CASE Crash
  BY <1>25 DEF Crash, Types, Goes, Stage, Resting
<1>26. ASSUME NEW s \in Session, StoreSession(s) PROVE Types'
  BY <1>26 DEF StoreSession, Types, Goes, Stage, Resting
<1>27. ASSUME NEW s \in Session, FindPullRequest(s) PROVE Types'
  BY <1>27 DEF FindPullRequest, Types, Goes, Stage, Resting
<1>28. ASSUME NEW s \in Session, LinkSession(s) PROVE Types'
  BY <1>28 DEF LinkSession, Types, Goes, Stage, Resting
<1>29. ASSUME NEW s \in Session, LinkFails(s) PROVE Types'
  BY <1>29 DEF LinkFails, Types, Goes, Stage, Resting
<1>31. ASSUME NEW q \in Req, PostAgain(q) PROVE Types'
  BY <1>31 DEF PostAgain, Types
<1>30. CASE UNCHANGED vars
  BY <1>30 DEF vars, Types
<1> QED
  BY <1>1, <1>2, <1>3, <1>4, <1>5, <1>6, <1>7, <1>8, <1>9, <1>10, <1>11, <1>12, <1>13, <1>14, <1>15, <1>16, <1>17, <1>18, <1>19, <1>20, <1>21, <1>22, <1>23, <1>24, <1>25, <1>26, <1>27, <1>28, <1>29, <1>30, <1>31
  DEF Next, Arrives, Handle, Ingest

-----------------------------------------------------------------------------
(* The steps.                                                              *)

\* What a step leaves in the tables is still there after it.
LEMMA MonotoneNext == Inv /\ [Next]_vars => Monotone
<1> SUFFICES ASSUME Inv, [Next]_vars PROVE Monotone
  OBVIOUS
<1>0. Types
  BY InvParts
<1> USE <1>0, BoundsAssumption DEF github, local, tables, ingest, thread
<1>1. ASSUME NEW d \in Delivery, Send(d) PROVE Monotone
  BY <1>1 DEF Monotone, Send
<1>2. ASSUME NEW q \in Req, UpsertPullRequest(q) PROVE Monotone
  <2>1. KindOf(q) \in {"opened", "merged", "closed"}
    BY <1>2, Kinds, InvParts DEF UpsertPullRequest, Goes, Inv, Progress, Running, Resting, StagesOf, Kind, Conclusion
  <2>2. QED
    BY <1>2, <2>1 DEF Monotone, UpsertPullRequest
<1>3. ASSUME NEW q \in Req, ListCommits(q) PROVE Monotone
  BY <1>3 DEF Monotone, ListCommits
<1>4. ASSUME NEW q \in Req, Match(q) PROVE Monotone
  BY <1>4 DEF Monotone, Match
<1>5. ASSUME NEW q \in Req, Link(q) PROVE Monotone
  BY <1>5 DEF Monotone, Link
<1>6. ASSUME NEW q \in Req, Rollup(q) PROVE Monotone
  BY <1>6 DEF Monotone, Rollup, NoRollup
<1>7. ASSUME NEW q \in Req, ListComments(q) PROVE Monotone
  BY <1>7 DEF Monotone, ListComments
<1>8. ASSUME NEW q \in Req, PostComment(q) PROVE Monotone
  BY <1>8 DEF Monotone, PostComment
<1>9. ASSUME NEW q \in Req, SkipComment(q) PROVE Monotone
  BY <1>9 DEF Monotone, SkipComment
<1>10. ASSUME NEW q \in Req, Track(q) PROVE Monotone
  BY <1>10 DEF Monotone, Track
<1>11. ASSUME NEW q \in Req, CreateFromReview(q) PROVE Monotone
  BY <1>11 DEF Monotone, CreateFromReview
<1>12. ASSUME NEW q \in Req, UpsertReview(q) PROVE Monotone
  BY <1>12 DEF Monotone, UpsertReview
<1>13. ASSUME NEW q \in Req, CountReviews(q) PROVE Monotone
  BY <1>13 DEF Monotone, CountReviews
<1>14. ASSUME NEW q \in Req, WriteReviewCount(q) PROVE Monotone
  BY <1>14 DEF Monotone, WriteReviewCount
<1>15. ASSUME NEW q \in Req, TrackedCheck(q) PROVE Monotone
  BY <1>15 DEF Monotone, TrackedCheck
<1>16. ASSUME NEW q \in Req, UpsertCheckRun(q) PROVE Monotone
  BY <1>16 DEF Monotone, UpsertCheckRun
<1>17. ASSUME NEW q \in Req, CountChecks(q) PROVE Monotone
  BY <1>17 DEF Monotone, CountChecks
<1>18. ASSUME NEW q \in Req, WriteFailures(q) PROVE Monotone
  BY <1>18 DEF Monotone, WriteFailures, Types, NoRollup
<1>19. ASSUME NEW q \in Req, MarkProcessed(q) PROVE Monotone
  BY <1>19 DEF Monotone, MarkProcessed
<1>20. ASSUME NEW q \in Req, HandlerFails(q) PROVE Monotone
  BY <1>20 DEF Monotone, HandlerFails
<1>21. ASSUME NEW q \in Req, MarkFails(q) PROVE Monotone
  BY <1>21 DEF Monotone, MarkFails
<1>22. ASSUME NEW q \in Req, Unavailable(q) PROVE Monotone
  BY <1>22 DEF Monotone, Unavailable
<1>23. ASSUME NEW q \in Req, NEW heard \in BOOLEAN, Accept(q, heard) PROVE Monotone
  BY <1>23 DEF Monotone, Accept
<1>24. ASSUME NEW q \in Req, NEW heard \in BOOLEAN, Duplicate(q, heard) PROVE Monotone
  BY <1>24 DEF Monotone, Duplicate
<1>25. CASE Crash
  BY <1>25 DEF Monotone, Crash
<1>26. ASSUME NEW s \in Session, StoreSession(s) PROVE Monotone
  BY <1>26 DEF Monotone, StoreSession
<1>27. ASSUME NEW s \in Session, FindPullRequest(s) PROVE Monotone
  BY <1>27 DEF Monotone, FindPullRequest
<1>28. ASSUME NEW s \in Session, LinkSession(s) PROVE Monotone
  BY <1>28 DEF Monotone, LinkSession
<1>29. ASSUME NEW s \in Session, LinkFails(s) PROVE Monotone
  BY <1>29 DEF Monotone, LinkFails
<1>31. ASSUME NEW q \in Req, PostAgain(q) PROVE Monotone
  BY <1>31 DEF Monotone, PostAgain
<1>30. CASE UNCHANGED vars
  BY <1>30 DEF Monotone, vars
<1> QED
  BY <1>1, <1>2, <1>3, <1>4, <1>5, <1>6, <1>7, <1>8, <1>9, <1>10, <1>11, <1>12, <1>13, <1>14, <1>15, <1>16, <1>17, <1>18, <1>19, <1>20, <1>21, <1>22, <1>23, <1>24, <1>25, <1>26, <1>27, <1>28, <1>29, <1>30, <1>31
  DEF Next, Arrives, Handle, Ingest


\* A delivery is handled once it has a row, and only a delivery without a row
\* gets one: no second handler is let in.
LEMMA AloneNext == Inv /\ [Next]_vars => Alone'
<1> SUFFICES ASSUME Inv, [Next]_vars PROVE Alone'
  OBVIOUS
<1>0. Types /\ Alone /\ Progress
  BY InvParts
<1> USE <1>0, BoundsAssumption DEF github, local, tables, ingest, thread
<1>1. ASSUME NEW d \in Delivery, Send(d) PROVE Alone'
  BY <1>1 DEF Alone, Running, Resting, Send, Goes, Types
<1>2. ASSUME NEW q \in Req, UpsertPullRequest(q) PROVE Alone'
  BY <1>2 DEF Alone, Running, Resting, UpsertPullRequest, Goes, Types
<1>3. ASSUME NEW q \in Req, ListCommits(q) PROVE Alone'
  BY <1>3 DEF Alone, Running, Resting, ListCommits, Goes, Types
<1>4. ASSUME NEW q \in Req, Match(q) PROVE Alone'
  BY <1>4 DEF Alone, Running, Resting, Match, Goes, Types
<1>5. ASSUME NEW q \in Req, Link(q) PROVE Alone'
  BY <1>5 DEF Alone, Running, Resting, Link, Goes, Types
<1>6. ASSUME NEW q \in Req, Rollup(q) PROVE Alone'
  BY <1>6 DEF Alone, Running, Resting, Rollup, Goes, Types
<1>7. ASSUME NEW q \in Req, ListComments(q) PROVE Alone'
  BY <1>7 DEF Alone, Running, Resting, ListComments, Goes, Types
<1>8. ASSUME NEW q \in Req, PostComment(q) PROVE Alone'
  BY <1>8 DEF Alone, Running, Resting, PostComment, Goes, Types
<1>9. ASSUME NEW q \in Req, SkipComment(q) PROVE Alone'
  <2>1. at[q] \in {"list", "post"} /\ at' = [at EXCEPT ![q] = "mark"]
    BY <1>9 DEF SkipComment, Goes
  <2>2. QED
    BY <2>1 DEF Alone, Running, Resting, Types
<1>10. ASSUME NEW q \in Req, Track(q) PROVE Alone'
  BY <1>10 DEF Alone, Running, Resting, Track, Goes, Types
<1>11. ASSUME NEW q \in Req, CreateFromReview(q) PROVE Alone'
  BY <1>11 DEF Alone, Running, Resting, CreateFromReview, Goes, Types
<1>12. ASSUME NEW q \in Req, UpsertReview(q) PROVE Alone'
  BY <1>12 DEF Alone, Running, Resting, UpsertReview, Goes, Types
<1>13. ASSUME NEW q \in Req, CountReviews(q) PROVE Alone'
  BY <1>13 DEF Alone, Running, Resting, CountReviews, Goes, Types
<1>14. ASSUME NEW q \in Req, WriteReviewCount(q) PROVE Alone'
  BY <1>14 DEF Alone, Running, Resting, WriteReviewCount, Goes, Types
<1>15. ASSUME NEW q \in Req, TrackedCheck(q) PROVE Alone'
  BY <1>15 DEF Alone, Running, Resting, TrackedCheck, Goes, Types
<1>16. ASSUME NEW q \in Req, UpsertCheckRun(q) PROVE Alone'
  BY <1>16 DEF Alone, Running, Resting, UpsertCheckRun, Goes, Types
<1>17. ASSUME NEW q \in Req, CountChecks(q) PROVE Alone'
  BY <1>17 DEF Alone, Running, Resting, CountChecks, Goes, Types
<1>18. ASSUME NEW q \in Req, WriteFailures(q) PROVE Alone'
  BY <1>18 DEF Alone, Running, Resting, WriteFailures, Goes, Types
<1>19. ASSUME NEW q \in Req, MarkProcessed(q) PROVE Alone'
  BY <1>19 DEF Alone, Running, Resting, MarkProcessed, Goes, Types
<1>20. ASSUME NEW q \in Req, HandlerFails(q) PROVE Alone'
  BY <1>20 DEF Alone, Running, Resting, HandlerFails, Goes, Types
<1>21. ASSUME NEW q \in Req, MarkFails(q) PROVE Alone'
  BY <1>21 DEF Alone, Running, Resting, MarkFails, Goes, Types
<1>22. ASSUME NEW q \in Req, Unavailable(q) PROVE Alone'
  BY <1>22 DEF Alone, Running, Resting, Unavailable, Goes, Types
<1>23. ASSUME NEW q \in Req, NEW heard \in BOOLEAN, Accept(q, heard) PROVE Alone'
  BY <1>23 DEF Alone, Running, Resting, Accept, Goes, Types, Progress, Req
<1>24. ASSUME NEW q \in Req, NEW heard \in BOOLEAN, Duplicate(q, heard) PROVE Alone'
  BY <1>24 DEF Alone, Running, Resting, Duplicate, Goes, Types
<1>25. CASE Crash
  <2>1. \A d \in Delivery, j \in 1..MaxSends : ~Running(<<d, j>>)'
    BY <1>25 DEF Crash, Running, Resting, Types, Req
  <2>2. QED
    BY <2>1 DEF Alone
<1>26. ASSUME NEW s \in Session, StoreSession(s) PROVE Alone'
  BY <1>26 DEF Alone, Running, Resting, StoreSession, Goes, Types
<1>27. ASSUME NEW s \in Session, FindPullRequest(s) PROVE Alone'
  BY <1>27 DEF Alone, Running, Resting, FindPullRequest, Goes, Types
<1>28. ASSUME NEW s \in Session, LinkSession(s) PROVE Alone'
  BY <1>28 DEF Alone, Running, Resting, LinkSession, Goes, Types
<1>29. ASSUME NEW s \in Session, LinkFails(s) PROVE Alone'
  BY <1>29 DEF Alone, Running, Resting, LinkFails, Goes, Types
<1>31. ASSUME NEW q \in Req, PostAgain(q) PROVE Alone'
  BY <1>31 DEF Alone, Running, PostAgain
<1>30. CASE UNCHANGED vars
  BY <1>30 DEF Alone, Running, Resting, vars, Goes, Types
<1> QED
  BY <1>1, <1>2, <1>3, <1>4, <1>5, <1>6, <1>7, <1>8, <1>9, <1>10, <1>11, <1>12, <1>13, <1>14, <1>15, <1>16, <1>17, <1>18, <1>19, <1>20, <1>21, <1>22, <1>23, <1>24, <1>25, <1>26, <1>27, <1>28, <1>29, <1>30, <1>31
  DEF Next, Arrives, Handle, Ingest

\* A handler that goes on to a stage of its kind, and leaves in the tables what
\* it should, disturbs no other.
LEMMA GoesOn ==
  ASSUME Types, Progress, Monotone, NEW q \in Req, Running(q), record' = record,
         NEW to \in StagesOf(KindOf(q)), at' = [at EXCEPT ![q] = to], Left(q)'
  PROVE  Progress'
<1> SUFFICES ASSUME NEW p \in Req, Running(p)'
             PROVE  at'[p] \in StagesOf(KindOf(p)') /\ record'[p[1]] = "received" /\ Left(p)'
  BY DEF Progress
<1>1. KindOf(p)' = KindOf(p) /\ KindOf(q)' = KindOf(q)
  BY DEF Monotone, KindOf
<1>2. CASE p = q
  BY <1>1, <1>2 DEF Progress, Types
<1>3. CASE p # q
  <2>1. at'[p] = at[p] /\ Running(p)
    BY <1>3 DEF Types, Running
  <2>2. Left(p)'
    BY <1>1, <2>1 DEF Progress, Left, Monotone
  <2>3. QED
    BY <1>1, <2>1, <2>2 DEF Progress
<1> QED
  BY <1>2, <1>3

\* A handler that comes to rest, and changes no record but that of its
\* delivery, disturbs no other.
LEMMA ComesToRest ==
  ASSUME Types, Alone, Progress, Monotone, NEW q \in Req, Running(q), NEW to \in Resting,
         at' = [at EXCEPT ![q] = to], \A d \in Delivery \ {q[1]} : record'[d] = record[d]
  PROVE  Progress'
<1> SUFFICES ASSUME NEW p \in Req, Running(p)'
             PROVE  at'[p] \in StagesOf(KindOf(p)') /\ record'[p[1]] = "received" /\ Left(p)'
  BY DEF Progress
<1>1. p # q /\ at'[p] = at[p] /\ Running(p)
  BY DEF Types, Running, Resting
<1>2. p[1] # q[1] /\ p[1] \in Delivery
  BY <1>1 DEF Alone, Req
<1>3. Left(p)' /\ KindOf(p)' = KindOf(p)
  BY <1>1 DEF Progress, Left, Monotone, KindOf
<1> QED
  BY <1>1, <1>2, <1>3 DEF Progress

\* A step after which no request is handled that was not before, and that
\* changes neither stages nor records of those that are, keeps the invariant.
LEMMA NobodyMoves ==
  ASSUME Types, Progress, Monotone, record' = record,
         \A p \in Req : Running(p)' => Running(p) /\ at'[p] = at[p]
  PROVE  Progress'
BY DEF Progress, Left, Monotone, KindOf

\* Every handler has left what its stage says.
LEMMA ProgressNext == Inv /\ [Next]_vars => Progress'
<1> SUFFICES ASSUME Inv, [Next]_vars PROVE Progress'
  OBVIOUS
<1>0. Types /\ Alone /\ Progress /\ Monotone
  BY InvParts, MonotoneNext
<1> USE <1>0 DEF github, local, tables, ingest, thread
<1>1. ASSUME NEW d \in Delivery, Send(d) PROVE Progress'
  BY <1>1, NobodyMoves DEF Send, Running, Resting, Types
<1>2. ASSUME NEW q \in Req, UpsertPullRequest(q) PROVE Progress'
  <2>1. KindOf(q) \in {"opened", "merged", "closed"} /\ Running(q) /\ record' = record
    BY <1>2, Kinds, InvParts DEF UpsertPullRequest, Goes, Inv, Progress, Running, Resting, StagesOf, Kind, Conclusion
  <2>2. /\ KindOf(q) = "opened" => at' = [at EXCEPT ![q] = "match"]
        /\ KindOf(q) = "merged" => at' = [at EXCEPT ![q] = "shas"]
        /\ KindOf(q) = "closed" => at' = [at EXCEPT ![q] = "mark"]
    BY <1>2, <2>1 DEF UpsertPullRequest, Goes
  <2>3. Left(q)'
    BY <1>2, <2>1, <2>2 DEF UpsertPullRequest, Left, KindOf, Types
  <2>4. QED
    BY <2>1, <2>2, <2>3, GoesOn DEF StagesOf, Conclusion
<1>3. ASSUME NEW q \in Req, ListCommits(q) PROVE Progress'
  <2>1. Running(q) /\ record' = record /\ at' = [at EXCEPT ![q] = "match"]
    BY <1>3 DEF ListCommits, Goes, Running, Resting
  <2>2. "match" \in StagesOf(KindOf(q)) /\ Left(q)'
    BY <1>3, <2>1, Kinds, InvParts DEF ListCommits, Goes, Inv, Progress, Left, Monotone, KindOf, Kind, Conclusion, StagesOf, Types, NoRollup, Req
  <2>3. QED
    BY <2>1, <2>2, GoesOn
<1>4. ASSUME NEW q \in Req, Match(q) PROVE Progress'
  <2>1. Running(q) /\ record' = record /\ at' = [at EXCEPT ![q] = "link"]
    BY <1>4 DEF Match, Goes, Running, Resting
  <2>2. "link" \in StagesOf(KindOf(q)) /\ Left(q)'
    BY <1>4, <2>1, Kinds, InvParts DEF Match, Goes, Inv, Progress, Left, Monotone, KindOf, Kind, Conclusion, StagesOf, Types, NoRollup, Req
  <2>3. QED
    BY <2>1, <2>2, GoesOn
<1>5. ASSUME NEW q \in Req, Link(q) PROVE Progress'
  <2>1. Running(q) /\ record' = record /\ at' = [at EXCEPT ![q] = (IF KindOf(q) = "merged" THEN "rollup" ELSE "mark")]
    BY <1>5 DEF Link, Goes, Running, Resting
  <2>2. (IF KindOf(q) = "merged" THEN "rollup" ELSE "mark") \in StagesOf(KindOf(q)) /\ Left(q)'
    BY <1>5, <2>1, Kinds, InvParts DEF Link, Goes, Inv, Progress, Left, Monotone, KindOf, Kind, Conclusion, StagesOf, Types, NoRollup, Req
  <2>3. QED
    BY <2>1, <2>2, GoesOn
<1>6. ASSUME NEW q \in Req, Rollup(q) PROVE Progress'
  <2>1. Running(q) /\ record' = record /\ at' = [at EXCEPT ![q] = "list"]
    BY <1>6 DEF Rollup, Goes, Running, Resting
  <2>2. "list" \in StagesOf(KindOf(q)) /\ Left(q)'
    BY <1>6, <2>1, Kinds, InvParts DEF Rollup, Goes, Inv, Progress, Left, Monotone, KindOf, Kind, Conclusion, StagesOf, Types, NoRollup, Req
  <2>3. QED
    BY <2>1, <2>2, GoesOn
<1>7. ASSUME NEW q \in Req, ListComments(q) PROVE Progress'
  <2>1. Running(q) /\ record' = record /\ at' = [at EXCEPT ![q] = (IF comments > 0 THEN "mark" ELSE "post")]
    BY <1>7 DEF ListComments, Goes, Running, Resting
  <2>2. (IF comments > 0 THEN "mark" ELSE "post") \in StagesOf(KindOf(q)) /\ Left(q)'
    BY <1>7, <2>1, Kinds, InvParts DEF ListComments, Goes, Inv, Progress, Left, Monotone, KindOf, Kind, Conclusion, StagesOf, Types, NoRollup, Req
  <2>3. QED
    BY <2>1, <2>2, GoesOn
<1>8. ASSUME NEW q \in Req, PostComment(q) PROVE Progress'
  <2>1. Running(q) /\ record' = record /\ at' = [at EXCEPT ![q] = "mark"]
    BY <1>8 DEF PostComment, Goes, Running, Resting
  <2>2. "mark" \in StagesOf(KindOf(q)) /\ Left(q)'
    BY <1>8, <2>1, Kinds, InvParts DEF PostComment, Goes, Inv, Progress, Left, Monotone, KindOf, Kind, Conclusion, StagesOf, Types, NoRollup, Req
  <2>3. QED
    BY <2>1, <2>2, GoesOn
<1>9. ASSUME NEW q \in Req, SkipComment(q) PROVE Progress'
  <2>1. Running(q) /\ record' = record /\ at' = [at EXCEPT ![q] = "mark"]
    BY <1>9 DEF SkipComment, Goes, Running, Resting
  <2>2. "mark" \in StagesOf(KindOf(q)) /\ Left(q)'
    BY <1>9, <2>1, Kinds, InvParts DEF SkipComment, Goes, Inv, Progress, Left, Monotone, KindOf, Kind, Conclusion, StagesOf, Types, NoRollup, Req
  <2>3. QED
    BY <2>1, <2>2, GoesOn
<1>10. ASSUME NEW q \in Req, Track(q) PROVE Progress'
  <2>1. Running(q) /\ record' = record /\ at' = [at EXCEPT ![q] = (IF pr = "absent" THEN "create" ELSE "review")]
    BY <1>10 DEF Track, Goes, Running, Resting
  <2>2. (IF pr = "absent" THEN "create" ELSE "review") \in StagesOf(KindOf(q)) /\ Left(q)'
    BY <1>10, <2>1, Kinds, InvParts DEF Track, Goes, Inv, Progress, Left, Monotone, KindOf, Kind, Conclusion, StagesOf, Types, NoRollup, Req
  <2>3. QED
    BY <2>1, <2>2, GoesOn
<1>11. ASSUME NEW q \in Req, CreateFromReview(q) PROVE Progress'
  <2>1. Running(q) /\ record' = record /\ at' = [at EXCEPT ![q] = "review"]
    BY <1>11 DEF CreateFromReview, Goes, Running, Resting
  <2>2. "review" \in StagesOf(KindOf(q)) /\ Left(q)'
    BY <1>11, <2>1, Kinds, InvParts DEF CreateFromReview, Goes, Inv, Progress, Left, Monotone, KindOf, Kind, Conclusion, StagesOf, Types, NoRollup, Req
  <2>3. QED
    BY <2>1, <2>2, GoesOn
<1>12. ASSUME NEW q \in Req, UpsertReview(q) PROVE Progress'
  <2>1. Running(q) /\ record' = record /\ at' = [at EXCEPT ![q] = "countReviews"]
    BY <1>12 DEF UpsertReview, Goes, Running, Resting
  <2>2. "countReviews" \in StagesOf(KindOf(q)) /\ Left(q)'
    BY <1>12, <2>1, Kinds, InvParts DEF UpsertReview, Goes, Inv, Progress, Left, Monotone, KindOf, Kind, Conclusion, StagesOf, Types, NoRollup, Req
  <2>3. QED
    BY <2>1, <2>2, GoesOn
<1>13. ASSUME NEW q \in Req, CountReviews(q) PROVE Progress'
  <2>1. Running(q) /\ record' = record /\ at' = [at EXCEPT ![q] = "writeReviews"]
    BY <1>13 DEF CountReviews, Goes, Running, Resting
  <2>2. "writeReviews" \in StagesOf(KindOf(q)) /\ Left(q)'
    BY <1>13, <2>1, Kinds, InvParts DEF CountReviews, Goes, Inv, Progress, Left, Monotone, KindOf, Kind, Conclusion, StagesOf, Types, NoRollup, Req
  <2>3. QED
    BY <2>1, <2>2, GoesOn
<1>14. ASSUME NEW q \in Req, WriteReviewCount(q) PROVE Progress'
  <2>1. Running(q) /\ record' = record /\ at' = [at EXCEPT ![q] = "mark"]
    BY <1>14 DEF WriteReviewCount, Goes, Running, Resting
  <2>2. "mark" \in StagesOf(KindOf(q)) /\ Left(q)'
    BY <1>14, <2>1, Kinds, InvParts DEF WriteReviewCount, Goes, Inv, Progress, Left, Monotone, KindOf, Kind, Conclusion, StagesOf, Types, NoRollup, Req
  <2>3. QED
    BY <2>1, <2>2, GoesOn
<1>15. ASSUME NEW q \in Req, TrackedCheck(q) PROVE Progress'
  <2>1. Running(q) /\ record' = record /\ at' = [at EXCEPT ![q] = (IF pr = "absent" THEN "mark" ELSE "check")]
    BY <1>15 DEF TrackedCheck, Goes, Running, Resting
  <2>2. (IF pr = "absent" THEN "mark" ELSE "check") \in StagesOf(KindOf(q)) /\ Left(q)'
    BY <1>15, <2>1, Kinds, InvParts DEF TrackedCheck, Goes, Inv, Progress, Left, Monotone, KindOf, Kind, Conclusion, StagesOf, Types, NoRollup, Req
  <2>3. QED
    BY <2>1, <2>2, GoesOn
<1>16. ASSUME NEW q \in Req, UpsertCheckRun(q) PROVE Progress'
  <2>1. Running(q) /\ record' = record
        /\ at' = [at EXCEPT ![q] = (IF KindOf(q) = "pending" THEN "mark" ELSE "countChecks")]
    BY <1>16 DEF UpsertCheckRun, Goes, Running, Resting
  <2>2. (IF KindOf(q) = "pending" THEN "mark" ELSE "countChecks") \in StagesOf(KindOf(q)) /\ Left(q)'
    BY <1>16, <2>1, Kinds, InvParts DEF UpsertCheckRun, Goes, Inv, Progress, Left, Monotone, KindOf, Kind, Conclusion, StagesOf, Types, NoRollup, Req
  <2>3. QED
    BY <2>1, <2>2, GoesOn
<1>17. ASSUME NEW q \in Req, CountChecks(q) PROVE Progress'
  <2>1. Running(q) /\ record' = record /\ at' = [at EXCEPT ![q] = "writeChecks"]
    BY <1>17 DEF CountChecks, Goes, Running, Resting
  <2>2. "writeChecks" \in StagesOf(KindOf(q)) /\ Left(q)'
    BY <1>17, <2>1, Kinds, InvParts DEF CountChecks, Goes, Inv, Progress, Left, Monotone, KindOf, Kind, Conclusion, StagesOf, Types, NoRollup, Req
  <2>3. QED
    BY <2>1, <2>2, GoesOn
<1>18. ASSUME NEW q \in Req, WriteFailures(q) PROVE Progress'
  <2>1. Running(q) /\ record' = record /\ at' = [at EXCEPT ![q] = "mark"]
    BY <1>18 DEF WriteFailures, Goes, Running, Resting
  <2>2. "mark" \in StagesOf(KindOf(q)) /\ Left(q)'
    BY <1>18, <2>1, Kinds, InvParts DEF WriteFailures, Goes, Inv, Progress, Left, Monotone, KindOf, Kind, Conclusion, StagesOf, Types, NoRollup, Req
  <2>3. QED
    BY <2>1, <2>2, GoesOn
<1>19. ASSUME NEW q \in Req, MarkProcessed(q) PROVE Progress'
  BY <1>19, ComesToRest DEF MarkProcessed, Goes, Running, Resting, Types
<1>20. ASSUME NEW q \in Req, HandlerFails(q) PROVE Progress'
  BY <1>20, ComesToRest DEF HandlerFails, Goes, Running, Resting, Types
<1>21. ASSUME NEW q \in Req, MarkFails(q) PROVE Progress'
  BY <1>21, ComesToRest DEF MarkFails, Goes, Running, Resting, Types
<1>22. ASSUME NEW q \in Req, Unavailable(q) PROVE Progress'
  <2>1. \A p \in Req : Running(p)' => Running(p) /\ at'[p] = at[p]
    BY <1>22 DEF Unavailable, Goes, Running, Resting, Types
  <2>2. \A p \in Req : Running(p) => record'[p[1]] = record[p[1]]
    BY <1>22 DEF Unavailable, Progress, Types, Req
  <2>3. QED
    BY <2>1, <2>2 DEF Progress, Left, Monotone, KindOf
<1>23. ASSUME NEW q \in Req, NEW heard \in BOOLEAN, Accept(q, heard) PROVE Progress'
  <2> SUFFICES ASSUME NEW p \in Req, Running(p)'
               PROVE  at'[p] \in StagesOf(KindOf(p)') /\ record'[p[1]] = "received" /\ Left(p)'
    BY DEF Progress
  <2>1. KindOf(p)' = KindOf(p) /\ q[1] \in Delivery /\ p[1] \in Delivery
    BY DEF Monotone, KindOf, Req
  <2>2. CASE p = q
    <3>1. at'[q] = FirstStep(KindOf(q)) /\ record'[q[1]] = "received"
      BY <1>23, <2>1 DEF Accept, Goes, Types
    <3>2. Left(q)'
      <4>1. KindOf(q)' \in Kind /\ KindOf(q)' = KindOf(q)
        BY <2>1, <2>2 DEF Types, KindOf
      <4>2. at'[q] \in {"upsert", "track", "tracked"} \/ (at'[q] = "mark" /\ KindOf(q) = "unfit")
        BY <3>1, <4>1, FirstStages
      <4>3. KindOf(q) \in {"opened", "merged", "closed"} => at'[q] = "upsert"
        BY <3>1 DEF FirstStep, Conclusion
      <4>4. QED
        BY <4>1, <4>2, <4>3 DEF Left
    <3>3. QED
      BY <2>1, <2>2, <3>1, <3>2, FirstStages DEF Types, KindOf
  <2>3. CASE p # q
    <3>1. at'[p] = at[p] /\ Running(p)
      BY <1>23, <2>3 DEF Accept, Goes, Types, Running
    <3>2. record'[p[1]] = "received"
      BY <1>23, <2>1, <3>1 DEF Accept, Types, Progress
    <3>3. Left(p)'
      BY <2>1, <3>1 DEF Progress, Left, Monotone
    <3>4. QED
      BY <2>1, <3>1, <3>2, <3>3 DEF Progress
  <2>4. QED
    BY <2>2, <2>3
<1>24. ASSUME NEW q \in Req, NEW heard \in BOOLEAN, Duplicate(q, heard) PROVE Progress'
  BY <1>24, NobodyMoves DEF Duplicate, Goes, Running, Resting, Types
<1>25. CASE Crash
  BY <1>25, NobodyMoves DEF Crash, Running, Resting, Types
<1>26. ASSUME NEW s \in Session, StoreSession(s) PROVE Progress'
  BY <1>26, NobodyMoves DEF StoreSession, Running, Resting, Types
<1>27. ASSUME NEW s \in Session, FindPullRequest(s) PROVE Progress'
  BY <1>27, NobodyMoves DEF FindPullRequest, Running, Resting, Types
<1>28. ASSUME NEW s \in Session, LinkSession(s) PROVE Progress'
  BY <1>28, NobodyMoves DEF LinkSession, Running, Resting, Types
<1>29. ASSUME NEW s \in Session, LinkFails(s) PROVE Progress'
  BY <1>29, NobodyMoves DEF LinkFails, Running, Resting, Types
<1>31. ASSUME NEW q \in Req, PostAgain(q) PROVE Progress'
  BY <1>31, NobodyMoves DEF PostAgain, Running
<1>30. CASE UNCHANGED vars
  BY <1>30, NobodyMoves DEF vars, Running, Resting, Types
<1> QED
  BY <1>1, <1>2, <1>3, <1>4, <1>5, <1>6, <1>7, <1>8, <1>9, <1>10, <1>11, <1>12, <1>13, <1>14, <1>15, <1>16, <1>17, <1>18, <1>19, <1>20, <1>21, <1>22, <1>23, <1>24, <1>25, <1>26, <1>27, <1>28, <1>29, <1>30, <1>31
  DEF Next, Arrives, Handle, Ingest

\* No record is marked processed before the effect is there.
LEMMA SettledNext == Inv /\ [Next]_vars => Settled'
<1> SUFFICES ASSUME Inv, [Next]_vars PROVE Settled'
  OBVIOUS
<1>0. Types /\ Alone /\ Progress /\ Monotone /\ Settled
  BY InvParts, MonotoneNext
<1>a. \A d \in Delivery : kind'[d] = kind[d] /\ (kind[d] # "unfit" /\ Effect(d) => Effect(d)')
  BY <1>0 DEF Effect, Monotone, Types, Kind, Conclusion
<1> USE <1>0, <1>a DEF github, local, tables, ingest, thread
<1>1. ASSUME NEW d \in Delivery, Send(d) PROVE Settled'
  BY <1>1 DEF Send, Settled, Types, Goes, Heard, Req
<1>2. ASSUME NEW q \in Req, UpsertPullRequest(q) PROVE Settled'
  BY <1>2 DEF UpsertPullRequest, Settled, Types, Goes, Heard, Req
<1>3. ASSUME NEW q \in Req, ListCommits(q) PROVE Settled'
  BY <1>3 DEF ListCommits, Settled, Types, Goes, Heard, Req
<1>4. ASSUME NEW q \in Req, Match(q) PROVE Settled'
  BY <1>4 DEF Match, Settled, Types, Goes, Heard, Req
<1>5. ASSUME NEW q \in Req, Link(q) PROVE Settled'
  BY <1>5 DEF Link, Settled, Types, Goes, Heard, Req
<1>6. ASSUME NEW q \in Req, Rollup(q) PROVE Settled'
  BY <1>6 DEF Rollup, Settled, Types, Goes, Heard, Req
<1>7. ASSUME NEW q \in Req, ListComments(q) PROVE Settled'
  BY <1>7 DEF ListComments, Settled, Types, Goes, Heard, Req
<1>8. ASSUME NEW q \in Req, PostComment(q) PROVE Settled'
  BY <1>8 DEF PostComment, Settled, Types, Goes, Heard, Req
<1>9. ASSUME NEW q \in Req, SkipComment(q) PROVE Settled'
  BY <1>9 DEF SkipComment, Settled, Types, Goes, Heard, Req
<1>10. ASSUME NEW q \in Req, Track(q) PROVE Settled'
  BY <1>10 DEF Track, Settled, Types, Goes, Heard, Req
<1>11. ASSUME NEW q \in Req, CreateFromReview(q) PROVE Settled'
  BY <1>11 DEF CreateFromReview, Settled, Types, Goes, Heard, Req
<1>12. ASSUME NEW q \in Req, UpsertReview(q) PROVE Settled'
  BY <1>12 DEF UpsertReview, Settled, Types, Goes, Heard, Req
<1>13. ASSUME NEW q \in Req, CountReviews(q) PROVE Settled'
  BY <1>13 DEF CountReviews, Settled, Types, Goes, Heard, Req
<1>14. ASSUME NEW q \in Req, WriteReviewCount(q) PROVE Settled'
  BY <1>14 DEF WriteReviewCount, Settled, Types, Goes, Heard, Req
<1>15. ASSUME NEW q \in Req, TrackedCheck(q) PROVE Settled'
  BY <1>15 DEF TrackedCheck, Settled, Types, Goes, Heard, Req
<1>16. ASSUME NEW q \in Req, UpsertCheckRun(q) PROVE Settled'
  BY <1>16 DEF UpsertCheckRun, Settled, Types, Goes, Heard, Req
<1>17. ASSUME NEW q \in Req, CountChecks(q) PROVE Settled'
  BY <1>17 DEF CountChecks, Settled, Types, Goes, Heard, Req
<1>18. ASSUME NEW q \in Req, WriteFailures(q) PROVE Settled'
  BY <1>18 DEF WriteFailures, Settled, Types, Goes, Heard, Req
<1>19. ASSUME NEW q \in Req, MarkProcessed(q) PROVE Settled'
  <2>1. kind[q[1]] # "unfit" => Effect(q[1])
    BY <1>19, Kinds, InvParts DEF Inv, MarkProcessed, Goes, Progress, Running, Resting, Left, StagesOf, Kind, Conclusion, KindOf, Effect
  <2>2. QED
    BY <1>19, <2>1 DEF MarkProcessed, Settled, Types, Goes, Req
<1>20. ASSUME NEW q \in Req, HandlerFails(q) PROVE Settled'
  BY <1>20 DEF HandlerFails, Settled, Types, Goes, Heard, Req
<1>21. ASSUME NEW q \in Req, MarkFails(q) PROVE Settled'
  BY <1>21 DEF MarkFails, Settled, Types, Goes, Heard, Req
<1>22. ASSUME NEW q \in Req, Unavailable(q) PROVE Settled'
  BY <1>22 DEF Unavailable, Settled, Types, Goes, Heard, Req
<1>23. ASSUME NEW q \in Req, NEW heard \in BOOLEAN, Accept(q, heard) PROVE Settled'
  BY <1>23 DEF Accept, Settled, Types, Goes, Heard, Req
<1>24. ASSUME NEW q \in Req, NEW heard \in BOOLEAN, Duplicate(q, heard) PROVE Settled'
  BY <1>24 DEF Duplicate, Settled, Types, Goes, Heard, Req
<1>25. CASE Crash
  BY <1>25 DEF Crash, Settled, Types, Goes, Heard, Req
<1>26. ASSUME NEW s \in Session, StoreSession(s) PROVE Settled'
  BY <1>26 DEF StoreSession, Settled, Types, Goes, Heard, Req
<1>27. ASSUME NEW s \in Session, FindPullRequest(s) PROVE Settled'
  BY <1>27 DEF FindPullRequest, Settled, Types, Goes, Heard, Req
<1>28. ASSUME NEW s \in Session, LinkSession(s) PROVE Settled'
  BY <1>28 DEF LinkSession, Settled, Types, Goes, Heard, Req
<1>29. ASSUME NEW s \in Session, LinkFails(s) PROVE Settled'
  BY <1>29 DEF LinkFails, Settled, Types, Goes, Heard, Req
<1>31. ASSUME NEW q \in Req, PostAgain(q) PROVE Settled'
  BY <1>31 DEF PostAgain, Settled
<1>30. CASE UNCHANGED vars
  BY <1>30 DEF vars, Settled, Types, Goes, Heard, Req
<1> QED
  BY <1>1, <1>2, <1>3, <1>4, <1>5, <1>6, <1>7, <1>8, <1>9, <1>10, <1>11, <1>12, <1>13, <1>14, <1>15, <1>16, <1>17, <1>18, <1>19, <1>20, <1>21, <1>22, <1>23, <1>24, <1>25, <1>26, <1>27, <1>28, <1>29, <1>30, <1>31
  DEF Next, Arrives, Handle, Ingest

\* Either side looks for the other only after its own row is there.
LEMMA LinkedNext == Inv /\ [Next]_vars => Linked'
<1> SUFFICES ASSUME Inv, [Next]_vars PROVE Linked'
  OBVIOUS
<1>0. Types /\ Alone /\ Progress /\ Monotone /\ Settled /\ Linked
  BY InvParts, MonotoneNext
<1> USE <1>0 DEF github, local, tables, ingest, thread
<1>1. ASSUME NEW d \in Delivery, Send(d) PROVE Linked'
  BY <1>1 DEF Send, Linked, Missed, Types, Goes, Monotone, KindOf
<1>2. ASSUME NEW q \in Req, UpsertPullRequest(q) PROVE Linked'
  BY <1>2 DEF UpsertPullRequest, Linked, Missed, Types, Goes, Monotone, KindOf
<1>3. ASSUME NEW q \in Req, ListCommits(q) PROVE Linked'
  BY <1>3 DEF ListCommits, Linked, Missed, Types, Goes, Monotone, KindOf
<1>4. ASSUME NEW q \in Req, Match(q) PROVE Linked'
  BY <1>4 DEF Match, Linked, Missed, Types, Goes, Monotone, KindOf
<1>5. ASSUME NEW q \in Req, Link(q) PROVE Linked'
  BY <1>5 DEF Link, Linked, Missed, Types, Goes, Monotone, KindOf
<1>6. ASSUME NEW q \in Req, Rollup(q) PROVE Linked'
  BY <1>6 DEF Rollup, Linked, Missed, Types, Goes, Monotone, KindOf
<1>7. ASSUME NEW q \in Req, ListComments(q) PROVE Linked'
  BY <1>7 DEF ListComments, Linked, Missed, Types, Goes, Monotone, KindOf
<1>8. ASSUME NEW q \in Req, PostComment(q) PROVE Linked'
  BY <1>8 DEF PostComment, Linked, Missed, Types, Goes, Monotone, KindOf
<1>9. ASSUME NEW q \in Req, SkipComment(q) PROVE Linked'
  BY <1>9 DEF SkipComment, Linked, Missed, Types, Goes, Monotone, KindOf
<1>10. ASSUME NEW q \in Req, Track(q) PROVE Linked'
  BY <1>10 DEF Track, Linked, Missed, Types, Goes, Monotone, KindOf
<1>11. ASSUME NEW q \in Req, CreateFromReview(q) PROVE Linked'
  BY <1>11 DEF CreateFromReview, Linked, Missed, Types, Goes, Monotone, KindOf
<1>12. ASSUME NEW q \in Req, UpsertReview(q) PROVE Linked'
  BY <1>12 DEF UpsertReview, Linked, Missed, Types, Goes, Monotone, KindOf
<1>13. ASSUME NEW q \in Req, CountReviews(q) PROVE Linked'
  BY <1>13 DEF CountReviews, Linked, Missed, Types, Goes, Monotone, KindOf
<1>14. ASSUME NEW q \in Req, WriteReviewCount(q) PROVE Linked'
  <2>1. KindOf(q) = "review"
    BY <1>14, Kinds, InvParts DEF Inv, WriteReviewCount, Goes, Progress, Running, Resting, StagesOf, Kind, Conclusion
  <2>2. QED
    BY <1>14, <2>1 DEF WriteReviewCount, Linked, Missed, Types, Goes, Monotone, KindOf
<1>15. ASSUME NEW q \in Req, TrackedCheck(q) PROVE Linked'
  <2>1. KindOf(q) \in Conclusion
    BY <1>15, Kinds, InvParts DEF Inv, TrackedCheck, Goes, Progress, Running, Resting, StagesOf, Kind, Conclusion
  <2>2. QED
    BY <1>15, <2>1 DEF Conclusion, TrackedCheck, Linked, Missed, Types, Goes, Monotone, KindOf
<1>16. ASSUME NEW q \in Req, UpsertCheckRun(q) PROVE Linked'
  <2>1. KindOf(q) \in Conclusion
    BY <1>16, Kinds, InvParts DEF Inv, UpsertCheckRun, Goes, Progress, Running, Resting, StagesOf, Kind, Conclusion
  <2>2. QED
    BY <1>16, <2>1 DEF Conclusion, UpsertCheckRun, Linked, Missed, Types, Goes, Monotone, KindOf
<1>17. ASSUME NEW q \in Req, CountChecks(q) PROVE Linked'
  BY <1>17 DEF CountChecks, Linked, Missed, Types, Goes, Monotone, KindOf
<1>18. ASSUME NEW q \in Req, WriteFailures(q) PROVE Linked'
  <2>1. KindOf(q) \in Conclusion
    BY <1>18, Kinds, InvParts DEF Inv, WriteFailures, Goes, Progress, Running, Resting, StagesOf, Kind, Conclusion
  <2>2. QED
    BY <1>18, <2>1 DEF Conclusion, WriteFailures, Linked, Missed, Types, Goes, Monotone, KindOf
<1>19. ASSUME NEW q \in Req, MarkProcessed(q) PROVE Linked'
  BY <1>19 DEF MarkProcessed, Linked, Missed, Types, Goes, Monotone, KindOf
<1>20. ASSUME NEW q \in Req, HandlerFails(q) PROVE Linked'
  BY <1>20 DEF HandlerFails, Linked, Missed, Types, Goes, Monotone, KindOf
<1>21. ASSUME NEW q \in Req, MarkFails(q) PROVE Linked'
  BY <1>21 DEF MarkFails, Linked, Missed, Types, Goes, Monotone, KindOf
<1>22. ASSUME NEW q \in Req, Unavailable(q) PROVE Linked'
  BY <1>22 DEF Unavailable, Linked, Missed, Types, Goes, Monotone, KindOf
<1>23. ASSUME NEW q \in Req, NEW heard \in BOOLEAN, Accept(q, heard) PROVE Linked'
  <2>1. at' = [at EXCEPT ![q] = FirstStep(KindOf(q))] /\ (FirstStep(KindOf(q)) \in {"upsert", "track", "tracked"} \/ (FirstStep(KindOf(q)) = "mark" /\ KindOf(q) = "unfit"))
    BY <1>23, Kinds, InvParts, FirstStages DEF Inv, Accept, Goes
  <2>2. QED
    BY <1>23, <2>1 DEF Accept, Linked, Missed, Types, Monotone, KindOf, Req
<1>24. ASSUME NEW q \in Req, NEW heard \in BOOLEAN, Duplicate(q, heard) PROVE Linked'
  BY <1>24 DEF Duplicate, Linked, Missed, Types, Goes, Monotone, KindOf
<1>25. CASE Crash
  BY <1>25 DEF Crash, Linked, Missed, Types, Goes, Monotone, KindOf
<1>26. ASSUME NEW s \in Session, StoreSession(s) PROVE Linked'
  BY <1>26 DEF StoreSession, Linked, Missed, Types, Goes, Monotone, KindOf
<1>27. ASSUME NEW s \in Session, FindPullRequest(s) PROVE Linked'
  <2>1. \A t \in Session \ {s} : Missed(t)' <=> Missed(t)
    BY <1>27 DEF FindPullRequest, Missed, Types
  <2>2. Missed(s)' => pr = "absent"
    BY <1>27 DEF FindPullRequest, Missed, Types
  <2>3. ASSUME pr = "absent", NEW q \in Req, KindOf(q) \in {"opened", "merged"}
        PROVE  at[q] \notin {"link", "rollup", "list", "post", "mark"}
    BY <2>3 DEF Progress, Left, Running, Resting
  <2>4. ASSUME pr = "absent", NEW d \in Delivery, kind[d] \in {"opened", "merged"}
        PROVE  record[d] # "processed"
    BY <2>4 DEF Settled, Effect, Conclusion
  <2>5. QED
    BY <1>27, <2>1, <2>2, <2>3, <2>4 DEF FindPullRequest, Linked, Types, KindOf
<1>28. ASSUME NEW s \in Session, LinkSession(s) PROVE Linked'
  BY <1>28 DEF LinkSession, Linked, Missed, Types, Goes, Monotone, KindOf
<1>29. ASSUME NEW s \in Session, LinkFails(s) PROVE Linked'
  BY <1>29 DEF LinkFails, Linked, Missed, Types, Goes, Monotone, KindOf
<1>31. ASSUME NEW q \in Req, PostAgain(q) PROVE Linked'
  BY <1>31 DEF PostAgain, Linked, Missed, KindOf, Monotone
<1>30. CASE UNCHANGED vars
  BY <1>30 DEF vars, Linked, Missed, Types, Goes, Monotone, KindOf
<1> QED
  BY <1>1, <1>2, <1>3, <1>4, <1>5, <1>6, <1>7, <1>8, <1>9, <1>10, <1>11, <1>12, <1>13, <1>14, <1>15, <1>16, <1>17, <1>18, <1>19, <1>20, <1>21, <1>22, <1>23, <1>24, <1>25, <1>26, <1>27, <1>28, <1>29, <1>30, <1>31
  DEF Next, Arrives, Handle, Ingest

\* The handler that posts the comment is alone.
LEMMA CommentedNext == Inv /\ [Next]_vars => Commented'
<1> SUFFICES ASSUME Inv, [Next]_vars PROVE Commented'
  OBVIOUS
<1>0. Types /\ Alone /\ Progress /\ Monotone /\ Commented
  BY InvParts, MonotoneNext
<1> USE <1>0 DEF github, local, tables, ingest, thread
<1>1. ASSUME NEW d \in Delivery, Send(d) PROVE Commented'
  BY <1>1 DEF Send, Commented, OneMerge, Types, Goes, Monotone, KindOf, Heard
<1>2. ASSUME NEW q \in Req, UpsertPullRequest(q) PROVE Commented'
  <2>1. at' \in [Req -> Stage] /\ at'[q] # "post" /\ \A p \in Req \ {q} : at'[p] = at[p]
    <3>1. KindOf(q) \in {"opened", "merged", "closed"}
      BY <1>2, Kinds, InvParts DEF Inv, UpsertPullRequest, Goes, Progress, Running, Resting, StagesOf, Kind, Conclusion
    <3>2. QED
      BY <1>2, <3>1 DEF UpsertPullRequest, Goes, Types, Stage
  <2>2. QED
    BY <1>2, <2>1 DEF UpsertPullRequest, Commented, OneMerge, Monotone
<1>3. ASSUME NEW q \in Req, ListCommits(q) PROVE Commented'
  BY <1>3 DEF ListCommits, Commented, OneMerge, Types, Goes, Monotone, KindOf, Heard
<1>4. ASSUME NEW q \in Req, Match(q) PROVE Commented'
  BY <1>4 DEF Match, Commented, OneMerge, Types, Goes, Monotone, KindOf, Heard
<1>5. ASSUME NEW q \in Req, Link(q) PROVE Commented'
  BY <1>5 DEF Link, Commented, OneMerge, Types, Goes, Monotone, KindOf, Heard
<1>6. ASSUME NEW q \in Req, Rollup(q) PROVE Commented'
  BY <1>6 DEF Rollup, Commented, OneMerge, Types, Goes, Monotone, KindOf, Heard
<1>7. ASSUME NEW q \in Req, ListComments(q) PROVE Commented'
  BY <1>7 DEF ListComments, Commented, OneMerge, Types, Goes, Monotone, KindOf, Heard
<1>8. ASSUME NEW q \in Req, PostComment(q) PROVE Commented'
  <2>1. SUFFICES ASSUME OneMerge
                 PROVE  comments' <= 1 + unheard' /\ \A p \in Req : at'[p] # "post"
    BY <1>8 DEF PostComment, Commented, OneMerge, Monotone, Types
  <2>2. comments = unheard /\ comments' = 1 + unheard'
    BY <1>8, <2>1 DEF PostComment, Goes, Commented, Types
  <2>3. ASSUME NEW p \in Req, at[p] = "post" PROVE p = q
    <3>1. KindOf(p) = "merged" /\ KindOf(q) = "merged" /\ Running(p) /\ Running(q)
      BY <1>8, <2>3, Kinds, InvParts DEF Inv, PostComment, Goes, Progress, Running, Resting, StagesOf, Kind, Conclusion
    <3>2. PICK d \in Delivery, j \in 1..MaxSends : p = <<d, j>>
      BY DEF Req
    <3>3. PICK e \in Delivery, k \in 1..MaxSends : q = <<e, k>>
      BY DEF Req
    <3>4. d = e
      BY <2>1, <3>1, <3>2, <3>3 DEF OneMerge, KindOf
    <3>5. QED
      BY <3>1, <3>2, <3>3, <3>4 DEF Alone
  <2>4. QED
    BY <1>8, <2>2, <2>3 DEF PostComment, Goes, Types
<1>9. ASSUME NEW q \in Req, SkipComment(q) PROVE Commented'
  BY <1>9 DEF SkipComment, Commented, OneMerge, Types, Goes, Monotone, KindOf, Heard
<1>10. ASSUME NEW q \in Req, Track(q) PROVE Commented'
  BY <1>10 DEF Track, Commented, OneMerge, Types, Goes, Monotone, KindOf, Heard
<1>11. ASSUME NEW q \in Req, CreateFromReview(q) PROVE Commented'
  BY <1>11 DEF CreateFromReview, Commented, OneMerge, Types, Goes, Monotone, KindOf, Heard
<1>12. ASSUME NEW q \in Req, UpsertReview(q) PROVE Commented'
  BY <1>12 DEF UpsertReview, Commented, OneMerge, Types, Goes, Monotone, KindOf, Heard
<1>13. ASSUME NEW q \in Req, CountReviews(q) PROVE Commented'
  BY <1>13 DEF CountReviews, Commented, OneMerge, Types, Goes, Monotone, KindOf, Heard
<1>14. ASSUME NEW q \in Req, WriteReviewCount(q) PROVE Commented'
  BY <1>14 DEF WriteReviewCount, Commented, OneMerge, Types, Goes, Monotone, KindOf, Heard
<1>15. ASSUME NEW q \in Req, TrackedCheck(q) PROVE Commented'
  BY <1>15 DEF TrackedCheck, Commented, OneMerge, Types, Goes, Monotone, KindOf, Heard
<1>16. ASSUME NEW q \in Req, UpsertCheckRun(q) PROVE Commented'
  BY <1>16 DEF UpsertCheckRun, Commented, OneMerge, Types, Goes, Monotone, KindOf, Heard
<1>17. ASSUME NEW q \in Req, CountChecks(q) PROVE Commented'
  BY <1>17 DEF CountChecks, Commented, OneMerge, Types, Goes, Monotone, KindOf, Heard
<1>18. ASSUME NEW q \in Req, WriteFailures(q) PROVE Commented'
  BY <1>18 DEF WriteFailures, Commented, OneMerge, Types, Goes, Monotone, KindOf, Heard
<1>19. ASSUME NEW q \in Req, MarkProcessed(q) PROVE Commented'
  BY <1>19 DEF MarkProcessed, Commented, OneMerge, Types, Goes, Monotone, KindOf, Heard
<1>20. ASSUME NEW q \in Req, HandlerFails(q) PROVE Commented'
  BY <1>20 DEF HandlerFails, Commented, OneMerge, Types, Goes, Monotone, KindOf, Heard
<1>21. ASSUME NEW q \in Req, MarkFails(q) PROVE Commented'
  BY <1>21 DEF MarkFails, Commented, OneMerge, Types, Goes, Monotone, KindOf, Heard
<1>22. ASSUME NEW q \in Req, Unavailable(q) PROVE Commented'
  BY <1>22 DEF Unavailable, Commented, OneMerge, Types, Goes, Monotone, KindOf, Heard
<1>23. ASSUME NEW q \in Req, NEW heard \in BOOLEAN, Accept(q, heard) PROVE Commented'
  <2>1. at' = [at EXCEPT ![q] = FirstStep(KindOf(q))] /\ (FirstStep(KindOf(q)) \in {"upsert", "track", "tracked"} \/ (FirstStep(KindOf(q)) = "mark" /\ KindOf(q) = "unfit"))
    BY <1>23, Kinds, InvParts, FirstStages DEF Inv, Accept, Goes
  <2>2. QED
    BY <1>23, <2>1 DEF Accept, Commented, OneMerge, Types, Monotone
<1>24. ASSUME NEW q \in Req, NEW heard \in BOOLEAN, Duplicate(q, heard) PROVE Commented'
  BY <1>24 DEF Duplicate, Commented, OneMerge, Types, Goes, Monotone, KindOf, Heard
<1>25. CASE Crash
  BY <1>25 DEF Crash, Commented, OneMerge, Types, Goes, Monotone, KindOf, Heard
<1>26. ASSUME NEW s \in Session, StoreSession(s) PROVE Commented'
  BY <1>26 DEF StoreSession, Commented, OneMerge, Types, Goes, Monotone, KindOf, Heard
<1>27. ASSUME NEW s \in Session, FindPullRequest(s) PROVE Commented'
  BY <1>27 DEF FindPullRequest, Commented, OneMerge, Types, Goes, Monotone, KindOf, Heard
<1>28. ASSUME NEW s \in Session, LinkSession(s) PROVE Commented'
  BY <1>28 DEF LinkSession, Commented, OneMerge, Types, Goes, Monotone, KindOf, Heard
<1>29. ASSUME NEW s \in Session, LinkFails(s) PROVE Commented'
  BY <1>29 DEF LinkFails, Commented, OneMerge, Types, Goes, Monotone, KindOf, Heard
<1>31. ASSUME NEW q \in Req, PostAgain(q) PROVE Commented'
  BY <1>31 DEF PostAgain, Commented, OneMerge, Types, Monotone
<1>30. CASE UNCHANGED vars
  BY <1>30 DEF vars, Commented, OneMerge, Types, Goes, Monotone, KindOf, Heard
<1> QED
  BY <1>1, <1>2, <1>3, <1>4, <1>5, <1>6, <1>7, <1>8, <1>9, <1>10, <1>11, <1>12, <1>13, <1>14, <1>15, <1>16, <1>17, <1>18, <1>19, <1>20, <1>21, <1>22, <1>23, <1>24, <1>25, <1>26, <1>27, <1>28, <1>29, <1>30, <1>31
  DEF Next, Arrives, Handle, Ingest

\* No step breaks the invariant.
LEMMA InvNext == Inv /\ [Next]_vars => Inv'
<1> SUFFICES ASSUME Inv, [Next]_vars PROVE Inv'
  OBVIOUS
<1>1. Types' /\ Alone' /\ kind' = kind
  BY TypesNext, AloneNext, MonotoneNext DEF Monotone
<1>2. TypeOK'
  BY <1>1 DEF Inv, TypeOK, Types, Alone, Stage
<1> QED
  BY <1>2, ProgressNext, SettledNext, LinkedNext, CommentedNext DEF Inv

-----------------------------------------------------------------------------
(* The theorems.                                                           *)

\* The invariant holds in every behaviour.
LEMMA InvAlways == Spec => []Inv
BY InvInit, InvNext, PTL DEF Spec

\* Every variable keeps its type and no delivery is handled twice at a time,
\* for any number of deliveries, sends, sessions and faults.
THEOREM TypeCorrect == Spec => []TypeOK
<1>1. Inv => TypeOK
  BY DEF Inv
<1> QED
  BY <1>1, InvAlways, PTL

\* A merge gets one summary comment at most from its handlers, however often
\* GitHub delivers it and whatever dies or fails in between: every other is one
\* the GitHub client posted again for want of an answer (routes/webhooks.ts,
\* lib/pr-comment.ts).
THEOREM OneCommentAlways == Spec => []OneComment
<1>1. Inv => OneComment
  <2> SUFFICES ASSUME Inv, Cardinality({d \in Delivery : kind[d] = "merged"}) <= 1
               PROVE  comments <= 1 + unheard
    BY DEF OneComment
  <2>1. ASSUME NEW d \in Delivery, NEW e \in Delivery, kind[d] = "merged", kind[e] = "merged", d # e
        PROVE  FALSE
    <3> DEFINE M == {c \in Delivery : kind[c] = "merged"}
    <3>1. IsFiniteSet(M) /\ M \subseteq Delivery
      BY BoundsAssumption, FS_Subset
    <3>2. /\ IsFiniteSet(M \ {d}) /\ Cardinality(M \ {d}) = Cardinality(M) - 1
          /\ Cardinality(M) \in Nat /\ Cardinality(M \ {d}) \in Nat
      BY <2>1, <3>1, FS_RemoveElement, FS_CardinalityType
    <3>3. Cardinality(M \ {d}) = 0 /\ e \in M \ {d}
      BY <2>1, <3>2
    <3>4. QED
      BY <3>2, <3>3, FS_EmptySet
  <2>2. QED
    BY <2>1 DEF Inv, Commented, OneMerge
<1> QED
  BY <1>1, InvAlways, PTL

\* No link is lost between ingest and the webhook, whichever looks first
\* (lib/session-pr-link.ts, lib/backfill-pr-links.ts).
THEOREM NoLinkLost == Spec => []LinkNotLost
<1>1. Inv => LinkNotLost
  BY DEF Inv, Linked, Missed, LinkNotLost
<1> QED
  BY <1>1, InvAlways, PTL

\* What GitHub will not send again, and can be used, has had its effect, or its
\* row shows that it has not (routes/webhooks.ts,
\* jobs/sweep-stale-deliveries.ts).
THEOREM LossAlwaysVisible == Spec => []LossIsVisible
<1>1. Inv => LossIsVisible
  BY DEF Inv, Settled, LossIsVisible, TypeOK
<1> QED
  BY <1>1, InvAlways, PTL

-----------------------------------------------------------------------------
(* Counters and settled rows.                                              *)

\* The check runs that some delivery on record told had failed.
EverFailed == {RunOf[d] : d \in {e \in Delivery : kind[e] = "failing" /\ record[e] # "none"}}

\* Whatever handlers overlap, fail or are repeated, the counters of a pull
\* request say nothing that no delivery told: there are no more reviews than
\* rows of them, and no more failures than check runs that were told to have
\* failed (pull-request-review.ts, check-run.ts).  A check run that has
\* recovered may be among the failures still: what a counter should be is
\* FailuresCounted, which does not hold.
NothingInvented == reviewCount <= Cardinality(reviews) /\ failures <= Cardinality(EverFailed)

\* What a handler has counted and is about to write was told as well.
Counts ==
  /\ NothingInvented
  /\ Failing \subseteq EverFailed
  /\ \A q \in Req :
       /\ at[q] = "writeReviews" => counted[q] <= Cardinality(reviews)
       /\ at[q] = "writeChecks" => counted[q] <= Cardinality(EverFailed)

\* What the steps do to the counters: rows and records are added only, a check
\* run fails if its delivery says so, numbers are counted by this very step or
\* were before, and written as they were counted.
Counting ==
  /\ reviews \subseteq reviews'
  /\ \A d \in Delivery : record[d] # "none" => record'[d] # "none"
  /\ \A c \in CheckRun : checks'[c] = "failing" =>
       \/ checks[c] = "failing"
       \/ \E q \in Req : at[q] = "check" /\ KindOf(q) = "failing" /\ RunOf[q[1]] = c
  /\ reviewCount' = reviewCount
     \/ \E q \in Req : at[q] = "writeReviews" /\ reviewCount' = counted[q]
  /\ failures' \in {failures, 0, NoRollup}
     \/ \E q \in Req : at[q] = "writeChecks" /\ failures' = counted[q]
  /\ \A q \in Req :
       /\ at'[q] = "writeReviews" =>
            \/ at[q] = "writeReviews" /\ counted'[q] = counted[q]
            \/ counted'[q] = Cardinality(reviews)
       /\ at'[q] = "writeChecks" =>
            \/ at[q] = "writeChecks" /\ counted'[q] = counted[q]
            \/ counted'[q] = Cardinality(Failing)

\* Every step does no more to the counters.
LEMMA CountingNext == Inv /\ [Next]_vars => Counting
<1> SUFFICES ASSUME Inv, [Next]_vars PROVE Counting
  OBVIOUS
<1>0. Types
  BY InvParts
<1> USE <1>0 DEF github, local, tables, ingest, thread, Counting, Goes, Types, Req
<1>1. ASSUME NEW d \in Delivery, Send(d) PROVE Counting
  BY <1>1 DEF Send
<1>2. ASSUME NEW q \in Req, UpsertPullRequest(q) PROVE Counting
  <2>1. at' = [at EXCEPT ![q] = "match"] \/ at' = [at EXCEPT ![q] = "shas"]
        \/ at' = [at EXCEPT ![q] = "mark"]
    <3>1. KindOf(q) \in {"opened", "merged", "closed"}
      BY <1>2, Kinds DEF UpsertPullRequest, Inv, Progress, Running, Resting, StagesOf, Kind, Conclusion
    <3>2. QED
      BY <1>2, <3>1 DEF UpsertPullRequest
  <2>2. \A p \in Req : at'[p] = at[p] \/ at'[p] \in {"match", "shas", "mark"}
    BY <2>1
  <2>3. UNCHANGED <<record, reviews, checks, reviewCount, failures, counted>>
    BY <1>2 DEF UpsertPullRequest
  <2>4. QED
    BY <2>2, <2>3
<1>3. ASSUME NEW q \in Req, ListCommits(q) PROVE Counting
  BY <1>3 DEF ListCommits
<1>4. ASSUME NEW q \in Req, Match(q) PROVE Counting
  BY <1>4 DEF Match
<1>5. ASSUME NEW q \in Req, Link(q) PROVE Counting
  BY <1>5 DEF Link
<1>6. ASSUME NEW q \in Req, Rollup(q) PROVE Counting
  BY <1>6 DEF Rollup
<1>7. ASSUME NEW q \in Req, ListComments(q) PROVE Counting
  BY <1>7 DEF ListComments
<1>8. ASSUME NEW q \in Req, PostComment(q) PROVE Counting
  BY <1>8 DEF PostComment
<1>9. ASSUME NEW q \in Req, SkipComment(q) PROVE Counting
  BY <1>9 DEF SkipComment
<1>10. ASSUME NEW q \in Req, Track(q) PROVE Counting
  BY <1>10 DEF Track
<1>11. ASSUME NEW q \in Req, CreateFromReview(q) PROVE Counting
  BY <1>11 DEF CreateFromReview
<1>12. ASSUME NEW q \in Req, UpsertReview(q) PROVE Counting
  BY <1>12 DEF UpsertReview
<1>13. ASSUME NEW q \in Req, CountReviews(q) PROVE Counting
  BY <1>13 DEF CountReviews
<1>14. ASSUME NEW q \in Req, WriteReviewCount(q) PROVE Counting
  BY <1>14 DEF WriteReviewCount
<1>15. ASSUME NEW q \in Req, TrackedCheck(q) PROVE Counting
  BY <1>15 DEF TrackedCheck
<1>16. ASSUME NEW q \in Req, UpsertCheckRun(q) PROVE Counting
  <2>1. /\ at[q] = "check" /\ UNCHANGED <<reviews, reviewCount, failures, counted, record>>
        /\ checks' = [checks EXCEPT ![RunOf[q[1]]] = KindOf(q)]
    BY <1>16 DEF UpsertCheckRun
  <2>2. \A p \in Req : at'[p] = at[p] \/ at'[p] \in {"mark", "countChecks"}
    BY <1>16 DEF UpsertCheckRun
  <2>3. \A c \in CheckRun : checks'[c] = "failing" =>
          checks[c] = "failing" \/ (KindOf(q) = "failing" /\ RunOf[q[1]] = c)
    BY <2>1
  <2>4. QED
    BY <2>1, <2>2, <2>3
<1>17. ASSUME NEW q \in Req, CountChecks(q) PROVE Counting
  BY <1>17 DEF CountChecks
<1>18. ASSUME NEW q \in Req, WriteFailures(q) PROVE Counting
  BY <1>18 DEF WriteFailures
<1>19. ASSUME NEW q \in Req, MarkProcessed(q) PROVE Counting
  BY <1>19 DEF MarkProcessed
<1>20. ASSUME NEW q \in Req, HandlerFails(q) PROVE Counting
  BY <1>20 DEF HandlerFails
<1>21. ASSUME NEW q \in Req, MarkFails(q) PROVE Counting
  BY <1>21 DEF MarkFails
<1>22. ASSUME NEW q \in Req, Unavailable(q) PROVE Counting
  BY <1>22 DEF Unavailable
<1>23. ASSUME NEW q \in Req, NEW heard \in BOOLEAN, Accept(q, heard) PROVE Counting
  <2>1. FirstStep(KindOf(q)) \in {"upsert", "track", "tracked", "mark"}
    BY FirstStages DEF KindOf, Req
  <2>2. QED
    BY <1>23, <2>1 DEF Accept
<1>24. ASSUME NEW q \in Req, NEW heard \in BOOLEAN, Duplicate(q, heard) PROVE Counting
  BY <1>24 DEF Duplicate
<1>25. CASE Crash
  BY <1>25 DEF Crash
<1>26. ASSUME NEW s \in Session, Ingest(s) PROVE Counting
  BY <1>26 DEF Ingest, StoreSession, FindPullRequest, LinkSession, LinkFails
<1>27. CASE UNCHANGED vars
  BY <1>27 DEF vars
<1>28. ASSUME NEW q \in Req, PostAgain(q) PROVE Counting
  BY <1>28 DEF PostAgain
<1> QED
  BY <1>1, <1>2, <1>3, <1>4, <1>5, <1>6, <1>7, <1>8, <1>9, <1>10, <1>11, <1>12, <1>13, <1>14, <1>15, <1>16, <1>17, <1>18, <1>19, <1>20, <1>21, <1>22, <1>23, <1>24, <1>25, <1>26, <1>27, <1>28
  DEF Next, Arrives, Handle

\* A check run that fails was told to, and what was told stays on record.
LEMMA FailedWereTold ==
  ASSUME Inv, Inv', Failing \subseteq EverFailed, [Next]_vars
  PROVE  EverFailed \subseteq EverFailed' /\ Failing' \subseteq EverFailed'
<1>1. Counting /\ Types /\ Types' /\ Progress /\ Monotone
  BY CountingNext, InvParts, TypesNext, MonotoneNext
<1>2. EverFailed \subseteq EverFailed'
  BY <1>1 DEF EverFailed, Counting, Monotone
<1>3. ASSUME NEW c \in Failing' PROVE c \in EverFailed'
  <2>1. c \in CheckRun /\ checks'[c] = "failing"
    BY DEF Failing
  <2>2. CASE checks[c] = "failing"
    BY <1>2, <2>1, <2>2 DEF Failing
  <2>3. ASSUME NEW q \in Req, at[q] = "check", KindOf(q) = "failing", RunOf[q[1]] = c
        PROVE  c \in EverFailed'
    <3>1. q[1] \in Delivery /\ record[q[1]] = "received"
      BY <1>1, <2>3 DEF Progress, Running, Resting, Req
    <3>2. c \in EverFailed
      BY <2>3, <3>1 DEF EverFailed, KindOf
    <3>3. QED
      BY <1>2, <3>2
  <2>4. QED
    BY <1>1, <2>1, <2>2, <2>3 DEF Counting
<1> QED
  BY <1>2, <1>3

\* No step makes a counter say more than was told.
LEMMA CountsNext == Inv /\ Inv' /\ Counts /\ [Next]_vars => Counts'
<1> SUFFICES ASSUME Inv, Inv', Counts, [Next]_vars PROVE Counts'
  OBVIOUS
<1>0. /\ Counting /\ Types /\ Types'
      /\ EverFailed \subseteq EverFailed' /\ Failing' \subseteq EverFailed'
  BY CountingNext, InvParts, TypesNext, FailedWereTold DEF Counts
<1> DEFINE r == Cardinality(reviews)
           f == Cardinality(Failing)
           c == Cardinality(EverFailed)
           R == Cardinality(reviews')
           C == Cardinality(EverFailed')
<1>1. r \in Nat /\ f \in Nat /\ c \in Nat /\ R \in Nat /\ C \in Nat /\ r <= R /\ f <= c /\ c <= C
  <2>1. EverFailed \subseteq CheckRun /\ EverFailed' \subseteq CheckRun
    BY ChecksAssumption DEF EverFailed
  <2>2. IsFiniteSet(reviews') /\ IsFiniteSet(EverFailed) /\ IsFiniteSet(EverFailed')
    BY <1>0, <2>1, CountsFit DEF Types
  <2>3. reviews \subseteq reviews' /\ Failing \subseteq EverFailed
    BY <1>0 DEF Counting, Counts
  <2>4. QED
    BY <1>0, <2>2, <2>3, FS_Subset, FS_CardinalityType
<1>2. \A q \in Req : counted[q] \in Nat /\ counted'[q] \in Nat
  BY <1>0 DEF Types
<1>3. reviewCount \in Int /\ failures \in Int
  BY <1>0 DEF Types, NoRollup
<1> HIDE DEF r, f, c, R, C
<1>4. reviewCount <= r /\ failures <= c
  BY DEF Counts, NothingInvented, r, c
<1>5. \A q \in Req : /\ at[q] = "writeReviews" => counted[q] <= r
                     /\ at[q] = "writeChecks" => counted[q] <= c
  BY DEF Counts, r, c
<1>6. reviewCount' <= R
  <2>1. reviewCount' = reviewCount \/ \E q \in Req : at[q] = "writeReviews" /\ reviewCount' = counted[q]
    BY <1>0 DEF Counting
  <2>2. QED
    BY <1>1, <1>2, <1>3, <1>4, <1>5, <2>1
<1>7. failures' <= C
  <2>1. failures' \in {failures, 0, NoRollup}
        \/ \E q \in Req : at[q] = "writeChecks" /\ failures' = counted[q]
    BY <1>0 DEF Counting
  <2>2. QED
    BY <1>1, <1>2, <1>3, <1>4, <1>5, <2>1 DEF NoRollup
<1>8. ASSUME NEW q \in Req
      PROVE  /\ at'[q] = "writeReviews" => counted'[q] <= R
             /\ at'[q] = "writeChecks" => counted'[q] <= C
  <2>1. at'[q] = "writeReviews" =>
          (at[q] = "writeReviews" /\ counted'[q] = counted[q]) \/ counted'[q] = r
    BY <1>0 DEF Counting, r
  <2>2. at'[q] = "writeChecks" =>
          (at[q] = "writeChecks" /\ counted'[q] = counted[q]) \/ counted'[q] = f
    BY <1>0 DEF Counting, f
  <2>3. at'[q] = "writeReviews" => counted'[q] <= R
    BY <1>1, <1>2, <1>5, <2>1
  <2>4. at'[q] = "writeChecks" => counted'[q] <= C
    BY <1>1, <1>2, <1>5, <2>2
  <2>5. QED
    BY <2>3, <2>4
<1> QED
  BY <1>0, <1>6, <1>7, <1>8 DEF Counts, NothingInvented, R, C

\* NothingInvented holds in every behaviour.
THEOREM CountersKnowNoMore == Spec => []NothingInvented
<1>1. Init => Counts
  <2>1. ASSUME Init PROVE Counts
    <3>1. \A q \in Req : at[q] = "none"
      BY <2>1 DEF Init
    <3>2. Failing = {} /\ EverFailed = {} /\ reviews = {}
      BY <2>1 DEF Init, Failing, EverFailed
    <3>3. Cardinality(reviews) = 0 /\ Cardinality(EverFailed) = 0 /\ reviewCount = 0 /\ failures = -1
      BY <2>1, <3>2, FS_EmptySet DEF Init, NoRollup
    <3>4. QED
      BY <3>1, <3>2, <3>3 DEF Counts, NothingInvented
  <2>2. QED
    BY <2>1
<1>2. Counts => NothingInvented
  BY DEF Counts
<1> QED
  BY <1>1, <1>2, CountsNext, InvAlways, PTL DEF Spec

\* The row of a delivery that was processed, or that failed, is never touched
\* again, nor has the delivery a handler any more: a duplicate of it, a crash
\* and the failure of another handler leave it as it is (recordDelivery,
\* runDetached).
SettledForGood ==
  [][\A d \in Delivery : record[d] \in {"processed", "error"} =>
       /\ record'[d] = record[d]
       /\ \A k \in 1..MaxSends : ~Running(<<d, k>>)']_vars

\* SettledForGood holds of every behaviour.
THEOREM SettledStays == Spec => SettledForGood
<1>1. ASSUME Inv, [Next]_vars, NEW d \in Delivery, record[d] \in {"processed", "error"}
      PROVE  record'[d] = record[d]
  <2>0. Types /\ Progress
    BY <1>1, InvParts
  <2> USE DEF github, local, tables, ingest, thread
  <2>1. ASSUME NEW e \in Delivery, Send(e) PROVE record'[d] = record[d]
    BY <2>1 DEF Send
  <2>2. ASSUME NEW q \in Req, HandlerFails(q) PROVE record'[d] = record[d]
    BY <1>1, <2>0, <2>2 DEF HandlerFails, Progress, Types, Req
  <2>3. ASSUME NEW q \in Req, MarkProcessed(q) PROVE record'[d] = record[d]
    <3>1. Running(q)
      BY <2>3 DEF MarkProcessed, Goes, Running, Resting
    <3>2. QED
      BY <1>1, <2>0, <2>3, <3>1 DEF MarkProcessed, Progress, Types, Req
  <2>4. ASSUME NEW q \in Req, Arrives(q) PROVE record'[d] = record[d]
    BY <1>1, <2>0, <2>4 DEF Arrives, Unavailable, Accept, Duplicate, Types, Req
  <2>5. ASSUME NEW q \in Req, Handle(q) \/ PostAgain(q) \/ MarkFails(q) PROVE record'[d] = record[d]
    BY <2>3, <2>5 DEF Handle, PostAgain, UpsertPullRequest, ListCommits, Match, Link, Rollup, ListComments,
       PostComment, SkipComment, Track, CreateFromReview, UpsertReview, CountReviews,
       WriteReviewCount, TrackedCheck, UpsertCheckRun, CountChecks, WriteFailures, MarkFails
  <2>6. CASE Crash \/ UNCHANGED vars
    BY <2>6 DEF Crash, vars
  <2>7. ASSUME NEW s \in Session, Ingest(s) PROVE record'[d] = record[d]
    BY <2>7 DEF Ingest, StoreSession, FindPullRequest, LinkSession, LinkFails
  <2>8. QED
    BY <1>1, <2>1, <2>2, <2>4, <2>5, <2>6, <2>7 DEF Next
<1>2. Inv /\ Inv' /\ [Next]_vars =>
        [\A d \in Delivery : record[d] \in {"processed", "error"} =>
           /\ record'[d] = record[d]
           /\ \A k \in 1..MaxSends : ~Running(<<d, k>>)']_vars
  <2> SUFFICES ASSUME Inv, Inv', [Next]_vars, NEW d \in Delivery,
                      record[d] \in {"processed", "error"}, NEW k \in 1..MaxSends
               PROVE  record'[d] = record[d] /\ ~Running(<<d, k>>)'
    BY <1>1
  <2>1. record'[d] = record[d]
    BY <1>1
  <2>2. <<d, k>> \in Req /\ <<d, k>>[1] = d
    BY DEF Req
  <2>3. Running(<<d, k>>)' => record'[d] = "received"
    BY <2>2 DEF Inv, Progress
  <2>4. QED
    BY <2>1, <2>3
<1> QED
  BY <1>2, InvAlways, PTL DEF Spec, SettledForGood
=============================================================================
