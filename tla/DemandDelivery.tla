---- MODULE DemandDelivery ----
(* From the Auditor's gate to the merge: gate.py (verify, record) and the   *)
(* Git Flow of gitflow.py in the main copy (feature-finish, review-sync,    *)
(* release-finish, release-publish), with what pending.py lists.  The log   *)
(* of the squad is a file of the working tree, so every switch of branch    *)
(* changes which log is read and written; commands stop half way when a     *)
(* git or gh call fails; the human merges, closes and reopens on GitHub.    *)
EXTENDS Sequences, SequencesExt, FiniteSetsExt, Subsequences

CONSTANTS
  Demands,     \* demands, each with its feature branch
  Releases,    \* versions, each with its release branch
  Back,        \* the back-merge branch of each release
  Checks,      \* the verifications of gate_checks.json for G3
  MaxEvents,   \* bound: events the agents and the server write
  MaxPr,       \* bound: pull requests of finish commands (each release adds a back-merge)
  MaxStop,     \* bound: commands that stop half way
  MaxReopen,   \* bound: closed PRs the human opens again
  MaxAside     \* bound: after so many events outcomes are recorded on develop alone

Features == Demands
Heads == Features \cup Releases \cup {Back[r] : r \in Releases}
Branches == Heads \cup {"develop"}

DeliveryAssumption ==
  /\ "develop" \notin Heads
  /\ DOMAIN Back = Releases
  /\ Demands \cap Releases = {} /\ \A r \in Releases : Back[r] \notin Demands \cup Releases
  /\ {MaxEvents, MaxPr, MaxStop, MaxReopen, MaxAside} \subseteq Nat

VARIABLES
  where,       \* the branch checked out in the main copy
  log,         \* decisions.jsonl as each branch has it
  pushed,      \* what of it the origin has of each head
  prs,         \* pull requests in the order they were opened: [head, state]
  verdicts,    \* the last verify-G3 file of each demand: check -> status
  judged,      \* the opinion gate.py record has checked and not yet appended
  released,    \* releases whose tag and GitHub Release exist
  step,        \* the gitflow.py command that runs
  made, stops, reopened

vars == <<where, log, pushed, prs, verdicts, judged, released, step, made, stops, reopened>>

Statuses == {"pass", "fail", "n/a"}
NoStep == [pc |-> "idle"]
Idle == step.pc = "idle"
NoOpinion == [of |-> "none", type |-> "none", approve |-> FALSE]

Init ==
  /\ where = "develop"
  /\ log = [b \in Branches |-> << >>] /\ pushed = [h \in Heads |-> << >>]
  /\ prs = << >>
  /\ verdicts = [d \in Demands |-> << >>] /\ judged = NoOpinion
  /\ released = {} /\ step = NoStep
  /\ made = 0 /\ stops = 0 /\ reopened = 0

\* log.py: one event more in the log of the branch checked out.
Event(type, of, pr) == [id |-> made + 1, type |-> type, of |-> of, pr |-> pr, approve |-> FALSE]
Write(e) ==
  /\ made' = made + 1
  /\ log' = [log EXCEPT ![where] = Append(@, e)]
Room == made < MaxEvents

Has(b, type, pr) == \E i \in DOMAIN log[b] : log[b][i].type = type /\ log[b][i].pr = pr
Events(b, type, of) == {i \in DOMAIN log[b] : log[b][i].type = type /\ log[b][i].of = of}
Outcome == {"delivered", "review-rejected"}
Ended(b, pr) == \E t \in Outcome : Has(b, t, pr)
----
(* Work and gates, on whatever branch is checked out.                       *)

\* Agents and the server write to the log at any moment.
Progress ==
  /\ Room /\ Write(Event("progress", where, 0))
  /\ UNCHANGED <<where, pushed, prs, verdicts, judged, released, step, stops, reopened>>

\* feature-start and release-start branch off develop, log included.
Start(h) ==
  /\ Idle /\ h # where /\ log[h] = << >>
  /\ log' = [log EXCEPT ![h] = log["develop"]]
  /\ where' = h
  /\ UNCHANGED <<pushed, prs, verdicts, judged, released, step, made, stops, reopened>>

\* switch(): the live memory is committed first, so that it stays with its branch.
Switch(b) ==
  /\ Idle /\ b # where /\ (b = "develop" \/ log[b] # << >>)
  /\ where' = b
  /\ UNCHANGED <<log, pushed, prs, verdicts, judged, released, step, made, stops, reopened>>

\* gate.py verify: the results go to a file of their own and to the log.
Verify(d) ==
  /\ Room
  /\ \E results \in [Checks -> Statuses] : verdicts' = [verdicts EXCEPT ![d] = results]
  /\ Write(Event("evidence", d, 0))
  /\ UNCHANGED <<where, pushed, prs, judged, released, step, stops, reopened>>

\* incoherent(): what the opinion claims against the last verification.
Status(d, c) == IF verdicts[d] = << >> THEN "none" ELSE verdicts[d][c]
Incoherent(d, approve, claims, applicable) ==
  \E c \in Checks :
    \/ claims[c] = "pass" /\ (Status(d, c) = "fail" \/ (Status(d, c) = "none" /\ c \in applicable))
    \/ approve /\ Status(d, c) = "fail" /\ claims[c] = "absent"

\* gate.py record reads the verification and checks the opinion; what it then appends
\* (an incoherent opinion is only reported) does not look at the verification again.
Judge(d) ==
  /\ Room
  /\ \E approve \in BOOLEAN, claims \in [Checks -> {"pass", "fail", "absent"}], applicable \in SUBSET Checks :
       judged' = IF Incoherent(d, approve, claims, applicable)
                   THEN [of |-> d, type |-> "progress", approve |-> FALSE]
                   ELSE [of |-> d, type |-> "gate", approve |-> approve]
  /\ UNCHANGED <<where, log, pushed, prs, verdicts, released, step, made, stops, reopened>>
RecordGate ==
  /\ judged # NoOpinion /\ Room
  /\ Write([Event(judged.type, judged.of, 0) EXCEPT !.approve = judged.approve])
  /\ judged' = NoOpinion
  /\ UNCHANGED <<where, pushed, prs, verdicts, released, step, stops, reopened>>

G3Approved(d) ==
  LET gates == Events(where, "gate", d) IN gates # {} /\ log[where][Max(gates)].approve
----
(* open_review, shared by features, releases and back-merges.               *)

OpenPrs(h) == {i \in DOMAIN prs : prs[i].head = h /\ prs[i].state = "OPEN"}

\* feature-finish and release-finish: push, then the PR is found or created.
Finish(h) ==
  /\ Idle /\ where = h
  /\ h \in Features => G3Approved(h)
  /\ pushed' = [pushed EXCEPT ![h] = log[h]]
  /\ IF OpenPrs(h) # {} THEN UNCHANGED prs
     ELSE Len(prs) < MaxPr /\ prs' = Append(prs, [head |-> h, state |-> "OPEN"])
  /\ step' = [pc |-> "review", head |-> h, pr |-> IF OpenPrs(h) # {} THEN CHOOSE i \in OpenPrs(h) : TRUE
                                                                   ELSE Len(prs')]
  /\ UNCHANGED <<where, log, verdicts, judged, released, made, stops, reopened>>

\* Back on develop: import_memory (features only), then ONE `review` per PR.
NeverReviewed(known, pr) == FALSE
AlreadyReviewed(known, pr) == \E i \in DOMAIN known : known[i].type = "review" /\ known[i].pr = pr
Missing(h) == {i \in DOMAIN log[h] : \A j \in DOMAIN log["develop"] : log["develop"][j].id # log[h][i].id}
Imported(h) == Kept(log[h], Missing(h))
OpenReview ==
  /\ step.pc = "review"
  /\ LET h == step.head
         known == log["develop"] \o (IF h \in Features THEN Imported(h) ELSE << >>) IN
     IF AlreadyReviewed(known, step.pr) THEN log' = [log EXCEPT !["develop"] = known] /\ UNCHANGED made
     ELSE /\ made' = made + 1
          /\ log' = [log EXCEPT !["develop"] = Append(known, Event("review", h, step.pr))]
  /\ where' = "develop"
  /\ step' = IF step.head \in Features THEN [step EXCEPT !.pc = "align"] ELSE NoStep
  /\ UNCHANGED <<pushed, prs, verdicts, judged, released, stops, reopened>>

\* align_memory: the branch takes develop's memory and is pushed; a conflict of
\* code leaves it as it was (Stop).
Align ==
  /\ step.pc = "align"
  /\ log' = [log EXCEPT ![step.head] = log["develop"]]
  /\ pushed' = [pushed EXCEPT ![step.head] = log["develop"]]
  /\ step' = NoStep /\ where' = "develop"
  /\ UNCHANGED <<prs, verdicts, judged, released, made, stops, reopened>>

\* sh(): a git or gh call fails and the command ends there.
Stop ==
  /\ ~Idle /\ stops < MaxStop /\ stops' = stops + 1
  /\ step' = NoStep
  /\ UNCHANGED <<where, log, pushed, prs, verdicts, judged, released, made, reopened>>
----
(* The human on GitHub.  A PR that changes the log conflicts with develop.  *)

Mergeable(i) == IsPrefix(pushed[prs[i].head], log["develop"])
SetState(i, s) == prs' = [prs EXCEPT ![i].state = s]

MergePr(i) ==
  /\ prs[i].state = "OPEN" /\ Mergeable(i) /\ SetState(i, "MERGED")
  /\ UNCHANGED <<where, log, pushed, verdicts, judged, released, step, made, stops, reopened>>
ClosePr(i) ==
  /\ prs[i].state = "OPEN" /\ SetState(i, "CLOSED")
  /\ UNCHANGED <<where, log, pushed, verdicts, judged, released, step, made, stops, reopened>>
ReopenPr(i) ==
  /\ prs[i].state = "CLOSED" /\ OpenPrs(prs[i].head) = {}
  /\ reopened < MaxReopen /\ reopened' = reopened + 1
  /\ SetState(i, "OPEN")
  /\ UNCHANGED <<where, log, pushed, verdicts, judged, released, step, made, stops>>
----
(* The outcome of the review, listed by pending.py; the agent on duty       *)
(* handles it in the main copy, on develop, and anyone may elsewhere.       *)

\* pending.py: a `review` without an outcome whose PR is no longer open.
PendingMerged(h) ==
  {i \in DOMAIN prs : /\ prs[i].head = h /\ prs[i].state = "MERGED"
                      /\ Has(where, "review", i) /\ ~Ended(where, i)}
Pending(h) ==
  {i \in DOMAIN prs : /\ prs[i].head = h /\ prs[i].state # "OPEN"
                      /\ Has(where, "review", i) /\ ~Ended(where, i)}

\* review_sync, on whatever branch: it reads that branch's log, looks at the last
\* `review` of the item alone, and records there.  A merged feature loses its branch,
\* unless it is checked out.
Reviewed(h) == Events(where, "review", h)
LastReview(h) == log[where][Max(Reviewed(h))].pr
ReviewSync(h) ==
  /\ Idle /\ Reviewed(h) # {} /\ (where = "develop" \/ made < MaxAside)
  /\ LET i == LastReview(h)
         merged == prs[i].state = "MERGED" IN
     /\ ~Ended(where, i) /\ prs[i].state # "OPEN"
     /\ log' = [b \in Branches |->
                  IF b = where
                    THEN Append(log[b], Event(IF merged THEN "delivered" ELSE "review-rejected", h, i))
                  ELSE IF b = h /\ merged /\ h \in Features THEN << >> ELSE log[b]]
  /\ made' = made + 1
  /\ UNCHANGED <<where, pushed, prs, verdicts, judged, released, step, stops, reopened>>

\* release_publish, on whatever branch: tag and GitHub Release (once: a second one is
\* refused), the `delivered`, and the PR of the back-merge, on a branch of its own.
Publish(r) ==
  /\ Idle /\ Reviewed(r) # {} /\ r \notin released /\ (where = "develop" \/ made < MaxAside)
  /\ prs[LastReview(r)].state = "MERGED"
  /\ step' = [pc |-> "published", head |-> r, pr |-> LastReview(r)]
  /\ released' = released \cup {r}
  /\ UNCHANGED <<where, log, pushed, prs, verdicts, judged, made, stops, reopened>>
RecordPublished ==
  /\ step.pc = "published"
  /\ Write(Event("delivered", step.head, step.pr))
  /\ step' = [step EXCEPT !.pc = "back"]
  /\ UNCHANGED <<where, pushed, prs, verdicts, judged, released, stops, reopened>>
BackMerge ==
  /\ step.pc = "back"
  /\ LET back == Back[step.head] IN
     /\ where' = back
     /\ log' = [log EXCEPT ![back] = log["develop"]]
     /\ pushed' = [pushed EXCEPT ![back] = log["develop"]]
     /\ prs' = Append(prs, [head |-> back, state |-> "OPEN"])
     /\ step' = [pc |-> "review", head |-> back, pr |-> Len(prs')]
  /\ UNCHANGED <<verdicts, judged, released, made, stops, reopened>>

Command == OpenReview \/ Align \/ RecordPublished \/ BackMerge

\* The agent on duty does on develop what is pending, a merged release with release-publish.
Duty ==
  /\ where = "develop"
  /\ \/ \E h \in Heads : /\ Pending(h) # {} /\ ReviewSync(h)
                         /\ h \in Releases => prs[LastReview(h)].state # "MERGED"
     \/ \E r \in Releases : Pending(r) # {} /\ Publish(r)

Next ==
  \/ Progress
  \/ \E h \in Features \cup Releases : Start(h)
  \/ \E b \in Branches \ {Back[r] : r \in Releases} : Switch(b)
  \/ \E d \in Demands : Verify(d) \/ Judge(d)
  \/ RecordGate
  \/ \E h \in Features \cup Releases : Finish(h)
  \/ Command \/ Stop
  \/ \E i \in DOMAIN prs : MergePr(i) \/ ClosePr(i) \/ ReopenPr(i)
  \/ \E h \in Heads : ReviewSync(h)
  \/ \E r \in Releases : Publish(r)

Spec == Init /\ [][Next]_vars

\* The duty agent is started every cycle while pending.py lists work, brings
\* the main copy back to develop and, whenever it comes to it there, records an
\* outcome (each is recorded once, so none waits for ever); what a command has
\* begun it goes on with.
FairSpec == Spec /\ WF_vars(Command) /\ WF_vars(Switch("develop")) /\ SF_vars(Duty)
----
TypeOK ==
  /\ where \in Branches
  /\ \A b \in Branches : \A i \in DOMAIN log[b] : log[b][i].id \in 1..made
  /\ \A i \in DOMAIN prs : prs[i].head \in Heads /\ prs[i].state \in {"OPEN", "MERGED", "CLOSED"}
  /\ \A d \in Demands : verdicts[d] \in {<< >>} \cup [Checks -> Statuses]
  /\ judged \in {NoOpinion} \cup [of : Demands, type : {"gate", "progress"}, approve : BOOLEAN]
  /\ released \subseteq Releases
  /\ step.pc \in {"idle", "review", "align", "published", "back"}

\* CA2: whatever stopped and was run again, a PR has one `review` in the log of
\* develop, the one pending.py lists.
OneReviewPerPr ==
  \A i, j \in DOMAIN log["develop"] :
    LET e == log["develop"][i]
        f == log["develop"][j] IN
    i # j /\ e.type = "review" /\ f.type = "review" => e.pr # f.pr

\* Nothing goes to review without the Auditor: before the `review` of a demand the
\* log of develop has a gate of the demand that approves, wherever it was recorded.
ReviewIsApproved ==
  \A i \in DOMAIN log["develop"] :
    LET e == log["develop"][i] IN
    e.type = "review" /\ e.of \in Features =>
      \E j \in Events("develop", "gate", e.of) : j < i /\ log["develop"][j].approve

Open(i) == i \in DOMAIN prs /\ prs[i].state = "OPEN"
Decided(i) == i \in DOMAIN prs /\ prs[i].state # "OPEN" /\ Has("develop", "review", i)
Replaced(i) == i \in DOMAIN prs /\ \E j \in DOMAIN prs : j > i /\ prs[j].head = prs[i].head

\* What the human did with the last PR of a demand, or of a back-merge, reaches
\* the log of develop, unless the PR is opened again or another one takes its place:
\* a PR that is decided stays so until then, and none waits for ever.
LastOutcomeRecorded ==
  \A i \in 1..MaxPr + Cardinality(Releases) :
    []<>(Decided(i) /\ prs[i].head \notin Releases => Ended("develop", i) \/ Open(i) \/ Replaced(i))
====
