--------------------------- MODULE ScreeningAttempts ---------------------------
(***************************************************************************)
(* The screening queue: how a submission is leased to a screener, how the   *)
(* screener's verdict is applied in two transactions, how leases are swept, *)
(* how fleet failures are retried, and what operators may do meanwhile.     *)
(*                                                                         *)
(* apps/platform/ditto/db/queries/screening.py, screening_infra_retry.py,   *)
(* api_server/endpoints/screener.py (submit_result), admin_quarantine.py,   *)
(* admin_copy_review.py, admin_screener_policy_activation.py.               *)
(*                                                                         *)
(* A timestamp is a position in the agent's list of attempts: an attempt    *)
(* started after a moment iff its index is larger than the number of        *)
(* attempts at that moment.  LIVE is SCORED here.  Backoffs and the fleet   *)
(* breaker only delay a claim and are left to the scheduler.                *)
(***************************************************************************)
EXTENDS Integers, FiniteSets, Sequences

CONSTANTS
    Agents,      \* submissions
    Copies,      \* pairs <<e, l>>: the same bytes, e earlier and another owner's
    Rolling,     \* members of a collecting benchmark rollout
    Modes,       \* deferred_source_review modes in use: "off", "enforce"
    Verdicts,    \* outcomes workers report, a subset of AllVerdicts
    Notes,       \* whether a verdict may carry review_notes: subset of BOOLEAN
    MaxStreak,   \* INFRA_AUTO_RETRY_MAX_STREAK
    MaxExpiries, \* MAX_SCREENING_EXPIRIES
    MaxPolicy,   \* bound on scheduled policy activations
    MaxAttempts, \* bound on attempts of one agent
    MaxOps       \* bound on operators' rulings and retries

VARIABLES
    status,   \* [agent -> Agent.status]
    attempts, \* [agent -> sequence of ScreeningAttempt, its override and hold]
    overdue,  \* agents whose running attempt is past its deadline
    clear,    \* [agent -> attempts at the last clear or override]
    policy,   \* [agent -> Agent.screening_policy_version]
    required, \* effective_screening_policy_version
    ready,    \* agents with a screened image and a dataset
    tallied,  \* agents with accepted scores under the active benchmark
    review,   \* [agent -> its AthReview]
    release,  \* [agent -> its ScoredPolicyRescreenRelease]
    report,   \* [agent -> the submit_result call between its transactions]
    ops,      \* operator actions so far
    ruledAt   \* [agent -> attempts at the last operator action, -1 before any]

vars == <<status, attempts, overdue, clear, policy, required, ready, tallied,
          review, release, report, ops, ruledAt>>

AllVerdicts ==
    {"pass", "pass_inconclusive", "quarantine", "confirmed", "inconclusive",
     "unreachable", "infra", "late", "provider", "reject", "health", "duplicate"}

ASSUME SettingsAssumption ==
    /\ Copies \subseteq {p \in Agents \X Agents : p[1] # p[2]}
    /\ Rolling \subseteq Agents
    /\ Modes \subseteq {"off", "enforce"} /\ Modes # {}
    /\ Verdicts \subseteq AllVerdicts /\ Notes \subseteq BOOLEAN
    /\ {MaxStreak, MaxExpiries, MaxPolicy, MaxAttempts} \subseteq Nat \ {0}
    /\ MaxOps \in Nat

Statuses == {"uploaded", "screening", "failed", "evaluating", "scored", "ath",
             "quarantined", "rejected", "banned"}

Passing == {"pass", "pass_inconclusive"}
Unsure == {"inconclusive", "unreachable"}     \* ScreenResultOutcome.INCONCLUSIVE
Findings == {"quarantine", "confirmed"}       \* ScreenResultOutcome.QUARANTINE
Faults == {"infra", "late", "provider"}       \* ScreenResultOutcome.RETRYABLE_INFRA
AutoRetried == {"infra", "late"}              \* INFRA_AUTO_RETRY_REASON_CODES

NoReview == [st |-> "none", kind |-> "none", since |-> 0, back |-> "none"]
NoRelease == [st |-> "none", att |-> 0, rev |-> 0]
NoReport == [att |-> 0, out |-> "none", notes |-> FALSE, req |-> 0,
             life |-> FALSE, deep |-> FALSE]

Init ==
    /\ status = [a \in Agents |-> "uploaded"]
    /\ attempts = [a \in Agents |-> <<>>]
    /\ overdue = {} /\ ready = {} /\ tallied = {}
    /\ clear = [a \in Agents |-> 0]
    /\ policy = [a \in Agents |-> 0]
    /\ required = 1
    /\ review = [a \in Agents |-> NoReview]
    /\ release = [a \in Agents |-> NoRelease]
    /\ report = [a \in Agents |-> NoReport]
    /\ ops = 0
    /\ ruledAt = [a \in Agents |-> -1]

-----------------------------------------------------------------------------
(* What the claim reads. *)

Attempted(a) == attempts[a] # <<>>
Latest(a) == attempts[a][Len(attempts[a])]
Running(a) == Attempted(a) /\ Latest(a).st = "running"
Retried(a) == Attempted(a) /\ Latest(a).retry # "no"

\* A failure plan_infra_retries counts: failed with a fleet-owned code.
InfraFailure(t) == t.st = "failed" /\ t.code \in AutoRetried

\* _streak: trailing fleet failures among the attempts after `since`.
Streak(a, since, codes) ==
    LET seq == attempts[a]
        run == {i \in since + 1 .. Len(seq) :
                  \A j \in i .. Len(seq) : InfraFailure(seq[j])}
    IN  Cardinality({i \in run : seq[i].code \in codes})

InfraDueForever(a) ==
    /\ status[a] = "failed" /\ Attempted(a)
    /\ InfraFailure(Latest(a)) /\ ~Retried(a)

\* plan_infra_retries: due unless capped.
InfraDue(a) ==
    /\ status[a] = "failed" /\ Attempted(a)
    /\ InfraFailure(Latest(a)) /\ ~Retried(a)
    /\ Streak(a, clear[a], AutoRetried) < MaxStreak
    /\ Latest(a).code = "late" => Streak(a, clear[a], {"late"}) <= 1

\* deferred_ath_eligible
HoldDue(a) ==
    LET since == review[a].since
        seq == attempts[a]
    IN  /\ status[a] = "ath"
        /\ review[a].st = "pending" /\ review[a].kind = "deferred"
        /\ ~\E i \in since + 1 .. Len(seq) :
              ~seq[i].build /\ seq[i].st \in {"passed", "quarantined"}
        /\ seq = <<>> \/ Latest(a).build \/ Len(seq) = since \/ Retried(a)

Stale(a) == policy[a] < required \/ a \notin ready

\* A pending release of the governing activation (scored_policy_release_filter).
Released(a) == release[a].st = "pending" /\ release[a].rev = required

Eligible(a) ==
    \/ status[a] = "uploaded"
    \/ status[a] = "failed" /\ Retried(a)
    \/ InfraDue(a)
    \/ status[a] = "evaluating" /\ Stale(a)
    \/ status[a] = "scored" /\ a \in Rolling /\ Stale(a)
    \/ status[a] = "scored" /\ policy[a] < required /\ Released(a)
    \/ HoldDue(a)

DeferredNever(a) == FALSE

DeferredBehindHeld(a) ==
    \E p \in Copies : p[2] = a /\ status[p[1]] \in {"uploaded", "screening", "failed", "quarantined"}

\* screening_deferred_behind_earlier_owner
DeferredBehind(a) ==
    \E p \in Copies : p[2] = a /\ status[p[1]] \in {"uploaded", "screening", "failed"}

\* refused_for_cause
RefusedForCause(e) ==
    \/ status[e] = "banned"
    \/ \E i \in 1 .. Len(attempts[e]) :
          LET t == attempts[e][i]
          IN  t.hold = "reject" \/ (t.hold = "active" /\ t.code # "exhausted")

\* duplicate_of
IsDuplicate(a) ==
    \E p \in Copies :
       /\ p[2] = a
       /\ \/ status[p[1]] \in {"evaluating", "scored", "ath"}
          \/ status[p[1]] \in {"rejected", "quarantined", "banned"} /\ RefusedForCause(p[1])

SelectableAgain(a) == Eligible(a) /\ ~DeferredBehind(a)

\* What the claim's query selects; a running lease excludes the agent.
Selectable(a) == Eligible(a) /\ ~Running(a) /\ ~DeferredBehind(a)

\* _inconclusive_attempt_count: a provider failure counts once a peer passed.
Inconclusive(a, peer) ==
    LET seq == attempts[a]
    IN  Cardinality({i \in clear[a] + 1 .. Len(seq) :
          /\ seq[i].pol = required
          /\ \/ seq[i].st = "expired"
             \/ peer /\ seq[i].st = "failed" /\ seq[i].code = "provider"})

-----------------------------------------------------------------------------
(* Claims and sweeps. *)

Started(a, code, build) ==
    [st |-> "running", code |-> code, build |-> build, pol |-> required,
     retry |-> "no", hold |-> "none", was |-> "none"]

\* _park_repeatedly_inconclusive
Parked(a) ==
    [st |-> "quarantined", code |-> "exhausted", build |-> FALSE, pol |-> required,
     retry |-> "no", hold |-> "active", was |-> status[a]]

\* claim_screening_attempts, for one agent the claim selects.
Claim(a, mode, peer) ==
    LET parks == Inconclusive(a, peer) >= MaxExpiries
        mechanical == /\ mode = "enforce" /\ status[a] \in {"uploaded", "failed"}
                      /\ Attempted(a) => Latest(a).retry # "full"
        build == mechanical \/ (status[a] = "evaluating" /\ policy[a] >= required)
        code == IF IsDuplicate(a) THEN "duplicate" ELSE IF mechanical THEN "mechanical" ELSE "none"
    IN  /\ Len(attempts[a]) < MaxAttempts
        /\ Selectable(a)
        /\ IF parks
           THEN /\ attempts' = [attempts EXCEPT ![a] = Append(@, Parked(a))]
                /\ status' = [status EXCEPT ![a] = "quarantined"]
                /\ UNCHANGED release
           ELSE /\ attempts' = [attempts EXCEPT ![a] = Append(@, Started(a, code, build))]
                /\ status' = [status EXCEPT ![a] = IF @ \in {"scored", "ath"} THEN @ ELSE "screening"]
                /\ release' = IF Released(a)
                              THEN [release EXCEPT ![a].st = "running", ![a].att = Len(attempts[a]) + 1]
                              ELSE release
        /\ UNCHANGED <<overdue, clear, policy, required, tallied, ready, review, report, ops, ruledAt>>

\* The deadline of a running lease passes.
Lapse(a) ==
    /\ Running(a) /\ a \notin overdue
    /\ overdue' = overdue \cup {a}
    /\ UNCHANGED <<status, attempts, clear, policy, required, tallied, ready, review, release, report, ops, ruledAt>>

Retire(a, st, code) ==
    LET n == Len(attempts[a])
    IN  /\ attempts' = [attempts EXCEPT ![a][n].st = st,
                                       ![a][n].code = code]
        /\ overdue' = overdue \ {a}
        /\ release' = IF release[a].att = n THEN [release EXCEPT ![a].st = "paused"] ELSE release
        /\ status' = [status EXCEPT ![a] = IF @ = "screening" THEN "failed" ELSE @]
        /\ UNCHANGED <<clear, policy, required, tallied, ready, review, report, ops, ruledAt>>

\* expire_screening_attempts keeps a claim-time code.
expire_screening_attempts(a) ==
    /\ Running(a) /\ a \in overdue
    /\ Retire(a, "expired", Latest(a).code)

\* fail_orphaned_screening_attempts: no live worker reports this agent.
fail_orphaned_screening_attempts(a) ==
    /\ Running(a)
    /\ Retire(a, "failed", "orphaned")

-----------------------------------------------------------------------------
(* submit_result.  The first transaction reads; the second, under the agent's  *)
(* row lock, applies the verdict with the flags the first one computed.        *)

\* Which verdicts the first transaction accepts for the lease's mode.
Reportable(t, o) ==
    /\ o = "duplicate" <=> t.code = "duplicate"
    /\ t.build /\ t.code # "mechanical" => o \notin Findings

Begin(a, o, notes) ==
    LET n == Len(attempts[a])
        life == ~Latest(a).build /\ review[a].kind = "deferred" /\ n > review[a].since
    IN  /\ Running(a) /\ report[a] = NoReport
        /\ Reportable(Latest(a), o)
        /\ report' = [report EXCEPT ![a] =
              [att |-> n, out |-> o, notes |-> notes, req |-> required, life |-> life,
               deep |-> life /\ status[a] = "ath" /\ review[a].st = "pending"]]
        /\ UNCHANGED <<status, attempts, overdue, clear, policy, required, tallied, ready, review, release, ops, ruledAt>>

\* The verdict's target status, as the first transaction decides it.
Target(t, r) ==
    CASE r.deep /\ r.out = "pass" -> "scored"
      [] r.deep /\ r.out \notin {"pass", "reject", "duplicate"} -> "ath"
      [] ~r.deep /\ r.out \in Passing -> "evaluating"
      [] ~r.deep /\ (r.out \in Findings \/ (r.out = "inconclusive" /\ ~t.build)) -> "quarantined"
      [] r.out \in {"reject", "duplicate"} \/ (~r.deep /\ r.out = "health") -> "rejected"
      [] OTHER -> "failed"

\* The second transaction's view: the locked agent, attempt, review and release.
Verdict(a) ==
    LET r == report[a]
        t == attempts[a][r.att]
        first == Target(t, r)
        confirmed == r.out = "confirmed" /\ ~r.life /\ status[a] \in {"uploaded", "screening"}
        canary == release[a].att = r.att
        target == IF confirmed THEN "rejected"
                  ELSE IF r.out = "inconclusive" /\ first = "quarantined" /\ canary THEN "failed"
                  ELSE first
        passed == r.out \in Passing
        held == review[a].st = "pending" /\ review[a].kind = "deferred" /\ status[a] = "ath"
        inPlace == \/ a \in Rolling /\ status[a] = "scored"
                   \/ r.req > 1 /\ status[a] = "scored" /\ policy[a] < r.req
                   \/ canary
    IN  [target |-> target, passed |-> passed, canary |-> canary, inPlace |-> inPlace,
         retain |-> canary /\ target # "rejected",
         late |-> r.life /\ ~held,
         open |-> \/ inPlace \/ status[a] \in {"uploaded", "screening"}
                  \/ status[a] \in {"evaluating", "failed", "rejected"} /\ policy[a] < r.req,
         st |-> CASE target # first -> IF confirmed THEN "rejected" ELSE "expired"
                  [] target = first /\ (passed \/ (r.life /\ r.out \in Unsure)) -> "passed"
                  [] target = first /\ ~r.life /\ r.out \in Unsure ->
                       IF target = "quarantined" THEN "quarantined" ELSE "expired"
                  [] target = first /\ r.out \in Findings -> "quarantined"
                  [] target = first /\ target = "rejected" -> "rejected"
                  [] OTHER -> "failed"]

RefusedIfOver(a) ==
    attempts[a][report[a].att].st # "running" \/ a \in overdue

\* The second transaction refuses and changes nothing.
Refused(a) ==
    LET r == report[a]
        t == attempts[a][r.att]
        v == Verdict(a)
    IN  \/ t.st # "running" \/ a \in overdue
        \/ v.passed /\ t.pol # r.req
        \/ ~v.late /\ ~r.deep /\ ~(v.inPlace /\ (v.passed \/ v.retain)) /\ ~v.open /\ status[a] # v.target

\* What the verdict makes of the agent's status.
VerdictStatus(a) ==
    LET v == Verdict(a)
        keep == ~report[a].deep /\ v.inPlace /\ (v.passed \/ v.retain)
    IN  IF v.late \/ keep THEN status[a] ELSE v.target

\* The quarantine row a verdict leaves: an active hold, or retained evidence.
VerdictHold(a) ==
    LET r == report[a]
        v == Verdict(a)
        evidence == v.target = "quarantined" \/ r.notes
                    \/ r.out \in {"pass_inconclusive"} \cup Unsure \cup Findings
    IN  CASE ~evidence -> "none"
          [] evidence /\ v.target = "quarantined" /\ ~r.life -> "active"
          [] evidence /\ v.target = "rejected" /\ r.out = "confirmed" -> "reject"
          [] OTHER -> "rescreen"

submit_result(a) ==
    LET r == report[a]
        t == attempts[a][r.att]
        v == Verdict(a)
        hold == VerdictHold(a)
        code == IF t.code = "mechanical" THEN t.code ELSE r.out
    IN  /\ r # NoReport
        /\ report' = [report EXCEPT ![a] = NoReport]
        /\ IF Refused(a)
           THEN UNCHANGED <<status, attempts, overdue, clear, policy, ready, review, release>>
           ELSE /\ status' = [status EXCEPT ![a] = VerdictStatus(a)]
                /\ attempts' = [attempts EXCEPT ![a][r.att] =
                      [t EXCEPT !.st = v.st, !.code = code, !.hold = hold, !.was = status[a]]]
                /\ clear' = IF hold = "rescreen" THEN [clear EXCEPT ![a] = Len(attempts[a])] ELSE clear
                /\ policy' = IF /\ ~v.late /\ (~v.retain \/ v.passed)
                                /\ t.pol = r.req \/ v.canary
                             THEN [policy EXCEPT ![a] = t.pol] ELSE policy
                /\ ready' = IF v.passed /\ ~v.late THEN ready \cup {a} ELSE ready
                /\ review' = IF r.deep /\ ~v.late /\ r.out = "pass"
                             THEN [review EXCEPT ![a].st = "clear"] ELSE review
                /\ release' = IF v.canary
                              THEN [release EXCEPT ![a].st =
                                      IF v.target = "rejected" \/ v.passed THEN "terminal" ELSE "paused"]
                              ELSE release
                /\ overdue' = overdue \ {a}
        /\ UNCHANGED <<required, tallied, ops, ruledAt>>

-----------------------------------------------------------------------------
(* Validators: the quorum score finalizes an agent, and may hold it. *)

Held(a, kind) == [st |-> "pending", kind |-> kind, since |-> Len(attempts[a]), back |-> "scored"]

\* A copy hold inserts the agent's one review row; an older row aborts it.
Finalize(a, copy) ==
    /\ status[a] = "evaluating" /\ a \in ready
    /\ copy => review[a].st = "none"
    /\ status' = [status EXCEPT ![a] = IF copy THEN "ath" ELSE "scored"]
    /\ review' = IF copy THEN [review EXCEPT ![a] = Held(a, "copy")] ELSE review
    /\ tallied' = tallied \cup {a}
    /\ UNCHANGED <<attempts, overdue, clear, policy, required, ready, release, report, ops, ruledAt>>

\* _deferred_screening_attempts, then _record_deferred_review_decision
DeferHold(a) ==
    LET now == {attempts[a][i] : i \in {j \in 1 .. Len(attempts[a]) : attempts[a][j].pol = required}}
    IN  /\ status[a] = "scored" /\ review[a].kind # "deferred" /\ review[a].st # "pending"
        /\ \E t \in now : t.build /\ t.st = "passed" /\ t.code = "mechanical"
        /\ ~\E t \in now : ~t.build /\ t.st \in {"passed", "quarantined"}
        /\ status' = [status EXCEPT ![a] = "ath"]
        /\ review' = [review EXCEPT ![a] = Held(a, "deferred")]
        /\ UNCHANGED <<attempts, overdue, clear, policy, required, tallied, ready, release, report, ops, ruledAt>>

-----------------------------------------------------------------------------
(* Operators. *)

\* Every operator action on an agent; the moment is kept for the properties.
Rule(a) ==
    /\ ops < MaxOps /\ ops' = ops + 1
    /\ ruledAt' = [ruledAt EXCEPT ![a] = Len(attempts[a])]

\* _authorize_screening_retry: one override per attempt.
Authorized(seq, i, kind) == [seq EXCEPT ![i].retry = IF @ = "no" THEN kind ELSE @]

Cleared(a) == [clear EXCEPT ![a] = Len(attempts[a])]

\* resolve_quarantine (whole) and _apply_batch_resolution (not whole, which
\* always releases to evaluating): the first ruling on an active hold, or the
\* release of a hold that was rejected, or released before.
resolve_quarantine(a, i, ruling, whole) ==
    LET t == attempts[a][i]
        back == IF whole /\ t.was = "scored" THEN "scored" ELSE "evaluating"
    IN  /\ \/ t.hold = "active" /\ status[a] = "quarantined"
           \/ t.hold = "reject" /\ status[a] = "rejected" /\ ruling = "release"
           \/ /\ whole /\ t.hold = "release" /\ status[a] = "evaluating" /\ ruling = "release"
              /\ back # "evaluating"
        /\ Rule(a)
        /\ status' = [status EXCEPT ![a] = CASE ruling = "release" -> back
                                             [] ruling = "rescreen" -> "failed"
                                             [] ruling = "reject" -> "rejected"]
        /\ attempts' = [attempts EXCEPT ![a] =
              LET ruled == [@ EXCEPT ![i].hold = ruling]
              IN  IF ruling = "rescreen" THEN Authorized(ruled, i, "yes") ELSE ruled]
        /\ clear' = IF ruling = "reject" THEN clear ELSE Cleared(a)
        /\ UNCHANGED <<overdue, policy, required, tallied, ready, review, release, report>>

\* The release of a court's verified clearance, on the latest attempt only.
release_verified_v13_court_clear(a) ==
    /\ Attempted(a) /\ Latest(a).hold = "active" /\ Latest(a).code = "quarantine"
    /\ resolve_quarantine(a, Len(attempts[a]), "release", TRUE)

\* An appeal that is upheld releases the rejection it was made against.
resolve_screening_dispute(a, i) ==
    /\ attempts[a][i].hold = "reject"
    /\ resolve_quarantine(a, i, "release", TRUE)

\* _is_failed_release, _failed_release_conflict and the batch that applies it
ReleaseFailed(a) ==
    LET n == Len(attempts[a])
    IN  /\ status[a] = "failed" /\ Attempted(a) /\ ~Retried(a)
        /\ Latest(a).hold = "rescreen" /\ Latest(a).st \in {"failed", "expired"}
        /\ Rule(a)
        /\ status' = [status EXCEPT ![a] = "evaluating"]
        /\ attempts' = [attempts EXCEPT ![a][n].hold = "release"]
        /\ policy' = [policy EXCEPT ![a] = required]
        /\ clear' = Cleared(a)
        /\ UNCHANGED <<overdue, required, tallied, ready, review, release, report>>

\* A batch reject of an active hold behind a ban: only the hold is closed.
reconcile_terminal_quarantine(a, i) ==
    /\ attempts[a][i].hold = "active" /\ status[a] = "banned" /\ review[a].st = "reject"
    /\ attempts' = [attempts EXCEPT ![a][i].hold = "reject"]
    /\ UNCHANGED <<status, overdue, clear, policy, required, tallied, ready, review, release, report, ops, ruledAt>>

\* An exact retry of the latest attempt, from `next`.
Requeue(a, kind) ==
    /\ Attempted(a) /\ ~Running(a)
    /\ Rule(a)
    /\ attempts' = [attempts EXCEPT ![a] = Authorized(@, Len(@), kind)]
    /\ clear' = IF Retried(a) THEN clear ELSE Cleared(a)
    /\ UNCHANGED <<overdue, policy, required, tallied, review, release, report>>

rescreen_rejected_submission(a) ==
    /\ status[a] = "rejected"
    /\ Requeue(a, "yes")
    /\ status' = [status EXCEPT ![a] = "failed"]
    /\ UNCHANGED ready

retry_failed_screening_now(a, kind) ==
    /\ status[a] \in {"failed", "ath"} /\ Attempted(a) /\ ~Retried(a)
    /\ Latest(a).st \in {"expired", "failed", "rejected", "quarantined"}
    /\ Requeue(a, kind)
    /\ UNCHANGED <<status, ready>>

refresh_benchmark_contract(a) ==
    /\ a \in ready \ tallied
    /\ Requeue(a, "yes")
    /\ status' = [status EXCEPT ![a] = "failed"]
    /\ ready' = ready \ {a}

expire_running_screening(a) ==
    LET n == Len(attempts[a])
    IN  /\ status[a] = "screening" /\ Running(a)
        /\ Rule(a)
        /\ attempts' = [attempts EXCEPT ![a][n].st = "failed", ![a][n].code = "operator"]
        /\ status' = [status EXCEPT ![a] = "failed"]
        /\ overdue' = overdue \ {a}
        /\ UNCHANGED <<clear, policy, required, tallied, ready, review, release, report>>

reject_screening_submission(a) ==
    LET n == Len(attempts[a])
    IN  /\ status[a] \in {"uploaded", "screening", "failed"} /\ Attempted(a)
        /\ Rule(a)
        /\ attempts' = IF Running(a)
                       THEN [attempts EXCEPT ![a][n].st = "rejected", ![a][n].code = "operator"]
                       ELSE attempts
        /\ status' = [status EXCEPT ![a] = "rejected"]
        /\ policy' = [policy EXCEPT ![a] = required]
        /\ overdue' = overdue \ {a}
        /\ UNCHANGED <<clear, required, tallied, ready, review, release, report>>

rebuild_screened_image(a) ==
    /\ status[a] = "evaluating" /\ ~Running(a)
    /\ policy[a] >= required /\ a \in ready \ tallied
    /\ Rule(a)
    /\ ready' = ready \ {a}
    /\ UNCHANGED <<status, attempts, overdue, clear, policy, required, tallied, review, release, report>>

open_reviewOnce(a) ==
    /\ review[a].st # "pending"
    /\ status[a] = "scored" \/ (status[a] = "banned" /\ review[a].st = "reject")
    /\ Rule(a)
    /\ status' = [status EXCEPT ![a] = "ath"]
    /\ review' = IF review[a].st = "none" THEN [review EXCEPT ![a] = Held(a, "copy")] ELSE review
    /\ UNCHANGED <<attempts, overdue, clear, policy, required, tallied, ready, release, report>>

\* An existing row keeps its kind; a ban it caused may be reconsidered.
open_review(a) ==
    /\ review[a].st # "pending"
    /\ status[a] = "scored" \/ (status[a] = "banned" /\ review[a].st = "reject")
    /\ Rule(a)
    /\ status' = [status EXCEPT ![a] = "ath"]
    /\ review' = [review EXCEPT ![a] = Held(a, IF @.st = "none" THEN "copy" ELSE @.kind)]
    /\ UNCHANGED <<attempts, overdue, clear, policy, required, tallied, ready, release, report>>

\* A rejection closes every active hold with it.
resolve_copy_review(a, ruling) ==
    /\ review[a].st = "pending" /\ status[a] = "ath"
    /\ Rule(a)
    /\ review' = [review EXCEPT ![a].st = ruling]
    /\ status' = [status EXCEPT ![a] = IF ruling = "clear" THEN review[a].back ELSE "banned"]
    /\ attempts' = IF ruling = "clear" THEN attempts
                   ELSE [attempts EXCEPT ![a] = [i \in DOMAIN @ |->
                           IF @[i].hold = "active" THEN [@[i] EXCEPT !.hold = "reject"] ELSE @[i]]]
    /\ UNCHANGED <<overdue, clear, policy, required, tallied, ready, release, report>>

\* advance_scored_rescreen: one release per agent and activation; a paused one
\* stops the window.  An older activation's row is kept while its attempt runs.
advance_scored_rescreen(a) ==
    /\ \/ release[a].st = "paused" /\ release[a].rev = required
       \/ /\ release[a].rev < required /\ release[a].st # "running"
          /\ status[a] = "scored" /\ policy[a] < required /\ required > 1
          /\ \A b \in Agents : ~(release[b].st = "paused" /\ release[b].rev = required)
    /\ release' = [release EXCEPT ![a] = [st |-> "pending", att |-> 0, rev |-> required]]
    /\ UNCHANGED <<status, attempts, overdue, clear, policy, required, tallied, ready, review, report, ops, ruledAt>>

\* A scheduled activation comes due.
Activate ==
    /\ required < MaxPolicy
    /\ required' = required + 1
    /\ UNCHANGED <<status, attempts, overdue, clear, policy, ready, tallied, review, release, report, ops, ruledAt>>

-----------------------------------------------------------------------------

Screener(a) ==
    \/ \E mode \in Modes, peer \in BOOLEAN : Claim(a, mode, peer)
    \/ Lapse(a) \/ expire_screening_attempts(a) \/ fail_orphaned_screening_attempts(a)
    \/ \E o \in Verdicts, notes \in Notes : Begin(a, o, notes)
    \/ submit_result(a)

Operator(a) ==
    \/ \E i \in 1 .. Len(attempts[a]), ruling \in {"release", "rescreen", "reject"}, whole \in BOOLEAN :
          resolve_quarantine(a, i, ruling, whole)
    \/ release_verified_v13_court_clear(a) \/ ReleaseFailed(a)
    \/ \E i \in 1 .. Len(attempts[a]) :
          resolve_screening_dispute(a, i) \/ reconcile_terminal_quarantine(a, i)
    \/ rescreen_rejected_submission(a)
    \/ \E kind \in {"yes", "full"} : retry_failed_screening_now(a, kind)
    \/ refresh_benchmark_contract(a) \/ expire_running_screening(a)
    \/ reject_screening_submission(a) \/ rebuild_screened_image(a)
    \/ open_review(a) \/ \E ruling \in {"clear", "reject"} : resolve_copy_review(a, ruling)
    \/ advance_scored_rescreen(a)

Next ==
    \/ \E a \in Agents :
          \/ Screener(a) \/ Operator(a) \/ DeferHold(a)
          \/ \E copy \in BOOLEAN : Finalize(a, copy)
    \/ Activate

Spec == Init /\ [][Next]_vars

\* Screeners keep polling for work, deadlines pass, the sweeps run with every
\* claim, and a verdict's second transaction follows its first.  No worker must
\* report, and no operator must act.
Fairness ==
    \A a \in Agents :
       /\ WF_vars(\E mode \in Modes, peer \in BOOLEAN : Claim(a, mode, peer))
       /\ WF_vars(Lapse(a)) /\ WF_vars(expire_screening_attempts(a))
       /\ WF_vars(submit_result(a))

FairSpec == Spec /\ Fairness

-----------------------------------------------------------------------------
(* Properties. *)

Attempt ==
    [st : {"running", "passed", "failed", "expired", "rejected", "quarantined"},
     code : AllVerdicts \cup {"none", "mechanical", "exhausted", "orphaned", "operator"},
     build : BOOLEAN, pol : 1 .. MaxPolicy, retry : {"no", "yes", "full"},
     hold : {"none", "active", "release", "rescreen", "reject"}, was : Statuses \cup {"none"}]

\* Every row has its type, an attempt is overdue only while it runs, every
\* recorded moment is in the agent's past, only the latest attempt runs
\* (one_running_idx), and a submission that was neither a scored canary nor
\* under deferred review is shown as screening only while a lease runs: claim,
\* verdict, sweeps and operators all move the status with the attempt.
TypeOK ==
    /\ status \in [Agents -> Statuses]
    /\ \A a \in Agents :
          /\ Len(attempts[a]) <= MaxAttempts
          /\ \A i \in 1 .. Len(attempts[a]) : attempts[a][i] \in Attempt
    /\ overdue \subseteq {a \in Agents : Running(a)}
    /\ \A a \in Agents : clear[a] \in 0 .. Len(attempts[a]) /\ ruledAt[a] \in -1 .. Len(attempts[a])
    /\ policy \in [Agents -> 0 .. MaxPolicy] /\ required \in 1 .. MaxPolicy
    /\ ready \subseteq Agents /\ tallied \subseteq Agents
    /\ \A a \in Agents :
          /\ review[a].st \in {"none", "pending", "clear", "reject"}
          /\ review[a].kind \in {"none", "copy", "deferred"}
          /\ review[a].since \in 0 .. Len(attempts[a])
          /\ release[a].st \in {"none", "pending", "running", "paused", "terminal"}
          /\ release[a].att \in 0 .. Len(attempts[a]) /\ release[a].rev \in 0 .. required
          /\ report[a].att \in 0 .. Len(attempts[a])
          /\ \A i \in 1 .. Len(attempts[a]) - 1 : attempts[a][i].st # "running"
          /\ status[a] = "screening" /\ review[a].kind # "deferred" /\ release[a] = NoRelease
             => Running(a)
    /\ ops \in 0 .. MaxOps

\* Every hold can be resolved by an operator: a quarantined submission has an
\* active hold row, and one held for review has its review pending, because
\* verdicts, parking, deep reviews and rulings change the row with the status.
HeldIsResolvable ==
    \A a \in Agents :
       /\ status[a] = "quarantined" => \E i \in 1 .. Len(attempts[a]) : attempts[a][i].hold = "active"
       /\ status[a] = "ath" => review[a].st = "pending"

\* Statuses of a submission that passed screening.
Admitted == {"evaluating", "scored", "ath"}

\* Of two owners' identical submissions screening alone never admits both: the
\* later one waits for the earlier (screening_deferred_behind_earlier_owner) and
\* is then refused as its duplicate.
OneOwnerAdmitted ==
    \A p \in Copies :
       status[p[1]] \in Admitted /\ status[p[2]] \in Admitted =>
          ruledAt[p[1]] >= 0 \/ ruledAt[p[2]] >= 0

\* Since the last operator action a submission outside the rollout fails on
\* fleet-owned causes at most MaxStreak times in a row, and on the late-upload
\* code twice: after that the operator takes over (plan_infra_retries).
AutoBounded ==
    \A a \in Agents \ Rolling :
       LET since == IF ruledAt[a] < 0 THEN 0 ELSE ruledAt[a]
       IN  /\ Streak(a, since, AutoRetried) <= MaxStreak
           /\ Attempted(a) /\ Latest(a).code = "late" => Streak(a, since, {"late"}) <= 2

\* A queued or leased submission eventually leaves screening, admitted, refused,
\* held or failed, whatever happens to its worker, unless it waits for an earlier
\* owner's identical submission that failed and awaits a retry.
SubmissionSettles ==
    \A a \in Agents :
       status[a] \in {"uploaded", "screening"} ~>
          \/ status[a] \notin {"uploaded", "screening"}
          \/ \E p \in Copies : p[2] = a /\ status[p[1]] = "failed"

\* What was decided stands.  A finished attempt never changes its result: a
\* verdict whose lease was swept, expired or rejected between its two
\* transactions is refused.  A rejection or a ban stays until an operator
\* changes it; no verdict of an ordinary lease still in flight moves it.
RulingsStand ==
    [][\A a \in Agents :
          /\ \A i \in 1 .. Len(attempts[a]) :
                attempts[a][i].st # "running" => attempts'[a][i].st = attempts[a][i].st
          /\ (/\ status[a] \in {"rejected", "banned"} /\ status'[a] # status[a]
              /\ release[a].att = 0 \/ release[a].att # report[a].att) => ops' # ops]_vars
=============================================================================
