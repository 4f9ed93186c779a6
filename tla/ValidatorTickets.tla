-------------------------- MODULE ValidatorTickets --------------------------
(***************************************************************************)
(* The validator ticket pool of the platform: the validator_tickets,       *)
(* scores and agents tables and the score re-test lifecycle, with one      *)
(* action per request handler.  A handler is one database transaction that *)
(* holds the row and advisory locks it needs, so it is one atomic step.    *)
(*                                                                         *)
(* Time is abstracted: `overdue' stands for deadline <= now and `cooling'  *)
(* for retry_after > now; both are moved by the environment.  The lease    *)
(* revision stands for the exact (purpose_revision, deadline) pair by      *)
(* which a validator names the lease it was given.                         *)
(***************************************************************************)
EXTENDS Integers, FiniteSets

CONSTANTS
    Agents,          \* submissions
    Versions,        \* benchmark versions that may hold tickets
    Validators,      \* validator hotkeys
    Slots,           \* slot ids of a validator
    DefaultSlot,     \* the slot of the operator endpoints ("slot-0")
    SCORING_QUORUM,  \* 3 in the code
    MaxRevision,     \* bound: leases a row may receive
    MaxRecoveries    \* bound: operator grants a row may receive

ASSUME SetsAssumption ==
    /\ IsFiniteSet(Agents) /\ IsFiniteSet(Versions)
    /\ IsFiniteSet(Validators) /\ IsFiniteSet(Slots)
    /\ DefaultSlot \in Slots

ASSUME BoundsAssumption ==
    /\ SCORING_QUORUM \in Nat \ {0}
    /\ MaxRevision \in Nat /\ MaxRecoveries \in Nat

VARIABLES
    tickets,    \* [Key -> Row], the validator_tickets table
    scores,     \* the keys that have a row in the scores table
    agent,      \* [Agents -> status]
    review,     \* the copy review of an agent, if it has one
    retest,     \* latest score re-test event per (agent, validator)
    withdrawn,  \* (agent, version) pairs removed from the scoring queue
    leased,     \* history: ordinary scoring leases granted per key
    recovered   \* history: operator retry grants per key

vars == <<tickets, scores, agent, review, retest, withdrawn, leased, recovered>>

history == <<leased, recovered>>

Key == Agents \X Versions \X Validators

NoSlot == "none"

Purposes == {"canonical", "continual", "round", "canary"}

(* One ticket row.  `parked' is provider_outage_epoch, `resumed' is        *)
(* provider_outage_attempted_epoch, `foreign' a dataset seed that is not   *)
(* the agent's own, `reported' first_reported_at.                          *)
Row == [status : {"none", "issued", "scored", "expired"},
        purpose : Purposes, revision : Nat, slot : Slots \cup {NoSlot},
        overdue : BOOLEAN, attempts : Nat, grants : Nat, cooling : BOOLEAN,
        parked : BOOLEAN, resumed : BOOLEAN, reported : BOOLEAN,
        foreign : BOOLEAN]

NoRow == [status |-> "none", purpose |-> "canonical", revision |-> 0,
          slot |-> NoSlot, overdue |-> FALSE, attempts |-> 0, grants |-> 0,
          cooling |-> FALSE, parked |-> FALSE, resumed |-> FALSE,
          reported |-> FALSE, foreign |-> FALSE]

(* The lifecycle event of a score re-test.  `closed' is released or        *)
(* invalidated; `stale' says that the score it names has been replaced.    *)
Bases == {"operator", "contract", "rotation"}

Event == [ev : {"closed", "queued", "requested"}, basis : Bases,
          version : Versions, stale : BOOLEAN]

(* `scored' is SCORED or LIVE, `held' ATH_PENDING_REVIEW, and `screening'  *)
(* every status of the screening side.                                     *)
AgentStatus == {"evaluating", "scored", "held", "banned", "screening"}

Scoreable == {"evaluating", "scored", "held"}

(* `previous' is the status a cleared review gives back.                   *)
Review == [state : {"none", "pending", "cleared", "rejected"},
           previous : {"evaluating", "scored"}]

-----------------------------------------------------------------------------
(* Row predicates.                                                         *)

Issued(r) == r.status = "issued"

Live(r) == r.status = "issued" /\ ~r.overdue

Canonical(r) == r.purpose = "canonical"

MAX_ATTEMPTS_PER_VERSION == 1

ticket_attempt_cap(r) == MAX_ATTEMPTS_PER_VERSION + r.grants

(* Mutant: the cap itself is still allowed.                                *)
MutSpentOffByOne(r) ==
    r.purpose # "canary" /\ ~r.parked /\ r.attempts > ticket_attempt_cap(r)

retry_budget_spent(r) ==
    /\ r.purpose # "canary"
    /\ ~r.parked
    /\ r.attempts >= ticket_attempt_cap(r)

(* Which rows count as this validator's scoring history of the agent.      *)
scoring_retry_ticket(r) ==
    /\ r.purpose # "canary"
    /\ r.purpose = "round" => r.status # "issued" /\ r.attempts > 0

(* A row its validator may not be leased again for the same version.       *)
Barred(r) ==
    \/ r.status \in {"issued", "scored"}
    \/ r.status = "expired" /\ (r.cooling \/ retry_budget_spent(r))

OnSlot(t, k, v, s) == k[3] = v /\ Issued(t[k]) /\ t[k].slot = s

(* Mutant: an overdue lease that is not swept yet does not count.          *)
MutSlotFreeOfLive(t, v, s) ==
    \A k \in Key : ~(OnSlot(t, k, v, s) /\ Live(t[k]))

SlotFree(t, v, s) == \A k \in Key : ~OnSlot(t, k, v, s)

(* Mutant: only a canonical lease of the agent counts.                     *)
MutAgentCanonicalHeld(t, a, v) ==
    \E b \in Versions : Live(t[<<a, b, v>>]) /\ Canonical(t[<<a, b, v>>])

(* live_ticket_for_agent_on_validator: any version.                        *)
AgentLeaseHeld(t, a, v) == \E b \in Versions : Live(t[<<a, b, v>>])

RetestOpen(a, v, ev) == retest[<<a, v>>].ev = ev

-----------------------------------------------------------------------------
(* What a lane writes into a row when it leases it.                        *)

(* Mutant: release_foreign_dataset_pin is forgotten.                       *)
MutLeaseKeepsPin(r, purpose, s) ==
    [r EXCEPT !.status = "issued", !.purpose = purpose, !.slot = s,
              !.revision = @ + 1, !.overdue = FALSE, !.cooling = FALSE,
              !.foreign = @ \/ purpose \in {"continual", "round"}]

Lease(r, purpose, s) ==
    [r EXCEPT !.status = "issued", !.purpose = purpose, !.slot = s,
              !.revision = @ + 1, !.overdue = FALSE, !.cooling = FALSE,
              !.foreign = purpose \in {"continual", "round"}]

(* The attempt is charged unless the row holds a parked outage resume,     *)
(* which is consumed instead.                                              *)
ChargeAttempt(r) ==
    [r EXCEPT !.attempts = IF r.parked THEN @ ELSE @ + 1,
              !.resumed = @ \/ r.parked,
              !.parked = FALSE]

(* A diagnostic canary row starts over when another lane takes it.         *)
ForgetCanary(r, keepGrants) ==
    IF r.purpose = "canary"
    THEN [r EXCEPT !.attempts = 0, !.parked = FALSE, !.resumed = FALSE,
                   !.grants = IF keepGrants THEN @ ELSE 0]
    ELSE r

CanonicalLease(r, s) ==
    [ChargeAttempt(Lease(ForgetCanary(r, TRUE), "canonical", s))
        EXCEPT !.reported = FALSE]

ContinualLease(r, s) ==
    ChargeAttempt(Lease(ForgetCanary(r, FALSE), "continual", s))

RoundLease(r, s) == Lease(ForgetCanary(r, FALSE), "round", s)

(* How a lease leaves the issued state.                                    *)
Expire(r, cooling) ==
    [r EXCEPT !.status = "expired", !.overdue = FALSE, !.cooling = cooling]

Complete(r) ==
    [r EXCEPT !.status = "scored", !.overdue = FALSE, !.cooling = FALSE]

finish_canary(r) == [Expire(r, FALSE) EXCEPT !.parked = FALSE]

force_expire_lease(r) ==
    IF r.purpose = "canary" THEN finish_canary(r) ELSE Expire(r, FALSE)

finish_generator_round_ticket(r) ==
    IF r.attempts = 0 THEN Expire(r, FALSE) ELSE Complete(r)

(* Mutant: the sweep skips round leases instead of expiring them.          *)
MutSweepSkipsRounds(t) ==
    [k \in Key |-> IF /\ Issued(t[k]) /\ t[k].overdue
                      /\ t[k].purpose # "round"
                   THEN Expire(t[k], t[k].purpose \in {"canonical", "continual"})
                   ELSE t[k]]

(* The deadline sweep every scoring poll runs first.                       *)
expire_overdue_tickets(t) ==
    [k \in Key |-> IF Issued(t[k]) /\ t[k].overdue
                   THEN Expire(t[k], t[k].purpose \in {"canonical", "continual"})
                   ELSE t[k]]

ClearSlot(t, v, s) ==
    [k \in Key |-> IF OnSlot(t, k, v, s) THEN force_expire_lease(t[k])
                                         ELSE t[k]]

(* maybe_force_expire_lease: only a canonical lease that a heartbeat has   *)
(* reported since it was issued can be found idle.                         *)
IdleOnSlot(t, v, s) ==
    \A k \in Key : OnSlot(t, k, v, s) => Canonical(t[k]) /\ t[k].reported

(* request_job also recycles a canonical lease of a version other than the *)
(* one it serves as soon as the slot reports no benchmark running.         *)
Recyclable(t, v, s, b) ==
    \A k \in Key : OnSlot(t, k, v, s) => Canonical(t[k]) /\ k[2] # b

Count(a, b, P(_)) == Cardinality({v \in Validators : P(<<a, b, v>>)})

-----------------------------------------------------------------------------
(* Issuing lanes of request_job.                                           *)

Init ==
    /\ tickets = [k \in Key |-> NoRow]
    /\ scores = {}
    /\ agent = [a \in Agents |-> "evaluating"]
    /\ review = [a \in Agents |-> [state |-> "none", previous |-> "scored"]]
    /\ \E b \in Versions :
          retest = [p \in Agents \X Validators |->
                      [ev |-> "closed", basis |-> "operator",
                       version |-> b, stale |-> FALSE]]
    /\ withdrawn = {}
    /\ leased = [k \in Key |-> 0]
    /\ recovered = [k \in Key |-> 0]

CanLease(k) == tickets[k].revision < MaxRevision

(* A poll that leases nothing: it resumes its live lease or finds no work, *)
(* after the sweep and, possibly, after ending an incompatible lease that  *)
(* is idle or of another version.                                          *)
PollNoWork(v, s, b) ==
    LET swept == expire_overdue_tickets(tickets)
        endable == IdleOnSlot(swept, v, s) \/ Recyclable(swept, v, s, b)
    IN
    /\ tickets' \in {swept} \cup (IF endable THEN {ClearSlot(swept, v, s)} ELSE {})
    /\ UNCHANGED <<scores, agent, review, retest, withdrawn, history>>

(* Mutant: a consumed ticket frees its place in the quorum.                *)
MutOccupiedByIssued(t, a, b) ==
    Count(a, b, LAMBDA k : Issued(t[k]) /\ scoring_retry_ticket(t[k]))

(* The slots of the agent's quorum that are taken: issue_ticket's recount  *)
(* under the agent row lock.                                               *)
Occupied(t, a, b) ==
    Count(a, b, LAMBDA k : /\ t[k].status \in {"issued", "scored"}
                           /\ scoring_retry_ticket(t[k]))

issue_ticket(a, b, v, s) ==
    LET k == <<a, b, v>>
        swept == expire_overdue_tickets(tickets)
        free == ClearSlot(swept, v, s)
    IN
    /\ CanLease(k)
    /\ IdleOnSlot(swept, v, s) \/ Recyclable(swept, v, s, b)
    /\ agent[a] = "evaluating"
    /\ <<a, b>> \notin withdrawn
    /\ ~Barred(free[k])
    /\ Occupied(free, a, b) < SCORING_QUORUM
    /\ ~AgentLeaseHeld(free, a, v)
    /\ tickets' = [free EXCEPT ![k] = CanonicalLease(@, s)]
    /\ leased' = [leased EXCEPT ![k] = @ + 1]
    /\ UNCHANGED <<scores, agent, review, retest, withdrawn, recovered>>

(* A finalized member of a rollout cohort the validator may still advance. *)
RolloutCandidate(t, a, b, v) ==
    /\ agent[a] \in {"scored", "held"}
    /\ <<a, b, v>> \notin scores
    /\ ~Barred(t[<<a, b, v>>])
    /\ \A c \in Versions \ {b} : ~Live(t[<<a, c, v>>])
    /\ Count(a, b, LAMBDA k : k \in scores)
         + Count(a, b, LAMBDA k : Live(t[k]) /\ t[k].purpose # "canary")
       < SCORING_QUORUM

(* The lane of an open rollout may take the slot from an idle lease; its   *)
(* top-up after activation only fills an empty slot and honours withdrawal.*)
issue_rollout_ticket(a, b, v, s) ==
    LET k == <<a, b, v>>
        swept == expire_overdue_tickets(tickets)
        free == ClearSlot(swept, v, s)
    IN
    /\ CanLease(k)
    /\ RolloutCandidate(swept, a, b, v)
    /\ \/ IdleOnSlot(swept, v, s)
       \/ SlotFree(swept, v, s) /\ <<a, b>> \notin withdrawn
    /\ ~Barred(free[k])
    /\ tickets' = [free EXCEPT ![k] = CanonicalLease(@, s)]
    /\ leased' = [leased EXCEPT ![k] = @ + 1]
    /\ UNCHANGED <<scores, agent, review, retest, withdrawn, recovered>>

(* Mutant: a requested re-test does not keep its row from these lanes.     *)
MutEvidenceTakesRetest(t, a, b, v, s) ==
    /\ CanLease(<<a, b, v>>)
    /\ agent[a] = "scored"
    /\ SlotFree(t, v, s)
    /\ ~AgentLeaseHeld(t, a, v)
    /\ ~t[<<a, b, v>>].cooling

(* What the two evidence lanes require of a finalized agent: the slot and  *)
(* the agent are free on this validator, no re-test is in flight, and the  *)
(* shared row is not cooling down.                                         *)
EvidenceLeasable(t, a, b, v, s) ==
    /\ CanLease(<<a, b, v>>)
    /\ agent[a] = "scored"
    /\ SlotFree(t, v, s)
    /\ ~AgentLeaseHeld(t, a, v)
    /\ ~RetestOpen(a, v, "requested")
    /\ ~t[<<a, b, v>>].cooling

(* A continual lease whose agent left the cohort is dropped by the poll.   *)
ContinualOnSlot(t, v, s) ==
    /\ ~SlotFree(t, v, s)
    /\ \A k \in Key : OnSlot(t, k, v, s) => t[k].purpose = "continual"

request_top5_no_job(v, s) ==
    LET swept == expire_overdue_tickets(tickets) IN
    /\ ContinualOnSlot(swept, v, s)
    /\ tickets' = ClearSlot(swept, v, s)
    /\ UNCHANGED <<scores, agent, review, retest, withdrawn, history>>

issue_confirmation_ticket(a, b, v, s) ==
    LET swept == expire_overdue_tickets(tickets)
        free == IF ContinualOnSlot(swept, v, s) THEN ClearSlot(swept, v, s)
                                                ELSE swept
    IN
    /\ EvidenceLeasable(free, a, b, v, s)
    /\ tickets' = [free EXCEPT ![<<a, b, v>>] = ContinualLease(@, s)]
    /\ UNCHANGED <<scores, agent, review, retest, withdrawn, history>>

issue_generator_round_ticket(a, b, v, s) ==
    LET swept == expire_overdue_tickets(tickets) IN
    /\ EvidenceLeasable(swept, a, b, v, s)
    /\ tickets' = [swept EXCEPT ![<<a, b, v>>] = RoundLease(@, s)]
    /\ UNCHANGED <<scores, agent, review, retest, withdrawn, history>>

(* An operator's diagnostic run; it does not sweep, so even an overdue     *)
(* lease still occupies the slot.                                          *)
issue_canary(a, b, v, s) ==
    LET k == <<a, b, v>> IN
    /\ CanLease(k)
    /\ tickets[k] = NoRow /\ k \notin scores
    /\ agent[a] = "scored"
    /\ SlotFree(tickets, v, s)
    /\ ~AgentLeaseHeld(tickets, a, v)
    /\ tickets' = [tickets EXCEPT ![k] =
                     [Lease(NoRow, "canary", s) EXCEPT !.attempts = 1]]
    /\ UNCHANGED <<scores, agent, review, retest, withdrawn, history>>

-----------------------------------------------------------------------------
(* What a validator reports about a lease it holds.                        *)

(* A heartbeat that lists the slot and agent stamps first_reported_at.     *)
Heartbeat(k) ==
    /\ Live(tickets[k]) /\ ~tickets[k].reported
    /\ agent[k[1]] \in Scoreable
    /\ tickets' = [tickets EXCEPT ![k].reported = TRUE]
    /\ UNCHANGED <<scores, agent, review, retest, withdrawn, history>>

QuorumReached(n) == n >= SCORING_QUORUM

ReleasedEvent(e) == [e EXCEPT !.ev = "closed"]

HoldFor(a, status) ==
    /\ review[a].state # "pending"
    /\ agent' = [agent EXCEPT ![a] = "held"]
    /\ review' = [review EXCEPT ![a] = [state |-> "pending", previous |-> status]]

(* The anti-copy gates of the quorum-th score: scored, or held in its      *)
(* place.                                                                  *)
Finalize(a) ==
    \/ agent' = [agent EXCEPT ![a] = "scored"] /\ UNCHANGED review
    \/ HoldFor(a, "scored")

(* A score that replaces an accepted one must be the requested re-test of  *)
(* that very score once the agent is finalized.  The re-test is closed     *)
(* only when the agent is finalized; otherwise the event stays and now     *)
(* names a score that is gone.  The quorum-th score of an agent finalizes  *)
(* it, or holds it for review.                                             *)
submit_score(k) ==
    LET a == k[1]
        e == retest[<<a, k[3]>>]
        requested == k \in scores /\ e.ev = "requested"
        total == {v \in Validators : <<a, k[2], v>> \in scores \cup {k}}
    IN
    /\ Live(tickets[k]) /\ Canonical(tickets[k])
    /\ agent[a] \in Scoreable
    /\ requested => e.version = k[2] /\ ~e.stale
    /\ k \in scores /\ agent[a] = "scored" => requested
    /\ scores' = scores \cup {k}
    /\ tickets' = [tickets EXCEPT ![k] = Complete(@)]
    /\ retest' = [retest EXCEPT ![<<a, k[3]>>] =
                    IF requested /\ agent[a] = "scored" THEN ReleasedEvent(e)
                    ELSE [e EXCEPT !.stale = @ \/ (k \in scores /\ e.version = k[2])]]
    /\ IF agent[a] = "evaluating" /\ QuorumReached(Cardinality(total))
       THEN Finalize(a) ELSE UNCHANGED <<agent, review>>
    /\ UNCHANGED <<withdrawn, history>>

submit_top5_confirmation_score(k) ==
    /\ Live(tickets[k]) /\ tickets[k].purpose = "continual"
    /\ agent[k[1]] = "scored"
    /\ tickets' = [tickets EXCEPT ![k] = Complete(@)]
    /\ UNCHANGED <<scores, agent, review, retest, withdrawn, history>>

(* A round report or a released round lease closes the row the same way.   *)
finish_generator_round(k) ==
    /\ Live(tickets[k]) /\ tickets[k].purpose = "round"
    /\ tickets' = [tickets EXCEPT ![k] = finish_generator_round_ticket(@)]
    /\ UNCHANGED <<scores, agent, review, retest, withdrawn, history>>

finish_canary_run(k) ==
    /\ Live(tickets[k]) /\ tickets[k].purpose = "canary"
    /\ tickets' = [tickets EXCEPT ![k] = finish_canary(@)]
    /\ UNCHANGED <<scores, agent, review, retest, withdrawn, history>>

(* A reported failure expires the lease; infrastructure and memory faults, *)
(* and every continual re-test, also start a cooldown.                     *)
fail_job(k) ==
    /\ Live(tickets[k]) /\ tickets[k].purpose # "canary"
    /\ \E cooling \in {TRUE, tickets[k].purpose = "continual"} :
          tickets' = [tickets EXCEPT ![k] = Expire(@, cooling)]
    /\ UNCHANGED <<scores, agent, review, retest, withdrawn, history>>

(* A closed round, or a panel drop, ends the round leases it still has.    *)
expire_round_tickets(S) ==
    /\ S # {} /\ \A k \in S : Issued(tickets[k]) /\ tickets[k].purpose = "round"
    /\ tickets' = [k \in Key |-> IF k \in S THEN Expire(tickets[k], FALSE)
                                            ELSE tickets[k]]
    /\ UNCHANGED <<scores, agent, review, retest, withdrawn, history>>

(* One lease of park_scoring_leases.                                       *)
ParkedLease(r) ==
    IF r.purpose \in {"canary", "round"} THEN Expire(r, FALSE)
    ELSE [Expire(r, TRUE) EXCEPT !.parked = ~r.resumed]

(* An open provider circuit parks every lease but the probe's and those    *)
(* whose row another transaction has locked.                               *)
park_scoring_leases(S) ==
    /\ S # {} /\ \A k \in S : Issued(tickets[k])
    /\ tickets' = [k \in Key |-> IF k \in S THEN ParkedLease(tickets[k])
                                            ELSE tickets[k]]
    /\ UNCHANGED <<scores, agent, review, retest, withdrawn, history>>

-----------------------------------------------------------------------------
(* The clock.                                                              *)

DeadlinePasses(k) ==
    /\ Live(tickets[k])
    /\ tickets' = [tickets EXCEPT ![k].overdue = TRUE]
    /\ UNCHANGED <<scores, agent, review, retest, withdrawn, history>>

CooldownEnds(k) ==
    /\ tickets[k].cooling
    /\ tickets' = [tickets EXCEPT ![k].cooling = FALSE]
    /\ UNCHANGED <<scores, agent, review, retest, withdrawn, history>>

-----------------------------------------------------------------------------
(* Operator actions on a submission's retry state.  They read the rows of  *)
(* one version that count as scoring history.                              *)

ScoresOf(a, b) == {v \in Validators : <<a, b, v>> \in scores}

History(a, b) == {v \in Validators : /\ tickets[<<a, b, v>>].status # "none"
                                     /\ scoring_retry_ticket(tickets[<<a, b, v>>])}

NoneActive(a, b) == \A v \in History(a, b) : ~Issued(tickets[<<a, b, v>>])

(* Validators without a score whose row is expired with its attempts spent.*)
Exhausted(a, b) ==
    {v \in History(a, b) : /\ v \notin ScoresOf(a, b)
                           /\ tickets[<<a, b, v>>].status = "expired"
                           /\ retry_budget_spent(tickets[<<a, b, v>>])}

Needed(a, b) == SCORING_QUORUM - Cardinality(ScoresOf(a, b))

(* Mutant: the sign of the extra lease is wrong.                           *)
MutGrantBelow(r) ==
    [r EXCEPT !.grants = @ + (r.attempts - ticket_attempt_cap(r) - 1),
              !.cooling = FALSE]

(* The cap is raised to exactly one lease above the attempts made.         *)
GrantRetry(r) ==
    [r EXCEPT !.grants = @ + (r.attempts - ticket_attempt_cap(r) + 1),
              !.cooling = FALSE]

(* An unspent row blocks the grant only while its validator is online, so  *)
(* it never blocks here.                                                   *)
recover_validation(a, b, S) ==
    /\ agent[a] \in {"evaluating", "scored"}
    /\ <<a, b>> \notin withdrawn
    /\ Needed(a, b) > 0
    /\ NoneActive(a, b)
    /\ S \subseteq Exhausted(a, b) /\ Cardinality(S) = Needed(a, b)
    /\ \A v \in S : recovered[<<a, b, v>>] < MaxRecoveries
    /\ tickets' = [k \in Key |-> IF k[1] = a /\ k[2] = b /\ k[3] \in S
                                 THEN GrantRetry(tickets[k]) ELSE tickets[k]]
    /\ recovered' = [k \in Key |-> IF k[1] = a /\ k[2] = b /\ k[3] \in S
                                   THEN recovered[k] + 1 ELSE recovered[k]]
    /\ UNCHANGED <<scores, agent, review, retest, withdrawn, leased>>

(* An operator takes one live lease back, or cancels a canary.             *)
release_validator_assignment(k) ==
    /\ Live(tickets[k])
    /\ tickets' = [tickets EXCEPT ![k] = Expire(@, TRUE)]
    /\ UNCHANGED <<scores, agent, review, retest, withdrawn, history>>

cancel_benchmark_canary(k) ==
    /\ tickets[k].purpose = "canary" /\ tickets[k].status \in {"issued", "expired"}
    /\ tickets' = [tickets EXCEPT ![k] = Expire(@, FALSE)]
    /\ UNCHANGED <<scores, agent, review, retest, withdrawn, history>>

withdraw_validation(a, b) ==
    /\ agent[a] = "evaluating" /\ <<a, b>> \notin withdrawn
    /\ Needed(a, b) > 0
    /\ NoneActive(a, b)
    /\ Cardinality(Exhausted(a, b)) >= Needed(a, b)
    /\ withdrawn' = withdrawn \cup {<<a, b>>}
    /\ UNCHANGED <<tickets, scores, agent, review, retest, history>>

(* Eviction ends the live leases, and closes the version for a submission  *)
(* that still waits for scores.                                            *)
evict_validation(a, b) ==
    LET closesEra == agent[a] = "evaluating" /\ Needed(a, b) > 0 IN
    /\ <<a, b>> \notin withdrawn
    /\ ~NoneActive(a, b) \/ closesEra
    /\ tickets' = [k \in Key |->
                     IF k[1] = a /\ k[2] = b /\ k[3] \in History(a, b)
                          /\ Issued(tickets[k])
                     THEN force_expire_lease(tickets[k]) ELSE tickets[k]]
    /\ withdrawn' = IF closesEra THEN withdrawn \cup {<<a, b>>} ELSE withdrawn
    /\ UNCHANGED <<scores, agent, review, retest, history>>

reinstate_validation(a, b) ==
    /\ agent[a] = "evaluating" /\ <<a, b>> \in withdrawn
    /\ Needed(a, b) > 0
    /\ withdrawn' = withdrawn \ {<<a, b>>}
    /\ UNCHANGED <<tickets, scores, agent, review, retest, history>>

(* A rebuilt image gives every row of the version a fresh lease.           *)
RebuiltRow(r) ==
    LET spare == r.attempts - ticket_attempt_cap(r) + 1 IN
    [Expire(r, FALSE) EXCEPT !.grants = @ + IF spare > 1 THEN spare ELSE 1]

ResetRows(a, b) ==
    LET Reset(k) == /\ k[1] = a /\ k[2] = b
                    /\ tickets[k].status \in {"issued", "expired"} IN
    /\ \A k \in Key : Reset(k) => recovered[k] < MaxRecoveries
    /\ tickets' = [k \in Key |-> IF Reset(k) THEN RebuiltRow(tickets[k])
                                             ELSE tickets[k]]
    /\ recovered' = [k \in Key |-> IF Reset(k) THEN recovered[k] + 1
                                               ELSE recovered[k]]

rebuild_screened_image(a, b) ==
    /\ agent[a] = "evaluating" /\ ScoresOf(a, b) = {}
    /\ ResetRows(a, b)
    /\ UNCHANGED <<scores, agent, review, retest, withdrawn, leased>>

(* A contract refresh resets the rows the same way and sends the agent,    *)
(* whatever its status, back to screening.                                 *)
refresh_benchmark_contract(a, b) ==
    /\ ScoresOf(a, b) = {}
    /\ ResetRows(a, b)
    /\ agent' = [agent EXCEPT ![a] = "screening"]
    /\ UNCHANGED <<scores, review, retest, withdrawn, leased>>

(* A waiting submission is claimed for a rescreen or an image rebuild, and *)
(* the screener's passing verdict admits it again.  Its leases keep        *)
(* running.                                                                *)
claim_screening(a) ==
    /\ agent[a] = "evaluating"
    /\ agent' = [agent EXCEPT ![a] = "screening"]
    /\ UNCHANGED <<tickets, scores, review, retest, withdrawn, history>>

screening_passed(a) ==
    /\ agent[a] = "screening"
    /\ agent' = [agent EXCEPT ![a] = "evaluating"]
    /\ UNCHANGED <<tickets, scores, review, retest, withdrawn, history>>

(* A hold leaves the leases running.  A batch ruling also opens a          *)
(* submission that is still evaluating, and a reopened rejection keeps the *)
(* status the first hold recorded.                                         *)
open_review(a) ==
    /\ \/ agent[a] \in {"evaluating", "scored"} /\ HoldFor(a, agent[a])
       \/ /\ agent[a] = "banned" /\ review[a].state = "rejected"
          /\ HoldFor(a, review[a].previous)
    /\ UNCHANGED <<tickets, scores, retest, withdrawn, history>>

resolve_clear(a) ==
    /\ agent[a] = "held" /\ review[a].state = "pending"
    /\ agent' = [agent EXCEPT ![a] = review[a].previous]
    /\ review' = [review EXCEPT ![a].state = "cleared"]
    /\ UNCHANGED <<tickets, scores, retest, withdrawn, history>>

(* A rejection ends the leases.                                            *)
resolve_reject(a) ==
    /\ agent[a] = "held" /\ review[a].state = "pending"
    /\ agent' = [agent EXCEPT ![a] = "banned"]
    /\ review' = [review EXCEPT ![a].state = "rejected"]
    /\ tickets' = [k \in Key |-> IF k[1] = a /\ Live(tickets[k])
                                 THEN force_expire_lease(tickets[k])
                                 ELSE tickets[k]]
    /\ UNCHANGED <<scores, retest, withdrawn, history>>

-----------------------------------------------------------------------------
(* The score re-test queue.                                                *)

CloseRetests(r, v, A) ==
    [p \in Agents \X Validators |-> IF p[2] = v /\ p[1] \in A
                                    THEN ReleasedEvent(r[p]) ELSE r[p]]

(* The rows of the re-tests that validator v has for the agents in A go    *)
(* back to the consumed state of the score they preserve.                  *)
RestoreRows(t, r, v, A) ==
    [k \in Key |-> IF k[3] = v /\ k[1] \in A /\ k[2] = r[<<k[1], v>>].version
                   THEN Complete(t[k]) ELSE t[k]]

RetestRow(t, r, a, v) == t[<<a, r[<<a, v>>].version, v>>]

RetestAllowed(a, basis) ==
    \/ agent[a] = "scored"
    \/ basis = "contract" /\ agent[a] \in {"evaluating", "held"}

Lanes == {"any", "contract", "rotation"}

InLane(e, lane) == lane = "any" \/ e.basis = lane

(* Mutant: no transition for a contract repair whose row expired.          *)
MutRepairsForgotten(t, r, v) ==
    {a \in Agents : /\ r[<<a, v>>].ev = "requested"
                    /\ r[<<a, v>>].basis = "contract"
                    /\ RetestRow(t, r, a, v).status = "none"}

(* A failed contract repair is closed at once: one failure is final.       *)
FailedRepairs(t, r, v) ==
    {a \in Agents : /\ r[<<a, v>>].ev = "requested"
                    /\ r[<<a, v>>].basis = "contract"
                    /\ RetestRow(t, r, a, v).status = "expired"}

(* The re-tests of v that run on slot s in this lane, and which of them    *)
(* this poll may end: overdue, or found idle by the liveness gate.         *)
RunningRetests(t, r, v, s, lane) ==
    {a \in Agents : \E b \in Versions :
        /\ OnSlot(t, <<a, b, v>>, v, s) /\ Canonical(t[<<a, b, v>>])
        /\ r[<<a, v>>].ev = "requested" /\ InLane(r[<<a, v>>], lane)}

EndableRetest(t, r, a, v, s) ==
    LET row == RetestRow(t, r, a, v) IN
    Issued(row) /\ row.slot = s /\ (row.overdue \/ row.reported)

(* The typed lanes share the validator with other work; the plain lane     *)
(* waits behind every lease of the validator, overdue ones included.       *)
LaneOpen(t, v, s, lane) ==
    IF lane = "any" THEN \A k \in Key : k[3] = v => ~Issued(t[k])
                    ELSE SlotFree(t, v, s)

ReusableRow(row, basis) ==
    row.status = "scored" \/ (row.status = "expired" /\ basis = "contract")

WaitsForLease(row, basis) ==
    row.status = "issued" /\ basis \in {"contract", "rotation"}

ScoreStands(r, a, v) ==
    <<a, r[<<a, v>>].version, v>> \in scores /\ ~r[<<a, v>>].stale

Queued(r, v, lane) ==
    {a \in Agents : r[<<a, v>>].ev = "queued" /\ InLane(r[<<a, v>>], lane)}

(* A queued entry this poll may lease.                                     *)
Promotable(t, r, v, lane) ==
    {a \in Queued(r, v, lane) :
        /\ RetestAllowed(a, r[<<a, v>>].basis)
        /\ ReusableRow(RetestRow(t, r, a, v), r[<<a, v>>].basis)
        /\ ScoreStands(r, a, v)
        /\ RetestRow(t, r, a, v).revision < MaxRevision}

(* A queued entry this poll may close as no longer serviceable.  A         *)
(* rotation entry may always be one whose season has closed.               *)
Unserviceable(t, r, v, lane) ==
    {a \in Queued(r, v, lane) :
        \/ ~RetestAllowed(a, r[<<a, v>>].basis)
        \/ /\ ~WaitsForLease(RetestRow(t, r, a, v), r[<<a, v>>].basis)
           /\ \/ ~ReusableRow(RetestRow(t, r, a, v), r[<<a, v>>].basis)
              \/ ~ScoreStands(r, a, v)
              \/ r[<<a, v>>].basis = "rotation"}

(* The queue pass from tables t and r: leave the queue alone, or close     *)
(* stale entries and lease at most one promotable entry.                   *)
ServeQueue(t, r, v, s, lane) ==
    \/ tickets' = t /\ retest' = r
    \/ \E closed \in SUBSET Unserviceable(t, r, v, lane) :
          tickets' = t /\ retest' = CloseRetests(r, v, closed)
    \/ \E closed \in SUBSET Unserviceable(t, r, v, lane) :
       \E a \in Promotable(t, r, v, lane) \ closed :
          /\ tickets' = [t EXCEPT ![<<a, r[<<a, v>>].version, v>>] =
                                     CanonicalLease(@, s)]
          /\ retest' = [CloseRetests(r, v, closed) EXCEPT
                          ![<<a, v>>].ev = "requested"]

(* activate_next_score_retest on tables t and r.                           *)
ActivateRetest(t, r, v, s, lane) ==
    LET failed == FailedRepairs(t, r, v)
        t1 == RestoreRows(t, r, v, failed)
        r1 == CloseRetests(r, v, failed)
        running == RunningRetests(t1, r1, v, s, lane)
    IN
    \/ tickets' = t1 /\ retest' = r1
    \/ /\ running = {} /\ LaneOpen(t1, v, s, lane)
       /\ ServeQueue(t1, r1, v, s, lane)
    \/ \E a \in running :
          /\ EndableRetest(t1, r1, a, v, s)
          /\ ServeQueue(RestoreRows(t1, r1, v, {a}),
                        CloseRetests(r1, v, {a}), v, s, lane)

activate_next_score_retest(v, s, lane) ==
    /\ ActivateRetest(tickets, retest, v, s, lane)
    /\ UNCHANGED <<scores, agent, review, withdrawn, history>>

QueuedEvent(b, basis) ==
    [ev |-> "queued", basis |-> basis, version |-> b, stale |-> FALSE]

(* Both operator queue routes activate the queue on the default slot in    *)
(* the same transaction.                                                   *)
queue_score_retest(k, basis) ==
    LET p == <<k[1], k[3]>> IN
    /\ k \in scores /\ retest[p].ev = "closed"
    /\ \/ basis = "operator" /\ agent[k[1]] = "scored"
          /\ tickets[k].status = "scored"
       \/ basis = "contract" /\ agent[k[1]] \in Scoreable
          /\ tickets[k].status # "none"
    /\ ActivateRetest(tickets, [retest EXCEPT ![p] = QueuedEvent(k[2], basis)],
                      k[3], DefaultSlot, "any")
    /\ UNCHANGED <<scores, agent, review, withdrawn, history>>

(* A season open queues the scores of its cohort from another season; an   *)
(* earlier rotation entry is replaced unless its lease still runs.         *)
queue_dueling_rotation_retests(b, P) ==
    /\ P # {}
    /\ \A p \in P :
         /\ <<p[1], b, p[2]>> \in scores /\ agent[p[1]] = "scored"
         /\ \/ retest[p].ev = "closed"
            \/ /\ retest[p].basis = "rotation"
               /\ retest[p].ev = "requested" => ~Issued(tickets[<<p[1], b, p[2]>>])
    /\ retest' = [p \in Agents \X Validators |->
                    IF p \in P THEN QueuedEvent(b, "rotation") ELSE retest[p]]
    /\ UNCHANGED <<tickets, scores, agent, review, withdrawn, history>>

(* A replacement is leased in place, whatever the row was used for.        *)
ReplacementLease(r) ==
    [Lease(r, "canonical", r.slot) EXCEPT !.attempts = @ + 1,
                                          !.reported = FALSE]

(* An operator re-opens a consumed row at once.  The row keeps its slot,   *)
(* so the one-lease-per-slot index decides whether the update commits.     *)
replace_validator_score(k) ==
    /\ CanLease(k)
    /\ agent[k[1]] \in {"evaluating", "scored"}
    /\ k \in scores /\ tickets[k].status = "scored"
    /\ \A j \in Key : j[3] = k[3] /\ j[1] # k[1] => ~Issued(tickets[j])
    /\ SlotFree(tickets, k[3], tickets[k].slot)
    /\ tickets' = [tickets EXCEPT ![k] = ReplacementLease(@)]
    /\ retest' = [retest EXCEPT ![<<k[1], k[3]>>] =
                    [QueuedEvent(k[2], "operator") EXCEPT !.ev = "requested"]]
    /\ UNCHANGED <<scores, agent, review, withdrawn, history>>

release_score_retest(a, v) ==
    LET k == <<a, retest[<<a, v>>].version, v>> IN
    /\ retest[<<a, v>>].ev = "requested"
    /\ k \in scores /\ tickets[k].status \in {"issued", "expired"}
    /\ scoring_retry_ticket(tickets[k])
    /\ ActivateRetest([tickets EXCEPT ![k] = Complete(@)],
                      [retest EXCEPT ![<<a, v>>] = ReleasedEvent(@)],
                      v, DefaultSlot, "any")
    /\ UNCHANGED <<scores, agent, review, withdrawn, history>>

-----------------------------------------------------------------------------
(* Steps by who takes them.                                                *)

ScoringPoll ==
    \E a \in Agents, b \in Versions, v \in Validators, s \in Slots :
        \/ PollNoWork(v, s, b)
        \/ issue_ticket(a, b, v, s)
        \/ issue_rollout_ticket(a, b, v, s)

EvidencePoll ==
    \E a \in Agents, b \in Versions, v \in Validators, s \in Slots :
        \/ issue_confirmation_ticket(a, b, v, s)
        \/ request_top5_no_job(v, s)
        \/ issue_generator_round_ticket(a, b, v, s)
        \/ issue_canary(a, b, v, s)

RetestPoll ==
    \E v \in Validators, s \in Slots, lane \in Lanes :
        activate_next_score_retest(v, s, lane)

ScoringReport ==
    \E k \in Key : Heartbeat(k) \/ submit_score(k) \/ fail_job(k)

EvidenceReport ==
    \/ \E k \in Key : \/ submit_top5_confirmation_score(k)
                      \/ finish_generator_round(k)
                      \/ finish_canary_run(k)
                      \/ cancel_benchmark_canary(k)
    \/ \E S \in SUBSET Key : expire_round_tickets(S)

Outage == \E S \in SUBSET Key : park_scoring_leases(S)

Clock == \E k \in Key : DeadlinePasses(k) \/ CooldownEnds(k)

QueueOperator ==
    \E a \in Agents, b \in Versions :
        \/ \E S \in SUBSET Validators : recover_validation(a, b, S)
        \/ withdraw_validation(a, b)
        \/ evict_validation(a, b)
        \/ reinstate_validation(a, b)
        \/ rebuild_screened_image(a, b)
        \/ \E v \in Validators : release_validator_assignment(<<a, b, v>>)

ReviewOperator ==
    \E a \in Agents : \/ open_review(a)
                      \/ resolve_clear(a)
                      \/ resolve_reject(a)

Rescreening ==
    \E a \in Agents : \/ claim_screening(a)
                      \/ screening_passed(a)
                      \/ \E b \in Versions : refresh_benchmark_contract(a, b)

RetestOperator ==
    \/ \E k \in Key, basis \in {"operator", "contract"} :
          queue_score_retest(k, basis)
    \/ \E b \in Versions, P \in SUBSET (Agents \X Validators) :
          queue_dueling_rotation_retests(b, P)
    \/ \E a \in Agents, v \in Validators : release_score_retest(a, v)

ReplaceOperator == \E k \in Key : replace_validator_score(k)

Next ==
    \/ ScoringPoll \/ EvidencePoll \/ RetestPoll
    \/ ScoringReport \/ EvidenceReport \/ Outage \/ Clock
    \/ QueueOperator \/ ReviewOperator \/ Rescreening
    \/ RetestOperator \/ ReplaceOperator

Spec == Init /\ [][Next]_vars

(* Time passes, some validator keeps polling (every poll sweeps), and each *)
(* validator's polls reach the contract re-test lane.                      *)
Fairness ==
    /\ \A k \in Key : WF_vars(DeadlinePasses(k))
    /\ WF_vars(\E v \in Validators, s \in Slots, b \in Versions :
                  PollNoWork(v, s, b))
    /\ \A v \in Validators :
          WF_vars(activate_next_score_retest(v, DefaultSlot, "contract"))

FairSpec == Spec /\ Fairness

-----------------------------------------------------------------------------
(* Properties.                                                             *)

(* Every table has its shape.                                              *)
TypeOK ==
    /\ tickets \in [Key -> Row]
    /\ scores \subseteq Key
    /\ agent \in [Agents -> AgentStatus]
    /\ review \in [Agents -> Review]
    /\ retest \in [Agents \X Validators -> Event]
    /\ withdrawn \subseteq Agents \X Versions
    /\ leased \in [Key -> Nat]
    /\ recovered \in [Key -> Nat]

(* A validator slot carries at most one issued lease, whichever lane wrote *)
(* it, even while an overdue lease has not been swept.                     *)
OneLeasePerSlot ==
    \A j, k \in Key :
        /\ Issued(tickets[j]) /\ Issued(tickets[k])
        /\ j[3] = k[3] /\ tickets[j].slot = tickets[k].slot
        => j = k

(* "A submission (agent) is scored by at most SCORING_QUORUM validators."  *)
AtMostQuorumScores ==
    \A a \in Agents, b \in Versions :
        Cardinality(ScoresOf(a, b)) <= SCORING_QUORUM

(* The ordinary scoring leases a validator got for a version of an agent   *)
(* never exceed its one attempt, one more per operator grant, and at most  *)
(* one resume for a provider outage.                                       *)
LeaseBudget ==
    \A k \in Key :
        leased[k] <= 1 + recovered[k] + (IF tickets[k].resumed THEN 1 ELSE 0)

(* A canonical lease never scores another lane's dataset.                  *)
CanonicalPin ==
    \A k \in Key : Issued(tickets[k]) /\ Canonical(tickets[k]) => ~tickets[k].foreign

(* Two live leases of one agent on one validator occur only while one of   *)
(* them is a requested re-test: the other lanes exclude each other.        *)
AgentLeasesExclusive ==
    \A a \in Agents, v \in Validators, b, c \in Versions :
        /\ b # c
        /\ Live(tickets[<<a, b, v>>]) /\ Live(tickets[<<a, c, v>>])
        => /\ retest[<<a, v>>].ev = "requested"
           /\ retest[<<a, v>>].version \in {b, c}

(* A requested re-test of a score that still stands can still be finished  *)
(* or released: its row is leased or expired.                              *)
RetestServiceable ==
    \A a \in Agents, v \in Validators :
        RetestOpen(a, v, "requested") /\ ~retest[<<a, v>>].stale
        => RetestRow(tickets, retest, a, v).status \in {"issued", "expired"}

(* A submission collects at most SCORING_QUORUM scores per version, a live *)
(* canonical lease counting as the score it may still deliver, and it is   *)
(* finalized only with all of them: an agent that is scored, or that a     *)
(* cleared review makes scored, has a full quorum in some version.         *)
QuorumKept ==
    \A a \in Agents :
        /\ \A b \in Versions :
              Count(a, b, LAMBDA k : k \in scores \/ (Issued(tickets[k]) /\ Canonical(tickets[k])))
                  <= SCORING_QUORUM
        /\ \/ agent[a] = "scored"
           \/ agent[a] \in {"held", "banned"} /\ review[a].previous = "scored"
           => \E b \in Versions : Cardinality(ScoresOf(a, b)) >= SCORING_QUORUM

(* A lease does not outlive its deadline for ever: an abandoned lease is   *)
(* swept by the next polls, and its slot and quorum place come back.       *)
LeaseEnds ==
    \A k \in Key : \A n \in 1..MaxRevision :
        Issued(tickets[k]) /\ tickets[k].revision = n
            ~> ~Issued(tickets[k]) \/ tickets[k].revision # n

(* A requested contract repair does not disappear: it is scored, released  *)
(* or closed, or the score it repairs has been replaced.                   *)
RepairSettles ==
    \A a \in Agents, v \in Validators :
        RetestOpen(a, v, "requested") /\ retest[<<a, v>>].basis = "contract"
            ~> retest[<<a, v>>].ev # "requested" \/ retest[<<a, v>>].stale
               \/ retest[<<a, v>>].basis # "contract"

=============================================================================
