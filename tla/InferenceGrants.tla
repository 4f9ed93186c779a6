---------------------------- MODULE InferenceGrants ----------------------------
(***************************************************************************)
(* Metered inference of a scoring lease, as the platform and the model     *)
(* relay share it through the database.                                    *)
(*                                                                         *)
(* A lease (a ticket row and its deadline) has one grant.  The validator's *)
(* broker exchanges the grant for a bearer, and every call of the harness  *)
(* is admitted in one transaction (begin_inference_request), sent to a     *)
(* provider with no transaction open, and settled in another one           *)
(* (finish_inference_request).  Meanwhile the lease may lapse, be swept,   *)
(* scored, failed or issued again, the relay or the broker may die, and an *)
(* answer may come after its reservation was reclaimed.                    *)
(*                                                                         *)
(* The ticket row is locked from the start of an admission to its commit;  *)
(* the counts over the grants of other tickets are read in between without *)
(* a lock, so an admission is two steps here and every other transaction   *)
(* of the same ticket waits for the second.  A refused admission is rolled *)
(* back by its endpoint and changes nothing.  Tokens stand for tokens and  *)
(* cost; per-minute rates and the model, proof and schema checks can only  *)
(* refuse.  Benchmark versions with hosted inference (7 and later).        *)
(***************************************************************************)
EXTENDS Integers, FiniteSets, FiniteSetsExt, Sequences

CONSTANTS
    Tickets,        \* rows of validator_tickets: (agent, version, validator)
    Lanes,          \* request kinds; "chat" is the one that can end the grant
    Workers,        \* concurrent request handlers
    MaxLease,       \* bound: leases of a row, identified by their deadline
    MaxIssued,      \* bound: leases of all rows together
    MaxCalls,       \* bound: admitted requests, all grants together
    MaxRotations,   \* bound: exchanges, all grants together
    MaxFaults,      \* bound: broker restarts and calls whose settlement is lost
    RequestBudget,  \* request_budget, per lane
    TokenBudget,    \* token_budget, per lane
    Concurrency,    \* per_ticket_concurrency, per lane
    FleetLimit,     \* per_validator_concurrency / global_concurrency, per lane
    Ceiling         \* max_chargeable_tokens of a request

ASSUME GrantAssumption ==
    /\ IsFiniteSet(Tickets) /\ "chat" \in Lanes
    /\ {MaxLease, MaxIssued, MaxCalls, MaxRotations, MaxFaults, Ceiling} \subseteq Nat
    /\ {RequestBudget, TokenBudget, Concurrency, FleetLimit} \subseteq [Lanes -> Nat \ {0}]

VARIABLES
    tickets,    \* ticket rows: status ("lapsed": issued, deadline passed) and lease
    grants,     \* inference_grants, per ticket and lease
    requests,   \* inference_requests, per grant, in the order of admission
    work,       \* request handlers
    bearer,     \* the broker of the ticket's lease holds the current bearer
    verdict,    \* failure_reason of the ticket's last fail_job
    faults

vars == <<tickets, grants, requests, work, bearer, verdict, faults>>

Leases == 1..MaxLease
Grants == Tickets \X Leases
Zero == [k \in Lanes |-> 0]
NoGrant == [status |-> "none", generation |-> 0, count |-> Zero, active |-> Zero, tokens |-> Zero]
Idle == [phase |-> "idle"]

Init ==
    /\ tickets = [t \in Tickets |-> [status |-> "expired", lease |-> 0]]
    /\ grants = [g \in Grants |-> NoGrant]
    /\ requests = [g \in Grants |-> <<>>]
    /\ work = [w \in Workers |-> Idle]
    /\ bearer = [t \in Tickets |-> FALSE]
    /\ verdict = [t \in Tickets |-> "none"]
    /\ faults = 0

-----------------------------------------------------------------------------
Locked(t) == \E w \in Workers : work[w].phase = "admitting" /\ work[w].grant[1] = t

\* The ticket row is an open lease and the grant is the one of its deadline.
LeaseLive(g) == tickets[g[1]].status = "issued" /\ tickets[g[1]].lease = g[2]

Started(rows, k) == {n \in DOMAIN rows : rows[n].status = "started" /\ rows[n].kind = k}

cancel_unsettled_request(row) == [row EXCEPT !.status = "canceled", !.fresh = FALSE]

Canceled(rows, nonces) ==
    [n \in DOMAIN rows |-> IF n \in nonces THEN cancel_unsettled_request(rows[n]) ELSE rows[n]]

AllStarted(rows) == UNION {Started(rows, k) : k \in Lanes}

\* The grants of the row that revoke_ticket_inference finds, all leases.
Revocable(t) == {g \in Grants : g[1] = t /\ grants[g].status \in {"pending", "active"}}

RevokedGrants(t) ==
    [g \in Grants |-> IF g \in Revocable(t) THEN [grants[g] EXCEPT !.status = "revoked", !.active = Zero]
                                            ELSE grants[g]]

RevokedRequests(t) ==
    [g \in Grants |-> IF g \in Revocable(t) THEN Canceled(requests[g], AllStarted(requests[g])) ELSE requests[g]]

revoke_ticket_inference(t) == grants' = RevokedGrants(t) /\ requests' = RevokedRequests(t)

-----------------------------------------------------------------------------
(* The lease. *)

\* A poll issues the row, or re-issues it to a validator that reclaims its run,
\* and ensure_inference_grant mints the grant of the new deadline.
MutEnsureKeepsOld(t) ==
    LET g == <<t, tickets[t].lease + 1>> IN
    /\ grants' = [grants EXCEPT ![g] = [NoGrant EXCEPT !.status = "pending"]]
    /\ UNCHANGED requests

ensure_inference_grant(t) ==
    LET g == <<t, tickets[t].lease + 1>> IN
    /\ grants' = [RevokedGrants(t) EXCEPT ![g] = [NoGrant EXCEPT !.status = "pending"]]
    /\ requests' = RevokedRequests(t)

Issued == SumFunctionOnSet([t \in Tickets |-> tickets[t].lease], Tickets)

request_job(t) ==
    /\ ~Locked(t) /\ tickets[t].lease < MaxLease /\ Issued < MaxIssued
    /\ tickets' = [tickets EXCEPT ![t] = [status |-> "issued", lease |-> @.lease + 1]]
    /\ ensure_inference_grant(t)
    /\ bearer' = [bearer EXCEPT ![t] = FALSE]
    /\ verdict' = [verdict EXCEPT ![t] = "none"]
    /\ UNCHANGED <<work, faults>>

\* The deadline passes; a later poll of anyone expires the row and leaves the
\* grant alone.
DeadlinePasses(t) ==
    /\ tickets[t].status = "issued"
    /\ tickets' = [tickets EXCEPT ![t].status = "lapsed"]
    /\ UNCHANGED <<grants, requests, work, bearer, verdict, faults>>

expire_overdue_tickets(t) ==
    /\ ~Locked(t) /\ tickets[t].status = "lapsed"
    /\ tickets' = [tickets EXCEPT ![t].status = "expired"]
    /\ UNCHANGED <<grants, requests, work, bearer, verdict, faults>>

submit_score(t) ==
    /\ ~Locked(t) /\ tickets[t].status = "issued"
    /\ tickets' = [tickets EXCEPT ![t].status = "scored"]
    /\ revoke_ticket_inference(t)
    /\ UNCHANGED <<work, bearer, verdict, faults>>

park_scoring_leases(t) ==
    /\ ~Locked(t) /\ tickets[t].status \in {"issued", "lapsed"}
    /\ tickets' = [tickets EXCEPT ![t].status = "expired"]
    /\ revoke_ticket_inference(t)
    /\ UNCHANGED <<work, bearer, verdict, faults>>

-----------------------------------------------------------------------------
(* A failed run: who ended the lease's inference decides who answers for it. *)

ticket_inference_revoked_mid_lease(g) == grants[g].status = "revoked"

ticket_inference_grant_spent_allowance(g) ==
    /\ grants[g].status = "exhausted"
    /\ \/ grants[g].tokens["chat"] >= TokenBudget["chat"]
       \/ grants[g].count["chat"] >= RequestBudget["chat"]

\* The report of the validator is "infrastructure" or "scoring_error"; the
\* first becomes a scoring error of the agent that spent its "allowance".
FailureReason(g, reason) ==
    IF reason = "infrastructure" /\ ~ticket_inference_revoked_mid_lease(g)
                                 /\ ticket_inference_grant_spent_allowance(g)
    THEN "allowance" ELSE reason

fail_job(t, reason) ==
    LET g == <<t, tickets[t].lease>> IN
    /\ ~Locked(t) /\ tickets[t].status = "issued"
    /\ tickets' = [tickets EXCEPT ![t].status = "expired"]
    /\ verdict' = [verdict EXCEPT ![t] = FailureReason(g, reason)]
    /\ revoke_ticket_inference(t)
    /\ UNCHANGED <<work, bearer, faults>>

-----------------------------------------------------------------------------
(* The exchange (activate_inference_grant). *)

\* The grant is terminal or its lease is over: the refusal revokes it.
MutDeadWhenLeaseOver(g) == ~LeaseLive(g) \/ grants[g].status = "revoked"

DeadForExchange(g) == ~LeaseLive(g) \/ grants[g].status \in {"revoked", "exhausted"}

Rotated(g) == [grants[g] EXCEPT !.status = "active", !.generation = @ + 1, !.active = Zero]

Rotations == SumFunctionOnSet([g \in Grants |-> grants[g].generation], Grants)

\* The reply, with the new bearer, may be lost: `received`.
activate_inference_grant(g) ==
    /\ ~Locked(g[1]) /\ grants[g].status # "none"
    /\ \/ /\ DeadForExchange(g)
          /\ grants' = [grants EXCEPT ![g].status = "revoked"]
          /\ UNCHANGED <<requests, bearer, faults>>
       \/ /\ ~DeadForExchange(g) /\ Rotations < MaxRotations
          /\ \A n \in DOMAIN requests[g] : ~requests[g][n].fresh
          /\ requests' = [requests EXCEPT ![g] = Canceled(@, AllStarted(@))]
          /\ grants' = [grants EXCEPT ![g] = Rotated(g)]
          /\ \E received \in BOOLEAN :
                /\ bearer' = [bearer EXCEPT ![g[1]] = received]
                /\ received \/ faults < MaxFaults
                /\ faults' = faults + (IF received THEN 0 ELSE 1)
    /\ UNCHANGED <<tickets, work, verdict>>

BrokerRestart(t) ==
    /\ bearer[t] /\ faults < MaxFaults
    /\ bearer' = [bearer EXCEPT ![t] = FALSE]
    /\ faults' = faults + 1
    /\ UNCHANGED <<tickets, grants, requests, work, verdict>>

-----------------------------------------------------------------------------
(* Admission (begin_inference_request, beginInferenceRequest). *)

\* Requests past twice the provider timeout are reclaimed before the checks,
\* and the lane's counter is then recounted.
MutNeverReclaimed(g, k) == requests[g]

Reclaimed(g, k) == Canceled(requests[g], {n \in Started(requests[g], k) : ~requests[g][n].fresh})

ActiveAfterReclaim(g, k) ==
    IF Reclaimed(g, k) = requests[g] THEN grants[g].active[k] ELSE Cardinality(Started(Reclaimed(g, k), k))

WithinTicketRails(g, k) ==
    /\ grants[g].count[k] < RequestBudget[k]
    /\ grants[g].tokens[k] < TokenBudget[k]
    /\ ActiveAfterReclaim(g, k) < Concurrency[k]

\* Fresh started requests of active grants, of every ticket.
FleetActive(k) ==
    UNION {{<<g, n>> : n \in {m \in Started(requests[g], k) : requests[g][m].fresh}} :
               g \in {h \in Grants : grants[h].status = "active"}}

MutFleetBelowLimit(k) == Cardinality(FleetActive(k)) <= FleetLimit[k]

FleetBelowLimit(k) == Cardinality(FleetActive(k)) < FleetLimit[k]

\* n is the nonce: the next unused one, or that of an earlier request.
NonceUnused(g, n) == n \notin DOMAIN requests[g]

BeginChecks(w, g, k, n) ==
    /\ work[w] = Idle /\ bearer[g[1]] /\ ~Locked(g[1])
    /\ grants[g].status = "active" /\ LeaseLive(g)
    /\ WithinTicketRails(g, k) /\ NonceUnused(g, n) /\ FleetBelowLimit(k)
    /\ work' = [work EXCEPT ![w] = [phase |-> "admitting", grant |-> g, kind |-> k, nonce |-> n]]
    /\ UNCHANGED <<tickets, grants, requests, bearer, verdict, faults>>

Row(k) == [status |-> "started", kind |-> k, fresh |-> TRUE, tokens |-> 0]

BeginCommits(w) ==
    /\ work[w].phase = "admitting"
    /\ LET g == work[w].grant k == work[w].kind n == work[w].nonce IN
       /\ requests' = [requests EXCEPT ![g] =
                          [m \in DOMAIN @ \cup {n} |-> IF m = n THEN Row(k) ELSE Reclaimed(g, k)[m]]]
       /\ grants' = [grants EXCEPT ![g].count[k] = @ + 1, ![g].active[k] = ActiveAfterReclaim(g, k) + 1]
       /\ work' = [work EXCEPT ![w] = [phase |-> "upstream", grant |-> g, kind |-> k, nonce |-> n,
                                       generation |-> grants[g].generation]]
    /\ UNCHANGED <<tickets, bearer, verdict, faults>>

\* Twice the provider timeout passes for the n oldest requests of a grant.  An
\* admission reads the clock once, at its start.
RequestsAge(g) ==
    /\ ~Locked(g[1])
    /\ \E n \in DOMAIN requests[g] :
          /\ requests[g][n].fresh
          /\ requests' = [requests EXCEPT ![g] =
                [m \in DOMAIN @ |-> IF m <= n THEN [@[m] EXCEPT !.fresh = FALSE] ELSE @[m]]]
    /\ UNCHANGED <<tickets, grants, work, bearer, verdict, faults>>

-----------------------------------------------------------------------------
(* Settlement (finish_inference_request, finishInferenceRequest). *)

Deliverable(g, row, generation, status, receipt) ==
    /\ status = "completed" /\ receipt <= Ceiling
    /\ grants[g].status = "active" /\ grants[g].generation = generation
    /\ row.status = "started" /\ LeaseLive(g)

\* A call that failed has no receipt (0); a receipt is not trusted beyond the
\* ceiling of its request.
Charged(receipt) == IF receipt > Ceiling THEN Ceiling ELSE receipt

SettledStatus(g, row, generation, status, receipt) ==
    IF row.status = "started" /\ (status = "failed" \/ Deliverable(g, row, generation, status, receipt))
    THEN status ELSE "canceled"

MutActiveAfter(row, active) == IF active > 0 THEN active - 1 ELSE 0

ActiveAfter(row, active) == IF row.status = "started" /\ active > 0 THEN active - 1 ELSE active

MutExhaustsAnyLane(k, tokens) == tokens[k] >= TokenBudget[k]

Exhausts(k, tokens) == k = "chat" /\ tokens["chat"] >= TokenBudget["chat"]

MutSettleStartedOnly(g, k, row, receipt) ==
    LET tokens == [grants[g].tokens EXCEPT ![k] = @ + IF row.status = "started" THEN Charged(receipt) ELSE 0] IN
    [grants[g] EXCEPT !.active[k] = ActiveAfter(row, @), !.tokens = tokens,
                      !.status = IF Exhausts(k, tokens) THEN "exhausted" ELSE @]

SettleGrant(g, k, row, receipt) ==
    LET tokens == [grants[g].tokens EXCEPT ![k] = @ + Charged(receipt)] IN
    [grants[g] EXCEPT !.active[k] = ActiveAfter(row, @), !.tokens = tokens,
                      !.status = IF Exhausts(k, tokens) THEN "exhausted" ELSE @]

finish_inference_request(w, status, receipt) ==
    /\ work[w].phase = "upstream"
    /\ LET g == work[w].grant k == work[w].kind n == work[w].nonce
           row == requests[g][n] IN
       /\ ~Locked(g[1])
       /\ row.status \in {"started", "canceled"}
       /\ row.status = "started" \/ row.tokens = 0
       /\ requests' = [requests EXCEPT ![g][n] =
             [@ EXCEPT !.status = SettledStatus(g, row, work[w].generation, status, receipt),
                       !.tokens = Charged(receipt), !.fresh = FALSE]]
       /\ grants' = [grants EXCEPT ![g] = SettleGrant(g, k, row, receipt)]
    /\ work' = [work EXCEPT ![w] = Idle]
    /\ UNCHANGED <<tickets, bearer, verdict, faults>>

\* The relay dies, or its settlement transaction fails: the row stays started.
SettlementLost(w) ==
    /\ work[w].phase = "upstream" /\ faults < MaxFaults
    /\ work' = [work EXCEPT ![w] = Idle]
    /\ faults' = faults + 1
    /\ UNCHANGED <<tickets, grants, requests, bearer, verdict>>

-----------------------------------------------------------------------------
Lease(t) ==
    \/ request_job(t) \/ DeadlinePasses(t) \/ expire_overdue_tickets(t)
    \/ submit_score(t) \/ park_scoring_leases(t) \/ BrokerRestart(t)
    \/ \E reason \in {"infrastructure", "scoring_error"} : fail_job(t, reason)

Begin(w, g, k) ==
    /\ SumFunctionOnSet([h \in Grants |-> Len(requests[h])], Grants)
         + Cardinality({v \in Workers : work[v].phase = "admitting"}) < MaxCalls
    /\ \E n \in 1..(Len(requests[g]) + 1) : BeginChecks(w, g, k, n)

\* The provider answers, refuses or times out.
CallEnds(w) ==
    \/ SettlementLost(w)
    \/ finish_inference_request(w, "failed", 0)
    \/ \E receipt \in 1..(Ceiling + 1) : finish_inference_request(w, "completed", receipt)

Next ==
    \/ \E t \in Tickets : Lease(t)
    \/ \E g \in Grants : activate_inference_grant(g) \/ RequestsAge(g)
    \/ \E w \in Workers :
          \/ \E g \in Grants, k \in Lanes : Begin(w, g, k)
          \/ BeginCommits(w) \/ CallEnds(w)

Spec == Init /\ [][Next]_vars

-----------------------------------------------------------------------------
Kind(rows, k) == {n \in DOMAIN rows : rows[n].kind = k}

Spend(rows, k) == SumFunctionOnSet([n \in DOMAIN rows |-> rows[n].tokens], Kind(rows, k))

\* Every table and handler keeps its shape, and a ticket row has one grant a
\* broker could use: minting the grant of a new deadline has ended the one of
\* the abandoned lease.
TypeOK ==
    /\ tickets \in [Tickets -> [status : {"issued", "lapsed", "expired", "scored"}, lease : 0..MaxLease]]
    /\ grants \in [Grants -> [status : {"none", "pending", "active", "exhausted", "revoked"},
                             generation : 0..MaxRotations, count : [Lanes -> Nat], active : [Lanes -> Nat],
                             tokens : [Lanes -> Nat]]]
    /\ \A g \in Grants : \A n \in DOMAIN requests[g] :
          requests[g][n] \in [status : {"started", "completed", "failed", "canceled"}, kind : Lanes,
                             fresh : BOOLEAN, tokens : 0..Ceiling]
    /\ \A w \in Workers : work[w].phase \in {"idle", "admitting", "upstream"}
    /\ bearer \in [Tickets -> BOOLEAN]
    /\ verdict \in [Tickets -> {"none", "infrastructure", "scoring_error", "allowance"}]
    /\ faults \in 0..MaxFaults
    /\ \A t \in Tickets : Cardinality(Revocable(t)) <= 1

\* The counters begin_inference_request decides on agree with the request rows
\* through late settlements, reclamation, rotation and revocation.  No ghost
\* holds a place of a lane and no place is given twice; the request allowance is
\* spent once for every row, is never exceeded, and nothing gives it back.
CountersExact ==
    \A g \in Grants, k \in Lanes :
        /\ grants[g].active[k] = Cardinality(Started(requests[g], k))
        /\ grants[g].count[k] = Cardinality(Kind(requests[g], k))
        /\ grants[g].count[k] <= RequestBudget[k]

\* The tokens booked on a grant are the receipts of its requests, each booked
\* once and no more than its ceiling, whether the answer was delivered, came
\* after its reservation was reclaimed, or after the lease was over.
SpendIsReceipts ==
    \A g \in Grants, k \in Lanes : grants[g].tokens[k] = Spend(requests[g], k)

\* The unlocked counts over other tickets let a burst overshoot the fleet limit
\* by at most one request for every other ticket that admits at the same time.
FleetOvershoot ==
    \A k \in Lanes : Cardinality(FleetActive(k)) < FleetLimit[k] + Cardinality(Tickets)

\* "The request that crosses the wall is allowed to finish": a lane overruns its
\* token budget by at most the ceilings of the requests in flight when the last
\* one was admitted, those reclaimed while their call was still out included.
\* Only settled chat spend ends a grant, no bearer of it works again then, and
\* fail_job turns a no-fault report into the agent's failure only in that case.
TokenWall ==
    \A g \in Grants :
        LET reached == grants[g].tokens["chat"] >= TokenBudget["chat"] IN
        /\ \A k \in Lanes :
              grants[g].tokens[k] < TokenBudget[k] + Ceiling * (Concurrency[k]
                  + Cardinality({n \in Kind(requests[g], k) : requests[g][n].status = "canceled"}))
        /\ grants[g].status = "exhausted" => reached
        /\ reached => grants[g].status \in {"exhausted", "revoked"}
        /\ verdict[g[1]] = "allowance" /\ g[2] = tickets[g[1]].lease => reached

\* A terminal grant admits nothing and is never live again, whatever settles,
\* is exchanged or is leased later.
TerminalStays ==
    [][\A g \in Grants : grants[g].status \in {"exhausted", "revoked"} =>
          grants[g].status' \in {"exhausted", "revoked"} /\ grants[g].count' = grants[g].count]_vars

-----------------------------------------------------------------------------
(* Time passes, a started transaction ends, a provider call ends by its      *)
(* timeout at the latest, and the broker of a live lease repeats a call that *)
(* was refused for capacity, as the AT_CAPACITY reply tells it to.           *)

Fairness ==
    /\ \A w \in Workers : WF_vars(BeginCommits(w)) /\ WF_vars(CallEnds(w))
    /\ \A g \in Grants : WF_vars(RequestsAge(g))
    /\ \A g \in Grants, k \in Lanes : WF_vars(\E w \in Workers : Begin(w, g, k))

FairSpec == Spec /\ Fairness

Orphan(g, n) ==
    /\ n \in DOMAIN requests[g] /\ requests[g][n].status = "started"
    /\ \A w \in Workers : work[w] # Idle => <<work[w].grant, work[w].nonce>> # <<g, n>>

\* A reservation whose handler died does not hold its lane for ever: it is
\* reclaimed, or the grant can admit nothing more in that lane anyway.
OrphanReclaimed ==
    \A g \in Grants : \A n \in 1..MaxCalls :
        Orphan(g, n) ~>
            \/ ~Orphan(g, n)
            \/ ~LeaseLive(g) \/ grants[g].status # "active" \/ ~bearer[g[1]]
            \/ LET k == requests[g][n].kind IN
                  grants[g].count[k] >= RequestBudget[k] \/ grants[g].tokens[k] >= TokenBudget[k]
=============================================================================
