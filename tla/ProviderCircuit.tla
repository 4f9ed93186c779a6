---------------------------- MODULE ProviderCircuit ----------------------------
(***************************************************************************)
(* The provider outage circuit: one row that the model relay opens and     *)
(* closes from the answers of its calls, and that the platform reads under *)
(* a row lock to decide which leases may run (none while it cools down,    *)
(* then one half-open probe).                                              *)
(*                                                                         *)
(* The relay writes the row after the answer of a call, so writes of       *)
(* several calls arrive in any order.  A poll holds the lock of the row to *)
(* its commit and is one step; it parks the leases it finds, except those  *)
(* whose ticket row is locked by the admission of a call (SKIP LOCKED).    *)
(* Times appear as the comparisons made with them: retry_at > now          *)
(* (cooling), probe_expires_at <= now (expired), and whether a call        *)
(* started after the last recorded failure (fresh).                        *)
(***************************************************************************)
EXTENDS FiniteSets

CONSTANTS
    Slots,   \* probe keys: a scoring slot of a validator
    Alive,   \* slots whose validator goes on polling
    Calls,   \* concurrent calls of the relay
    REVIEW,  \* the source of a call that no slot holds: a source review
    NONE

ASSUME CircuitAssumption == Alive \subseteq Slots /\ REVIEW \notin Slots /\ NONE \notin Slots

VARIABLES
    circuit,   \* the provider_outage_circuits row
    leases,    \* per slot: "none", "scoring", or "round" (the lanes without a gate)
    calls,     \* calls of the relay
    healthy,   \* the provider accepts calls
    recovered  \* it has answered a call since the last recorded failure

vars == <<circuit, leases, calls, healthy, recovered>>

Idle == [phase |-> "idle", source |-> NONE, fresh |-> FALSE, ok |-> FALSE, since |-> {}]

Init ==
    /\ circuit = [state |-> "closed", cooling |-> FALSE, probe |-> NONE, expired |-> FALSE]
    /\ leases = [s \in Slots |-> "none"]
    /\ calls = [c \in Calls |-> Idle]
    /\ healthy = TRUE /\ recovered = TRUE

-----------------------------------------------------------------------------
(* The gate. *)

Open == circuit.state = "open"

MutLiveProbe == circuit.probe

\* A probe past its time to live is cleared by whoever takes the lock next.
LiveProbe == IF Open /\ circuit.expired THEN NONE ELSE circuit.probe

\* lock_provider_work_gate: admitted, and probe_required.
Admitted(key) == ~Open \/ (~circuit.cooling /\ LiveProbe \in {NONE, key})

ProbeRequired == Open /\ ~circuit.cooling /\ LiveProbe = NONE

Cleared == [circuit EXCEPT !.probe = LiveProbe, !.expired = @ /\ LiveProbe # NONE]

register_provider_probe(key) ==
    IF ProbeRequired THEN [circuit EXCEPT !.probe = key, !.expired = FALSE] ELSE Cleared

\* The ticket row of the slot's lease is locked by an admission.
Locked(s) == \E c \in Calls : calls[c].phase = "admitting" /\ calls[c].source = s

MutParked == [s \in Slots |-> IF Open /\ s # circuit.probe /\ ~Locked(s) THEN "none" ELSE leases[s]]

\* park_scoring_leases: every lease but the live probe's, of every purpose.
Parked == [s \in Slots |-> IF Open /\ s # LiveProbe /\ ~Locked(s) THEN "none" ELSE leases[s]]

-----------------------------------------------------------------------------
(* The platform. *)

\* request_job, request_retest_job: the poll is refused or finds no candidate.
PollDeclined ==
    /\ leases' = Parked
    /\ circuit' = Cleared
    /\ UNCHANGED <<calls, healthy, recovered>>

\* The poll leases work to the slot or resumes the lease it holds.
PollLeases(s) ==
    /\ Admitted(s)
    /\ leases' = [Parked EXCEPT ![s] = IF @ = "none" THEN "scoring" ELSE @]
    /\ circuit' = register_provider_probe(s)
    /\ UNCHANGED <<calls, healthy, recovered>>

\* request_generator_round_job: the round lane leases without the gate.
RoundLeases(s) ==
    /\ leases[s] = "none"
    /\ leases' = [leases EXCEPT ![s] = "round"]
    /\ UNCHANGED <<circuit, calls, healthy, recovered>>

\* fail_job takes the gate and parks; then it releases the lease if it is left.
fail_job(s) ==
    /\ leases[s] # "none" /\ ~Locked(s)
    /\ leases' = [Parked EXCEPT ![s] = "none"]
    /\ circuit' = Cleared
    /\ UNCHANGED <<calls, healthy, recovered>>

\* A score, or the sweep after the deadline.
LeaseEnds(s) ==
    /\ leases[s] # "none" /\ ~Locked(s)
    /\ leases' = [leases EXCEPT ![s] = "none"]
    /\ UNCHANGED <<circuit, calls, healthy, recovered>>

-----------------------------------------------------------------------------
(* The relay: startedAt is read when a call arrives, before its admission.  *)
(* A failed call reads the time of its failure before it writes the row;    *)
(* `since` are the calls that arrived in between.                           *)

Arrival(c, p, s) ==
    [d \in Calls |->
        IF d = c THEN [Idle EXCEPT !.phase = p, !.source = s, !.fresh = TRUE]
        ELSE IF calls[d].phase = "answered" /\ ~calls[d].ok THEN [calls[d] EXCEPT !.since = @ \cup {c}]
        ELSE calls[d]]

Ended(c) == [d \in Calls |-> IF d = c THEN Idle ELSE [calls[d] EXCEPT !.since = @ \ {c}]]

CallArrives(c, s) ==
    /\ calls[c] = Idle /\ leases[s] # "none" /\ ~Locked(s)
    /\ calls' = Arrival(c, "admitting", s)
    /\ UNCHANGED <<circuit, leases, healthy, recovered>>

ReviewCallStarts(c) ==
    /\ calls[c] = Idle
    /\ calls' = Arrival(c, "upstream", REVIEW)
    /\ UNCHANGED <<circuit, leases, healthy, recovered>>

Admit(c) ==
    /\ calls[c].phase = "admitting"
    /\ calls' = [calls EXCEPT ![c].phase = "upstream"]
    /\ UNCHANGED <<circuit, leases, healthy, recovered>>

\* An answer, or the exhaustion of the retries by receipt-free overload.
Answer(c) ==
    /\ calls[c].phase = "upstream"
    /\ calls' = [calls EXCEPT ![c].phase = "answered", ![c].ok = healthy]
    /\ recovered' = (recovered \/ healthy)
    /\ UNCHANGED <<circuit, leases, healthy>>

\* A timeout, another error, or the death of the relay: nothing is written.
CallLost(c) ==
    /\ calls[c].phase \in {"upstream", "answered"}
    /\ calls' = Ended(c)
    /\ UNCHANGED <<circuit, leases, healthy, recovered>>

MutOpenedRow == [circuit EXCEPT !.state = "open", !.cooling = TRUE]

\* OpenProviderOutageCircuit: a failed probe gives its place back.  The calls
\* that started after the time it records can still heal it.
OpenedRow == [state |-> "open", cooling |-> TRUE, probe |-> NONE, expired |-> FALSE]

openProviderCircuit(c) ==
    /\ calls[c].phase = "answered" /\ ~calls[c].ok
    /\ circuit' = OpenedRow
    /\ \E later \in SUBSET calls[c].since :
          /\ calls' = [d \in Calls |-> IF d = c THEN Idle ELSE [calls[d] EXCEPT !.fresh = @ /\ d \in later]]
          /\ recovered' = \E d \in later : calls[d].fresh /\ calls[d].ok
    /\ UNCHANGED <<leases, healthy>>

MutHeals(c) == Open

\* CloseProviderOutageCircuit: state = 'open' AND last_failure_at <= started_at.
Heals(c) == Open /\ calls[c].fresh

closeProviderCircuit(c) ==
    /\ calls[c].phase = "answered" /\ calls[c].ok
    /\ circuit' = IF Heals(c) THEN [circuit EXCEPT !.state = "closed", !.probe = NONE, !.expired = FALSE]
                              ELSE circuit
    /\ calls' = Ended(c)
    /\ UNCHANGED <<leases, healthy, recovered>>

-----------------------------------------------------------------------------
(* Time and the provider. *)

CooldownEnds ==
    /\ circuit.cooling
    /\ circuit' = [circuit EXCEPT !.cooling = FALSE]
    /\ UNCHANGED <<leases, calls, healthy, recovered>>

ProbeExpires ==
    /\ circuit.probe # NONE /\ ~circuit.expired
    /\ circuit' = [circuit EXCEPT !.expired = TRUE]
    /\ UNCHANGED <<leases, calls, healthy, recovered>>

ProviderChanges ==
    /\ healthy' = ~healthy
    /\ UNCHANGED <<circuit, leases, calls, recovered>>

Next ==
    \/ \E s \in Slots :
          PollLeases(s) \/ RoundLeases(s) \/ fail_job(s) \/ LeaseEnds(s)
    \/ \E c \in Calls :
          \/ \E s \in Slots : CallArrives(c, s)
          \/ ReviewCallStarts(c) \/ Admit(c) \/ Answer(c) \/ CallLost(c)
          \/ openProviderCircuit(c) \/ closeProviderCircuit(c)
    \/ PollDeclined \/ CooldownEnds \/ ProbeExpires \/ ProviderChanges

Spec == Init /\ [][Next]_vars

-----------------------------------------------------------------------------
\* The row and the relay's calls keep their shape.  A probe is registered only
\* between the cooldown and the verdict on it (register_provider_probe); a
\* failure recorded by any other call takes the place back and the cooldown
\* starts again (OpenProviderOutageCircuit).
TypeOK ==
    /\ circuit \in [state : {"closed", "open"}, cooling : BOOLEAN, probe : Slots \cup {NONE}, expired : BOOLEAN]
    /\ leases \in [Slots -> {"none", "scoring", "round"}]
    /\ calls \in [Calls -> [phase : {"idle", "admitting", "upstream", "answered"},
                           source : Slots \cup {REVIEW, NONE}, fresh : BOOLEAN, ok : BOOLEAN,
                           since : SUBSET Calls]]
    /\ circuit.probe # NONE => Open /\ ~circuit.cooling
    /\ circuit.expired => circuit.probe # NONE
    /\ healthy \in BOOLEAN /\ recovered \in BOOLEAN

\* "exactly one half-open probe": a poll that leases while the circuit is open
\* leaves no other scoring lease running, but one whose row an admission holds.
ProbeAlone ==
    [][\A s \in Slots : (Open /\ leases[s] = "none" /\ leases'[s] = "scoring") =>
          /\ circuit'.probe = s
          /\ \A r \in Slots \ {s} : leases'[r] # "none" => Locked(r)]_vars

\* "a late success from old work cannot heal a current outage": when the circuit
\* closes, the provider has answered a call since the last recorded failure.
HealedByNewSuccess ==
    [][(Open /\ circuit'.state = "closed") => recovered]_vars

-----------------------------------------------------------------------------
(* Time passes; the validators of Alive go on polling, are offered work and  *)
(* do not lose every race for the probe; their leases are not all ended      *)
(* before the first call; a healthy provider does not lose every call, nor   *)
(* the relay every answer.                                                   *)

Fairness ==
    /\ WF_vars(CooldownEnds) /\ WF_vars(ProbeExpires)
    /\ \A s \in Alive : SF_vars(PollLeases(s)) /\ SF_vars(\E c \in Calls : CallArrives(c, s))
    /\ \A c \in Calls :
          /\ WF_vars(Admit(c)) /\ SF_vars(Answer(c))
          /\ SF_vars(openProviderCircuit(c)) /\ SF_vars(closeProviderCircuit(c))

FairSpec == Spec /\ Fairness

\* Once the provider stays healthy the circuit does not stay open, although a
\* probe may be claimed by a validator that never comes back.
OutageEnds == <>[]healthy => []<>(circuit.state = "closed")
=============================================================================
