------------------------ MODULE ProviderCircuitProofs ------------------------
(***************************************************************************)
(* Proofs about the provider circuit, for every set of slots and any       *)
(* number of concurrent calls of the relay.                                *)
(*                                                                         *)
(* That the circuit heals by a new success only is not inductive: the row  *)
(* does not know which answers are on their way.  The strengthening says   *)
(* of every such answer what the relay's started_at guard relies on: a     *)
(* success that still counts as started after the last recorded failure    *)
(* was also answered after it.                                             *)
(***************************************************************************)
EXTENDS ProviderCircuit, TLAPS

Call == [phase : {"idle", "admitting", "upstream", "answered"},
         source : Slots \cup {REVIEW, NONE}, fresh : BOOLEAN, ok : BOOLEAN, since : SUBSET Calls]

(* A fresh success that is on its way to the row is one since the failure. *)
FreshSuccess(c) == (calls[c].phase = "answered" /\ calls[c].ok /\ calls[c].fresh) => recovered

SameAnswer(d, e) == d.phase = e.phase /\ d.ok = e.ok /\ d.fresh = e.fresh

IInv == TypeOK /\ \A c \in Calls : FreshSuccess(c)

-----------------------------------------------------------------------------
(* The row. *)

(* The live probe is the row's, or none once its time to live has passed.  *)
LEMMA ProbeFacts ==
    ASSUME TypeOK
    PROVE  /\ LiveProbe \in {NONE, circuit.probe}
           /\ LiveProbe # NONE => Open /\ ~circuit.cooling
           /\ NONE \notin Slots
  BY Zenon, CircuitAssumption DEF TypeOK, LiveProbe

(* Clearing and registering a probe keep the row's shape, and never open   *)
(* or close the circuit.                                                   *)
LEMMA RowOK ==
    ASSUME TypeOK,
           circuit' = Cleared \/ \E s \in Slots : circuit' = register_provider_probe(s),
           leases' \in [Slots -> {"none", "scoring", "round"}],
           UNCHANGED <<calls, healthy, recovered>>
    PROVE  TypeOK' /\ circuit'.state = circuit.state
  <1>1. /\ circuit \in [state : {"closed", "open"}, cooling : BOOLEAN,
                        probe : Slots \cup {NONE}, expired : BOOLEAN]
        /\ circuit.expired => circuit.probe # NONE
    BY Zenon DEF TypeOK
  <1>2. /\ LiveProbe \in Slots \cup {NONE}
        /\ LiveProbe # NONE => Open /\ ~circuit.cooling
    BY Zenon, <1>1, ProbeFacts
  <1>3. CASE circuit' = Cleared
    BY Zenon, <1>1, <1>2, <1>3 DEF TypeOK, Cleared, Open
  <1>4. ASSUME NEW s \in Slots, circuit' = register_provider_probe(s)
        PROVE  TypeOK' /\ circuit'.state = circuit.state
    <2>1. CASE ProbeRequired
      BY Zenon, <1>1, <1>4, <2>1, ProbeFacts DEF TypeOK, register_provider_probe, ProbeRequired, Open
    <2>2. CASE ~ProbeRequired
      BY Zenon, <1>3, <1>4, <2>2 DEF register_provider_probe
    <2> QED BY Zenon, <2>1, <2>2
  <1> QED BY Zenon, <1>3, <1>4

(* Parking gives back leases and makes none. *)
LEMMA ParkedOK ==
    ASSUME TypeOK
    PROVE  /\ Parked \in [Slots -> {"none", "scoring", "round"}]
           /\ \A s \in Slots : Parked[s] \in {"none", leases[s]}
  BY Zenon DEF TypeOK, Parked

(* The arrival of a call brings no answer, and changes none. *)
LEMMA ArrivalOK ==
    ASSUME TypeOK, NEW c \in Calls, NEW p \in {"admitting", "upstream"}, NEW s \in Slots \cup {REVIEW}
    PROVE  /\ Arrival(c, p, s) \in [Calls -> Call]
           /\ Arrival(c, p, s)[c].phase = p
           /\ \A d \in Calls \ {c} : SameAnswer(Arrival(c, p, s)[d], calls[d])
  <1>1. calls \in [Calls -> Call]
    BY Zenon DEF TypeOK, Call
  <1>2. [Idle EXCEPT !.phase = p, !.source = s, !.fresh = TRUE] \in Call
    BY Zenon DEF Idle, Call
  <1>3. \A d \in Calls : [calls[d] EXCEPT !.since = @ \cup {c}] \in Call
    BY <1>1 DEF Call
  <1>4. Arrival(c, p, s) \in [Calls -> Call] /\ Arrival(c, p, s)[c].phase = p
    BY Zenon, <1>1, <1>2, <1>3 DEF Arrival, Idle
  <1>5. ASSUME NEW d \in Calls \ {c} PROVE SameAnswer(Arrival(c, p, s)[d], calls[d])
    <2>1. Arrival(c, p, s)[d] \in {calls[d], [calls[d] EXCEPT !.since = @ \cup {c}]}
      BY Zenon DEF Arrival
    <2> QED BY Zenon, <1>1, <2>1 DEF Call, SameAnswer
  <1> QED BY Zenon, <1>4, <1>5

(* The end of a call changes no answer of another one. *)
LEMMA EndedOK ==
    ASSUME TypeOK, NEW c \in Calls
    PROVE  /\ Ended(c) \in [Calls -> Call]
           /\ Ended(c)[c].phase = "idle"
           /\ \A d \in Calls \ {c} : SameAnswer(Ended(c)[d], calls[d])
  <1>1. calls \in [Calls -> Call]
    BY Zenon DEF TypeOK, Call
  <1>2. Idle \in Call /\ Idle.phase = "idle"
    BY Zenon DEF Idle, Call
  <1>3. \A d \in Calls : [calls[d] EXCEPT !.since = @ \ {c}] \in Call
    BY <1>1 DEF Call
  <1>4. Ended(c) \in [Calls -> Call] /\ Ended(c)[c].phase = "idle"
    BY Zenon, <1>1, <1>2, <1>3 DEF Ended
  <1>5. \A d \in Calls \ {c} : SameAnswer(Ended(c)[d], calls[d])
    BY Zenon, <1>1 DEF Call, SameAnswer, Ended
  <1> QED BY Zenon, <1>4, <1>5

-----------------------------------------------------------------------------
(* The invariant. *)

(* Every step of the platform keeps the invariant, and never moves the     *)
(* circuit's state: only the relay does.                                   *)
LEMMA PlatformOK ==
    ASSUME IInv,
           \/ PollDeclined
           \/ \E s \in Slots : PollLeases(s) \/ RoundLeases(s) \/ fail_job(s) \/ LeaseEnds(s)
    PROVE  IInv' /\ circuit'.state = circuit.state
  <1> USE DEF IInv
  <1>1. UNCHANGED <<calls, healthy, recovered>>
    BY Zenon DEF PollDeclined, PollLeases, RoundLeases, fail_job, LeaseEnds
  <1>2. \A c \in Calls : FreshSuccess(c)'
    BY Zenon, <1>1 DEF FreshSuccess
  <1>3. CASE PollDeclined
    <2>1. leases' \in [Slots -> {"none", "scoring", "round"}] /\ circuit' = Cleared
      BY Zenon, <1>3, ParkedOK DEF PollDeclined
    <2> QED BY Zenon, <1>1, <1>2, <2>1, RowOK
  <1>4. ASSUME NEW s \in Slots, PollLeases(s) PROVE IInv' /\ circuit'.state = circuit.state
    <2>1. leases' \in [Slots -> {"none", "scoring", "round"}] /\ circuit' = register_provider_probe(s)
      BY Zenon, <1>4, ParkedOK DEF PollLeases
    <2> QED BY Zenon, <1>1, <1>2, <2>1, RowOK
  <1>5. ASSUME NEW s \in Slots, RoundLeases(s) \/ LeaseEnds(s)
        PROVE  IInv' /\ circuit'.state = circuit.state
    <2>1. leases' \in [Slots -> {"none", "scoring", "round"}] /\ circuit' = circuit
      BY Zenon, <1>5 DEF RoundLeases, LeaseEnds, TypeOK
    <2> QED BY Zenon, <1>1, <1>2, <2>1 DEF TypeOK, Open
  <1>6. ASSUME NEW s \in Slots, fail_job(s) PROVE IInv' /\ circuit'.state = circuit.state
    <2>1. leases' \in [Slots -> {"none", "scoring", "round"}] /\ circuit' = Cleared
      BY Zenon, <1>6, ParkedOK DEF fail_job
    <2> QED BY Zenon, <1>1, <1>2, <2>1, RowOK
  <1> QED BY Zenon, <1>3, <1>4, <1>5, <1>6

(* Arrivals, admissions and lost calls bring no answer nearer to the row.  *)
LEMMA TransitOK ==
    ASSUME IInv, NEW c \in Calls,
           (\E s \in Slots : CallArrives(c, s)) \/ ReviewCallStarts(c) \/ Admit(c) \/ CallLost(c)
    PROVE  IInv' /\ circuit' = circuit
  <1> USE DEF IInv
  <1>1. UNCHANGED <<circuit, leases, healthy, recovered>>
    BY Zenon DEF CallArrives, ReviewCallStarts, Admit, CallLost
  <1>2. calls \in [Calls -> Call]
    BY Zenon DEF TypeOK, Call
  <1>3. SUFFICES calls' \in [Calls -> Call] /\ \A d \in Calls : FreshSuccess(d)'
    BY Zenon, <1>1 DEF TypeOK, Open, Call
  <1>4. CASE \E s \in Slots : CallArrives(c, s)
    <2>1. PICK s \in Slots : calls' = Arrival(c, "admitting", s)
      BY Zenon, <1>4 DEF CallArrives
    <2>2. /\ calls' \in [Calls -> Call] /\ calls'[c].phase = "admitting"
          /\ \A d \in Calls \ {c} : SameAnswer(calls'[d], calls[d])
      BY Zenon, <2>1, ArrivalOK
    <2> QED BY Zenon, <1>1, <2>2 DEF FreshSuccess, SameAnswer
  <1>5. CASE ReviewCallStarts(c)
    <2>1. calls' = Arrival(c, "upstream", REVIEW)
      BY Zenon, <1>5 DEF ReviewCallStarts
    <2>2. /\ calls' \in [Calls -> Call] /\ calls'[c].phase = "upstream"
          /\ \A d \in Calls \ {c} : SameAnswer(calls'[d], calls[d])
      BY Zenon, <2>1, ArrivalOK
    <2> QED BY Zenon, <1>1, <2>2 DEF FreshSuccess, SameAnswer
  <1>6. CASE Admit(c)
    BY <1>1, <1>2, <1>6 DEF FreshSuccess, Admit, Call
  <1>7. CASE CallLost(c)
    <2>1. /\ calls' \in [Calls -> Call] /\ calls'[c].phase = "idle"
          /\ \A d \in Calls \ {c} : SameAnswer(calls'[d], calls[d])
      BY Zenon, <1>7, EndedOK DEF CallLost
    <2> QED BY Zenon, <1>1, <2>1 DEF FreshSuccess, SameAnswer
  <1> QED BY Zenon, <1>4, <1>5, <1>6, <1>7

(* An answer is a success exactly when the provider gives one now. *)
LEMMA AnswerOK ==
    ASSUME IInv, NEW c \in Calls, Answer(c)
    PROVE  IInv' /\ circuit' = circuit
  <1>1. /\ calls' = [calls EXCEPT ![c].phase = "answered", ![c].ok = healthy]
        /\ recovered' = (recovered \/ healthy)
        /\ UNCHANGED <<circuit, leases, healthy>>
    BY Zenon DEF Answer
  <1>2. calls \in [Calls -> Call] /\ healthy \in BOOLEAN /\ recovered \in BOOLEAN
    BY Zenon DEF IInv, TypeOK, Call
  <1>3. /\ calls' \in [Calls -> Call] /\ calls'[c].ok = healthy
        /\ \A d \in Calls \ {c} : calls'[d] = calls[d]
    BY ZenonT(60), <1>1, <1>2 DEF Call
  <1>4. TypeOK'
    BY Zenon, <1>1, <1>2, <1>3 DEF IInv, TypeOK, Open, Call
  <1>5. \A d \in Calls : FreshSuccess(d)'
    BY Zenon, <1>1, <1>3 DEF IInv, FreshSuccess
  <1> QED BY Zenon, <1>1, <1>4, <1>5 DEF IInv

(* A recorded failure leaves fresh only what started after it. *)
LEMMA OpenOK ==
    ASSUME IInv, NEW c \in Calls, openProviderCircuit(c)
    PROVE  IInv' /\ circuit'.state = "open"
  <1>1. /\ circuit' = OpenedRow
        /\ UNCHANGED <<leases, healthy>>
    BY Zenon DEF openProviderCircuit
  <1>2. PICK later \in SUBSET calls[c].since :
          /\ calls' = [d \in Calls |-> IF d = c THEN Idle ELSE [calls[d] EXCEPT !.fresh = @ /\ d \in later]]
          /\ recovered' = \E d \in later : calls[d].fresh /\ calls[d].ok
    BY Zenon DEF openProviderCircuit
  <1>3. calls \in [Calls -> Call] /\ Idle \in Call /\ Idle.phase = "idle"
    BY Zenon DEF IInv, TypeOK, Call, Idle
  <1>4. \A d \in Calls : [calls[d] EXCEPT !.fresh = @ /\ d \in later] \in Call
    BY Zenon, <1>3 DEF Call
  <1>5. calls' \in [Calls -> Call]
    BY Zenon, <1>2, <1>3, <1>4
  <1>6. TypeOK'
    BY Zenon, <1>1, <1>2, <1>5 DEF IInv, TypeOK, OpenedRow, Open, Call
  <1>7. ASSUME NEW d \in Calls PROVE FreshSuccess(d)'
    <2>1. CASE d = c
      BY Zenon, <1>2, <1>3, <2>1 DEF FreshSuccess
    <2>2. CASE d # c
      <3>1. calls'[d].ok = calls[d].ok /\ calls'[d].fresh = (calls[d].fresh /\ d \in later)
        BY Zenon, <1>2, <1>3, <2>2 DEF Call
      <3> QED BY Zenon, <1>2, <3>1 DEF FreshSuccess
    <2> QED BY Zenon, <2>1, <2>2
  <1>8. circuit'.state = "open"
    BY Zenon, <1>1 DEF OpenedRow
  <1> QED BY Zenon, <1>6, <1>7, <1>8 DEF IInv

(* A success closes an open circuit only if it is one since the failure.   *)
LEMMA CloseOK ==
    ASSUME IInv, NEW c \in Calls, closeProviderCircuit(c)
    PROVE  IInv' /\ (Open /\ circuit'.state = "closed" => recovered)
  <1>1. /\ calls[c].phase = "answered" /\ calls[c].ok
        /\ circuit' = IF Heals(c) THEN [circuit EXCEPT !.state = "closed", !.probe = NONE, !.expired = FALSE]
                                  ELSE circuit
        /\ UNCHANGED <<leases, healthy, recovered>>
    BY Zenon DEF closeProviderCircuit
  <1>2. /\ calls' \in [Calls -> Call] /\ calls'[c].phase = "idle"
        /\ \A d \in Calls \ {c} : SameAnswer(calls'[d], calls[d])
    BY Zenon, EndedOK DEF closeProviderCircuit, IInv
  <1>3. TypeOK'
    BY Zenon, <1>1, <1>2 DEF IInv, TypeOK, Open, Call
  <1>4. \A d \in Calls : FreshSuccess(d)'
    BY Zenon, <1>1, <1>2 DEF IInv, FreshSuccess, SameAnswer
  <1>5. Open /\ circuit'.state = "closed" => recovered
    BY Zenon, <1>1 DEF IInv, FreshSuccess, Heals, Open
  <1> QED BY Zenon, <1>3, <1>4, <1>5 DEF IInv

(* Time and the provider's health write nothing an answer depends on.      *)
LEMMA WorldOK ==
    ASSUME IInv, CooldownEnds \/ ProbeExpires \/ ProviderChanges
    PROVE  IInv' /\ circuit'.state = circuit.state
  <1>1. CASE CooldownEnds
    BY Zenon, <1>1 DEF IInv, TypeOK, FreshSuccess, Open, CooldownEnds
  <1>2. CASE ProbeExpires
    BY Zenon, <1>2 DEF IInv, TypeOK, FreshSuccess, Open, ProbeExpires
  <1>3. CASE ProviderChanges
    BY Zenon, <1>3 DEF IInv, TypeOK, FreshSuccess, Open, ProviderChanges
  <1> QED BY Zenon, <1>1, <1>2, <1>3

(* Every step keeps the invariant, and closes an open circuit only after   *)
(* a success since the last recorded failure.                              *)
LEMMA StepOK ==
    ASSUME IInv, [Next]_vars
    PROVE  IInv' /\ (Open /\ circuit'.state = "closed" => recovered)
  <1>1. CASE PollDeclined \/ \E s \in Slots : PollLeases(s) \/ RoundLeases(s) \/ fail_job(s) \/ LeaseEnds(s)
    BY Zenon, <1>1, PlatformOK DEF Open
  <1>2. ASSUME NEW c \in Calls,
               (\E s \in Slots : CallArrives(c, s)) \/ ReviewCallStarts(c) \/ Admit(c) \/ CallLost(c)
        PROVE  IInv' /\ (Open /\ circuit'.state = "closed" => recovered)
    BY Zenon, <1>2, TransitOK DEF Open
  <1>3. ASSUME NEW c \in Calls, Answer(c)
        PROVE  IInv' /\ (Open /\ circuit'.state = "closed" => recovered)
    BY Zenon, <1>3, AnswerOK DEF Open
  <1>4. ASSUME NEW c \in Calls, openProviderCircuit(c)
        PROVE  IInv' /\ (Open /\ circuit'.state = "closed" => recovered)
    BY Zenon, <1>4, OpenOK
  <1>5. ASSUME NEW c \in Calls, closeProviderCircuit(c)
        PROVE  IInv' /\ (Open /\ circuit'.state = "closed" => recovered)
    BY Zenon, <1>5, CloseOK
  <1>6. CASE CooldownEnds \/ ProbeExpires \/ ProviderChanges
    BY Zenon, <1>6, WorldOK DEF Open
  <1>7. CASE UNCHANGED vars
    BY Zenon, <1>7 DEF vars, IInv, TypeOK, FreshSuccess, Open
  <1> QED BY Zenon, <1>1, <1>2, <1>3, <1>4, <1>5, <1>6, <1>7 DEF Next

(* A poll that leases under an open circuit becomes the probe, and parks   *)
(* every other lease but those whose row an admission has locked.          *)
LEMMA LeasedAlone ==
    ASSUME TypeOK, Open, NEW s \in Slots, PollLeases(s), leases[s] = "none", leases'[s] = "scoring"
    PROVE  circuit'.probe = s /\ \A r \in Slots \ {s} : leases'[r] # "none" => Locked(r)
  <1>1. /\ ~circuit.cooling /\ LiveProbe \in {NONE, s}
        /\ leases' = [Parked EXCEPT ![s] = IF @ = "none" THEN "scoring" ELSE @]
        /\ circuit' = register_provider_probe(s)
    BY Zenon DEF PollLeases, Admitted
  <1>2. circuit \in [state : {"closed", "open"}, cooling : BOOLEAN, probe : Slots \cup {NONE}, expired : BOOLEAN]
    BY Zenon DEF TypeOK
  <1>3. circuit'.probe = s
    <2>1. CASE LiveProbe = NONE
      BY Zenon, <1>1, <1>2, <2>1 DEF register_provider_probe, ProbeRequired
    <2>2. CASE LiveProbe = s
      BY Zenon, <1>1, <1>2, <2>2, ProbeFacts DEF register_provider_probe, ProbeRequired, Cleared
    <2> QED BY Zenon, <1>1, <2>1, <2>2
  <1>4. ASSUME NEW r \in Slots \ {s}, leases'[r] # "none" PROVE Locked(r)
    <2>1. leases'[r] = Parked[r]
      BY Zenon, <1>1, ParkedOK
    <2>2. r # LiveProbe
      BY Zenon, <1>1, ProbeFacts
    <2> QED BY Zenon, <1>4, <2>1, <2>2 DEF Parked
  <1> QED BY Zenon, <1>3, <1>4

-----------------------------------------------------------------------------
(* The strengthened invariant holds in every reachable state of the        *)
(* circuit, its polls and the relay's writes.                              *)
THEOREM Invariance == Spec => []IInv
  <1>1. Init => IInv
    BY CircuitAssumption DEF Init, IInv, TypeOK, FreshSuccess, Idle, Open
  <1>2. IInv /\ [Next]_vars => IInv'
    BY Zenon, StepOK
  <1> QED BY <1>1, <1>2, PTL DEF Spec

(* The row keeps its shape: a probe is registered only while the circuit   *)
(* is open and past its cooldown, and only a registered one expires.       *)
THEOREM TypeCorrect == Spec => []TypeOK
  <1>1. IInv => TypeOK
    BY Zenon DEF IInv
  <1> QED BY <1>1, Invariance, PTL

(* "exactly one half-open probe", for every number of slots: a poll that   *)
(* leases while the circuit is open leaves no other lease running but one  *)
(* whose ticket row an admission holds.                                    *)
THEOREM OneProbe == Spec => ProbeAlone
  <1> DEFINE Alone(s) == (Open /\ leases[s] = "none" /\ leases'[s] = "scoring") =>
                            /\ circuit'.probe = s
                            /\ \A r \in Slots \ {s} : leases'[r] # "none" => Locked(r)
  <1>1. ASSUME TypeOK, Next PROVE \A s \in Slots : Alone(s)
    <2> SUFFICES ASSUME NEW s \in Slots, Open, leases[s] = "none", leases'[s] = "scoring"
                 PROVE  /\ circuit'.probe = s
                        /\ \A r \in Slots \ {s} : leases'[r] # "none" => Locked(r)
      BY Zenon
    <2>1. ASSUME NEW t \in Slots, PollLeases(t) PROVE t = s
      BY Zenon, <1>1, <2>1, ParkedOK DEF PollLeases
    <2>2. ASSUME NEW t \in Slots, RoundLeases(t) \/ fail_job(t) \/ LeaseEnds(t) PROVE FALSE
      <3>1. leases \in [Slots -> {"none", "scoring", "round"}]
        BY Zenon, <1>1 DEF TypeOK
      <3> QED BY Zenon, <1>1, <2>2, <3>1, ParkedOK DEF RoundLeases, fail_job, LeaseEnds
    <2>3. ASSUME PollDeclined PROVE FALSE
      BY Zenon, <1>1, <2>3, ParkedOK DEF PollDeclined
    <2>4. leases' # leases
      BY Zenon
    <2>5. PollLeases(s)
      BY Zenon, <1>1, <2>1, <2>2, <2>3, <2>4
         DEF Next, CallArrives, ReviewCallStarts, Admit, Answer, CallLost, openProviderCircuit,
             closeProviderCircuit, CooldownEnds, ProbeExpires, ProviderChanges
    <2> QED BY Zenon, <1>1, <2>5, LeasedAlone
  <1>2. TypeOK /\ [Next]_vars => [\A s \in Slots : Alone(s)]_vars
    BY Zenon, <1>1
  <1> QED BY <1>2, TypeCorrect, PTL DEF Spec, ProbeAlone

(* "a late success from old work cannot heal a current outage", for every  *)
(* number of calls in flight and every order of their writes.              *)
THEOREM NoLateHealing == Spec => HealedByNewSuccess
  <1>1. IInv /\ [Next]_vars => [(Open /\ circuit'.state = "closed") => recovered]_vars
    BY Zenon, StepOK
  <1> QED BY <1>1, Invariance, PTL DEF Spec, HealedByNewSuccess
=============================================================================
