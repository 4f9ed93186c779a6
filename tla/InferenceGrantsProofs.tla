------------------------- MODULE InferenceGrantsProofs -------------------------
(***************************************************************************)
(* Proofs about InferenceGrants.                                           *)
(*                                                                         *)
(* What the books of a grant owe to its request rows (Booked) is a         *)
(* statement about one record and one sequence, kept by cancelling,        *)
(* rotating, admitting, ageing and settling alike; those lemmas are about  *)
(* rows, not about the system.  The invariant adds the ticket lock: an     *)
(* admission that has made its checks still stands by them when it         *)
(* commits, because no other transaction touched its grant.                *)
(***************************************************************************)
EXTENDS InferenceBooksProofs

(* The tables. *)
Admission == [phase : {"admitting"}, grant : Grants, kind : Lanes, nonce : Nat]
Call == [phase : {"upstream"}, grant : Grants, kind : Lanes, nonce : Nat, generation : Nat]

Shape ==
    /\ tickets \in [Tickets -> [status : {"issued", "lapsed", "expired", "scored"}, lease : 0..MaxLease]]
    /\ grants \in [Grants -> GrantRow]
    /\ requests \in [Grants -> Seq(RequestRow)]
    /\ work \in [Workers -> {Idle} \cup Admission \cup Call]
    /\ bearer \in [Tickets -> BOOLEAN]
    /\ verdict \in [Tickets -> {"none", "infrastructure", "scoring_error", "allowance"}]
    /\ faults \in 0..MaxFaults

-----------------------------------------------------------------------------
(* The system. *)

(* A usable grant is that of its row's last lease; a later one is unused.  *)
Current(g) ==
    /\ grants[g].status \in {"pending", "active"} => g[2] = tickets[g[1]].lease
    /\ g[2] > tickets[g[1]].lease => grants[g] = NoGrant /\ requests[g] = <<>>

Fits(w) ==
    LET g == work[w].grant k == work[w].kind IN
    /\ work[w].phase = "admitting" =>
          /\ grants[g].status = "active" /\ WithinTicketRails(g, k)
          /\ work[w].nonce = Len(requests[g]) + 1
          /\ \A v \in Workers : work[v].phase = "admitting" /\ work[v].grant[1] = g[1] => v = w
    /\ work[w].phase = "upstream" =>
          work[w].nonce \in DOMAIN requests[g] /\ requests[g][work[w].nonce].kind = k

Admits(k) ==
    {t \in Tickets : \E w \in Workers : work[w].phase = "admitting" /\ work[w].grant[1] = t /\ work[w].kind = k}

Fleet(k) ==
    /\ IsFiniteSet(FleetActive(k))
    /\ Cardinality(FleetActive(k)) + Cardinality(Admits(k)) < FleetLimit[k] + Cardinality(Tickets)

Answered(t) ==
    verdict[t] = "allowance" =>
        \A g \in Grants : g = <<t, tickets[t].lease>> => grants[g].tokens["chat"] >= TokenBudget["chat"]

IInv ==
    /\ Shape
    /\ \A g \in Grants : Booked(grants[g], requests[g]) /\ Current(g) /\ grants[g].generation <= MaxRotations
    /\ \A w \in Workers : Fits(w)
    /\ \A k \in Lanes : Fleet(k)
    /\ \A t \in Tickets : Answered(t)

(* What the steps other than an admission may do to the rows of a grant:   *)
(* keep the books, and leave a locked ticket alone.                        *)
TableStep(g) ==
    /\ grants'[g] \in GrantRow /\ requests'[g] \in Seq(RequestRow) /\ Booked(grants'[g], requests'[g])
    /\ DOMAIN requests'[g] = DOMAIN requests[g]
    /\ \A n \in DOMAIN requests[g] :
          /\ requests'[g][n].kind = requests[g][n].kind
          /\ requests'[g][n].status = "started" /\ requests'[g][n].fresh =>
                requests[g][n].status = "started" /\ requests[g][n].fresh
    /\ grants'[g].status = "active" =>
          grants[g].status = "active" \/ \A n \in DOMAIN requests[g] : requests'[g][n].status # "started"
    /\ Locked(g[1]) => grants'[g] = grants[g] /\ requests'[g] = requests[g]
    /\ grants'[g].tokens["chat"] >= grants[g].tokens["chat"]

(* And to the handlers. *)
WorkStep == work' \in [Workers -> {Idle} \cup Admission \cup Call] /\ \A v \in Workers : work'[v] \in {work[v], Idle}

Typed(g) == grants[g] \in GrantRow /\ requests[g] \in Seq(RequestRow) /\ grants[g].tokens["chat"] \in Nat

(* A row of each table is typed. *)
LEMMA TypedRows ==
    ASSUME Shape, NEW g \in Grants
    PROVE  Typed(g) /\ g[1] \in Tickets /\ g[2] \in Leases /\ g = <<g[1], g[2]>>
  <1>1. grants[g] \in GrantRow /\ requests[g] \in Seq(RequestRow)
    BY Zenon DEF Shape
  <1>2. grants[g].tokens["chat"] \in Nat
    BY Zenon, <1>1, GrantAssumption DEF GrantRow
  <1>3. g[1] \in Tickets /\ g[2] \in Leases /\ g = <<g[1], g[2]>>
    BY DEF Grants
  <1> QED BY Zenon, <1>1, <1>2, <1>3 DEF Typed

(* A grant whose rows stay has made such a step. *)
LEMMA SameTables ==
    ASSUME IInv, NEW g \in Grants, grants'[g] = grants[g], requests'[g] = requests[g]
    PROVE  TableStep(g)
  <1>1. Typed(g)
    BY Zenon, TypedRows DEF IInv
  <1>2. Booked(grants[g], requests[g])
    BY Zenon DEF IInv
  <1>3. grants[g].tokens["chat"] >= grants[g].tokens["chat"]
    BY <1>1 DEF Typed
  <1> QED BY Zenon, <1>1, <1>2, <1>3 DEF TableStep, Typed

(* Fewer fresh requests and admissions leave the fleet within its bound.   *)
LEMMA FewerFleet ==
    ASSUME NEW F, NEW F2, F2 \subseteq F, NEW A, NEW A2 \in SUBSET A, NEW b \in Nat,
           IsFiniteSet(F), IsFiniteSet(A), Cardinality(F) + Cardinality(A) < b
    PROVE  IsFiniteSet(F2) /\ Cardinality(F2) + Cardinality(A2) < b
  <1>1. /\ IsFiniteSet(F2) /\ Cardinality(F2) <= Cardinality(F)
        /\ IsFiniteSet(A2) /\ Cardinality(A2) <= Cardinality(A)
    BY Zenon, FS_Subset
  <1>2. Cardinality(F) \in Nat /\ Cardinality(F2) \in Nat /\ Cardinality(A) \in Nat /\ Cardinality(A2) \in Nat
    BY Zenon, <1>1, FS_CardinalityType
  <1> QED BY <1>1, <1>2

(* The bound of the fleet is a number, and the admissions of a lane are of *)
(* finitely many tickets.                                                  *)
LEMMA AdmitsFacts ==
    ASSUME NEW k \in Lanes
    PROVE  /\ Admits(k) \in SUBSET Tickets /\ Admits(k)' \in SUBSET Tickets
           /\ IsFiniteSet(Tickets) /\ Cardinality(Tickets) \in Nat /\ FleetLimit[k] \in Nat
           /\ FleetLimit[k] + Cardinality(Tickets) \in Nat
           /\ IsFiniteSet(Admits(k)) /\ IsFiniteSet(Admits(k)')
           /\ Cardinality(Admits(k)) \in Nat /\ Cardinality(Admits(k)') \in Nat
           /\ Cardinality(Admits(k)') <= Cardinality(Tickets)
  <1>1. Admits(k) \in SUBSET Tickets /\ Admits(k)' \in SUBSET Tickets
    BY Zenon DEF Admits
  <1>2. IsFiniteSet(Tickets) /\ FleetLimit[k] \in Nat
    BY Zenon, GrantAssumption
  <1>3. IsFiniteSet(Admits(k)) /\ IsFiniteSet(Admits(k)') /\ Cardinality(Admits(k)') <= Cardinality(Tickets)
    BY Zenon, <1>1, <1>2, FS_Subset
  <1>4. Cardinality(Tickets) \in Nat /\ Cardinality(Admits(k)) \in Nat /\ Cardinality(Admits(k)') \in Nat
    BY Zenon, <1>2, <1>3, FS_CardinalityType
  <1>5. FleetLimit[k] + Cardinality(Tickets) \in Nat
    BY <1>2, <1>4
  <1> QED BY Zenon, <1>1, <1>2, <1>3, <1>4, <1>5

(* A pair of the fleet is a fresh started request of an active grant. *)
LEMMA FleetMember ==
    ASSUME NEW k \in Lanes
    PROVE  /\ \A e : e \in FleetActive(k) <=>
                \E g \in Grants : \E n \in DOMAIN requests[g] :
                    /\ e = <<g, n>> /\ grants[g].status = "active"
                    /\ requests[g][n].status = "started" /\ requests[g][n].kind = k /\ requests[g][n].fresh
           /\ \A e : e \in FleetActive(k)' <=>
                \E g \in Grants : \E n \in DOMAIN requests'[g] :
                    /\ e = <<g, n>> /\ grants'[g].status = "active"
                    /\ requests'[g][n].status = "started" /\ requests'[g][n].kind = k /\ requests'[g][n].fresh
  BY DEF FleetActive, Started

(* Together: what a step that admits nothing leaves of the invariant.      *)
LEMMA TablesKept ==
        /\ IInv /\ WorkStep /\ (\A g \in Grants : TableStep(g))
        /\ grants' = [g \in Grants |-> grants'[g]] /\ requests' = [g \in Grants |-> requests'[g]]
        => /\ grants' \in [Grants -> GrantRow] /\ requests' \in [Grants -> Seq(RequestRow)]
           /\ work' \in [Workers -> {Idle} \cup Admission \cup Call]
           /\ \A g \in Grants : Booked(grants'[g], requests'[g]) /\ grants'[g].tokens["chat"] >= grants[g].tokens["chat"]
           /\ \A w \in Workers : Fits(w)'
           /\ \A k \in Lanes : Fleet(k)'
  (* A handler that holds its ticket's lock still fits, and so does a call.  *)
  <1>FitsKept.
      ASSUME IInv, WorkStep, \A g \in Grants : TableStep(g), NEW w \in Workers
      PROVE  Fits(w)'
    <2> USE <1>FitsKept
    <2>1. CASE work'[w] = Idle
      BY <2>1 DEF Fits, Idle
    <2>2. CASE work'[w] # Idle
      <3>1. work'[w] = work[w] /\ Fits(w) /\ work[w] \in {Idle} \cup Admission \cup Call
        BY Zenon, <2>2 DEF WorkStep, IInv, Shape
      <3>2. PICK g, k, n, p : g = work[w].grant /\ k = work[w].kind /\ n = work[w].nonce /\ p = work[w].phase
        BY Zenon
      <3>3. p \in {"admitting", "upstream"} => g \in Grants /\ TableStep(g)
        BY <3>1, <3>2 DEF Idle, Admission, Call
      <3>4. ASSUME p = "admitting"
            PROVE  /\ grants'[g].status = "active" /\ WithinTicketRails(g, k)' /\ n = Len(requests'[g]) + 1
                   /\ \A v \in Workers : work'[v].phase = "admitting" /\ work'[v].grant[1] = g[1] => v = w
        <4>1. Locked(g[1])
          BY Zenon, <3>2, <3>4 DEF Locked
        <4>2. grants'[g] = grants[g] /\ requests'[g] = requests[g]
          BY Zenon, <3>3, <3>4, <4>1 DEF TableStep
        <4>3. /\ grants[g].status = "active" /\ WithinTicketRails(g, k) /\ n = Len(requests[g]) + 1
              /\ \A v \in Workers : work[v].phase = "admitting" /\ work[v].grant[1] = g[1] => v = w
          BY Zenon, <3>1, <3>2, <3>4 DEF Fits
        <4>4. WithinTicketRails(g, k)'
          BY Zenon, <4>2, <4>3 DEF WithinTicketRails, ActiveAfterReclaim, Reclaimed
        <4>5. \A v \in Workers : work'[v].phase = "admitting" => work'[v] = work[v]
          BY DEF WorkStep, Idle
        <4> QED BY Zenon, <4>2, <4>3, <4>4, <4>5
      <3>5. ASSUME p = "upstream"
            PROVE  n \in DOMAIN requests'[g] /\ requests'[g][n].kind = k
        <4>1. n \in DOMAIN requests[g] /\ requests[g][n].kind = k
          BY Zenon, <3>1, <3>2, <3>5 DEF Fits
        <4> QED BY Zenon, <3>3, <3>5, <4>1 DEF TableStep
      <3>6. /\ work'[w].phase = p /\ work'[w].grant = g /\ work'[w].kind = k /\ work'[w].nonce = n
        BY Zenon, <3>1, <3>2
      <3> QED BY Zenon, <3>4, <3>5, <3>6 DEF Fits
    <2> QED BY Zenon, <2>1, <2>2
  (* Such steps admit nothing. *)
  <1>FleetKept.
      ASSUME IInv, WorkStep, \A g \in Grants : TableStep(g), NEW k \in Lanes
      PROVE  Fleet(k)'
    <2> USE <1>FleetKept
    <2>1. FleetActive(k)' \subseteq FleetActive(k)
      <3> SUFFICES ASSUME NEW e \in FleetActive(k)' PROVE e \in FleetActive(k)
        BY Zenon
      <3>1. PICK g \in Grants : \E n \in DOMAIN requests'[g] :
               /\ e = <<g, n>> /\ grants'[g].status = "active"
               /\ requests'[g][n].status = "started" /\ requests'[g][n].kind = k /\ requests'[g][n].fresh
        BY Zenon, FleetMember
      <3>2. PICK n \in DOMAIN requests'[g] :
               /\ e = <<g, n>> /\ grants'[g].status = "active"
               /\ requests'[g][n].status = "started" /\ requests'[g][n].kind = k /\ requests'[g][n].fresh
        BY Zenon, <3>1
      <3>3. /\ n \in DOMAIN requests[g] /\ grants[g].status = "active"
            /\ requests[g][n].status = "started" /\ requests[g][n].kind = k /\ requests[g][n].fresh
        BY <3>2 DEF TableStep
      <3> QED BY Zenon, <3>2, <3>3, FleetMember
    <2>2. Admits(k)' \subseteq Admits(k)
      <3>1. \A v \in Workers : work'[v].phase = "admitting" => work'[v] = work[v]
        BY DEF WorkStep, Idle
      <3> QED BY Zenon, <3>1 DEF Admits
    <2>3. Fleet(k)
      BY Zenon DEF IInv
    <2>4. /\ IsFiniteSet(FleetActive(k)) /\ IsFiniteSet(Admits(k))
          /\ Cardinality(FleetActive(k)) + Cardinality(Admits(k)) < FleetLimit[k] + Cardinality(Tickets)
      BY Zenon, <2>3, AdmitsFacts DEF Fleet
    <2>5. /\ IsFiniteSet(FleetActive(k)')
          /\ Cardinality(FleetActive(k)') + Cardinality(Admits(k)') < FleetLimit[k] + Cardinality(Tickets)
      BY <2>1, <2>2, <2>4, AdmitsFacts, FewerFleet
    <2> QED BY Zenon, <2>5 DEF Fleet
  <1> SUFFICES ASSUME IInv, WorkStep, \A g \in Grants : TableStep(g),
                      grants' = [g \in Grants |-> grants'[g]], requests' = [g \in Grants |-> requests'[g]]
               PROVE  /\ grants' \in [Grants -> GrantRow] /\ requests' \in [Grants -> Seq(RequestRow)]
                      /\ work' \in [Workers -> {Idle} \cup Admission \cup Call]
                      /\ \A g \in Grants : Booked(grants'[g], requests'[g]) /\ grants'[g].tokens["chat"] >= grants[g].tokens["chat"]
                      /\ \A w \in Workers : Fits(w)'
                      /\ \A k \in Lanes : Fleet(k)'
    BY Zenon
  <1>1. \A g \in Grants : /\ grants'[g] \in GrantRow /\ requests'[g] \in Seq(RequestRow)
                          /\ Booked(grants'[g], requests'[g])
                          /\ grants'[g].tokens["chat"] >= grants[g].tokens["chat"]
    BY Zenon DEF TableStep
  <1>2. grants' \in [Grants -> GrantRow] /\ requests' \in [Grants -> Seq(RequestRow)]
    BY Zenon, <1>1
  <1>3. \A w \in Workers : Fits(w)'
    BY Zenon, <1>FitsKept
  <1>4. \A k \in Lanes : Fleet(k)'
    BY Zenon, <1>FleetKept
  <1> QED BY Zenon, <1>1, <1>2, <1>3, <1>4 DEF WorkStep

(* The other tables of the invariant. *)
OtherTypes ==
    /\ tickets \in [Tickets -> [status : {"issued", "lapsed", "expired", "scored"}, lease : 0..MaxLease]]
    /\ bearer \in [Tickets -> BOOLEAN]
    /\ verdict \in [Tickets -> {"none", "infrastructure", "scoring_error", "allowance"}]
    /\ faults \in 0..MaxFaults

(* A verdict stands as long as the row's last lease does. *)
LEMMA AnsweredKept ==
    ASSUME IInv, NEW t \in Tickets, tickets'[t].lease = tickets[t].lease, verdict'[t] = verdict[t],
           \A g \in Grants : grants'[g].tokens["chat"] \in Nat /\ grants'[g].tokens["chat"] >= grants[g].tokens["chat"]
    PROVE  Answered(t)'
  <1> SUFFICES ASSUME verdict'[t] = "allowance", NEW g \in Grants, g = <<t, tickets'[t].lease>>
               PROVE  grants'[g].tokens["chat"] >= TokenBudget["chat"]
    BY Zenon DEF Answered
  <1>1. grants[g].tokens["chat"] >= TokenBudget["chat"]
    BY Zenon DEF IInv, Answered
  <1>2. grants[g].tokens["chat"] \in Nat /\ TokenBudget["chat"] \in Nat
    BY Zenon, TypedRows, GrantAssumption DEF IInv, Typed
  <1>3. \A x, y, z \in Nat : x >= y /\ y >= z => x >= z
    OBVIOUS
  <1> QED BY Zenon, <1>1, <1>2, <1>3

(* What is left to show of a step that admits nothing. *)
LEMMA Assembled ==
    ASSUME IInv, WorkStep, \A g \in Grants : TableStep(g),
           grants' = [g \in Grants |-> grants'[g]], requests' = [g \in Grants |-> requests'[g]],
           OtherTypes', \A g \in Grants : Current(g)' /\ grants'[g].generation <= MaxRotations,
           \A t \in Tickets : Answered(t)' \/ (tickets'[t].lease = tickets[t].lease /\ verdict'[t] = verdict[t])
    PROVE  IInv'
  <1>1. /\ grants' \in [Grants -> GrantRow] /\ requests' \in [Grants -> Seq(RequestRow)]
        /\ work' \in [Workers -> {Idle} \cup Admission \cup Call]
        /\ \A g \in Grants : Booked(grants'[g], requests'[g]) /\ grants'[g].tokens["chat"] >= grants[g].tokens["chat"]
        /\ \A w \in Workers : Fits(w)'
        /\ \A k \in Lanes : Fleet(k)'
    BY Zenon, TablesKept
  <1>2. Shape'
    BY Zenon, <1>1 DEF Shape, OtherTypes
  <1>3. \A g \in Grants : grants'[g].tokens["chat"] \in Nat
    BY Zenon, <1>1, GrantAssumption DEF GrantRow
  <1>4. \A t \in Tickets : Answered(t)'
    BY Zenon, <1>1, <1>3, AnsweredKept
  <1> QED BY Zenon, <1>1, <1>2, <1>4 DEF IInv

(* revoke_ticket_inference, on a row that is not locked. *)
LEMMA RevokeTables ==
    \A t \in Tickets, g \in Grants :
        IInv /\ ~Locked(t) /\ grants'[g] = RevokedGrants(t)[g] /\ requests'[g] = RevokedRequests(t)[g]
        => /\ TableStep(g) /\ grants'[g].generation = grants[g].generation /\ grants'[g].tokens = grants[g].tokens
           /\ g[1] = t => grants'[g].status \notin {"pending", "active"}
           /\ grants'[g].status \in {"pending", "active"} => grants[g].status \in {"pending", "active"}
           /\ grants[g] = NoGrant => grants'[g] = NoGrant /\ requests'[g] = requests[g]
  (* The grant row that revocation writes. *)
  <1>RevokedRow.
      ASSUME NEW gr \in GrantRow, NEW new, new = [gr EXCEPT !.status = "revoked", !.active = Zero]
      PROVE  /\ new \in GrantRow /\ new.status = "revoked" /\ new.active = Zero
             /\ new.count = gr.count /\ new.tokens = gr.tokens /\ new.generation = gr.generation
    <2> USE <1>RevokedRow
    <2>1. Zero \in [Lanes -> Nat]
      BY Zenon DEF Zero
    <2> QED BY Zenon, <2>1 DEF GrantRow
  <1> SUFFICES ASSUME IInv, NEW t \in Tickets, ~Locked(t), NEW g \in Grants,
                      grants'[g] = RevokedGrants(t)[g], requests'[g] = RevokedRequests(t)[g]
               PROVE  /\ TableStep(g) /\ grants'[g].generation = grants[g].generation /\ grants'[g].tokens = grants[g].tokens
                      /\ g[1] = t => grants'[g].status \notin {"pending", "active"}
                      /\ grants'[g].status \in {"pending", "active"} => grants[g].status \in {"pending", "active"}
                      /\ grants[g] = NoGrant => grants'[g] = NoGrant /\ requests'[g] = requests[g]
    BY Zenon
  <1>1. Typed(g) /\ Booked(grants[g], requests[g])
    BY Zenon, TypedRows DEF IInv
  <1>2. CASE g \in Revocable(t)
    <2>1. /\ grants'[g] = [grants[g] EXCEPT !.status = "revoked", !.active = Zero]
          /\ requests'[g] = Canceled(requests[g], AllStarted(requests[g]))
      BY Zenon, <1>2 DEF RevokedGrants, RevokedRequests
    <2>2. grants[g] \in GrantRow /\ requests[g] \in Seq(RequestRow)
      BY Zenon, <1>1 DEF Typed
    <2>3. /\ grants'[g] \in GrantRow /\ grants'[g].status = "revoked" /\ grants'[g].active = Zero
          /\ grants'[g].count = grants[g].count /\ grants'[g].tokens = grants[g].tokens
          /\ grants'[g].generation = grants[g].generation
      <3>1. PICK gr, new : gr = grants[g] /\ new = grants'[g]
        BY Zenon
      <3>2. gr \in GrantRow /\ new = [gr EXCEPT !.status = "revoked", !.active = Zero]
        BY Zenon, <2>1, <2>2, <3>1
      <3>3. /\ new \in GrantRow /\ new.status = "revoked" /\ new.active = Zero
            /\ new.count = gr.count /\ new.tokens = gr.tokens /\ new.generation = gr.generation
        BY Zenon, <3>2, <1>RevokedRow
      <3> QED BY Zenon, <3>1, <3>3
    <2>4. /\ Booked(grants'[g], requests'[g]) /\ requests'[g] \in Seq(RequestRow)
          /\ DOMAIN requests'[g] = DOMAIN requests[g]
          /\ \A n \in DOMAIN requests[g] : requests'[g][n].kind = requests[g][n].kind /\ requests'[g][n].status # "started"
      <3>1. PICK gr, gr2, rows : gr = grants[g] /\ gr2 = grants'[g] /\ rows = requests[g]
        BY Zenon
      <3>2. /\ gr \in GrantRow /\ gr2 \in GrantRow /\ rows \in Seq(RequestRow) /\ Booked(gr, rows)
            /\ gr2.count = gr.count /\ gr2.tokens = gr.tokens /\ gr2.active = Zero /\ gr2.status = "revoked"
        BY Zenon, <1>1, <2>2, <2>3, <3>1
      <3>3. /\ Booked(gr2, Canceled(rows, AllStarted(rows))) /\ Canceled(rows, AllStarted(rows)) \in Seq(RequestRow)
            /\ DOMAIN Canceled(rows, AllStarted(rows)) = DOMAIN rows
            /\ \A n \in DOMAIN rows : /\ Canceled(rows, AllStarted(rows))[n].kind = rows[n].kind
                                      /\ Canceled(rows, AllStarted(rows))[n].status # "started"
        BY Zenon, <3>2, CancelBooks
      <3> QED BY Zenon, <2>1, <3>1, <3>3
    <2>5. ~Locked(g[1]) /\ grants[g].status \in {"pending", "active"}
      BY Zenon, <1>2 DEF Revocable
    <2>6. grants'[g].tokens["chat"] >= grants[g].tokens["chat"]
      BY <1>1, <2>3 DEF Typed
    <2>7. TableStep(g)
      BY Zenon, <2>3, <2>4, <2>5, <2>6 DEF TableStep
    <2>8. grants[g] # NoGrant
      BY <2>5 DEF NoGrant
    <2> QED BY Zenon, <2>3, <2>5, <2>7, <2>8
  <1>3. CASE g \notin Revocable(t)
    <2>1. grants'[g] = grants[g] /\ requests'[g] = requests[g]
      BY Zenon, <1>3 DEF RevokedGrants, RevokedRequests
    <2>2. TableStep(g)
      BY Zenon, <2>1, SameTables
    <2>3. g[1] = t => grants[g].status \notin {"pending", "active"}
      BY Zenon, <1>3 DEF Revocable
    <2> QED BY Zenon, <2>1, <2>2, <2>3
  <1> QED BY Zenon, <1>2, <1>3

-----------------------------------------------------------------------------
(* The actions. *)

(* A grant keeps its place in the row's leases when the row's last lease   *)
(* stays and no grant comes to life.                                       *)
LEMMA CurrentKept ==
    ASSUME IInv, NEW g \in Grants, tickets'[g[1]].lease = tickets[g[1]].lease,
           grants'[g].status \in {"pending", "active"} => grants[g].status \in {"pending", "active"},
           grants[g] = NoGrant /\ requests[g] = <<>> => grants'[g] = NoGrant /\ requests'[g] = requests[g]
    PROVE  Current(g)'
  <1>1. Current(g)
    BY Zenon DEF IInv
  <1> QED BY Zenon, <1>1 DEF Current

TicketRow == [status : {"issued", "lapsed", "expired", "scored"}, lease : 0..MaxLease]

(* Writing the status of a ticket row leaves the leases alone. *)
LEMMA StatusWritten ==
    ASSUME tickets \in [Tickets -> TicketRow], NEW t \in Tickets, NEW s \in {"issued", "lapsed", "expired", "scored"},
           tickets' = [tickets EXCEPT ![t].status = s]
    PROVE  tickets' \in [Tickets -> TicketRow] /\ \A u \in Tickets : tickets'[u].lease = tickets[u].lease
  <1>1. \A r \in TicketRow : [r EXCEPT !.status = s] \in TicketRow /\ [r EXCEPT !.status = s].lease = r.lease
    BY Zenon DEF TicketRow
  <1>2. tickets' = [tickets EXCEPT ![t] = [tickets[t] EXCEPT !.status = s]]
    BY Zenon
  <1>3. \A u \in Tickets : tickets[u] \in TicketRow
    BY Zenon
  <1>4. \A u \in Tickets : tickets'[u] \in TicketRow /\ tickets'[u].lease = tickets[u].lease
    BY Zenon, <1>1, <1>2, <1>3
  <1> QED BY Zenon, <1>2, <1>4

(* A step that touches neither grants nor requests, leases nor verdicts.   *)
LEMMA TablesStay ==
    ASSUME IInv, WorkStep, UNCHANGED <<grants, requests, verdict>>,
           tickets' \in [Tickets -> TicketRow], \A u \in Tickets : tickets'[u].lease = tickets[u].lease,
           bearer' \in [Tickets -> BOOLEAN], faults' \in 0..MaxFaults
    PROVE  IInv'
  <1>1. \A g \in Grants : TableStep(g)
    BY Zenon, SameTables
  <1>2. grants' = [g \in Grants |-> grants'[g]] /\ requests' = [g \in Grants |-> requests'[g]]
    BY Zenon DEF IInv, Shape
  <1>3. OtherTypes'
    BY Zenon DEF OtherTypes, IInv, Shape, TicketRow
  <1>4. ASSUME NEW g \in Grants PROVE Current(g)' /\ grants'[g].generation <= MaxRotations
    <2>1. g[1] \in Tickets
      BY Zenon, TypedRows DEF IInv
    <2>2. Current(g)'
      BY Zenon, <2>1, CurrentKept
    <2> QED BY Zenon, <2>2 DEF IInv
  <1>5. \A t \in Tickets : tickets'[t].lease = tickets[t].lease /\ verdict'[t] = verdict[t]
    BY Zenon
  <1> QED BY Zenon, <1>1, <1>2, <1>3, <1>4, <1>5, Assembled

(* A lease ends and its grant is revoked; the verdict blames the allowance *)
(* only when it is spent.                                                  *)
LEMMA LeaseEnds ==
    ASSUME IInv, NEW t \in Tickets, ~Locked(t), NEW s \in {"issued", "lapsed", "expired", "scored"},
           tickets' = [tickets EXCEPT ![t].status = s], revoke_ticket_inference(t), UNCHANGED <<work, bearer, faults>>,
           NEW reason \in {"none", "infrastructure", "scoring_error", "allowance"},
           verdict' = [verdict EXCEPT ![t] = reason],
           reason = "allowance" =>
              verdict[t] = "allowance" \/ \A g \in Grants : g = <<t, tickets[t].lease>> => Walled(grants[g]) /\ grants[g].status = "exhausted"
    PROVE  IInv'
  <1>1. /\ tickets \in [Tickets -> TicketRow] /\ verdict \in [Tickets -> {"none", "infrastructure", "scoring_error", "allowance"}]
    BY Zenon DEF IInv, Shape, TicketRow
  <1>2. tickets' \in [Tickets -> TicketRow] /\ \A u \in Tickets : tickets'[u].lease = tickets[u].lease
    BY Zenon, <1>1, StatusWritten
  <1>3. \A g \in Grants : grants'[g] = RevokedGrants(t)[g] /\ requests'[g] = RevokedRequests(t)[g]
    BY Zenon DEF revoke_ticket_inference
  <1>4. grants' = [g \in Grants |-> grants'[g]] /\ requests' = [g \in Grants |-> requests'[g]]
    BY Zenon DEF revoke_ticket_inference, RevokedGrants, RevokedRequests
  <1>5. ASSUME NEW g \in Grants
        PROVE  /\ TableStep(g) /\ Current(g)' /\ grants'[g].generation <= MaxRotations
               /\ grants'[g].tokens = grants[g].tokens
    <2>1. /\ TableStep(g) /\ grants'[g].generation = grants[g].generation /\ grants'[g].tokens = grants[g].tokens
          /\ grants'[g].status \in {"pending", "active"} => grants[g].status \in {"pending", "active"}
          /\ grants[g] = NoGrant => grants'[g] = NoGrant /\ requests'[g] = requests[g]
      BY Zenon, <1>3, RevokeTables
    <2>2. g[1] \in Tickets
      BY Zenon, TypedRows DEF IInv
    <2>3. Current(g)'
      BY Zenon, <1>2, <2>1, <2>2, CurrentKept
    <2> QED BY Zenon, <2>1, <2>3 DEF IInv
  <1>6. OtherTypes'
    BY Zenon, <1>1, <1>2 DEF OtherTypes, IInv, Shape, TicketRow
  <1>7. WorkStep
    BY Zenon DEF WorkStep, IInv, Shape
  <1>8. ASSUME NEW u \in Tickets
        PROVE  Answered(u)' \/ (tickets'[u].lease = tickets[u].lease /\ verdict'[u] = verdict[u])
    <2>1. CASE u # t
      BY Zenon, <1>1, <1>2, <2>1
    <2>2. CASE u = t /\ reason # "allowance"
      BY Zenon, <1>1, <2>2 DEF Answered
    <2>3. CASE u = t /\ reason = "allowance" /\ verdict[t] = "allowance"
      BY Zenon, <1>1, <1>2, <2>3
    <2>4. CASE u = t /\ reason = "allowance" /\ verdict[t] # "allowance"
      <3>1. \A g \in Grants : g = <<t, tickets'[t].lease>> => grants[g].tokens["chat"] >= TokenBudget["chat"]
        BY Zenon, <1>2, <2>4 DEF Walled
      <3> QED BY Zenon, <1>5, <2>4, <3>1 DEF Answered
    <2> QED BY Zenon, <2>1, <2>2, <2>3, <2>4
  <1> QED BY Zenon, <1>4, <1>5, <1>6, <1>7, <1>8, Assembled

(* request_job: the grant of the new lease was never used, and every other *)
(* one of the row is revoked.                                              *)
LEMMA JobRequested ==
    ASSUME IInv, NEW t \in Tickets, request_job(t)
    PROVE  IInv'
  <1>1. /\ tickets \in [Tickets -> TicketRow] /\ verdict \in [Tickets -> {"none", "infrastructure", "scoring_error", "allowance"}]
        /\ bearer \in [Tickets -> BOOLEAN] /\ MaxLease \in Nat /\ faults \in 0..MaxFaults
    BY Zenon, GrantAssumption DEF IInv, Shape, TicketRow
  <1>2. PICK next : next = tickets[t].lease + 1
    BY Zenon
  <1>3. /\ next \in Leases /\ tickets[t].lease \in Nat /\ next > tickets[t].lease
        /\ [status |-> "issued", lease |-> next] \in TicketRow
    <2>1. tickets[t].lease \in 0..MaxLease /\ tickets[t].lease < MaxLease
      BY Zenon, <1>1 DEF request_job, TicketRow
    <2>2. next \in 1..MaxLease /\ next \in 0..MaxLease /\ tickets[t].lease \in Nat /\ next > tickets[t].lease
      BY <1>1, <1>2, <2>1
    <2> QED BY Zenon, <2>2 DEF TicketRow, Leases
  <1>4. tickets' = [tickets EXCEPT ![t] = [status |-> "issued", lease |-> next]]
    BY Zenon, <1>2 DEF request_job
  <1>5. /\ tickets' \in [Tickets -> TicketRow] /\ tickets'[t].lease = next
        /\ \A u \in Tickets : u # t => tickets'[u] = tickets[u]
    BY Zenon, <1>1, <1>3, <1>4
  <1>6. PICK new \in Grants : new = <<t, next>>
    BY Zenon, <1>3 DEF Grants
  <1>7. /\ ~Locked(t) /\ grants' = [RevokedGrants(t) EXCEPT ![new] = [NoGrant EXCEPT !.status = "pending"]]
        /\ requests' = RevokedRequests(t)
    BY Zenon, <1>2, <1>6 DEF request_job, ensure_inference_grant
  <1>8. grants' = [g \in Grants |-> grants'[g]] /\ requests' = [g \in Grants |-> requests'[g]]
    BY Zenon, <1>7 DEF RevokedGrants, RevokedRequests
  <1>9. /\ grants'[new] = [NoGrant EXCEPT !.status = "pending"] /\ requests'[new] = RevokedRequests(t)[new]
        /\ \A g \in Grants : g # new => grants'[g] = RevokedGrants(t)[g] /\ requests'[g] = RevokedRequests(t)[g]
    BY Zenon, <1>7 DEF RevokedGrants, RevokedRequests
  <1>10. new[1] = t /\ new[2] = next
    BY Zenon, <1>6
  <1>11. grants[new] = NoGrant /\ requests[new] = <<>>
    BY Zenon, <1>3, <1>10 DEF IInv, Current
  <1>12. TableStep(new) /\ Current(new)' /\ grants'[new].generation = 0
    <2>1. new \notin Revocable(t)
      BY <1>11 DEF Revocable, NoGrant
    <2>2. requests'[new] = <<>>
      BY Zenon, <1>9, <1>11, <2>1 DEF RevokedRequests
    <2>3. /\ grants'[new] \in GrantRow /\ grants'[new].status = "pending" /\ grants'[new].generation = 0
          /\ grants'[new].count = Zero /\ grants'[new].tokens = Zero /\ grants'[new].active = Zero
      <3>1. Zero \in [Lanes -> Nat]
        BY Zenon DEF Zero
      <3> QED BY <1>9, <3>1 DEF NoGrant, GrantRow
    <2>4. Booked(grants'[new], requests'[new])
      <3>1. PICK gr : gr = grants'[new]
        BY Zenon
      <3>2. Booked(gr, <<>>)
        BY Zenon, <2>3, <3>1, FreshBooks
      <3> QED BY Zenon, <2>2, <3>1, <3>2
    <2>5. grants[new].tokens = Zero /\ Zero["chat"] = 0
      BY <1>11, GrantAssumption DEF NoGrant, Zero
    <2>6. DOMAIN requests[new] = {} /\ requests'[new] \in Seq(RequestRow) /\ DOMAIN requests'[new] = DOMAIN requests[new]
      BY <1>11, <2>2
    <2>7. TableStep(new)
      BY <1>7, <1>10, <2>3, <2>4, <2>5, <2>6 DEF TableStep
    <2>8. Current(new)'
      <3>1. next \in Nat /\ ~(next > next)
        BY <1>2, <1>3
      <3> QED BY Zenon, <1>5, <1>10, <3>1 DEF Current
    <2> QED BY Zenon, <2>3, <2>7, <2>8
  <1>13. ASSUME NEW g \in Grants, g # new
         PROVE  TableStep(g) /\ Current(g)' /\ grants'[g].generation = grants[g].generation
    <2>1. /\ TableStep(g) /\ grants'[g].generation = grants[g].generation
          /\ g[1] = t => grants'[g].status \notin {"pending", "active"}
          /\ grants'[g].status \in {"pending", "active"} => grants[g].status \in {"pending", "active"}
          /\ grants[g] = NoGrant => grants'[g] = NoGrant /\ requests'[g] = requests[g]
      BY Zenon, <1>7, <1>9, <1>13, RevokeTables
    <2>2. g[1] \in Tickets /\ g[2] \in Nat
      BY TypedRows, <1>1 DEF IInv, Leases
    <2>3. CASE g[1] # t
      BY Zenon, <1>5, <2>1, <2>2, <2>3, CurrentKept
    <2>4. CASE g[1] = t
      <3>1. g[2] > next => g[2] > tickets[t].lease
        BY <1>3, <1>2, <2>2
      <3>2. g[2] > tickets[t].lease => grants[g] = NoGrant /\ requests[g] = <<>>
        BY Zenon, <2>4 DEF IInv, Current
      <3> QED BY Zenon, <1>5, <2>1, <2>4, <3>1, <3>2 DEF Current
    <2> QED BY Zenon, <2>1, <2>3, <2>4
  <1>14. \A g \in Grants : TableStep(g) /\ Current(g)' /\ grants'[g].generation <= MaxRotations
    <2>1. MaxRotations \in Nat /\ 0 <= MaxRotations
      BY GrantAssumption
    <2> QED BY Zenon, <1>12, <1>13, <2>1 DEF IInv
  <1>15. OtherTypes'
    <2>1. verdict' \in [Tickets -> {"none", "infrastructure", "scoring_error", "allowance"}]
      BY Zenon, <1>1 DEF request_job
    <2>2. bearer' \in [Tickets -> BOOLEAN] /\ faults' \in 0..MaxFaults
      BY Zenon, <1>1 DEF request_job
    <2> QED BY Zenon, <1>5, <2>1, <2>2 DEF OtherTypes, TicketRow
  <1>16. WorkStep
    BY Zenon DEF WorkStep, IInv, Shape, request_job
  <1>17. ASSUME NEW u \in Tickets
         PROVE  Answered(u)' \/ (tickets'[u].lease = tickets[u].lease /\ verdict'[u] = verdict[u])
    <2>1. verdict' = [verdict EXCEPT ![t] = "none"]
      BY Zenon DEF request_job
    <2>2. CASE u = t
      BY Zenon, <1>1, <2>1, <2>2 DEF Answered
    <2>3. CASE u # t
      BY Zenon, <1>1, <1>5, <2>1, <2>3
    <2> QED BY Zenon, <2>2, <2>3
  <1> QED BY Zenon, <1>8, <1>14, <1>15, <1>16, <1>17, Assembled

(* The two outcomes of an exchange, on a row that is not locked: the       *)
(* refused one ends the grant,                                             *)
LEMMA ExchangeRefused ==
    \A g \in Grants :
        /\ IInv /\ ~Locked(g[1]) /\ grants[g].status # "none"
        /\ grants' = [grants EXCEPT ![g].status = "revoked"]
        /\ UNCHANGED <<tickets, requests, work, bearer, verdict, faults>>
        => IInv'
  (* The grant row that a refused exchange writes. *)
  <1>EndedRow.
      ASSUME NEW gr \in GrantRow, NEW new, new = [gr EXCEPT !.status = "revoked"]
      PROVE  /\ new \in GrantRow /\ new.status = "revoked" /\ new.active = gr.active
             /\ new.count = gr.count /\ new.tokens = gr.tokens /\ new.generation = gr.generation
    BY Zenon, <1>EndedRow DEF GrantRow
  <1> SUFFICES ASSUME IInv, NEW g \in Grants, ~Locked(g[1]), grants[g].status # "none",
                      grants' = [grants EXCEPT ![g].status = "revoked"], UNCHANGED <<tickets, requests, work, bearer, verdict, faults>>
               PROVE  IInv'
    BY Zenon
  <1>1. Typed(g) /\ Booked(grants[g], requests[g]) /\ grants \in [Grants -> GrantRow]
    BY Zenon, TypedRows DEF IInv, Shape
  <1>2. /\ grants'[g] \in GrantRow /\ grants'[g].status = "revoked" /\ grants'[g].active = grants[g].active
        /\ grants'[g].count = grants[g].count /\ grants'[g].tokens = grants[g].tokens
        /\ grants'[g].generation = grants[g].generation
    <2>1. PICK gr, new : gr = grants[g] /\ new = grants'[g]
      BY Zenon
    <2>2. gr \in GrantRow /\ new = [gr EXCEPT !.status = "revoked"]
      BY Zenon, <1>1, <2>1 DEF Typed
    <2>3. /\ new \in GrantRow /\ new.status = "revoked" /\ new.active = gr.active
          /\ new.count = gr.count /\ new.tokens = gr.tokens /\ new.generation = gr.generation
      BY Zenon, <2>2, <1>EndedRow
    <2> QED BY Zenon, <2>1, <2>3
  <1>3. Booked(grants'[g], requests'[g])
    <2>1. PICK gr, new, rows : gr = grants[g] /\ new = grants'[g] /\ rows = requests[g]
      BY Zenon
    <2>2. Booked(new, rows)
      BY Zenon, <1>1, <1>2, <2>1, EndBooks
    <2> QED BY Zenon, <2>1, <2>2
  <1>4. TableStep(g)
    BY <1>1, <1>2, <1>3 DEF TableStep, Typed
  <1>5. \A h \in Grants : h # g => grants'[h] = grants[h] /\ requests'[h] = requests[h]
    BY Zenon, <1>1
  <1>6. \A h \in Grants : TableStep(h)
    BY Zenon, <1>4, <1>5, SameTables
  <1>7. ASSUME NEW h \in Grants PROVE Current(h)' /\ grants'[h].generation <= MaxRotations
    <2>1. grants[g] # NoGrant
      BY DEF NoGrant
    <2>2. Current(h)'
      BY Zenon, <1>2, <1>5, <2>1, CurrentKept
    <2> QED BY Zenon, <1>2, <1>5, <2>2 DEF IInv
  <1>8. OtherTypes' /\ WorkStep
    BY Zenon DEF OtherTypes, WorkStep, IInv, Shape
  <1>9. grants' = [h \in Grants |-> grants'[h]] /\ requests' = [h \in Grants |-> requests'[h]]
    BY Zenon, <1>1 DEF IInv, Shape
  <1>10. \A t \in Tickets : tickets'[t].lease = tickets[t].lease /\ verdict'[t] = verdict[t]
    BY Zenon
  <1> QED BY Zenon, <1>6, <1>7, <1>8, <1>9, <1>10, Assembled

(* and the other one cancels what runs under the old bearer.               *)
LEMMA ExchangeRotates ==
    \A g \in Grants :
        /\ IInv /\ ~Locked(g[1]) /\ grants[g].status # "none" /\ ~DeadForExchange(g)
        /\ Rotations < MaxRotations /\ grants' = [grants EXCEPT ![g] = Rotated(g)]
        /\ requests' = [requests EXCEPT ![g] = Canceled(@, AllStarted(@))]
        /\ bearer' \in [Tickets -> BOOLEAN] /\ faults' \in 0..MaxFaults
        /\ UNCHANGED <<tickets, work, verdict>>
        => IInv'
  (* The grant row that an exchange writes. *)
  <1>RotatedRow.
      ASSUME NEW gr \in GrantRow, NEW new,
             new = [gr EXCEPT !.status = "active", !.generation = @ + 1, !.active = Zero]
      PROVE  /\ new \in GrantRow /\ new.status = "active" /\ new.active = Zero
             /\ new.count = gr.count /\ new.tokens = gr.tokens /\ new.generation = gr.generation + 1
    <2> USE <1>RotatedRow
    <2>1. Zero \in [Lanes -> Nat]
      BY Zenon DEF Zero
    <2>2. gr.generation \in Nat /\ gr.generation + 1 \in Nat
      BY DEF GrantRow
    <2>3. PICK m \in Nat : m = gr.generation + 1
      BY Zenon, <2>2
    <2>4. new = [gr EXCEPT !.status = "active", !.generation = m, !.active = Zero]
      BY Zenon, <2>3
    <2> QED BY Zenon, <2>1, <2>3, <2>4 DEF GrantRow
  (* One more rotation than all grants together have made stays within their *)
  (* bound.                                                                  *)
  <1>RotationBound.
      ASSUME IInv, NEW g \in Grants, Rotations < MaxRotations
      PROVE  grants[g].generation + 1 <= MaxRotations
    <2> USE <1>RotationBound
    <2> DEFINE f == [h \in Grants |-> grants[h].generation]
    <2>1. IsFiniteSet(Grants)
      <3>1. IsFiniteSet(Tickets) /\ MaxLease \in Nat
        BY Zenon, GrantAssumption
      <3>2. IsFiniteSet(Leases)
        BY <3>1, FS_Interval DEF Leases
      <3> QED BY Zenon, <3>1, <3>2, FS_Product DEF Grants
    <2>2. \A h \in Grants : grants[h].generation \in Nat
      BY Zenon DEF IInv, Shape, GrantRow
    <2>3. \A h \in Grants : f[h] \in Nat
      BY Zenon, <2>2
    <2>4. f[g] = grants[g].generation /\ Rotations = SumFunctionOnSet(f, Grants)
      BY Zenon DEF Rotations
    <2> HIDE DEF f
    <2>5. f[g] <= SumFunctionOnSet(f, Grants) /\ SumFunctionOnSet(f, Grants) \in Nat
      <3>1. IsFiniteSet(Grants \ {g}) /\ \A h \in Grants \ {g} : f[h] \in Nat
        BY Zenon, <2>1, <2>3, FS_Subset
      <3>2. SumFunctionOnSet(f, Grants \ {g}) \in Nat
        BY Zenon, <3>1, SumNat
      <3>3. SumFunctionOnSet(f, Grants) = f[g] + SumFunctionOnSet(f, Grants \ {g})
        <4>1. Values(f, Grants)
          BY <2>3 DEF Values
        <4> QED BY <2>1, <4>1, SumRemove
      <3> QED BY <2>3, <3>2, <3>3
    <2>6. MaxRotations \in Nat
      BY Zenon, GrantAssumption
    <2>7. \A a, b, c \in Nat : a <= b /\ b < c => a + 1 <= c
      OBVIOUS
    <2> QED BY Zenon, <2>3, <2>4, <2>5, <2>6, <2>7
  <1> SUFFICES ASSUME IInv, NEW g \in Grants, ~Locked(g[1]), grants[g].status # "none", ~DeadForExchange(g),
                      Rotations < MaxRotations, grants' = [grants EXCEPT ![g] = Rotated(g)],
                      requests' = [requests EXCEPT ![g] = Canceled(@, AllStarted(@))],
                      bearer' \in [Tickets -> BOOLEAN], faults' \in 0..MaxFaults, UNCHANGED <<tickets, work, verdict>>
               PROVE  IInv'
    BY Zenon
  <1>1. /\ Typed(g) /\ Booked(grants[g], requests[g]) /\ grants \in [Grants -> GrantRow]
        /\ requests \in [Grants -> Seq(RequestRow)]
    BY Zenon, TypedRows DEF IInv, Shape
  <1>2. /\ grants'[g] \in GrantRow /\ grants'[g].status = "active" /\ grants'[g].active = Zero
        /\ grants'[g].count = grants[g].count /\ grants'[g].tokens = grants[g].tokens
        /\ grants'[g].generation = grants[g].generation + 1
    <2>1. PICK gr, new : gr = grants[g] /\ new = grants'[g]
      BY Zenon
    <2>2. gr \in GrantRow /\ new = [gr EXCEPT !.status = "active", !.generation = @ + 1, !.active = Zero]
      BY Zenon, <1>1, <2>1 DEF Typed, Rotated
    <2>3. /\ new \in GrantRow /\ new.status = "active" /\ new.active = Zero
          /\ new.count = gr.count /\ new.tokens = gr.tokens /\ new.generation = gr.generation + 1
      BY Zenon, <2>2, <1>RotatedRow
    <2> QED BY Zenon, <2>1, <2>3
  <1>3. /\ grants[g].status \notin {"revoked", "exhausted"} /\ LeaseLive(g)
    BY Zenon DEF DeadForExchange
  <1>4. /\ Booked(grants'[g], requests'[g]) /\ requests'[g] \in Seq(RequestRow)
        /\ DOMAIN requests'[g] = DOMAIN requests[g]
        /\ \A n \in DOMAIN requests[g] : requests'[g][n].kind = requests[g][n].kind /\ requests'[g][n].status # "started"
    <2>1. PICK gr, new, rows : gr = grants[g] /\ new = grants'[g] /\ rows = requests[g]
      BY Zenon
    <2>2. gr \in GrantRow /\ new \in GrantRow /\ rows \in Seq(RequestRow) /\ Booked(gr, rows)
      BY Zenon, <1>1, <1>2, <2>1 DEF Typed
    <2>3. /\ Booked(new, Canceled(rows, AllStarted(rows))) /\ Canceled(rows, AllStarted(rows)) \in Seq(RequestRow)
          /\ DOMAIN Canceled(rows, AllStarted(rows)) = DOMAIN rows
          /\ \A n \in DOMAIN rows : /\ Canceled(rows, AllStarted(rows))[n].kind = rows[n].kind
                                    /\ Canceled(rows, AllStarted(rows))[n].status # "started"
      BY <1>2, <1>3, <2>1, <2>2, CancelBooks
    <2>4. requests'[g] = Canceled(rows, AllStarted(rows))
      BY Zenon, <1>1, <2>1
    <2> QED BY Zenon, <2>1, <2>3, <2>4
  <1>5. TableStep(g)
    <2>1. grants'[g].tokens["chat"] >= grants[g].tokens["chat"]
      BY <1>1, <1>2 DEF Typed
    <2> QED BY Zenon, <1>2, <1>4, <2>1 DEF TableStep
  <1>6. \A h \in Grants : h # g => grants'[h] = grants[h] /\ requests'[h] = requests[h]
    BY Zenon, <1>1
  <1>7. \A h \in Grants : TableStep(h)
    BY Zenon, <1>5, <1>6, SameTables
  <1>8. ASSUME NEW h \in Grants PROVE Current(h)' /\ grants'[h].generation <= MaxRotations
    <2>1. grants[g] # NoGrant
      BY DEF NoGrant
    <2>2. CASE h = g
      <3>1. tickets[g[1]].lease = g[2] /\ tickets[g[1]].lease \in Nat
        BY <1>3, TypedRows, GrantAssumption DEF LeaseLive, IInv, Leases
      <3>2. Current(g)'
        BY <3>1 DEF Current
      <3> QED BY Zenon, <1>2, <2>2, <3>2, <1>RotationBound
    <2>3. CASE h # g
      <3>1. Current(h)'
        BY Zenon, <1>6, <2>3, CurrentKept
      <3> QED BY Zenon, <1>6, <2>3, <3>1 DEF IInv
    <2> QED BY Zenon, <2>2, <2>3
  <1>9. OtherTypes' /\ WorkStep
    BY Zenon DEF OtherTypes, WorkStep, IInv, Shape
  <1>10. grants' = [h \in Grants |-> grants'[h]] /\ requests' = [h \in Grants |-> requests'[h]]
    BY Zenon, <1>1
  <1>11. \A t \in Tickets : tickets'[t].lease = tickets[t].lease /\ verdict'[t] = verdict[t]
    BY Zenon
  <1> QED BY Zenon, <1>7, <1>8, <1>9, <1>10, <1>11, Assembled

(* Twice the provider timeout passes for some requests of a grant. *)
LEMMA Aged ==
    ASSUME IInv, NEW g \in Grants, RequestsAge(g)
    PROVE  IInv'
  <1>1. /\ Typed(g) /\ Booked(grants[g], requests[g]) /\ requests \in [Grants -> Seq(RequestRow)] /\ ~Locked(g[1])
    BY Zenon, TypedRows DEF IInv, Shape, RequestsAge
  <1>2. PICK n : requests' = [requests EXCEPT ![g] =
                    [m \in DOMAIN @ |-> IF m <= n THEN [@[m] EXCEPT !.fresh = FALSE] ELSE @[m]]]
    BY Zenon DEF RequestsAge
  <1>3. PICK rows, new : rows = requests[g] /\ new = requests'[g]
    BY Zenon
  <1>4. rows \in Seq(RequestRow) /\ new = [m \in DOMAIN rows |-> IF m <= n THEN [rows[m] EXCEPT !.fresh = FALSE] ELSE rows[m]]
    BY Zenon, <1>1, <1>2, <1>3 DEF Typed
  <1>5. /\ Len(rows) \in Nat /\ DOMAIN rows = 1..Len(rows) /\ DOMAIN new = DOMAIN rows
        /\ \A m \in DOMAIN rows : rows[m] \in RequestRow
    BY Zenon, <1>4, RowFacts
  <1>6. \A m \in DOMAIN rows : /\ new[m] \in RequestRow /\ new[m].kind = rows[m].kind /\ new[m].tokens = rows[m].tokens
                               /\ new[m].status = rows[m].status /\ (new[m].fresh => rows[m].fresh)
    <2>1. \A r \in RequestRow : LET a == [r EXCEPT !.fresh = FALSE] IN
             a \in RequestRow /\ a.kind = r.kind /\ a.tokens = r.tokens /\ a.status = r.status /\ a.fresh = FALSE
      BY Zenon DEF RequestRow
    <2> SUFFICES ASSUME NEW m \in DOMAIN rows
                 PROVE  /\ new[m] \in RequestRow /\ new[m].kind = rows[m].kind /\ new[m].tokens = rows[m].tokens
                        /\ new[m].status = rows[m].status /\ (new[m].fresh => rows[m].fresh)
      BY Zenon
    <2>2. new[m] = rows[m] \/ new[m] = [rows[m] EXCEPT !.fresh = FALSE]
      BY Zenon, <1>4
    <2> QED BY Zenon, <1>5, <2>1, <2>2
  <1>7. new \in Seq(RequestRow)
    <2>1. new \in [1..Len(rows) -> RequestRow]
      BY Zenon, <1>4, <1>5, <1>6
    <2> QED BY <1>5, <2>1
  <1>8. Booked(grants[g], new)
    <2>1. PICK gr : gr = grants[g]
      BY Zenon
    <2>2. gr \in GrantRow /\ Booked(gr, rows)
      BY Zenon, <1>1, <1>3, <2>1 DEF Typed
    <2>3. Booked(gr, new)
      BY Zenon, <1>4, <1>5, <1>6, <1>7, <2>2, AgeBooks
    <2> QED BY Zenon, <2>1, <2>3
  <1>9. grants' = grants /\ UNCHANGED <<tickets, work, bearer, verdict, faults>>
    BY Zenon DEF RequestsAge
  <1>10. TableStep(g)
    BY <1>1, <1>3, <1>5, <1>6, <1>7, <1>8, <1>9 DEF TableStep, Typed
  <1>11. \A h \in Grants : h # g => requests'[h] = requests[h]
    BY Zenon, <1>1, <1>2
  <1>12. \A h \in Grants : TableStep(h)
    BY Zenon, <1>9, <1>10, <1>11, SameTables
  <1>13. ASSUME NEW h \in Grants PROVE Current(h)' /\ grants'[h].generation <= MaxRotations
    <2>1. requests[h] = <<>> => requests'[h] = requests[h]
      <3>1. rows = <<>> => new = <<>>
        BY <1>4, <1>5, <1>7
      <3> QED BY Zenon, <1>3, <1>11, <3>1
    <2>2. Current(h)'
      BY Zenon, <1>9, <2>1, CurrentKept
    <2> QED BY Zenon, <1>9, <2>2 DEF IInv
  <1>14. OtherTypes' /\ WorkStep
    BY Zenon, <1>9 DEF OtherTypes, WorkStep, IInv, Shape
  <1>15. grants' = [h \in Grants |-> grants'[h]] /\ requests' = [h \in Grants |-> requests'[h]]
    BY Zenon, <1>1, <1>2, <1>9 DEF IInv, Shape
  <1> QED BY Zenon, <1>9, <1>12, <1>13, <1>14, <1>15, Assembled

(* Settlement writes the grant with the receipt booked and the place given back. *)
SettleWrites(gr, new, k, a, q, tokens) ==
    /\ a \in Nat /\ q \in Nat /\ tokens = [gr.tokens EXCEPT ![k] = @ + q]
    /\ new = [gr EXCEPT !.active[k] = a, !.tokens = tokens, !.status = IF Exhausts(k, tokens) THEN "exhausted" ELSE @]

(* finish_inference_request, also of a call whose reservation is gone. *)
LEMMA Finished ==
    \A w \in Workers, status \in {"completed", "failed"}, receipt \in Nat :
        IInv /\ finish_inference_request(w, status, receipt)
        => IInv'
  (* The grant row that settlement writes. *)
  <1>SettledGrant.
      ASSUME NEW gr \in GrantRow, NEW k \in Lanes, NEW a, NEW q, NEW tokens, NEW new,
             SettleWrites(gr, new, k, a, q, tokens)
      PROVE  /\ new \in GrantRow /\ new.count = gr.count /\ new.generation = gr.generation
             /\ new.tokens[k] = gr.tokens[k] + q /\ new.active[k] = a
             /\ \A j \in Lanes : j # k => new.tokens[j] = gr.tokens[j] /\ new.active[j] = gr.active[j]
             /\ new.status = IF Exhausts(k, new.tokens) THEN "exhausted" ELSE gr.status
             /\ \A j \in Lanes : new.tokens[j] >= gr.tokens[j]
    <2> USE <1>SettledGrant
    <2> USE DEF SettleWrites
    <2>1. /\ gr.tokens \in [Lanes -> Nat] /\ gr.active \in [Lanes -> Nat] /\ gr.count \in [Lanes -> Nat]
          /\ gr.generation \in Nat /\ gr.status \in {"none", "pending", "active", "exhausted", "revoked"}
      BY Zenon DEF GrantRow
    <2>2. PICK sum \in Nat : sum = gr.tokens[k] + q
      BY <2>1
    <2>3. tokens = [gr.tokens EXCEPT ![k] = sum]
      BY Zenon, <2>2
    <2>4. /\ tokens \in [Lanes -> Nat] /\ tokens[k] = sum /\ \A j \in Lanes : j # k => tokens[j] = gr.tokens[j]
      BY Zenon, <2>1, <2>3
    <2>5. PICK active : active = [gr.active EXCEPT ![k] = a]
      BY Zenon
    <2>6. active \in [Lanes -> Nat] /\ active[k] = a /\ \A j \in Lanes : j # k => active[j] = gr.active[j]
      BY Zenon, <2>1, <2>5
    <2>7. PICK s : s = IF Exhausts(k, tokens) THEN "exhausted" ELSE gr.status
      BY Zenon
    <2>8. s \in {"none", "pending", "active", "exhausted", "revoked"}
      BY Zenon, <2>1, <2>7
    <2>9. new = [gr EXCEPT !.active = active, !.tokens = tokens, !.status = s]
      BY Zenon, <2>5, <2>7
    <2>10. /\ new \in GrantRow /\ new.count = gr.count /\ new.generation = gr.generation
           /\ new.tokens = tokens /\ new.active = active /\ new.status = s
      BY Zenon, <2>4, <2>6, <2>8, <2>9 DEF GrantRow
    <2>11. \A j \in Lanes : tokens[j] >= gr.tokens[j]
      <3>1. sum >= gr.tokens[k] /\ \A j \in Lanes : gr.tokens[j] >= gr.tokens[j]
        BY <2>1, <2>2
      <3> QED BY Zenon, <2>4, <3>1
    <2> QED BY Zenon, <2>2, <2>4, <2>6, <2>7, <2>10, <2>11
  <1> SUFFICES ASSUME IInv, NEW w \in Workers, NEW status \in {"completed", "failed"}, NEW receipt \in Nat,
                      finish_inference_request(w, status, receipt)
               PROVE  IInv'
    BY Zenon
  <1>1. PICK g, k, n, row, q, s :
          /\ g = work[w].grant /\ k = work[w].kind /\ n = work[w].nonce /\ row = requests[g][n]
          /\ q = Charged(receipt) /\ s = SettledStatus(g, row, work[w].generation, status, receipt)
    BY Zenon
  <1>2. /\ work[w].phase = "upstream" /\ ~Locked(g[1]) /\ row.status \in {"started", "canceled"}
        /\ row.status = "started" \/ row.tokens = 0
        /\ requests' = [requests EXCEPT ![g][n] = [@ EXCEPT !.status = s, !.tokens = q, !.fresh = FALSE]]
        /\ grants' = [grants EXCEPT ![g] = SettleGrant(g, k, row, receipt)]
        /\ work' = [work EXCEPT ![w] = Idle] /\ UNCHANGED <<tickets, bearer, verdict, faults>>
    BY ZenonT(60), <1>1 DEF finish_inference_request
  <1>3. g \in Grants /\ k \in Lanes /\ work \in [Workers -> {Idle} \cup Admission \cup Call]
    <2>1. work[w] \in {Idle} \cup Admission \cup Call /\ work \in [Workers -> {Idle} \cup Admission \cup Call]
      BY Zenon DEF IInv, Shape
    <2> QED BY <1>1, <1>2, <2>1 DEF Idle, Admission, Call
  <1>4. n \in DOMAIN requests[g] /\ row.kind = k
    BY Zenon, <1>1, <1>2 DEF IInv, Fits
  <1>5. /\ Typed(g) /\ Booked(grants[g], requests[g]) /\ requests \in [Grants -> Seq(RequestRow)]
        /\ grants \in [Grants -> GrantRow]
    BY Zenon, <1>3, TypedRows DEF IInv, Shape
  <1>6. q \in 0..Ceiling /\ q \in Nat
    BY <1>1, GrantAssumption DEF Charged
  <1>7. s \in {"completed", "failed", "canceled"} /\ (row.status = "canceled" => s = "canceled")
    BY Zenon, <1>1 DEF SettledStatus
  <1>8. PICK rows, new : rows = requests[g] /\ new = requests'[g]
    BY Zenon
  <1>9. /\ rows \in Seq(RequestRow) /\ n \in DOMAIN rows /\ row = rows[n] /\ row \in RequestRow
        /\ Len(rows) \in Nat /\ DOMAIN rows = 1..Len(rows)
    BY Zenon, <1>1, <1>4, <1>5, <1>8, RowFacts DEF Typed
  <1>10. new = [rows EXCEPT ![n] = [row EXCEPT !.status = s, !.tokens = q, !.fresh = FALSE]]
    BY Zenon, <1>2, <1>3, <1>5, <1>8, <1>9
  <1>11. /\ new[n] \in RequestRow /\ new[n].status = s /\ new[n].tokens = q /\ new[n].kind = row.kind
         /\ new[n].fresh = FALSE /\ DOMAIN new = DOMAIN rows /\ \A m \in DOMAIN rows : m # n => new[m] = rows[m]
    <2>1. PICK r : r = [row EXCEPT !.status = s, !.tokens = q, !.fresh = FALSE]
      BY Zenon
    <2>2. r \in RequestRow /\ r.status = s /\ r.tokens = q /\ r.kind = row.kind /\ r.fresh = FALSE
      <3>1. row \in RequestRow /\ s \in {"completed", "failed", "canceled"} /\ q \in 0..Ceiling
        BY Zenon, <1>6, <1>7, <1>9
      <3> QED BY Zenon, <2>1, <3>1 DEF RequestRow
    <2>3. new = [rows EXCEPT ![n] = r]
      BY Zenon, <1>10, <2>1
    <2>4. new[n] = r /\ DOMAIN new = DOMAIN rows /\ \A m \in DOMAIN rows : m # n => new[m] = rows[m]
      BY Zenon, <1>9, <2>3
    <2> QED BY Zenon, <2>2, <2>4
  <1>12. new \in Seq(RequestRow)
    <2>1. PICK r \in RequestRow : new = [rows EXCEPT ![n] = r]
      BY Zenon, <1>10, <1>11, <1>9
    <2> QED BY <1>9, <2>1
  <1>13. RowSettled(rows, new, n)
    <2>1. row.tokens = 0
      BY Zenon, <1>2, <1>5, <1>8, <1>9 DEF Booked, Unbilled
    <2> QED BY Zenon, <1>2, <1>7, <1>9, <1>11, <2>1 DEF RowSettled
  <1>14. PICK gr, gr2 : gr = grants[g] /\ gr2 = grants'[g]
    BY Zenon
  <1>15. gr \in GrantRow /\ Booked(gr, rows)
    BY Zenon, <1>5, <1>8, <1>14 DEF Typed
  <1>16. PICK a \in Nat : a = ActiveAfter(row, gr.active[k])
    <2>1. gr.active[k] \in Nat
      BY Zenon, <1>3, <1>15 DEF GrantRow
    <2>2. ActiveAfter(row, gr.active[k]) \in Nat
      BY <2>1 DEF ActiveAfter
    <2> QED BY Zenon, <2>2
  <1>17. /\ gr2 \in GrantRow /\ gr2.count = gr.count /\ gr2.generation = gr.generation
         /\ gr2.tokens[k] = gr.tokens[k] + q /\ gr2.active[k] = a
         /\ \A j \in Lanes : j # k => gr2.tokens[j] = gr.tokens[j] /\ gr2.active[j] = gr.active[j]
         /\ gr2.status = IF Exhausts(k, gr2.tokens) THEN "exhausted" ELSE gr.status
         /\ \A j \in Lanes : gr2.tokens[j] >= gr.tokens[j]
    <2>1. PICK tokens : tokens = [gr.tokens EXCEPT ![k] = @ + q]
      BY Zenon
    <2>2. gr2 = SettleGrant(g, k, row, receipt)
      BY Zenon, <1>2, <1>3, <1>5, <1>14
    <2>3. gr2 = [gr EXCEPT !.active[k] = a, !.tokens = tokens, !.status = IF Exhausts(k, tokens) THEN "exhausted" ELSE @]
      BY ZenonT(60), <1>1, <1>14, <1>15, <1>16, <2>1, <2>2 DEF SettleGrant, GrantRow
    <2>4. gr \in GrantRow /\ k \in Lanes /\ q \in Nat
      BY Zenon, <1>3, <1>6, <1>15
    <2>5. SettleWrites(gr, gr2, k, a, q, tokens)
      BY Zenon, <1>16, <2>1, <2>3, <2>4 DEF SettleWrites
    <2> QED BY Zenon, <2>4, <2>5, <1>SettledGrant
  <1>18. GrantSettled(gr, gr2, rows, new, n, k)
    BY Zenon, <1>9, <1>11, <1>16, <1>17 DEF GrantSettled
  <1>19. Booked(gr2, new)
    BY ZenonT(60), <1>3, <1>4, <1>9, <1>12, <1>13, <1>15, <1>17, <1>18, SettleBooks
  <1>20. gr2.status = "active" => gr.status = "active"
    BY Zenon, <1>17
  <1>21. TableStep(g)
    <2>1. gr2.tokens["chat"] >= gr.tokens["chat"]
      BY Zenon, <1>17, GrantAssumption
    <2>2. \A m \in DOMAIN rows : /\ new[m].kind = rows[m].kind
                                 /\ new[m].status = "started" /\ new[m].fresh => rows[m].status = "started" /\ rows[m].fresh
      BY Zenon, <1>9, <1>11
    <2> QED BY SMTT(30), <1>2, <1>8, <1>11, <1>12, <1>14, <1>17, <1>19, <1>20, <2>1, <2>2 DEF TableStep
  <1>22. \A h \in Grants : h # g => grants'[h] = grants[h] /\ requests'[h] = requests[h]
    BY Zenon, <1>2, <1>5
  <1>23. \A h \in Grants : TableStep(h)
    BY Zenon, <1>21, <1>22, SameTables
  <1>24. ASSUME NEW h \in Grants PROVE Current(h)' /\ grants'[h].generation <= MaxRotations
    <2>1. requests[g] # <<>>
      BY <1>8, <1>9
    <2>2. CASE h = g
      <3>1. Current(g)'
        BY SMTT(30), <1>2, <1>3, <1>14, <1>17, <2>1, CurrentKept
      <3> QED BY Zenon, <1>14, <1>17, <2>2, <3>1 DEF IInv
    <2>3. CASE h # g
      <3>1. Current(h)'
        BY Zenon, <1>2, <1>22, <2>3, CurrentKept
      <3> QED BY Zenon, <1>22, <2>3, <3>1 DEF IInv
    <2> QED BY Zenon, <2>2, <2>3
  <1>25. OtherTypes'
    BY Zenon, <1>2 DEF OtherTypes, IInv, Shape
  <1>26. WorkStep
    BY Zenon, <1>2, <1>3 DEF WorkStep
  <1>27. grants' = [h \in Grants |-> grants'[h]] /\ requests' = [h \in Grants |-> requests'[h]]
    BY Zenon, <1>2, <1>5
  <1>28. \A t \in Tickets : tickets'[t].lease = tickets[t].lease /\ verdict'[t] = verdict[t]
    BY Zenon, <1>2
  <1> QED BY Zenon, <1>23, <1>24, <1>25, <1>26, <1>27, <1>28, Assembled

(* A handler that is busy has a grant and a lane. *)
LEMMA HandlerRow ==
    ASSUME NEW r \in {Idle} \cup Admission \cup Call, r.phase \in {"admitting", "upstream"}
    PROVE  r.grant \in Grants /\ r.kind \in Lanes /\ r.nonce \in Nat
  <1>1. r \in Admission \cup Call
    BY DEF Idle
  <1>2. CASE r \in Admission
    BY Zenon, <1>2 DEF Admission
  <1>3. CASE r \in Call
    BY Zenon, <1>3 DEF Call
  <1> QED BY Zenon, <1>1, <1>2, <1>3

(* An admission takes the lock of its ticket after its checks. *)
LEMMA Checked ==
    ASSUME IInv, NEW w \in Workers, NEW g \in Grants, NEW k \in Lanes, NEW n \in 1..(Len(requests[g]) + 1),
           BeginChecks(w, g, k, n)
    PROVE  IInv'
  <1>1. /\ work[w] = Idle /\ ~Locked(g[1]) /\ grants[g].status = "active" /\ WithinTicketRails(g, k)
        /\ NonceUnused(g, n) /\ FleetBelowLimit(k)
        /\ work' = [work EXCEPT ![w] = [phase |-> "admitting", grant |-> g, kind |-> k, nonce |-> n]]
        /\ UNCHANGED <<tickets, grants, requests, bearer, verdict, faults>>
    BY Zenon DEF BeginChecks
  <1>2. Len(requests[g]) \in Nat /\ n = Len(requests[g]) + 1 /\ n \in Nat
    <2>1. requests[g] \in Seq(RequestRow)
      BY Zenon, TypedRows DEF IInv, Typed
    <2>2. Len(requests[g]) \in Nat /\ DOMAIN requests[g] = 1..Len(requests[g])
      BY <2>1
    <2>3. \A m \in Nat : \A p \in 1..(m + 1) : p \notin 1..m => p = m + 1 /\ p \in Nat
      OBVIOUS
    <2> QED BY Zenon, <1>1, <2>2, <2>3 DEF NonceUnused
  <1>3. work \in [Workers -> {Idle} \cup Admission \cup Call]
    BY Zenon DEF IInv, Shape
  <1>4. PICK row : row = [phase |-> "admitting", grant |-> g, kind |-> k, nonce |-> n]
    BY Zenon
  <1>5. /\ row \in Admission /\ row.phase = "admitting" /\ row.grant = g /\ row.kind = k /\ row.nonce = n
        /\ work'[w] = row /\ \A v \in Workers : v # w => work'[v] = work[v]
        /\ work' \in [Workers -> {Idle} \cup Admission \cup Call]
    <2>1. /\ row \in Admission /\ row.phase = "admitting" /\ row.grant = g /\ row.kind = k /\ row.nonce = n
      BY Zenon, <1>2, <1>4 DEF Admission
    <2>2. /\ work'[w] = row /\ \A v \in Workers : v # w => work'[v] = work[v]
      BY Zenon, <1>1, <1>3, <1>4
    <2> QED BY Zenon, <1>1, <1>3, <1>4, <2>1, <2>2
  <1>6. \A v \in Workers : v # w => ~(work'[v].phase = "admitting" /\ work'[v].grant[1] = g[1])
    BY Zenon, <1>1, <1>5 DEF Locked
  <1>7. Shape'
    BY Zenon, <1>1, <1>5 DEF IInv, Shape
  <1>8. \A h \in Grants : Booked(grants[h], requests[h])' /\ Current(h)' /\ grants'[h].generation <= MaxRotations
    BY Zenon, <1>1 DEF IInv, Current
  <1>9. \A h \in Grants, j \in Lanes : WithinTicketRails(h, j)' <=> WithinTicketRails(h, j)
    BY Zenon, <1>1 DEF WithinTicketRails, ActiveAfterReclaim, Reclaimed
  <1>10. ASSUME NEW v \in Workers PROVE Fits(v)'
    <2>1. CASE v = w
      <3>1. /\ grants'[g].status = "active" /\ WithinTicketRails(g, k)' /\ n = Len(requests'[g]) + 1
            /\ \A u \in Workers : work'[u].phase = "admitting" /\ work'[u].grant[1] = g[1] => u = w
        BY Zenon, <1>1, <1>2, <1>6, <1>9
      <3> QED BY Zenon, <1>5, <2>1, <3>1 DEF Fits
    <2>2. CASE v # w
      <3>1. Fits(v) /\ work'[v] = work[v] /\ work[v] \in {Idle} \cup Admission \cup Call
        BY Zenon, <1>3, <1>5, <2>2 DEF IInv
      <3>2. PICK h, j, m, p : h = work[v].grant /\ j = work[v].kind /\ m = work[v].nonce /\ p = work[v].phase
        BY Zenon
      <3>3. ASSUME p = "admitting"
            PROVE  /\ grants'[h].status = "active" /\ WithinTicketRails(h, j)' /\ m = Len(requests'[h]) + 1
                   /\ \A u \in Workers : work'[u].phase = "admitting" /\ work'[u].grant[1] = h[1] => u = v
        <4>1. h \in Grants /\ j \in Lanes
          BY Zenon, <3>1, <3>2, <3>3, HandlerRow
        <4>2. /\ grants[h].status = "active" /\ WithinTicketRails(h, j) /\ m = Len(requests[h]) + 1
              /\ \A u \in Workers : work[u].phase = "admitting" /\ work[u].grant[1] = h[1] => u = v
          BY Zenon, <3>1, <3>2, <3>3 DEF Fits
        <4>3. h[1] # g[1]
          BY Zenon, <1>1, <3>2, <3>3 DEF Locked
        <4> QED BY Zenon, <1>1, <1>5, <1>9, <4>1, <4>2, <4>3
      <3>4. p = "upstream" => m \in DOMAIN requests'[h] /\ requests'[h][m].kind = j
        BY Zenon, <1>1, <3>1, <3>2 DEF Fits
      <3>5. work'[v].phase = p /\ work'[v].grant = h /\ work'[v].kind = j /\ work'[v].nonce = m
        BY Zenon, <3>1, <3>2
      <3> QED BY Zenon, <3>3, <3>4, <3>5 DEF Fits
    <2> QED BY Zenon, <2>1, <2>2
  <1>11. ASSUME NEW j \in Lanes PROVE Fleet(j)'
    <2>1. FleetActive(j)' = FleetActive(j)
      BY <1>1 DEF FleetActive
    <2>2. /\ IsFiniteSet(FleetActive(j)) /\ Cardinality(FleetActive(j)) \in Nat
          /\ Cardinality(FleetActive(j)) + Cardinality(Admits(j)) < FleetLimit[j] + Cardinality(Tickets)
      BY Zenon, FS_CardinalityType DEF IInv, Fleet
    <2>3. CASE j = k
      <3>1. PICK f, a, b, t \in Nat : /\ f = Cardinality(FleetActive(k)) /\ a = Cardinality(Admits(k)')
                                      /\ b = FleetLimit[k] /\ t = Cardinality(Tickets) /\ a <= t
        BY Zenon, <2>2, <2>3, AdmitsFacts
      <3>2. f < b
        BY Zenon, <1>1, <3>1 DEF FleetBelowLimit
      <3>3. f + a < b + t
        BY SMTT(30), <3>1, <3>2
      <3> QED BY Zenon, <2>1, <2>2, <2>3, <3>1, <3>3 DEF Fleet
    <2>4. CASE j # k
      <3>1. Admits(j)' \subseteq Admits(j)
        BY Zenon, <1>5, <2>4 DEF Admits
      <3>2. PICK A2 : A2 = Admits(j)'
        BY Zenon
      <3>3. /\ A2 \in SUBSET Admits(j) /\ IsFiniteSet(Admits(j))
            /\ FleetLimit[j] + Cardinality(Tickets) \in Nat /\ FleetActive(j) \subseteq FleetActive(j)
        BY Zenon, <3>1, <3>2, AdmitsFacts
      <3>4. Cardinality(FleetActive(j)) + Cardinality(A2) < FleetLimit[j] + Cardinality(Tickets)
        BY <2>2, <3>3, FewerFleet
      <3> QED BY Zenon, <2>1, <2>2, <3>2, <3>4 DEF Fleet
    <2> QED BY Zenon, <2>3, <2>4
  <1>12. \A t \in Tickets : Answered(t)'
    BY Zenon, <1>1 DEF IInv, Answered
  <1> QED BY Zenon, <1>7, <1>8, <1>10, <1>11, <1>12 DEF IInv

(* The commit of an admission: its checks still hold, since nothing else   *)
(* could touch the locked ticket's grant.                                  *)
LEMMA Committed ==
    \A w \in Workers : IInv /\ BeginCommits(w) => IInv'
  (* One request more and one admitting ticket less. *)
  <1>FleetTrades.
      ASSUME NEW F, NEW F2, NEW e, F2 \subseteq F \cup {e}, NEW A, NEW A2, NEW t \in A, A2 \subseteq A \ {t},
             NEW b \in Nat, IsFiniteSet(F), IsFiniteSet(A), Cardinality(F) + Cardinality(A) < b
      PROVE  IsFiniteSet(F2) /\ Cardinality(F2) + Cardinality(A2) < b
    <2> USE <1>FleetTrades
    <2>1. /\ IsFiniteSet(F \cup {e}) /\ Cardinality(F) \in Nat
          /\ Cardinality(F \cup {e}) <= Cardinality(F) + 1 /\ Cardinality(F \cup {e}) \in Nat
      <3>1. Cardinality(F) \in Nat
        BY Zenon, FS_CardinalityType
      <3>2. IsFiniteSet(F \cup {e}) /\ Cardinality(F \cup {e}) = IF e \in F THEN Cardinality(F) ELSE Cardinality(F) + 1
        BY Zenon, FS_AddElement
      <3> QED BY <3>1, <3>2
    <2>2. /\ IsFiniteSet(A \ {t}) /\ Cardinality(A) \in Nat
          /\ Cardinality(A \ {t}) = Cardinality(A) - 1 /\ Cardinality(A \ {t}) \in Nat
      BY Zenon, FS_RemoveElement, FS_CardinalityType
    <2>3. /\ IsFiniteSet(F2) /\ Cardinality(F2) <= Cardinality(F \cup {e}) /\ Cardinality(F2) \in Nat
      BY Zenon, <2>1, FS_Subset, FS_CardinalityType
    <2>4. /\ IsFiniteSet(A2) /\ Cardinality(A2) <= Cardinality(A \ {t}) /\ Cardinality(A2) \in Nat
      BY Zenon, <2>2, FS_Subset, FS_CardinalityType
    <2> QED BY <2>1, <2>2, <2>3, <2>4
  <1> SUFFICES ASSUME IInv, NEW w \in Workers, BeginCommits(w)
               PROVE  IInv'
    BY Zenon
  <1>1. PICK g, k, n, a, gen : /\ g = work[w].grant /\ k = work[w].kind /\ n = work[w].nonce
                               /\ a = ActiveAfterReclaim(g, k) /\ gen = grants[g].generation
    BY Zenon
  <1>2. /\ work[w].phase = "admitting"
        /\ requests' = [requests EXCEPT ![g] = [m \in DOMAIN @ \cup {n} |-> IF m = n THEN Row(k) ELSE Reclaimed(g, k)[m]]]
        /\ grants' = [grants EXCEPT ![g].count[k] = @ + 1, ![g].active[k] = a + 1]
        /\ work' = [work EXCEPT ![w] = [phase |-> "upstream", grant |-> g, kind |-> k, nonce |-> n, generation |-> gen]]
        /\ UNCHANGED <<tickets, bearer, verdict, faults>>
    BY Zenon, <1>1 DEF BeginCommits
  <1>3. work \in [Workers -> {Idle} \cup Admission \cup Call] /\ g \in Grants /\ k \in Lanes /\ n \in Nat
    <2>1. work \in [Workers -> {Idle} \cup Admission \cup Call]
      BY Zenon DEF IInv, Shape
    <2> QED BY Zenon, <1>1, <1>2, <2>1, HandlerRow
  <1>4. /\ grants[g].status = "active" /\ WithinTicketRails(g, k) /\ n = Len(requests[g]) + 1
        /\ \A v \in Workers : work[v].phase = "admitting" /\ work[v].grant[1] = g[1] => v = w
    BY Zenon, <1>1, <1>2 DEF IInv, Fits
  <1>5. /\ Typed(g) /\ Booked(grants[g], requests[g]) /\ grants \in [Grants -> GrantRow]
        /\ requests \in [Grants -> Seq(RequestRow)] /\ g[1] \in Tickets
    BY Zenon, <1>3, TypedRows DEF IInv, Shape
  <1>6. PICK gr, gr2, rows, new, old :
          gr = grants[g] /\ gr2 = grants'[g] /\ rows = requests[g] /\ new = requests'[g] /\ old = Reclaimed(g, k)
    BY Zenon
  <1>7. gr \in GrantRow /\ rows \in Seq(RequestRow) /\ Booked(gr, rows)
    BY Zenon, <1>5, <1>6 DEF Typed
  <1>8. RowsReclaimed(gr, rows, old, k, a)
    BY Zenon, <1>1, <1>6 DEF RowsReclaimed, Reclaimed, ActiveAfterReclaim
  <1>9. a \in Nat
    BY Zenon, <1>3, <1>7, <1>8, ReclaimedRows
  <1>10. RailsHold(gr, k, a)
    BY Zenon, <1>1, <1>4, <1>6 DEF RailsHold, WithinTicketRails
  <1>11. AdmitWrites(gr, gr2, k, a)
    BY Zenon, <1>2, <1>3, <1>5, <1>6, <1>9 DEF AdmitWrites
  <1>12. RowsWritten(rows, old, new, n, k)
    BY Zenon, <1>2, <1>3, <1>4, <1>5, <1>6 DEF RowsWritten
  <1>13. /\ gr2 \in GrantRow /\ new \in Seq(RequestRow) /\ Booked(gr2, new)
         /\ gr2.status = gr.status /\ gr2.tokens = gr.tokens /\ gr2.generation = gr.generation
         /\ n \notin DOMAIN rows /\ DOMAIN new = DOMAIN rows \cup {n} /\ new[n].kind = k
         /\ \A m \in DOMAIN rows :
              /\ new[m].kind = rows[m].kind
              /\ new[m].status = "started" /\ new[m].fresh => rows[m].status = "started" /\ rows[m].fresh
    BY Zenon, <1>3, <1>7, <1>8, <1>10, <1>11, <1>12, AdmittedRows DEF AdmissionBooked
  <1>14. \A h \in Grants : h # g => grants'[h] = grants[h] /\ requests'[h] = requests[h]
    BY Zenon, <1>2, <1>5
  <1>15. grants' \in [Grants -> GrantRow] /\ requests' \in [Grants -> Seq(RequestRow)]
    <2>1. \A h \in Grants : grants'[h] \in GrantRow /\ requests'[h] \in Seq(RequestRow)
      BY Zenon, <1>5, <1>6, <1>13, <1>14
    <2>2. grants' = [h \in Grants |-> grants'[h]] /\ requests' = [h \in Grants |-> requests'[h]]
      BY Zenon, <1>2, <1>5
    <2> QED BY Zenon, <2>1, <2>2
  <1>16. PICK row : row = [phase |-> "upstream", grant |-> g, kind |-> k, nonce |-> n, generation |-> gen]
    BY Zenon
  <1>17. /\ row \in Call /\ row.phase = "upstream" /\ row.grant = g /\ row.kind = k /\ row.nonce = n
         /\ work'[w] = row /\ \A v \in Workers : v # w => work'[v] = work[v]
         /\ work' \in [Workers -> {Idle} \cup Admission \cup Call]
    <2>1. gen \in Nat
      BY Zenon, <1>1, <1>6, <1>7 DEF GrantRow
    <2>2. row \in Call /\ row.phase = "upstream" /\ row.grant = g /\ row.kind = k /\ row.nonce = n
      BY Zenon, <1>3, <1>16, <2>1 DEF Call
    <2>3. work' = [work EXCEPT ![w] = row]
      BY Zenon, <1>2, <1>16
    <2> QED BY Zenon, <1>3, <2>2, <2>3
  <1>18. Shape'
    BY Zenon, <1>2, <1>15, <1>17 DEF IInv, Shape
  <1>19. ASSUME NEW h \in Grants PROVE Booked(grants'[h], requests'[h]) /\ Current(h)' /\ grants'[h].generation <= MaxRotations
    <2>1. Booked(grants[h], requests[h]) /\ Current(h) /\ grants[h].generation <= MaxRotations
      BY Zenon DEF IInv
    <2>2. CASE h = g
      <3>1. grants[g] # NoGrant
        BY <1>4 DEF NoGrant
      <3>2. Current(g)'
        BY Zenon, <1>2, <1>3, <1>4, <3>1, CurrentKept
      <3> QED BY Zenon, <1>6, <1>13, <2>1, <2>2, <3>2
    <2>3. CASE h # g
      <3>1. Current(h)'
        BY Zenon, <1>2, <1>14, <2>3, CurrentKept
      <3> QED BY Zenon, <1>14, <2>1, <2>3, <3>1
    <2> QED BY Zenon, <2>2, <2>3
  <1>20. ASSUME NEW v \in Workers PROVE Fits(v)'
    <2>1. CASE v = w
      <3>1. n \in DOMAIN requests'[g] /\ requests'[g][n].kind = k
        BY Zenon, <1>6, <1>13
      <3> QED BY Zenon, <1>17, <2>1, <3>1 DEF Fits
    <2>2. CASE v # w
      <3>1. Fits(v) /\ work'[v] = work[v] /\ work[v] \in {Idle} \cup Admission \cup Call
        BY Zenon, <1>3, <1>17, <2>2 DEF IInv
      <3>2. PICK h, j, m, p : h = work[v].grant /\ j = work[v].kind /\ m = work[v].nonce /\ p = work[v].phase
        BY Zenon
      <3>3. p \in {"admitting", "upstream"} => h \in Grants /\ j \in Lanes
        BY Zenon, <3>1, <3>2, HandlerRow
      <3>4. ASSUME p = "admitting"
            PROVE  /\ grants'[h].status = "active" /\ WithinTicketRails(h, j)' /\ m = Len(requests'[h]) + 1
                   /\ \A u \in Workers : work'[u].phase = "admitting" /\ work'[u].grant[1] = h[1] => u = v
        <4>1. /\ grants[h].status = "active" /\ WithinTicketRails(h, j) /\ m = Len(requests[h]) + 1
              /\ \A u \in Workers : work[u].phase = "admitting" /\ work[u].grant[1] = h[1] => u = v
          BY Zenon, <3>1, <3>2, <3>4 DEF Fits
        <4>2. h # g
          BY Zenon, <1>4, <2>2, <3>2, <3>4
        <4>3. grants'[h] = grants[h] /\ requests'[h] = requests[h]
          BY Zenon, <1>14, <3>3, <3>4, <4>2
        <4>4. WithinTicketRails(h, j)'
          BY Zenon, <4>1, <4>3 DEF WithinTicketRails, ActiveAfterReclaim, Reclaimed
        <4>5. \A u \in Workers : work'[u].phase = "admitting" => work'[u] = work[u]
          BY Zenon, <1>17
        <4> QED BY Zenon, <4>1, <4>3, <4>4, <4>5
      <3>5. ASSUME p = "upstream" PROVE m \in DOMAIN requests'[h] /\ requests'[h][m].kind = j
        <4>1. m \in DOMAIN requests[h] /\ requests[h][m].kind = j
          BY Zenon, <3>1, <3>2, <3>5 DEF Fits
        <4>2. CASE h = g
          BY Zenon, <1>6, <1>13, <4>1, <4>2
        <4>3. CASE h # g
          BY ZenonT(60), <1>14, <3>3, <3>5, <4>1, <4>3
        <4> QED BY Zenon, <4>2, <4>3
      <3>6. work'[v].phase = p /\ work'[v].grant = h /\ work'[v].kind = j /\ work'[v].nonce = m
        BY Zenon, <3>1, <3>2
      <3> QED BY Zenon, <3>4, <3>5, <3>6 DEF Fits
    <2> QED BY Zenon, <2>1, <2>2
  <1>21. ASSUME NEW j \in Lanes PROVE Fleet(j)'
    <2>1. FleetActive(j)' \subseteq IF j = k THEN FleetActive(k) \cup {<<g, n>>} ELSE FleetActive(j)
      <3> SUFFICES ASSUME NEW e \in FleetActive(j)'
                   PROVE  e \in IF j = k THEN FleetActive(k) \cup {<<g, n>>} ELSE FleetActive(j)
        BY Zenon
      <3>1. PICK h \in Grants : \E m \in DOMAIN requests'[h] :
               /\ e = <<h, m>> /\ grants'[h].status = "active"
               /\ requests'[h][m].status = "started" /\ requests'[h][m].kind = j /\ requests'[h][m].fresh
        BY Zenon, FleetMember
      <3>2. PICK m \in DOMAIN requests'[h] :
               /\ e = <<h, m>> /\ grants'[h].status = "active"
               /\ requests'[h][m].status = "started" /\ requests'[h][m].kind = j /\ requests'[h][m].fresh
        BY Zenon, <3>1
      <3>3. CASE h = g /\ m = n
        BY ZenonT(60), <1>6, <1>13, <3>2, <3>3
      <3>4. CASE h # g \/ m # n
        <4>1. /\ m \in DOMAIN requests[h] /\ grants[h].status = "active"
              /\ requests[h][m].status = "started" /\ requests[h][m].kind = j /\ requests[h][m].fresh
          <5>1. CASE h # g
            BY Zenon, <1>14, <3>2, <5>1
          <5>2. CASE h = g
            <6>1. /\ m \in DOMAIN new /\ m # n /\ gr2.status = "active"
                  /\ new[m].status = "started" /\ new[m].kind = j /\ new[m].fresh
              BY ZenonT(60), <1>6, <3>2, <3>4, <5>2
            <6>2. /\ m \in DOMAIN rows /\ gr.status = "active"
                  /\ rows[m].status = "started" /\ rows[m].kind = j /\ rows[m].fresh
              BY Zenon, <1>13, <6>1
            <6> QED BY Zenon, <1>6, <5>2, <6>2
          <5> QED BY Zenon, <5>1, <5>2
        <4>2. e \in FleetActive(j)
          BY Zenon, <3>2, <4>1, FleetMember
        <4> QED BY Zenon, <4>2
      <3> QED BY Zenon, <3>3, <3>4
    <2>2. /\ IsFiniteSet(FleetActive(j)) /\ IsFiniteSet(Admits(j)) /\ FleetLimit[j] + Cardinality(Tickets) \in Nat
          /\ Cardinality(FleetActive(j)) + Cardinality(Admits(j)) < FleetLimit[j] + Cardinality(Tickets)
      BY Zenon, AdmitsFacts DEF IInv, Fleet
    <2>3. \A u \in Workers : work'[u].phase = "admitting" => work'[u] = work[u] /\ u # w
      BY Zenon, <1>17
    <2>4. PICK F2, A2 : F2 = FleetActive(j)' /\ A2 = Admits(j)'
      BY Zenon
    <2>5. IsFiniteSet(F2) /\ Cardinality(F2) + Cardinality(A2) < FleetLimit[j] + Cardinality(Tickets)
      <3>1. CASE j = k
        <4>1. g[1] \in Admits(j) /\ g[1] \notin Admits(j)' /\ Admits(j)' \subseteq Admits(j)
          <5>1. g[1] \in Admits(j)
            BY Zenon, <1>1, <1>2, <1>5, <3>1 DEF Admits
          <5>2. g[1] \notin Admits(j)'
            BY Zenon, <1>4, <2>3 DEF Admits
          <5>3. Admits(j)' \subseteq Admits(j)
            BY Zenon, <2>3 DEF Admits
          <5> QED BY Zenon, <5>1, <5>2, <5>3
        <4>2. /\ F2 \subseteq FleetActive(j) \cup {<<g, n>>} /\ g[1] \in Admits(j) /\ A2 \subseteq Admits(j) \ {g[1]}
          BY Zenon, <2>1, <2>4, <3>1, <4>1
        <4>3. PICK F, A, e, t, b : /\ F = FleetActive(j) /\ A = Admits(j) /\ e = <<g, n>> /\ t = g[1]
                                   /\ b = FleetLimit[j] + Cardinality(Tickets)
          BY Zenon
        <4>4. /\ F2 \subseteq F \cup {e} /\ t \in A /\ A2 \subseteq A \ {t} /\ b \in Nat
              /\ IsFiniteSet(F) /\ IsFiniteSet(A) /\ Cardinality(F) + Cardinality(A) < b
          BY Zenon, <2>2, <4>2, <4>3
        <4>5. IsFiniteSet(F2) /\ Cardinality(F2) + Cardinality(A2) < b
          BY Zenon, <4>4, <1>FleetTrades
        <4> QED BY Zenon, <4>3, <4>5
      <3>2. CASE j # k
        <4>1. Admits(j)' \subseteq Admits(j)
          BY Zenon, <2>3 DEF Admits
        <4>2. F2 \subseteq FleetActive(j) /\ A2 \in SUBSET Admits(j)
          BY Zenon, <2>1, <2>4, <3>2, <4>1
        <4> QED BY <2>2, <4>2, FewerFleet
      <3> QED BY Zenon, <3>1, <3>2
    <2> QED BY Zenon, <2>4, <2>5 DEF Fleet
  <1>22. ASSUME NEW t \in Tickets PROVE Answered(t)'
    <2>1. \A h \in Grants : grants'[h].tokens = grants[h].tokens
      BY Zenon, <1>6, <1>13, <1>14
    <2>2. Answered(t)
      BY Zenon DEF IInv
    <2> QED BY Zenon, <1>2, <2>1, <2>2 DEF Answered
  <1> QED BY Zenon, <1>18, <1>19, <1>20, <1>21, <1>22 DEF IInv

(* The exchange, whichever way it ends. *)
LEMMA Exchanged ==
    ASSUME IInv, NEW g \in Grants, activate_inference_grant(g)
    PROVE  IInv'
  <1>1. ~Locked(g[1]) /\ grants[g].status # "none" /\ UNCHANGED <<tickets, work, verdict>>
    BY Zenon DEF activate_inference_grant
  <1>2. bearer \in [Tickets -> BOOLEAN] /\ faults \in 0..MaxFaults /\ MaxFaults \in Nat
    BY Zenon, GrantAssumption DEF IInv, Shape
  <1>3. CASE grants' = [grants EXCEPT ![g].status = "revoked"] /\ UNCHANGED <<requests, bearer, faults>>
    BY Zenon, <1>1, <1>3, ExchangeRefused
  <1>4. CASE /\ ~DeadForExchange(g) /\ Rotations < MaxRotations
             /\ requests' = [requests EXCEPT ![g] = Canceled(@, AllStarted(@))]
             /\ grants' = [grants EXCEPT ![g] = Rotated(g)]
             /\ \E received \in BOOLEAN :
                   /\ bearer' = [bearer EXCEPT ![g[1]] = received]
                   /\ received \/ faults < MaxFaults
                   /\ faults' = faults + (IF received THEN 0 ELSE 1)
    <2>1. bearer' \in [Tickets -> BOOLEAN]
      BY Zenon, <1>2, <1>4
    <2>2. faults' \in 0..MaxFaults
      BY <1>2, <1>4
    <2> QED BY Zenon, <1>1, <1>4, <2>1, <2>2, ExchangeRotates
  <1> QED BY Zenon, <1>3, <1>4 DEF activate_inference_grant

(* fail_job: only a grant that spent its tokens is blamed on the agent. *)
LEMMA Failed ==
    ASSUME IInv, NEW t \in Tickets, NEW reason \in {"infrastructure", "scoring_error"}, fail_job(t, reason)
    PROVE  IInv'
  <1>1. PICK v : v = FailureReason(<<t, tickets[t].lease>>, reason)
    BY Zenon
  <1>2. /\ ~Locked(t) /\ tickets' = [tickets EXCEPT ![t].status = "expired"] /\ revoke_ticket_inference(t)
        /\ verdict' = [verdict EXCEPT ![t] = v] /\ UNCHANGED <<work, bearer, faults>>
    BY Zenon, <1>1 DEF fail_job
  <1>3. v \in {"none", "infrastructure", "scoring_error", "allowance"}
    BY Zenon, <1>1 DEF FailureReason
  <1>4. v = "allowance" => \A g \in Grants : g = <<t, tickets[t].lease>> => Walled(grants[g]) /\ grants[g].status = "exhausted"
    <2> SUFFICES ASSUME v = "allowance", NEW g \in Grants, g = <<t, tickets[t].lease>>
                 PROVE  Walled(grants[g]) /\ grants[g].status = "exhausted"
      BY Zenon
    <2>1. ticket_inference_grant_spent_allowance(g)
      BY Zenon, <1>1 DEF FailureReason
    <2> QED BY Zenon, <2>1 DEF ticket_inference_grant_spent_allowance, IInv, Booked
  <1> QED BY Zenon, <1>2, <1>3, <1>4, LeaseEnds

(* The steps of a ticket row. *)
LEMMA LeaseOK ==
    ASSUME IInv, NEW t \in Tickets, Lease(t)
    PROVE  IInv'
  <1>1. /\ tickets \in [Tickets -> TicketRow] /\ bearer \in [Tickets -> BOOLEAN] /\ faults \in 0..MaxFaults
        /\ verdict \in [Tickets -> {"none", "infrastructure", "scoring_error", "allowance"}]
        /\ work \in [Workers -> {Idle} \cup Admission \cup Call] /\ MaxFaults \in Nat
    BY Zenon, GrantAssumption DEF IInv, Shape, TicketRow
  <1>2. CASE request_job(t)
    BY Zenon, <1>2, JobRequested
  <1>3. CASE DeadlinePasses(t)
    <2>1. tickets' = [tickets EXCEPT ![t].status = "lapsed"] /\ UNCHANGED <<grants, requests, work, bearer, verdict, faults>>
      BY Zenon, <1>3 DEF DeadlinePasses
    <2>2. tickets' \in [Tickets -> TicketRow] /\ \A u \in Tickets : tickets'[u].lease = tickets[u].lease
      BY Zenon, <1>1, <2>1, StatusWritten
    <2>3. WorkStep
      BY Zenon, <1>1, <2>1 DEF WorkStep
    <2> QED BY Zenon, <1>1, <2>1, <2>2, <2>3, TablesStay
  <1>4. CASE expire_overdue_tickets(t)
    <2>1. tickets' = [tickets EXCEPT ![t].status = "expired"] /\ UNCHANGED <<grants, requests, work, bearer, verdict, faults>>
      BY Zenon, <1>4 DEF expire_overdue_tickets
    <2>2. tickets' \in [Tickets -> TicketRow] /\ \A u \in Tickets : tickets'[u].lease = tickets[u].lease
      BY Zenon, <1>1, <2>1, StatusWritten
    <2>3. WorkStep
      BY Zenon, <1>1, <2>1 DEF WorkStep
    <2> QED BY Zenon, <1>1, <2>1, <2>2, <2>3, TablesStay
  <1>5. verdict = [verdict EXCEPT ![t] = verdict[t]] /\ verdict[t] \in {"none", "infrastructure", "scoring_error", "allowance"}
    BY Zenon, <1>1
  <1>6. CASE submit_score(t)
    <2>1. /\ ~Locked(t) /\ tickets' = [tickets EXCEPT ![t].status = "scored"] /\ revoke_ticket_inference(t)
          /\ UNCHANGED <<work, bearer, verdict, faults>>
      BY Zenon, <1>6 DEF submit_score
    <2>2. verdict' = [verdict EXCEPT ![t] = verdict[t]]
      BY Zenon, <1>5, <2>1
    <2> QED BY Zenon, <1>5, <2>1, <2>2, LeaseEnds
  <1>7. CASE park_scoring_leases(t)
    <2>1. /\ ~Locked(t) /\ tickets' = [tickets EXCEPT ![t].status = "expired"] /\ revoke_ticket_inference(t)
          /\ UNCHANGED <<work, bearer, verdict, faults>>
      BY Zenon, <1>7 DEF park_scoring_leases
    <2>2. verdict' = [verdict EXCEPT ![t] = verdict[t]]
      BY Zenon, <1>5, <2>1
    <2> QED BY Zenon, <1>5, <2>1, <2>2, LeaseEnds
  <1>8. CASE BrokerRestart(t)
    <2>1. UNCHANGED <<tickets, grants, requests, work, verdict>>
      BY Zenon, <1>8 DEF BrokerRestart
    <2>2. bearer' \in [Tickets -> BOOLEAN] /\ faults' \in 0..MaxFaults
      BY <1>1, <1>8 DEF BrokerRestart
    <2>3. WorkStep
      BY Zenon, <1>1, <2>1 DEF WorkStep
    <2> QED BY Zenon, <1>1, <2>1, <2>2, <2>3, TablesStay
  <1>9. CASE \E reason \in {"infrastructure", "scoring_error"} : fail_job(t, reason)
    BY Zenon, <1>9, Failed
  <1> QED BY Zenon, <1>2, <1>3, <1>4, <1>6, <1>7, <1>8, <1>9 DEF Lease

(* The end of a provider call. *)
LEMMA CallOK ==
    ASSUME IInv, NEW w \in Workers, CallEnds(w)
    PROVE  IInv'
  <1>1. CASE SettlementLost(w)
    <2>1. /\ tickets \in [Tickets -> TicketRow] /\ bearer \in [Tickets -> BOOLEAN] /\ faults \in 0..MaxFaults
          /\ work \in [Workers -> {Idle} \cup Admission \cup Call] /\ MaxFaults \in Nat
      BY Zenon, GrantAssumption DEF IInv, Shape, TicketRow
    <2>2. /\ UNCHANGED <<tickets, grants, requests, bearer, verdict>> /\ work' = [work EXCEPT ![w] = Idle]
      BY Zenon, <1>1 DEF SettlementLost
    <2>3. faults' \in 0..MaxFaults
      BY <1>1, <2>1 DEF SettlementLost
    <2>4. WorkStep
      BY Zenon, <2>1, <2>2 DEF WorkStep
    <2> QED BY Zenon, <2>1, <2>2, <2>3, <2>4, TablesStay
  <1>2. CASE finish_inference_request(w, "failed", 0)
    BY Zenon, <1>2, Finished
  <1>3. CASE \E receipt \in 1..(Ceiling + 1) : finish_inference_request(w, "completed", receipt)
    <2>1. PICK receipt \in 1..(Ceiling + 1) : finish_inference_request(w, "completed", receipt)
      BY Zenon, <1>3
    <2>2. receipt \in Nat
      BY GrantAssumption
    <2> QED BY Zenon, <2>1, <2>2, Finished
  <1> QED BY Zenon, <1>1, <1>2, <1>3 DEF CallEnds

(* The invariant holds initially. *)
LEMMA InitOK == Init => IInv
  <1> SUFFICES ASSUME Init PROVE IInv
    BY Zenon
  <1>1. /\ \A g \in Grants : grants[g] = NoGrant /\ requests[g] = <<>>
        /\ \A w \in Workers : work[w] = Idle
        /\ \A t \in Tickets : verdict[t] = "none"
    BY Zenon DEF Init
  <1>2. /\ MaxLease \in Nat /\ MaxFaults \in Nat /\ MaxRotations \in Nat /\ Zero \in [Lanes -> Nat]
    BY Zenon, GrantAssumption DEF Zero
  <1>3. NoGrant \in GrantRow /\ <<>> \in Seq(RequestRow) /\ NoGrant.generation = 0
    BY <1>2 DEF NoGrant, GrantRow
  <1>4. Shape
    <2>1. tickets \in [Tickets -> [status : {"issued", "lapsed", "expired", "scored"}, lease : 0..MaxLease]]
      BY <1>2 DEF Init
    <2>2. grants \in [Grants -> GrantRow] /\ requests \in [Grants -> Seq(RequestRow)]
      BY Zenon, <1>3 DEF Init
    <2>3. /\ work \in [Workers -> {Idle} \cup Admission \cup Call] /\ bearer \in [Tickets -> BOOLEAN]
          /\ verdict \in [Tickets -> {"none", "infrastructure", "scoring_error", "allowance"}] /\ faults \in 0..MaxFaults
      BY <1>2 DEF Init
    <2> QED BY Zenon, <2>1, <2>2, <2>3 DEF Shape
  <1>5. ASSUME NEW g \in Grants PROVE Booked(grants[g], requests[g]) /\ Current(g) /\ grants[g].generation <= MaxRotations
    <2>1. Booked(NoGrant, <<>>)
      BY Zenon, FreshBooks DEF NoGrant
    <2>2. Current(g)
      BY <1>1 DEF Current, NoGrant
    <2> QED BY <1>1, <1>2, <1>3, <2>1, <2>2
  <1>6. \A w \in Workers : Fits(w)
    BY <1>1 DEF Fits, Idle
  <1>7. ASSUME NEW k \in Lanes PROVE Fleet(k)
    <2>1. FleetActive(k) = {}
      BY <1>1, FleetMember DEF NoGrant
    <2>2. Admits(k) = {}
      BY <1>1 DEF Admits, Idle
    <2>3. FleetLimit[k] \in Nat \ {0} /\ Cardinality(Tickets) \in Nat
      BY Zenon, GrantAssumption, AdmitsFacts
    <2>4. IsFiniteSet({}) /\ Cardinality({}) = 0
      BY Zenon, FS_EmptySet
    <2> QED BY SMTT(30), <2>1, <2>2, <2>3, <2>4 DEF Fleet
  <1>8. \A t \in Tickets : Answered(t)
    BY Zenon, <1>1 DEF Answered
  <1> QED BY Zenon, <1>4, <1>5, <1>6, <1>7, <1>8 DEF IInv

(* IInv is an invariant: what a transaction of the platform or the relay   *)
(* reads under the ticket's lock is still so when it commits, whatever the *)
(* other handlers, brokers and leases do in between.                       *)
THEOREM Invariance == Spec => []IInv
  <1>1. Init => IInv
    BY Zenon, InitOK
  <1>2. IInv /\ [Next]_vars => IInv'
    <2> SUFFICES ASSUME IInv, [Next]_vars PROVE IInv'
      BY Zenon
    <2>1. CASE \E t \in Tickets : Lease(t)
      BY Zenon, <2>1, LeaseOK
    <2>2. CASE \E g \in Grants : activate_inference_grant(g)
      BY Zenon, <2>2, Exchanged
    <2>3. CASE \E g \in Grants : RequestsAge(g)
      BY Zenon, <2>3, Aged
    <2>4. CASE \E w \in Workers, g \in Grants, k \in Lanes : Begin(w, g, k)
      <3>1. PICK w \in Workers, g \in Grants, k \in Lanes : Begin(w, g, k)
        BY Zenon, <2>4
      <3>2. PICK n \in 1..(Len(requests[g]) + 1) : BeginChecks(w, g, k, n)
        BY Zenon, <3>1 DEF Begin
      <3> QED BY Zenon, <3>2, Checked
    <2>5. CASE \E w \in Workers : BeginCommits(w)
      BY Zenon, <2>5, Committed
    <2>6. CASE \E w \in Workers : CallEnds(w)
      BY Zenon, <2>6, CallOK
    <2>7. CASE UNCHANGED vars
      <3>1. UNCHANGED <<tickets, grants, requests, work, bearer, verdict, faults>>
        BY Zenon, <2>7 DEF vars
      <3>2. /\ tickets \in [Tickets -> TicketRow] /\ bearer \in [Tickets -> BOOLEAN] /\ faults \in 0..MaxFaults
            /\ work \in [Workers -> {Idle} \cup Admission \cup Call]
        BY Zenon DEF IInv, Shape, TicketRow
      <3>3. WorkStep
        BY Zenon, <3>1, <3>2 DEF WorkStep
      <3> QED BY Zenon, <3>1, <3>2, <3>3, TablesStay
    <2> QED BY ZenonT(60), <2>1, <2>2, <2>3, <2>4, <2>5, <2>6, <2>7 DEF Next
  <1> QED BY <1>1, <1>2, PTL DEF Spec

(* Every table and handler keeps its shape, and a ticket row has at most   *)
(* one grant a broker could use, that of its last lease.                   *)
THEOREM TypeCorrect == Spec => []TypeOK
  <1>1. IInv => TypeOK
    <2> SUFFICES ASSUME IInv PROVE TypeOK
      BY Zenon
    <2>1. Shape
      BY Zenon DEF IInv
    <2>2. grants \in [Grants -> [status : {"none", "pending", "active", "exhausted", "revoked"},
                             generation : 0..MaxRotations, count : [Lanes -> Nat], active : [Lanes -> Nat],
                             tokens : [Lanes -> Nat]]]
      <3>1. \A g \in Grants : grants[g] \in GrantRow /\ grants[g].generation <= MaxRotations
        BY Zenon, <2>1 DEF IInv, Shape
      <3>2. MaxRotations \in Nat
        BY Zenon, GrantAssumption
      <3>3. \A r \in GrantRow : r.generation <= MaxRotations =>
               r \in [status : {"none", "pending", "active", "exhausted", "revoked"},
                      generation : 0..MaxRotations, count : [Lanes -> Nat], active : [Lanes -> Nat],
                      tokens : [Lanes -> Nat]]
        BY <3>2 DEF GrantRow
      <3>4. grants = [g \in Grants |-> grants[g]]
        BY Zenon, <2>1 DEF Shape
      <3> QED BY Zenon, <3>1, <3>3, <3>4
    <2>3. \A g \in Grants : \A n \in DOMAIN requests[g] : requests[g][n] \in RequestRow
      <3>1. \A g \in Grants : requests[g] \in Seq(RequestRow)
        BY Zenon, <2>1 DEF Shape
      <3> QED BY Zenon, <3>1, RowFacts
    <2>4. \A w \in Workers : work[w].phase \in {"idle", "admitting", "upstream"}
      <3>1. \A w \in Workers : work[w] \in {Idle} \cup Admission \cup Call
        BY Zenon, <2>1 DEF Shape
      <3>2. \A r \in {Idle} \cup Admission \cup Call : r.phase \in {"idle", "admitting", "upstream"}
        BY DEF Idle, Admission, Call
      <3> QED BY Zenon, <3>1, <3>2
    <2>5. ASSUME NEW t \in Tickets PROVE Cardinality(Revocable(t)) <= 1
      <3>1. Revocable(t) \subseteq {<<t, tickets[t].lease>>}
        BY TypedRows DEF Revocable, IInv, Current
      <3>2. PICK e : Revocable(t) \subseteq {e}
        BY Zenon, <3>1
      <3>3. /\ IsFiniteSet({e}) /\ Cardinality({e}) = 1
        BY Zenon, FS_Singleton
      <3>4. Cardinality(Revocable(t)) <= Cardinality({e})
        BY Zenon, <3>2, <3>3, FS_Subset
      <3> QED BY Zenon, <3>3, <3>4
    <2> QED BY Zenon, <2>1, <2>2, <2>3, <2>4, <2>5 DEF TypeOK, Shape, RequestRow
  <1> QED BY <1>1, Invariance, PTL

(* The counters the admission checks read are those of the request rows,   *)
(* through late settlements, reclamation, rotation and revocation.         *)
THEOREM CountersAreExact == Spec => []CountersExact
  <1>1. IInv => CountersExact
    BY Zenon DEF IInv, Booked, LaneBooked, CountersExact
  <1> QED BY <1>1, Invariance, PTL

(* What is booked on a grant is what its requests received, each receipt   *)
(* once.                                                                   *)
THEOREM ReceiptsBookedOnce == Spec => []SpendIsReceipts
  <1>1. IInv => SpendIsReceipts
    BY Zenon DEF IInv, Booked, LaneBooked, SpendIsReceipts
  <1> QED BY <1>1, Invariance, PTL

(* The unlocked counts overshoot the fleet limit by less than the number   *)
(* of tickets, however the admissions interleave.                          *)
THEOREM FleetBounded == Spec => []FleetOvershoot
  <1>1. IInv => FleetOvershoot
    <2> SUFFICES ASSUME IInv, NEW k \in Lanes
                 PROVE  Cardinality(FleetActive(k)) < FleetLimit[k] + Cardinality(Tickets)
      BY Zenon DEF FleetOvershoot
    <2>1. /\ IsFiniteSet(FleetActive(k))
          /\ Cardinality(FleetActive(k)) + Cardinality(Admits(k)) < FleetLimit[k] + Cardinality(Tickets)
      BY Zenon DEF IInv, Fleet
    <2>2. Cardinality(FleetActive(k)) \in Nat /\ Cardinality(Admits(k)) \in Nat
      BY Zenon, <2>1, AdmitsFacts, FS_CardinalityType
    <2>3. FleetLimit[k] + Cardinality(Tickets) \in Nat
      BY Zenon, AdmitsFacts
    <2>4. \A f, a, b \in Nat : f + a < b => f < b
      OBVIOUS
    <2> QED BY Zenon, <2>1, <2>2, <2>3, <2>4
  <1> QED BY <1>1, Invariance, PTL

(* A lane overruns its token budget by at most the ceilings of what was in *)
(* flight; only settled chat spend exhausts a grant, it ends every grant   *)
(* that reached the wall, and only such a grant is held against its agent. *)
THEOREM WallHolds == Spec => []TokenWall
  <1>1. IInv => TokenWall
    <2> SUFFICES ASSUME IInv, NEW g \in Grants
                 PROVE  /\ \A k \in Lanes :
                              grants[g].tokens[k] < TokenBudget[k] + Ceiling * (Concurrency[k]
                                  + Cardinality({n \in Kind(requests[g], k) : requests[g][n].status = "canceled"}))
                        /\ grants[g].status = "exhausted" => grants[g].tokens["chat"] >= TokenBudget["chat"]
                        /\ grants[g].tokens["chat"] >= TokenBudget["chat"] => grants[g].status \in {"exhausted", "revoked"}
                        /\ verdict[g[1]] = "allowance" /\ g[2] = tickets[g[1]].lease
                              => grants[g].tokens["chat"] >= TokenBudget["chat"]
      BY Zenon DEF TokenWall
    <2>1. /\ Typed(g) /\ g[1] \in Tickets /\ g = <<g[1], g[2]>> /\ Booked(grants[g], requests[g]) /\ Answered(g[1])
      BY Zenon, TypedRows DEF IInv
    <2>2. ASSUME NEW k \in Lanes
          PROVE  grants[g].tokens[k] < TokenBudget[k] + Ceiling * (Concurrency[k] + Cardinality(CanceledRows(requests[g], k)))
      <3>1. PICK x, y, o, t \in Nat :
              /\ t = grants[g].tokens[k] /\ o = Cardinality(Owing(requests[g], k))
              /\ x = Ceiling * o /\ y = TokenBudget[k] + Ceiling * (Concurrency[k] + Cardinality(CanceledRows(requests[g], k)))
        <4>1. /\ Ceiling \in Nat /\ TokenBudget[k] \in Nat /\ Concurrency[k] \in Nat
          BY Zenon, GrantAssumption
        <4>2. /\ Cardinality(Owing(requests[g], k)) \in Nat /\ Cardinality(CanceledRows(requests[g], k)) \in Nat
          BY Zenon, <2>1, SetFacts DEF Typed
        <4>3. grants[g].tokens[k] \in Nat
          BY Zenon, <2>1 DEF Typed, GrantRow
        <4>4. /\ Ceiling * Cardinality(Owing(requests[g], k)) \in Nat
              /\ TokenBudget[k] + Ceiling * (Concurrency[k] + Cardinality(CanceledRows(requests[g], k))) \in Nat
          BY <4>1, <4>2
        <4> QED BY Zenon, <4>2, <4>3, <4>4
      <3>2. t + x < y
        BY Zenon, <2>1, <3>1 DEF Booked, LaneBooked
      <3>3. t < y
        BY <3>2
      <3> QED BY Zenon, <3>1, <3>3
    <2>3. Walled(grants[g])
      BY Zenon, <2>1 DEF Booked
    <2>4. verdict[g[1]] = "allowance" /\ g[2] = tickets[g[1]].lease => grants[g].tokens["chat"] >= TokenBudget["chat"]
      BY Zenon, <2>1 DEF Answered
    <2> QED BY Zenon, <2>2, <2>3, <2>4 DEF Walled, CanceledRows
  <1> QED BY <1>1, Invariance, PTL

(* An exhausted or revoked grant is never live again and admits nothing    *)
(* more, whatever is exchanged, settled or leased afterwards.              *)
THEOREM TerminalGrantsStay == Spec => TerminalStays
  <1> DEFINE Ended(g) == grants[g].status \in {"exhausted", "revoked"}
             Stays(g) == Ended(g) => Ended(g)' /\ grants'[g].count = grants[g].count
  <1>1. IInv /\ [Next]_vars => [\A g \in Grants : Stays(g)]_vars
    <2> SUFFICES ASSUME IInv, Next, NEW g \in Grants, Ended(g)
                 PROVE  Ended(g)' /\ grants'[g].count = grants[g].count
      BY Zenon
    <2>1. grants[g] \in GrantRow /\ grants \in [Grants -> GrantRow]
      BY Zenon DEF IInv, Shape
    <2>2. \A t \in Tickets : RevokedGrants(t)[g] = grants[g]
      BY Zenon DEF RevokedGrants, Revocable
    <2>3. CASE \E t \in Tickets : request_job(t)
      <3>1. PICK t \in Tickets : request_job(t)
        BY Zenon, <2>3
      <3>2. PICK new : new = <<t, tickets[t].lease + 1>>
        BY Zenon
      <3>3. grants' = [RevokedGrants(t) EXCEPT ![new] = [NoGrant EXCEPT !.status = "pending"]]
        BY Zenon, <3>1, <3>2 DEF request_job, ensure_inference_grant
      <3>4. g # new
        <4>1. tickets[t].lease \in Nat
          BY GrantAssumption DEF IInv, Shape
        <4>2. new[1] = t /\ new[2] > tickets[t].lease
          BY <3>2, <4>1
        <4>3. g = new => grants[g] = NoGrant
          BY Zenon, <4>2 DEF IInv, Current
        <4> QED BY <4>3 DEF NoGrant
      <3>5. grants'[g] = grants[g]
        BY <2>2, <3>3, <3>4
      <3> QED BY Zenon, <3>5
    <2>4. CASE \E t \in Tickets : revoke_ticket_inference(t)
      <3>1. grants'[g] = grants[g]
        BY Zenon, <2>2, <2>4 DEF revoke_ticket_inference
      <3> QED BY Zenon, <3>1
    <2>5. CASE grants' = grants
      BY Zenon, <2>5
    <2>6. CASE \E h \in Grants : activate_inference_grant(h)
      <3>1. PICK h \in Grants : activate_inference_grant(h)
        BY Zenon, <2>6
      <3>2. CASE h # g
        <4>1. grants'[g] = grants[g]
          BY Zenon, <2>1, <3>1, <3>2 DEF activate_inference_grant
        <4> QED BY Zenon, <4>1
      <3>3. CASE h = g
        <4>1. grants' = [grants EXCEPT ![g].status = "revoked"]
          BY Zenon, <3>1, <3>3 DEF activate_inference_grant, DeadForExchange
        <4>2. grants'[g] = [grants[g] EXCEPT !.status = "revoked"]
          BY Zenon, <2>1, <4>1
        <4> QED BY Zenon, <2>1, <4>2 DEF GrantRow
      <3> QED BY Zenon, <3>2, <3>3
    <2>7. CASE \E w \in Workers : BeginCommits(w)
      <3>1. PICK w \in Workers : BeginCommits(w)
        BY Zenon, <2>7
      <3>2. PICK h : h = work[w].grant
        BY Zenon
      <3>3. h # g
        BY Zenon, <3>1, <3>2 DEF BeginCommits, IInv, Fits
      <3>4. grants'[g] = grants[g]
        BY Zenon, <2>1, <3>1, <3>2, <3>3 DEF BeginCommits
      <3> QED BY Zenon, <3>4
    <2>8. CASE \E w \in Workers, status \in {"failed", "completed"}, receipt \in Nat : finish_inference_request(w, status, receipt)
      <3>1. PICK w \in Workers, status \in {"failed", "completed"}, receipt \in Nat : finish_inference_request(w, status, receipt)
        BY <2>8
      <3>2. PICK h, k, row : h = work[w].grant /\ k = work[w].kind /\ row = requests[h][work[w].nonce]
        BY SMTT(30)
      <3>3. grants' = [grants EXCEPT ![h] = SettleGrant(h, k, row, receipt)]
        BY <3>1, <3>2 DEF finish_inference_request
      <3>4. CASE h # g
        <4>1. grants'[g] = grants[g]
          BY <2>1, <3>3, <3>4
        <4> QED BY <4>1
      <3>5. CASE h = g
        <4>1. grants'[g] = SettleGrant(g, k, row, receipt)
          BY <2>1, <3>3, <3>5
        <4>2. PICK gr, tokens : gr = grants[g] /\ tokens = [gr.tokens EXCEPT ![k] = @ + Charged(receipt)]
          BY Zenon
        <4>3. PICK active, s : /\ active = [gr.active EXCEPT ![k] = ActiveAfter(row, @)]
                               /\ s = IF Exhausts(k, tokens) THEN "exhausted" ELSE gr.status
          BY Zenon
        <4>4. gr \in GrantRow /\ s \in {"exhausted", "revoked"}
          BY <2>1, <4>2, <4>3
        <4>5. grants'[g] = [gr EXCEPT !.active = active, !.tokens = tokens, !.status = s]
          BY <4>1, <4>2, <4>3, <4>4 DEF SettleGrant, GrantRow
        <4>6. grants'[g].status = s /\ grants'[g].count = gr.count
          BY <4>4, <4>5 DEF GrantRow
        <4> QED BY <4>2, <4>4, <4>6
      <3> QED BY <3>4, <3>5
    <2>9. CASE \E t \in Tickets : Lease(t)
      BY <2>3, <2>4, <2>5, <2>9 DEF Lease, DeadlinePasses, expire_overdue_tickets, submit_score, park_scoring_leases,
         fail_job, BrokerRestart
    <2>10. CASE \E w \in Workers : CallEnds(w)
      <3>1. \A r \in 1..(Ceiling + 1) : r \in Nat
        BY GrantAssumption
      <3> QED BY <2>5, <2>8, <2>10, <3>1 DEF CallEnds, SettlementLost
    <2>11. CASE \E w \in Workers, h \in Grants, k \in Lanes : Begin(w, h, k)
      BY <2>5, <2>11 DEF Begin, BeginChecks
    <2>12. CASE \E h \in Grants : RequestsAge(h)
      BY <2>5, <2>12 DEF RequestsAge
    <2> QED BY Zenon, <2>6, <2>7, <2>9, <2>10, <2>11, <2>12 DEF Next
  <1>2. (\A g \in Grants : Stays(g)) =>
           \A g \in Grants : grants[g].status \in {"exhausted", "revoked"} =>
              grants[g].status' \in {"exhausted", "revoked"} /\ grants[g].count' = grants[g].count
    OBVIOUS
  <1> QED BY <1>1, <1>2, Invariance, PTL DEF Spec, TerminalStays
=============================================================================
