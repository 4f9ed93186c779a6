----------------------- MODULE ValidatorTicketsProofs -----------------------
(***************************************************************************)
(* Proofs about the ticket pool, for every number of agents, versions,     *)
(* validators and slots and every quorum.  Each handler changes the ticket *)
(* table row by row with the writers of ValidatorTickets, so the proof     *)
(* first shows what every writer preserves of one row, lifts that to the   *)
(* table operations, and then needs one short step per handler.            *)
(***************************************************************************)
EXTENDS ValidatorTickets, TLAPS

-----------------------------------------------------------------------------
(* The inductive invariant.                                                *)

(* What a row owes its validator: the leases it got, the attempts it may   *)
(* still use and a parked outage resume never exceed one attempt, the      *)
(* operator grants and at most one resume.                                 *)
RowBudget(r, l, g) ==
    LET p == IF r.parked THEN 1 ELSE 0
        q == IF r.parked \/ r.resumed THEN 1 ELSE 0
    IN
    /\ l + p <= 1 + g + q
    /\ l + (1 + r.grants - r.attempts) + p <= 1 + g + q

(* An outage resume is used once.                                          *)
RowResume(r) == r.parked => ~r.resumed

(* A row that was never written.                                           *)
RowUnused(r, l) ==
    r.status = "none" =>
        /\ l = 0 /\ r.attempts = 0 /\ r.grants = 0
        /\ ~r.parked /\ ~r.resumed

(* A row only ever used for a diagnostic canary.                           *)
RowCanary(r, l, g) ==
    r.purpose = "canary" =>
        /\ l = 0 /\ r.attempts = 1 /\ r.grants <= g
        /\ ~r.parked /\ ~r.resumed

RowPin(r) == Issued(r) /\ Canonical(r) => ~r.foreign

RowOK(r, l, g) ==
    /\ r \in Row
    /\ RowBudget(r, l, g) /\ RowResume(r) /\ RowUnused(r, l)
    /\ RowCanary(r, l, g) /\ RowPin(r)

RowsOK(t, l, g) ==
    /\ t \in [Key -> Row]
    /\ \A k \in Key : RowOK(t[k], l[k], g[k])

SlotsOK(t) ==
    \A j, k \in Key :
        /\ Issued(t[j]) /\ Issued(t[k])
        /\ j[3] = k[3] /\ t[j].slot = t[k].slot
        => j = k

(* The rows and slots of the table, and the shape of the other tables.     *)
TableInv ==
    /\ RowsOK(tickets, leased, recovered)
    /\ SlotsOK(tickets)

IInv == TypeOK /\ TableInv

-----------------------------------------------------------------------------
(* What the row writers preserve.                                          *)

(* A row keeps its promise when its lease ends, on whatever path.          *)
LEMMA ExpireOK ==
    ASSUME NEW r, NEW l \in Nat, NEW g \in Nat, RowOK(r, l, g),
           NEW c \in BOOLEAN
    PROVE  RowOK(Expire(r, c), l, g) /\ ~Issued(Expire(r, c))
  BY ZenonT(60) DEF RowOK, Row, Expire, RowBudget, RowResume, RowUnused, RowCanary,
         RowPin, Issued, Canonical, Purposes

(* The same when a score or an evidence report consumes the lease.         *)
LEMMA CompleteOK ==
    ASSUME NEW r, NEW l \in Nat, NEW g \in Nat, RowOK(r, l, g)
    PROVE  RowOK(Complete(r), l, g) /\ ~Issued(Complete(r))
  BY Zenon DEF RowOK, Row, Complete, RowBudget, RowResume, RowUnused, RowCanary,
         RowPin, Issued, Canonical, Purposes

(* The rewriting of a canary row and the three issuing writers stay rows   *)
(* and set the fields the budget reads as follows.                         *)
LEMMA ForgetCanaryFields ==
    ASSUME NEW r \in Row, NEW keep \in BOOLEAN
    PROVE  LET x == ForgetCanary(r, keep) IN
           /\ x \in Row
           /\ x.revision = r.revision
           /\ r.purpose # "canary" => x = r
           /\ r.purpose = "canary" =>
                /\ x.attempts = 0 /\ x.parked = FALSE /\ x.resumed = FALSE
                /\ x.grants = IF keep THEN r.grants ELSE 0
  <1> DEFINE n == IF keep THEN r.grants ELSE 0
             x == ForgetCanary(r, keep)
  <1>1. n \in Nat
    BY Zenon DEF Row
  <1>2. x = IF r.purpose = "canary"
            THEN [r EXCEPT !.attempts = 0, !.parked = FALSE,
                           !.resumed = FALSE, !.grants = n]
            ELSE r
    BY Zenon DEF ForgetCanary
  <1> HIDE DEF n, x
  <1>3. x \in Row
    BY Zenon, <1>1, <1>2 DEF Row
  <1>4. /\ x.revision = r.revision
        /\ r.purpose # "canary" => x = r
        /\ r.purpose = "canary" =>
             /\ x.attempts = 0 /\ x.parked = FALSE /\ x.resumed = FALSE
             /\ x.grants = n
    BY Zenon, <1>1, <1>2 DEF Row
  <1> QED BY Zenon, <1>3, <1>4 DEF n, x

(* The fields every lane writes when it leases a row.                      *)
LEMMA LeaseFields ==
    ASSUME NEW r \in Row, NEW s \in Slots \cup {NoSlot},
           NEW purpose \in Purposes
    PROVE  LET x == Lease(r, purpose, s) IN
           /\ x \in Row
           /\ x.status = "issued" /\ x.purpose = purpose /\ x.slot = s
           /\ x.foreign <=> purpose \in {"continual", "round"}
           /\ x.attempts = r.attempts /\ x.grants = r.grants
           /\ x.parked = r.parked /\ x.resumed = r.resumed
  <1> DEFINE b == purpose \in {"continual", "round"}
             n == r.revision + 1
             x == Lease(r, purpose, s)
  <1>1. b \in BOOLEAN /\ n \in Nat
    BY DEF Row
  <1>2. x = [r EXCEPT !.status = "issued", !.purpose = purpose, !.slot = s,
                      !.revision = n, !.overdue = FALSE, !.cooling = FALSE,
                      !.foreign = b]
    BY Zenon DEF Lease
  <1> HIDE DEF b, n, x
  <1>3. x \in Row
    BY Zenon, <1>1, <1>2 DEF Row
  <1>4. /\ x.status = "issued" /\ x.purpose = purpose /\ x.slot = s
        /\ x.foreign <=> b
        /\ x.attempts = r.attempts /\ x.grants = r.grants
        /\ x.parked = r.parked /\ x.resumed = r.resumed
    BY Zenon, <1>2 DEF Row
  <1> QED BY Zenon, <1>3, <1>4 DEF b, x

(* Charging a lease to the attempts, or to a parked outage resume.         *)
LEMMA ChargeFields ==
    ASSUME NEW r \in Row
    PROVE  LET x == ChargeAttempt(r) IN
           /\ x \in Row
           /\ x.status = r.status /\ x.purpose = r.purpose /\ x.slot = r.slot
           /\ x.foreign = r.foreign /\ x.grants = r.grants
           /\ x.attempts = IF r.parked THEN r.attempts ELSE r.attempts + 1
           /\ x.parked = FALSE
           /\ x.resumed = (r.resumed \/ r.parked)
  <1> DEFINE q == r.resumed \/ r.parked
             n == IF r.parked THEN r.attempts ELSE r.attempts + 1
             x == ChargeAttempt(r)
  <1>1. q \in BOOLEAN /\ n \in Nat
    BY DEF Row
  <1>2. x = [r EXCEPT !.attempts = n, !.resumed = q, !.parked = FALSE]
    BY Zenon DEF ChargeAttempt
  <1> HIDE DEF q, n, x
  <1>3. x \in Row
    BY Zenon, <1>1, <1>2 DEF Row
  <1>4. /\ x.status = r.status /\ x.purpose = r.purpose /\ x.slot = r.slot
        /\ x.foreign = r.foreign /\ x.grants = r.grants
        /\ x.attempts = n /\ x.parked = FALSE /\ x.resumed = q
    BY Zenon, <1>2 DEF Row
  <1> QED BY Zenon, <1>3, <1>4 DEF q, n, x

(* A scoring lease of a row that is not barred uses up one of the leases   *)
(* the row was still owed.                                                 *)
LEMMA CanonicalLeaseOK ==
    ASSUME NEW r, NEW l \in Nat, NEW g \in Nat, RowOK(r, l, g),
           NEW s \in Slots
    PROVE  /\ RowOK(CanonicalLease(r, s), l, g)
           /\ ~Barred(r) => RowOK(CanonicalLease(r, s), l + 1, g)
           /\ CanonicalLease(r, s).slot = s
  <1> DEFINE f == ForgetCanary(r, TRUE)
             m == Lease(f, "canonical", s)
             x == ChargeAttempt(m)
             y == CanonicalLease(r, s)
  <1>1. r \in Row /\ f \in Row
    BY Zenon, ForgetCanaryFields DEF RowOK
  <1>2. /\ m \in Row
        /\ m.status = "issued" /\ m.purpose = "canonical" /\ m.slot = s
        /\ ~m.foreign /\ m.grants = f.grants
        /\ m.attempts = f.attempts
        /\ m.parked = f.parked /\ m.resumed = f.resumed
    <2> HIDE DEF f
    <2>1. "canonical" \in Purposes
      BY Zenon DEF Purposes
    <2>2. ~m.foreign
      BY <1>1, <2>1, LeaseFields
    <2> QED BY <1>1, <2>1, <2>2, LeaseFields
  <1> HIDE DEF f, m
  <1>3. /\ x \in Row
        /\ x.status = "issued" /\ x.purpose = "canonical" /\ x.slot = s
        /\ ~x.foreign /\ x.grants = f.grants
        /\ x.attempts = IF f.parked THEN f.attempts ELSE f.attempts + 1
        /\ x.parked = FALSE
        /\ x.resumed = (f.resumed \/ f.parked)
    BY ZenonT(60), <1>2, ChargeFields
  <1>4. /\ y \in Row
        /\ y.status = "issued" /\ y.purpose = "canonical" /\ y.slot = s
        /\ ~y.foreign /\ y.grants = f.grants
        /\ y.attempts = x.attempts /\ y.parked = FALSE
        /\ y.resumed = x.resumed
    <2>1. y = [x EXCEPT !.reported = FALSE]
      BY Zenon DEF CanonicalLease, f, m
    <2> HIDE DEF x, y
    <2> QED BY Zenon, <1>3, <2>1 DEF Row
  <1>5. /\ f.grants = r.grants
        /\ r.purpose # "canary" => f = r
        /\ r.purpose = "canary" =>
             f.attempts = 0 /\ f.parked = FALSE /\ f.resumed = FALSE
    BY Zenon, <1>1, ForgetCanaryFields DEF f
  <1> HIDE DEF x, y
  <1>6. RowOK(y, l, g)
    BY <1>1, <1>3, <1>4, <1>5
    DEF RowOK, Row, RowBudget, RowResume, RowUnused, RowCanary, RowPin
  <1>7. ASSUME ~Barred(r) PROVE RowOK(y, l + 1, g)
    BY <1>1, <1>3, <1>4, <1>5, <1>7
    DEF RowOK, Row, RowBudget, RowResume, RowUnused, RowCanary, RowPin,
        Barred, retry_budget_spent, ticket_attempt_cap,
        MAX_ATTEMPTS_PER_VERSION
  <1> QED BY Zenon, <1>4, <1>6, <1>7 DEF y

(* An evidence lease keeps the promise as well: a continual re-test is     *)
(* charged like a scoring lease, a round is not charged at all.            *)
LEMMA EvidenceLeaseOK ==
    ASSUME NEW r, NEW l \in Nat, NEW g \in Nat, RowOK(r, l, g),
           NEW s \in Slots
    PROVE  /\ RowOK(ContinualLease(r, s), l, g)
           /\ ContinualLease(r, s).slot = s
           /\ RowOK(RoundLease(r, s), l, g)
           /\ RoundLease(r, s).slot = s
  <1> DEFINE f == ForgetCanary(r, FALSE)
             m == Lease(f, "continual", s)
             x == ContinualLease(r, s)
             y == RoundLease(r, s)
  <1>1. /\ r \in Row /\ f \in Row
        /\ r.purpose # "canary" => f = r
        /\ r.purpose = "canary" =>
             f.attempts = 0 /\ f.parked = FALSE /\ f.resumed = FALSE
             /\ f.grants = 0
    BY Zenon, ForgetCanaryFields DEF RowOK
  <1> HIDE DEF f
  <1>2. /\ m \in Row
        /\ m.status = "issued" /\ m.purpose = "continual" /\ m.slot = s
        /\ m.attempts = f.attempts /\ m.grants = f.grants
        /\ m.parked = f.parked /\ m.resumed = f.resumed
    BY <1>1, LeaseFields, "continual" \in Purposes DEF Purposes
  <1>3. /\ y \in Row
        /\ y.status = "issued" /\ y.purpose = "round" /\ y.slot = s
        /\ y.attempts = f.attempts /\ y.grants = f.grants
        /\ y.parked = f.parked /\ y.resumed = f.resumed
    <2>1. y = Lease(f, "round", s)
      BY Zenon DEF RoundLease, f
    <2>2. "round" \in Purposes
      BY Zenon DEF Purposes
    <2> HIDE DEF y
    <2> QED BY <1>1, <2>1, <2>2, LeaseFields
  <1>4. x = ChargeAttempt(m)
    BY Zenon DEF ContinualLease, f
  <1> HIDE DEF m, x, y
  <1>5. /\ x \in Row
        /\ x.status = "issued" /\ x.purpose = "continual" /\ x.slot = s
        /\ x.attempts = IF f.parked THEN f.attempts ELSE f.attempts + 1
        /\ x.grants = f.grants /\ x.parked = FALSE
        /\ x.resumed = (f.resumed \/ f.parked)
    <2>1. /\ x \in Row
          /\ x.status = m.status /\ x.purpose = m.purpose /\ x.slot = m.slot
          /\ x.attempts = IF m.parked THEN m.attempts ELSE m.attempts + 1
          /\ x.grants = m.grants /\ x.parked = FALSE
          /\ x.resumed = (m.resumed \/ m.parked)
      BY ZenonT(60), <1>2, <1>4, ChargeFields
    <2> QED BY ZenonT(60), <1>2, <2>1
  <1>6. RowOK(x, l, g)
    BY <1>1, <1>5
    DEF RowOK, Row, RowBudget, RowResume, RowUnused, RowCanary, RowPin,
        Canonical
  <1>7. RowOK(y, l, g)
    BY <1>1, <1>3
    DEF RowOK, Row, RowBudget, RowResume, RowUnused, RowCanary, RowPin,
        Canonical
  <1> QED BY Zenon, <1>3, <1>5, <1>6, <1>7 DEF x, y

(* The canary lease of an unused row.                                      *)
LEMMA CanaryLeaseOK ==
    ASSUME NEW l \in Nat, NEW g \in Nat, RowOK(NoRow, l, g), NEW s \in Slots
    PROVE  LET x == [Lease(NoRow, "canary", s) EXCEPT !.attempts = 1] IN
           RowOK(x, l, g) /\ x.slot = s
  <1> DEFINE m == Lease(NoRow, "canary", s)
             x == [m EXCEPT !.attempts = 1]
  <1>1. /\ m \in Row
        /\ m.status = "issued" /\ m.purpose = "canary" /\ m.slot = s
        /\ m.grants = 0 /\ ~m.parked /\ ~m.resumed
    <2>1. NoRow \in Row /\ "canary" \in Purposes
      BY Zenon DEF NoRow, Row, NoSlot, Purposes
    <2>2. m.grants = NoRow.grants /\ m.parked = NoRow.parked
          /\ m.resumed = NoRow.resumed
      BY <2>1, LeaseFields
    <2> QED BY <2>1, <2>2, LeaseFields DEF NoRow
  <1>2. l = 0
    BY Zenon DEF RowOK, RowUnused, NoRow
  <1> HIDE DEF m
  <1>3. /\ x \in Row
        /\ x.status = "issued" /\ x.purpose = "canary" /\ x.slot = s
        /\ x.grants = 0 /\ ~x.parked /\ ~x.resumed /\ x.attempts = 1
    BY Zenon, <1>1 DEF Row
  <1> HIDE DEF x
  <1>4. RowOK(x, l, g)
    BY <1>2, <1>3
    DEF RowOK, RowBudget, RowResume, RowUnused, RowCanary, RowPin, Canonical
  <1> QED BY Zenon, <1>3, <1>4 DEF x, m

(* The lease an operator writes over a consumed row.                       *)
LEMMA ReplaceLeaseOK ==
    ASSUME NEW r, NEW l \in Nat, NEW g \in Nat, RowOK(r, l, g)
    PROVE  /\ RowOK(ReplacementLease(r), l, g)
           /\ ReplacementLease(r).slot = r.slot
  <1> DEFINE m == Lease(r, "canonical", r.slot)
             n == m.attempts + 1
             x == [m EXCEPT !.attempts = n, !.reported = FALSE]
  <1>1. r \in Row /\ r.slot \in Slots \cup {NoSlot}
    BY Zenon DEF RowOK, Row
  <1>2. /\ m \in Row
        /\ m.status = "issued" /\ m.purpose = "canonical" /\ m.slot = r.slot
        /\ ~m.foreign /\ m.attempts = r.attempts /\ m.grants = r.grants
        /\ m.parked = r.parked /\ m.resumed = r.resumed
    <2>1. "canonical" \in Purposes
      BY Zenon DEF Purposes
    <2>2. ~m.foreign
      BY <1>1, <2>1, LeaseFields
    <2> QED BY <1>1, <2>1, <2>2, LeaseFields
  <1>3. n \in Nat /\ n = r.attempts + 1
    BY <1>1, <1>2 DEF Row
  <1> HIDE DEF m, n
  <1>4. /\ x \in Row
        /\ x.status = "issued" /\ x.purpose = "canonical" /\ x.slot = r.slot
        /\ ~x.foreign /\ x.attempts = n /\ x.grants = r.grants
        /\ x.parked = r.parked /\ x.resumed = r.resumed
    BY Zenon, <1>2, <1>3 DEF Row
  <1> HIDE DEF x
  <1>5. RowOK(x, l, g)
    BY <1>1, <1>3, <1>4
    DEF RowOK, Row, RowBudget, RowResume, RowUnused, RowCanary, RowPin
  <1> QED BY Zenon, <1>4, <1>5 DEF ReplacementLease, x, m, n

(* The other ways a lease ends.                                            *)
LEMMA EndedOK ==
    ASSUME NEW r, NEW l \in Nat, NEW g \in Nat, RowOK(r, l, g)
    PROVE  /\ RowOK(finish_canary(r), l, g) /\ ~Issued(finish_canary(r))
           /\ RowOK(force_expire_lease(r), l, g)
           /\ ~Issued(force_expire_lease(r))
           /\ RowOK(finish_generator_round_ticket(r), l, g)
           /\ ~Issued(finish_generator_round_ticket(r))
           /\ r.status = "issued" => RowOK(ParkedLease(r), l, g)
           /\ ~Issued(ParkedLease(r))
  <1> DEFINE e == Expire(r, FALSE)
             f == finish_canary(r)
             p == ~r.resumed
             w == Expire(r, TRUE)
             x == [w EXCEPT !.parked = p]
  <1>1. /\ e \in Row /\ e.status = "expired" /\ e.purpose = r.purpose
        /\ e.attempts = r.attempts /\ e.grants = r.grants
        /\ e.parked = r.parked /\ e.resumed = r.resumed
        /\ w \in Row /\ w.status = "expired" /\ w.purpose = r.purpose
        /\ w.attempts = r.attempts /\ w.grants = r.grants
        /\ w.parked = r.parked /\ w.resumed = r.resumed
    BY Zenon DEF RowOK, Row, Expire
  <1>2. RowOK(f, l, g) /\ ~Issued(f)
    <2>1. f = [e EXCEPT !.parked = FALSE]
      BY Zenon DEF finish_canary
    <2> HIDE DEF e, f
    <2>2. /\ f \in Row /\ f.status = "expired" /\ f.purpose = r.purpose
          /\ f.attempts = r.attempts /\ f.grants = r.grants
          /\ ~f.parked /\ f.resumed = r.resumed
      BY Zenon, <1>1, <2>1 DEF Row
    <2> QED BY <2>2 DEF RowOK, Row, RowBudget, RowResume, RowUnused,
                        RowCanary, RowPin, Issued
  <1>3. ASSUME r.status = "issued", r.purpose \notin {"canary", "round"}
        PROVE  RowOK(x, l, g)
    <2>1. p \in BOOLEAN /\ (p <=> ~r.resumed)
      BY Zenon
    <2> HIDE DEF w, p
    <2>2. /\ x \in Row /\ x.status = "expired" /\ x.purpose = r.purpose
          /\ x.attempts = r.attempts /\ x.grants = r.grants
          /\ x.parked = p /\ x.resumed = r.resumed
      BY Zenon, <1>1, <2>1 DEF Row
    <2> HIDE DEF x
    <2> QED BY <1>3, <2>1, <2>2 DEF RowOK, Row, RowBudget, RowResume,
                                    RowUnused, RowCanary, RowPin, Issued
  <1>4. ~Issued(x)
    <2> HIDE DEF w, p
    <2> QED BY Zenon, <1>1 DEF Issued, Row
  <1>5. ParkedLease(r) = IF r.purpose \in {"canary", "round"} THEN e ELSE x
    BY Zenon DEF ParkedLease
  <1> HIDE DEF e, f, x
  <1>6. RowOK(e, l, g) /\ ~Issued(e)
    BY Zenon, ExpireOK DEF e
  <1> QED BY Zenon, <1>2, <1>3, <1>4, <1>5, <1>6, CompleteOK
          DEF force_expire_lease, finish_generator_round_ticket, e, f

(* What the heartbeat and the clock write.                                 *)
LEMMA FlagOK ==
    ASSUME NEW r, NEW l \in Nat, NEW g \in Nat, RowOK(r, l, g),
           NEW b \in BOOLEAN
    PROVE  /\ RowOK([r EXCEPT !.reported = b], l, g)
           /\ RowOK([r EXCEPT !.overdue = b], l, g)
           /\ RowOK([r EXCEPT !.cooling = b], l, g)
  BY ZenonT(60) DEF RowOK, Row, RowBudget, RowResume, RowUnused, RowCanary, RowPin,
         Issued, Canonical

(* An operator grant raises the budget by one recovery.                    *)
LEMMA GrantOK ==
    ASSUME NEW r, NEW l \in Nat, NEW g \in Nat, RowOK(r, l, g),
           r.status # "none"
    PROVE  /\ r.status = "expired" /\ retry_budget_spent(r)
                => RowOK(GrantRetry(r), l, g + 1) /\ ~Issued(GrantRetry(r))
           /\ RowOK(RebuiltRow(r), l, g + 1) /\ ~Issued(RebuiltRow(r))
  <1> DEFINE n == r.grants + (r.attempts - ticket_attempt_cap(r) + 1)
             spare == r.attempts - ticket_attempt_cap(r) + 1
             m == r.grants + (IF spare > 1 THEN spare ELSE 1)
             e == Expire(r, FALSE)
             x == GrantRetry(r)
             y == RebuiltRow(r)
  <1>0. r \in Row /\ r.attempts \in Nat /\ r.grants \in Nat
    BY Zenon DEF RowOK, Row
  <1>1. /\ n = r.attempts
        /\ m \in Nat /\ m >= r.grants + 1 /\ m >= r.attempts
        /\ m <= r.grants + 1 \/ m <= r.attempts
    BY <1>0 DEF ticket_attempt_cap, MAX_ATTEMPTS_PER_VERSION
  <1>2. ASSUME r.status = "expired", retry_budget_spent(r)
        PROVE  RowOK(x, l, g + 1) /\ ~Issued(x)
    <2>1. x = [r EXCEPT !.grants = n, !.cooling = FALSE]
      BY Zenon DEF GrantRetry
    <2>2. r.attempts >= 1 + r.grants /\ r.purpose # "canary" /\ ~r.parked
      BY Zenon, <1>2 DEF retry_budget_spent, ticket_attempt_cap,
                  MAX_ATTEMPTS_PER_VERSION
    <2> HIDE DEF n, x
    <2>3. /\ x \in Row /\ x.status = r.status /\ x.purpose = r.purpose
          /\ x.attempts = r.attempts /\ x.grants = n
          /\ x.parked = r.parked /\ x.resumed = r.resumed
      BY Zenon, <1>0, <1>1, <2>1 DEF Row
    <2> QED BY <1>0, <1>1, <1>2, <2>2, <2>3
            DEF RowOK, RowBudget, RowResume, RowUnused, RowCanary, RowPin,
                Issued
  <1>3. RowOK(y, l, g + 1) /\ ~Issued(y)
    <2>1. /\ e \in Row /\ e.status = "expired" /\ e.purpose = r.purpose
          /\ e.attempts = r.attempts /\ e.grants = r.grants
          /\ e.parked = r.parked /\ e.resumed = r.resumed
      BY Zenon, <1>0 DEF Row, Expire
    <2>2. y = [e EXCEPT !.grants = m]
      <3>1. e.grants = r.grants
        BY Zenon, <2>1
      <3> HIDE DEF e
      <3> QED BY Zenon, <3>1 DEF RebuiltRow, e
    <2> HIDE DEF e, m, y
    <2>3. /\ y \in Row /\ y.status = "expired" /\ y.purpose = r.purpose
          /\ y.attempts = r.attempts /\ y.grants = m
          /\ y.parked = r.parked /\ y.resumed = r.resumed
      BY Zenon, <1>1, <2>1, <2>2 DEF Row
    <2> QED BY <1>0, <1>1, <2>3
            DEF RowOK, RowBudget, RowResume, RowUnused, RowCanary, RowPin,
                Issued
  <1> QED BY Zenon, <1>2, <1>3

-----------------------------------------------------------------------------
(* What the table operations preserve.                                     *)

(* Leases may end between t and u, but none starts or changes its slot.    *)
OnlyEnds(t, u) ==
    \A k \in Key : Issued(u[k]) => Issued(t[k]) /\ u[k].slot = t[k].slot

(* A table whose leases only end still has one lease per slot, and a slot  *)
(* that was free stays free.                                               *)
LEMMA OnlyEndsOK ==
    ASSUME NEW t, NEW u, OnlyEnds(t, u), SlotsOK(t)
    PROVE  /\ SlotsOK(u)
           /\ \A v, s : SlotFree(t, v, s) => SlotFree(u, v, s)
  BY Zenon DEF OnlyEnds, SlotsOK, SlotFree, OnSlot

(* A lease on a free slot keeps one lease per slot.                        *)
LEMMA LeaseSlotOK ==
    ASSUME NEW t \in [Key -> Row], SlotsOK(t), NEW k \in Key, NEW x,
           SlotFree(t, k[3], x.slot)
    PROVE  SlotsOK([t EXCEPT ![k] = x])
  BY Zenon DEF SlotsOK, SlotFree, OnSlot

(* Writing one row that keeps its promise.                                 *)
LEMMA WriteOK ==
    ASSUME NEW t, NEW l, NEW g, RowsOK(t, l, g), NEW k \in Key, NEW x,
           RowOK(x, l[k], g[k])
    PROVE  RowsOK([t EXCEPT ![k] = x], l, g)
  BY Zenon DEF RowsOK, RowOK

(* Writing one row that starts no lease.                                   *)
LEMMA WriteEnds ==
    ASSUME NEW t \in [Key -> Row], NEW k \in Key, NEW x,
           Issued(x) => Issued(t[k]) /\ x.slot = t[k].slot
    PROVE  OnlyEnds(t, [t EXCEPT ![k] = x])
  BY Zenon DEF OnlyEnds

(* The deadline sweep only ends leases.                                    *)
LEMMA SweepOK ==
    ASSUME NEW t, NEW l \in [Key -> Nat], NEW g \in [Key -> Nat],
           RowsOK(t, l, g), SlotsOK(t)
    PROVE  LET u == expire_overdue_tickets(t) IN
           RowsOK(u, l, g) /\ SlotsOK(u) /\ OnlyEnds(t, u)
  <1> DEFINE u == expire_overdue_tickets(t)
  <1>1. ASSUME NEW k \in Key
        PROVE  /\ RowOK(u[k], l[k], g[k])
               /\ Issued(u[k]) => u[k] = t[k]
    <2> DEFINE c == t[k].purpose \in {"canonical", "continual"}
    <2>1. u[k] = IF Issued(t[k]) /\ t[k].overdue THEN Expire(t[k], c)
                                                 ELSE t[k]
      BY Zenon DEF expire_overdue_tickets
    <2>2. c \in BOOLEAN /\ RowOK(t[k], l[k], g[k])
          /\ l[k] \in Nat /\ g[k] \in Nat
      BY DEF RowsOK
    <2> HIDE DEF c, u
    <2> QED BY Zenon, <2>1, <2>2, ExpireOK
  <1>2. u \in [Key -> Row]
    <2>1. u = [k \in Key |-> u[k]]
      BY Zenon DEF expire_overdue_tickets
    <2> QED BY Zenon, <1>1, <2>1 DEF RowOK
  <1> HIDE DEF u
  <1>3. OnlyEnds(t, u)
    BY Zenon, <1>1 DEF OnlyEnds
  <1> QED BY Zenon, <1>1, <1>2, <1>3, OnlyEndsOK DEF RowsOK, u

(* Clearing a slot only ends leases and leaves the slot free.              *)
LEMMA ClearOK ==
    ASSUME NEW t, NEW l \in [Key -> Nat], NEW g \in [Key -> Nat],
           RowsOK(t, l, g), SlotsOK(t), NEW v, NEW s
    PROVE  LET u == ClearSlot(t, v, s) IN
           /\ RowsOK(u, l, g) /\ SlotsOK(u) /\ OnlyEnds(t, u)
           /\ SlotFree(u, v, s)
  <1> DEFINE u == ClearSlot(t, v, s)
  <1>1. ASSUME NEW k \in Key
        PROVE  /\ RowOK(u[k], l[k], g[k])
               /\ Issued(u[k]) => u[k] = t[k] /\ ~OnSlot(t, k, v, s)
    <2>1. u[k] = IF OnSlot(t, k, v, s) THEN force_expire_lease(t[k])
                                       ELSE t[k]
      BY Zenon DEF ClearSlot
    <2>2. RowOK(t[k], l[k], g[k]) /\ l[k] \in Nat /\ g[k] \in Nat
      BY Zenon DEF RowsOK
    <2> HIDE DEF u
    <2> QED BY Zenon, <2>1, <2>2, EndedOK
  <1>2. u \in [Key -> Row]
    <2>1. u = [k \in Key |-> u[k]]
      BY Zenon DEF ClearSlot
    <2> QED BY Zenon, <1>1, <2>1 DEF RowOK
  <1> HIDE DEF u
  <1>3. OnlyEnds(t, u)
    BY Zenon, <1>1 DEF OnlyEnds
  <1>4. SlotFree(u, v, s)
    BY Zenon, <1>1 DEF SlotFree, OnSlot
  <1> QED BY Zenon, <1>1, <1>2, <1>3, <1>4, OnlyEndsOK DEF RowsOK, u

(* Restoring the rows of ended re-tests only ends leases.                  *)
LEMMA RestoreOK ==
    ASSUME NEW t, NEW l \in [Key -> Nat], NEW g \in [Key -> Nat],
           RowsOK(t, l, g), SlotsOK(t), NEW r, NEW v, NEW A
    PROVE  LET u == RestoreRows(t, r, v, A) IN
           RowsOK(u, l, g) /\ SlotsOK(u) /\ OnlyEnds(t, u)
  <1> DEFINE u == RestoreRows(t, r, v, A)
             C(k) == k[3] = v /\ k[1] \in A /\ k[2] = r[<<k[1], v>>].version
  <1>1. ASSUME NEW k \in Key
        PROVE  /\ RowOK(u[k], l[k], g[k])
               /\ Issued(u[k]) => u[k] = t[k]
    <2>1. u[k] = IF C(k) THEN Complete(t[k]) ELSE t[k]
      BY Zenon DEF RestoreRows
    <2>2. RowOK(t[k], l[k], g[k]) /\ l[k] \in Nat /\ g[k] \in Nat
      BY Zenon DEF RowsOK
    <2> HIDE DEF u, C
    <2> QED BY Zenon, <2>1, <2>2, CompleteOK
  <1>2. u \in [Key -> Row]
    <2>1. u = [k \in Key |-> u[k]]
      BY Zenon DEF RestoreRows
    <2> QED BY Zenon, <1>1, <2>1 DEF RowOK
  <1> HIDE DEF u
  <1>3. OnlyEnds(t, u)
    BY Zenon, <1>1 DEF OnlyEnds
  <1> QED BY Zenon, <1>1, <1>2, <1>3, OnlyEndsOK DEF RowsOK, u

(* The re-test events.                                                     *)
Events == [Agents \X Validators -> Event]

(* Closing re-tests keeps the shape of the events.                         *)
LEMMA CloseType ==
    ASSUME NEW r \in Events, NEW v, NEW A
    PROVE  CloseRetests(r, v, A) \in Events
  <1>1. \A e \in Event : ReleasedEvent(e) \in Event
    BY Zenon DEF Event, ReleasedEvent
  <1> QED BY Zenon, <1>1 DEF CloseRetests, Events

(* One pass over the re-test queue, on a slot that is free.                *)
LEMMA ServeOK ==
    ASSUME NEW t, NEW l \in [Key -> Nat], NEW g \in [Key -> Nat],
           RowsOK(t, l, g), SlotsOK(t), NEW r \in Events,
           NEW v \in Validators, NEW s \in Slots, NEW lane,
           SlotFree(t, v, s), ServeQueue(t, r, v, s, lane)
    PROVE  /\ RowsOK(tickets', l, g) /\ SlotsOK(tickets')
           /\ retest' \in Events
  <1>1. CASE tickets' = t /\ retest' = r
    BY Zenon, <1>1
  <1>2. CASE \E closed \in SUBSET Unserviceable(t, r, v, lane) :
                tickets' = t /\ retest' = CloseRetests(r, v, closed)
    BY Zenon, <1>2, CloseType
  <1>3. CASE \E closed \in SUBSET Unserviceable(t, r, v, lane) :
             \E a \in Promotable(t, r, v, lane) \ closed :
                /\ tickets' = [t EXCEPT ![<<a, r[<<a, v>>].version, v>>] =
                                           CanonicalLease(@, s)]
                /\ retest' = [CloseRetests(r, v, closed) EXCEPT
                                ![<<a, v>>].ev = "requested"]
    <2>1. PICK closed \in SUBSET Unserviceable(t, r, v, lane) :
          \E a \in Promotable(t, r, v, lane) \ closed :
             /\ tickets' = [t EXCEPT ![<<a, r[<<a, v>>].version, v>>] =
                                        CanonicalLease(@, s)]
             /\ retest' = [CloseRetests(r, v, closed) EXCEPT
                             ![<<a, v>>].ev = "requested"]
      BY Zenon, <1>3
    <2>2. PICK a \in Promotable(t, r, v, lane) :
             /\ tickets' = [t EXCEPT ![<<a, r[<<a, v>>].version, v>>] =
                                        CanonicalLease(@, s)]
             /\ retest' = [CloseRetests(r, v, closed) EXCEPT
                             ![<<a, v>>].ev = "requested"]
      BY Zenon, <2>1
    <2> DEFINE k == <<a, r[<<a, v>>].version, v>>
               x == CanonicalLease(t[k], s)
               w == CloseRetests(r, v, closed)
    <2>3. a \in Agents
      BY Zenon DEF Promotable, Queued
    <2>4. k \in Key /\ k[3] = v
      BY Zenon, <2>3 DEF Events, Event, Key
    <2>5. tickets' = [t EXCEPT ![k] = x]
      BY Zenon, <2>2, <2>4 DEF RowsOK
    <2> HIDE DEF k, x
    <2>6. RowOK(t[k], l[k], g[k]) /\ l[k] \in Nat /\ g[k] \in Nat
          /\ t \in [Key -> Row]
      BY Zenon, <2>4 DEF RowsOK
    <2>7. RowOK(x, l[k], g[k]) /\ x.slot = s
      BY Zenon, <2>6, CanonicalLeaseOK DEF x
    <2>8. RowsOK(tickets', l, g) /\ SlotsOK(tickets')
      BY Zenon, <2>4, <2>5, <2>6, <2>7, WriteOK, LeaseSlotOK
    <2>9. retest' \in Events
      <3>1. w \in Events
        BY Zenon, CloseType
      <3>2. retest' = [w EXCEPT ![<<a, v>>] = [w[<<a, v>>] EXCEPT
                                                 !.ev = "requested"]]
        BY Zenon, <2>2
      <3> HIDE DEF w
      <3>3. \A e \in Event : [e EXCEPT !.ev = "requested"] \in Event
        BY Zenon DEF Event
      <3> QED BY Zenon, <2>3, <3>1, <3>2, <3>3 DEF Events
    <2> QED BY Zenon, <2>8, <2>9
  <1> QED BY Zenon, <1>1, <1>2, <1>3 DEF ServeQueue

(* activate_next_score_retest: it leases only on a slot that is free or    *)
(* that it has just freed by ending the re-test that ran there.            *)
LEMMA ActivateOK ==
    ASSUME NEW t, NEW l \in [Key -> Nat], NEW g \in [Key -> Nat],
           RowsOK(t, l, g), SlotsOK(t), NEW r \in Events,
           NEW v \in Validators, NEW s \in Slots, NEW lane,
           ActivateRetest(t, r, v, s, lane)
    PROVE  /\ RowsOK(tickets', l, g) /\ SlotsOK(tickets')
           /\ retest' \in Events
  <1> DEFINE failed == FailedRepairs(t, r, v)
             t1 == RestoreRows(t, r, v, failed)
             r1 == CloseRetests(r, v, failed)
             running == RunningRetests(t1, r1, v, s, lane)
  <1>1. RowsOK(t1, l, g) /\ SlotsOK(t1) /\ r1 \in Events
    BY Zenon, RestoreOK, CloseType
  <1>2. \/ tickets' = t1 /\ retest' = r1
        \/ /\ running = {} /\ LaneOpen(t1, v, s, lane)
           /\ ServeQueue(t1, r1, v, s, lane)
        \/ \E a \in running :
              /\ EndableRetest(t1, r1, a, v, s)
              /\ ServeQueue(RestoreRows(t1, r1, v, {a}),
                            CloseRetests(r1, v, {a}), v, s, lane)
    BY Zenon DEF ActivateRetest
  <1>3. running \subseteq Agents
    BY Zenon DEF RunningRetests
  <1> HIDE DEF t1, r1, running
  <1>4. CASE tickets' = t1 /\ retest' = r1
    BY Zenon, <1>1, <1>4
  <1>5. CASE LaneOpen(t1, v, s, lane) /\ ServeQueue(t1, r1, v, s, lane)
    <2>1. SlotFree(t1, v, s)
      BY Zenon, <1>5 DEF LaneOpen, SlotFree, OnSlot
    <2> QED BY Zenon, <1>1, <1>5, <2>1, ServeOK
  <1>6. ASSUME NEW a \in running, EndableRetest(t1, r1, a, v, s),
               ServeQueue(RestoreRows(t1, r1, v, {a}),
                          CloseRetests(r1, v, {a}), v, s, lane)
        PROVE  /\ RowsOK(tickets', l, g) /\ SlotsOK(tickets')
               /\ retest' \in Events
    <2> DEFINE k == <<a, r1[<<a, v>>].version, v>>
               u == RestoreRows(t1, r1, v, {a})
    <2>1. RowsOK(u, l, g) /\ SlotsOK(u) /\ OnlyEnds(t1, u)
          /\ CloseRetests(r1, v, {a}) \in Events
      BY Zenon, <1>1, RestoreOK, CloseType
    <2>2. k \in Key /\ k[3] = v
      BY Zenon, <1>1, <1>3 DEF Events, Event, Key
    <2>3. Issued(t1[k]) /\ t1[k].slot = s
      BY Zenon, <1>6 DEF EndableRetest, RetestRow
    <2>4. ~Issued(u[k])
      <3>1. u[k] = Complete(t1[k])
        BY Zenon, <2>2 DEF RestoreRows
      <3>2. RowOK(t1[k], l[k], g[k]) /\ l[k] \in Nat /\ g[k] \in Nat
        BY Zenon, <1>1, <2>2 DEF RowsOK
      <3> QED BY Zenon, <3>1, <3>2, CompleteOK
    <2> HIDE DEF k, u
    <2>5. SlotFree(u, v, s)
      BY Zenon, <1>1, <2>1, <2>2, <2>3, <2>4
      DEF SlotFree, OnSlot, OnlyEnds, SlotsOK
    <2> QED BY Zenon, <1>6, <2>1, <2>5, ServeOK DEF u
  <1> QED BY Zenon, <1>2, <1>4, <1>5, <1>6

-----------------------------------------------------------------------------
(* Every handler preserves the invariant.                                  *)

(* Writing one row that starts no lease, with everything but the tickets   *)
(* unchanged: the shape of most reports.                                   *)
LEMMA RowReportOK ==
    ASSUME IInv, NEW k \in Key, NEW x,
           RowOK(x, leased[k], recovered[k]),
           Issued(x) => Issued(tickets[k]) /\ x.slot = tickets[k].slot,
           tickets' = [tickets EXCEPT ![k] = x],
           UNCHANGED history
    PROVE  TableInv'
  <1>1. /\ tickets \in [Key -> Row]
        /\ RowsOK(tickets, leased, recovered) /\ SlotsOK(tickets)
    BY Zenon DEF IInv, TypeOK, TableInv
  <1>2. RowsOK(tickets', leased, recovered)
    BY Zenon, <1>1, WriteOK
  <1>3. SlotsOK(tickets')
    BY Zenon, <1>1, WriteEnds, OnlyEndsOK
  <1> QED BY Zenon, <1>2, <1>3 DEF TableInv, history

(* What IInv says of one row.                                              *)
LEMMA RowFacts ==
    ASSUME IInv, NEW k \in Key
    PROVE  /\ RowOK(tickets[k], leased[k], recovered[k])
           /\ leased[k] \in Nat /\ recovered[k] \in Nat
           /\ tickets[k] \in Row
  BY Zenon DEF IInv, TypeOK, TableInv, RowsOK, RowOK

(* The row of an agent, version and validator.                             *)
LEMMA KeyOf ==
    ASSUME NEW a \in Agents, NEW b \in Versions, NEW v \in Validators
    PROVE  <<a, b, v>> \in Key /\ <<a, b, v>>[3] = v
  BY Zenon DEF Key

(* The issuing polls: they sweep, free the slot and lease at most one row  *)
(* that is not barred.                                                     *)
LEMMA ScoringPollOK ==
    ASSUME IInv, ScoringPoll
    PROVE  IInv'
  <1>1. PICK a \in Agents, b \in Versions, v \in Validators, s \in Slots :
           \/ PollNoWork(v, s, b)
           \/ issue_ticket(a, b, v, s)
           \/ issue_rollout_ticket(a, b, v, s)
    BY Zenon DEF ScoringPoll
  <1> DEFINE k == <<a, b, v>>
             swept == expire_overdue_tickets(tickets)
             free == ClearSlot(swept, v, s)
  <1>2. k \in Key /\ k[3] = v
    BY Zenon, KeyOf
  <1>3. /\ leased \in [Key -> Nat] /\ recovered \in [Key -> Nat]
        /\ RowsOK(tickets, leased, recovered) /\ SlotsOK(tickets)
    BY Zenon DEF IInv, TypeOK, TableInv
  <1>4. RowsOK(swept, leased, recovered) /\ SlotsOK(swept)
    BY Zenon, <1>3, SweepOK
  <1> HIDE DEF swept
  <1>5. /\ RowsOK(free, leased, recovered) /\ SlotsOK(free)
        /\ SlotFree(free, v, s)
    BY Zenon, <1>3, <1>4, ClearOK
  <1> HIDE DEF free, k
  <1>6. CASE PollNoWork(v, s, b)
    <2>1. tickets' \in {swept, free}
      BY Zenon, <1>6 DEF PollNoWork, swept, free
    <2>2. UNCHANGED <<scores, agent, review, retest, withdrawn, leased, recovered>>
      BY Zenon, <1>6 DEF PollNoWork, history
    <2>3. TableInv'
      BY Zenon, <1>4, <1>5, <2>1, <2>2 DEF TableInv
    <2> QED BY Zenon, <2>2, <2>3 DEF IInv, TypeOK, TableInv, RowsOK
  <1>7. ASSUME /\ ~Barred(free[k])
               /\ tickets' = [free EXCEPT ![k] = CanonicalLease(@, s)]
               /\ leased' = [leased EXCEPT ![k] = @ + 1]
               /\ UNCHANGED <<scores, agent, review, retest, withdrawn, recovered>>
        PROVE  IInv'
    <2> DEFINE x == CanonicalLease(free[k], s)
               l == [leased EXCEPT ![k] = @ + 1]
    <2>1. /\ free \in [Key -> Row]
          /\ RowOK(free[k], leased[k], recovered[k])
          /\ leased[k] \in Nat /\ recovered[k] \in Nat
      BY Zenon, <1>2, <1>3, <1>5 DEF RowsOK
    <2>2. RowOK(x, leased[k] + 1, recovered[k]) /\ x.slot = s
      BY Zenon, <1>7, <2>1, CanonicalLeaseOK
    <2>3. tickets' = [free EXCEPT ![k] = x] /\ leased' = l
      BY Zenon, <1>7
    <2> HIDE DEF x
    <2>4. SlotsOK(tickets')
      BY Zenon, <1>2, <1>5, <2>1, <2>2, <2>3, LeaseSlotOK
    <2>5. l \in [Key -> Nat] /\ l[k] = leased[k] + 1
          /\ \A j \in Key : j # k => l[j] = leased[j]
      BY <1>2, <1>3
    <2> HIDE DEF l
    <2>6. RowsOK(tickets', l, recovered)
      BY Zenon, <1>2, <1>5, <2>1, <2>2, <2>3, <2>5 DEF RowsOK, RowOK
    <2> QED BY Zenon, <1>7, <2>3, <2>4, <2>5, <2>6
            DEF IInv, TypeOK, TableInv, RowsOK
  <1>8. CASE issue_ticket(a, b, v, s)
    BY Zenon, <1>7, <1>8 DEF issue_ticket, k, free, swept
  <1>9. CASE issue_rollout_ticket(a, b, v, s)
    BY Zenon, <1>7, <1>9 DEF issue_rollout_ticket, k, free, swept
  <1> QED BY Zenon, <1>1, <1>6, <1>8, <1>9

(* The evidence lanes and the canary lease a free slot without touching    *)
(* the scoring budget.                                                     *)
LEMMA EvidencePollOK ==
    ASSUME IInv, EvidencePoll
    PROVE  IInv'
  <1>1. PICK a \in Agents, b \in Versions, v \in Validators, s \in Slots :
           \/ issue_confirmation_ticket(a, b, v, s)
           \/ request_top5_no_job(v, s)
           \/ issue_generator_round_ticket(a, b, v, s)
           \/ issue_canary(a, b, v, s)
    BY Zenon DEF EvidencePoll
  <1> DEFINE k == <<a, b, v>>
             swept == expire_overdue_tickets(tickets)
  <1>2. k \in Key /\ k[3] = v
    BY Zenon, KeyOf
  <1>3. /\ leased \in [Key -> Nat] /\ recovered \in [Key -> Nat]
        /\ RowsOK(tickets, leased, recovered) /\ SlotsOK(tickets)
    BY Zenon DEF IInv, TypeOK, TableInv
  <1>4. RowsOK(swept, leased, recovered) /\ SlotsOK(swept)
    BY Zenon, <1>3, SweepOK
  <1>5. ASSUME NEW t, RowsOK(t, leased, recovered), SlotsOK(t),
               SlotFree(t, v, s), NEW x,
               RowOK(x, leased[k], recovered[k]), x.slot = s,
               tickets' = [t EXCEPT ![k] = x],
               UNCHANGED <<scores, agent, review, retest, withdrawn, history>>
        PROVE  IInv'
    <2> HIDE DEF k
    <2>1. t \in [Key -> Row]
      BY Zenon, <1>5 DEF RowsOK
    <2>2. RowsOK(tickets', leased, recovered) /\ SlotsOK(tickets')
      BY Zenon, <1>2, <1>5, <2>1, WriteOK, LeaseSlotOK
    <2> QED BY Zenon, <1>5, <2>2 DEF IInv, TypeOK, TableInv, RowsOK, history
  <1> HIDE DEF swept, k
  <1>6. RowOK(swept[k], leased[k], recovered[k])
        /\ leased[k] \in Nat /\ recovered[k] \in Nat
    BY Zenon, <1>2, <1>3, <1>4 DEF RowsOK
  <1>7. CASE issue_confirmation_ticket(a, b, v, s)
    <2> DEFINE free == IF ContinualOnSlot(swept, v, s)
                       THEN ClearSlot(swept, v, s) ELSE swept
    <2>1. /\ SlotFree(free, v, s)
          /\ tickets' = [free EXCEPT ![k] = ContinualLease(free[k], s)]
          /\ UNCHANGED <<scores, agent, review, retest, withdrawn, history>>
      BY Zenon, <1>7 DEF issue_confirmation_ticket, EvidenceLeasable, swept, k
    <2>2. RowsOK(free, leased, recovered) /\ SlotsOK(free)
      BY Zenon, <1>3, <1>4, ClearOK
    <2> HIDE DEF free
    <2>3. RowOK(free[k], leased[k], recovered[k])
      BY Zenon, <1>2, <2>2 DEF RowsOK
    <2> QED BY Zenon, <1>5, <1>6, <2>1, <2>2, <2>3, EvidenceLeaseOK
  <1>10. CASE request_top5_no_job(v, s)
    <2>1. /\ tickets' = ClearSlot(swept, v, s)
          /\ UNCHANGED <<scores, agent, review, retest, withdrawn, history>>
      BY Zenon, <1>10 DEF request_top5_no_job, swept
    <2>2. RowsOK(tickets', leased, recovered) /\ SlotsOK(tickets')
      BY Zenon, <1>3, <1>4, <2>1, ClearOK
    <2> QED BY Zenon, <2>1, <2>2 DEF IInv, TypeOK, TableInv, RowsOK, history
  <1>8. CASE issue_generator_round_ticket(a, b, v, s)
    <2>1. /\ SlotFree(swept, v, s)
          /\ tickets' = [swept EXCEPT ![k] = RoundLease(swept[k], s)]
          /\ UNCHANGED <<scores, agent, review, retest, withdrawn, history>>
      BY Zenon, <1>8 DEF issue_generator_round_ticket, EvidenceLeasable, swept, k
    <2> QED BY Zenon, <1>4, <1>5, <1>6, <2>1, EvidenceLeaseOK
  <1>9. CASE issue_canary(a, b, v, s)
    <2> DEFINE x == [Lease(NoRow, "canary", s) EXCEPT !.attempts = 1]
    <2>1. /\ SlotFree(tickets, v, s) /\ tickets[k] = NoRow
          /\ tickets' = [tickets EXCEPT ![k] = x]
          /\ UNCHANGED <<scores, agent, review, retest, withdrawn, history>>
      BY Zenon, <1>9 DEF issue_canary, k
    <2>2. RowOK(NoRow, leased[k], recovered[k])
      BY Zenon, <1>2, <2>1, RowFacts
    <2>3. RowOK(x, leased[k], recovered[k]) /\ x.slot = s
      BY Zenon, <1>6, <2>2, CanaryLeaseOK
    <2> HIDE DEF x
    <2> QED BY Zenon, <1>3, <1>5, <2>1, <2>3
  <1> QED BY Zenon, <1>1, <1>7, <1>8, <1>9, <1>10

(* A hold keeps the shape of the agents and of their reviews.              *)
LEMMA HoldType ==
    ASSUME IInv, NEW a \in Agents, NEW st \in {"evaluating", "scored"},
           HoldFor(a, st)
    PROVE  agent' \in [Agents -> AgentStatus] /\ review' \in [Agents -> Review]
  <1>1. [state |-> "pending", previous |-> st] \in Review
    BY Zenon DEF Review
  <1> QED BY Zenon, <1>1 DEF HoldFor, IInv, TypeOK, AgentStatus

(* A report rewrites the row of the lease it names; only a score also      *)
(* writes the scores, the re-test event and the agent's status.            *)
LEMMA ScoringReportOK ==
    ASSUME IInv, ScoringReport
    PROVE  IInv'
  <1>1. PICK k \in Key : Heartbeat(k) \/ submit_score(k) \/ fail_job(k)
    BY Zenon DEF ScoringReport
  <1>2. /\ RowOK(tickets[k], leased[k], recovered[k])
        /\ leased[k] \in Nat /\ recovered[k] \in Nat /\ tickets[k] \in Row
        /\ tickets \in [Key -> Row]
    BY Zenon, RowFacts DEF IInv, TypeOK
  <1>3. CASE Heartbeat(k)
    <2> DEFINE x == [tickets[k] EXCEPT !.reported = TRUE]
    <2>1. /\ tickets' = [tickets EXCEPT ![k] = x] /\ Issued(tickets[k])
          /\ UNCHANGED <<scores, agent, review, retest, withdrawn, history>>
      BY Zenon, <1>3, <1>2 DEF Heartbeat, Live, Issued
    <2>2. RowOK(x, leased[k], recovered[k]) /\ x.slot = tickets[k].slot
      BY Zenon, <1>2, FlagOK DEF Row
    <2> HIDE DEF x
    <2>3. TableInv'
      BY Zenon, <2>1, <2>2, RowReportOK
    <2> QED BY Zenon, <2>1, <2>3 DEF IInv, TypeOK, TableInv, RowsOK, history
  <1>4. CASE fail_job(k)
    <2>1. PICK cooling \in {TRUE, tickets[k].purpose = "continual"} :
             tickets' = [tickets EXCEPT ![k] = Expire(@, cooling)]
      BY Zenon, <1>4 DEF fail_job
    <2>2. cooling \in BOOLEAN
      BY Zenon
    <2>3. UNCHANGED <<scores, agent, review, retest, withdrawn, history>>
      BY Zenon, <1>4 DEF fail_job
    <2>4. TableInv'
      <3>1. tickets' = [tickets EXCEPT ![k] = Expire(tickets[k], cooling)]
        BY Zenon, <1>2, <2>1
      <3>2. RowOK(Expire(tickets[k], cooling), leased[k], recovered[k])
            /\ ~Issued(Expire(tickets[k], cooling))
        BY Zenon, <1>2, <2>2, ExpireOK
      <3> QED BY Zenon, <2>3, <3>1, <3>2, RowReportOK
    <2> QED BY Zenon, <2>3, <2>4 DEF IInv, TypeOK, TableInv, RowsOK, history
  <1>5. CASE submit_score(k)
    <2> DEFINE a == k[1]
               p == <<a, k[3]>>
               e == retest[p]
               requested == k \in scores /\ e.ev = "requested"
               stale == e.stale \/ (k \in scores /\ e.version = k[2])
               x == IF requested /\ agent[a] = "scored" THEN ReleasedEvent(e)
                    ELSE [e EXCEPT !.stale = stale]
    <2>1. /\ scores' = scores \cup {k}
          /\ tickets' = [tickets EXCEPT ![k] = Complete(tickets[k])]
          /\ UNCHANGED <<withdrawn, history>>
      BY Zenon, <1>5, <1>2 DEF submit_score
    <2>2. /\ a \in Agents /\ p \in Agents \X Validators
          /\ retest \in Events /\ e \in Event
      BY Zenon DEF Key, IInv, TypeOK, Events
    <2>3. retest' = [retest EXCEPT ![p] = x]
      BY Zenon, <1>5, <2>2 DEF submit_score, Events
    <2>4. agent' \in [Agents -> AgentStatus] /\ review' \in [Agents -> Review]
      <3>1. Finalize(a) \/ UNCHANGED <<agent, review>>
        BY Zenon, <1>5 DEF submit_score
      <3> QED BY Zenon, <2>2, <3>1, HoldType
              DEF Finalize, IInv, TypeOK, AgentStatus
    <2>5. x \in Event
      <3>1. stale \in BOOLEAN
        BY Zenon, <2>2 DEF Event
      <3>2. ReleasedEvent(e) \in Event
        BY Zenon, <2>2 DEF ReleasedEvent, Event
      <3> HIDE DEF stale, e
      <3>3. [e EXCEPT !.stale = stale] \in Event
        BY Zenon, <2>2, <3>1 DEF Event
      <3> QED BY Zenon, <3>2, <3>3
    <2> HIDE DEF x, p
    <2>6. retest' \in [Agents \X Validators -> Event]
      BY Zenon, <2>2, <2>3, <2>5 DEF Events
    <2>7. TableInv'
      BY Zenon, <1>2, <2>1, CompleteOK, RowReportOK
    <2> QED BY Zenon, <2>1, <2>4, <2>6, <2>7
            DEF IInv, TypeOK, TableInv, RowsOK, history
  <1> QED BY Zenon, <1>1, <1>3, <1>4, <1>5

(* Rewriting every row in place, none of them into a new lease: the shape  *)
(* of the outage and of the operator actions on a submission.              *)
LEMMA RewriteOK ==
    ASSUME IInv, NEW u, NEW g \in [Key -> Nat],
           u = [k \in Key |-> u[k]],
           \A k \in Key : /\ RowOK(u[k], leased[k], g[k])
                          /\ Issued(u[k]) => u[k] = tickets[k]
    PROVE  RowsOK(u, leased, g) /\ SlotsOK(u)
  <1>1. u \in [Key -> Row]
    BY Zenon DEF RowOK
  <1>2. OnlyEnds(tickets, u) /\ SlotsOK(tickets)
    BY Zenon DEF OnlyEnds, IInv, TableInv
  <1> QED BY Zenon, <1>1, <1>2, OnlyEndsOK DEF RowsOK

(* Reports and cancellations of the evidence lanes end the leases they     *)
(* name.                                                                   *)
LEMMA EvidenceReportOK ==
    ASSUME IInv, EvidenceReport
    PROVE  IInv'
  <1>1. ASSUME NEW k \in Key,
               \/ submit_top5_confirmation_score(k)
               \/ finish_generator_round(k)
               \/ finish_canary_run(k)
               \/ cancel_benchmark_canary(k)
        PROVE  IInv'
    <2>1. /\ RowOK(tickets[k], leased[k], recovered[k])
          /\ leased[k] \in Nat /\ recovered[k] \in Nat
          /\ tickets \in [Key -> Row]
      BY Zenon, RowFacts DEF IInv, TypeOK
    <2>2. PICK x \in {Complete(tickets[k]), finish_canary(tickets[k]),
                      Expire(tickets[k], FALSE),
                      finish_generator_round_ticket(tickets[k])} :
             tickets' = [tickets EXCEPT ![k] = x]
      BY Zenon, <1>1, <2>1 DEF submit_top5_confirmation_score,
             finish_generator_round, finish_canary_run, cancel_benchmark_canary
    <2>3. UNCHANGED <<scores, agent, review, retest, withdrawn, history>>
      BY Zenon, <1>1 DEF submit_top5_confirmation_score, finish_generator_round,
                  finish_canary_run, cancel_benchmark_canary
    <2>4. RowOK(x, leased[k], recovered[k]) /\ ~Issued(x)
      BY Zenon, <2>1, CompleteOK, ExpireOK, EndedOK
    <2>5. TableInv'
      BY Zenon, <2>2, <2>3, <2>4, RowReportOK
    <2> QED BY Zenon, <2>3, <2>5 DEF IInv, TypeOK, TableInv, RowsOK, history
  <1>2. ASSUME NEW S \in SUBSET Key, expire_round_tickets(S)
        PROVE  IInv'
    <2>1. /\ tickets' = [k \in Key |-> IF k \in S THEN Expire(tickets[k], FALSE)
                                                  ELSE tickets[k]]
          /\ UNCHANGED <<scores, agent, review, retest, withdrawn, history>>
      BY Zenon, <1>2 DEF expire_round_tickets
    <2>2. ASSUME NEW k \in Key
          PROVE  /\ RowOK(tickets'[k], leased[k], recovered[k])
                 /\ Issued(tickets'[k]) => tickets'[k] = tickets[k]
      BY Zenon, <2>1, RowFacts, ExpireOK
    <2>3. RowsOK(tickets', leased, recovered) /\ SlotsOK(tickets')
      BY Zenon, <2>1, <2>2, RewriteOK DEF IInv, TypeOK
    <2> QED BY Zenon, <2>1, <2>3 DEF IInv, TypeOK, TableInv, RowsOK, history
  <1> QED BY Zenon, <1>1, <1>2 DEF EvidenceReport

(* The clock only moves the two time flags of a row.                       *)
LEMMA ClockOK ==
    ASSUME IInv, Clock
    PROVE  IInv'
  <1>1. PICK k \in Key : DeadlinePasses(k) \/ CooldownEnds(k)
    BY Zenon DEF Clock
  <1>2. /\ RowOK(tickets[k], leased[k], recovered[k])
        /\ leased[k] \in Nat /\ recovered[k] \in Nat /\ tickets[k] \in Row
        /\ tickets \in [Key -> Row]
    BY Zenon, RowFacts DEF IInv, TypeOK
  <1>3. UNCHANGED <<scores, agent, review, retest, withdrawn, history>>
    BY Zenon, <1>1 DEF DeadlinePasses, CooldownEnds
  <1>4. PICK x \in {[tickets[k] EXCEPT !.overdue = TRUE],
                    [tickets[k] EXCEPT !.cooling = FALSE]} :
           tickets' = [tickets EXCEPT ![k] = x]
    BY Zenon, <1>1, <1>2 DEF DeadlinePasses, CooldownEnds
  <1>5. /\ RowOK(x, leased[k], recovered[k])
        /\ x.status = tickets[k].status /\ x.slot = tickets[k].slot
    <2>1. x = [tickets[k] EXCEPT !.overdue = TRUE]
          \/ x = [tickets[k] EXCEPT !.cooling = FALSE]
      BY Zenon, <1>4
    <2>2. RowOK(x, leased[k], recovered[k])
      <3>1. CASE x = [tickets[k] EXCEPT !.overdue = TRUE]
        BY Zenon, <1>2, <3>1, FlagOK
      <3>2. CASE x = [tickets[k] EXCEPT !.cooling = FALSE]
        BY Zenon, <1>2, <3>2, FlagOK
      <3> QED BY Zenon, <2>1, <3>1, <3>2
    <2>3. x.status = tickets[k].status /\ x.slot = tickets[k].slot
      BY Zenon, <1>2, <2>1 DEF Row
    <2> QED BY Zenon, <2>2, <2>3
  <1>6. TableInv'
    BY Zenon, <1>3, <1>4, <1>5, RowReportOK DEF Issued
  <1> QED BY Zenon, <1>3, <1>6 DEF IInv, TypeOK, TableInv, RowsOK, history

(* An outage ends the leases it parks; a parked row keeps its one resume.  *)
LEMMA OutageOK ==
    ASSUME IInv, Outage
    PROVE  IInv'
  <1>1. PICK S \in SUBSET Key : park_scoring_leases(S)
    BY Zenon DEF Outage
  <1>2. /\ \A k \in S : Issued(tickets[k])
        /\ tickets' = [k \in Key |-> IF k \in S THEN ParkedLease(tickets[k])
                                                ELSE tickets[k]]
        /\ UNCHANGED <<scores, agent, review, retest, withdrawn, history>>
    BY Zenon, <1>1 DEF park_scoring_leases
  <1>3. ASSUME NEW k \in Key
        PROVE  /\ RowOK(tickets'[k], leased[k], recovered[k])
               /\ Issued(tickets'[k]) => tickets'[k] = tickets[k]
    <2>1. tickets'[k] = IF k \in S THEN ParkedLease(tickets[k])
                                   ELSE tickets[k]
      BY Zenon, <1>2
    <2>2. /\ RowOK(tickets[k], leased[k], recovered[k])
          /\ leased[k] \in Nat /\ recovered[k] \in Nat
      BY Zenon, RowFacts
    <2>3. k \in S => tickets[k].status = "issued"
      BY Zenon, <1>2 DEF Issued
    <2> QED BY Zenon, <2>1, <2>2, <2>3, EndedOK
  <1>4. tickets' = [k \in Key |-> tickets'[k]] /\ recovered \in [Key -> Nat]
    BY Zenon, <1>2 DEF IInv, TypeOK
  <1>5. RowsOK(tickets', leased, recovered) /\ SlotsOK(tickets')
    BY Zenon, <1>3, <1>4, RewriteOK
  <1> QED BY Zenon, <1>2, <1>5 DEF IInv, TypeOK, TableInv, RowsOK, history

(* Resetting the rows of a version grants each of them a lease.            *)
LEMMA ResetOK ==
    ASSUME IInv, NEW a, NEW b, ResetRows(a, b), UNCHANGED leased
    PROVE  /\ RowsOK(tickets', leased', recovered') /\ SlotsOK(tickets')
           /\ recovered' \in [Key -> Nat]
  <1> DEFINE G(k) == /\ k[1] = a /\ k[2] = b
                     /\ tickets[k].status \in {"issued", "expired"}
  <1>1. /\ tickets' = [k \in Key |-> IF G(k) THEN RebuiltRow(tickets[k])
                                             ELSE tickets[k]]
        /\ recovered' = [k \in Key |-> IF G(k) THEN recovered[k] + 1
                                               ELSE recovered[k]]
    BY Zenon DEF ResetRows
  <1>2. \A k \in Key : G(k) => tickets[k].status # "none"
    BY Zenon
  <1> HIDE DEF G
  <1>3. recovered' \in [Key -> Nat]
    BY <1>1 DEF IInv, TypeOK
  <1>4. ASSUME NEW k \in Key
        PROVE  /\ RowOK(tickets'[k], leased[k], recovered'[k])
               /\ Issued(tickets'[k]) => tickets'[k] = tickets[k]
    BY Zenon, <1>1, <1>2, RowFacts, GrantOK
  <1>5. RowsOK(tickets', leased, recovered') /\ SlotsOK(tickets')
    BY Zenon, <1>1, <1>3, <1>4, RewriteOK
  <1> QED BY Zenon, <1>3, <1>5

(* The operator's retry actions: grants raise the budget of exhausted rows *)
(* and everything else only ends leases.                                   *)
LEMMA QueueOperatorOK ==
    ASSUME IInv, QueueOperator
    PROVE  IInv'
  <1>1. PICK a \in Agents, b \in Versions :
           \/ \E S \in SUBSET Validators : recover_validation(a, b, S)
           \/ withdraw_validation(a, b)
           \/ evict_validation(a, b)
           \/ reinstate_validation(a, b)
           \/ rebuild_screened_image(a, b)
           \/ \E v \in Validators : release_validator_assignment(<<a, b, v>>)
    BY Zenon DEF QueueOperator
  <1>2. \A k \in Key : /\ RowOK(tickets[k], leased[k], recovered[k])
                       /\ leased[k] \in Nat /\ recovered[k] \in Nat
    BY Zenon, RowFacts
  <1>3. recovered \in [Key -> Nat]
    BY Zenon DEF IInv, TypeOK
  <1>4. CASE \E S \in SUBSET Validators : recover_validation(a, b, S)
    <2>1. PICK S \in SUBSET Validators : recover_validation(a, b, S)
      BY Zenon, <1>4
    <2> DEFINE G(k) == k[1] = a /\ k[2] = b /\ k[3] \in S
    <2>2. /\ S \subseteq Exhausted(a, b)
          /\ tickets' = [k \in Key |-> IF G(k) THEN GrantRetry(tickets[k])
                                               ELSE tickets[k]]
          /\ recovered' = [k \in Key |-> IF G(k) THEN recovered[k] + 1
                                                 ELSE recovered[k]]
          /\ UNCHANGED <<scores, agent, review, retest, withdrawn, leased>>
      BY Zenon, <2>1 DEF recover_validation
    <2>3. ASSUME NEW k \in Key, G(k)
          PROVE  tickets[k].status = "expired" /\ retry_budget_spent(tickets[k])
      <3>1. k = <<a, b, k[3]>>
        BY <2>3 DEF Key
      <3> QED BY Zenon, <2>2, <2>3, <3>1 DEF Exhausted
    <2> HIDE DEF G
    <2>4. recovered' \in [Key -> Nat]
      BY <1>3, <2>2
    <2>5. ASSUME NEW k \in Key
          PROVE  /\ RowOK(tickets'[k], leased[k], recovered'[k])
                 /\ Issued(tickets'[k]) => tickets'[k] = tickets[k]
      BY Zenon, <1>2, <2>2, <2>3, GrantOK
    <2>6. RowsOK(tickets', leased, recovered') /\ SlotsOK(tickets')
      BY Zenon, <2>2, <2>4, <2>5, RewriteOK
    <2> QED BY Zenon, <2>2, <2>4, <2>6 DEF IInv, TypeOK, TableInv, RowsOK
  <1>5. CASE withdraw_validation(a, b)
    BY <1>5 DEF withdraw_validation, IInv, TypeOK, TableInv, history
  <1>6. CASE reinstate_validation(a, b)
    BY Zenon, <1>6 DEF reinstate_validation, IInv, TypeOK, TableInv, history
  <1>7. CASE evict_validation(a, b)
    <2> DEFINE G(k) == k[1] = a /\ k[2] = b /\ k[3] \in History(a, b)
                         /\ Issued(tickets[k])
    <2>1. /\ tickets' = [k \in Key |-> IF G(k) THEN force_expire_lease(tickets[k])
                                               ELSE tickets[k]]
          /\ withdrawn' \subseteq withdrawn \cup {<<a, b>>}
          /\ UNCHANGED <<scores, agent, review, retest, history>>
      BY Zenon, <1>7 DEF evict_validation
    <2> HIDE DEF G
    <2>2. ASSUME NEW k \in Key
          PROVE  /\ RowOK(tickets'[k], leased[k], recovered[k])
                 /\ Issued(tickets'[k]) => tickets'[k] = tickets[k]
      BY Zenon, <1>2, <2>1, EndedOK
    <2>3. RowsOK(tickets', leased, recovered) /\ SlotsOK(tickets')
      BY Zenon, <1>3, <2>1, <2>2, RewriteOK
    <2> QED BY <2>1, <2>3 DEF IInv, TypeOK, TableInv, RowsOK, history
  <1>8. CASE rebuild_screened_image(a, b)
    <2>1. ResetRows(a, b)
          /\ UNCHANGED <<scores, agent, review, retest, withdrawn, leased>>
      BY Zenon, <1>8 DEF rebuild_screened_image
    <2> QED BY Zenon, <2>1, ResetOK DEF IInv, TypeOK, TableInv, RowsOK
  <1>9. CASE \E v \in Validators : release_validator_assignment(<<a, b, v>>)
    <2>1. PICK v \in Validators : release_validator_assignment(<<a, b, v>>)
      BY Zenon, <1>9
    <2> DEFINE k == <<a, b, v>>
               x == Expire(tickets[k], TRUE)
    <2>2. k \in Key
      BY Zenon, KeyOf
    <2>3. /\ tickets' = [tickets EXCEPT ![k] = x]
          /\ UNCHANGED <<scores, agent, review, retest, withdrawn, history>>
      BY Zenon, <2>1 DEF release_validator_assignment
    <2> HIDE DEF k
    <2>4. RowOK(x, leased[k], recovered[k]) /\ ~Issued(x)
      BY Zenon, <1>2, <2>2, ExpireOK
    <2> HIDE DEF x
    <2>5. TableInv'
      BY Zenon, <2>2, <2>3, <2>4, RowReportOK
    <2> QED BY Zenon, <2>3, <2>5 DEF IInv, TypeOK, TableInv, RowsOK, history
  <1> QED BY Zenon, <1>1, <1>4, <1>5, <1>6, <1>7, <1>8, <1>9

(* A copy review moves the agent and its review record, and a rejection    *)
(* ends the agent's live leases.                                           *)
LEMMA ReviewOperatorOK ==
    ASSUME IInv, ReviewOperator
    PROVE  IInv'
  <1>1. PICK a \in Agents : \/ open_review(a)
                            \/ resolve_clear(a)
                            \/ resolve_reject(a)
    BY Zenon DEF ReviewOperator
  <1>2. review \in [Agents -> Review] /\ agent \in [Agents -> AgentStatus]
    BY Zenon DEF IInv, TypeOK
  <1>3. CASE open_review(a)
    <2>1. UNCHANGED <<tickets, scores, retest, withdrawn, history>>
      BY Zenon, <1>3 DEF open_review
    <2>2. PICK st \in {"evaluating", "scored"} : HoldFor(a, st)
      BY Zenon, <1>2, <1>3 DEF open_review, Review
    <2> QED BY Zenon, <2>1, <2>2, HoldType DEF IInv, TypeOK, TableInv, history
  <1>4. CASE resolve_clear(a)
    <2>1. /\ agent' = [agent EXCEPT ![a] = review[a].previous]
          /\ review' = [review EXCEPT ![a].state = "cleared"]
          /\ UNCHANGED <<tickets, scores, retest, withdrawn, history>>
      BY Zenon, <1>4 DEF resolve_clear
    <2>2. review[a].previous \in AgentStatus
      BY Zenon, <1>2 DEF Review, AgentStatus
    <2>3. review' \in [Agents -> Review]
      BY Zenon, <1>2, <2>1 DEF Review
    <2> QED BY Zenon, <1>2, <2>1, <2>2, <2>3 DEF IInv, TypeOK, TableInv, history
  <1>5. CASE resolve_reject(a)
    <2> DEFINE G(k) == k[1] = a /\ Live(tickets[k])
    <2>1. /\ tickets' = [k \in Key |-> IF G(k) THEN force_expire_lease(tickets[k])
                                               ELSE tickets[k]]
          /\ UNCHANGED <<scores, retest, withdrawn, history>>
          /\ agent' = [agent EXCEPT ![a] = "banned"]
          /\ review' = [review EXCEPT ![a].state = "rejected"]
      BY Zenon, <1>5 DEF resolve_reject
    <2> HIDE DEF G
    <2>2. ASSUME NEW k \in Key
          PROVE  /\ RowOK(tickets'[k], leased[k], recovered[k])
                 /\ Issued(tickets'[k]) => tickets'[k] = tickets[k]
      BY Zenon, <2>1, RowFacts, EndedOK
    <2>3. RowsOK(tickets', leased, recovered) /\ SlotsOK(tickets')
      BY Zenon, <2>1, <2>2, RewriteOK DEF IInv, TypeOK
    <2>4. review' \in [Agents -> Review] /\ agent' \in [Agents -> AgentStatus]
      BY Zenon, <1>2, <2>1 DEF Review, AgentStatus
    <2> QED BY Zenon, <2>1, <2>3, <2>4
            DEF IInv, TypeOK, TableInv, RowsOK, history
  <1> QED BY Zenon, <1>1, <1>3, <1>4, <1>5

(* Rescreening moves the agent, and a contract refresh resets its rows.    *)
LEMMA RescreeningOK ==
    ASSUME IInv, Rescreening
    PROVE  IInv'
  <1>1. ASSUME NEW a \in Agents, claim_screening(a) \/ screening_passed(a)
        PROVE  IInv'
    BY Zenon, <1>1 DEF claim_screening, screening_passed, IInv, TypeOK, TableInv,
                history, AgentStatus
  <1>2. ASSUME NEW a \in Agents, NEW b \in Versions,
               refresh_benchmark_contract(a, b)
        PROVE  IInv'
    <2>1. /\ ResetRows(a, b)
          /\ agent' = [agent EXCEPT ![a] = "screening"]
          /\ UNCHANGED <<scores, review, retest, withdrawn, leased>>
      BY Zenon, <1>2 DEF refresh_benchmark_contract
    <2> QED BY Zenon, <2>1, ResetOK
            DEF IInv, TypeOK, TableInv, RowsOK, AgentStatus
  <1> QED BY Zenon, <1>1, <1>2 DEF Rescreening

(* The steps that run activate_next_score_retest.                          *)
LEMMA RetestPollOK ==
    ASSUME IInv, RetestPoll
    PROVE  IInv'
  <1>1. PICK v \in Validators, s \in Slots, lane \in Lanes :
           /\ ActivateRetest(tickets, retest, v, s, lane)
           /\ UNCHANGED <<scores, agent, review, withdrawn, history>>
    BY Zenon DEF RetestPoll, activate_next_score_retest
  <1>2. /\ leased \in [Key -> Nat] /\ recovered \in [Key -> Nat]
        /\ RowsOK(tickets, leased, recovered) /\ SlotsOK(tickets)
        /\ retest \in Events
    BY Zenon DEF IInv, TypeOK, TableInv, Events
  <1>3. /\ RowsOK(tickets', leased, recovered) /\ SlotsOK(tickets')
        /\ retest' \in Events
    BY Zenon, <1>1, <1>2, ActivateOK
  <1> QED BY Zenon, <1>1, <1>3 DEF IInv, TypeOK, TableInv, RowsOK, history, Events

(* Queueing, rotating and releasing re-tests.                              *)
LEMMA RetestOperatorOK ==
    ASSUME IInv, RetestOperator
    PROVE  IInv'
  <1>1. /\ leased \in [Key -> Nat] /\ recovered \in [Key -> Nat]
        /\ RowsOK(tickets, leased, recovered) /\ SlotsOK(tickets)
        /\ retest \in Events /\ tickets \in [Key -> Row]
    BY Zenon DEF IInv, TypeOK, TableInv, Events
  <1>2. DefaultSlot \in Slots
    BY Zenon, SetsAssumption
  <1>3. ASSUME NEW b \in Versions, NEW basis \in Bases
        PROVE  QueuedEvent(b, basis) \in Event
    BY Zenon DEF QueuedEvent, Event
  <1>4. ASSUME NEW k \in Key, NEW basis \in {"operator", "contract"},
               queue_score_retest(k, basis)
        PROVE  IInv'
    <2> DEFINE p == <<k[1], k[3]>>
               r == [retest EXCEPT ![p] = QueuedEvent(k[2], basis)]
    <2>1. /\ ActivateRetest(tickets, r, k[3], DefaultSlot, "any")
          /\ UNCHANGED <<scores, agent, review, withdrawn, history>>
      BY Zenon, <1>4 DEF queue_score_retest
    <2>2. /\ p \in Agents \X Validators /\ k[3] \in Validators
          /\ k[2] \in Versions /\ basis \in Bases
      BY Zenon DEF Key, Bases
    <2>3. r \in Events
      BY Zenon, <1>1, <1>3, <2>2 DEF Events
    <2> HIDE DEF r
    <2>4. /\ RowsOK(tickets', leased, recovered) /\ SlotsOK(tickets')
          /\ retest' \in Events
      BY Zenon, <1>1, <1>2, <2>1, <2>2, <2>3, ActivateOK
    <2> QED BY Zenon, <2>1, <2>4
            DEF IInv, TypeOK, TableInv, RowsOK, history, Events
  <1>5. ASSUME NEW b \in Versions, NEW P \in SUBSET (Agents \X Validators),
               queue_dueling_rotation_retests(b, P)
        PROVE  IInv'
    <2>1. /\ retest' = [p \in Agents \X Validators |->
                          IF p \in P THEN QueuedEvent(b, "rotation")
                                     ELSE retest[p]]
          /\ UNCHANGED <<tickets, scores, agent, review, withdrawn, history>>
      BY Zenon, <1>5 DEF queue_dueling_rotation_retests
    <2>2. QueuedEvent(b, "rotation") \in Event
      BY Zenon, <1>3, "rotation" \in Bases DEF Bases
    <2>3. retest' \in Events
      BY Zenon, <1>1, <2>1, <2>2 DEF Events
    <2> QED BY Zenon, <2>1, <2>3
            DEF IInv, TypeOK, TableInv, history, Events
  <1>6. ASSUME NEW a \in Agents, NEW v \in Validators,
               release_score_retest(a, v)
        PROVE  IInv'
    <2> DEFINE k == <<a, retest[<<a, v>>].version, v>>
               t == [tickets EXCEPT ![k] = Complete(tickets[k])]
               r == [retest EXCEPT ![<<a, v>>] = ReleasedEvent(retest[<<a, v>>])]
    <2>1. /\ ActivateRetest(t, r, v, DefaultSlot, "any")
          /\ UNCHANGED <<scores, agent, review, withdrawn, history>>
      BY Zenon, <1>6 DEF release_score_retest
    <2>2. k \in Key /\ retest[<<a, v>>] \in Event
      BY Zenon, <1>1 DEF Events, Event, Key
    <2>3. r \in Events
      <3>1. ReleasedEvent(retest[<<a, v>>]) \in Event
        BY Zenon, <2>2 DEF Event, ReleasedEvent
      <3> QED BY Zenon, <1>1, <3>1 DEF Events
    <2> HIDE DEF k, r
    <2>4. /\ RowOK(tickets[k], leased[k], recovered[k])
          /\ leased[k] \in Nat /\ recovered[k] \in Nat
      BY Zenon, <2>2, RowFacts
    <2>5. RowsOK(t, leased, recovered)
      BY Zenon, <1>1, <2>2, <2>4, CompleteOK, WriteOK
    <2>6. SlotsOK(t)
      BY Zenon, <1>1, <2>2, <2>4, CompleteOK, WriteEnds, OnlyEndsOK
    <2> HIDE DEF t
    <2>7. /\ RowsOK(tickets', leased, recovered) /\ SlotsOK(tickets')
          /\ retest' \in Events
      BY Zenon, <1>1, <1>2, <2>1, <2>3, <2>5, <2>6, ActivateOK
    <2> QED BY Zenon, <2>1, <2>7
            DEF IInv, TypeOK, TableInv, RowsOK, history, Events
  <1> QED BY Zenon, <1>4, <1>5, <1>6 DEF RetestOperator

(* A replacement is leased on the row's own slot, which must be free.      *)
LEMMA ReplaceOperatorOK ==
    ASSUME IInv, ReplaceOperator
    PROVE  IInv'
  <1>1. PICK k \in Key : replace_validator_score(k)
    BY Zenon DEF ReplaceOperator
  <1> DEFINE x == ReplacementLease(tickets[k])
             p == <<k[1], k[3]>>
             e == [QueuedEvent(k[2], "operator") EXCEPT !.ev = "requested"]
  <1>2. /\ SlotFree(tickets, k[3], tickets[k].slot)
        /\ tickets' = [tickets EXCEPT ![k] = x]
        /\ retest' = [retest EXCEPT ![p] = e]
        /\ UNCHANGED <<scores, agent, review, withdrawn, history>>
    BY Zenon, <1>1 DEF replace_validator_score
  <1>3. /\ RowsOK(tickets, leased, recovered) /\ SlotsOK(tickets)
        /\ retest \in Events /\ tickets \in [Key -> Row]
    BY Zenon DEF IInv, TypeOK, TableInv, Events
  <1>4. /\ RowOK(tickets[k], leased[k], recovered[k])
        /\ leased[k] \in Nat /\ recovered[k] \in Nat
    BY Zenon, RowFacts
  <1>5. RowOK(x, leased[k], recovered[k]) /\ x.slot = tickets[k].slot
    BY Zenon, <1>4, ReplaceLeaseOK
  <1>6. e \in Event /\ p \in Agents \X Validators
    BY Zenon DEF QueuedEvent, Event, Key, Bases
  <1> HIDE DEF x, e, p
  <1>7. RowsOK(tickets', leased, recovered) /\ SlotsOK(tickets')
    BY Zenon, <1>2, <1>3, <1>5, WriteOK, LeaseSlotOK
  <1>8. retest' \in Events
    BY Zenon, <1>2, <1>3, <1>6 DEF Events
  <1> QED BY Zenon, <1>2, <1>7, <1>8
          DEF IInv, TypeOK, TableInv, RowsOK, history, Events

-----------------------------------------------------------------------------
(* The theorems.                                                           *)

(* The inductive invariant holds in every reachable state of the ticket    *)
(* pool, whatever the handlers of request_job, the reports, the deadline   *)
(* sweep and the operator routes are interleaved into.                     *)
THEOREM Invariance == Spec => []IInv
  <1>1. Init => IInv
    <2> SUFFICES ASSUME Init PROVE IInv
      BY Zenon
    <2>1. NoRow \in Row
      BY Zenon DEF NoRow, Row, NoSlot, Purposes
    <2>2. RowOK(NoRow, 0, 0)
      BY <2>1 DEF RowOK, NoRow, RowBudget, RowResume, RowUnused, RowCanary,
                  RowPin, Issued
    <2>3. ~Issued(NoRow)
      BY Zenon DEF Issued, NoRow
    <2>4. TableInv
      BY Zenon, <2>1, <2>2, <2>3 DEF Init, TableInv, RowsOK, SlotsOK
    <2>5. retest \in Events
      BY DEF Init, Events, Event, Bases
    <2> QED BY Zenon, <2>1, <2>4, <2>5
            DEF Init, IInv, TypeOK, AgentStatus, Review, Events
  <1>2. IInv /\ [Next]_vars => IInv'
    <2> SUFFICES ASSUME IInv, [Next]_vars PROVE IInv'
      BY Zenon
    <2>1. CASE UNCHANGED vars
      BY Zenon, <2>1 DEF vars, IInv, TypeOK, TableInv
    <2> QED BY Zenon, <2>1, ScoringPollOK, EvidencePollOK, RetestPollOK,
               ScoringReportOK, EvidenceReportOK, OutageOK, ClockOK,
               QueueOperatorOK, ReviewOperatorOK, RescreeningOK,
               RetestOperatorOK, ReplaceOperatorOK DEF Next
  <1> QED BY <1>1, <1>2, PTL DEF Spec

(* Every table keeps its shape: in particular no operator grant or rebuild *)
(* ever makes retry_budget negative.                                       *)
THEOREM TypeCorrect == Spec => []TypeOK
  <1>1. IInv => TypeOK
    BY Zenon DEF IInv
  <1> QED BY <1>1, Invariance, PTL

(* No interleaving of the leasing lanes puts two issued leases on one      *)
(* validator slot: of all of them only the operator's score replacement    *)
(* relies on the partial unique index of validator_tickets for it.         *)
THEOREM SlotExclusive == Spec => []OneLeasePerSlot
  <1>1. IInv => OneLeasePerSlot
    BY Zenon DEF IInv, TableInv, SlotsOK, OneLeasePerSlot
  <1> QED BY <1>1, Invariance, PTL

(* A validator is leased ordinary scoring work for one version of an agent *)
(* at most once, plus once per operator grant, plus once for a provider    *)
(* outage, however re-tests, rounds, canaries and outages share its row.   *)
THEOREM BudgetKept == Spec => []LeaseBudget
  <1>1. IInv => LeaseBudget
    <2> SUFFICES ASSUME IInv, NEW k \in Key
                 PROVE  leased[k] <= 1 + recovered[k]
                                 + (IF tickets[k].resumed THEN 1 ELSE 0)
      BY Zenon DEF LeaseBudget
    <2>1. /\ RowOK(tickets[k], leased[k], recovered[k])
          /\ leased[k] \in Nat /\ recovered[k] \in Nat
      BY Zenon, RowFacts
    <2> QED BY <2>1 DEF RowOK, RowBudget, RowResume
  <1> QED BY <1>1, Invariance, PTL

(* A canonical lease never carries the dataset pin another lane left on    *)
(* the shared row: release_foreign_dataset_pin runs on every issuing path. *)
THEOREM PinReleased == Spec => []CanonicalPin
  <1>1. IInv => CanonicalPin
    BY Zenon, RowFacts DEF CanonicalPin, RowOK, RowPin
  <1> QED BY <1>1, Invariance, PTL

=============================================================================
