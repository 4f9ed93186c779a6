------------------------ MODULE CollectorMoneyProofs ------------------------
(***************************************************************************)
(* Proofs about what CollectorJournal promises and about its money, from   *)
(* the step lemmas of CollectorJournalProofs.                              *)
(*                                                                         *)
(* The types of the journal give Computed, what the layout takes from sums *)
(* and from maxima of finite sets; with it the layout is an invariant, and *)
(* the journal implements TransferJournal.  WithinShares (what every       *)
(* operation that is or may become paid drew on a receipt stays within the *)
(* bucket's share) and Backed (the claim that can still land leaves the    *)
(* retained stake) build on the layout; they give SharesPaid and           *)
(* RetainedKept.                                                           *)
(***************************************************************************)
EXTENDS CollectorJournalProofs, SumTheorems

-----------------------------------------------------------------------------
(* What the layout takes from finite sets of numbers. *)

(* A nonempty set of positions has its maximum. *)
LEMMA MaxPosition ==
    ASSUME NEW n \in Nat, NEW S \in SUBSET (1..n), S # {}
    PROVE  Max(S) \in S /\ \A y \in S : y <= Max(S)
  <1>1. PICK x \in S : \A y \in S : y <= x
    BY Zenon, GreatestPosition
  <1>2. \E z \in S : \A y \in S : z >= y
    BY Zenon, <1>1
  <1>3. Max(S) \in S /\ \A y \in S : Max(S) >= y
    BY Zenon, <1>2 DEF Max
  <1> QED BY Zenon, <1>3

(* A nonempty set of naturals has its minimum. *)
LEMMA MinNatural ==
    ASSUME NEW S \in SUBSET Nat, S # {}
    PROVE  Min(S) \in S /\ \A y \in S : Min(S) <= y
  <1>1. PICK x \in S : \A y \in S : x <= y
    BY Zenon, LeastNatural
  <1>2. \E z \in S : \A y \in S : z =< y
    BY Zenon, <1>1
  <1> QED BY Zenon, <1>2 DEF Min

(* The intent in force is the last that is open, if one is. *)
LEMMA IntentFacts ==
    ASSUME EventTypes
    PROVE  /\ Intent = NONE <=> Open = {}
           /\ Intent # NONE =>
                \E k \in Open : Intent = manual[k] /\ \A j \in Open : j <= k
  <1>1. CASE Open = {}
    BY Zenon, <1>1 DEF Intent
  <1>2. CASE Open # {}
    <2>1. Max(Open) \in Open /\ \A j \in Open : j <= Max(Open)
      BY Zenon, <1>2, ManualFacts, MaxPosition
    <2>2. Intent = manual[Max(Open)]
      BY Zenon, <1>2 DEF Intent
    <2>3. manual[Max(Open)] # NONE
      BY Zenon, <2>1, ManualFacts DEF Open
    <2> QED BY Zenon, <1>2, <2>1, <2>2, <2>3
  <1> QED BY Zenon, <1>1, <1>2

(* The split of a receipt between the buckets. *)
LEMMA EntitledType ==
    ASSUME NEW s \in Blocks, NEW b \in Buckets
    PROVE  Entitled[s][b] \in Nat
  <1>1. Buckets = 1..Len(Bps) /\ Len(Bps) \in Nat /\ \A c \in Buckets : Bps[c] \in Nat
    BY PolicyAssumption DEF Buckets
  <1>2. IsFiniteSet(Buckets)
    BY <1>1, FS_Interval
  <1>3. TotalBps \in Nat /\ TotalBps > 0
    <2>1. SumFunctionOnSet(Bps, Buckets) \in Nat
      BY Zenon, <1>1, <1>2, SumNat
    <2> QED BY Zenon, <2>1, PolicyAssumption DEF TotalBps
  <1>4. Earned[s] \in Nat
    BY Zenon, BlockAssumption
  <1>5. Earned[s] * Bps[b] \in Nat
    BY <1>1, <1>4
  <1>6. Floor(Earned[s], b) \in Nat
    BY <1>3, <1>5 DEF Floor
  <1>7. Share(Earned[s], b) \in Nat
    BY <1>6 DEF Share
  <1> QED BY Zenon, <1>7 DEF Entitled

(* What the journal attributes to an operation. *)
LEMMA TookType ==
    ASSUME TypeOK, EventTypes, NEW i \in Ids, NEW s
    PROVE  Took(i, s) \in Nat
  <1>1. ops[i].amount \in Nat
    BY Zenon, RowFacts DEF OpRow
  <1>2. CASE BatchOf(i) = {}
    BY Zenon, <1>1, <1>2 DEF Took
  <1>3. CASE BatchOf(i) # {}
    <2>1. PICK k \in BatchOf(i) : k = CHOOSE j \in BatchOf(i) : TRUE
      BY Zenon, <1>3
    <2>2. manual[k] \in ManualRow
      BY Zenon, ManualFacts DEF BatchOf
    <2>3. s \in DOMAIN manual[k].sources => manual[k].sources[s] \in Nat
      BY Zenon, <2>2 DEF ManualRow
    <2>4. Took(i, s) = IF s \in DOMAIN manual[k].sources THEN manual[k].sources[s] ELSE 0
      BY Zenon, <1>3, <2>1 DEF Took
    <2> QED BY <2>3, <2>4
  <1> QED BY Zenon, <1>2, <1>3

(* What is left of a bucket's share. *)
LEMMA RemainingType ==
    ASSUME TypeOK, EventTypes, NEW s \in Blocks, NEW b \in Buckets
    PROVE  Remaining(s, b) \in Int
  <1> DEFINE T == {i \in SourceOps(s) : ops[i].bucket = b}
             f == [i \in Ids |-> Took(i, s)]
  <1>1. IsFiniteSet(Ids) /\ T \in SUBSET Ids
    BY RowFacts, FS_Interval DEF SourceOps
  <1>2. IsFiniteSet(T)
    BY Zenon, <1>1, FS_Subset
  <1>3. \A i \in T : f[i] \in Nat
    BY Zenon, <1>1, TookType
  <1>4. SumFunctionOnSet(f, T) \in Nat
    <2> HIDE DEF f, T
    <2> QED BY Zenon, <1>2, <1>3, SumNat
  <1>5. Remaining(s, b) = Entitled[s][b] - SumFunctionOnSet(f, T)
    BY Zenon DEF Remaining
  <1> QED BY <1>4, <1>5, EntitledType

(* A request an operator writes is a row that names its first receipt; a   *)
(* single transfer takes all of its amount from it.                        *)
LEMMA RequestFacts ==
    ASSUME TypeOK, NEW id \in RequestIds, NEW b \in Buckets, NEW claims \in Claims,
           NEW floor \in RetainedFloors, NEW expires \in head+1 .. head+ArmWindow, NEW batch \in BOOLEAN,
           batch \/ Cardinality(DOMAIN claims) = 1,
           NEW m, m = RequestOf(id, b, claims, floor, expires, batch)
    PROVE  /\ m \in ManualRow /\ ~m.closed /\ m.id = id
           /\ m.source \in DOMAIN m.sources /\ DOMAIN m.sources \subseteq Blocks
           /\ m.amount = SumFunctionOnSet(m.sources, DOMAIN m.sources)
           /\ \A s \in DOMAIN m.sources : m.sources[s] \in 1..ManualCeiling
           /\ ~m.batch => m.sources = [s \in {m.source} |-> m.amount]
  <1>1. PICK S \in SUBSET Blocks : S # {} /\ claims \in [S -> 1..ManualCeiling]
    BY Zenon DEF Claims
  <1>2. /\ m.id = id /\ m.after = Len(ops) /\ m.bucket = b /\ m.source = Min(DOMAIN claims)
        /\ m.amount = SumFunctionOnSet(claims, DOMAIN claims) /\ m.retained = floor
        /\ m.expires = expires /\ m.batch = batch /\ m.sources = claims /\ m.closed = FALSE
    BY Zenon DEF RequestOf
  <1>3. DOMAIN claims = S /\ IsFiniteSet(S) /\ Min(S) \in S
    <2>1. S \in SUBSET Nat /\ IsFiniteSet(Blocks)
      BY BlockAssumption, FS_Interval DEF Blocks
    <2> QED BY Zenon, <1>1, <2>1, FS_Subset, MinNatural
  <1>4. SumFunctionOnSet(claims, S) \in Nat
    <2>1. \A s \in S : claims[s] \in Nat
      BY <1>1, BlockAssumption
    <2> QED BY Zenon, <1>3, <2>1, SumNat
  <1>5. m \in ManualRow
    <2>1. Len(ops) \in Nat /\ expires \in Nat /\ floor \in Nat
      BY RowFacts, PolicyAssumption
    <2>2. claims \in UNION {[T -> Nat] : T \in SUBSET Blocks}
      <3>1. claims \in [S -> Nat]
        BY <1>1, BlockAssumption
      <3> QED BY Zenon, <3>1
    <2> QED BY Zenon, <1>3, <1>4, <2>1, <2>2 DEF RequestOf, ManualRow
  <1>6. ~m.batch => m.sources = [s \in {m.source} |-> m.amount]
    <2> SUFFICES ASSUME ~m.batch PROVE claims = [s \in {Min(S)} |-> SumFunctionOnSet(claims, S)]
      BY <1>2, <1>3
    <2>1. PICK x : S = {x}
      BY Zenon, <1>2, <1>3, FS_Singleton
    <2>2. Min(S) = x
      BY Zenon, <1>3, <2>1
    <2>3. SumFunctionOnSet(claims, S) = claims[x]
      <3>1. Values(claims, S) /\ x \in S /\ S \ {x} = {} /\ claims[x] \in Nat
        BY <1>1, <2>1, BlockAssumption DEF Values
      <3>2. SumFunctionOnSet(claims, S) = claims[x] + SumFunctionOnSet(claims, S \ {x})
        BY <1>3, <3>1, SumRemove
      <3> QED BY SMTT(30), <3>1, <3>2, SumEmpty
    <2> QED BY Zenon, <1>1, <2>1, <2>2, <2>3
  <1> QED BY Zenon, <1>1, <1>2, <1>3, <1>5, <1>6

(* There are finitely many operations after a step too. *)
LEMMA IdsPrimed ==
    ASSUME TypeOK'
    PROVE  IsFiniteSet(Ids')
  <1>1. Len(ops') \in Nat /\ Ids' = 1..Len(ops')
    BY DEF TypeOK, Ids
  <1> QED BY <1>1, FS_Interval

(* The types of the journal give what its steps compute with. *)
LEMMA Computes ==
    ASSUME TypeOK, Layout
    PROVE  Computed
  <1>1. EventTypes
    BY Zenon DEF Layout
  <1>2. IntentIsLast
    BY Zenon, <1>1, IntentFacts DEF IntentIsLast
  <1>3. RequestsFit
    <2> SUFFICES ASSUME NEW id \in RequestIds, NEW b \in Buckets, NEW claims \in Claims,
                        NEW floor \in RetainedFloors, NEW expires \in head+1 .. head+ArmWindow,
                        NEW batch \in BOOLEAN, NEW m,
                        batch \/ Cardinality(DOMAIN claims) = 1,
                        m = RequestOf(id, b, claims, floor, expires, batch)
                 PROVE  m \in ManualRow /\ ~m.closed /\ (~m.batch => m.sources = [s \in {m.source} |-> m.amount])
      BY DEF RequestsFit
    <2> QED BY RequestFacts
  <1>4. \A s \in Blocks, b \in Buckets : Remaining(s, b) \in Int
    BY Zenon, <1>1, RemainingType
  <1> QED BY Zenon, <1>2, <1>3, <1>4 DEF Computed

(* A set within a singleton, and the least of a set of positions. *)
LEMMA SmallSetsHold == SmallSets
  <1>1. ASSUME NEW x, NEW S \in SUBSET {x} PROVE Cardinality(S) <= 1
    <2>1. IsFiniteSet({x}) /\ Cardinality({x}) = 1
      BY Zenon, FS_Singleton
    <2>2. Cardinality(S) <= Cardinality({x})
      BY Zenon, <2>1, FS_Subset
    <2>3. Cardinality(S) \in Nat
      BY Zenon, <2>1, FS_Subset, FS_CardinalityType
    <2> QED BY Zenon, <2>1, <2>2, <2>3
  <1>2. ASSUME NEW S \in SUBSET Nat, S # {} PROVE Min(S) \in S /\ \A y \in S : Min(S) <= y
    BY Zenon, <1>2, MinNatural
  <1> QED BY <1>1, <1>2, Zenon DEF SmallSets

-----------------------------------------------------------------------------
(* The layout, and what it shows. *)

(* The layout holds in every state of the collector. *)
THEOREM LayoutInvariance == Spec => []Layout
  <1>1. Init => Layout
    <2> SUFFICES ASSUME Init PROVE Layout
      BY Zenon
    <2>1. Ids = {} /\ Open = {} /\ DOMAIN manual = {}
      BY DEF Init, Ids, Open
    <2>2. EventTypes /\ Events
      BY DEF Init, EventTypes, Events, Replacement
    <2> QED BY Zenon, <2>1, <2>2 DEF Layout
  <1>2. IInv /\ Layout /\ IInv' /\ [Next]_vars => Layout'
    <2>1. IInv /\ Layout => Computed
      BY Zenon, Computes DEF IInv
    <2> QED BY Zenon, <2>1, LayoutStep
  <1> QED BY <1>1, <1>2, Invariance, PTL DEF Spec

(* source_operations: whatever requests were armed, expired and signed in  *)
(* between, the journal attributes every operation to the receipts it was  *)
(* signed for, signs a request once, and never one it has closed.          *)
THEOREM Attributed == Spec => []IntentAttributed
  BY LayoutAttributes, LayoutInvariance, TypeCorrect, PTL

(* manual_transfer_history, transfer_canary: the history this code writes  *)
(* passes the validation every later command starts with, except after a   *)
(* manual claim was replaced as if it were the canary.                     *)
THEOREM Accepted == Spec => []HistoryReadable
  <1>1. TypeOK /\ Layout => HistoryReadable
    BY Zenon, LayoutReadable, SmallSetsHold
  <1> QED BY <1>1, LayoutInvariance, TypeCorrect, PTL

(* transfer_canary: an armed canary, replaced or not, lets the collector   *)
(* pay one claim that no request names, within the ceiling it was given,   *)
(* for every policy and however often the collector is started.            *)
THEOREM OneCanaryClaim == Spec => []CanaryBounded
  BY LayoutBounds, LayoutInvariance, Invariance, PTL

(* arm_manual_transfer, tick, reconcile and expire_unsigned_manual keep,   *)
(* for every policy, chain and set of requests, the promise the mailbox    *)
(* worker relies on: a request is armed once and only when no other one    *)
(* stands, signed once and in its window, pays only while its transfer is  *)
(* outstanding, and is recorded as the chain decided.                      *)
THEOREM Implements == Spec => ImplementsJournal
  <1>1. Init => Journal!Init
    <2> SUFFICES ASSUME Init PROVE Journal!Init
      BY Zenon
    <2>1. Ids = {} /\ DOMAIN manual = {}
      BY DEF Init, Ids
    <2> QED BY Zenon, <2>1 DEF Journal!Init, IntentOf, ClaimOf, LateOf, PaidOf
  <1>2. IInv /\ Layout /\ IntentAttributed /\ Mapped /\ IInv' /\ Mapped' /\ [Next]_vars
        => [Journal!Next]_(Journal!vars)
    <2>1. IInv /\ Layout => Computed
      BY Zenon, Computes DEF IInv
    <2> QED BY Zenon, <2>1, StepMaps
  <1>3. TypeOK /\ Layout /\ IntentAttributed => Mapped
    BY Zenon, MappedHolds
  <1>4. Spec => [](IInv /\ Layout /\ IntentAttributed /\ Mapped)
    BY <1>3, Invariance, TypeCorrect, LayoutInvariance, Attributed, PTL
  <1> QED BY <1>1, <1>2, <1>4, PTL DEF Spec, ImplementsJournal, Journal!Spec

-----------------------------------------------------------------------------
(* No bucket of a receipt is paid more than its share.                     *)
(*                                                                         *)
(* What was paid is not inductive: a transfer recorded while an earlier    *)
(* one was still outstanding would overpay only blocks later.  What was    *)
(* drawn by operations that are paid or may still be is.                   *)

LiveOps(b) == {i \in Ids : ops[i].state \in {"dispatching", "finalized"} /\ ops[i].bucket = b}
PaidOps(b) == {i \in Ids : fate[i].outcome = "paid" /\ ops[i].bucket = b}
Draws(s) == [i \in Ids |-> Drew(i, s)]
Taken(s, b) == SumFunctionOnSet(Draws(s), LiveOps(b))

WithinShares == \A s \in Blocks, b \in Buckets : Taken(s, b) <= Entitled[s][b]

(* What each operation drew, in terms of the one request that names it. *)
Drawn ==
    /\ \A j, k \in DOMAIN manual : manual[j].id = manual[k].id => j = k
    /\ \A i \in Ids, s \in Blocks :
         /\ Drew(i, s) \in Nat
         /\ ops[i].by = NONE => Drew(i, s) = IF ops[i].source = s THEN ops[i].amount ELSE 0
         /\ ops[i].by # NONE => \E k \in DOMAIN manual :
              /\ manual[k].id = ops[i].by
              /\ Drew(i, s) = IF s \in DOMAIN manual[k].sources THEN manual[k].sources[s] ELSE 0

(* What no step does to an operation, its fate or a request. *)
Grows ==
    /\ \A i \in Ids :
         /\ i \in Ids' /\ ops'[i].by = ops[i].by /\ ops'[i].amount = ops[i].amount
         /\ ops'[i].source = ops[i].source /\ ops'[i].bucket = ops[i].bucket
         /\ ops[i].state # "dispatching" => ops'[i].state = ops[i].state
         /\ fate[i].outcome = "paid" => fate'[i].outcome = "paid"
    /\ \A k \in DOMAIN manual :
         /\ k \in DOMAIN manual' /\ manual'[k].id = manual[k].id
         /\ manual'[k].sources = manual[k].sources /\ manual'[k].retained = manual[k].retained

(* Every step leaves what was recorded in place. *)
LEMMA GrowsOK ==
    ASSUME IInv, Layout, IInv', [Next]_vars
    PROVE  Grows
  <1>1. TypeOK /\ TypeOK'
    BY Zenon DEF IInv
  <1>2. ASSUME UNCHANGED <<ops, fate>> 
        PROVE  \A i \in Ids :
                 /\ i \in Ids' /\ ops'[i].by = ops[i].by /\ ops'[i].amount = ops[i].amount
                 /\ ops'[i].source = ops[i].source /\ ops'[i].bucket = ops[i].bucket
                 /\ ops[i].state # "dispatching" => ops'[i].state = ops[i].state
                 /\ fate[i].outcome = "paid" => fate'[i].outcome = "paid"
    BY Zenon, <1>2 DEF Ids
  <1>3. ASSUME UNCHANGED <<ops, fate, manual>> PROVE Grows
    BY Zenon, <1>2, <1>3 DEF Grows
  <1>4. ASSUME NEW c, NEW r, TickReconcile(c, r) PROVE Grows
    <2>1. PICK i \in Pending : ops' = IF Verdict(i) = "pending" THEN [ops EXCEPT ![i].through = ScanEnd(i)]
                                      ELSE [ops EXCEPT ![i].state = Verdict(i)]
      BY Zenon, <1>4 DEF TickReconcile
    <2>2. UNCHANGED <<manual, fate>>
      BY Zenon, <1>4 DEF TickReconcile, chain
    <2>3. i \in Ids /\ ops[i].state = "dispatching" /\ \A j \in Ids : ops[j] \in OpRow
      BY Zenon, <1>1, RowFacts DEF Pending
    <2>4. ASSUME NEW j \in Ids
          PROVE  /\ j \in Ids' /\ ops'[j].by = ops[j].by /\ ops'[j].amount = ops[j].amount
                 /\ ops'[j].source = ops[j].source /\ ops'[j].bucket = ops[j].bucket
                 /\ ops[j].state # "dispatching" => ops'[j].state = ops[j].state
      BY Zenon, <2>1, <2>3 DEF OpRow, Ids
    <2> QED BY Zenon, <2>2, <2>4 DEF Grows
  <1>5. ASSUME NEW s, NEW b, NEW amount, NEW ceiling, NEW by, Reserve(s, b, amount, ceiling, by) PROVE Grows
    <2>1. \A i \in Ids : i \in Ids' /\ ops'[i] = ops[i]
      BY <1>1, <1>5, ReserveFacts
    <2>2. \A i \in Ids : fate'[i] = fate[i]
      BY Zenon, <1>1, <1>5, FateKept
    <2>3. manual' = manual
      BY Zenon, <1>5 DEF Reserve
    <2> QED BY Zenon, <2>1, <2>2, <2>3 DEF Grows
  <1>6. ASSUME Tick PROVE Grows
    <2>1. ASSUME NEW c, TickObserve(c) \/ TickSpacing(c) \/ TickComplete(c) PROVE Grows
      BY Zenon, <1>3, <2>1 DEF TickObserve, TickSpacing, TickComplete, chain
    <2>2. ASSUME NEW c, TickDistribute(c) PROVE Grows
      <3>1. \E s \in Blocks : \E b \in First(OpenBuckets(s)) : \E amount \in
               {IF ArmedCanary(c) = NONE THEN Remaining(s, b)
                ELSE Min({Remaining(s, b), Bound(ArmedCanary(c)).max})} :
               Reserve(s, b, amount, MaxDistribution, NONE)
        BY <2>2, Zenon DEF TickDistribute
      <3> QED BY Zenon, <1>5, <3>1
    <2>3. ASSUME NEW r, TickManual(r) \/ TickBatch(r) PROVE Grows
      BY Zenon, <1>5, <2>3 DEF TickManual, TickBatch
    <2> QED BY <1>4, <1>6, <2>1, <2>2, <2>3, Zenon DEF Tick
  <1>7. ASSUME NEW m, ArmManual(m) PROVE Grows
    <2>1. manual' = Append(manual, m) /\ UNCHANGED <<ops, fate>>
      BY Zenon, <1>7 DEF ArmManual, chain
    <2>2. manual \in Seq(ManualRow \cup {m}) /\ Len(manual) \in Nat /\ DOMAIN manual = 1..Len(manual)
      <3>1. manual \in Seq(ManualRow)
        BY Zenon DEF Layout, EventTypes
      <3> QED BY <3>1
    <2>3. /\ manual' \in Seq(ManualRow \cup {m}) /\ Len(manual') = Len(manual) + 1
          /\ \A k \in 1..Len(manual) : manual'[k] = manual[k]
      BY <2>1, <2>2
    <2>4. DOMAIN manual' = 1..(Len(manual) + 1)
      BY <2>3
    <2>5. \A k \in DOMAIN manual : k \in DOMAIN manual' /\ manual'[k] = manual[k]
      BY <2>2, <2>3, <2>4
    <2> QED BY Zenon, <1>2, <2>1, <2>5 DEF Grows
  <1>8. ASSUME ExpireUnsigned PROVE Grows
    <2>1. UNCHANGED <<ops, fate>> /\ DOMAIN manual' = DOMAIN manual
      BY Zenon, <1>8 DEF ExpireUnsigned, chain
    <2>2. ASSUME NEW k \in DOMAIN manual
          PROVE  /\ manual'[k].id = manual[k].id /\ manual'[k].sources = manual[k].sources
                 /\ manual'[k].retained = manual[k].retained
      <3>1. manual[k] \in ManualRow
        BY Zenon, ManualFacts DEF Layout
      <3>2. manual'[k] = manual[k] \/ manual'[k] = [manual[k] EXCEPT !.closed = TRUE]
        BY Zenon, <1>8 DEF ExpireUnsigned
      <3> QED BY Zenon, <3>1, <3>2 DEF ManualRow
    <2> QED BY Zenon, <1>2, <2>1, <2>2 DEF Grows
  <1>9. ASSUME Operator PROVE Grows
    <2>1. ASSUME NEW n, ObserveEarnings(n) PROVE Grows
      BY Zenon, <1>3, <2>1 DEF ObserveEarnings, chain
    <2>2. ASSUME NEW s, ObserveEarningSource(s) PROVE Grows
      BY Zenon, <1>3, <2>2 DEF ObserveEarningSource, chain
    <2>3. ASSUME NEW max, ReplaceFailedCanary(max) PROVE Grows
      BY Zenon, <1>3, <2>3 DEF ReplaceFailedCanary, chain
    <2> QED BY <1>7, <1>8, <1>9, <2>1, <2>2, <2>3, Zenon DEF Operator
  <1>10. ASSUME NextBlock PROVE Grows
    <2>1. UNCHANGED <<ops, manual>>
      BY Zenon, <1>10 DEF NextBlock, journal
    <2>2. PICK landed \in SUBSET Landable : \E outcome \in [landed -> {"paid", "failed", "toolow"}] :
            fate' = [i \in Ids |-> IF i \in landed
                                   THEN [outcome |-> outcome[i], block |-> head + 1]
                                   ELSE fate[i]]
      BY Zenon, <1>10 DEF NextBlock
    <2>3. \A i \in Ids : i \notin landed => fate'[i] = fate[i]
      BY Zenon, <2>2
    <2>4. \A i \in landed : fate[i].outcome = "none"
      BY Zenon, <2>2 DEF Landable
    <2> QED BY Zenon, <2>1, <2>3, <2>4 DEF Grows, Ids
  <1>11. ASSUME NEW i, Broadcast(i) \/ LoseBroadcast(i) PROVE Grows
    BY Zenon, <1>3, <1>11 DEF Broadcast, LoseBroadcast, journal
  <1>12. ASSUME UNCHANGED vars PROVE Grows
    BY Zenon, <1>3, <1>12 DEF vars, journal, chain
  <1> QED BY <1>6, <1>9, <1>10, <1>11, <1>12, Zenon DEF Next, Network

(* What an operation drew never changes. *)
LEMMA DrewStays ==
    ASSUME Drawn, Drawn', Grows, NEW i \in Ids, NEW s \in Blocks
    PROVE  Drew(i, s)' = Drew(i, s)
  <1>1. i \in Ids' /\ ops'[i].by = ops[i].by /\ ops'[i].amount = ops[i].amount /\ ops'[i].source = ops[i].source
    BY Zenon DEF Grows
  <1>2. CASE ops[i].by = NONE
    <2>1. Drew(i, s) = IF ops[i].source = s THEN ops[i].amount ELSE 0
      BY Zenon, <1>2 DEF Drawn
    <2>2. Drew(i, s)' = IF ops'[i].source = s THEN ops'[i].amount ELSE 0
      BY ZenonT(60), <1>1, <1>2 DEF Drawn
    <2> QED BY Zenon, <1>1, <2>1, <2>2
  <1>3. CASE ops[i].by # NONE
    <2>1. PICK k \in DOMAIN manual :
              /\ manual[k].id = ops[i].by
              /\ Drew(i, s) = IF s \in DOMAIN manual[k].sources THEN manual[k].sources[s] ELSE 0
      BY Zenon, <1>3 DEF Drawn
    <2>2. PICK j \in DOMAIN manual' :
              /\ manual'[j].id = ops'[i].by
              /\ Drew(i, s)' = IF s \in DOMAIN manual'[j].sources THEN manual'[j].sources[s] ELSE 0
      BY Zenon, <1>1, <1>3 DEF Drawn
    <2>3. k \in DOMAIN manual' /\ manual'[k].id = manual[k].id /\ manual'[k].sources = manual[k].sources
      BY Zenon DEF Grows
    <2>4. j = k
      BY <1>1, <2>1, <2>2, <2>3 DEF Drawn
    <2> QED BY Zenon, <2>1, <2>2, <2>3, <2>4
  <1> QED BY Zenon, <1>2, <1>3

(* The sums are over finitely many naturals. *)
LEMMA DrawFacts ==
    ASSUME TypeOK, Drawn, NEW s \in Blocks, NEW T \in SUBSET Ids
    PROVE  /\ IsFiniteSet(T) /\ \A i \in T : Draws(s)[i] = Drew(i, s) /\ Draws(s)[i] \in Nat
           /\ Values(Draws(s), T) /\ SumFunctionOnSet(Draws(s), T) \in Nat
  <1>1. IsFiniteSet(T)
    <2>1. IsFiniteSet(Ids)
      BY RowFacts, FS_Interval
    <2> QED BY Zenon, <2>1, FS_Subset
  <1>2. \A i \in T : Draws(s)[i] = Drew(i, s) /\ Draws(s)[i] \in Nat
    BY Zenon DEF Draws, Drawn
  <1>3. Values(Draws(s), T)
    BY <1>2 DEF Values
  <1> QED BY Zenon, <1>1, <1>2, <1>3, SumNat

(* The same operations drew the same before and after a step. *)
LEMMA SumStays ==
    ASSUME TypeOK, TypeOK', Drawn, Drawn', Grows, NEW s \in Blocks, NEW T \in SUBSET Ids
    PROVE  /\ SumFunctionOnSet(Draws(s)', T) = SumFunctionOnSet(Draws(s), T)
           /\ \A U \in SUBSET Ids' : T \subseteq U =>
                SumFunctionOnSet(Draws(s)', T) <= SumFunctionOnSet(Draws(s)', U)
  <1>1. \A i \in Ids : i \in Ids'
    BY Zenon DEF Grows
  <1>2. \A i \in Ids' : Draws(s)'[i] = Drew(i, s)' /\ Draws(s)'[i] \in Nat
    BY Zenon DEF Draws, Drawn
  <1>3. IsFiniteSet(T) /\ Values(Draws(s), T) /\ \A i \in T : Draws(s)[i] = Drew(i, s)
    BY Zenon, DrawFacts
  <1>4. \A i \in T : Draws(s)[i] = Draws(s)'[i]
    BY Zenon, <1>1, <1>2, <1>3, DrewStays
  <1>5. PICK g : g = Draws(s)'
    BY Zenon
  <1>6. SumFunctionOnSet(g, T) = SumFunctionOnSet(Draws(s), T)
    BY ZenonT(60), <1>3, <1>4, <1>5, SumSame
  <1>7. ASSUME NEW U \in SUBSET Ids', T \subseteq U
        PROVE  SumFunctionOnSet(g, T) <= SumFunctionOnSet(g, U)
    <2>1. IsFiniteSet(U)
      BY Zenon, IdsPrimed, FS_Subset
    <2>2. \A i \in U : g[i] \in Nat
      BY Zenon, <1>2, <1>5
    <2> QED BY Zenon, <1>7, <2>1, <2>2, SumSubset
  <1> QED BY Zenon, <1>5, <1>6, <1>7

(* Live operations stay within the shares in every state. *)
THEOREM SharesInvariance == Spec => [](IInv /\ Layout /\ Drawn /\ WithinShares)
  (* The layout says what each operation drew. *)
  <1>DrawnHolds.
      ASSUME TypeOK, Layout
      PROVE  Drawn
    <2> USE <1>DrawnHolds
    <2>1. \A j, k \in DOMAIN manual : manual[j].id = manual[k].id => j = k
      BY Zenon, UniqueRequest
    <2>2. ASSUME NEW i \in Ids, NEW s \in Blocks PROVE Drew(i, s) \in Nat
      <3>1. Took(i, s) \in Nat
        BY Zenon, TookType DEF Layout
      <3>2. Took(i, s) = Drew(i, s)
        BY Zenon, Attribution
      <3> QED BY Zenon, <3>1, <3>2
    <2>3. ASSUME NEW i \in Ids, NEW s \in Blocks, ops[i].by = NONE
          PROVE  Drew(i, s) = IF ops[i].source = s THEN ops[i].amount ELSE 0
      BY Zenon, <2>3 DEF Drew
    <2>4. ASSUME NEW i \in Ids, NEW s \in Blocks, ops[i].by # NONE
          PROVE  \E k \in DOMAIN manual :
                   /\ manual[k].id = ops[i].by
                   /\ Drew(i, s) = IF s \in DOMAIN manual[k].sources THEN manual[k].sources[s] ELSE 0
      <3> DEFINE named == CHOOSE j \in DOMAIN manual : manual[j].id = ops[i].by
      <3>1. Drew(i, s) = IF s \in DOMAIN manual[named].sources THEN manual[named].sources[s] ELSE 0
        BY Zenon, <2>4 DEF Drew
      <3>2. \E k \in Open : manual[k].id = ops[i].by
        BY Zenon, <2>4 DEF Layout, Signed
      <3>3. named \in DOMAIN manual /\ manual[named].id = ops[i].by
        BY Zenon, <3>2 DEF Open
      <3> HIDE DEF named
      <3> QED BY Zenon, <3>1, <3>3
    <2> QED BY Zenon, <2>1, <2>2, <2>3, <2>4 DEF Drawn
  (* remaining_distribution leaves no more than live operations left. *)
  <1>TakenBelow.
      ASSUME TypeOK, Layout, Drawn, NEW s \in Blocks, NEW b \in Buckets
      PROVE  Taken(s, b) + Remaining(s, b) <= Entitled[s][b]
    <2> USE <1>TakenBelow
    <2> DEFINE T == {i \in SourceOps(s) : ops[i].bucket = b}
               f == [i \in Ids |-> Took(i, s)]
               L == {i \in LiveOps(b) : Drew(i, s) > 0}
    <2>1. \A i \in Ids : f[i] = Drew(i, s) /\ f[i] \in Nat
      BY Attribution DEF Drawn
    <2>2. L \in SUBSET LiveOps(b) /\ LiveOps(b) \in SUBSET Ids /\ T \in SUBSET Ids
      BY Zenon DEF LiveOps, SourceOps
    <2>3. L \in SUBSET T
      <3> SUFFICES ASSUME NEW i \in L PROVE i \in T
        BY Zenon
      <3>1. i \in Ids /\ ops[i].state \in {"dispatching", "finalized"} /\ ops[i].bucket = b /\ Drew(i, s) > 0
        BY Zenon DEF LiveOps
      <3>2. replaced # NONE => i # replaced.after
        <4>1. replaced # NONE => ops[replaced.after].state = "failed"
          BY Zenon DEF Layout, Events
        <4> QED BY Zenon, <3>1, <4>1
      <3>3. Took(i, s) > 0
        BY Zenon, <3>1, Attribution
      <3> QED BY Zenon, <3>1, <3>2, <3>3 DEF SourceOps
    <2>4. \A i \in LiveOps(b) \ L : Draws(s)[i] = 0
      <3>1. \A i \in LiveOps(b) : Draws(s)[i] = Drew(i, s) /\ Draws(s)[i] \in Nat
        BY Zenon, <2>2, DrawFacts
      <3> QED BY <3>1
    <2>5. Remaining(s, b) = Entitled[s][b] - SumFunctionOnSet(f, T)
      BY Zenon DEF Remaining
    <2>6. \A i \in L : f[i] = Draws(s)[i]
      BY Zenon, <2>1, <2>2 DEF Draws
    <2>7. \A i \in T : f[i] \in Nat
      BY Zenon, <2>1, <2>2
    <2> HIDE DEF f, T, L
    <2>8. /\ IsFiniteSet(LiveOps(b)) /\ Values(Draws(s), LiveOps(b))
          /\ IsFiniteSet(L) /\ Values(Draws(s), L) /\ IsFiniteSet(T)
      <3>1. L \in SUBSET Ids
        BY Zenon, <2>2
      <3> QED BY Zenon, <2>2, <3>1, DrawFacts
    <2>9. SumFunctionOnSet(Draws(s), LiveOps(b)) = SumFunctionOnSet(Draws(s), L)
      BY Zenon, <2>2, <2>4, <2>8, SumSupport
    <2>10. SumFunctionOnSet(Draws(s), L) = SumFunctionOnSet(f, L)
      BY ZenonT(60), <2>6, <2>8, SumSame
    <2>11. SumFunctionOnSet(f, L) <= SumFunctionOnSet(f, T)
      BY Zenon, <2>3, <2>7, <2>8, SumSubset
    <2>12. SumFunctionOnSet(f, T) \in Nat /\ SumFunctionOnSet(f, L) \in Nat
      <3>1. \A i \in L : f[i] \in Nat
        BY Zenon, <2>3, <2>7
      <3> QED BY Zenon, <2>7, <2>8, <3>1, SumNat
    <2>13. Entitled[s][b] \in Nat
      BY Zenon, EntitledType
    <2> QED BY SMTT(30), <2>5, <2>9, <2>10, <2>11, <2>12, <2>13 DEF Taken
  (* Settling or keeping operations draws nothing more. *)
  <1>KeepShares.
      ASSUME TypeOK, TypeOK', Drawn, Drawn', Grows, WithinShares, Ids' = Ids
      PROVE  WithinShares'
    <2> USE <1>KeepShares
    <2> SUFFICES ASSUME NEW s \in Blocks, NEW b \in Buckets PROVE Taken(s, b)' <= Entitled[s][b]
      BY Zenon DEF WithinShares, Entitled, Share, Blocks, Buckets
    <2>1. LiveOps(b)' \in SUBSET LiveOps(b)
      BY Zenon DEF LiveOps, Grows
    <2>2. LiveOps(b) \in SUBSET Ids /\ LiveOps(b)' \in SUBSET Ids
      BY Zenon, <2>1 DEF LiveOps
    <2>3. SumFunctionOnSet(Draws(s)', LiveOps(b)') = SumFunctionOnSet(Draws(s), LiveOps(b)')
      BY Zenon, <2>2, SumStays
    <2>4. SumFunctionOnSet(Draws(s), LiveOps(b)') <= SumFunctionOnSet(Draws(s), LiveOps(b))
      <3>1. IsFiniteSet(LiveOps(b)) /\ \A i \in LiveOps(b) : Draws(s)[i] \in Nat
        BY Zenon, <2>2, DrawFacts
      <3> QED BY Zenon, <2>1, <3>1, SumSubset
    <2>5. Taken(s, b)' = SumFunctionOnSet(Draws(s)', LiveOps(b)')
      BY Zenon DEF Taken
    <2>6. Taken(s, b) <= Entitled[s][b] /\ Taken(s, b) = SumFunctionOnSet(Draws(s), LiveOps(b))
      BY Zenon DEF WithinShares, Taken
    <2>7. /\ SumFunctionOnSet(Draws(s), LiveOps(b)) \in Nat /\ SumFunctionOnSet(Draws(s), LiveOps(b)') \in Nat
          /\ Entitled[s][b] \in Nat
      BY Zenon, <2>2, DrawFacts, EntitledType
    <2> QED BY <2>3, <2>4, <2>5, <2>6, <2>7
  (* A recorded operation draws at most what remains of a share. *)
  <1>DrawShares.
      ASSUME TypeOK, TypeOK', Layout, Drawn, Drawn', Grows, WithinShares,
             NEW s0, NEW b0, NEW amount, NEW ceiling, NEW by, Reserve(s0, b0, amount, ceiling, by),
             NEW new \in Nat, new = Len(ops) + 1,
             \A s \in Blocks : Drew(new, s)' = 0 \/ Drew(new, s)' <= Remaining(s, b0)
      PROVE  WithinShares'
    <2> USE <1>DrawShares
    <2> SUFFICES ASSUME NEW s \in Blocks, NEW b \in Buckets PROVE Taken(s, b)' <= Entitled[s][b]
      BY Zenon DEF WithinShares, Entitled, Share, Blocks, Buckets
    <2>1. PICK n \in Nat :
          /\ n = Len(ops) /\ new = n + 1 /\ Ids = 1..n /\ Ids' = 1..(n + 1)
          /\ \A i \in Ids : ops'[i] = ops[i]
          /\ ops'[n + 1].bucket = b0
      BY Zenon, ReserveFacts
    <2>2. LiveOps(b) \in SUBSET Ids /\ n + 1 \notin LiveOps(b)
      BY <2>1 DEF LiveOps
    <2>3. PICK g : g = Draws(s)'
      BY Zenon
    <2>4. SumFunctionOnSet(g, LiveOps(b)) = SumFunctionOnSet(Draws(s), LiveOps(b))
      BY Zenon, <2>2, <2>3, SumStays
    <2>5. Taken(s, b)' = SumFunctionOnSet(g, LiveOps(b)') /\ Taken(s, b) = SumFunctionOnSet(Draws(s), LiveOps(b))
      BY Zenon, <2>3 DEF Taken
    <2>6. Taken(s, b) <= Entitled[s][b] /\ Taken(s, b) \in Nat /\ Entitled[s][b] \in Nat
      BY Zenon, <2>2, <2>5, DrawFacts, EntitledType DEF WithinShares
    <2>7. n + 1 \in Ids' /\ g[n + 1] = Drew(new, s)' /\ g[n + 1] \in Nat /\ \A i \in Ids' : g[i] \in Nat
      BY <2>1, <2>3 DEF Draws, Drawn
    <2>8. CASE b # b0
      <3>1. LiveOps(b)' = LiveOps(b)
        BY <2>1, <2>8 DEF LiveOps
      <3> QED BY Zenon, <2>4, <2>5, <2>6, <3>1
    <2>9. CASE b = b0
      <3>1. LiveOps(b)' \in SUBSET (LiveOps(b) \cup {n + 1})
        BY <2>1 DEF LiveOps
      <3>2. LiveOps(b) \cup {n + 1} \in SUBSET Ids'
        BY <2>1, <2>2
      <3>3. IsFiniteSet(LiveOps(b)) /\ IsFiniteSet(LiveOps(b) \cup {n + 1})
        BY Zenon, <2>2, DrawFacts, FS_AddElement
      <3>4. \A i \in LiveOps(b) \cup {n + 1} : g[i] \in Nat
        BY Zenon, <2>7, <3>2
      <3>5. SumFunctionOnSet(g, LiveOps(b)') <= SumFunctionOnSet(g, LiveOps(b) \cup {n + 1})
        BY Zenon, <3>1, <3>3, <3>4, SumSubset
      <3>6. SumFunctionOnSet(g, LiveOps(b) \cup {n + 1}) = g[n + 1] + SumFunctionOnSet(g, LiveOps(b))
        <4>1. Values(g, LiveOps(b) \cup {n + 1})
          BY <3>4 DEF Values
        <4> QED BY Zenon, <2>2, <3>3, <4>1, SumAdd
      <3>7. g[n + 1] + Taken(s, b) <= Entitled[s][b]
        <4>1. Taken(s, b) + Remaining(s, b) <= Entitled[s][b] /\ Remaining(s, b) \in Int
          BY Zenon, <1>TakenBelow, RemainingType DEF Layout
        <4>2. g[n + 1] = 0 \/ g[n + 1] <= Remaining(s, b)
          BY Zenon, <2>1, <2>7, <2>9
        <4> QED BY <2>6, <2>7, <4>1, <4>2
      <3>8. SumFunctionOnSet(g, LiveOps(b)') \in Nat
        <4>1. IsFiniteSet(LiveOps(b)') /\ \A i \in LiveOps(b)' : g[i] \in Nat
          BY Zenon, <3>1, <3>3, <3>4, FS_Subset
        <4> QED BY Zenon, <4>1, SumNat
      <3> QED BY SMTT(30), <2>4, <2>5, <2>6, <2>7, <3>5, <3>6, <3>7, <3>8
    <2> QED BY Zenon, <2>8, <2>9
  (* Ticks that record an operation have checked what it draws. *)
  <1>TickShares.
      ASSUME IInv, IInv', Layout, Drawn, Drawn', Grows, WithinShares, Tick
      PROVE  WithinShares'
    <2> USE <1>TickShares
    <2>1. TypeOK /\ TypeOK'
      BY Zenon DEF IInv
    <2> PICK new \in Nat : new = Len(ops) + 1
      BY <2>1, RowFacts
    <2>2. ASSUME NEW c, NEW r, TickReconcile(c, r) PROVE WithinShares'
      <3>1. Ids' = Ids
        BY Zenon, <2>2 DEF TickReconcile, Ids
      <3> QED BY Zenon, <2>1, <3>1, <1>KeepShares
    <2>3. ASSUME NEW c, TickObserve(c) \/ TickSpacing(c) \/ TickComplete(c) PROVE WithinShares'
      <3>1. Ids' = Ids
        BY Zenon, <2>3 DEF TickObserve, TickSpacing, TickComplete, Ids
      <3> QED BY Zenon, <2>1, <3>1, <1>KeepShares
    <2>4. ASSUME NEW c \in CanaryRequests, TickDistribute(c) PROVE WithinShares'
      <3>1. PICK s0 \in Blocks : \E b0 \in First(OpenBuckets(s0)) : \E amount \in
               {IF ArmedCanary(c) = NONE THEN Remaining(s0, b0)
                ELSE Min({Remaining(s0, b0), Bound(ArmedCanary(c)).max})} :
               Reserve(s0, b0, amount, MaxDistribution, NONE)
        BY <2>4, Zenon DEF TickDistribute
      <3>2. PICK b0 \in First(OpenBuckets(s0)) : \E amount \in
               {IF ArmedCanary(c) = NONE THEN Remaining(s0, b0)
                ELSE Min({Remaining(s0, b0), Bound(ArmedCanary(c)).max})} :
               Reserve(s0, b0, amount, MaxDistribution, NONE)
        BY Zenon, <3>1
      <3>3. PICK amount : /\ amount = IF ArmedCanary(c) = NONE THEN Remaining(s0, b0)
                                      ELSE Min({Remaining(s0, b0), Bound(ArmedCanary(c)).max})
                          /\ Reserve(s0, b0, amount, MaxDistribution, NONE)
        BY Zenon, <3>2
      <3>4. amount <= Remaining(s0, b0)
        <4>1. Remaining(s0, b0) \in Int
          BY Zenon, <2>1, RemainingType DEF First, OpenBuckets, Layout
        <4>2. Intent = NONE
          BY Zenon, <2>4 DEF TickDistribute
        <4>3. ArmedCanary(c) # NONE => Bound(ArmedCanary(c)).max \in Nat
          BY Zenon, <2>1, <4>2, EventFacts, PolicyAssumption DEF Bound, BaseBound, ArmedCanary, CanaryRequests, Layout
        <4>4. CASE ArmedCanary(c) = NONE
          BY <3>3, <4>1, <4>4
        <4>5. CASE ArmedCanary(c) # NONE
          <5>1. \E x \in {Remaining(s0, b0), Bound(ArmedCanary(c)).max} :
                   \A y \in {Remaining(s0, b0), Bound(ArmedCanary(c)).max} : x <= y
            BY <4>1, <4>3, <4>5
          <5> QED BY Zenon, <3>3, <4>5, <5>1 DEF Min
        <4> QED BY Zenon, <4>4, <4>5
      <3>5. ASSUME NEW s \in Blocks
            PROVE  Drew(new, s)' = 0 \/ Drew(new, s)' <= Remaining(s, b0)
        <4>1. /\ new \in Ids' /\ ops'[new].by = NONE
              /\ ops'[new].source = s0 /\ ops'[new].amount = amount
          BY <2>1, <3>3, ReserveFacts
        <4>2. Drew(new, s)' = IF s0 = s THEN amount ELSE 0
          BY ZenonT(60), <4>1 DEF Drawn
        <4> QED BY Zenon, <3>4, <4>2
      <3> QED BY Zenon, <2>1, <3>3, <3>5, <1>DrawShares
    <2>5. ASSUME NEW r \in RequestIds, TickManual(r) \/ TickBatch(r) PROVE WithinShares'
      <3>1. TickOpen(NONE, r) /\ Pending = {}
        BY Zenon, <2>5 DEF TickManual, TickBatch, IntentDue
      <3>2. PICK K \in Open : Intent = manual[K] /\ manual[K].id = r
        BY Zenon, <2>1, <3>1, DueFacts, Computes DEF Computed
      <3>3. K \in DOMAIN manual /\ Intent # NONE /\ r # NONE
        BY Zenon, <3>1, <3>2, NoneAssumption DEF Open, TickOpen
      <3>4. PICK ceiling : Reserve(Intent.source, Intent.bucket, Intent.amount, ceiling, r)
        BY Zenon, <2>5, <3>3 DEF TickManual, TickBatch, Selects
      <3>5. ASSUME NEW s \in Blocks, s \in DOMAIN Intent.sources
            PROVE  Intent.sources[s] <= Remaining(s, Intent.bucket)
        <4>1. CASE TickManual(r)
          <5>1. ~Intent.batch /\ Intent.amount <= Remaining(Intent.source, Intent.bucket)
            BY Zenon, <3>3, <4>1 DEF TickManual, Selects
          <5>2. Intent.sources = [t \in {Intent.source} |-> Intent.amount]
            BY Zenon, <3>2, <3>3, <5>1 DEF Layout, Anchored
          <5> QED BY Zenon, <3>5, <5>1, <5>2
        <4>2. CASE TickBatch(r)
          <5>1. Remaining(s, Intent.bucket) >= Intent.sources[s]
            BY Zenon, <3>5, <4>2 DEF TickBatch, BatchValid
          <5>2. Remaining(s, Intent.bucket) \in Int /\ Intent.sources[s] \in Nat
            <6>1. manual[K] \in ManualRow /\ manual[K].bucket \in Buckets
              BY Zenon, <3>3, ManualFacts DEF Layout
            <6> QED BY ZenonT(60), <2>1, <3>2, <3>5, <6>1, RemainingType DEF Layout, ManualRow
          <5> QED BY Zenon, <5>1, <5>2
        <4> QED BY Zenon, <2>5, <4>1, <4>2
      <3>6. ASSUME NEW s \in Blocks
            PROVE  Drew(new, s)' = 0 \/ Drew(new, s)' <= Remaining(s, Intent.bucket)
        <4>1. new \in Ids' /\ ops'[new].by = r
          BY <2>1, <3>4, ReserveFacts
        <4>2. PICK k \in DOMAIN manual' :
                 /\ manual'[k].id = r
                 /\ Drew(new, s)' = IF s \in DOMAIN manual'[k].sources THEN manual'[k].sources[s] ELSE 0
          BY Zenon, <3>3, <4>1 DEF Drawn
        <4>3. manual' = manual
          BY Zenon, <3>4 DEF Reserve
        <4>4. k = K
          BY Zenon, <3>2, <3>3, <4>2, <4>3 DEF Drawn
        <4> QED BY Zenon, <3>2, <3>5, <4>2, <4>3, <4>4
      <3> QED BY Zenon, <2>1, <3>4, <3>6, <1>DrawShares
    <2> QED BY <2>2, <2>3, <2>4, <2>5, Zenon DEF Tick
  <1>1. Init /\ IInv /\ Drawn => WithinShares
    <2> SUFFICES ASSUME Init, IInv, Drawn, NEW s \in Blocks, NEW b \in Buckets
                 PROVE  Taken(s, b) <= Entitled[s][b]
      BY Zenon DEF WithinShares
    <2>1. LiveOps(b) = {}
      BY DEF Init, LiveOps, Ids
    <2>2. Taken(s, b) = 0
      BY Zenon, <2>1, SumEmpty DEF Taken
    <2> QED BY <2>2, EntitledType
  <1>2. IInv /\ Layout => Drawn
    BY Zenon, <1>DrawnHolds DEF IInv
  <1>3. IInv /\ Layout /\ Drawn /\ IInv' /\ Drawn' /\ WithinShares /\ [Next]_vars => WithinShares'
    <2> SUFFICES ASSUME IInv, Layout, Drawn, IInv', Drawn', WithinShares, [Next]_vars PROVE WithinShares'
      BY Zenon
    <2>1. Grows /\ TypeOK /\ TypeOK'
      BY Zenon, GrowsOK DEF IInv
    <2>2. ASSUME ops' = ops PROVE WithinShares'
      BY Zenon, <2>1, <2>2, <1>KeepShares DEF Ids
    <2>3. ASSUME Operator PROVE ops' = ops
      BY <2>3 DEF Operator, ObserveEarnings, ObserveEarningSource, ArmManual, ExpireUnsigned, ReplaceFailedCanary
    <2>4. ASSUME Network PROVE ops' = ops
      BY Zenon, <2>4 DEF Network, Broadcast, LoseBroadcast, NextBlock, journal
    <2>5. ASSUME UNCHANGED vars PROVE ops' = ops
      BY Zenon, <2>5 DEF vars, journal
    <2> QED BY Zenon, <2>1, <2>2, <2>3, <2>4, <2>5, <1>TickShares DEF Next
  <1>4. Spec => [](IInv /\ Layout /\ Drawn)
    BY <1>2, Invariance, LayoutInvariance, PTL
  <1> QED BY <1>1, <1>3, <1>4, PTL DEF Spec

(* remaining_distribution, source_operations, tick: for every policy and   *)
(* every mixture of automatic legs, canary, replacement and manual         *)
(* batches, lost or landed late, no bucket is paid more than its share of  *)
(* a receipt, and a closed receipt was paid out in full on the chain.      *)
THEOREM NeverOverpaid == Spec => []SharesPaid
  (* What was paid was drawn by live operations. *)
  <1>DeliveredBelow.
      ASSUME IInv, Drawn, NEW s \in Blocks, NEW b \in Buckets
      PROVE  Delivered(s, b) <= Taken(s, b) /\ Delivered(s, b) \in Nat
    <2> USE <1>DeliveredBelow
    <2>1. TypeOK /\ LiveOps(b) \in SUBSET Ids /\ PaidOps(b) \in SUBSET Ids
      BY Zenon DEF IInv, LiveOps, PaidOps
    <2>2. PaidOps(b) \in SUBSET LiveOps(b)
      <3> SUFFICES ASSUME NEW i \in PaidOps(b) PROVE i \in LiveOps(b)
        BY Zenon
      <3>1. i \in Ids /\ fate[i].outcome = "paid" /\ ops[i].bucket = b /\ OpInv(i) /\ ops[i] \in OpRow
        BY Zenon, <2>1, RowFacts DEF PaidOps, IInv
      <3> QED BY Zenon, <3>1 DEF OpInv, OpRow, LiveOps
    <2>3. Delivered(s, b) = SumFunctionOnSet(Draws(s), PaidOps(b))
      BY Zenon DEF Delivered, Draws, PaidOps
    <2>4. IsFiniteSet(LiveOps(b)) /\ \A i \in LiveOps(b) : Draws(s)[i] \in Nat
      BY Zenon, <2>1, DrawFacts
    <2>5. SumFunctionOnSet(Draws(s), PaidOps(b)) <= SumFunctionOnSet(Draws(s), LiveOps(b))
      BY Zenon, <2>2, <2>4, SumSubset
    <2>6. SumFunctionOnSet(Draws(s), PaidOps(b)) \in Nat
      BY Zenon, <2>1, DrawFacts
    <2> QED BY Zenon, <2>3, <2>5, <2>6 DEF Taken
  (* Money that arrived stays. *)
  <1>DeliveredGrows.
      ASSUME TypeOK, TypeOK', Drawn, Drawn', Grows, NEW s \in Blocks, NEW b \in Buckets
      PROVE  Delivered(s, b) <= Delivered(s, b)'
    <2> USE <1>DeliveredGrows
    <2>1. PaidOps(b) \in SUBSET Ids /\ PaidOps(b)' \in SUBSET Ids'
      BY Zenon DEF PaidOps
    <2>2. PaidOps(b) \subseteq PaidOps(b)'
      BY Zenon DEF PaidOps, Grows
    <2>3. /\ Delivered(s, b) = SumFunctionOnSet(Draws(s), PaidOps(b))
          /\ Delivered(s, b)' = SumFunctionOnSet(Draws(s)', PaidOps(b)')
      BY Zenon DEF Delivered, Draws, PaidOps
    <2>4. /\ SumFunctionOnSet(Draws(s)', PaidOps(b)) = SumFunctionOnSet(Draws(s), PaidOps(b))
          /\ SumFunctionOnSet(Draws(s)', PaidOps(b)) <= SumFunctionOnSet(Draws(s)', PaidOps(b)')
      BY Zenon, <2>1, <2>2, SumStays
    <2> QED BY Zenon, <2>3, <2>4
  (* A receipt of which nothing remains, and whose operations are settled,   *)
  (* has been delivered.                                                     *)
  <1>SettledDelivered.
      ASSUME IInv, Layout, Drawn, NEW s \in Blocks, NEW b \in Buckets, SourceSettled(s), OpenBuckets(s) = {}
      PROVE  Delivered(s, b) = Entitled[s][b]
    <2> USE <1>SettledDelivered
    <2> DEFINE T == {i \in SourceOps(s) : ops[i].bucket = b}
               f == [i \in Ids |-> Took(i, s)]
    <2>1. TypeOK
      BY Zenon DEF IInv
    <2>2. Remaining(s, b) = 0
      <3>1. Remaining(s, b) \in Int
        BY Zenon, <2>1, RemainingType DEF Layout
      <3>2. Remaining(s, b) >= 0 /\ ~(Remaining(s, b) > 0)
        BY Zenon DEF SourceSettled, OpenBuckets
      <3> QED BY <3>1, <3>2
    <2>3. Remaining(s, b) = Entitled[s][b] - SumFunctionOnSet(f, T)
      BY Zenon DEF Remaining
    <2>4. \A i \in Ids : f[i] = Drew(i, s) /\ f[i] \in Nat
      BY <2>1, Attribution DEF Drawn
    <2>5. T \in SUBSET PaidOps(b)
      <3> SUFFICES ASSUME NEW i \in T PROVE i \in PaidOps(b)
        BY Zenon
      <3>1. i \in Ids /\ ops[i].state = "finalized" /\ ops[i].bucket = b
        BY Zenon DEF SourceSettled, SourceOps
      <3>2. fate[i].outcome = "paid"
        BY Zenon, <3>1 DEF IInv, OpInv
      <3> QED BY Zenon, <3>1, <3>2 DEF PaidOps
    <2>6. \A i \in PaidOps(b) \ T : Draws(s)[i] = 0
      <3> SUFFICES ASSUME NEW i \in PaidOps(b), i \notin T PROVE Draws(s)[i] = 0
        BY Zenon
      <3>1. i \in Ids /\ fate[i].outcome = "paid" /\ ops[i].bucket = b
        BY Zenon DEF PaidOps
      <3>2. replaced # NONE => i # replaced.after
        <4>1. replaced # NONE => replaced.after \in Ids /\ ops[replaced.after].state = "failed"
          BY Zenon DEF Layout, Events
        <4>2. replaced # NONE => fate[replaced.after].outcome \in {"failed", "toolow"}
          BY Zenon, <4>1 DEF IInv, OpInv
        <4> QED BY Zenon, <3>1, <4>2
      <3>3. ~(Took(i, s) > 0)
        BY Zenon, <3>1, <3>2 DEF SourceOps
      <3>4. Took(i, s) = Drew(i, s) /\ Drew(i, s) \in Nat
        BY Zenon, <2>1, <3>1, Attribution DEF Drawn
      <3> QED BY <3>1, <3>3, <3>4 DEF Draws
    <2>7. PaidOps(b) \in SUBSET Ids /\ T \in SUBSET Ids
      BY Zenon, <2>5 DEF PaidOps
    <2>8. \A i \in T : Draws(s)[i] = f[i]
      BY Zenon, <2>4, <2>7 DEF Draws
    <2> HIDE DEF T, f
    <2>9. IsFiniteSet(PaidOps(b)) /\ Values(Draws(s), PaidOps(b)) /\ IsFiniteSet(T) /\ Values(Draws(s), T)
      BY Zenon, <2>1, <2>7, DrawFacts
    <2>10. SumFunctionOnSet(Draws(s), PaidOps(b)) = SumFunctionOnSet(Draws(s), T)
      BY Zenon, <2>5, <2>6, <2>9, SumSupport
    <2>11. SumFunctionOnSet(Draws(s), T) = SumFunctionOnSet(f, T)
      BY ZenonT(60), <2>8, <2>9, SumSame
    <2>12. Delivered(s, b) = SumFunctionOnSet(Draws(s), PaidOps(b))
      BY Zenon DEF Delivered, Draws, PaidOps
    <2>13. SumFunctionOnSet(Draws(s), T) \in Nat /\ Entitled[s][b] \in Nat
      BY Zenon, <2>1, <2>7, DrawFacts, EntitledType
    <2> QED BY SMTT(30), <2>2, <2>3, <2>10, <2>11, <2>12, <2>13
  (* Only a tick that finds nothing remaining closes a receipt. *)
  <1>ClosedReceipts.
      ASSUME TypeOK, [Next]_vars, NEW s \in Blocks, earnings'[s] = "completed", earnings[s] # "completed"
      PROVE  SourceSettled(s) /\ OpenBuckets(s) = {}
    <2> USE <1>ClosedReceipts
    <2>1. earnings \in [Blocks -> {"unseen", "open", "completed"}]
      BY Zenon DEF TypeOK
    <2>2. ASSUME earnings' = earnings PROVE FALSE
      BY Zenon, <2>2
    <2>3. ASSUME NEW n, earnings' = Scanned(n) PROVE FALSE
      BY Zenon, <2>3 DEF Scanned
    <2>4. ASSUME NEW c, TickComplete(c) PROVE SourceSettled(s) /\ OpenBuckets(s) = {}
      <3>1. PICK t \in Blocks : /\ Payable(t) /\ OpenBuckets(t) = {}
                                /\ earnings' = [earnings EXCEPT ![t] = "completed"]
        BY Zenon, <2>4 DEF TickComplete
      <3>2. s = t
        BY Zenon, <2>1, <3>1
      <3> QED BY Zenon, <3>1, <3>2 DEF Payable
    <2>5. ASSUME NEW c, TickObserve(c) PROVE FALSE
      BY Zenon, <2>3, <2>5 DEF TickObserve
    <2>6. ASSUME NEW n, ObserveEarnings(n) PROVE FALSE
      BY Zenon, <2>3, <2>6 DEF ObserveEarnings
    <2>7. ASSUME NEW t \in Blocks, ObserveEarningSource(t) PROVE FALSE
      BY Zenon, <2>1, <2>7 DEF ObserveEarningSource
    <2>8. ASSUME NEW c, NEW r, TickReconcile(c, r) PROVE FALSE
      BY Zenon, <2>2, <2>8 DEF TickReconcile
    <2>9. ASSUME NEW c, TickSpacing(c) PROVE FALSE
      BY Zenon, <2>2, <2>9 DEF TickSpacing
    <2>10. ASSUME NEW c, TickDistribute(c) PROVE FALSE
      <3>1. \E t \in Blocks : \E b \in First(OpenBuckets(t)) : \E amount \in
               {IF ArmedCanary(c) = NONE THEN Remaining(t, b)
                ELSE Min({Remaining(t, b), Bound(ArmedCanary(c)).max})} :
               Reserve(t, b, amount, MaxDistribution, NONE)
        BY <2>10, Zenon DEF TickDistribute
      <3> QED BY Zenon, <2>2, <3>1 DEF Reserve
    <2>11. ASSUME NEW r, TickManual(r) \/ TickBatch(r) PROVE FALSE
      BY Zenon, <2>2, <2>11 DEF TickManual, TickBatch, Reserve
    <2>12. ASSUME NEW m, ArmManual(m) PROVE FALSE
      BY Zenon, <2>2, <2>12 DEF ArmManual
    <2>13. ASSUME NEW max, ExpireUnsigned \/ ReplaceFailedCanary(max) PROVE FALSE
      BY Zenon, <2>2, <2>13 DEF ExpireUnsigned, ReplaceFailedCanary
    <2>14. ASSUME Network \/ UNCHANGED vars PROVE FALSE
      BY Zenon, <2>2, <2>14 DEF Network, Broadcast, LoseBroadcast, NextBlock, vars, journal
    <2>15. ASSUME Tick PROVE SourceSettled(s) /\ OpenBuckets(s) = {}
      BY <2>4, <2>5, <2>8, <2>9, <2>10, <2>11, <2>15, Zenon DEF Tick
    <2>16. ASSUME Operator PROVE FALSE
      BY <2>6, <2>7, <2>12, <2>13, <2>16, Zenon DEF Operator
    <2> QED BY Zenon, <2>14, <2>15, <2>16 DEF Next
  <1> DEFINE Below == \A s \in Blocks, b \in Buckets : Delivered(s, b) <= Entitled[s][b]
             Closed == \A s \in Blocks, b \in Buckets :
                           earnings[s] = "completed" => Delivered(s, b) = Entitled[s][b]
             I == IInv /\ Layout /\ Drawn /\ WithinShares
  <1>1. I => Below
    <2> SUFFICES ASSUME I, NEW s \in Blocks, NEW b \in Buckets PROVE Delivered(s, b) <= Entitled[s][b]
      BY Zenon
    <2>1. Delivered(s, b) <= Taken(s, b) /\ Delivered(s, b) \in Nat
      BY Zenon, <1>DeliveredBelow
    <2>2. Taken(s, b) <= Entitled[s][b] /\ Entitled[s][b] \in Nat
      BY Zenon, EntitledType DEF WithinShares
    <2>3. Taken(s, b) \in Nat
      <3>1. TypeOK /\ LiveOps(b) \in SUBSET Ids
        BY Zenon DEF IInv, LiveOps
      <3> QED BY Zenon, <3>1, DrawFacts DEF Taken
    <2> QED BY <2>1, <2>2, <2>3
  <1>2. Init => Closed
    BY Zenon DEF Init
  <1>3. I /\ I' /\ Below' /\ Closed /\ [Next]_vars => Closed'
    <2> SUFFICES ASSUME I, I', Below', Closed, [Next]_vars, NEW s \in Blocks, NEW b \in Buckets,
                        earnings'[s] = "completed"
                 PROVE  Delivered(s, b)' = Entitled[s][b]
      BY Zenon DEF Entitled, Share, Blocks, Buckets
    <2>1. Delivered(s, b) = Entitled[s][b]
      <3>1. CASE earnings[s] = "completed"
        BY Zenon, <3>1
      <3>2. CASE earnings[s] # "completed"
        BY Zenon, <3>2, <1>ClosedReceipts, <1>SettledDelivered DEF IInv
      <3> QED BY Zenon, <3>1, <3>2
    <2>2. Delivered(s, b) <= Delivered(s, b)'
      BY Zenon, GrowsOK, <1>DeliveredGrows DEF IInv
    <2>3. Delivered(s, b)' <= Entitled[s][b]
      BY Zenon DEF Entitled, Share, Blocks, Buckets
    <2>4. Delivered(s, b)' \in Int /\ Entitled[s][b] \in Nat
      <3>1. PaidOps(b)' \in SUBSET Ids' /\ IsFiniteSet(Ids')
        BY Zenon, IdsPrimed DEF PaidOps, IInv
      <3>2. PICK g : g = Draws(s)'
        BY Zenon
      <3>3. Values(g, PaidOps(b)') /\ IsFiniteSet(PaidOps(b)')
        <4>1. \A i \in PaidOps(b)' : g[i] \in Nat
          BY Zenon, <3>1, <3>2 DEF Draws, Drawn
        <4> QED BY <3>1, <4>1, FS_Subset DEF Values
      <3>4. Delivered(s, b)' = SumFunctionOnSet(g, PaidOps(b)')
        BY Zenon, <3>2 DEF Delivered, Draws, PaidOps
      <3>5. SumFunctionOnSet(g, PaidOps(b)') \in Int
        BY Zenon, <3>3, SumType
      <3> QED BY Zenon, <3>4, <3>5, EntitledType
    <2> QED BY <2>1, <2>2, <2>3, <2>4
  <1>4. Below /\ Closed => SharesPaid
    BY Zenon DEF SharesPaid
  <1>5. Spec => []I
    BY Zenon, SharesInvariance
  <1> QED BY <1>1, <1>2, <1>3, <1>4, <1>5, PTL DEF Spec

-----------------------------------------------------------------------------
(* The retained stake.  Only the last operation can still land, so the     *)
(* stake its request was checked against is still there when it does.      *)

Moved == [i \in Ids |-> ops[i].amount]
Landed == {i \in Ids : fate[i].outcome = "paid"}

Backed ==
    \A i \in Ids, k \in DOMAIN manual :
        (i = Len(ops) /\ fate[i].outcome = "none" /\ manual[k].id = ops[i].by)
            => ops[i].amount + manual[k].retained <= Alpha

(* tick, arm_manual_transfer: although a manual transfer lands blocks      *)
(* after the stake was read, it leaves the stake its request retains.      *)
THEOREM RetainedStands == Spec => RetainedKept
  (* The stake is a number: what came in less what went out. *)
  <1>AlphaParts.
      ASSUME TypeOK
      PROVE  /\ Alpha = Principal + SumFunctionOnSet(Earned, 1..head) - SumFunctionOnSet(Moved, Landed)
             /\ IsFiniteSet(Landed) /\ Values(Moved, Ids) /\ Landed \in SUBSET Ids
             /\ IsFiniteSet(1..head) /\ Values(Earned, 1..head)
             /\ SumFunctionOnSet(Earned, 1..head) \in Int /\ SumFunctionOnSet(Moved, Landed) \in Int
             /\ Alpha \in Int
    <2> USE <1>AlphaParts
    <2>1. head \in Nat /\ 1..head \subseteq Blocks /\ Landed \in SUBSET Ids
      BY BlockAssumption DEF TypeOK, Blocks, Landed
    <2>2. IsFiniteSet(1..head) /\ Values(Earned, 1..head)
      BY <2>1, BlockAssumption, FS_Interval DEF Values
    <2>3. IsFiniteSet(Landed)
      <3>1. IsFiniteSet(Ids)
        BY RowFacts, FS_Interval
      <3> QED BY Zenon, <2>1, <3>1, FS_Subset
    <2>4. Values(Moved, Ids) /\ Values(Moved, Landed)
      <3>1. \A i \in Ids : ops[i].amount \in Nat
        BY Zenon, RowFacts DEF OpRow
      <3> QED BY <2>1, <3>1 DEF Values, Moved
    <2>5. SumFunctionOnSet(Earned, 1..head) \in Int /\ SumFunctionOnSet(Moved, Landed) \in Int
      BY Zenon, <2>2, <2>3, <2>4, SumType
    <2>6. Alpha = Principal + SumFunctionOnSet(Earned, 1..head) - SumFunctionOnSet(Moved, Landed)
      BY Zenon DEF Alpha, Moved, Landed
    <2> QED BY SMTT(30), <2>1, <2>2, <2>3, <2>4, <2>5, <2>6, PolicyAssumption
  (* The stake is as it was when no block is finalized. *)
  <1>AlphaKept.
      ASSUME TypeOK, head' = head, Landed' = Landed, \A i \in Ids : i \in Ids' /\ ops'[i].amount = ops[i].amount
      PROVE  Alpha' = Alpha
    <2> USE <1>AlphaKept
    <2>1. PICK g : g = Moved'
      BY Zenon
    <2>2. \A i \in Landed : Moved[i] = g[i]
      BY Zenon, <2>1, <1>AlphaParts DEF Moved
    <2>3. Values(Moved, Landed) /\ IsFiniteSet(Landed)
      BY Zenon, <1>AlphaParts DEF Values
    <2>4. SumFunctionOnSet(Moved, Landed) = SumFunctionOnSet(g, Landed)
      BY Zenon, <2>2, <2>3, SumSame
    <2>5. Alpha' = Principal + SumFunctionOnSet(Earned, 1..head) - SumFunctionOnSet(g, Landed)
      BY Zenon, <2>1 DEF Alpha, Moved, Landed
    <2> QED BY Zenon, <2>4, <2>5, <1>AlphaParts
  (* A block adds what it emitted and removes at most one claim. *)
  <1>AlphaBlock.
      ASSUME TypeOK, TypeOK', ops' = ops, head' = head + 1
      PROVE  /\ Landed' = Landed => Alpha' \in Int /\ Alpha' >= Alpha
             /\ \A i \in Ids : i \notin Landed /\ Landed' = Landed \cup {i} =>
                   Alpha' \in Int /\ Alpha' >= Alpha - ops[i].amount
    <2> USE <1>AlphaBlock
    <2> PICK new \in Nat : new = head + 1
      BY RowFacts
    <2>1. new \in Blocks /\ new \notin 1..head /\ 1..new = (1..head) \cup {new} /\ head \in Nat
      <3>1. head' \in Blocks /\ head \in Nat
        BY Zenon, RowFacts DEF TypeOK
      <3> QED BY <3>1
    <2>2. Earned[new] \in Nat
      BY Zenon, <2>1, BlockAssumption
    <2>3. SumFunctionOnSet(Earned, 1..new) = Earned[new] + SumFunctionOnSet(Earned, 1..head)
      <3>1. Values(Earned, (1..head) \cup {new}) /\ IsFiniteSet(1..head)
        BY <2>2, <1>AlphaParts DEF Values
      <3>2. SumFunctionOnSet(Earned, (1..head) \cup {new}) = Earned[new] + SumFunctionOnSet(Earned, 1..head)
        BY Zenon, <2>1, <3>1, SumAdd
      <3> QED BY Zenon, <2>1, <3>2
    <2>4. Moved' = Moved
      BY Zenon DEF Moved, Ids
    <2>5. Alpha' = Principal + SumFunctionOnSet(Earned, 1..new) - SumFunctionOnSet(Moved, Landed')
      <3>1. Alpha' = Principal + SumFunctionOnSet(Earned, 1..head') - SumFunctionOnSet(Moved', Landed')
        BY Zenon DEF Alpha, Moved, Landed
      <3> QED BY Zenon, <2>4, <3>1
    <2>6. Principal \in Int
      BY PolicyAssumption
    <2> PICK in \in Int, out \in Int : /\ in = SumFunctionOnSet(Earned, 1..head)
                                       /\ out = SumFunctionOnSet(Moved, Landed)
                                       /\ Alpha = Principal + in - out
      BY Zenon, <1>AlphaParts
    <2>7. ASSUME Landed' = Landed PROVE Alpha' \in Int /\ Alpha' >= Alpha
      <3>1. Alpha' = Principal + (Earned[new] + in) - out
        BY Zenon, <2>3, <2>5, <2>7
      <3>2. \A p, x, y \in Int, e \in Nat : p + (e + x) - y \in Int /\ p + (e + x) - y >= p + x - y
        OBVIOUS
      <3> QED BY Zenon, <2>2, <2>6, <3>1, <3>2
    <2>8. ASSUME NEW i \in Ids, i \notin Landed, Landed' = Landed \cup {i}
          PROVE  Alpha' \in Int /\ Alpha' >= Alpha - ops[i].amount
      <3>1. SumFunctionOnSet(Moved, Landed \cup {i}) = Moved[i] + SumFunctionOnSet(Moved, Landed)
        <4>1. Values(Moved, Landed \cup {i}) /\ IsFiniteSet(Landed)
          BY Zenon, <2>8, <1>AlphaParts DEF Values
        <4> QED BY Zenon, <2>8, <4>1, SumAdd
      <3>2. Moved[i] = ops[i].amount /\ ops[i].amount \in Nat
        BY Zenon, RowFacts DEF Moved, OpRow
      <3>3. Alpha' = Principal + (Earned[new] + in) - (ops[i].amount + out)
        BY Zenon, <2>3, <2>5, <2>8, <3>1, <3>2
      <3>4. \A p, x, y \in Int, e, m \in Nat : /\ p + (e + x) - (m + y) \in Int
                                            /\ p + (e + x) - (m + y) >= (p + x - y) - m
        OBVIOUS
      <3> QED BY Zenon, <2>2, <2>6, <3>2, <3>3, <3>4
    <2> QED BY Zenon, <2>7, <2>8
  (* What a block does to the claims. *)
  <1>BlockFacts.
      ASSUME IInv, NextBlock
      PROVE  /\ ops' = ops /\ manual' = manual /\ head' = head + 1 /\ Ids' = Ids
             /\ \A i \in Ids : (fate[i].outcome = "none" /\ fate'[i].outcome = "paid") =>
                   i = Len(ops) /\ i \notin Landed /\ Landed' = Landed \cup {i}
             /\ \A i \in Ids : (i = Len(ops) /\ fate'[i].outcome = "none") =>
                   fate[i].outcome = "none" /\ Landed' = Landed
    <2> USE <1>BlockFacts
    <2>1. ops' = ops /\ manual' = manual /\ head' = head + 1 /\ Ids' = Ids
      BY Zenon DEF NextBlock, journal, Ids
    <2>2. PICK landed \in SUBSET Landable : \E outcome \in [landed -> {"paid", "failed", "toolow"}] :
            fate' = [i \in Ids |-> IF i \in landed
                                   THEN [outcome |-> outcome[i], block |-> head + 1]
                                   ELSE fate[i]]
      BY Zenon DEF NextBlock
    <2>3. \A i \in Ids : i \notin landed => fate'[i] = fate[i]
      BY Zenon, <2>2
    <2>4. \A i \in landed : i \in Ids /\ i = Len(ops) /\ fate[i].outcome = "none"
      BY Zenon, LandableLast DEF Landable
    <2>5. \A i \in landed : fate'[i].outcome # "none"
      BY <2>2, <2>4
    <2>6. ASSUME NEW i \in Ids, fate[i].outcome = "none", fate'[i].outcome = "paid"
          PROVE  i = Len(ops) /\ i \notin Landed /\ Landed' = Landed \cup {i}
      <3>1. i \in landed /\ i = Len(ops)
        BY Zenon, <2>3, <2>4, <2>6
      <3>2. \A j \in Ids : j # i => fate'[j] = fate[j]
        BY Zenon, <2>3, <2>4, <3>1
      <3> QED BY Zenon, <2>1, <2>6, <3>1, <3>2 DEF Landed
    <2>7. ASSUME NEW i \in Ids, i = Len(ops), fate'[i].outcome = "none"
          PROVE  fate[i].outcome = "none" /\ Landed' = Landed
      <3>1. landed = {}
        BY Zenon, <2>4, <2>5, <2>7
      <3>2. \A j \in Ids : fate'[j] = fate[j]
        BY Zenon, <2>3, <3>1
      <3> QED BY Zenon, <2>1, <2>7, <3>2 DEF Landed
    <2> QED BY Zenon, <2>1, <2>6, <2>7
  (* The last operation is backed when nothing is signed and no block is     *)
  (* finalized.                                                              *)
  <1>KeepBacked.
      ASSUME IInv, Layout, Layout', Grows, Backed, Ids' = Ids, Len(ops') = Len(ops), UNCHANGED <<head, fate>>,
             ArmReady \/ DOMAIN manual' = DOMAIN manual
      PROVE  Backed'
    <2> USE <1>KeepBacked
    <2>1. Alpha' = Alpha
      <3>1. Landed' = Landed
        BY Zenon DEF Landed
      <3>2. \A i \in Ids : i \in Ids' /\ ops'[i].amount = ops[i].amount
        BY Zenon DEF Grows
      <3> QED BY Zenon, <3>1, <3>2, <1>AlphaKept DEF IInv
    <2>2. CASE ArmReady
      <3>1. Len(ops) \in Ids => fate[Len(ops)].outcome = "paid"
        BY Zenon, <2>2 DEF ArmReady, IInv, OpInv
      <3> QED BY Zenon, <3>1 DEF Backed
    <2>3. CASE DOMAIN manual' = DOMAIN manual
      <3> SUFFICES ASSUME NEW i \in Ids, NEW k \in DOMAIN manual, i = Len(ops), fate[i].outcome = "none",
                          manual'[k].id = ops'[i].by
                   PROVE  ops'[i].amount + manual'[k].retained <= Alpha
        BY Zenon, <2>1, <2>3 DEF Backed
      <3>1. /\ manual'[k].id = manual[k].id /\ manual'[k].retained = manual[k].retained
            /\ ops'[i].by = ops[i].by /\ ops'[i].amount = ops[i].amount
        BY Zenon DEF Grows
      <3> QED BY Zenon, <3>1 DEF Backed
    <2> QED BY Zenon, <2>2, <2>3
  (* An operation is backed when it is signed. *)
  <1>SignBacked.
      ASSUME IInv, IInv', Layout, Layout', Grows, NEW s, NEW b, NEW amount, NEW ceiling, NEW by,
             Reserve(s, b, amount, ceiling, by),
             \A k \in DOMAIN manual : manual[k].id = by => amount + manual[k].retained <= Alpha
      PROVE  Backed'
    <2> USE <1>SignBacked
    <2> PICK new \in Nat : new = Len(ops) + 1
      BY RowFacts DEF IInv
    <2>1. /\ Ids = 1..Len(ops) /\ Len(ops) \in Nat /\ Ids' = 1..new /\ Len(ops') = new /\ manual' = manual
          /\ ops'[new].by = by /\ ops'[new].amount = amount
      BY Zenon, ReserveFacts DEF IInv
    <2>2. (\A i \in Ids : fate'[i] = fate[i]) /\ fate'[new].outcome = "none"
      BY Zenon, FateKept DEF IInv
    <2>3. Landed' = Landed
      <3>1. Ids' = Ids \cup {new} /\ new \notin Ids
        BY <2>1
      <3> QED BY Zenon, <2>2, <3>1 DEF Landed
    <2>4. Alpha' = Alpha
      <3>1. \A i \in Ids : i \in Ids' /\ ops'[i].amount = ops[i].amount
        BY Zenon DEF Grows
      <3>2. head' = head /\ TypeOK
        BY Zenon DEF Reserve, IInv
      <3> QED BY Zenon, <2>3, <3>1, <3>2, <1>AlphaKept
    <2> QED BY Zenon, <2>1, <2>4 DEF Backed
  (* The claim that can still land is backed in every reachable state. *)
  <1>BackedStep.
      ASSUME IInv, IInv', Layout, Layout', Backed, [Next]_vars
      PROVE  Backed'
    <2> USE <1>BackedStep
    <2>1. Grows /\ TypeOK /\ TypeOK'
      BY Zenon, GrowsOK DEF IInv
    <2>2. ASSUME NEW c, NEW r, TickReconcile(c, r) PROVE Backed'
      <3>1. Ids' = Ids
        BY Zenon, <2>2 DEF TickReconcile, Ids
      <3>2. Len(ops') = Len(ops)
        BY <2>1, <2>2, RowFacts DEF TickReconcile, TypeOK
      <3> QED BY Zenon, <2>1, <2>2, <3>1, <3>2, <1>KeepBacked DEF TickReconcile, chain
    <2>3. ASSUME ops' = ops, UNCHANGED <<head, fate>>, ArmReady \/ DOMAIN manual' = DOMAIN manual PROVE Backed'
      BY Zenon, <2>1, <2>3, <1>KeepBacked DEF Ids
    <2>4. ASSUME NEW c, TickDistribute(c) PROVE Backed'
      <3>1. PICK s, b, amount : Reserve(s, b, amount, MaxDistribution, NONE)
        <4>1. \E s \in Blocks : \E b \in First(OpenBuckets(s)) : \E amount \in
               {IF ArmedCanary(c) = NONE THEN Remaining(s, b)
                ELSE Min({Remaining(s, b), Bound(ArmedCanary(c)).max})} :
               Reserve(s, b, amount, MaxDistribution, NONE)
          BY <2>4, Zenon DEF TickDistribute
        <4> QED BY Zenon, <4>1
      <3>2. \A k \in DOMAIN manual : manual[k].id # NONE
        BY Zenon, ManualFacts DEF Layout
      <3> QED BY Zenon, <2>1, <3>1, <3>2, <1>SignBacked
    <2>5. ASSUME NEW r \in RequestIds, TickManual(r) \/ TickBatch(r) PROVE Backed'
      <3>1. TickOpen(NONE, r) /\ Pending = {} /\ Intent.amount + Intent.retained <= Alpha
        BY Zenon, <2>5 DEF TickManual, TickBatch, IntentDue, BatchValid
      <3>2. PICK K \in Open : Intent = manual[K] /\ manual[K].id = r
        BY Zenon, <2>1, <3>1, DueFacts, Computes DEF Computed
      <3>3. \A k \in DOMAIN manual : manual[k].id = r => k = K
        BY Zenon, <3>2, UniqueRequest DEF Open
      <3>4. PICK s, ceiling : Reserve(s, Intent.bucket, Intent.amount, ceiling, r)
        BY Zenon, <2>5 DEF TickManual, TickBatch
      <3> QED BY SMTT(30), <2>1, <3>1, <3>2, <3>3, <3>4, <1>SignBacked
    <2>6. ASSUME NEW c, TickObserve(c) \/ TickSpacing(c) \/ TickComplete(c) PROVE Backed'
      BY Zenon, <2>3, <2>6 DEF TickObserve, TickSpacing, TickComplete, chain
    <2>7. ASSUME Operator PROVE Backed'
      <3>1. ASSUME NEW m, ArmManual(m) PROVE Backed'
        BY Zenon, <2>3, <3>1 DEF ArmManual, chain
      <3>2. ASSUME ExpireUnsigned PROVE Backed'
        <4>1. DOMAIN manual' = DOMAIN manual
          BY Zenon, <3>2 DEF ExpireUnsigned
        <4> QED BY Zenon, <2>3, <3>2, <4>1 DEF ExpireUnsigned, chain
      <3>3. ASSUME NEW n, ObserveEarnings(n) PROVE Backed'
        BY Zenon, <2>3, <3>3 DEF ObserveEarnings, chain
      <3>4. ASSUME NEW s, ObserveEarningSource(s) PROVE Backed'
        BY Zenon, <2>3, <3>4 DEF ObserveEarningSource, chain
      <3>5. ASSUME NEW max, ReplaceFailedCanary(max) PROVE Backed'
        BY Zenon, <2>3, <3>5 DEF ReplaceFailedCanary, chain
      <3> QED BY <2>7, <3>1, <3>2, <3>3, <3>4, <3>5, Zenon DEF Operator
    <2>8. ASSUME NextBlock PROVE Backed'
      <3> SUFFICES ASSUME NEW i \in Ids, NEW k \in DOMAIN manual, i = Len(ops), fate'[i].outcome = "none",
                          manual[k].id = ops[i].by
                   PROVE  ops[i].amount + manual[k].retained <= Alpha'
        BY Zenon, <2>8, <1>BlockFacts DEF Backed
      <3>1. fate[i].outcome = "none" /\ Landed' = Landed /\ ops' = ops /\ head' = head + 1
        BY Zenon, <2>8, <1>BlockFacts
      <3>2. Alpha' \in Int /\ Alpha' >= Alpha
        BY Zenon, <2>1, <3>1, <1>AlphaBlock
      <3>3. ops[i].amount + manual[k].retained <= Alpha
        BY Zenon, <3>1 DEF Backed
      <3>4. ops[i].amount \in Nat /\ manual[k].retained \in Nat /\ Alpha \in Int
        <4>1. ops[i].amount \in Nat
          BY Zenon, <2>1, RowFacts DEF OpRow
        <4>2. manual[k].retained \in Nat
          BY Zenon, ManualFacts DEF Layout
        <4> QED BY Zenon, <2>1, <4>1, <4>2, <1>AlphaParts
      <3> QED BY <3>2, <3>3, <3>4
    <2>9. ASSUME NEW i \in Ids, Broadcast(i) \/ LoseBroadcast(i) PROVE Backed'
      BY Zenon, <2>3, <2>9 DEF Broadcast, LoseBroadcast, journal
    <2>10. ASSUME UNCHANGED vars PROVE Backed'
      BY Zenon, <2>3, <2>10 DEF vars, journal, chain
    <2>11. ASSUME Tick PROVE Backed'
      BY <2>2, <2>4, <2>5, <2>6, <2>11, Zenon DEF Tick
    <2> QED BY Zenon, <2>7, <2>8, <2>9, <2>10, <2>11 DEF Next, Network
  <1> DEFINE Kept == \A i \in Ids : (fate[i].outcome = "none" /\ fate'[i].outcome = "paid") =>
                        \A k \in DOMAIN manual : manual[k].id = ops[i].by => Alpha' >= manual[k].retained
             I == IInv /\ Layout /\ Backed
  <1>1. Init => Backed
    BY DEF Init, Backed, Ids
  <1>2. Spec => []I
    <2>1. IInv /\ IInv' /\ Layout /\ Layout' /\ Backed /\ [Next]_vars => Backed'
      BY Zenon, <1>BackedStep
    <2> QED BY <1>1, <2>1, Invariance, LayoutInvariance, PTL DEF Spec
  <1>3. I /\ I' /\ [Next]_vars => [Kept]_vars
    <2> SUFFICES ASSUME I, I', [Next]_vars, NEW i \in Ids, fate[i].outcome = "none", fate'[i].outcome = "paid",
                        NEW k \in DOMAIN manual, manual[k].id = ops[i].by
                 PROVE  Alpha' >= manual[k].retained
      BY Zenon
    <2>1. NextBlock
      <3>1. ASSUME fate' = fate PROVE FALSE
        BY Zenon, <3>1
      <3>2. ASSUME NEW s, NEW b, NEW amount, NEW ceiling, NEW by, Reserve(s, b, amount, ceiling, by) PROVE FALSE
        BY Zenon, <3>2, FateKept DEF IInv
      <3>3. ASSUME NEW c, NEW r, TickReconcile(c, r) PROVE FALSE
        BY Zenon, <3>1, <3>3 DEF TickReconcile, chain
      <3>4. ASSUME NEW c, TickObserve(c) \/ TickSpacing(c) \/ TickComplete(c) PROVE FALSE
        BY Zenon, <3>1, <3>4 DEF TickObserve, TickSpacing, TickComplete, chain
      <3>5. ASSUME NEW c, TickDistribute(c) PROVE FALSE
        <4>1. \E s \in Blocks : \E b \in First(OpenBuckets(s)) : \E amount \in
               {IF ArmedCanary(c) = NONE THEN Remaining(s, b)
                ELSE Min({Remaining(s, b), Bound(ArmedCanary(c)).max})} :
               Reserve(s, b, amount, MaxDistribution, NONE)
          BY <3>5, Zenon DEF TickDistribute
        <4> QED BY Zenon, <3>2, <4>1
      <3>6. ASSUME NEW r, TickManual(r) \/ TickBatch(r) PROVE FALSE
        BY Zenon, <3>2, <3>6 DEF TickManual, TickBatch
      <3>7. ~Tick
        BY <3>3, <3>4, <3>5, <3>6, Zenon DEF Tick
      <3>8. ~Operator
        BY <3>1 DEF Operator, ObserveEarnings, ObserveEarningSource, ArmManual, ExpireUnsigned,
                    ReplaceFailedCanary, chain
      <3>9. ~(\E j \in Ids : Broadcast(j) \/ LoseBroadcast(j)) /\ ~UNCHANGED vars
        BY Zenon, <3>1 DEF Broadcast, LoseBroadcast, vars, chain
      <3> QED BY Zenon, <3>7, <3>8, <3>9 DEF Next, Network
    <2>2. i = Len(ops) /\ i \notin Landed /\ Landed' = Landed \cup {i} /\ ops' = ops /\ head' = head + 1
      BY Zenon, <2>1, <1>BlockFacts
    <2>3. TypeOK /\ TypeOK'
      BY Zenon DEF IInv
    <2>4. Alpha' \in Int /\ Alpha' >= Alpha - ops[i].amount
      BY Zenon, <2>2, <2>3, <1>AlphaBlock
    <2>5. ops[i].amount + manual[k].retained <= Alpha
      BY Zenon, <2>2 DEF Backed
    <2>6. ops[i].amount \in Nat /\ manual[k].retained \in Nat /\ Alpha \in Int
      <3>1. ops[i].amount \in Nat
        BY Zenon, <2>3, RowFacts DEF OpRow
      <3>2. manual[k].retained \in Nat
        BY Zenon, ManualFacts DEF Layout
      <3> QED BY Zenon, <2>3, <3>1, <3>2, <1>AlphaParts
    <2> QED BY <2>4, <2>5, <2>6
  <1> QED BY <1>2, <1>3, PTL DEF Spec, RetainedKept
=============================================================================
