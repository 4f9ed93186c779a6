----------------------- MODULE CollectorJournalProofs -----------------------
(***************************************************************************)
(* Proofs about the collector's journal, for every chain length, mortality,*)
(* scan chunk, policy and set of requests: what the journal records of a   *)
(* transfer is what happened to it, and a new transfer is recorded only    *)
(* when no earlier one can still reach the chain.                          *)
(*                                                                         *)
(* Neither is inductive.  The strengthening says that only the last        *)
(* operation is outstanding and that it is not in the part of the chain    *)
(* that reconciliation has already read; so a scan that reaches the last   *)
(* block of its mortality without meeting it proves that it never landed.  *)
(*                                                                         *)
(* Layout says how the journal's events and its operations fit together:   *)
(* the canary's claim, then the claim of each manual request right after   *)
(* the operation the request was armed behind.  Together with the first    *)
(* invariant it is inductive, and gives the attribution of operations, the *)
(* acceptance of the history by the code that re-reads it, and the bound   *)
(* of the canary.                                                          *)
(***************************************************************************)
EXTENDS CollectorJournal, TLAPS

(* A transfer lands inside its mortality; an outstanding one is the last   *)
(* and lies after the blocks read; a settled one is recorded truthfully.   *)
OpInv(i) ==
    /\ ops[i].at < ops[i].expires /\ ops[i].at <= head
    /\ fate[i].outcome # "none" =>
         /\ ops[i].at < fate[i].block
         /\ fate[i].block <= ops[i].expires /\ fate[i].block <= head
    /\ ops[i].state = "dispatching" =>
         /\ i = Len(ops)
         /\ ops[i].through <= head /\ ops[i].through <= ops[i].expires
         /\ fate[i].outcome # "none" => ops[i].through < fate[i].block
    /\ ops[i].state = "finalized" => fate[i].outcome = "paid"
    /\ ops[i].state = "failed" => fate[i].outcome \in {"failed", "toolow"}
    /\ ops[i].state = "expired" => fate[i].outcome = "none" /\ ops[i].expires < head

IInv == TypeOK /\ \A i \in Ids : OpInv(i)

-----------------------------------------------------------------------------
(* Arithmetic of the scans. *)

(* The larger of two blocks, as reconcile and the receipt scan take it.    *)
LEMMA MaxTwo ==
    ASSUME NEW a \in Int, NEW b \in Int
    PROVE  Max({a, b}) \in {a, b} /\ a <= Max({a, b}) /\ b <= Max({a, b})
  <1>1. \E x \in {a, b} : \A y \in {a, b} : x >= y
    OBVIOUS
  <1> QED BY Zenon, <1>1 DEF Max

(* The smallest of three blocks, as reconcile and the receipt scan take it.*)
LEMMA MinThree ==
    ASSUME NEW a \in Int, NEW b \in Int, NEW c \in Int
    PROVE  /\ Min({a, b, c}) \in {a, b, c}
           /\ Min({a, b, c}) <= a /\ Min({a, b, c}) <= b /\ Min({a, b, c}) <= c
  <1>1. \E x \in {a, b, c} : \A y \in {a, b, c} : x =< y
    OBVIOUS
  <1> QED BY Zenon, <1>1 DEF Min

(* The ids are 1..Len(ops), and the rows and fates are typed.              *)
LEMMA RowFacts ==
    ASSUME TypeOK
    PROVE  /\ Len(ops) \in Nat /\ Ids = 1..Len(ops) /\ DOMAIN fate = Ids
           /\ \A i \in Ids : ops[i] \in OpRow /\ fate[i] \in Fate
           /\ head \in Nat
  <1>1. ops \in Seq(OpRow) /\ fate \in Seq(Fate) /\ Len(fate) = Len(ops) /\ head \in Blocks
    BY Zenon DEF TypeOK
  <1>2. Len(ops) \in Nat /\ DOMAIN ops = 1..Len(ops) /\ DOMAIN fate = 1..Len(fate)
    BY <1>1
  <1>3. \A i \in 1..Len(ops) : ops[i] \in OpRow /\ fate[i] \in Fate
    BY <1>1
  <1>4. head \in Nat
    BY <1>1, BlockAssumption DEF Blocks
  <1> QED BY Zenon, <1>1, <1>2, <1>3, <1>4 DEF Ids

-----------------------------------------------------------------------------
(* What the steps do to operations. *)

(* A tick records a transfer only when none is outstanding, so every       *)
(* earlier one is settled and the new one is the last.                     *)
LEMMA ReserveOK ==
    ASSUME IInv, Pending = {}, NEW s \in Blocks, NEW b \in Buckets, NEW amount,
           NEW ceiling \in Nat, NEW by \in RequestIds \cup {NONE},
           Reserve(s, b, amount, ceiling, by)
    PROVE  IInv'
  <1> DEFINE e == [state |-> "dispatching", amount |-> amount, source |-> s, bucket |-> b,
                   at |-> head, expires |-> head + Mortality, through |-> 0, by |-> by]
  <1>1. /\ ops' = Append(ops, e) /\ fate' = Append(fate, Unlanded)
        /\ sending' = sending \cup {Len(ops) + 1}
        /\ UNCHANGED <<earnings, cursor, head, pool>>
        /\ amount \in 1..ceiling
    BY Zenon DEF Reserve
  <1>2. /\ Len(ops) \in Nat /\ Ids = 1..Len(ops) /\ head \in Nat
        /\ Mortality \in Nat \ {0}
    BY Zenon, RowFacts, BlockAssumption DEF IInv
  <1>3. e \in OpRow
    <2>1. amount \in Nat /\ head + Mortality \in Nat
      BY <1>1, <1>2
    <2> QED BY Zenon, <1>2, <2>1 DEF OpRow
  <1>4. /\ e.state = "dispatching" /\ e.at = head /\ e.expires = head + Mortality
        /\ e.through = 0
    BY Zenon
  <1>5. Unlanded \in Fate /\ Unlanded.outcome = "none"
    BY Zenon DEF Unlanded, Fate
  <1> HIDE DEF e
  <1>6. /\ ops \in Seq(OpRow) /\ fate \in Seq(Fate) /\ Len(fate) = Len(ops)
    BY Zenon DEF IInv, TypeOK
  <1>7. /\ ops' \in Seq(OpRow) /\ Len(ops') = Len(ops) + 1
        /\ \A i \in Ids : ops'[i] = ops[i]
        /\ ops'[Len(ops) + 1] = e
    BY <1>1, <1>2, <1>3, <1>6
  <1>8. /\ fate' \in Seq(Fate) /\ Len(fate') = Len(ops) + 1
        /\ \A i \in Ids : fate'[i] = fate[i]
        /\ fate'[Len(ops) + 1] = Unlanded
    BY <1>1, <1>2, <1>5, <1>6
  <1>9. Ids' = Ids \cup {Len(ops) + 1} /\ Len(ops) + 1 \notin Ids
    <2>1. Ids' = 1..(Len(ops) + 1)
      BY <1>7 DEF Ids
    <2> QED BY <1>2, <2>1
  <1>10. TypeOK'
    BY Zenon, <1>1, <1>7, <1>8, <1>9 DEF IInv, TypeOK
  <1>11. \A i \in Ids : OpInv(i)'
    <2> SUFFICES ASSUME NEW i \in Ids PROVE OpInv(i)'
      BY Zenon
    <2>1. ops'[i] = ops[i] /\ fate'[i] = fate[i] /\ head' = head
      BY Zenon, <1>1, <1>7, <1>8
    <2>2. ops[i].state # "dispatching"
      BY Zenon DEF Pending
    <2> QED BY Zenon, <2>1, <2>2 DEF IInv, OpInv
  <1>12. ASSUME NEW i \in Ids', i \notin Ids PROVE OpInv(i)'
    <2>1. i = Len(ops')
      BY Zenon, <1>7, <1>9, <1>12
    <2>2. ops'[i] = e /\ fate'[i] = Unlanded /\ head' = head
      BY Zenon, <1>1, <1>7, <1>8, <1>9, <1>12
    <2> QED BY <1>2, <1>4, <1>5, <2>1, <2>2 DEF OpInv
  <1> QED BY Zenon, <1>9, <1>10, <1>11, <1>12 DEF IInv

-----------------------------------------------------------------------------
(* The invariant and its consequences. *)

(* The inductive invariant holds in every state of the collector. *)
THEOREM Invariance == Spec => []IInv
  (* reconcile reads forward from what it has read, never past the head or   *)
  (* the mortality of the transfer.                                          *)
  <1>ScanFacts.
      ASSUME IInv, NEW i \in Ids, ops[i].state = "dispatching"
      PROVE  /\ ScanStart(i) \in Nat /\ ScanEnd(i) \in Nat
             /\ ScanStart(i) \in {ops[i].at, ops[i].through}
             /\ ScanStart(i) <= ScanEnd(i)
             /\ ScanEnd(i) <= head /\ ScanEnd(i) <= ops[i].expires
    <2> USE <1>ScanFacts
    <2>1. ops[i] \in OpRow /\ head \in Nat /\ ScanChunk \in Nat
      BY Zenon, RowFacts, BlockAssumption DEF IInv
    <2>2. ops[i].at \in Nat /\ ops[i].through \in Nat /\ ops[i].expires \in Nat
      BY Zenon, <2>1 DEF OpRow
    <2>3. /\ ops[i].at < ops[i].expires /\ ops[i].at <= head
          /\ ops[i].through <= head /\ ops[i].through <= ops[i].expires
      BY Zenon DEF IInv, OpInv
    <2>4. ScanStart(i) \in {ops[i].at, ops[i].through}
      <3>1. ops[i].at \in Int /\ ops[i].through \in Int
        BY <2>2
      <3> QED BY <3>1, MaxTwo, Zenon DEF ScanStart
    <2>5. ScanStart(i) \in Nat /\ ScanStart(i) <= head /\ ScanStart(i) <= ops[i].expires
      BY <2>2, <2>3, <2>4, <2>1
    <2>6. /\ ScanEnd(i) \in {head, ops[i].expires, ScanStart(i) + ScanChunk}
          /\ ScanEnd(i) <= head /\ ScanEnd(i) <= ops[i].expires
      <3>1. head \in Int /\ ops[i].expires \in Int /\ ScanStart(i) + ScanChunk \in Int
        BY <2>1, <2>2, <2>5
      <3> QED BY <3>1, MinThree, Zenon DEF ScanEnd
    <2> QED BY <2>1, <2>2, <2>4, <2>5, <2>6
  (* Receipts, canaries and manual requests do not touch the operations.     *)
  <1>FrameOK.
      ASSUME IInv, UNCHANGED <<ops, head, sending, pool, fate>>,
             cursor' \in 0..MaxBlock,
             earnings' \in [Blocks -> {"unseen", "open", "completed"}]
      PROVE  IInv'
    BY Zenon, <1>FrameOK DEF IInv, TypeOK, OpInv, Ids
  (* The receipt scan stays within the chain and opens only unseen receipts. *)
  <1>ScanReceiptsOK.
      ASSUME TypeOK, NEW n \in Nat
      PROVE  /\ ScanTo(n) \in 0..MaxBlock
             /\ Scanned(n) \in [Blocks -> {"unseen", "open", "completed"}]
    <2> USE <1>ScanReceiptsOK
    <2>1. /\ cursor \in 0..MaxBlock /\ head \in Blocks /\ LastReceipt \in Blocks
          /\ MaxBlock \in Nat
      BY Zenon, BlockAssumption DEF TypeOK
    <2>2. cursor \in Nat /\ head \in Nat /\ LastReceipt \in Nat /\ head <= MaxBlock
      BY <2>1 DEF Blocks
    <2> DEFINE m == Min({head, cursor + n, LastReceipt})
    <2>3. m \in {head, cursor + n, LastReceipt} /\ m <= head
      <3>1. head \in Int /\ cursor + n \in Int /\ LastReceipt \in Int
        BY <2>2
      <3> QED BY <3>1, MinThree, Zenon
    <2>4. m \in Nat /\ m <= MaxBlock
      BY <2>1, <2>2, <2>3
    <2> HIDE DEF m
    <2>5. Max({cursor, m}) \in {cursor, m}
      BY <2>2, <2>4, MaxTwo
    <2>6. ScanTo(n) = Max({cursor, m})
      BY Zenon DEF ScanTo, m
    <2>7. ScanTo(n) \in 0..MaxBlock
      BY <2>1, <2>4, <2>5, <2>6
    <2>8. Scanned(n) \in [Blocks -> {"unseen", "open", "completed"}]
      BY Zenon DEF Scanned, TypeOK
    <2> QED BY Zenon, <2>7, <2>8
  (* A verdict settles the outstanding operation truthfully, and a pending   *)
  (* one leaves the operation after the blocks read so far.                  *)
  <1>ReconcileOK.
      ASSUME IInv, NEW c, NEW r, TickReconcile(c, r)
      PROVE  IInv'
    <2> USE <1>ReconcileOK
    <2>1. PICK i \in Pending :
            ops' = IF Verdict(i) = "pending"
                   THEN [ops EXCEPT ![i].through = ScanEnd(i)]
                   ELSE [ops EXCEPT ![i].state = Verdict(i)]
      BY Zenon DEF TickReconcile
    <2>2. UNCHANGED <<earnings, cursor, head, sending, pool, fate>>
      BY Zenon DEF TickReconcile, chain
    <2>3. i \in Ids /\ ops[i].state = "dispatching"
      BY Zenon DEF Pending
    <2>4. /\ Len(ops) \in Nat /\ Ids = 1..Len(ops) /\ head \in Nat
          /\ \A j \in Ids : ops[j] \in OpRow /\ fate[j] \in Fate
      BY Zenon, RowFacts DEF IInv
    <2> DEFINE e == IF Verdict(i) = "pending" THEN [ops[i] EXCEPT !.through = ScanEnd(i)]
                    ELSE [ops[i] EXCEPT !.state = Verdict(i)]
    <2>5. Verdict(i) \in {"pending", "finalized", "failed", "expired"}
      BY Zenon DEF Verdict
    <2>6. e \in OpRow
      BY ZenonT(60), <2>3, <2>4, <2>5, <1>ScanFacts DEF OpRow
    <2>7. ops' = [ops EXCEPT ![i] = e]
      BY Zenon, <2>1
    <2>8. /\ e.at = ops[i].at /\ e.expires = ops[i].expires
          /\ IF Verdict(i) = "pending" THEN e.through = ScanEnd(i) /\ e.state = ops[i].state
             ELSE e.state = Verdict(i)
      BY Zenon, <2>3, <2>4 DEF OpRow
    <2> HIDE DEF e
    <2>9. /\ ops' \in Seq(OpRow) /\ Len(ops') = Len(ops)
          /\ \A j \in Ids : ops'[j] = IF j = i THEN e ELSE ops[j]
      BY <2>3, <2>4, <2>6, <2>7 DEF IInv, TypeOK
    <2>10. Ids' = Ids
      BY <2>4, <2>9 DEF Ids
    <2>11. TypeOK'
      BY Zenon, <2>2, <2>9, <2>10 DEF IInv, TypeOK
    <2>12. \A j \in Ids : j # i => OpInv(j)'
      BY Zenon, <2>2, <2>9 DEF IInv, OpInv
    <2>13. OpInv(i)'
      <3>1. /\ ops[i].at \in Nat /\ ops[i].through \in Nat /\ ops[i].expires \in Nat
            /\ fate[i].block \in Nat /\ fate[i].outcome \in {"none", "paid", "failed", "toolow"}
        BY Zenon, <2>3, <2>4 DEF OpRow, Fate
      <3>2. /\ ScanStart(i) \in Nat /\ ScanEnd(i) \in Nat
            /\ ScanStart(i) \in {ops[i].at, ops[i].through}
            /\ ScanStart(i) <= ScanEnd(i)
            /\ ScanEnd(i) <= head /\ ScanEnd(i) <= ops[i].expires
        BY Zenon, <2>3, <1>ScanFacts
      <3>3. OpInv(i)
        BY Zenon, <2>3 DEF IInv
      <3>4. fate[i].outcome # "none" => fate[i].block > ScanStart(i)
        BY Zenon, <2>3, <3>1, <3>2, <3>3 DEF OpInv
      <3>5. ops'[i] = e /\ fate'[i] = fate[i] /\ head' = head /\ Len(ops') = Len(ops)
        BY Zenon, <2>2, <2>3, <2>9
      <3>6. CASE fate[i].outcome # "none" /\ fate[i].block \in ScanStart(i)+1 .. ScanEnd(i)
        <4>1. Verdict(i) = IF fate[i].outcome = "paid" THEN "finalized" ELSE "failed"
          BY Zenon, <3>6 DEF Verdict
        <4> QED BY Zenon, <2>8, <3>1, <3>3, <3>5, <3>6, <4>1 DEF OpInv
      <3>7. CASE ~(fate[i].outcome # "none" /\ fate[i].block \in ScanStart(i)+1 .. ScanEnd(i))
        <4>1. fate[i].outcome # "none" => fate[i].block > ScanEnd(i)
          BY <3>1, <3>2, <3>4, <3>7
        <4>2. CASE head > ops[i].expires /\ ScanEnd(i) = ops[i].expires
          <5>1. Verdict(i) = "expired"
            BY Zenon, <3>7, <4>2 DEF Verdict
          <5>2. fate[i].outcome = "none"
            BY <3>1, <3>3, <4>1, <4>2 DEF OpInv
          <5> QED BY Zenon, <2>4, <2>8, <3>1, <3>3, <3>5, <4>2, <5>1, <5>2 DEF OpInv
        <4>3. CASE ~(head > ops[i].expires /\ ScanEnd(i) = ops[i].expires)
          <5>1. Verdict(i) = "pending"
            BY Zenon, <3>7, <4>3 DEF Verdict
          <5> QED BY Zenon, <2>3, <2>8, <3>1, <3>2, <3>3, <3>5, <4>1, <5>1 DEF OpInv
        <4> QED BY Zenon, <4>2, <4>3
      <3> QED BY Zenon, <3>6, <3>7
    <2> QED BY Zenon, <2>10, <2>11, <2>12, <2>13 DEF IInv
  (* Only bytes that were sent, within their mortality, enter a block, and   *)
  (* the block is one that reconciliation has not read.                      *)
  <1>BlockOK.
      ASSUME IInv, NextBlock
      PROVE  IInv'
    <2> USE <1>BlockOK
    <2>1. /\ head < MaxBlock /\ head' = head + 1
          /\ UNCHANGED <<ops, earnings, cursor, sending, pool>>
      BY Zenon DEF NextBlock, journal
    <2>2. PICK landed \in SUBSET Landable : \E outcome \in [landed -> {"paid", "failed", "toolow"}] :
            fate' = [i \in Ids |-> IF i \in landed
                                   THEN [outcome |-> outcome[i], block |-> head + 1]
                                   ELSE fate[i]]
      BY Zenon DEF NextBlock
    <2>3. PICK outcome \in [landed -> {"paid", "failed", "toolow"}] :
            fate' = [i \in Ids |-> IF i \in landed
                                   THEN [outcome |-> outcome[i], block |-> head + 1]
                                   ELSE fate[i]]
      BY Zenon, <2>2
    <2>4. /\ Len(ops) \in Nat /\ Ids = 1..Len(ops) /\ head \in Nat
          /\ \A i \in Ids : ops[i] \in OpRow /\ fate[i] \in Fate
      BY Zenon, RowFacts DEF IInv
    <2>5. fate' \in [1..Len(ops) -> Fate]
      BY <2>3, <2>4 DEF Fate
    <2>6. fate' \in Seq(Fate) /\ Len(fate') = Len(ops)
      BY <2>4, <2>5
    <2>7. head' \in Blocks
      BY <2>1, <2>4, BlockAssumption DEF Blocks
    <2>8. Ids' = Ids
      BY Zenon, <2>1 DEF Ids
    <2>9. TypeOK'
      BY Zenon, <2>1, <2>6, <2>7, <2>8 DEF IInv, TypeOK
    <2>10. ASSUME NEW i \in Ids PROVE OpInv(i)'
      <3>1. OpInv(i)
        BY Zenon DEF IInv
      <3>2. /\ ops[i].at \in Nat /\ ops[i].through \in Nat /\ ops[i].expires \in Nat
            /\ fate[i].block \in Nat /\ ops[i].state \in {"dispatching", "finalized", "failed", "expired"}
        BY Zenon, <2>4 DEF OpRow, Fate
      <3>3. ops'[i] = ops[i] /\ head' = head + 1 /\ Len(ops') = Len(ops)
        BY Zenon, <2>1
      <3>4. CASE i \in landed
        <4>1. fate'[i].outcome \in {"paid", "failed", "toolow"} /\ fate'[i].block = head + 1
          BY Zenon, <2>3, <3>4
        <4>2. fate[i].outcome = "none" /\ head < ops[i].expires
          BY Zenon, <2>2, <3>4 DEF Landable
        <4>3. ops[i].state = "dispatching"
          BY <2>4, <3>1, <3>2, <4>2 DEF OpInv
        <4> QED BY <2>4, <3>1, <3>2, <3>3, <4>1, <4>2, <4>3 DEF OpInv
      <3>5. CASE i \notin landed
        <4>1. fate'[i] = fate[i]
          BY Zenon, <2>3, <3>5
        <4> QED BY <2>4, <3>1, <3>2, <3>3, <4>1 DEF OpInv
      <3> QED BY Zenon, <3>4, <3>5
    <2> QED BY Zenon, <2>8, <2>9, <2>10 DEF IInv
  (* Every tick keeps the invariant. *)
  <1>TickOK.
      ASSUME IInv, Tick
      PROVE  IInv'
    <2> USE <1>TickOK
    <2>1. MaxDistribution \in Nat /\ ManualCeiling \in Nat /\ ScanChunk \in Nat
      BY Zenon, BlockAssumption
    <2>2. ASSUME NEW c, NEW r, TickReconcile(c, r) PROVE IInv'
      BY Zenon, <2>2, <1>ReconcileOK
    <2>3. ASSUME NEW c, TickObserve(c) PROVE IInv'
      <3>1. TypeOK
        BY Zenon DEF IInv
      <3>2. /\ cursor' = ScanTo(ScanChunk) /\ earnings' = Scanned(ScanChunk)
            /\ UNCHANGED <<ops, head, sending, pool, fate>>
        BY Zenon, <2>3 DEF TickObserve, chain
      <3> QED BY Zenon, <2>1, <3>1, <3>2, <1>ScanReceiptsOK, <1>FrameOK
    <2>4. ASSUME NEW c, TickSpacing(c) PROVE IInv'
      BY Zenon, <2>4, <1>FrameOK DEF TickSpacing, chain, IInv, TypeOK
    <2>5. ASSUME NEW c, TickComplete(c) PROVE IInv'
      <3>1. PICK s \in Blocks : earnings' = [earnings EXCEPT ![s] = "completed"]
        BY Zenon, <2>5 DEF TickComplete
      <3>2. UNCHANGED <<ops, cursor, head, sending, pool, fate>>
        BY Zenon, <2>5 DEF TickComplete, chain
      <3> QED BY Zenon, <3>1, <3>2, <1>FrameOK DEF IInv, TypeOK
    <2>6. ASSUME NEW c, TickDistribute(c) PROVE IInv'
      <3>1. Pending = {}
        BY Zenon, <2>6 DEF TickDistribute
      <3>2. PICK s \in Blocks : \E b \in First(OpenBuckets(s)) : \E amount \in
               {IF ArmedCanary(c) = NONE THEN Remaining(s, b)
                ELSE Min({Remaining(s, b), Bound(ArmedCanary(c)).max})} :
               Reserve(s, b, amount, MaxDistribution, NONE)
        BY <2>6, Zenon DEF TickDistribute
      <3>3. PICK b \in First(OpenBuckets(s)) : \E amount : Reserve(s, b, amount, MaxDistribution, NONE)
        BY Zenon, <3>2
      <3>4. b \in Buckets
        BY Zenon DEF First, OpenBuckets
      <3> QED BY Zenon, <2>1, <3>1, <3>3, <3>4, ReserveOK
    <2>7. ASSUME NEW r \in RequestIds, TickManual(r) PROVE IInv'
      <3>1. Pending = {}
        BY Zenon, <2>7 DEF TickManual, IntentDue
      <3>2. PICK s \in Blocks : /\ Intent.bucket \in OpenBuckets(s)
                                /\ Reserve(s, Intent.bucket, Intent.amount, MaxDistribution, r)
        BY Zenon, <2>7 DEF TickManual
      <3>3. Intent.bucket \in Buckets
        BY Zenon, <3>2 DEF OpenBuckets
      <3> QED BY Zenon, <2>1, <3>1, <3>2, <3>3, ReserveOK
    <2>8. ASSUME NEW r \in RequestIds, TickBatch(r) PROVE IInv'
      <3>1. Pending = {} /\ Intent.bucket \in Buckets
        BY Zenon, <2>8 DEF TickBatch, IntentDue, BatchValid
      <3>2. PICK s \in Blocks : Reserve(s, Intent.bucket, Intent.amount, ManualCeiling, r)
        BY Zenon, <2>8 DEF TickBatch
      <3> QED BY Zenon, <2>1, <3>1, <3>2, ReserveOK
    <2> QED BY <2>2, <2>3, <2>4, <2>5, <2>6, <2>7, <2>8, Zenon DEF Tick
  (* Every operator command keeps the invariant. *)
  <1>OperatorOK.
      ASSUME IInv, Operator
      PROVE  IInv'
    <2> USE <1>OperatorOK
    <2>1. TypeOK /\ ScanChunk \in Nat
      BY Zenon, BlockAssumption DEF IInv
    <2>2. ASSUME NEW n \in 1..ScanChunk, ObserveEarnings(n) PROVE IInv'
      <3>1. n \in Nat
        BY <2>1
      <3>2. /\ cursor' = ScanTo(n) /\ earnings' = Scanned(n)
            /\ UNCHANGED <<ops, head, sending, pool, fate>>
        BY Zenon, <2>2 DEF ObserveEarnings, chain
      <3> QED BY Zenon, <2>1, <3>1, <3>2, <1>ScanReceiptsOK, <1>FrameOK
    <2>3. ASSUME NEW s \in Blocks, ObserveEarningSource(s) PROVE IInv'
      <3>1. /\ earnings' = [earnings EXCEPT ![s] = "open"]
            /\ UNCHANGED <<ops, cursor, head, sending, pool, fate>>
        BY Zenon, <2>3 DEF ObserveEarningSource, chain
      <3> QED BY Zenon, <2>1, <3>1, <1>FrameOK DEF TypeOK
    <2>4. ASSUME UNCHANGED <<ops, earnings, cursor, head, sending, pool, fate>> PROVE IInv'
      BY Zenon, <2>1, <2>4, <1>FrameOK DEF TypeOK
    <2>5. ASSUME NEW m, ArmManual(m) PROVE IInv'
      <3>1. UNCHANGED <<ops, earnings, cursor, head, sending, pool, fate>>
        BY Zenon, <2>5 DEF ArmManual, chain
      <3> QED BY Zenon, <3>1, <2>4
    <2>6. ASSUME ExpireUnsigned PROVE IInv'
      <3>1. UNCHANGED <<ops, earnings, cursor, head, sending, pool, fate>>
        BY Zenon, <2>6 DEF ExpireUnsigned, chain
      <3> QED BY Zenon, <3>1, <2>4
    <2>7. ASSUME NEW max, ReplaceFailedCanary(max) PROVE IInv'
      <3>1. UNCHANGED <<ops, earnings, cursor, head, sending, pool, fate>>
        BY Zenon, <2>7 DEF ReplaceFailedCanary, chain
      <3> QED BY Zenon, <3>1, <2>4
    <2> QED BY <2>2, <2>3, <2>5, <2>6, <2>7, Zenon DEF Operator
  (* Sending, losing and finalizing keep the invariant. *)
  <1>NetworkOK.
      ASSUME IInv, Network
      PROVE  IInv'
    <2> USE <1>NetworkOK
    <2>1. ASSUME NEW i \in Ids, Broadcast(i) \/ LoseBroadcast(i) PROVE IInv'
      BY Zenon, <2>1 DEF Broadcast, LoseBroadcast, journal, IInv, TypeOK, OpInv, Ids
    <2> QED BY Zenon, <2>1, <1>BlockOK DEF Network
  <1>1. Init => IInv
    <2> SUFFICES ASSUME Init PROVE IInv
      BY Zenon
    <2>1. Ids = {}
      BY DEF Init, Ids
    <2>2. ops \in Seq(OpRow) /\ fate \in Seq(Fate) /\ Len(fate) = Len(ops)
      BY DEF Init
    <2>3. head \in Blocks /\ cursor \in 0..MaxBlock
      BY BlockAssumption DEF Init, Blocks
    <2> QED BY Zenon, <2>1, <2>2, <2>3 DEF Init, IInv, TypeOK
  <1>2. IInv /\ [Next]_vars => IInv'
    <2>1. ASSUME IInv, UNCHANGED vars PROVE IInv'
      BY Zenon, <2>1 DEF vars, journal, chain, IInv, TypeOK, OpInv, Ids
    <2> QED BY Zenon, <2>1, <1>TickOK, <1>OperatorOK, <1>NetworkOK DEF Next
  <1> QED BY <1>1, <1>2, PTL DEF Spec

(* Every table keeps its shape, and bytes that were sent are not held by a *)
(* process any more: each signed transfer is sent at most once.            *)
THEOREM TypeCorrect == Spec => []TypeOK
  <1>1. IInv => TypeOK
    BY Zenon DEF IInv
  <1> QED BY <1>1, Invariance, PTL

(* tick: however processes die, pause between commit and broadcast, or are *)
(* started together, a transfer is recorded only when every earlier one is *)
(* settled and can no longer reach the chain.                              *)
THEOREM NeverTwoInFlight == Spec => []OneInFlight
  <1>1. IInv => OneInFlight
    <2> SUFFICES ASSUME IInv, NEW i \in Ids, NEW j \in Ids, i < j
                 PROVE  ops[i].state # "dispatching" /\ ~CanLand(i)
      BY Zenon DEF OneInFlight
    <2>1. /\ Len(ops) \in Nat /\ Ids = 1..Len(ops) /\ ops[i] \in OpRow /\ head \in Nat
      BY Zenon, RowFacts DEF IInv
    <2>2. OpInv(i)
      BY Zenon DEF IInv
    <2>3. ops[i].state \in {"dispatching", "finalized", "failed", "expired"} /\ ops[i].expires \in Nat
      BY Zenon, <2>1 DEF OpRow
    <2> QED BY <2>1, <2>2, <2>3 DEF OpInv, CanLand
  <1> QED BY <1>1, Invariance, PTL

(* reconcile: a transfer recorded finalized was paid, one recorded failed  *)
(* failed on the chain, and one recorded expired never lands, for every    *)
(* mortality and every size of the chunks the chain is read in.            *)
THEOREM RecordsTrue == Spec => []JournalTruthful
  <1>1. IInv => JournalTruthful
    <2> SUFFICES ASSUME IInv, NEW i \in Ids
                 PROVE  /\ ops[i].state = "finalized" => fate[i].outcome = "paid"
                        /\ ops[i].state = "failed" => fate[i].outcome \in {"failed", "toolow"}
                        /\ ops[i].state = "expired" => fate[i].outcome = "none" /\ ~CanLand(i)
      BY Zenon DEF JournalTruthful
    <2>1. ops[i] \in OpRow /\ head \in Nat
      BY Zenon, RowFacts DEF IInv
    <2>2. OpInv(i) /\ ops[i].expires \in Nat
      BY Zenon, <2>1 DEF IInv, OpRow
    <2> QED BY <2>1, <2>2 DEF OpInv, CanLand
  <1> QED BY <1>1, Invariance, PTL

-----------------------------------------------------------------------------
(* The layout of the journal. *)

(* The events are rows of the shape their readers expect. *)
EventTypes ==
    /\ canary \in {NONE} \cup CanaryRow /\ replaced \in {NONE} \cup ReplacedRow
    /\ manual \in Seq(ManualRow)

(* The operation after which the canary's own claim comes: that of the     *)
(* canary, or of its replacement.  (A manual claim that was replaced as if *)
(* it were the canary is not one, and stops the collector.)                *)
Replacement == replaced # NONE /\ ops[replaced.after].by = NONE
Base == IF Replacement THEN replaced.after ELSE canary.after

(* A request was armed after a finalized claim, which it follows in time,  *)
(* and a single transfer names one receipt.                                *)
Anchored(k) ==
    /\ manual[k].after \in Ids /\ ops[manual[k].after].state = "finalized"
    /\ ~manual[k].batch => manual[k].sources = [s \in {manual[k].source} |-> manual[k].amount]

Ordered(k) ==
    \A j \in DOMAIN manual : j < k =>
        /\ manual[j].id # manual[k].id
        /\ manual[j].after <= manual[k].after
        /\ j \in Open => manual[j].after < manual[k].after

(* The claim of an open request is the operation after its anchor; only    *)
(* the last open one may lack it, and nothing follows its claim.           *)
Claiming(k) ==
    /\ manual[k].after > Base
    /\ \A i \in Ids : i = manual[k].after + 1 => ops[i].by = manual[k].id
    /\ \A j \in Open : j > k =>
          manual[k].after + 1 \in Ids /\ ops[manual[k].after + 1].state = "finalized"
    /\ (\A j \in Open : j <= k) => Len(ops) <= manual[k].after + 1

(* An operation signed for a request is the claim of that open request,    *)
(* and beyond the canary's own claim every operation is.                   *)
Signed(i) ==
    /\ ops[i].by # NONE =>
          \E k \in Open : /\ manual[k].id = ops[i].by /\ manual[k].after = i - 1
                          /\ Matches(i, manual[k])
    /\ canary # NONE =>
          /\ i > Base + 1 => ops[i].by # NONE
          /\ i = canary.after + 1 => ops[i].by = NONE /\ ops[i].amount <= canary.max
          /\ (Replacement /\ i = replaced.after + 1) => ops[i].by = NONE /\ ops[i].amount <= replaced.max

Events ==
    /\ canary = NONE => manual = <<>> /\ replaced = NONE
    /\ canary # NONE => canary.after <= Len(ops)
    /\ replaced # NONE =>
          /\ canary.after < replaced.after /\ replaced.after \in Ids
          /\ ops[replaced.after].state = "failed" /\ ops[replaced.after].source = replaced.source
          /\ Replacement => replaced.after = canary.after + 1

Layout ==
    /\ EventTypes /\ Events
    /\ \A k \in DOMAIN manual : Anchored(k) /\ Ordered(k)
    /\ \A k \in Open : Claiming(k)
    /\ \A i \in Ids : Signed(i)

-----------------------------------------------------------------------------
(* What the layout takes from finite sets of numbers.  It follows from the *)
(* types of the journal (Computes in CollectorMoneyProofs); the steps are  *)
(* proved from it, without the theory of finite sets.                      *)

(* The intent in force is the last that is open, if one is. *)
IntentIsLast ==
    /\ Intent = NONE <=> Open = {}
    /\ Intent # NONE => \E k \in Open : Intent = manual[k] /\ \A j \in Open : j <= k

(* A request an operator writes is a row; a single transfer takes all of   *)
(* its amount from its first receipt.                                      *)
RequestsFit ==
    \A id \in RequestIds, b \in Buckets, claims \in Claims, floor \in RetainedFloors,
       expires \in head+1 .. head+ArmWindow, batch \in BOOLEAN :
    \A m : (batch \/ Cardinality(DOMAIN claims) = 1) /\ m = RequestOf(id, b, claims, floor, expires, batch)
          => m \in ManualRow /\ ~m.closed /\ (~m.batch => m.sources = [s \in {m.source} |-> m.amount])

Computed ==
    IntentIsLast /\ RequestsFit /\ \A s \in Blocks, b \in Buckets : Remaining(s, b) \in Int

(* A set within a singleton, and the least of a set of positions. *)
SmallSets ==
    /\ \A x : \A S \in SUBSET {x} : Cardinality(S) <= 1
    /\ \A S \in SUBSET Nat : S # {} => Min(S) \in S /\ \A y \in S : Min(S) <= y

-----------------------------------------------------------------------------
(* The rows of the journal. *)

(* The manual requests are rows at the positions 1..Len(manual). *)
LEMMA ManualFacts ==
    ASSUME EventTypes
    PROVE  /\ Len(manual) \in Nat /\ DOMAIN manual = 1..Len(manual)
           /\ Open \in SUBSET (1..Len(manual))
           /\ \A k \in DOMAIN manual :
                /\ manual[k] \in ManualRow /\ manual[k] # NONE
                /\ manual[k].id \in RequestIds /\ manual[k].id # NONE
                /\ manual[k].after \in Nat /\ manual[k].amount \in Nat
                /\ manual[k].retained \in Nat /\ manual[k].expires \in Nat
                /\ manual[k].source \in Blocks /\ manual[k].bucket \in Buckets
                /\ manual[k].batch \in BOOLEAN /\ manual[k].closed \in BOOLEAN
  <1>1. manual \in Seq(ManualRow)
    BY Zenon DEF EventTypes
  <1>2. Len(manual) \in Nat /\ DOMAIN manual = 1..Len(manual)
    BY <1>1
  <1>3. \A k \in DOMAIN manual : manual[k] \in ManualRow
    BY <1>1, <1>2
  <1>4. \A m \in ManualRow :
           /\ m # NONE /\ m.id \in RequestIds /\ m.id # NONE
           /\ m.after \in Nat /\ m.amount \in Nat /\ m.retained \in Nat /\ m.expires \in Nat
           /\ m.source \in Blocks /\ m.bucket \in Buckets /\ m.batch \in BOOLEAN /\ m.closed \in BOOLEAN
    BY Zenon, NoneAssumption DEF ManualRow
  <1> QED BY Zenon, <1>2, <1>3, <1>4 DEF Open

(* The canary and its replacement are rows. *)
LEMMA EventFacts ==
    ASSUME TypeOK, EventTypes, Events
    PROVE  /\ canary # NONE => canary \in CanaryRow /\ canary.after \in Nat /\ canary.max \in Nat
           /\ replaced # NONE => /\ canary # NONE /\ replaced \in ReplacedRow
                                 /\ replaced.after \in Nat /\ replaced.max \in Nat /\ replaced.source \in Blocks
           /\ canary # NONE => Base \in Nat /\ canary.after <= Base /\ Base <= Len(ops)
  <1>1. canary # NONE => canary \in CanaryRow /\ canary.after \in Nat /\ canary.max \in Nat
    BY Zenon DEF EventTypes, CanaryRow
  <1>2. replaced # NONE => /\ canary # NONE /\ replaced \in ReplacedRow
                           /\ replaced.after \in Nat /\ replaced.max \in Nat /\ replaced.source \in Blocks
    BY Zenon DEF EventTypes, Events, ReplacedRow
  <1>3. Len(ops) \in Nat /\ Ids = 1..Len(ops)
    BY Zenon, RowFacts
  <1>4. canary # NONE => Base \in Nat /\ canary.after <= Base /\ Base <= Len(ops)
    BY <1>1, <1>2, <1>3 DEF Base, Replacement, Events
  <1> QED BY Zenon, <1>1, <1>2, <1>4

(* While the journal is readable the bound's base is Base: a manual claim  *)
(* that was replaced as if it were the canary makes it unreadable.         *)
LEMMA ReadableBase ==
    ASSUME TypeOK, Layout, CanaryHistoryOK, canary # NONE
    PROVE  /\ replaced # NONE => Replacement
           /\ BaseBound(canary).after = Base
           /\ BaseBound(canary).max = IF replaced = NONE THEN canary.max ELSE replaced.max
  <1>1. /\ Len(ops) \in Nat /\ Ids = 1..Len(ops) /\ canary.after \in Nat
        /\ replaced # NONE => replaced.after \in Nat
    BY Zenon, RowFacts, EventFacts DEF Layout
  <1>2. replaced # NONE => Replacement
    <2> SUFFICES ASSUME replaced # NONE, ~Replacement PROVE FALSE
      BY Zenon
    <2>1. replaced.after = canary.after + 1 /\ replaced.after \in Ids
      BY Zenon DEF CanaryHistoryOK, Layout, Events
    <2>2. ops[replaced.after].by # NONE
      BY Zenon DEF Replacement
    <2>3. PICK k \in Open : manual[k].after = replaced.after - 1
      BY Zenon, <2>1, <2>2 DEF Layout, Signed
    <2>4. manual[k].after > canary.after
      BY Zenon, <2>3 DEF Layout, Claiming, Base
    <2> QED BY <1>1, <2>1, <2>3, <2>4
  <1> QED BY Zenon, <1>2 DEF BaseBound, Base, Replacement

-----------------------------------------------------------------------------
(* What the steps do to the layout. *)

(* What a tick that records an operation adds. *)
LEMMA ReserveFacts ==
    ASSUME TypeOK, NEW s, NEW b, NEW amount, NEW ceiling, NEW by, Reserve(s, b, amount, ceiling, by),
           TypeOK'
    PROVE  /\ Len(ops) \in Nat /\ Ids = 1..Len(ops)
           /\ Len(ops') = Len(ops) + 1 /\ Ids' = 1..(Len(ops) + 1)
           /\ \A i \in Ids : ops'[i] = ops[i]
           /\ ops'[Len(ops) + 1].by = by /\ ops'[Len(ops) + 1].amount = amount
           /\ ops'[Len(ops) + 1].source = s /\ ops'[Len(ops) + 1].bucket = b
           /\ ops'[Len(ops) + 1].state = "dispatching"
           /\ UNCHANGED <<manual, replaced>>
  <1> DEFINE e == [state |-> "dispatching", amount |-> amount, source |-> s, bucket |-> b,
                   at |-> head, expires |-> head + Mortality, through |-> 0, by |-> by]
  <1>1. Len(ops) \in Nat /\ Ids = 1..Len(ops) /\ ops \in Seq(OpRow)
    BY Zenon, RowFacts DEF TypeOK
  <1>2. ops' = Append(ops, e) /\ UNCHANGED <<manual, replaced>>
    BY Zenon DEF Reserve
  <1>3. e.by = by /\ e.amount = amount /\ e.source = s /\ e.bucket = b /\ e.state = "dispatching"
    BY Zenon
  <1> HIDE DEF e
  <1>4. /\ Len(ops') = Len(ops) + 1 /\ ops'[Len(ops) + 1] = e
        /\ \A i \in 1..Len(ops) : ops'[i] = ops[i]
    <2>1. ops \in Seq(OpRow \cup {e}) /\ e \in OpRow \cup {e}
      BY <1>1
    <2> QED BY <1>2, <2>1
  <1>5. Ids' = 1..(Len(ops) + 1)
    <2>1. Len(ops') \in Nat /\ DOMAIN ops' = 1..Len(ops')
      BY DEF TypeOK
    <2> QED BY Zenon, <1>4, <2>1 DEF Ids
  <1> QED BY Zenon, <1>1, <1>2, <1>3, <1>4, <1>5

(* A tick that may sign the intent in force finds nothing after its anchor.*)
LEMMA DueFacts ==
    ASSUME TypeOK, Layout, NEW r \in RequestIds, TickOpen(NONE, r), Pending = {}, IntentIsLast
    PROVE  /\ canary # NONE /\ canary' = canary /\ CanaryHistoryOK
           /\ \E k \in Open : /\ Intent = manual[k] /\ \A j \in Open : j <= k
                              /\ manual[k].id = r /\ manual[k].after = Len(ops)
  <1>1. Intent # NONE /\ Intent.id = r /\ ~Spent(NONE) /\ CanaryHistoryOK /\ canary' = ArmedCanary(NONE)
    BY Zenon, NoneAssumption DEF TickOpen, Readable
  <1>2. PICK k \in Open : Intent = manual[k] /\ \A j \in Open : j <= k
    BY Zenon, <1>1 DEF IntentIsLast
  <1>3. k \in DOMAIN manual
    BY Zenon DEF Open
  <1>4. canary # NONE
    BY <1>3 DEF Layout, Events
  <1>5. canary' = canary /\ ArmedCanary(NONE) = canary
    BY Zenon, <1>1, <1>4 DEF ArmedCanary
  <1>6. Bound(canary).after = manual[k].after
    BY Zenon, <1>1, <1>2 DEF Bound
  <1>7. \A i \in Ids : ~(i > manual[k].after)
    BY Zenon, <1>1, <1>4, <1>5, <1>6 DEF Spent, Pending
  <1>8. manual[k].after \in Ids /\ Len(ops) \in Nat /\ Ids = 1..Len(ops)
    BY Zenon, <1>3, RowFacts DEF Layout, Anchored
  <1>9. manual[k].after = Len(ops)
    BY <1>7, <1>8
  <1> QED BY Zenon, <1>1, <1>2, <1>4, <1>5, <1>9

(* A request is armed only when the claim of the bound in force is the     *)
(* last operation and is finalized: every open request is then settled.    *)
LEMMA ReadyFacts ==
    ASSUME TypeOK, Layout, ArmReady, IntentIsLast
    PROVE  /\ canary # NONE /\ Len(ops) \in Ids /\ ops[Len(ops)].state = "finalized"
           /\ Len(ops) > Base
           /\ \A k \in Open : /\ manual[k].after < Len(ops) /\ manual[k].after + 1 \in Ids
                              /\ ops[manual[k].after + 1].state = "finalized"
  <1>1. /\ canary # NONE /\ Len(ops) = Bound(canary).after + 1
        /\ ops[Len(ops)].state = "finalized" /\ CanaryHistoryOK
    BY Zenon DEF ArmReady, Readable
  <1>2. Len(ops) \in Nat /\ Ids = 1..Len(ops) /\ Base \in Nat
    BY Zenon, <1>1, RowFacts, EventFacts DEF Layout
  <1>3. CASE Open = {}
    <2>1. Bound(canary).after = Base
      BY Zenon, <1>1, <1>3, ReadableBase DEF Bound, Layout, IntentIsLast
    <2> QED BY <1>1, <1>2, <1>3, <2>1
  <1>4. CASE Open # {}
    <2>1. PICK K \in Open : Intent = manual[K] /\ \A j \in Open : j <= K
      BY Zenon, <1>4 DEF IntentIsLast
    <2>2. Len(ops) = manual[K].after + 1 /\ manual[K].after \in Nat
      BY Zenon, <1>1, <1>4, <2>1, ManualFacts DEF Bound, Layout, Open, IntentIsLast
    <2>3. manual[K].after > Base
      BY Zenon DEF Layout, Claiming
    <2>4. ASSUME NEW k \in Open
          PROVE  /\ manual[k].after < Len(ops) /\ manual[k].after + 1 \in Ids
                 /\ ops[manual[k].after + 1].state = "finalized"
      <3>1. k \in Nat /\ K \in Nat /\ k <= K /\ manual[k].after \in Nat /\ K \in DOMAIN manual /\ k \in DOMAIN manual
        BY <2>1, ManualFacts DEF Layout, Open
      <3>2. CASE k = K
        BY <1>1, <1>2, <2>2, <3>2
      <3>3. CASE k < K
        <4>1. manual[k].after < manual[K].after
          BY Zenon, <3>1, <3>3 DEF Layout, Ordered
        <4>2. K > k /\ Claiming(k)
          BY Zenon, <3>1, <3>3 DEF Layout
        <4>3. manual[k].after + 1 \in Ids /\ ops[manual[k].after + 1].state = "finalized"
          BY Zenon, <4>2 DEF Claiming
        <4> QED BY <2>2, <3>1, <4>1, <4>3
      <3> QED BY <3>1, <3>2, <3>3
    <2> QED BY <1>1, <1>2, <2>2, <2>3, <2>4
  <1> QED BY Zenon, <1>3, <1>4

(* Where two open requests follow each other, so do their anchors: the     *)
(* operations between them would belong to an open request in between.     *)
LEMMA NextAnchor ==
    ASSUME TypeOK, Layout, NEW j \in Open, NEW k \in Open, j < k,
           \A l \in Open : ~(j < l /\ l < k)
    PROVE  manual[k].after = manual[j].after + 1
  <1>1. /\ j \in DOMAIN manual /\ k \in DOMAIN manual /\ j \in Nat /\ k \in Nat
        /\ manual[j].after \in Nat /\ manual[k].after \in Nat
    BY ManualFacts DEF Layout, Open
  <1>2. manual[j].after < manual[k].after
    BY Zenon, <1>1 DEF Layout, Ordered
  <1>3. Len(ops) \in Nat /\ Ids = 1..Len(ops) /\ manual[k].after \in Ids
    BY Zenon, <1>1, RowFacts DEF Layout, Anchored
  <1>4. ASSUME manual[j].after + 2 <= manual[k].after PROVE FALSE
    <2>1. PICK i \in Ids : i = manual[j].after + 2
      BY <1>1, <1>3, <1>4
    <2>2. canary # NONE
      BY <1>1 DEF Layout, Events
    <2>3. Base \in Nat /\ manual[j].after > Base
      BY Zenon, <2>2, EventFacts DEF Layout, Claiming
    <2>4. ops[i].by # NONE
      BY <1>1, <2>1, <2>2, <2>3 DEF Layout, Signed
    <2>5. PICK l \in Open : manual[l].after = i - 1
      BY Zenon, <2>4 DEF Layout, Signed
    <2>6. l \in DOMAIN manual /\ l \in Nat /\ manual[l].after = manual[j].after + 1
      BY <1>1, <2>1, <2>5, ManualFacts DEF Layout, Open
    <2>7. (l < j => manual[l].after < manual[j].after) /\ (k < l => manual[k].after < manual[l].after)
      BY Zenon, <1>1, <2>6 DEF Layout, Ordered
    <2>8. l # j /\ l # k
      BY <1>1, <1>4, <2>6
    <2> QED BY <1>1, <1>4, <2>6, <2>7, <2>8
  <1> QED BY <1>1, <1>2, <1>4

(* Recording an unsigned expiry marks the last open request closed. *)
LEMMA CloseFacts ==
    ASSUME Layout, ExpireUnsigned, IntentIsLast
    PROVE  \E K \in Open, n \in Nat :
             /\ Intent = manual[K] /\ \A j \in Open : j <= K
             /\ n = Len(manual) /\ DOMAIN manual = 1..n /\ K \in 1..n /\ Open \subseteq 1..n
             /\ manual' \in [1..n -> ManualRow]
             /\ \A k \in 1..n :
                  /\ manual'[k].id = manual[k].id /\ manual'[k].after = manual[k].after
                  /\ manual'[k].amount = manual[k].amount /\ manual'[k].batch = manual[k].batch
                  /\ manual'[k].sources = manual[k].sources /\ manual'[k].source = manual[k].source
                  /\ manual'[k].bucket = manual[k].bucket /\ manual'[k].expires = manual[k].expires
                  /\ manual'[k].closed <=> (manual[k].closed \/ k = K)
  <1>1. PICK K \in Open : Intent = manual[K] /\ \A j \in Open : j <= K
    BY Zenon DEF IntentIsLast, ExpireUnsigned
  <1>2. PICK n \in Nat : n = Len(manual) /\ DOMAIN manual = 1..n
    BY Zenon, ManualFacts DEF Layout
  <1>3. manual' = [k \in DOMAIN manual |-> IF manual[k].id = manual[K].id
                                           THEN [manual[k] EXCEPT !.closed = TRUE] ELSE manual[k]]
    BY Zenon, <1>1 DEF ExpireUnsigned
  <1>4. K \in 1..n /\ Open \subseteq 1..n
    BY Zenon, <1>2 DEF Open
  <1>5. \A k \in 1..n : manual[k] \in ManualRow /\ (k # K => manual[k].id # manual[K].id)
    <2> SUFFICES ASSUME NEW k \in 1..n PROVE manual[k] \in ManualRow /\ (k # K => manual[k].id # manual[K].id)
      BY Zenon
    <2>1. manual[k] \in ManualRow
      BY Zenon, <1>2, ManualFacts DEF Layout
    <2>2. (k < K => manual[k].id # manual[K].id) /\ (K < k => manual[K].id # manual[k].id)
      BY Zenon, <1>2, <1>4 DEF Layout, Ordered
    <2> QED BY <1>4, <2>1, <2>2
  <1>6. /\ \A k \in 1..n : k # K => manual'[k] = manual[k]
        /\ manual'[K] = [manual[K] EXCEPT !.closed = TRUE]
    BY Zenon, <1>2, <1>3, <1>4, <1>5
  <1>7. ASSUME NEW k \in 1..n
        PROVE  /\ manual'[k] \in ManualRow /\ manual'[k].id = manual[k].id /\ manual'[k].after = manual[k].after
               /\ manual'[k].amount = manual[k].amount /\ manual'[k].batch = manual[k].batch
               /\ manual'[k].sources = manual[k].sources /\ manual'[k].source = manual[k].source
               /\ manual'[k].bucket = manual[k].bucket /\ manual'[k].expires = manual[k].expires
               /\ manual'[k].closed <=> (manual[k].closed \/ k = K)
    <2>1. CASE k # K
      BY Zenon, <1>5, <1>6, <2>1
    <2>2. CASE k = K
      <3>1. manual'[k] = [manual[K] EXCEPT !.closed = TRUE] /\ manual[K] \in ManualRow
        BY Zenon, <1>5, <1>6, <2>2
      <3> QED BY Zenon, <2>2, <3>1 DEF ManualRow
    <2> QED BY Zenon, <2>1, <2>2
  <1>8. manual' \in [1..n -> ManualRow]
    <2>1. manual' = [k \in 1..n |-> manual'[k]]
      BY Zenon, <1>2, <1>3
    <2> QED BY Zenon, <1>7, <2>1
  <1> QED BY <1>1, <1>2, <1>4, <1>7, <1>8

-----------------------------------------------------------------------------
(* The layout is an invariant. *)

(* Every step keeps the layout. *)
LEMMA LayoutStep == IInv /\ Layout /\ Computed /\ IInv' /\ [Next]_vars => Layout'
  (* Settling an operation does not change for what it was signed. *)
  <1>RewriteOK.
      ASSUME Layout, Ids' = Ids, Len(ops') = Len(ops), UNCHANGED <<canary, replaced, manual>>,
             \A i \in Ids : /\ ops'[i].by = ops[i].by /\ ops'[i].amount = ops[i].amount
                            /\ ops'[i].source = ops[i].source /\ ops'[i].bucket = ops[i].bucket
                            /\ ops[i].state # "dispatching" => ops'[i].state = ops[i].state
      PROVE  Layout'
    <2> USE <1>RewriteOK
    <2>1. EventTypes' /\ Open' = Open
      BY Zenon DEF Layout, EventTypes, Open
    <2>2. (Replacement' <=> Replacement) /\ Base' = Base
      <3>1. replaced # NONE => ops'[replaced.after].by = ops[replaced.after].by
        BY Zenon DEF Layout, Events
      <3>2. Replacement' <=> Replacement
        BY Zenon, <3>1 DEF Replacement
      <3> QED BY Zenon, <3>2 DEF Base
    <2>3. Events'
      BY Zenon, <2>2 DEF Layout, Events
    <2>4. \A k \in DOMAIN manual : Anchored(k)' /\ Ordered(k)'
      BY SMTT(30), <2>1 DEF Layout, Anchored, Ordered
    <2>5. \A k \in Open : Claiming(k)'
      <3> SUFFICES ASSUME NEW k \in Open PROVE Claiming(k)'
        BY Zenon
      <3>1. Claiming(k)
        BY Zenon DEF Layout
      <3> QED BY Zenon, <2>1, <2>2, <3>1 DEF Claiming
    <2>6. \A i \in Ids : Signed(i)'
      BY <2>1, <2>2 DEF Layout, Signed, Matches
    <2> QED BY Zenon, <2>1, <2>3, <2>4, <2>5, <2>6 DEF Layout
  (* A step that records no operation may arm a canary after the last one.   *)
  <1>StillOK.
      ASSUME TypeOK, Layout, NEW c \in {NONE} \cup CanaryRow, CanaryAccepted(c),
             canary' = ArmedCanary(c), UNCHANGED <<ops, manual, replaced>>
      PROVE  Layout'
    <2> USE <1>StillOK
    <2>1. CASE canary' = canary
      BY Zenon, <2>1, <1>RewriteOK DEF Ids
    <2>2. CASE canary' # canary
      <3>1. canary = NONE /\ canary' = c /\ c # NONE /\ c.after = Len(ops) /\ c \in CanaryRow
        BY Zenon, <2>2 DEF ArmedCanary, CanaryAccepted
      <3>2. manual = <<>> /\ replaced = NONE /\ Open = {} /\ DOMAIN manual = {}
        BY <3>1 DEF Layout, Events, Open
      <3>3. Len(ops) \in Nat /\ Ids = 1..Len(ops)
        BY Zenon, RowFacts
      <3>4. EventTypes' /\ Events'
        BY <3>1, <3>2, <3>3 DEF Layout, EventTypes, Events, Ids, Replacement
      <3>5. \A i \in Ids : ops[i].by = NONE
        BY Zenon, <3>2 DEF Layout, Signed
      <3>6. Base' = Len(ops)
        BY Zenon, <3>1, <3>2 DEF Base, Replacement
      <3>7. \A i \in Ids : Signed(i)'
        BY <3>1, <3>2, <3>3, <3>5, <3>6 DEF Signed, Replacement
      <3>8. Open' = {} /\ DOMAIN manual' = {} /\ Ids' = Ids
        BY Zenon, <3>2 DEF Open, Ids
      <3> QED BY Zenon, <3>4, <3>7, <3>8 DEF Layout
    <2> QED BY Zenon, <2>1, <2>2
  (* An automatic claim is recorded while no request is open; under a canary *)
  (* it is the canary's only one, within its ceiling.                        *)
  <1>AutoOK.
      ASSUME TypeOK, Layout, TypeOK', IntentIsLast, NEW c \in {NONE} \cup CanaryRow, TickOpen(c, NONE),
             Pending = {}, Intent = NONE,
             NEW s, NEW b, NEW amount, NEW ceiling, Reserve(s, b, amount, ceiling, NONE),
             ArmedCanary(c) # NONE => amount <= Bound(ArmedCanary(c)).max
      PROVE  Layout'
    <2> USE <1>AutoOK
    <2>1. PICK n \in Nat :
          /\ n = Len(ops) /\ Ids = 1..n /\ Len(ops') = n + 1 /\ Ids' = 1..(n + 1)
          /\ \A i \in Ids : ops'[i] = ops[i]
          /\ ops'[n + 1].by = NONE /\ ops'[n + 1].amount = amount
          /\ UNCHANGED <<manual, replaced>>
      BY Zenon, ReserveFacts
    <2>2. Open = {} /\ Open' = {}
      BY Zenon, <2>1 DEF Open, IntentIsLast
    <2>3. \A i \in Ids : ops[i].by = NONE
      BY Zenon, <2>2 DEF Layout, Signed
    <2>4. \A k \in DOMAIN manual' : Anchored(k)' /\ Ordered(k)'
      <3>1. Ids \subseteq Ids' /\ DOMAIN manual' = DOMAIN manual
        BY <2>1
      <3>2. ASSUME NEW k \in DOMAIN manual PROVE Anchored(k)'
        BY Zenon, <2>1, <3>1 DEF Layout, Anchored
      <3>3. ASSUME NEW k \in DOMAIN manual PROVE Ordered(k)'
        BY Zenon, <2>1, <2>2 DEF Layout, Ordered
      <3> QED BY Zenon, <3>1, <3>2, <3>3
    <2>5. canary' = ArmedCanary(c) /\ CanaryAccepted(c) /\ CanaryHistoryOK /\ ~Spent(c)
      BY Zenon DEF TickOpen, Readable
    <2>6. canary' \in {NONE} \cup CanaryRow /\ EventTypes'
      BY Zenon, <2>1, <2>5 DEF ArmedCanary, Layout, EventTypes
    <2>7. CASE canary = NONE /\ c = NONE
      <3>1. canary' = NONE /\ manual' = <<>> /\ replaced' = NONE
        BY Zenon, <2>1, <2>5, <2>7 DEF ArmedCanary, Layout, Events
      <3>2. Events'
        BY Zenon, <3>1 DEF Events
      <3>3. \A i \in Ids' : Signed(i)'
        BY <2>1, <2>3, <3>1 DEF Signed
      <3> QED BY Zenon, <2>2, <2>4, <2>6, <3>2, <3>3 DEF Layout
    <2>8. CASE canary = NONE /\ c # NONE
      <3>1. canary' = c /\ c \in CanaryRow /\ manual' = <<>> /\ replaced' = NONE /\ replaced = NONE /\ c.after = n
        BY Zenon, <2>1, <2>5, <2>8 DEF ArmedCanary, Layout, Events, CanaryAccepted
      <3>2. Events'
        BY <2>1, <2>8, <3>1 DEF Events
      <3>3. Base' = n
        BY Zenon, <3>1 DEF Base, Replacement
      <3>4. amount <= c.max
        BY Zenon, <2>2, <2>8, <3>1 DEF Bound, BaseBound, ArmedCanary
      <3>5. \A i \in Ids' : Signed(i)'
        BY <2>1, <2>3, <3>1, <3>3, <3>4 DEF Signed, Replacement
      <3> QED BY Zenon, <2>2, <2>4, <2>6, <3>2, <3>5 DEF Layout
    <2>9. CASE canary # NONE
      <3>1. canary' = canary /\ ArmedCanary(c) = canary
        BY Zenon, <2>5, <2>9 DEF ArmedCanary
      <3>2. /\ canary.after \in Nat /\ Base \in Nat /\ Base <= n
            /\ replaced # NONE => replaced.after \in Nat /\ replaced.after \in Ids
        BY Zenon, <2>1, <2>9, EventFacts DEF Layout, Events
      <3>3. /\ Bound(canary).after = Base
            /\ Bound(canary).max = IF replaced = NONE THEN canary.max ELSE replaced.max
            /\ replaced # NONE => Replacement
        BY Zenon, <2>5, <2>9, ReadableBase DEF Bound
      <3>4. n = Base
        <4>1. \A i \in Ids : ~(i > Base)
          BY Zenon, <2>5, <2>9, <3>1, <3>3 DEF Spent, Pending
        <4> QED BY <2>1, <3>2, <4>1
      <3>5. (Replacement' <=> Replacement) /\ Base' = Base
        <4>1. Replacement' <=> Replacement
          BY Zenon, <2>1, <3>2 DEF Replacement
        <4> QED BY Zenon, <2>1, <3>1, <4>1 DEF Base
      <3>6. Events'
        BY <2>1, <2>9, <3>1, <3>2, <3>5 DEF Layout, Events
      <3>7. ASSUME NEW i \in Ids PROVE Signed(i)'
        <4>1. Signed(i) /\ ops'[i] = ops[i] /\ ops[i].by = NONE
          BY Zenon, <2>1, <2>3 DEF Layout
        <4> QED BY Zenon, <2>1, <3>1, <3>4, <3>5, <4>1 DEF Signed
      <3>8. Signed(n + 1)'
        <4>1. n + 1 = canary.after + 1 => amount <= canary.max
          <5>1. n + 1 = canary.after + 1 => ~Replacement
            BY <2>1, <3>2, <3>4 DEF Replacement, Base, Layout, Events
          <5> QED BY Zenon, <2>9, <3>1, <3>3, <5>1
        <4>2. Replacement => amount <= replaced.max
          BY Zenon, <2>9, <3>1, <3>3 DEF Replacement
        <4> QED BY <2>1, <3>1, <3>4, <3>5, <4>1, <4>2 DEF Signed
      <3>9. \A i \in Ids' : Signed(i)'
        BY <2>1, <3>7, <3>8
      <3> QED BY Zenon, <2>2, <2>4, <2>6, <3>6, <3>9 DEF Layout
    <2> QED BY Zenon, <2>7, <2>8, <2>9
  (* Signing the intent in force records its claim after its anchor. *)
  <1>SignOK.
      ASSUME TypeOK, Layout, TypeOK', IntentIsLast, NEW r \in RequestIds, TickOpen(NONE, r), Pending = {},
             NEW ceiling, Reserve(Intent.source, Intent.bucket, Intent.amount, ceiling, r)
      PROVE  Layout'
    <2> USE <1>SignOK
    <2>1. PICK K \in Open : /\ Intent = manual[K] /\ \A j \in Open : j <= K
                            /\ manual[K].id = r /\ manual[K].after = Len(ops)
      BY Zenon, DueFacts
    <2>2. PICK n \in Nat :
          /\ n = Len(ops) /\ Ids = 1..n /\ Len(ops') = n + 1 /\ Ids' = 1..(n + 1)
          /\ \A i \in Ids : ops'[i] = ops[i]
          /\ ops'[n + 1].by = r /\ ops'[n + 1].amount = manual[K].amount
          /\ ops'[n + 1].source = manual[K].source /\ ops'[n + 1].bucket = manual[K].bucket
          /\ UNCHANGED <<manual, replaced>>
      BY <2>1, ReserveFacts
    <2>3. canary # NONE /\ canary' = canary
      BY Zenon, DueFacts
    <2>4. /\ canary.after \in Nat /\ Base \in Nat /\ Base <= n /\ canary.after <= Base
          /\ replaced # NONE => replaced.after \in Nat /\ replaced.after \in Ids
      BY Zenon, <2>2, <2>3, EventFacts DEF Layout, Events
    <2>5. (Replacement' <=> Replacement) /\ Base' = Base
      <3>1. Replacement' <=> Replacement
        BY Zenon, <2>2, <2>4 DEF Replacement
      <3> QED BY Zenon, <2>2, <2>3, <3>1 DEF Base
    <2>6. EventTypes' /\ Open' = Open /\ DOMAIN manual' = DOMAIN manual /\ Ids \subseteq Ids'
      BY <2>2, <2>3 DEF Layout, EventTypes, Open
    <2>7. Events'
      BY <2>2, <2>3, <2>4, <2>5 DEF Layout, Events
    <2>8. \A k \in DOMAIN manual : Anchored(k)' /\ Ordered(k)'
      <3>1. ASSUME NEW k \in DOMAIN manual PROVE Anchored(k)'
        BY Zenon, <2>2, <2>6 DEF Layout, Anchored
      <3>2. ASSUME NEW k \in DOMAIN manual PROVE Ordered(k)'
        BY Zenon, <2>2, <2>6 DEF Layout, Ordered
      <3> QED BY Zenon, <3>1, <3>2
    <2>9. \A k \in Open : manual[k].after \in Nat /\ (manual[k].after = n => k = K) /\ k \in Nat
      <3> SUFFICES ASSUME NEW k \in Open
                   PROVE  manual[k].after \in Nat /\ (manual[k].after = n => k = K) /\ k \in Nat
        BY Zenon
      <3>1. k \in DOMAIN manual /\ K \in DOMAIN manual /\ k \in Nat /\ K \in Nat /\ manual[k].after \in Nat
        BY ManualFacts DEF Open, Layout
      <3>2. k < K => manual[k].after < manual[K].after
        BY Zenon, <3>1 DEF Layout, Ordered
      <3>3. k <= K
        BY Zenon, <2>1
      <3> QED BY <2>1, <2>2, <3>1, <3>2, <3>3
    <2>10. \A k \in Open : Claiming(k)'
      <3> SUFFICES ASSUME NEW k \in Open PROVE Claiming(k)'
        BY Zenon
      <3>1. Claiming(k) /\ manual'[k] = manual[k]
        BY Zenon, <2>2 DEF Layout
      <3>2. (manual[k].after > Base)'
        BY Zenon, <2>5, <3>1 DEF Claiming
      <3>3. (\A i \in Ids : i = manual[k].after + 1 => ops[i].by = manual[k].id)'
        BY <2>1, <2>2, <2>9, <3>1 DEF Claiming
      <3>4. (\A j \in Open : j > k => manual[k].after + 1 \in Ids /\ ops[manual[k].after + 1].state = "finalized")'
        BY Zenon, <2>2, <2>6, <3>1 DEF Claiming
      <3>5. ((\A j \in Open : j <= k) => Len(ops) <= manual[k].after + 1)'
        <4> SUFFICES ASSUME \A j \in Open : j <= k PROVE n + 1 <= manual[k].after + 1
          BY Zenon, <2>2, <2>6, <3>1
        <4>1. k = K
          BY <2>1, <2>9
        <4> QED BY <2>1, <2>2, <4>1
      <3> QED BY Zenon, <3>2, <3>3, <3>4, <3>5 DEF Claiming
    <2>11. \A i \in Ids' : Signed(i)'
      <3>1. ASSUME NEW i \in Ids PROVE Signed(i)'
        <4>1. Signed(i) /\ ops'[i] = ops[i]
          BY Zenon, <2>2 DEF Layout
        <4> QED BY ZenonT(60), <2>2, <2>3, <2>5, <2>6, <4>1 DEF Signed, Matches
      <3>2. Signed(n + 1)'
        <4>1. r # NONE /\ manual[K].after > Base /\ Claiming(K)
          BY Zenon, NoneAssumption DEF Layout, Claiming
        <4>2. n + 1 > Base + 1 /\ n + 1 # canary.after + 1
          BY <2>1, <2>2, <2>4, <4>1
        <4>3. Replacement => n + 1 # replaced.after + 1
          BY <2>1, <2>2, <2>4, <4>1 DEF Base, Replacement
        <4>4. (n + 1) - 1 = manual[K].after
          BY <2>1, <2>2
        <4>5. K \in Open' /\ manual'[K].id = r /\ manual'[K].after = (n + 1) - 1 /\ Matches(n + 1, manual[K])'
          BY Zenon, <2>1, <2>2, <2>6, <4>4 DEF Matches
        <4> QED BY Zenon, <2>2, <2>3, <2>5, <4>1, <4>2, <4>3, <4>5 DEF Signed
      <3> QED BY <2>2, <3>1, <3>2
    <2> QED BY Zenon, <2>6, <2>7, <2>8, <2>10, <2>11 DEF Layout
  (* A single transfer or a batch is armed behind the last finalized claim.  *)
  <1>ArmOK.
      ASSUME TypeOK, Layout, IntentIsLast, ArmReady, NEW m \in ManualRow, ~m.closed, m.after = Len(ops),
             ~m.batch => m.sources = [s \in {m.source} |-> m.amount],
             \A k \in DOMAIN manual : manual[k].id # m.id,
             manual' = Append(manual, m), UNCHANGED <<ops, canary, replaced>>
      PROVE  Layout'
    <2> USE <1>ArmOK
    <2>1. PICK n \in Nat : /\ n = Len(manual) /\ DOMAIN manual = 1..n
                           /\ DOMAIN manual' = 1..(n + 1) /\ manual' \in Seq(ManualRow)
                           /\ manual'[n + 1] = m /\ \A k \in 1..n : manual'[k] = manual[k]
      <3>1. Len(manual) \in Nat /\ DOMAIN manual = 1..Len(manual) /\ manual \in Seq(ManualRow)
        BY Zenon, ManualFacts DEF Layout, EventTypes
      <3>2. /\ manual' \in Seq(ManualRow) /\ Len(manual') = Len(manual) + 1
            /\ manual'[Len(manual) + 1] = m /\ \A k \in 1..Len(manual) : manual'[k] = manual[k]
        BY <3>1
      <3>3. DOMAIN manual' = 1..(Len(manual) + 1)
        BY <3>2
      <3> QED BY Zenon, <3>1, <3>2, <3>3
    <2>2. Open' = Open \cup {n + 1} /\ Open \subseteq 1..n
      BY <2>1 DEF Open
    <2>3. Len(ops) \in Nat /\ Ids = 1..Len(ops) /\ Ids' = Ids
      BY Zenon, RowFacts DEF Ids
    <2>4. /\ canary # NONE /\ Len(ops) \in Ids /\ ops[Len(ops)].state = "finalized" /\ Len(ops) > Base
          /\ \A k \in Open : /\ manual[k].after < Len(ops) /\ manual[k].after + 1 \in Ids
                             /\ ops[manual[k].after + 1].state = "finalized"
      BY Zenon, ReadyFacts
    <2>5. (Replacement' <=> Replacement) /\ Base' = Base
      BY Zenon DEF Base, Replacement
    <2>6. EventTypes' /\ Events'
      BY Zenon, <2>1, <2>3, <2>4, <2>5 DEF Layout, EventTypes, Events
    <2>7. \A k \in DOMAIN manual : manual[k].after \in Nat /\ manual[k].after <= Len(ops)
      <3>1. \A k \in DOMAIN manual : manual[k].after \in Ids
        BY Zenon DEF Layout, Anchored
      <3> QED BY <2>3, <3>1
    <2>8. ASSUME NEW k \in DOMAIN manual' PROVE Anchored(k)'
      <3>1. CASE k \in 1..n
        <4>1. Anchored(k) /\ manual'[k] = manual[k]
          BY Zenon, <2>1, <3>1 DEF Layout
        <4> QED BY Zenon, <2>3, <4>1 DEF Anchored
      <3>2. CASE k = n + 1
        <4>1. manual'[k] = m
          BY Zenon, <2>1, <3>2
        <4> QED BY Zenon, <2>3, <2>4, <4>1 DEF Anchored
      <3> QED BY <2>1, <3>1, <3>2
    <2>9. ASSUME NEW k \in DOMAIN manual' PROVE Ordered(k)'
      <3>1. CASE k \in 1..n
        BY <2>1, <2>2, <3>1 DEF Layout, Ordered
      <3>2. CASE k = n + 1
        BY <2>1, <2>2, <2>4, <2>7, <3>2 DEF Ordered
      <3> QED BY <2>1, <3>1, <3>2
    <2>10. ASSUME NEW k \in Open' PROVE Claiming(k)'
      <3>1. CASE k \in Open
        <4>0. Claiming(k)
          BY Zenon, <3>1 DEF Layout
        <4>1. Claiming(k) /\ manual'[k] = manual[k] /\ k < n + 1 /\ n + 1 \in Open'
          <5>1. k \in 1..n
            BY Zenon, <2>2, <3>1
          <5> QED BY <2>1, <2>2, <4>0, <5>1
        <4>2. (\A j \in Open : j > k => manual[k].after + 1 \in Ids /\ ops[manual[k].after + 1].state = "finalized")'
          BY Zenon, <2>3, <2>4, <3>1, <4>1
        <4>3. ~(\A j \in Open : j <= k)'
          BY <4>1, <2>1, <2>2, <3>1
        <4> QED BY Zenon, <2>3, <2>5, <4>1, <4>2, <4>3 DEF Claiming
      <3>2. CASE k = n + 1
        <4>1. manual'[k].after = Len(ops) /\ \A j \in Open' : j <= n + 1
          BY <2>1, <2>2, <3>2
        <4> QED BY <2>1, <2>2, <2>3, <2>4, <2>5, <3>2, <4>1 DEF Claiming
      <3> QED BY Zenon, <2>2, <3>1, <3>2
    <2>11. ASSUME NEW i \in Ids PROVE Signed(i)'
      <3>1. Signed(i) /\ \A k \in Open : k \in Open' /\ manual'[k] = manual[k]
        BY Zenon, <2>1, <2>2 DEF Layout
      <3> QED BY ZenonT(60), <2>5, <3>1 DEF Signed, Matches
    <2> QED BY Zenon, <2>3, <2>6, <2>8, <2>9, <2>10, <2>11 DEF Layout
  (* That request's anchor is the last operation, so the open request before *)
  (* it is then the last, and its claim is that operation.                   *)
  <1>CloseOK.
      ASSUME TypeOK, Layout, IntentIsLast, ExpireUnsigned
      PROVE  Layout'
    <2> USE <1>CloseOK
    <2>1. PICK K \in Open, n \in Nat :
               /\ Intent = manual[K] /\ \A j \in Open : j <= K
               /\ n = Len(manual) /\ DOMAIN manual = 1..n /\ K \in 1..n /\ Open \subseteq 1..n
               /\ manual' \in [1..n -> ManualRow]
               /\ \A k \in 1..n :
                    /\ manual'[k].id = manual[k].id /\ manual'[k].after = manual[k].after
                    /\ manual'[k].amount = manual[k].amount /\ manual'[k].batch = manual[k].batch
                    /\ manual'[k].sources = manual[k].sources /\ manual'[k].source = manual[k].source
                    /\ manual'[k].bucket = manual[k].bucket /\ manual'[k].expires = manual[k].expires
                    /\ manual'[k].closed <=> (manual[k].closed \/ k = K)
      BY Zenon, CloseFacts
    <2>2. DOMAIN manual = 1..n /\ DOMAIN manual' = 1..n
      BY Zenon, <2>1
    <2>same. UNCHANGED <<ops, canary, replaced>>
      BY Zenon DEF ExpireUnsigned
    <2>3. Len(ops) = manual[K].after /\ UNCHANGED <<ops, canary, replaced>>
      BY Zenon, <2>1 DEF ExpireUnsigned
    <2>4. K \in 1..n /\ Open \subseteq 1..n /\ \A j \in Open : j <= K
      BY Zenon, <2>1
    <2>7. \A k \in 1..n :
             /\ manual'[k].id = manual[k].id /\ manual'[k].after = manual[k].after
             /\ manual'[k].amount = manual[k].amount /\ manual'[k].batch = manual[k].batch
             /\ manual'[k].sources = manual[k].sources /\ manual'[k].source = manual[k].source
             /\ manual'[k].bucket = manual[k].bucket
             /\ manual'[k].closed <=> (manual[k].closed \/ k = K)
      BY Zenon, <2>1
    <2>8. manual' \in Seq(ManualRow)
      BY <2>1
    <2>9. Open' = Open \ {K}
      BY Zenon, <2>2, <2>7 DEF Open
    <2>10. (Replacement' <=> Replacement) /\ Base' = Base /\ Ids' = Ids
      BY Zenon, <2>3 DEF Replacement, Base, Ids
    <2>11. EventTypes' /\ Events'
      <3>1. canary # NONE
        BY <2>2, <2>4 DEF Layout, Events
      <3> QED BY Zenon, <2>3, <2>8, <2>10, <3>1 DEF Layout, EventTypes, Events
    <2>12. ASSUME NEW k \in 1..n PROVE Anchored(k)' /\ Ordered(k)'
      <3>1. Anchored(k) /\ Ordered(k)
        BY Zenon, <2>2 DEF Layout
      <3>2. Anchored(k)'
        BY Zenon, <2>7, <2>10, <2>same, <3>1 DEF Anchored
      <3>3. Ordered(k)'
        BY Zenon, <2>2, <2>7, <2>9, <3>1 DEF Ordered
      <3> QED BY Zenon, <3>2, <3>3
    <2>13. ASSUME NEW k \in Open' PROVE Claiming(k)'
      <3>1. /\ k \in Open /\ k \in 1..n /\ k < K /\ Claiming(k)
            /\ manual'[k].after = manual[k].after /\ manual'[k].id = manual[k].id
        <4>1. k \in Open /\ k # K /\ k \in 1..n
          BY Zenon, <2>4, <2>9
        <4>2. Claiming(k)
          BY Zenon, <4>1 DEF Layout
        <4> QED BY <2>4, <2>7, <4>1, <4>2
      <3>2. (\A j \in Open : j <= k)' => Len(ops') <= manual'[k].after + 1
        <4> SUFFICES ASSUME \A j \in Open' : j <= k PROVE Len(ops') <= manual'[k].after + 1
          BY Zenon
        <4>1. \A l \in Open : ~(k < l /\ l < K)
          BY <2>4, <2>9, <3>1
        <4>2. manual[K].after = manual[k].after + 1
          BY Zenon, <3>1, <4>1, NextAnchor
        <4> QED BY <2>3, <3>1, <4>2, RowFacts
      <3>3. (manual[k].after > Base)'
        BY Zenon, <2>10, <3>1 DEF Claiming
      <3>4. (\A i \in Ids : i = manual[k].after + 1 => ops[i].by = manual[k].id)'
        BY Zenon, <2>10, <2>same, <3>1 DEF Claiming
      <3>5. (\A j \in Open : j > k => manual[k].after + 1 \in Ids /\ ops[manual[k].after + 1].state = "finalized")'
        BY Zenon, <2>9, <2>10, <2>same, <3>1 DEF Claiming
      <3> QED BY Zenon, <3>2, <3>3, <3>4, <3>5 DEF Claiming
    <2>14. ASSUME NEW i \in Ids PROVE Signed(i)'
      <3>1. Signed(i) /\ ops' = ops
        BY Zenon, <2>3 DEF Layout
      <3>2. ASSUME NEW k \in Open, manual[k].after = i - 1, Matches(i, manual[k])
            PROVE  k \in Open' /\ manual'[k].id = manual[k].id /\ manual'[k].after = i - 1 /\ Matches(i, manual[k])'
        <4>1. k # K
          BY <2>3, <3>2, RowFacts
        <4>2. k \in Open' /\ k \in 1..n
          BY Zenon, <2>4, <2>9, <4>1
        <4> QED BY Zenon, <2>3, <2>7, <3>2, <4>2 DEF Matches
      <3> QED BY Zenon, <2>3, <2>10, <3>1, <3>2 DEF Signed
    <2> QED BY Zenon, <2>2, <2>10, <2>11, <2>12, <2>13, <2>14 DEF Layout
  (* Replacing the failed last claim: the canary's own, or a manual one,     *)
  (* which is then no replacement of the canary's.                           *)
  <1>ReplaceOK.
      ASSUME TypeOK, Layout, IntentIsLast, NEW max \in CanaryCeilings, ReplaceFailedCanary(max)
      PROVE  Layout'
    <2> USE <1>ReplaceOK
    <2>1. PICK n \in Nat : n = Len(ops) /\ Ids = 1..n
      BY Zenon, RowFacts
    <2>2. /\ canary # NONE /\ replaced = NONE /\ n = Bound(canary).after + 1
          /\ ops[n].state = "failed" /\ replaced' = [max |-> max, after |-> n, source |-> ops[n].source]
          /\ UNCHANGED <<ops, canary, manual>>
      BY Zenon, <2>1 DEF ReplaceFailedCanary
    <2>3. canary \in CanaryRow /\ canary.after \in Nat /\ Base = canary.after /\ canary.after <= n
      BY Zenon, <2>1, <2>2, EventFacts DEF Layout, Base, Replacement
    <2>4. Open' = Open /\ Ids' = Ids
      BY Zenon, <2>2 DEF Open, Ids
    <2>5. n \in Ids /\ n > canary.after /\ (Replacement' => n = canary.after + 1 /\ Open = {}) /\ Base' = IF Open = {} THEN n ELSE canary.after
      <3>1. CASE Open = {}
        <4>1. n = canary.after + 1
          BY Zenon, <2>2, <3>1 DEF Bound, BaseBound, Intent
        <4>2. n \in Ids
          BY <2>1, <2>3, <4>1
        <4>3. ops[n].by = NONE
          BY Zenon, <2>2, <4>1, <4>2 DEF Layout, Signed
        <4>4. replaced' \in ReplacedRow
          <5>1. ops[n].source \in Blocks /\ max \in Nat
            BY Zenon, <4>2, RowFacts, PolicyAssumption DEF OpRow
          <5> QED BY Zenon, <2>1, <2>2, <5>1 DEF ReplacedRow
        <4>5. Replacement' /\ Base' = n
          BY Zenon, <2>2, <4>3, <4>4, NoneAssumption DEF Replacement, Base
        <4> QED BY <2>3, <3>1, <4>1, <4>2, <4>5
      <3>2. CASE Open # {}
        <4>1. PICK K \in Open : Intent = manual[K] /\ Intent # NONE
          BY Zenon, <3>2 DEF IntentIsLast
        <4>2. n = manual[K].after + 1 /\ manual[K].after > Base /\ manual[K].after \in Nat /\ manual[K].id # NONE
          BY Zenon, <2>2, <4>1, ManualFacts DEF Bound, Layout, Claiming, Open
        <4>3. n \in Ids
          BY <2>1, <4>2
        <4>4. ops[n].by = manual[K].id
          BY Zenon, <4>2, <4>3 DEF Layout, Claiming
        <4>5. ~Replacement' /\ Base' = canary.after
          BY Zenon, <2>2, <4>2, <4>4 DEF Replacement, Base
        <4> QED BY <2>3, <3>2, <4>2, <4>3, <4>5
      <3> QED BY Zenon, <3>1, <3>2
    <2>6. replaced' \in ReplacedRow /\ replaced' # NONE
      <3>1. ops[n].source \in Blocks /\ max \in Nat
        BY Zenon, <2>5, RowFacts, PolicyAssumption DEF OpRow
      <3>2. replaced' \in ReplacedRow
        BY Zenon, <2>2, <3>1 DEF ReplacedRow
      <3> QED BY Zenon, <3>2, NoneAssumption
    <2>7. EventTypes' /\ Events'
      BY Zenon, <2>1, <2>2, <2>4, <2>5, <2>6 DEF Layout, EventTypes, Events
    <2>8. ASSUME NEW k \in DOMAIN manual PROVE Anchored(k)' /\ Ordered(k)'
      <3>1. Anchored(k) /\ Ordered(k)
        BY Zenon DEF Layout
      <3> QED BY Zenon, <2>2, <2>4, <3>1 DEF Anchored, Ordered
    <2>9. ASSUME NEW k \in Open PROVE Claiming(k)'
      <3>1. Claiming(k) /\ Base' = Base
        BY Zenon, <2>3, <2>5 DEF Layout
      <3> QED BY Zenon, <2>2, <2>4, <3>1 DEF Claiming
    <2>10. ASSUME NEW i \in Ids PROVE Signed(i)'
      <3>1. Signed(i)
        BY Zenon DEF Layout
      <3>2. i > Base' + 1 => i > Base + 1
        BY <2>1, <2>3, <2>5
      <3>3. ~(i = replaced'.after + 1)
        BY <2>1, <2>2
      <3> QED BY Zenon, <2>2, <2>4, <3>1, <3>2, <3>3 DEF Signed, Matches
    <2> QED BY Zenon, <2>2, <2>4, <2>7, <2>8, <2>9, <2>10 DEF Layout
  (* Every tick keeps the layout. *)
  <1>TickLayout.
      ASSUME IInv, Layout, Computed, IInv', Tick
      PROVE  Layout'
    <2> USE <1>TickLayout
    <2>1. TypeOK /\ TypeOK' /\ IntentIsLast /\ CanaryRequests \subseteq {NONE} \cup CanaryRow
      BY Zenon, RowFacts, PolicyAssumption DEF IInv, Computed, CanaryRequests, CanaryRow
    <2>2. ASSUME NEW c \in {NONE} \cup CanaryRow, NEW r, TickReconcile(c, r) PROVE Layout'
      <3>1. PICK i \in Pending : ops' = IF Verdict(i) = "pending" THEN [ops EXCEPT ![i].through = ScanEnd(i)]
                                        ELSE [ops EXCEPT ![i].state = Verdict(i)]
        BY Zenon, <2>2 DEF TickReconcile
      <3>2. canary' = canary /\ UNCHANGED <<replaced, manual>>
        BY Zenon, <2>2, <3>1 DEF TickReconcile, TickOpen, CanaryAccepted, ArmedCanary
      <3>3. i \in Ids /\ ops[i].state = "dispatching"
        BY Zenon DEF Pending
      <3>4. ops \in Seq(OpRow) /\ \A j \in Ids : ops[j] \in OpRow
        BY Zenon, <2>1, RowFacts DEF TypeOK
      <3>5. Ids' = Ids /\ Len(ops') = Len(ops)
        <4>1. DOMAIN ops' = DOMAIN ops
          BY Zenon, <3>1
        <4>2. Len(ops) \in Nat /\ DOMAIN ops = 1..Len(ops) /\ Len(ops') \in Nat /\ DOMAIN ops' = 1..Len(ops')
          BY <2>1 DEF TypeOK
        <4> QED BY <4>1, <4>2 DEF Ids
      <3>6. ASSUME NEW j \in Ids
            PROVE  /\ ops'[j].by = ops[j].by /\ ops'[j].amount = ops[j].amount
                   /\ ops'[j].source = ops[j].source /\ ops'[j].bucket = ops[j].bucket
                   /\ ops[j].state # "dispatching" => ops'[j].state = ops[j].state
        BY Zenon, <3>1, <3>3, <3>4 DEF OpRow, Ids
      <3> QED BY Zenon, <3>2, <3>5, <3>6, <1>RewriteOK
    <2>3. ASSUME NEW c \in {NONE} \cup CanaryRow, TickObserve(c) \/ TickSpacing(c) \/ TickComplete(c) PROVE Layout'
      BY Zenon, <2>1, <2>3, <1>StillOK DEF TickObserve, TickSpacing, TickComplete, TickOpen
    <2>4. ASSUME NEW c \in {NONE} \cup CanaryRow, TickDistribute(c) PROVE Layout'
      <3>1. PICK s \in Blocks : \E b \in First(OpenBuckets(s)) : \E amount \in
               {IF ArmedCanary(c) = NONE THEN Remaining(s, b)
                ELSE Min({Remaining(s, b), Bound(ArmedCanary(c)).max})} :
               Reserve(s, b, amount, MaxDistribution, NONE)
        BY <2>4, Zenon DEF TickDistribute
      <3>2. PICK b \in First(OpenBuckets(s)) : \E amount \in
               {IF ArmedCanary(c) = NONE THEN Remaining(s, b)
                ELSE Min({Remaining(s, b), Bound(ArmedCanary(c)).max})} :
               Reserve(s, b, amount, MaxDistribution, NONE)
        BY Zenon, <3>1
      <3>3. PICK amount : /\ amount = IF ArmedCanary(c) = NONE THEN Remaining(s, b)
                                      ELSE Min({Remaining(s, b), Bound(ArmedCanary(c)).max})
                          /\ Reserve(s, b, amount, MaxDistribution, NONE)
        BY Zenon, <3>2
      <3>4. TickOpen(c, NONE) /\ Pending = {} /\ Intent = NONE
        BY Zenon, <2>4 DEF TickDistribute
      <3>5. ArmedCanary(c) # NONE => amount <= Bound(ArmedCanary(c)).max
        <4> SUFFICES ASSUME ArmedCanary(c) # NONE PROVE amount <= Bound(ArmedCanary(c)).max
          BY Zenon
        <4>1. Bound(ArmedCanary(c)).max \in Nat
          BY Zenon, <2>1, <3>4, EventFacts DEF Bound, BaseBound, ArmedCanary, CanaryRow, Layout
        <4>2. Remaining(s, b) \in Int
          BY Zenon DEF Computed, First, OpenBuckets
        <4>3. \E x \in {Remaining(s, b), Bound(ArmedCanary(c)).max} :
                 \A y \in {Remaining(s, b), Bound(ArmedCanary(c)).max} : x <= y
          BY <4>1, <4>2
        <4> QED BY Zenon, <3>3, <4>3 DEF Min
      <3> QED BY Zenon, <2>1, <3>3, <3>4, <3>5, <1>AutoOK
    <2>5. ASSUME NEW r \in RequestIds, TickManual(r) \/ TickBatch(r) PROVE Layout'
      <3>1. TickOpen(NONE, r) /\ Pending = {}
        BY Zenon, <2>5 DEF TickManual, TickBatch, IntentDue
      <3>2. Intent # NONE
        BY Zenon, <3>1, NoneAssumption DEF TickOpen
      <3>3. PICK ceiling : Reserve(Intent.source, Intent.bucket, Intent.amount, ceiling, r)
        BY Zenon, <2>5, <3>2 DEF TickManual, TickBatch, Selects
      <3> QED BY Zenon, <2>1, <3>1, <3>3, <1>SignOK
    <2>6. \A c \in CanaryRequests : c \in {NONE} \cup CanaryRow
      BY Zenon, <2>1
    <2> QED BY <2>2, <2>3, <2>4, <2>5, <2>6, Zenon DEF Tick
  (* Every operator command keeps the layout. *)
  <1>OperatorLayout.
      ASSUME IInv, Layout, Computed, Operator
      PROVE  Layout'
    <2> USE <1>OperatorLayout
    <2>1. TypeOK /\ IntentIsLast
      BY Zenon DEF IInv, Computed
    <2>2. ASSUME UNCHANGED <<ops, canary, replaced, manual>> PROVE Layout'
      BY Zenon, <2>2, <1>RewriteOK DEF Ids
    <2>3. ASSUME NEW n, ObserveEarnings(n) PROVE Layout'
      BY Zenon, <2>2, <2>3 DEF ObserveEarnings
    <2>4. ASSUME NEW s, ObserveEarningSource(s) PROVE Layout'
      BY Zenon, <2>2, <2>4 DEF ObserveEarningSource
    <2>5. ASSUME NEW id \in RequestIds, NEW b \in Buckets, NEW claims \in Claims, NEW floor \in RetainedFloors,
                 NEW expires \in head+1 .. head+ArmWindow, NEW batch \in BOOLEAN,
                 batch \/ Cardinality(DOMAIN claims) = 1,
                 ArmManual(RequestOf(id, b, claims, floor, expires, batch))
          PROVE  Layout'
      <3>1. PICK m : m = RequestOf(id, b, claims, floor, expires, batch)
        BY Zenon
      <3>2. m \in ManualRow /\ ~m.closed /\ (~m.batch => m.sources = [s \in {m.source} |-> m.amount])
        BY <2>5, <3>1 DEF Computed, RequestsFit
      <3>3. /\ ArmReady /\ m.after = Len(ops) /\ manual' = Append(manual, m)
            /\ \A k \in DOMAIN manual : manual[k].id # m.id
            /\ UNCHANGED <<ops, canary, replaced>>
        BY Zenon, <2>5, <3>1 DEF ArmManual
      <3> QED BY Zenon, <2>1, <3>2, <3>3, <1>ArmOK
    <2>6. ASSUME NEW max \in CanaryCeilings, ReplaceFailedCanary(max) PROVE Layout'
      BY Zenon, <2>1, <2>6, <1>ReplaceOK
    <2>7. ASSUME ExpireUnsigned PROVE Layout'
      BY Zenon, <2>1, <2>7, <1>CloseOK
    <2> QED BY <2>3, <2>4, <2>5, <2>6, <2>7, Zenon DEF Operator
  (* The chain does not write the journal. *)
  <1>NetworkLayout.
      ASSUME Layout, Network
      PROVE  Layout'
    <2> USE <1>NetworkLayout
    <2>1. UNCHANGED <<ops, canary, replaced, manual>>
      BY Zenon DEF Network, Broadcast, LoseBroadcast, NextBlock, journal
    <2> QED BY Zenon, <2>1, <1>RewriteOK DEF Ids
  <1>1. ASSUME Layout, UNCHANGED vars PROVE Layout'
    BY Zenon, <1>1, <1>RewriteOK DEF vars, journal, Ids
  <1> QED BY Zenon, <1>1, <1>TickLayout, <1>OperatorLayout, <1>NetworkLayout DEF Next

-----------------------------------------------------------------------------
(* What the layout says. *)

(* Requests are told apart by their ids, open ones by their anchors too.   *)
LEMMA UniqueRequest ==
    ASSUME Layout, NEW j \in DOMAIN manual, NEW k \in DOMAIN manual
    PROVE  /\ manual[j].id = manual[k].id => j = k
           /\ (j \in Open /\ k \in Open /\ manual[j].after = manual[k].after) => j = k
  <1>1. j \in Nat /\ k \in Nat /\ manual[j].after \in Nat /\ manual[k].after \in Nat
    BY ManualFacts DEF Layout
  <1>2. Ordered(j) /\ Ordered(k)
    BY Zenon DEF Layout
  <1>3. ASSUME j < k
        PROVE  manual[j].id # manual[k].id /\ (j \in Open => manual[j].after < manual[k].after)
    BY Zenon, <1>2, <1>3 DEF Ordered
  <1>4. ASSUME k < j
        PROVE  manual[k].id # manual[j].id /\ (k \in Open => manual[k].after < manual[j].after)
    BY Zenon, <1>2, <1>4 DEF Ordered
  <1> QED BY <1>1, <1>3, <1>4

(* source_operations: the journal attributes each operation to the         *)
(* receipts it was signed for.                                             *)
LEMMA Attribution ==
    ASSUME TypeOK, Layout, NEW i \in Ids, NEW s \in Blocks
    PROVE  Took(i, s) = Drew(i, s)
  <1>1. i \in Nat /\ Signed(i)
    BY RowFacts DEF Layout
  <1>2. \A k \in BatchOf(i) : k \in Open /\ k \in DOMAIN manual /\ manual[k].batch /\ manual[k].after = i - 1
    BY Zenon DEF BatchOf, Open
  <1>3. CASE ops[i].by = NONE
    <2>1. ASSUME NEW k \in BatchOf(i) PROVE FALSE
      <3>1. k \in Open /\ k \in DOMAIN manual /\ i = manual[k].after + 1
        BY <1>1, <1>2
      <3>2. ops[i].by = manual[k].id
        BY Zenon, <3>1 DEF Layout, Claiming
      <3> QED BY Zenon, <1>3, <3>1, <3>2, ManualFacts DEF Layout
    <2> QED BY Zenon, <1>3, <2>1 DEF Took, Drew
  <1>4. CASE ops[i].by # NONE
    <2>1. PICK k \in Open : manual[k].id = ops[i].by /\ manual[k].after = i - 1 /\ Matches(i, manual[k])
      BY Zenon, <1>1, <1>4 DEF Signed
    <2>2. k \in DOMAIN manual
      BY Zenon DEF Open
    <2> DEFINE named == CHOOSE j \in DOMAIN manual : manual[j].id = ops[i].by
    <2>3. named = k
      <3>1. \A j \in DOMAIN manual : manual[j].id = ops[i].by => j = k
        BY Zenon, <2>1, <2>2, UniqueRequest
      <3> QED BY Zenon, <2>1, <2>2, <3>1
    <2>4. Drew(i, s) = IF s \in DOMAIN manual[k].sources THEN manual[k].sources[s] ELSE 0
      <3>1. Drew(i, s) = IF s \in DOMAIN manual[named].sources THEN manual[named].sources[s] ELSE 0
        BY Zenon, <1>4 DEF Drew
      <3> HIDE DEF named
      <3> QED BY Zenon, <2>3, <3>1
    <2>5. \A j \in BatchOf(i) : j = k
      BY Zenon, <1>2, <2>1, <2>2, UniqueRequest
    <2>6. CASE manual[k].batch
      <3>1. BatchOf(i) = {k}
        BY Zenon, <2>1, <2>2, <2>5, <2>6 DEF BatchOf, Open
      <3>2. (CHOOSE j \in BatchOf(i) : TRUE) = k
        BY Zenon, <3>1
      <3> QED BY Zenon, <2>4, <3>1, <3>2 DEF Took
    <2>7. CASE ~manual[k].batch
      <3>1. BatchOf(i) = {}
        BY Zenon, <1>2, <2>5, <2>7
      <3>2. manual[k].sources = [t \in {manual[k].source} |-> manual[k].amount]
        BY Zenon, <2>2, <2>7 DEF Layout, Anchored
      <3>3. Drew(i, s) = IF s = manual[k].source THEN manual[k].amount ELSE 0
        BY Zenon, <2>4, <3>2
      <3>4. Took(i, s) = IF ops[i].source = s THEN ops[i].amount ELSE 0
        BY Zenon, <3>1 DEF Took
      <3> QED BY Zenon, <2>1, <3>3, <3>4 DEF Matches
    <2> QED BY Zenon, <2>6, <2>7
  <1> QED BY Zenon, <1>3, <1>4

(* Where the layout holds, so does the attribution. *)
LEMMA LayoutAttributes == TypeOK /\ Layout => IntentAttributed
  <1> SUFFICES ASSUME TypeOK, Layout, NEW i \in Ids
               PROVE  /\ \A s \in Blocks : Took(i, s) = Drew(i, s)
                      /\ \A j \in Ids : (ops[i].by # NONE /\ ops[i].by = ops[j].by) => i = j
                      /\ \A k \in DOMAIN manual : manual[k].closed => ops[i].by # manual[k].id
    BY Zenon DEF IntentAttributed
  <1>1. \A j \in Ids : j \in Nat
    BY RowFacts
  <1>2. ASSUME NEW j \in Ids, ops[i].by # NONE, ops[i].by = ops[j].by PROVE i = j
    <2>1. PICK k \in Open : manual[k].id = ops[i].by /\ manual[k].after = i - 1
      BY Zenon, <1>2 DEF Layout, Signed
    <2>2. PICK l \in Open : manual[l].id = ops[j].by /\ manual[l].after = j - 1
      BY Zenon, <1>2 DEF Layout, Signed
    <2>3. k = l
      BY Zenon, <1>2, <2>1, <2>2, UniqueRequest DEF Open
    <2> QED BY <1>1, <2>1, <2>2, <2>3
  <1>3. ASSUME NEW k \in DOMAIN manual, manual[k].closed, ops[i].by = manual[k].id PROVE FALSE
    <2>1. ops[i].by # NONE
      BY Zenon, <1>3, ManualFacts DEF Layout
    <2>2. PICK l \in Open : manual[l].id = ops[i].by
      BY Zenon, <2>1 DEF Layout, Signed
    <2>3. k = l
      BY Zenon, <1>3, <2>2, UniqueRequest DEF Open
    <2> QED BY Zenon, <1>3, <2>3 DEF Open
  <1> QED BY Zenon, <1>2, <1>3, Attribution

(* Where the layout holds, the history is readable. *)
LEMMA LayoutReadable == TypeOK /\ Layout /\ SmallSets => HistoryReadable
  (* What manual_transfer_history reads between an open request and the next *)
  (* is that request's claim.                                                *)
  <1>ManualReadable.
      ASSUME TypeOK, Layout, SmallSets
      PROVE  ManualHistoryOK
    <2> USE <1>ManualReadable
    <2>1. Len(ops) \in Nat /\ Ids = 1..Len(ops) /\ \A k \in DOMAIN manual : k \in Nat /\ manual[k].after \in Nat
      BY RowFacts, ManualFacts DEF Layout
    <2>2. ASSUME NEW j \in DOMAIN manual, NEW k \in DOMAIN manual, j < k
          PROVE  /\ manual[j].id # manual[k].id /\ manual[j].after <= manual[k].after
                 /\ (k = j + 1 /\ manual[j].after = manual[k].after) => manual[j].closed
      <3>1. Ordered(k)
        BY Zenon DEF Layout
      <3> QED BY <2>1, <2>2, <3>1 DEF Ordered, Open
    <2>3. ASSUME NEW k \in Open, NEW later, later = {j \in Open : j > k},
                 NEW claims, claims = ClaimsBetween(manual[k].after,
                                         IF later = {} THEN Len(ops) ELSE manual[Min(later)].after)
          PROVE  /\ Cardinality(claims) <= 1
                 /\ \A i \in claims : Matches(i, manual[k])
                 /\ later # {} => claims # {} /\ \A i \in claims : ops[i].state = "finalized"
      <3>1. k \in DOMAIN manual /\ k \in Nat /\ manual[k].after \in Nat /\ Claiming(k)
        BY Zenon, <2>1 DEF Open, Layout
      <3>2. PICK hi \in Nat : /\ hi = IF later = {} THEN Len(ops) ELSE manual[Min(later)].after
                              /\ hi <= manual[k].after + 1 /\ hi <= Len(ops)
                              /\ later # {} => hi = manual[k].after + 1
        <4>1. CASE later = {}
          <5>1. \A j \in Open : j <= k
            <6>1. \A j \in Open : j \in Nat /\ ~(j > k)
              BY Zenon, <2>1, <2>3, <4>1 DEF Open
            <6> QED BY <3>1, <6>1
          <5>2. Len(ops) <= manual[k].after + 1
            BY Zenon, <3>1, <5>1 DEF Claiming
          <5> QED BY <2>1, <4>1, <5>2
        <4>2. CASE later # {}
          <5>1. later \in SUBSET Nat
            BY Zenon, <2>1, <2>3 DEF Open
          <5>2. PICK l \in later : l = Min(later) /\ \A j \in later : l <= j
            BY Zenon, <4>2, <5>1 DEF SmallSets
          <5>3. l \in Open /\ k < l /\ l \in Nat
            BY Zenon, <2>3, <3>1, <5>1
          <5>4. \A j \in Open : ~(k < j /\ j < l)
            <6>1. \A j \in Open : j \in Nat /\ (k < j => l <= j)
              BY Zenon, <2>1, <2>3, <3>1, <5>2 DEF Open
            <6> QED BY <5>3, <6>1
          <5>5. manual[l].after = manual[k].after + 1
            BY Zenon, <5>3, <5>4, NextAnchor
          <5>6. manual[l].after \in Ids
            BY Zenon, <5>3 DEF Layout, Anchored, Open
          <5> QED BY <2>1, <3>1, <4>2, <5>2, <5>5, <5>6
        <4> QED BY Zenon, <4>1, <4>2
      <3>3. claims = {i \in Ids : manual[k].after < i /\ i <= hi}
        BY Zenon, <2>3, <3>2 DEF ClaimsBetween
      <3>4. \A i \in claims : i \in Ids /\ i = manual[k].after + 1
        BY <2>1, <3>1, <3>2, <3>3
      <3>5. ASSUME NEW i \in claims PROVE Matches(i, manual[k])
        <4>1. ops[i].by = manual[k].id /\ manual[k].id # NONE /\ i \in Ids
          BY Zenon, <3>1, <3>4, ManualFacts DEF Claiming, Layout
        <4>2. PICK l \in Open : manual[l].id = ops[i].by /\ Matches(i, manual[l])
          BY Zenon, <4>1 DEF Layout, Signed
        <4>3. l = k
          BY Zenon, <3>1, <4>1, <4>2, UniqueRequest DEF Open
        <4> QED BY Zenon, <4>2, <4>3
      <3>6. ASSUME later # {}
            PROVE  claims # {} /\ \A i \in claims : ops[i].state = "finalized"
        <4>1. PICK j \in Open : j > k
          BY Zenon, <2>3, <3>6
        <4>2. manual[k].after + 1 \in Ids /\ ops[manual[k].after + 1].state = "finalized"
          BY Zenon, <3>1, <4>1 DEF Claiming
        <4>3. manual[k].after + 1 \in claims
          BY <3>1, <3>2, <3>3, <3>6, <4>2
        <4> QED BY Zenon, <3>4, <4>2, <4>3
      <3>7. Cardinality(claims) <= 1
        <4>1. claims \in SUBSET {manual[k].after + 1}
          BY Zenon, <3>4
        <4> QED BY Zenon, <4>1 DEF SmallSets
      <3> QED BY Zenon, <3>5, <3>6, <3>7
    <2> QED BY <2>2, <2>3, Zenon DEF ManualHistoryOK
  (* What transfer_canary reads between the canary, or its replacement, and  *)
  (* the first open request is the one claim it bounds.                      *)
  <1>CanaryReadable.
      ASSUME TypeOK, Layout, SmallSets, replaced # NONE => Replacement
      PROVE  CanaryHistoryOK
    <2> USE <1>CanaryReadable
    <2> SUFFICES ASSUME canary # NONE,
                        NEW bound, bound = BaseBound(canary),
                        NEW claims, claims = ClaimsBetween(bound.after,
                                      IF Open = {} THEN Len(ops) ELSE manual[Min(Open)].after)
                 PROVE  /\ replaced # NONE =>
                             /\ replaced.after = canary.after + 1
                             /\ ops[replaced.after].state = "failed"
                             /\ ops[replaced.after].source = replaced.source
                             /\ ops[replaced.after].amount <= canary.max
                        /\ Cardinality(claims) <= 1
                        /\ \A i \in claims : ops[i].amount <= bound.max
      BY Zenon DEF CanaryHistoryOK
    <2>1. /\ Len(ops) \in Nat /\ Ids = 1..Len(ops)
          /\ canary.after \in Nat /\ Base \in Nat /\ Base <= Len(ops)
          /\ \A k \in DOMAIN manual : k \in Nat /\ manual[k].after \in Nat
      BY RowFacts, EventFacts, ManualFacts DEF Layout
    <2>2. replaced # NONE => /\ replaced.after = canary.after + 1 /\ replaced.after \in Ids
                             /\ ops[replaced.after].state = "failed"
                             /\ ops[replaced.after].source = replaced.source
                             /\ ops[replaced.after].amount <= canary.max
      BY Zenon DEF Layout, Events, Signed
    <2>3. bound.after = Base /\ bound.max = IF replaced = NONE THEN canary.max ELSE replaced.max
      BY Zenon DEF BaseBound, Base, Replacement
    <2>4. PICK hi \in Nat : /\ hi = IF Open = {} THEN Len(ops) ELSE manual[Min(Open)].after
                            /\ hi <= Base + 1 /\ hi <= Len(ops)
      <3>1. CASE Open = {}
        <4>1. \A i \in Ids : i <= Base + 1
          BY <2>1, <3>1 DEF Layout, Signed
        <4>2. Len(ops) <= Base + 1
          BY <2>1, <4>1
        <4> QED BY <2>1, <3>1, <4>2
      <3>2. CASE Open # {}
        <4>1. Open \in SUBSET Nat
          BY Zenon, <2>1 DEF Open
        <4>2. PICK k \in Open : k = Min(Open) /\ \A j \in Open : k <= j
          BY Zenon, <3>2, <4>1 DEF SmallSets
        <4>3. k \in DOMAIN manual /\ manual[k].after \in Ids
          BY Zenon DEF Open, Layout, Anchored
        <4>4. ASSUME manual[k].after >= Base + 2 PROVE FALSE
          <5>1. PICK i \in Ids : i = Base + 2
            BY <2>1, <4>3, <4>4
          <5>2. ops[i].by # NONE
            BY <2>1, <5>1 DEF Layout, Signed
          <5>3. PICK l \in Open : manual[l].after = i - 1
            BY Zenon, <5>2 DEF Layout, Signed
          <5>4. l \in DOMAIN manual /\ k <= l /\ l \in Nat /\ k \in Nat /\ manual[l].after \in Nat
            BY Zenon, <2>1, <4>1, <4>2 DEF Open
          <5>5. k < l => manual[k].after < manual[l].after
            BY Zenon, <4>3, <5>4 DEF Layout, Ordered
          <5> QED BY <2>1, <4>3, <4>4, <5>1, <5>3, <5>4, <5>5
        <4> QED BY <2>1, <3>2, <4>2, <4>3, <4>4
      <3> QED BY Zenon, <3>1, <3>2
    <2>5. \A i \in claims : i \in Ids /\ i = Base + 1
      BY <2>1, <2>3, <2>4 DEF ClaimsBetween
    <2>6. ASSUME NEW i \in claims PROVE ops[i].amount <= bound.max
      <3>1. Signed(i)
        BY Zenon, <2>5 DEF Layout
      <3> QED BY Zenon, <2>3, <2>5, <3>1 DEF Signed, Base, Replacement
    <2>7. Cardinality(claims) <= 1
      <3>1. claims \in SUBSET {Base + 1}
        BY Zenon, <2>5
      <3> QED BY Zenon, <3>1 DEF SmallSets
    <2> QED BY Zenon, <2>2, <2>6, <2>7
  <1> QED BY Zenon, <1>ManualReadable, <1>CanaryReadable DEF HistoryReadable, Readable, Replacement

(* Where the layout holds, the canary bounds one claim. *)
LEMMA LayoutBounds == IInv /\ Layout => CanaryBounded
  <1> SUFFICES ASSUME IInv, Layout, canary # NONE,
                      NEW i \in Ids, i > canary.after, ops[i].by = NONE, fate[i].outcome = "paid"
               PROVE  /\ ops[i].amount <= IF replaced # NONE /\ i > replaced.after THEN replaced.max ELSE canary.max
                      /\ i = IF Replacement THEN canary.after + 2 ELSE canary.after + 1
    BY Zenon DEF CanaryBounded
  <1>1. /\ TypeOK /\ Len(ops) \in Nat /\ Ids = 1..Len(ops) /\ canary.after \in Nat /\ Base \in Nat
        /\ replaced # NONE => replaced.after \in Nat
    BY Zenon, RowFacts, EventFacts DEF IInv, Layout
  <1>2. Signed(i) /\ i <= Base + 1
    BY <1>1 DEF Layout, Signed
  <1>3. CASE ~Replacement
    <2>1. i = canary.after + 1 /\ (replaced # NONE => canary.after < replaced.after)
      BY <1>1, <1>2, <1>3 DEF Base, Layout, Events
    <2>2. ~(replaced # NONE /\ i > replaced.after)
      BY <1>1, <2>1
    <2> QED BY Zenon, <1>2, <1>3, <2>1, <2>2 DEF Signed
  <1>4. CASE Replacement
    <2>1. /\ replaced # NONE /\ replaced.after = canary.after + 1 /\ replaced.after \in Ids
          /\ ops[replaced.after].state = "failed" /\ Base = replaced.after
      BY Zenon, <1>4 DEF Replacement, Layout, Events, Base
    <2>2. i # replaced.after
      <3>1. fate[replaced.after].outcome \in {"failed", "toolow"}
        BY Zenon, <2>1 DEF IInv, OpInv
      <3> QED BY Zenon, <3>1
    <2>3. i = replaced.after + 1
      BY <1>1, <1>2, <2>1, <2>2
    <2> QED BY <1>1, <1>2, <1>4, <2>1, <2>3 DEF Signed
  <1> QED BY Zenon, <1>3, <1>4

-----------------------------------------------------------------------------
(* The journal implements what TransferJournal promises. *)

(* What the mapping says of a request: an armed one is open or closed, a   *)
(* signed one has the state of its operation.                              *)
Mapped ==
    /\ IntentOf = [r \in RequestIds |-> IntentOf[r]] /\ ClaimOf = [r \in RequestIds |-> ClaimOf[r]]
    /\ \A k \in DOMAIN manual : /\ manual[k].id \in RequestIds
                                /\ IntentOf[manual[k].id] = IF manual[k].closed THEN "closed" ELSE "armed"
    /\ \A r \in RequestIds : (\A k \in DOMAIN manual : manual[k].id # r) => IntentOf[r] = "none"
    /\ \A i \in Ids : ops[i].by # NONE =>
          ops[i].by \in RequestIds /\ ClaimOf[ops[i].by] = ops[i].state
    /\ \A r \in RequestIds : (\A i \in Ids : ops[i].by # r) => ClaimOf[r] = "none"

(* It says so in every state whose events fit the operations. *)
LEMMA MappedHolds ==
    ASSUME TypeOK, Layout, IntentAttributed
    PROVE  Mapped
  <1>1. /\ DOMAIN IntentOf = RequestIds /\ DOMAIN ClaimOf = RequestIds
        /\ IntentOf = [r \in RequestIds |-> IntentOf[r]] /\ ClaimOf = [r \in RequestIds |-> ClaimOf[r]]
    BY Zenon DEF IntentOf, ClaimOf
  <1>2. ASSUME NEW k \in DOMAIN manual
        PROVE  /\ manual[k].id \in RequestIds
               /\ IntentOf[manual[k].id] = IF manual[k].closed THEN "closed" ELSE "armed"
    <2>1. manual[k].id \in RequestIds
      BY Zenon, ManualFacts DEF Layout
    <2>2. \A j \in DOMAIN manual : manual[j].id = manual[k].id => j = k
      BY Zenon, UniqueRequest
    <2> QED BY Zenon, <2>1, <2>2 DEF IntentOf
  <1>3. ASSUME NEW r \in RequestIds, \A k \in DOMAIN manual : manual[k].id # r PROVE IntentOf[r] = "none"
    BY Zenon, <1>3 DEF IntentOf
  <1>4. ASSUME NEW i \in Ids, ops[i].by # NONE
        PROVE  ops[i].by \in RequestIds /\ ClaimOf[ops[i].by] = ops[i].state
    <2>1. ops[i].by \in RequestIds
      BY Zenon, <1>4, RowFacts DEF OpRow
    <2> DEFINE claim == CHOOSE j \in Ids : ops[j].by = ops[i].by
    <2>2. claim = i
      <3>1. \A j \in Ids : ops[j].by = ops[i].by => j = i
        BY Zenon, <1>4 DEF IntentAttributed
      <3> QED BY Zenon, <3>1
    <2>3. ClaimOf[ops[i].by] = ops[claim].state
      BY Zenon, <2>1 DEF ClaimOf
    <2> HIDE DEF claim
    <2> QED BY Zenon, <2>1, <2>2, <2>3
  <1>5. ASSUME NEW r \in RequestIds, \A i \in Ids : ops[i].by # r PROVE ClaimOf[r] = "none"
    BY Zenon, <1>5 DEF ClaimOf
  <1> QED BY Zenon, <1>1, <1>2, <1>3, <1>4, <1>5 DEF Mapped

(* The rows after a step are typed. *)
LEMMA RowPrimed ==
    ASSUME TypeOK'
    PROVE  \A i \in Ids' : ops'[i] \in OpRow /\ fate'[i] \in Fate
  <1>1. ops' \in Seq(OpRow) /\ fate' \in Seq(Fate) /\ Len(fate') = Len(ops')
    BY Zenon DEF TypeOK
  <1>2. Len(ops') \in Nat /\ Ids' = 1..Len(ops')
    BY <1>1 DEF Ids
  <1>3. \A rows \in Seq(OpRow), fates \in Seq(Fate) :
           Len(fates) = Len(rows) => \A i \in 1..Len(rows) : rows[i] \in OpRow /\ fates[i] \in Fate
    OBVIOUS
  <1>4. \A i \in 1..Len(ops') : ops'[i] \in OpRow /\ fate'[i] \in Fate
    BY Zenon, <1>1, <1>3
  <1> QED BY Zenon, <1>2, <1>4

(* Recording an operation leaves the fates of the others; its own is open. *)
LEMMA FateKept ==
    ASSUME TypeOK, NEW s, NEW b, NEW amount, NEW ceiling, NEW by, Reserve(s, b, amount, ceiling, by)
    PROVE  (\A i \in Ids : fate'[i] = fate[i]) /\ fate'[Len(ops) + 1].outcome = "none"
  <1>1. fate \in Seq(Fate) /\ Len(fate) = Len(ops) /\ Ids = 1..Len(ops)
    BY Zenon, RowFacts DEF TypeOK
  <1>2. fate' = Append(fate, Unlanded) /\ Unlanded \in Fate
    BY Zenon DEF Reserve, Unlanded, Fate
  <1>3. (\A i \in 1..Len(fate) : fate'[i] = fate[i]) /\ fate'[Len(fate) + 1] = Unlanded
    BY <1>1, <1>2
  <1> QED BY <1>1, <1>3 DEF Unlanded

(* What can still land is the last operation, which is outstanding. *)
LEMMA LandableLast ==
    ASSUME IInv, NEW i \in Landable
    PROVE  i \in Ids /\ i = Len(ops) /\ ops[i].state = "dispatching"
  <1>1. i \in Ids /\ fate[i].outcome = "none" /\ head < ops[i].expires
    BY Zenon DEF Landable, IInv, TypeOK
  <1>2. ops[i] \in OpRow /\ OpInv(i) /\ head \in Nat
    BY Zenon, <1>1, RowFacts DEF IInv
  <1>3. ops[i].state \in {"dispatching", "finalized", "failed", "expired"} /\ ops[i].expires \in Nat
    BY Zenon, <1>2 DEF OpRow
  <1> QED BY <1>1, <1>2, <1>3 DEF OpInv

(* Every step is a step of the abstract journal, or leaves it as it is.    *)
LEMMA StepMaps ==
    IInv /\ Layout /\ Computed /\ IntentAttributed /\ Mapped /\ IInv' /\ Mapped' /\ [Next]_vars
    => [Journal!Next]_(Journal!vars)
  (* A step that leaves requests, their claims, the clock and the chain's    *)
  (* outcomes alone is no step of the abstract journal.                      *)
  <1>StutterMaps.
      ASSUME UNCHANGED <<ops, manual, head, fate>>
      PROVE  UNCHANGED Journal!vars
    <2> USE <1>StutterMaps
    <2>1. IntentOf' = IntentOf
      BY Zenon DEF IntentOf
    <2>2. ClaimOf' = ClaimOf
      BY Zenon DEF ClaimOf, Ids
    <2>3. LateOf' = LateOf /\ PaidOf' = PaidOf
      BY Zenon DEF LateOf, PaidOf, Ids
    <2> QED BY Zenon, <2>1, <2>2, <2>3 DEF Journal!vars
  (* A step that touches neither the requests nor the head leaves every      *)
  (* request's status alone.                                                 *)
  <1>RequestsStay.
      ASSUME UNCHANGED <<manual, head>>
      PROVE  IntentOf' = IntentOf /\ LateOf' = LateOf
    BY Zenon, <1>RequestsStay DEF IntentOf, LateOf
  (* A step that touches no operation and no fate leaves the claims alone.   *)
  <1>ClaimsStay.
      ASSUME UNCHANGED <<ops, fate>>
      PROVE  ClaimOf' = ClaimOf /\ PaidOf' = PaidOf
    <2> USE <1>ClaimsStay
    <2>1. ClaimOf' = ClaimOf
      BY Zenon DEF ClaimOf, Ids
    <2> QED BY Zenon, <2>1 DEF PaidOf, Ids
  (* A request whose operations are kept keeps its claim. *)
  <1>SameClaim.
      ASSUME Mapped, Mapped', NEW q \in RequestIds,
             \A i \in Ids : ops[i].by = q => i \in Ids' /\ ops'[i].by = q /\ ops'[i].state = ops[i].state,
             \A i \in Ids' : ops'[i].by = q => i \in Ids /\ ops[i].by = q
      PROVE  ClaimOf'[q] = ClaimOf[q]
    <2> USE <1>SameClaim
    <2>1. q # NONE
      BY Zenon, NoneAssumption
    <2>2. CASE \E j \in Ids : ops[j].by = q
      <3>1. PICK j \in Ids : ops[j].by = q
        BY Zenon, <2>2
      <3>2. ClaimOf[q] = ops[j].state
        BY Zenon, <2>1, <3>1 DEF Mapped
      <3>3. j \in Ids' /\ ops'[j].by = q /\ ops'[j].state = ops[j].state
        BY Zenon, <3>1
      <3>4. ClaimOf'[q] = ops'[j].state
        BY Zenon, <2>1, <3>3 DEF Mapped
      <3> QED BY Zenon, <3>2, <3>3, <3>4
    <2>3. CASE \A j \in Ids : ops[j].by # q
      <3>1. \A j \in Ids' : ops'[j].by # q
        BY Zenon, <2>3
      <3> QED BY Zenon, <2>3, <3>1 DEF Mapped
    <2> QED BY Zenon, <2>2, <2>3
  (* reconcile settles the claim of the request it was signed for, if any. *)
  <1>ReconcileMaps.
      ASSUME IInv, IntentAttributed, Mapped, IInv', Mapped', NEW c, NEW r, TickReconcile(c, r)
      PROVE  (\E q \in RequestIds : Journal!Settle(q)) \/ UNCHANGED Journal!vars
    <2> USE <1>ReconcileMaps
    <2>1. PICK i \in Pending : ops' = IF Verdict(i) = "pending" THEN [ops EXCEPT ![i].through = ScanEnd(i)]
                                      ELSE [ops EXCEPT ![i].state = Verdict(i)]
      BY Zenon DEF TickReconcile
    <2>2. UNCHANGED <<manual, head, fate>>
      BY Zenon DEF TickReconcile, chain
    <2>3. i \in Ids /\ ops[i].state = "dispatching" /\ ops[i] \in OpRow
      BY Zenon, RowFacts DEF Pending, IInv
    <2>4. Ids' = Ids /\ \A j \in Ids : j # i => ops'[j] = ops[j]
      BY Zenon, <2>1 DEF Ids
    <2>5. ops'[i].by = ops[i].by /\ ops[i].by \in RequestIds \cup {NONE}
      BY Zenon, <2>1, <2>3 DEF OpRow, Ids
    <2>6. IntentOf' = IntentOf /\ LateOf' = LateOf
      BY Zenon, <2>2, <1>RequestsStay
    <2>7. PaidOf' = PaidOf
      <3>1. \A j \in Ids : ops'[j].by = ops[j].by
        BY Zenon, <2>4, <2>5
      <3> QED BY Zenon, <2>2, <2>4, <3>1 DEF PaidOf
    <2>8. ASSUME NEW q \in RequestIds, ops[i].by # q PROVE ClaimOf'[q] = ClaimOf[q]
      BY Zenon, <2>4, <2>5, <2>8, <1>SameClaim
    <2>9. ClaimOf = [q \in RequestIds |-> ClaimOf[q]] /\ ClaimOf' = [q \in RequestIds |-> ClaimOf'[q]]
      BY Zenon DEF Mapped
    <2>10. CASE ops[i].by = NONE
      <3>1. ClaimOf' = ClaimOf
        BY Zenon, <2>8, <2>9, <2>10, NoneAssumption
      <3> QED BY Zenon, <2>6, <2>7, <3>1 DEF Journal!vars
    <2>11. CASE ops[i].by # NONE
      <3>1. PICK q \in RequestIds : q = ops[i].by
        BY Zenon, <2>5, <2>11
      <3>2. ClaimOf[q] = "dispatching" /\ ClaimOf'[q] = ops'[i].state
        BY ZenonT(60), <2>3, <2>4, <2>5, <2>11, <3>1 DEF Mapped
      <3>3. CASE ops'[i].state = "dispatching"
        <4>1. ClaimOf' = ClaimOf
          BY Zenon, <2>8, <2>9, <3>1, <3>2, <3>3
        <4> QED BY Zenon, <2>6, <2>7, <4>1 DEF Journal!vars
      <3>4. CASE ops'[i].state # "dispatching"
        <4>1. q \in PaidOf <=> fate[i].outcome = "paid"
          BY Zenon, <2>3, <3>1, <2>11 DEF PaidOf, IntentAttributed
        <4>2. /\ ops'[i].state = "finalized" => fate[i].outcome = "paid"
              /\ ops'[i].state = "failed" => fate[i].outcome # "paid"
              /\ ops'[i].state = "expired" => fate[i].outcome # "paid"
              /\ ops'[i].state \in {"finalized", "failed", "expired"}
          <5>1. OpInv(i)' /\ ops'[i] \in OpRow
            BY Zenon, <2>3, <2>4, RowPrimed DEF IInv
          <5> QED BY Zenon, <2>2, <3>4, <5>1 DEF OpInv, OpRow
        <4>3. ClaimOf' = [ClaimOf EXCEPT ![q] = ops'[i].state]
          BY Zenon, <2>8, <2>9, <3>1, <3>2
        <4>4. ops'[i].state \in IF q \in PaidOf THEN {"finalized"} ELSE {"failed", "expired"}
          BY Zenon, <4>1, <4>2
        <4> QED BY Zenon, <2>6, <2>7, <3>2, <4>3, <4>4 DEF Journal!Settle
      <3> QED BY Zenon, <3>3, <3>4
    <2> QED BY Zenon, <2>10, <2>11
  (* An automatic claim is nobody's. *)
  <1>AutoMaps.
      ASSUME TypeOK, TypeOK', Mapped, Mapped',
             NEW s, NEW b, NEW amount, NEW ceiling, Reserve(s, b, amount, ceiling, NONE)
      PROVE  UNCHANGED Journal!vars
    <2> USE <1>AutoMaps
    <2>1. PICK n \in Nat :
          /\ n = Len(ops) /\ Ids = 1..n /\ Ids' = 1..(n + 1)
          /\ \A i \in Ids : ops'[i] = ops[i]
          /\ ops'[n + 1].by = NONE /\ UNCHANGED <<manual, head>>
      BY Zenon, ReserveFacts DEF Reserve
    <2>2. \A q \in RequestIds : ClaimOf'[q] = ClaimOf[q]
      BY <2>1, <1>SameClaim, NoneAssumption
    <2>3. ClaimOf' = ClaimOf
      BY Zenon, <2>2 DEF Mapped
    <2>4. \A i \in Ids : fate'[i] = fate[i]
      BY Zenon, <2>1, FateKept
    <2>5. PaidOf' = PaidOf
      <3>1. \A i \in Ids' : ops'[i].by # NONE => i \in Ids
        BY <2>1
      <3>2. \A i \in Ids : i \in Ids'
        BY <2>1
      <3>3. \A q \in RequestIds : q # NONE
        BY Zenon, NoneAssumption
      <3>4. ASSUME NEW q \in RequestIds
            PROVE  q \in PaidOf' <=> q \in PaidOf
        <4>1. q \in PaidOf <=> \E i \in Ids : ops[i].by = q /\ fate[i].outcome = "paid"
          BY Zenon DEF PaidOf
        <4>2. q \in PaidOf' <=> \E i \in Ids' : ops'[i].by = q /\ fate'[i].outcome = "paid"
          BY Zenon DEF PaidOf
        <4>3. ASSUME NEW i \in Ids', ops'[i].by = q, fate'[i].outcome = "paid"
              PROVE  i \in Ids /\ ops[i].by = q /\ fate[i].outcome = "paid"
          BY ZenonT(60), <2>1, <2>4, <3>1, <3>3, <4>3
        <4>4. ASSUME NEW i \in Ids, ops[i].by = q, fate[i].outcome = "paid"
              PROVE  i \in Ids' /\ ops'[i].by = q /\ fate'[i].outcome = "paid"
          BY ZenonT(60), <2>1, <2>4, <3>2, <4>4
        <4> QED BY Zenon, <4>1, <4>2, <4>3, <4>4
      <3> QED BY Zenon, <3>4 DEF PaidOf
    <2> QED BY Zenon, <2>1, <2>3, <2>5, <1>RequestsStay DEF Journal!vars
  (* Signing the intent in force signs that request, in time. *)
  <1>SignMaps.
      ASSUME TypeOK, TypeOK', Layout, Mapped, Mapped', NEW r \in RequestIds, TickOpen(NONE, r), IntentDue(r), IntentIsLast,
             NEW s, NEW b, NEW amount, NEW ceiling, Reserve(s, b, amount, ceiling, r)
      PROVE  Journal!Sign(r)
    <2> USE <1>SignMaps
    <2>1. Pending = {} /\ head + SigningMargin <= Intent.expires /\ r # NONE
      BY Zenon DEF IntentDue
    <2>2. PICK k \in Open : Intent = manual[k] /\ manual[k].id = r /\ manual[k].after = Len(ops)
      BY Zenon, <2>1, DueFacts
    <2>3. PICK n \in Nat :
          /\ n = Len(ops) /\ Ids = 1..n /\ Ids' = 1..(n + 1)
          /\ \A i \in Ids : ops'[i] = ops[i]
          /\ ops'[n + 1].by = r /\ ops'[n + 1].state = "dispatching" /\ UNCHANGED <<manual, head>>
      BY Zenon, ReserveFacts DEF Reserve
    <2>4. \A i \in Ids : ops[i].by # r
      <3> SUFFICES ASSUME NEW i \in Ids, ops[i].by = r PROVE FALSE
        BY Zenon
      <3>1. PICK j \in Open : manual[j].id = r /\ manual[j].after = i - 1
        BY Zenon, <2>1 DEF Layout, Signed
      <3>2. j = k
        BY Zenon, <2>2, <3>1, UniqueRequest DEF Open
      <3> QED BY <2>2, <2>3, <3>1, <3>2
    <2>5. IntentOf[r] = "armed" /\ ClaimOf[r] = "none"
      BY Zenon, <2>2, <2>4 DEF Mapped, Open
    <2>6. r \notin LateOf
      <3>1. \A j \in DOMAIN manual : manual[j].id = r => j = k
        BY Zenon, <2>2, UniqueRequest DEF Open
      <3>2. ~(head + SigningMargin > manual[k].expires)
        <4>1. head \in Nat /\ SigningMargin \in Nat /\ manual[k].expires \in Nat
          BY Zenon, RowFacts, ManualFacts, PolicyAssumption DEF Layout, Open
        <4> QED BY <2>1, <2>2, <4>1
      <3> QED BY Zenon, <3>1, <3>2 DEF LateOf
    <2>7. ClaimOf' = [ClaimOf EXCEPT ![r] = "dispatching"]
      <3>1. ClaimOf'[r] = "dispatching"
        BY <2>1, <2>3 DEF Mapped
      <3>2. \A q \in RequestIds : q # r => ClaimOf'[q] = ClaimOf[q]
        BY <2>3, <1>SameClaim
      <3>3. ClaimOf = [q \in RequestIds |-> ClaimOf[q]] /\ ClaimOf' = [q \in RequestIds |-> ClaimOf'[q]]
        BY Zenon DEF Mapped
      <3> QED BY Zenon, <3>1, <3>2, <3>3
    <2>8. PaidOf' = PaidOf
      <3>1. \A i \in Ids : fate'[i] = fate[i]
        BY Zenon, <2>3, FateKept
      <3>2. fate'[n + 1].outcome # "paid"
        BY Zenon, <2>3, FateKept
      <3>3. \A i \in Ids' : i \in Ids \/ i = n + 1
        BY <2>3
      <3>4. \A i \in Ids : i \in Ids'
        BY <2>3
      <3> QED BY ZenonT(60), <2>3, <3>1, <3>2, <3>3, <3>4 DEF PaidOf
    <2> QED BY Zenon, <2>3, <2>5, <2>6, <2>7, <2>8, <1>RequestsStay DEF Journal!Sign
  (* Arming a request arms it, when no other one still stands. *)
  <1>ArmMaps.
      ASSUME TypeOK, Layout, IntentIsLast, Mapped, Mapped', ArmReady, NEW m \in ManualRow, ~m.closed,
             \A k \in DOMAIN manual : manual[k].id # m.id,
             manual' = Append(manual, m), UNCHANGED <<ops, head, fate>>
      PROVE  Journal!Arm(m.id) /\ Journal!Grow
    <2> USE <1>ArmMaps
    <2>1. PICK n \in Nat : /\ DOMAIN manual = 1..n /\ DOMAIN manual' = 1..(n + 1)
                           /\ manual'[n + 1] = m /\ \A k \in 1..n : manual'[k] = manual[k]
      <3>1. Len(manual) \in Nat /\ DOMAIN manual = 1..Len(manual) /\ manual \in Seq(ManualRow)
        BY Zenon, ManualFacts DEF Layout, EventTypes
      <3>2. /\ manual' \in Seq(ManualRow) /\ Len(manual') = Len(manual) + 1
            /\ manual'[Len(manual) + 1] = m /\ \A k \in 1..Len(manual) : manual'[k] = manual[k]
        BY <3>1
      <3>3. DOMAIN manual' = 1..Len(manual')
        BY <3>2
      <3> QED BY Zenon, <3>1, <3>2, <3>3
    <2>2. m.id \in RequestIds
      BY Zenon DEF ManualRow
    <2>3. IntentOf[m.id] = "none" /\ m.id \notin LateOf
      BY Zenon, <2>2 DEF Mapped, LateOf
    <2>4. ASSUME NEW q \in RequestIds, IntentOf[q] = "armed" PROVE ClaimOf[q] = "finalized"
      <3>1. PICK k \in DOMAIN manual : manual[k].id = q
        BY Zenon, <2>4 DEF Mapped
      <3>2. k \in Open /\ q # NONE
        BY Zenon, <2>4, <3>1, NoneAssumption DEF Mapped, Open
      <3>3. manual[k].after + 1 \in Ids /\ ops[manual[k].after + 1].state = "finalized"
        BY Zenon, <3>2, ReadyFacts
      <3>4. ops[manual[k].after + 1].by = q
        BY Zenon, <3>1, <3>2, <3>3 DEF Layout, Claiming
      <3> QED BY Zenon, <3>2, <3>3, <3>4 DEF Mapped
    <2>5. IntentOf' = [IntentOf EXCEPT ![m.id] = "armed"]
      <3>1. IntentOf'[m.id] = "armed"
        <4>1. n + 1 \in DOMAIN manual' /\ manual'[n + 1].id = m.id /\ ~manual'[n + 1].closed
          BY <2>1
        <4> QED BY <4>1 DEF Mapped
      <3>2. ASSUME NEW q \in RequestIds, q # m.id PROVE IntentOf'[q] = IntentOf[q]
        <4>1. CASE \E k \in DOMAIN manual : manual[k].id = q
          <5>1. PICK k \in DOMAIN manual : manual[k].id = q
            BY Zenon, <4>1
          <5>2. k \in DOMAIN manual' /\ manual'[k] = manual[k] /\ manual'[k].id = q
            BY <2>1, <5>1
          <5>3. IntentOf'[q] = IF manual'[k].closed THEN "closed" ELSE "armed"
            BY Zenon, <5>2 DEF Mapped
          <5> QED BY <5>1, <5>2, <5>3 DEF Mapped
        <4>2. CASE \A k \in DOMAIN manual : manual[k].id # q
          <5>1. \A k \in DOMAIN manual' : manual'[k].id # q
            BY <2>1, <3>2, <4>2
          <5> QED BY <4>2, <5>1 DEF Mapped
        <4> QED BY Zenon, <4>1, <4>2
      <3>3. IntentOf = [q \in RequestIds |-> IntentOf[q]] /\ IntentOf' = [q \in RequestIds |-> IntentOf'[q]]
        BY Zenon DEF Mapped
      <3> QED BY Zenon, <2>2, <3>1, <3>2, <3>3
    <2>6. LateOf \subseteq LateOf'
      BY <2>1 DEF LateOf
    <2> QED BY Zenon, <2>3, <2>4, <2>5, <2>6, <1>ClaimsStay DEF Journal!Arm, Journal!Grow, Journal!Standing
  (* Recording an unsigned expiry closes a request that is late and unsigned.*)
  <1>CloseMaps.
      ASSUME TypeOK, Layout, IntentIsLast, Mapped, Mapped', ExpireUnsigned
      PROVE  \E q \in RequestIds : Journal!Close(q)
    <2> USE <1>CloseMaps
    <2>1. PICK K \in Open, n \in Nat :
               /\ Intent = manual[K] /\ DOMAIN manual = 1..n /\ K \in 1..n
               /\ manual' \in [1..n -> ManualRow]
               /\ \A k \in 1..n : /\ manual'[k].id = manual[k].id /\ manual'[k].expires = manual[k].expires
                                  /\ manual'[k].closed <=> (manual[k].closed \/ k = K)
      BY ZenonT(60), CloseFacts
    <2>2. PICK q \in RequestIds : q = manual[K].id /\ q # NONE
      BY Zenon, <2>1, ManualFacts DEF Layout
    <2>3. UNCHANGED <<ops, head, fate>> /\ Len(ops) = manual[K].after /\ head >= manual[K].expires
      BY Zenon, <2>1 DEF ExpireUnsigned, chain
    <2>4. IntentOf[q] = "armed"
      BY Zenon, <2>1, <2>2 DEF Mapped, Open
    <2>5. ClaimOf[q] = "none"
      <3>1. ASSUME NEW i \in Ids, ops[i].by = q PROVE FALSE
        <4>1. PICK j \in Open : manual[j].id = q /\ manual[j].after = i - 1
          BY Zenon, <2>2, <3>1 DEF Layout, Signed
        <4>2. j = K
          BY Zenon, <2>2, <4>1, UniqueRequest DEF Open
        <4> QED BY <2>3, <4>1, <4>2, RowFacts
      <3> QED BY Zenon, <3>1 DEF Mapped
    <2>6. q \in LateOf
      <3>1. head \in Nat /\ SigningMargin \in Nat \ {0} /\ manual[K].expires \in Nat
        BY Zenon, <2>1, RowFacts, ManualFacts, PolicyAssumption DEF Layout
      <3>2. head + SigningMargin > manual[K].expires
        BY <2>3, <3>1
      <3> QED BY Zenon, <2>1, <2>2, <3>2 DEF LateOf
    <2>7. DOMAIN manual' = 1..n
      BY Zenon, <2>1
    <2>8. IntentOf' = [IntentOf EXCEPT ![q] = "closed"]
      <3>1. IntentOf'[q] = "closed"
        <4>1. K \in DOMAIN manual' /\ manual'[K].id = q /\ manual'[K].closed
          BY Zenon, <2>1, <2>2, <2>7
        <4> QED BY Zenon, <4>1 DEF Mapped
      <3>2. ASSUME NEW r \in RequestIds, r # q PROVE IntentOf'[r] = IntentOf[r]
        <4>1. CASE \E k \in DOMAIN manual : manual[k].id = r
          <5>1. PICK k \in DOMAIN manual : manual[k].id = r
            BY Zenon, <4>1
          <5>2. k \in DOMAIN manual' /\ manual'[k].id = r /\ (manual'[k].closed <=> manual[k].closed)
            BY Zenon, <2>1, <2>2, <2>7, <3>2, <5>1
          <5>3. IntentOf'[r] = IF manual'[k].closed THEN "closed" ELSE "armed"
            BY Zenon, <5>2 DEF Mapped
          <5>4. IntentOf[r] = IF manual[k].closed THEN "closed" ELSE "armed"
            BY Zenon, <5>1 DEF Mapped
          <5> QED BY Zenon, <5>2, <5>3, <5>4
        <4>2. CASE \A k \in DOMAIN manual : manual[k].id # r
          <5>1. \A k \in DOMAIN manual' : manual'[k].id # r
            BY Zenon, <2>1, <2>7, <4>2
          <5> QED BY ZenonT(60), <4>2, <5>1 DEF Mapped
        <4> QED BY Zenon, <4>1, <4>2
      <3>3. IntentOf = [r \in RequestIds |-> IntentOf[r]] /\ IntentOf' = [r \in RequestIds |-> IntentOf'[r]]
        BY Zenon DEF Mapped
      <3> QED BY Zenon, <3>1, <3>2, <3>3
    <2>9. LateOf' = LateOf
      BY Zenon, <2>1, <2>3, <2>7 DEF LateOf
    <2> QED BY Zenon, <2>3, <2>4, <2>5, <2>6, <2>8, <2>9, <1>ClaimsStay DEF Journal!Close
  (* A block pays at most the outstanding claim, and time only passes. *)
  <1>BlockMaps.
      ASSUME IInv, Layout, IntentAttributed, Mapped, NextBlock
      PROVE  (\E q \in RequestIds : Journal!Pay(q) /\ Journal!Grow) \/ Journal!Lapse
    <2> USE <1>BlockMaps
    <2>1. head' = head + 1 /\ head \in Nat /\ UNCHANGED <<ops, manual>>
      BY Zenon, RowFacts DEF NextBlock, journal, IInv
    <2>2. PICK landed \in SUBSET Landable : \E outcome \in [landed -> {"paid", "failed", "toolow"}] :
            fate' = [i \in Ids |-> IF i \in landed
                                   THEN [outcome |-> outcome[i], block |-> head + 1]
                                   ELSE fate[i]]
      BY Zenon DEF NextBlock
    <2>3. \A i \in Ids : i \notin landed => fate'[i] = fate[i]
      BY Zenon, <2>2
    <2>4. \A i \in landed : i \in Ids /\ i = Len(ops) /\ ops[i].state = "dispatching" /\ fate[i].outcome = "none"
      BY Zenon, <2>2, LandableLast DEF Landable
    <2>5. IntentOf' = IntentOf /\ ClaimOf' = ClaimOf /\ Ids' = Ids
      <3>1. IntentOf' = IntentOf
        BY Zenon, <2>1 DEF IntentOf
      <3>2. ClaimOf' = ClaimOf
        BY Zenon, <2>1 DEF ClaimOf, Ids
      <3> QED BY Zenon, <2>1, <3>1, <3>2 DEF Ids
    <2>6. LateOf \subseteq LateOf'
      <3>1. \A k \in DOMAIN manual : manual[k].expires \in Nat
        BY Zenon, ManualFacts DEF Layout
      <3>2. SigningMargin \in Nat
        BY Zenon, PolicyAssumption
      <3>3. ASSUME NEW r \in LateOf PROVE r \in LateOf'
        <4>1. PICK k \in DOMAIN manual : manual[k].id = r /\ head + SigningMargin > manual[k].expires
          BY Zenon DEF LateOf
        <4>2. head' + SigningMargin > manual[k].expires
          BY <2>1, <3>1, <3>2, <4>1
        <4>3. r \in RequestIds
          BY Zenon DEF LateOf
        <4> QED BY Zenon, <2>1, <4>1, <4>2, <4>3 DEF LateOf
      <3> QED BY Zenon, <3>3
    <2>7. CASE \E i \in landed : ops[i].by # NONE /\ fate'[i].outcome = "paid"
      <3>1. PICK i \in landed : ops[i].by # NONE /\ fate'[i].outcome = "paid"
        BY Zenon, <2>7
      <3>2. PICK q \in RequestIds : q = ops[i].by
        BY Zenon, <2>4, <3>1 DEF Mapped
      <3>3. ClaimOf[q] = "dispatching"
        BY Zenon, <2>4, <3>1, <3>2 DEF Mapped
      <3>4. \A j \in Ids : ops[j].by = q => j = i
        BY Zenon, <2>4, <3>1, <3>2 DEF IntentAttributed
      <3>5. q \notin PaidOf
        BY Zenon, <2>4, <3>4 DEF PaidOf
      <3>6. \A j \in Ids : j # i => fate'[j] = fate[j]
        BY Zenon, <2>3, <2>4
      <3>7. PaidOf' = PaidOf \cup {q}
        BY ZenonT(60), <2>1, <2>4, <2>5, <3>1, <3>2, <3>4, <3>6 DEF PaidOf
      <3> QED BY Zenon, <2>5, <2>6, <3>3, <3>5, <3>7 DEF Journal!Pay, Journal!Grow
    <2>8. CASE ~ \E i \in landed : ops[i].by # NONE /\ fate'[i].outcome = "paid"
      <3>1. \A i \in Ids : ops[i].by # NONE => (fate'[i].outcome = "paid" <=> fate[i].outcome = "paid")
        BY Zenon, <2>3, <2>4, <2>8
      <3>2. PaidOf' = PaidOf
        BY Zenon, <2>1, <2>5, <3>1, NoneAssumption DEF PaidOf
      <3> QED BY Zenon, <2>5, <2>6, <3>2 DEF Journal!Lapse, Journal!Grow
    <2> QED BY Zenon, <2>7, <2>8
  <1> SUFFICES ASSUME IInv, Layout, Computed, IntentAttributed, Mapped, IInv', Mapped', [Next]_vars
               PROVE  [Journal!Next]_(Journal!vars)
    BY Zenon
  <1>1. TypeOK /\ TypeOK' /\ IntentIsLast
    BY Zenon DEF IInv, Computed
  <1>2. ASSUME UNCHANGED <<ops, manual, head, fate>> PROVE UNCHANGED Journal!vars
    BY Zenon, <1>2, <1>StutterMaps
  <1>3. ASSUME NEW c, NEW r, TickReconcile(c, r) PROVE [Journal!Next]_(Journal!vars)
    BY Zenon, <1>3, <1>ReconcileMaps DEF Journal!Next
  <1>4. ASSUME NEW c, TickObserve(c) \/ TickSpacing(c) \/ TickComplete(c) PROVE UNCHANGED Journal!vars
    BY Zenon, <1>2, <1>4 DEF TickObserve, TickSpacing, TickComplete, chain
  <1>5. ASSUME NEW c, TickDistribute(c) PROVE UNCHANGED Journal!vars
    <2>1. \E s \in Blocks : \E b \in First(OpenBuckets(s)) : \E amount \in
             {IF ArmedCanary(c) = NONE THEN Remaining(s, b)
              ELSE Min({Remaining(s, b), Bound(ArmedCanary(c)).max})} :
             Reserve(s, b, amount, MaxDistribution, NONE)
      BY <1>5, Zenon DEF TickDistribute
    <2>2. PICK s, b, amount : Reserve(s, b, amount, MaxDistribution, NONE)
      BY Zenon, <2>1
    <2> QED BY Zenon, <1>1, <2>2, <1>AutoMaps
  <1>6. ASSUME NEW r \in RequestIds, TickManual(r) \/ TickBatch(r) PROVE Journal!Sign(r)
    <2>1. TickOpen(NONE, r) /\ IntentDue(r)
      BY Zenon, <1>6 DEF TickManual, TickBatch
    <2>2. PICK s, b, amount, ceiling : Reserve(s, b, amount, ceiling, r)
      BY Zenon, <1>6 DEF TickManual, TickBatch
    <2> QED BY Zenon, <1>1, <2>1, <2>2, <1>SignMaps
  <1>7. ASSUME Tick PROVE [Journal!Next]_(Journal!vars)
    <2>1. ASSUME NEW r \in RequestIds, TickManual(r) \/ TickBatch(r) PROVE [Journal!Next]_(Journal!vars)
      BY Zenon, <1>6, <2>1 DEF Journal!Next
    <2> QED BY <1>3, <1>4, <1>5, <1>7, <2>1, Zenon DEF Tick
  <1>8. ASSUME NEW n, ObserveEarnings(n) PROVE UNCHANGED Journal!vars
    BY Zenon, <1>2, <1>8 DEF ObserveEarnings, chain
  <1>9. ASSUME NEW s, ObserveEarningSource(s) PROVE UNCHANGED Journal!vars
    BY Zenon, <1>2, <1>9 DEF ObserveEarningSource, chain
  <1>10. ASSUME NEW id \in RequestIds, NEW b \in Buckets, NEW claims \in Claims, NEW floor \in RetainedFloors,
                NEW expires \in head+1 .. head+ArmWindow, NEW batch \in BOOLEAN,
                batch \/ Cardinality(DOMAIN claims) = 1,
                ArmManual(RequestOf(id, b, claims, floor, expires, batch))
         PROVE  [Journal!Next]_(Journal!vars)
    <2>1. PICK m : m = RequestOf(id, b, claims, floor, expires, batch)
      BY Zenon
    <2>2. m \in ManualRow /\ ~m.closed /\ m.id = id
      <3>1. m \in ManualRow /\ ~m.closed
        BY Zenon, <1>10, <2>1 DEF Computed, RequestsFit
      <3> QED BY Zenon, <2>1, <3>1 DEF RequestOf
    <2>3. /\ ArmReady /\ manual' = Append(manual, m)
          /\ \A k \in DOMAIN manual : manual[k].id # m.id
          /\ UNCHANGED <<ops, head, fate>>
      BY Zenon, <1>10, <2>1 DEF ArmManual, chain
    <2>4. Journal!Arm(id) /\ Journal!Grow
      BY Zenon, <1>1, <2>2, <2>3, <1>ArmMaps
    <2> QED BY Zenon, <2>4 DEF Journal!Next
  <1>11. ASSUME ExpireUnsigned PROVE [Journal!Next]_(Journal!vars)
    BY Zenon, <1>1, <1>11, <1>CloseMaps DEF Journal!Next
  <1>12. ASSUME NEW max, ReplaceFailedCanary(max) PROVE UNCHANGED Journal!vars
    BY Zenon, <1>2, <1>12 DEF ReplaceFailedCanary, chain
  <1>13. ASSUME Operator PROVE [Journal!Next]_(Journal!vars)
    BY <1>8, <1>9, <1>10, <1>11, <1>12, <1>13, Zenon DEF Operator
  <1>14. ASSUME NEW i, Broadcast(i) \/ LoseBroadcast(i) PROVE UNCHANGED Journal!vars
    BY Zenon, <1>2, <1>14 DEF Broadcast, LoseBroadcast, journal
  <1>15. ASSUME NextBlock PROVE [Journal!Next]_(Journal!vars)
    BY Zenon, <1>15, <1>BlockMaps DEF Journal!Next
  <1>16. ASSUME UNCHANGED vars PROVE UNCHANGED Journal!vars
    BY Zenon, <1>2, <1>16 DEF vars, journal, chain
  <1> QED BY <1>7, <1>13, <1>14, <1>15, <1>16, Zenon DEF Next, Network

=============================================================================
