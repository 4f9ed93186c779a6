--------------------------- MODULE CollectorJournal ---------------------------
(***************************************************************************)
(* The treasury collector's transfer journal (ditto/treasury/collector.py, *)
(* manual_batch.py, manual_expiry.py) against the chain it signs for.      *)
(*                                                                         *)
(* A tick runs in one BEGIN IMMEDIATE transaction of a private database:   *)
(* it reconciles the one outstanding transfer or records a new signed one. *)
(* Only after the commit does the process broadcast the signed bytes, and  *)
(* it may die first.  The bytes are never signed or sent again: later      *)
(* ticks, of any process, look for them in finalized blocks until they     *)
(* appear or their mortality has passed.  Money comes from earning         *)
(* receipts, each split between service buckets.  An operator may bound    *)
(* the next claim (canary), replace a canary that failed, and afterwards   *)
(* arm single manual transfers.                                            *)
(*                                                                         *)
(* A call that raises rolls back and is not a step.  The collector's stake *)
(* moves only by its earnings and its own transfers.                       *)
(***************************************************************************)
EXTENDS Integers, Sequences, FiniteSets, FiniteSetsExt

CONSTANTS
    MaxBlock,       \* bound: the chain stops here
    LastReceipt,    \* bound: the receipt scan stops here
    Earned,         \* [block -> alpha emitted to the collector, 0 for none]
    Bps,            \* [bucket -> allocation_bps]; buckets are 1..n in id order
    Principal,      \* stake that is not earnings
    Interval,       \* distribution_interval_blocks
    MaxDistribution,\* max_distribution_rao
    ManualCeiling,  \* cold-approved ceiling of a manual batch
    Mortality,      \* blocks a signed transfer stays valid (64)
    ScanChunk,      \* finalized blocks one reconciliation reads (32)
    SigningMargin,  \* blocks an intent must still have to be signed (128)
    ArmWindow,      \* furthest expiry of a manual request (7200)
    CanaryCeilings, \* ceilings an operator may ask for
    RequestIds,     \* manual request UUIDs
    RetainedFloors, \* retained_alpha_rao of requests
    NONE

Blocks == 1..MaxBlock
Buckets == DOMAIN Bps

ASSUME BlockAssumption ==
    /\ MaxBlock \in Nat \ {0} /\ LastReceipt \in Blocks /\ Earned \in [Blocks -> Nat]
    /\ Interval \in Nat /\ Mortality \in Nat \ {0} /\ ScanChunk \in Nat \ {0}
    /\ MaxDistribution \in Nat /\ ManualCeiling \in Nat

ASSUME PolicyAssumption ==
    /\ Bps \in Seq(Nat) /\ SumFunctionOnSet(Bps, Buckets) > 0
    /\ Principal \in Nat /\ CanaryCeilings \subseteq Nat /\ RetainedFloors \subseteq Nat
    /\ SigningMargin \in Nat \ {0} /\ ArmWindow \in Nat

\* Rows of the journal's events.
CanaryRow == [max : Nat, after : Nat]
ReplacedRow == [max : Nat, after : Nat, source : Blocks]
ManualRow ==
    [id : RequestIds, after : Nat, bucket : Buckets, source : Blocks, amount : Nat, retained : Nat,
     expires : Nat, batch : BOOLEAN, sources : UNION {[S -> Nat] : S \in SUBSET Blocks},
     closed : BOOLEAN]

ASSUME NoneAssumption ==
    NONE \notin RequestIds /\ NONE \notin CanaryRow /\ NONE \notin ReplacedRow /\ NONE \notin ManualRow

VARIABLES
    head,       \* finalized block
    ops,        \* operations table; the id is the index
    earnings,   \* [block -> "unseen" | "open" | "completed"]
    cursor,     \* last block of the contiguous receipt scan
    canary,     \* transfer_canary_armed event, or NONE
    replaced,   \* transfer_canary_replaced event, or NONE
    manual,     \* manual_transfer_armed events; closed marks an unsigned expiry
    sending,    \* operations whose process has committed but not yet sent
    pool,       \* operations whose bytes reached the network
    fate        \* [operation -> outcome on the chain and its block]

journal == <<ops, earnings, cursor, canary, replaced, manual>>
chain == <<head, sending, pool, fate>>
vars == <<journal, chain>>

Ids == DOMAIN ops
Unlanded == [outcome |-> "none", block |-> 0]

Init ==
    /\ head = 1 /\ ops = <<>> /\ cursor = 0
    /\ earnings = [b \in Blocks |-> "unseen"]
    /\ canary = NONE /\ replaced = NONE /\ manual = <<>>
    /\ sending = {} /\ pool = {} /\ fate = <<>>

-----------------------------------------------------------------------------
(* Receipts and their split (plan_service_distribution): floors, then the  *)
(* dust one unit each to the largest remainders, ties by bucket id.        *)

TotalBps == SumFunctionOnSet(Bps, Buckets)
Floor(a, b) == (a * Bps[b]) \div TotalBps
Remainder(a, b) == (a * Bps[b]) % TotalBps
Dust(a) == a - SumFunctionOnSet([b \in Buckets |-> Floor(a, b)], Buckets)

Ahead(a, b) ==
    {c \in Buckets : \/ Remainder(a, c) > Remainder(a, b)
                     \/ Remainder(a, c) = Remainder(a, b) /\ c < b}

Share(a, b) == Floor(a, b) + (IF Cardinality(Ahead(a, b)) < Dust(a) THEN 1 ELSE 0)

Entitled == [s \in Blocks |-> [b \in Buckets |-> Share(Earned[s], b)]]

Alpha ==
    Principal
      + SumFunctionOnSet(Earned, 1..head)
      - SumFunctionOnSet([i \in Ids |-> ops[i].amount], {i \in Ids : fate[i].outcome = "paid"})

-----------------------------------------------------------------------------
(* What the journal says of itself. *)

\* The intents no unsigned expiry has closed; the latest of them.
Open == {k \in DOMAIN manual : ~manual[k].closed}
Intent == IF Open = {} THEN NONE ELSE manual[Max(Open)]

\* The bound in force when the canary event is c: the latest manual intent,
\* else the replacement, else the canary itself.
BaseBound(c) == IF replaced = NONE THEN c ELSE [max |-> replaced.max, after |-> replaced.after]
Bound(c) == IF Intent = NONE THEN BaseBound(c)
            ELSE [max |-> Intent.amount, after |-> Intent.after]

ClaimsBetween(lo, hi) == {i \in Ids : lo < i /\ i <= hi}

Matches(i, m) ==
    /\ ops[i].amount = m.amount /\ ops[i].bucket = m.bucket /\ ops[i].source = m.source

\* manual_transfer_history raises unless this holds.
ManualHistoryOK ==
    /\ \A j, k \in DOMAIN manual : j < k =>
          /\ manual[j].id # manual[k].id
          /\ manual[j].after <= manual[k].after
          /\ (k = j + 1 /\ manual[j].after = manual[k].after) => manual[j].closed
    /\ \A k \in Open :
          LET later == {j \in Open : j > k}
              claims == ClaimsBetween(manual[k].after,
                                      IF later = {} THEN Len(ops) ELSE manual[Min(later)].after)
          IN  /\ Cardinality(claims) <= 1
              /\ \A i \in claims : Matches(i, manual[k])
              /\ later # {} => /\ claims # {}
                               /\ \A i \in claims : ops[i].state = "finalized"

\* transfer_canary raises unless this holds of an armed canary.
CanaryHistoryOK ==
    canary # NONE =>
      LET bound == BaseBound(canary)
          claims == ClaimsBetween(bound.after, IF Open = {} THEN Len(ops) ELSE manual[Min(Open)].after)
      IN  /\ replaced # NONE =>
               /\ replaced.after = canary.after + 1
               /\ ops[replaced.after].state = "failed"
               /\ ops[replaced.after].source = replaced.source
               /\ ops[replaced.after].amount <= canary.max
          /\ Cardinality(claims) <= 1
          /\ \A i \in claims : ops[i].amount <= bound.max

Readable == ManualHistoryOK /\ CanaryHistoryOK

\* source_operations: what each operation took from receipt s.  A batch is
\* recognised by the armed request whose after_operation precedes it.
\* Mutant: a batch is looked up under its own operation id.
BatchOfSame(i) == {k \in DOMAIN manual : manual[k].batch /\ ~manual[k].closed /\ manual[k].after = i}

BatchOf(i) == {k \in DOMAIN manual : manual[k].batch /\ ~manual[k].closed /\ manual[k].after = i - 1}

Took(i, s) ==
    IF BatchOf(i) # {}
    THEN LET m == manual[CHOOSE k \in BatchOf(i) : TRUE]
         IN  IF s \in DOMAIN m.sources THEN m.sources[s] ELSE 0
    ELSE IF ops[i].source = s THEN ops[i].amount ELSE 0

SourceOps(s) ==
    {i \in Ids : Took(i, s) > 0 /\ (replaced # NONE => i # replaced.after)}

\* Mutant: earlier legs are not deducted.
RemainingGross(s, b) == Entitled[s][b]

Remaining(s, b) ==
    Entitled[s][b]
      - SumFunctionOnSet([i \in Ids |-> Took(i, s)], {i \in SourceOps(s) : ops[i].bucket = b})

\* remaining_distribution raises unless every operation on s is finalized and
\* none of its buckets is overdrawn.
SourceSettled(s) ==
    /\ \A i \in SourceOps(s) : ops[i].state = "finalized"
    /\ \A b \in Buckets : Remaining(s, b) >= 0

OpenBuckets(s) == {b \in Buckets : Remaining(s, b) > 0}
RemainingTotal(s) == SumFunctionOnSet([b \in Buckets |-> Remaining(s, b)], OpenBuckets(s))
Mature(s) == s + Interval <= head

-----------------------------------------------------------------------------
(* A tick (tick).  Its inputs are the canary bound c and the manual request *)
(* r it was started with; each may be NONE and at most one is given.       *)

Pending == {i \in Ids : ops[i].state = "dispatching"}
ArmedCanary(c) == IF canary = NONE THEN c ELSE canary

CanaryAccepted(c) ==
    /\ c # NONE => c.max <= MaxDistribution
    /\ canary # NONE => c \in {NONE, BaseBound(canary)}
    /\ (canary = NONE /\ c # NONE) => c.after = Len(ops) /\ Pending = {}

\* Mutant: a claim that was paid does not spend the canary.
SpentUnpaid(c) ==
    LET bound == Bound(ArmedCanary(c))
    IN  /\ ArmedCanary(c) # NONE
        /\ \E i \in Ids : i > bound.after /\ ops[i].state \in {"failed", "expired"}

\* One claim under a canary or an intent: once it is settled, ticks stop.
Spent(c) ==
    LET bound == Bound(ArmedCanary(c))
    IN  /\ ArmedCanary(c) # NONE
        /\ \E i \in Ids : i > bound.after /\ ops[i].state # "dispatching"

TickOpen(c, r) ==
    /\ c = NONE \/ r = NONE
    /\ CanaryAccepted(c)
    /\ Readable
    /\ r # NONE => Intent # NONE /\ Intent.id = r
    /\ ~Spent(c)
    /\ canary' = ArmedCanary(c)

\* Mutant: every reconciliation starts at the signing block again.
ScanStartOver(i) == ops[i].at

\* reconcile: read at most ScanChunk finalized blocks after the last one read.
ScanStart(i) == Max({ops[i].at, ops[i].through})

ScanEnd(i) == Min({head, ops[i].expires, ScanStart(i) + ScanChunk})

\* Mutant: expiry is declared without having read every block up to it.
VerdictEarly(i) ==
    IF fate[i].outcome # "none" /\ fate[i].block \in ScanStart(i)+1 .. ScanEnd(i)
    THEN IF fate[i].outcome = "paid" THEN "finalized" ELSE "failed"
    ELSE IF head > ops[i].expires THEN "expired"
    ELSE "pending"

Verdict(i) ==
    IF fate[i].outcome # "none" /\ fate[i].block \in ScanStart(i)+1 .. ScanEnd(i)
    THEN IF fate[i].outcome = "paid" THEN "finalized" ELSE "failed"
    ELSE IF head > ops[i].expires /\ ScanEnd(i) = ops[i].expires THEN "expired"
    ELSE "pending"

TickReconcile(c, r) ==
    /\ TickOpen(c, r)
    /\ \E i \in Pending :
          ops' = IF Verdict(i) = "pending"
                 THEN [ops EXCEPT ![i].through = ScanEnd(i)]
                 ELSE [ops EXCEPT ![i].state = Verdict(i)]
    /\ UNCHANGED <<earnings, cursor, replaced, manual, chain>>

Candidates ==
    {s \in Blocks : /\ earnings[s] = "open" /\ Mature(s)
                    /\ \A i \in Ids : ops[i].source = s => ops[i].state = "finalized"}

\* The receipt a tick works on: the intent's, else the replacement's, else the
\* earliest candidate.  The first two raise when it is not open and mature.
Selects(s) ==
    IF Intent # NONE \/ replaced # NONE
    THEN /\ s = IF Intent # NONE THEN Intent.source ELSE replaced.source
         /\ earnings[s] = "open" /\ Mature(s)
    ELSE s \in Candidates /\ \A t \in Candidates : s <= t

\* _scan_finalized_earnings, n blocks at most.
ScanTo(n) == Max({cursor, Min({head, cursor + n, LastReceipt})})

Scanned(n) ==
    [b \in Blocks |->
        IF b \in cursor+1 .. ScanTo(n) /\ earnings[b] = "unseen" /\ Earned[b] > 0
        THEN "open" ELSE earnings[b]]

TickObserve(c) ==
    /\ TickOpen(c, NONE)
    /\ Pending = {} /\ Intent = NONE /\ replaced = NONE /\ Candidates = {}
    /\ earnings' = Scanned(ScanChunk)
    /\ cursor' = ScanTo(ScanChunk)
    /\ UNCHANGED <<ops, replaced, manual, chain>>

Spaced(s) == \A i \in Ids : ops[i].source # s => head - ops[i].at >= Interval

\* "interval": the last claim on another receipt is too recent.
TickSpacing(c) ==
    /\ TickOpen(c, NONE)
    /\ Pending = {} /\ Intent = NONE
    /\ \E s \in Blocks : Selects(s) /\ ~Spaced(s)
    /\ UNCHANGED <<ops, earnings, cursor, replaced, manual, chain>>

Payable(s) ==
    /\ Spaced(s)
    /\ Earned[s] <= MaxDistribution
    /\ SourceSettled(s)
    /\ RemainingTotal(s) <= Alpha

\* Mutant: a receipt is complete after its first leg.
TickCompleteEarly(c) ==
    /\ TickOpen(c, NONE)
    /\ Pending = {} /\ Intent = NONE
    /\ \E s \in Blocks :
          /\ Selects(s) /\ Payable(s) /\ OpenBuckets(s) # Buckets
          /\ earnings' = [earnings EXCEPT ![s] = "completed"]
    /\ UNCHANGED <<ops, cursor, replaced, manual, chain>>

TickComplete(c) ==
    /\ TickOpen(c, NONE)
    /\ Pending = {} /\ Intent = NONE
    /\ \E s \in Blocks :
          /\ Selects(s) /\ Payable(s) /\ OpenBuckets(s) = {}
          /\ earnings' = [earnings EXCEPT ![s] = "completed"]
    /\ UNCHANGED <<ops, cursor, replaced, manual, chain>>

\* The signed operation is recorded before anything is sent.  The signing
\* adapter (prepare) refuses an amount outside its ceiling.  by is history: the
\* request the operation was signed for.
Reserve(s, b, amount, ceiling, by) ==
    /\ amount \in 1..ceiling
    /\ head + Mortality < MaxBlock   \* bound: its expiry can be observed
    /\ ops' = Append(ops, [state |-> "dispatching", amount |-> amount, source |-> s, bucket |-> b,
                           at |-> head, expires |-> head + Mortality, through |-> 0, by |-> by])
    /\ fate' = Append(fate, Unlanded)
    /\ sending' = sending \cup {Len(ops) + 1}
    /\ UNCHANGED <<earnings, cursor, replaced, manual, head, pool>>

First(B) == {b \in B : \A c \in B : b <= c}

\* Mutant: another receipt is paid while an operation is outstanding.
TickDistributeBeside(c) ==
    /\ TickOpen(c, NONE)
    /\ Intent = NONE
    /\ \E s \in Blocks :
          /\ Selects(s) /\ Payable(s)
          /\ \E b \in First(OpenBuckets(s)) : Reserve(s, b, Remaining(s, b), MaxDistribution, NONE)

TickDistribute(c) ==
    /\ TickOpen(c, NONE)
    /\ Pending = {} /\ Intent = NONE
    /\ \E s \in Blocks :
          /\ Selects(s) /\ Payable(s)
          /\ \E b \in First(OpenBuckets(s)) :
                LET amount == IF ArmedCanary(c) = NONE THEN Remaining(s, b)
                              ELSE Min({Remaining(s, b), Bound(ArmedCanary(c)).max})
                IN  Reserve(s, b, amount, MaxDistribution, NONE)

\* Mutant: the signing margin is forgotten.
IntentDueLate(r) ==
    /\ r # NONE /\ Pending = {}
    /\ head <= Intent.expires

\* An intent is signed only by the tick that names it, and in time.
IntentDue(r) ==
    /\ r # NONE /\ Pending = {}
    /\ head + SigningMargin <= Intent.expires

TickManual(r) ==
    /\ TickOpen(NONE, r) /\ IntentDue(r) /\ ~Intent.batch
    /\ \E s \in Blocks :
          /\ Selects(s) /\ Payable(s)
          /\ Intent.bucket \in OpenBuckets(s)
          /\ Intent.amount <= Remaining(s, Intent.bucket)
          /\ Intent.amount + Intent.retained <= Alpha
          /\ Reserve(s, Intent.bucket, Intent.amount, MaxDistribution, r)

\* Mutant: the retained stake is not checked.
BatchValidUnreserved(m) ==
    /\ m.bucket \in Buckets /\ m.amount <= ManualCeiling
    /\ \A s \in DOMAIN m.sources :
          /\ earnings[s] = "open" /\ Mature(s)
          /\ SourceSettled(s)
          /\ Remaining(s, m.bucket) >= m.sources[s]

\* validate_batch
BatchValid(m) ==
    /\ m.bucket \in Buckets /\ m.amount <= ManualCeiling
    /\ m.amount + m.retained <= Alpha
    /\ \A s \in DOMAIN m.sources :
          /\ earnings[s] = "open" /\ Mature(s)
          /\ SourceSettled(s)
          /\ Remaining(s, m.bucket) >= m.sources[s]

TickBatch(r) ==
    /\ TickOpen(NONE, r) /\ IntentDue(r) /\ Intent.batch
    /\ BatchValid(Intent)
    /\ \E s \in Blocks :
          s = Intent.source /\ Reserve(s, Intent.bucket, Intent.amount, ManualCeiling, r)

CanaryRequests == {NONE} \cup [max : CanaryCeilings, after : {Len(ops)}]

Tick ==
    \/ \E c \in CanaryRequests :
          \/ TickReconcile(c, NONE) \/ TickObserve(c) \/ TickSpacing(c)
          \/ TickComplete(c) \/ TickDistribute(c)
    \/ \E r \in RequestIds : TickReconcile(NONE, r) \/ TickManual(r) \/ TickBatch(r)

-----------------------------------------------------------------------------
(* Receipt scans without money, and the operator's commands. *)

ObserveEarnings(n) ==
    /\ earnings' = Scanned(n)
    /\ cursor' = ScanTo(n)
    /\ UNCHANGED <<ops, canary, replaced, manual, chain>>

ObserveEarningSource(s) ==
    /\ Mature(s) /\ Earned[s] > 0 /\ earnings[s] = "unseen"
    /\ earnings' = [earnings EXCEPT ![s] = "open"]
    /\ UNCHANGED <<ops, cursor, canary, replaced, manual, chain>>

\* Mutant: the bound's own claim need not exist yet.
ArmReadyUnspent ==
    /\ canary # NONE /\ ops # <<>>
    /\ ops[Len(ops)].state = "finalized" /\ Verdict(Len(ops)) = "finalized"
    /\ Readable

\* arm_manual_transfer: the last claim must be the one the bound allowed, and
\* must prove finalized again.
ArmReady ==
    /\ canary # NONE
    /\ Len(ops) = Bound(canary).after + 1
    /\ ops[Len(ops)].state = "finalized" /\ Verdict(Len(ops)) = "finalized"
    /\ Readable

ArmManual(m) ==
    /\ \A k \in DOMAIN manual : manual[k].id # m.id
    /\ m.after = Len(ops)
    /\ head < m.expires /\ m.expires <= head + ArmWindow
    /\ IF m.batch THEN BatchValid(m)
       ELSE /\ m.amount <= MaxDistribution
            /\ m.amount + m.retained <= Alpha
            /\ earnings[m.source] = "open" /\ Mature(m.source)
            /\ Earned[m.source] <= MaxDistribution
            /\ SourceSettled(m.source)
            /\ Remaining(m.source, m.bucket) >= m.amount
    /\ ArmReady
    /\ manual' = Append(manual, m)
    /\ UNCHANGED <<ops, earnings, cursor, canary, replaced, chain>>

\* expire_unsigned_manual
ExpireUnsigned ==
    /\ ManualHistoryOK
    /\ Intent # NONE
    /\ Len(ops) = Intent.after /\ ops[Intent.after].state = "finalized"
    /\ head >= Intent.expires
    /\ manual' = [k \in DOMAIN manual |->
                    IF manual[k].id = Intent.id THEN [manual[k] EXCEPT !.closed = TRUE] ELSE manual[k]]
    /\ UNCHANGED <<ops, earnings, cursor, canary, replaced, chain>>
    /\ ManualHistoryOK'

\* replace_failed_canary: only a proved AmountTooLow failure whose mortality
\* has passed, on a receipt nothing else has touched.
ReplaceFailedCanary(max) ==
    /\ Readable
    /\ canary # NONE /\ replaced = NONE
    /\ Len(ops) = Bound(canary).after + 1
    /\ max <= MaxDistribution
    /\ LET last == Len(ops)
           s == ops[last].source
       IN  /\ ops[last].state = "failed"
           /\ fate[last].outcome = "toolow" /\ head > ops[last].expires
           /\ earnings[s] = "open"
           /\ \A i \in Ids : ops[i].source = s => i = last
           /\ replaced' = [max |-> max, after |-> last, source |-> s]
    /\ UNCHANGED <<ops, earnings, cursor, canary, manual, chain>>

-----------------------------------------------------------------------------
(* The process after its commit, and the chain. *)

Broadcast(i) ==
    /\ i \in sending
    /\ sending' = sending \ {i}
    /\ pool' = pool \cup {i}
    /\ UNCHANGED <<journal, head, fate>>

\* The process dies before sending, the runtime guard raises, or the bytes
\* never arrive.
LoseBroadcast(i) ==
    /\ i \in sending
    /\ sending' = sending \ {i}
    /\ UNCHANGED <<journal, head, pool, fate>>

Landable == {i \in pool : fate[i].outcome = "none" /\ head < ops[i].expires}

\* A block is finalized with any of the valid pooled transfers in it, each
\* executed, failed, or failed with AmountTooLow.
NextBlock ==
    /\ head < MaxBlock
    /\ head' = head + 1
    /\ \E landed \in SUBSET Landable : \E outcome \in [landed -> {"paid", "failed", "toolow"}] :
          fate' = [i \in Ids |-> IF i \in landed
                                 THEN [outcome |-> outcome[i], block |-> head + 1]
                                 ELSE fate[i]]
    /\ UNCHANGED <<journal, sending, pool>>

\* Requests an operator can write about open receipts.  A request whose
\* after_operation is not the current operation is refused.
Claims == UNION {[S -> 1..ManualCeiling] : S \in (SUBSET {s \in Blocks : earnings[s] = "open"}) \ {{}}}

RequestOf(id, b, claims, floor, expires, batch) ==
    [id |-> id, after |-> Len(ops), bucket |-> b, source |-> Min(DOMAIN claims),
     amount |-> SumFunctionOnSet(claims, DOMAIN claims),
     retained |-> floor, expires |-> expires, batch |-> batch, sources |-> claims,
     closed |-> FALSE]

Operator ==
    \/ \E n \in 1..ScanChunk : ObserveEarnings(n)
    \/ \E s \in Blocks : ObserveEarningSource(s)
    \/ /\ ArmReady
       /\ \E id \in RequestIds, b \in Buckets, claims \in Claims, floor \in RetainedFloors,
             expires \in head+1 .. head+ArmWindow, batch \in BOOLEAN :
             /\ batch \/ Cardinality(DOMAIN claims) = 1
             /\ ArmManual(RequestOf(id, b, claims, floor, expires, batch))
    \/ ExpireUnsigned
    \/ \E max \in CanaryCeilings : ReplaceFailedCanary(max)

Network == (\E i \in Ids : Broadcast(i) \/ LoseBroadcast(i)) \/ NextBlock

Next == Tick \/ Operator \/ Network

Spec == Init /\ [][Next]_vars

\* Blocks keep being finalized, and a timer (or the redelivery of an
\* unacknowledged request) keeps starting ticks.
Fairness ==
    /\ WF_vars(NextBlock)
    /\ WF_vars(TickReconcile(NONE, NONE) \/ \E r \in RequestIds : TickReconcile(NONE, r))

FairSpec == Spec /\ Fairness

-----------------------------------------------------------------------------
OpRow ==
    [state : {"dispatching", "finalized", "failed", "expired"}, amount : Nat, source : Blocks,
     bucket : Buckets, at : Nat, expires : Nat, through : Nat, by : RequestIds \cup {NONE}]

Fate == [outcome : {"none", "paid", "failed", "toolow"}, block : Nat]

\* Every table holds rows of its shape, each operation has one fate, and bytes
\* that were sent are no longer held by a process.
TypeOK ==
    /\ head \in Blocks /\ cursor \in 0..MaxBlock
    /\ earnings \in [Blocks -> {"unseen", "open", "completed"}]
    /\ ops \in Seq(OpRow) /\ fate \in Seq(Fate) /\ Len(fate) = Len(ops)
    /\ sending \subseteq Ids /\ pool \subseteq Ids /\ sending \cap pool = {}

\* What operation i was signed to take from receipt s.
Drew(i, s) ==
    IF ops[i].by = NONE THEN (IF ops[i].source = s THEN ops[i].amount ELSE 0)
    ELSE LET m == manual[CHOOSE k \in DOMAIN manual : manual[k].id = ops[i].by]
         IN  IF s \in DOMAIN m.sources THEN m.sources[s] ELSE 0

Delivered(s, b) ==
    SumFunctionOnSet([i \in Ids |-> Drew(i, s)], {i \in Ids : fate[i].outcome = "paid" /\ ops[i].bucket = b})

\* remaining_distribution, source_operations: whatever mixture of automatic
\* legs, canary, replacement and manual batches drew on a receipt, and
\* whatever was lost on the way, no bucket is paid more than its share of it,
\* and tick closes a receipt only when every bucket has actually received the
\* whole of its share on the chain.
SharesPaid ==
    \A s \in Blocks, b \in Buckets :
        /\ Delivered(s, b) <= Entitled[s][b]
        /\ earnings[s] = "completed" => Delivered(s, b) = Entitled[s][b]

CanLand(i) == fate[i].outcome = "none" /\ i \in sending \cup pool /\ head < ops[i].expires

\* "Never sign/send again": when an operation is recorded, no earlier one can
\* still reach the chain.
OneInFlight ==
    \A i, j \in Ids : i < j => ops[i].state # "dispatching" /\ ~CanLand(i)

\* reconcile: what the journal records of an operation is what happened to it,
\* and an expired one can no longer happen.
JournalTruthful ==
    \A i \in Ids :
        /\ ops[i].state = "finalized" => fate[i].outcome = "paid"
        /\ ops[i].state = "failed" => fate[i].outcome \in {"failed", "toolow"}
        /\ ops[i].state = "expired" => fate[i].outcome = "none" /\ ~CanLand(i)

\* transfer_canary: once a canary is armed, the collector pays at most one claim
\* that no manual request names, within the ceiling it was given, however often
\* it is started without flags and even when the canary was replaced.
CanaryBounded ==
    canary # NONE =>
      \A i \in Ids : (i > canary.after /\ ops[i].by = NONE /\ fate[i].outcome = "paid") =>
          /\ ops[i].amount <= IF replaced # NONE /\ i > replaced.after THEN replaced.max ELSE canary.max
          /\ \A j \in Ids : (j > canary.after /\ ops[j].by = NONE /\ fate[j].outcome = "paid") => i = j

\* source_operations: the journal attributes every operation to the receipts it
\* was signed for, a request is signed at most once, and never after its
\* unsigned expiry was recorded.
IntentAttributed ==
    \A i \in Ids :
        /\ \A s \in Blocks : Took(i, s) = Drew(i, s)
        /\ \A j \in Ids : (ops[i].by # NONE /\ ops[i].by = ops[j].by) => i = j
        /\ \A k \in DOMAIN manual : manual[k].closed => ops[i].by # manual[k].id

\* What the journal's tables say of each manual request.
IntentOf == [r \in RequestIds |->
    IF \E k \in DOMAIN manual : manual[k].id = r /\ manual[k].closed THEN "closed"
    ELSE IF \E k \in DOMAIN manual : manual[k].id = r THEN "armed" ELSE "none"]
ClaimOf == [r \in RequestIds |->
    IF \E i \in Ids : ops[i].by = r THEN ops[CHOOSE i \in Ids : ops[i].by = r].state ELSE "none"]
LateOf == {r \in RequestIds : \E k \in DOMAIN manual :
              manual[k].id = r /\ head + SigningMargin > manual[k].expires}
PaidOf == {r \in RequestIds : \E i \in Ids : ops[i].by = r /\ fate[i].outcome = "paid"}

Journal == INSTANCE TransferJournal
    WITH Requests <- RequestIds, intent <- IntentOf, claim <- ClaimOf, late <- LateOf, paid <- PaidOf

\* arm_manual_transfer, tick, expire_unsigned_manual together keep the promise
\* the mailbox worker relies on: a request is armed once, signed at most once
\* and within its window, pays only while its one transfer is outstanding, and
\* is recorded as the chain decided.
ImplementsJournal == Journal!Spec

\* manual_transfer_history and transfer_canary accept what this code wrote: the
\* validation every command starts with refuses no history but that of a manual
\* claim replaced as if it were the canary.
HistoryReadable ==
    Readable \/ (replaced # NONE /\ ops[replaced.after].by # NONE)

\* tick, arm_manual_transfer: a manual transfer leaves the stake its request
\* retains, although it lands blocks after the stake was read.
RetainedKept ==
    [][\A i \in Ids : (fate[i].outcome = "none" /\ fate'[i].outcome = "paid") =>
          \A k \in DOMAIN manual : manual[k].id = ops[i].by => Alpha' >= manual[k].retained]_vars

\* reconcile: every recorded operation is eventually found or proved expired.
OperationSettles ==
    \A i \in 1..MaxBlock :
        (i \in Ids /\ ops[i].state = "dispatching") ~> (i \in Ids /\ ops[i].state # "dispatching")

=============================================================================
