-------------------------- MODULE InferenceBooksProofs --------------------------
(***************************************************************************)
(* The books of an inference grant: lemmas about one grant record and the  *)
(* sequence of its request rows, not about the system.                     *)
(*                                                                         *)
(* Booked says what the counters of a grant owe to its rows: a place for   *)
(* every started row, a count for every row, the tokens of the settled     *)
(* ones and no more than the ceilings of those still owing.  Cancelling,   *)
(* rotating, admitting, reclaiming, ageing and settling keep it.           *)
(***************************************************************************)
EXTENDS InferenceGrants, SumTheorems

(* Rows of the tables. *)
RequestRow ==
    [status : {"started", "completed", "failed", "canceled"}, kind : Lanes, fresh : BOOLEAN, tokens : 0..Ceiling]
GrantRow ==
    [status : {"none", "pending", "active", "exhausted", "revoked"}, generation : Nat,
     count : [Lanes -> Nat], active : [Lanes -> Nat], tokens : [Lanes -> Nat]]

-----------------------------------------------------------------------------
(* The books of one grant. *)

CanceledRows(rows, k) == {n \in Kind(rows, k) : rows[n].status = "canceled"}

(* The requests whose receipt may still be booked. *)
Owing(rows, k) ==
    {n \in Kind(rows, k) : rows[n].status = "started" \/ (rows[n].status = "canceled" /\ rows[n].tokens = 0)}

Unbilled(rows) == \A n \in DOMAIN rows : rows[n].status = "started" => rows[n].tokens = 0

(* The books of lane k: what is running, was admitted and was received is   *)
(* what the grant says, and what is spent and may still be fits the wall.   *)
LaneBooked(gr, rows, k) ==
    /\ gr.active[k] = Cardinality(Started(rows, k))
    /\ gr.count[k] = Cardinality(Kind(rows, k)) /\ gr.count[k] <= RequestBudget[k]
    /\ gr.tokens[k] = Spend(rows, k)
    /\ gr.tokens[k] + Ceiling * Cardinality(Owing(rows, k))
         < TokenBudget[k] + Ceiling * (Concurrency[k] + Cardinality(CanceledRows(rows, k)))

Walled(gr) ==
    /\ gr.status = "exhausted" => gr.tokens["chat"] >= TokenBudget["chat"]
    /\ gr.tokens["chat"] >= TokenBudget["chat"] => gr.status \in {"exhausted", "revoked"}

Booked(gr, rows) == Unbilled(rows) /\ Walled(gr) /\ \A k \in Lanes : LaneBooked(gr, rows, k)

-----------------------------------------------------------------------------
(* Rows. *)

(* A larger factor makes a larger product of naturals. *)
LEMMA TimesMonotone ==
    ASSUME NEW c \in Nat, NEW x \in Nat, NEW y \in Nat, x <= y
    PROVE  c * x \in Nat /\ c * y \in Nat /\ c * x <= c * y
  <1>1. PICK d \in Nat : y = x + d
    <2>1. y - x \in Nat /\ y = x + (y - x)
      OBVIOUS
    <2> QED BY Zenon, <2>1
  <1>2. c * (x + d) = c * x + c * d /\ c * d \in Nat /\ c * x \in Nat
    OBVIOUS
  <1> QED BY <1>1, <1>2

(* The rows of a grant are at the positions 1..Len(rows). *)
LEMMA RowFacts ==
    ASSUME NEW rows \in Seq(RequestRow)
    PROVE  /\ Len(rows) \in Nat /\ DOMAIN rows = 1..Len(rows) /\ IsFiniteSet(DOMAIN rows)
           /\ \A n \in DOMAIN rows :
                /\ rows[n] \in RequestRow /\ rows[n].kind \in Lanes /\ rows[n].tokens \in Nat
                /\ rows[n].status \in {"started", "completed", "failed", "canceled"}
  <1>1. Len(rows) \in Nat /\ DOMAIN rows = 1..Len(rows)
    OBVIOUS
  <1>2. \A n \in DOMAIN rows : rows[n] \in RequestRow
    BY <1>1
  <1>3. Ceiling \in Nat
    BY Zenon, GrantAssumption
  <1>4. \A r \in RequestRow : /\ r.kind \in Lanes /\ r.tokens \in Nat
                             /\ r.status \in {"started", "completed", "failed", "canceled"}
    BY <1>3 DEF RequestRow
  <1>5. IsFiniteSet(DOMAIN rows)
    BY <1>1, FS_Interval
  <1> QED BY Zenon, <1>1, <1>2, <1>4, <1>5

(* The sets the books count are finite. *)
LEMMA SetFacts ==
    ASSUME NEW rows \in Seq(RequestRow), NEW k
    PROVE  /\ Started(rows, k) \in SUBSET Kind(rows, k) /\ Owing(rows, k) \in SUBSET Kind(rows, k)
           /\ CanceledRows(rows, k) \in SUBSET Kind(rows, k) /\ Kind(rows, k) \in SUBSET DOMAIN rows
           /\ IsFiniteSet(Started(rows, k)) /\ Cardinality(Started(rows, k)) \in Nat
           /\ IsFiniteSet(Kind(rows, k)) /\ Cardinality(Kind(rows, k)) \in Nat
           /\ IsFiniteSet(Owing(rows, k)) /\ Cardinality(Owing(rows, k)) \in Nat
           /\ IsFiniteSet(CanceledRows(rows, k)) /\ Cardinality(CanceledRows(rows, k)) \in Nat
  <1>1. /\ Started(rows, k) \in SUBSET Kind(rows, k) /\ Owing(rows, k) \in SUBSET Kind(rows, k)
        /\ CanceledRows(rows, k) \in SUBSET Kind(rows, k) /\ Kind(rows, k) \in SUBSET DOMAIN rows
    BY Zenon DEF Started, Owing, CanceledRows, Kind
  <1>2. IsFiniteSet(Kind(rows, k))
    BY Zenon, <1>1, RowFacts, FS_Subset
  <1>3. IsFiniteSet(Started(rows, k)) /\ IsFiniteSet(Owing(rows, k)) /\ IsFiniteSet(CanceledRows(rows, k))
    BY Zenon, <1>1, <1>2, FS_Subset
  <1> QED BY Zenon, <1>1, <1>2, <1>3, FS_CardinalityType

(* What a lane received is the same when its rows' tokens are. *)
LEMMA SpendSame ==
    ASSUME NEW rows \in Seq(RequestRow), NEW rows2, NEW k, DOMAIN rows \subseteq DOMAIN rows2,
           Kind(rows2, k) = Kind(rows, k), \A n \in Kind(rows, k) : rows2[n].tokens = rows[n].tokens
    PROVE  Spend(rows2, k) = Spend(rows, k) /\ Spend(rows, k) \in Nat
  <1> DEFINE f == [n \in DOMAIN rows |-> rows[n].tokens]
             g == [n \in DOMAIN rows2 |-> rows2[n].tokens]
  <1>1. IsFiniteSet(Kind(rows, k)) /\ Kind(rows, k) \in SUBSET DOMAIN rows
    BY Zenon, SetFacts
  <1>2. \A n \in Kind(rows, k) : f[n] \in Nat /\ f[n] = g[n]
    BY Zenon, <1>1, RowFacts
  <1>3. Spend(rows, k) = SumFunctionOnSet(f, Kind(rows, k)) /\ Spend(rows2, k) = SumFunctionOnSet(g, Kind(rows, k))
    BY Zenon DEF Spend
  <1> HIDE DEF f, g
  <1>4. SumFunctionOnSet(f, Kind(rows, k)) = SumFunctionOnSet(g, Kind(rows, k))
    <2>1. Values(f, Kind(rows, k))
      BY <1>2 DEF Values
    <2> QED BY Zenon, <1>1, <1>2, <2>1, SumSame
  <1>5. SumFunctionOnSet(f, Kind(rows, k)) \in Nat
    BY Zenon, <1>1, <1>2, SumNat
  <1> QED BY Zenon, <1>3, <1>4, <1>5

(* A lane's books stay right when nothing is admitted or received in it    *)
(* and no cancelled request comes back.                                    *)
LEMMA LaneKept ==
    ASSUME NEW k \in Lanes, NEW gr \in GrantRow, NEW gr2, NEW rows \in Seq(RequestRow), NEW rows2 \in Seq(RequestRow),
           LaneBooked(gr, rows, k), DOMAIN rows2 = DOMAIN rows,
           \A n \in DOMAIN rows : rows2[n].kind = rows[n].kind /\ rows2[n].tokens = rows[n].tokens,
           gr2.count[k] = gr.count[k], gr2.tokens[k] = gr.tokens[k],
           gr2.active[k] = Cardinality(Started(rows2, k)),
           Owing(rows2, k) \subseteq Owing(rows, k), CanceledRows(rows, k) \subseteq CanceledRows(rows2, k)
    PROVE  LaneBooked(gr2, rows2, k)
  <1>1. Kind(rows2, k) = Kind(rows, k)
    BY Zenon DEF Kind
  <1>2. Spend(rows2, k) = Spend(rows, k) /\ Spend(rows, k) \in Nat
    BY ZenonT(60), <1>1, SetFacts, SpendSame
  <1>3. PICK o, o2, c, c2 \in Nat :
          /\ o = Cardinality(Owing(rows, k)) /\ o2 = Cardinality(Owing(rows2, k)) /\ o2 <= o
          /\ c = Cardinality(CanceledRows(rows, k)) /\ c2 = Cardinality(CanceledRows(rows2, k)) /\ c <= c2
    <2>1. /\ Cardinality(Owing(rows2, k)) <= Cardinality(Owing(rows, k))
          /\ Cardinality(CanceledRows(rows, k)) <= Cardinality(CanceledRows(rows2, k))
      BY Zenon, SetFacts, FS_Subset
    <2>2. /\ Cardinality(Owing(rows2, k)) \in Nat /\ Cardinality(Owing(rows, k)) \in Nat
          /\ Cardinality(CanceledRows(rows, k)) \in Nat /\ Cardinality(CanceledRows(rows2, k)) \in Nat
      BY Zenon, SetFacts
    <2> QED BY Zenon, <2>1, <2>2
  <1>4. Ceiling \in Nat /\ TokenBudget[k] \in Nat /\ Concurrency[k] \in Nat
    BY Zenon, GrantAssumption
  <1>5. gr.tokens[k] + Ceiling * o < TokenBudget[k] + Ceiling * (Concurrency[k] + c)
    BY Zenon, <1>3 DEF LaneBooked
  <1>6. /\ Ceiling * o2 \in Nat /\ Ceiling * o \in Nat /\ Ceiling * o2 <= Ceiling * o
        /\ Ceiling * (Concurrency[k] + c) \in Nat /\ Ceiling * (Concurrency[k] + c2) \in Nat
        /\ Ceiling * (Concurrency[k] + c) <= Ceiling * (Concurrency[k] + c2)
    <2>1. Concurrency[k] + c \in Nat /\ Concurrency[k] + c2 \in Nat /\ Concurrency[k] + c <= Concurrency[k] + c2
      BY SMTT(30), <1>3, <1>4
    <2>2. Ceiling * o2 \in Nat /\ Ceiling * o \in Nat /\ Ceiling * o2 <= Ceiling * o
      BY Zenon, <1>3, <1>4, TimesMonotone
    <2> QED BY Zenon, <1>4, <2>1, <2>2, TimesMonotone
  <1>7. gr.tokens[k] \in Nat
    BY Zenon DEF GrantRow
  <1>8. gr2.tokens[k] + Ceiling * o2 < TokenBudget[k] + Ceiling * (Concurrency[k] + c2)
    <2>1. \A t, b, x, y, x2, y2 \in Nat : t + x < b + y /\ x2 <= x /\ y <= y2 => t + x2 < b + y2
      OBVIOUS
    <2> QED BY Zenon, <1>4, <1>5, <1>6, <1>7, <2>1
  <1> QED BY Zenon, <1>1, <1>2, <1>3, <1>8 DEF LaneBooked

(* cancel_unsettled_request on some started rows. *)
LEMMA CanceledFacts ==
    ASSUME NEW rows \in Seq(RequestRow), Unbilled(rows), NEW S \in SUBSET DOMAIN rows,
           \A n \in S : rows[n].status = "started"
    PROVE  /\ Canceled(rows, S) \in Seq(RequestRow) /\ DOMAIN Canceled(rows, S) = DOMAIN rows
           /\ Len(Canceled(rows, S)) = Len(rows)
           /\ \A n \in DOMAIN rows :
                /\ Canceled(rows, S)[n].kind = rows[n].kind /\ Canceled(rows, S)[n].tokens = rows[n].tokens
                /\ Canceled(rows, S)[n].status = IF n \in S THEN "canceled" ELSE rows[n].status
                /\ Canceled(rows, S)[n].fresh => rows[n].fresh /\ n \notin S
           /\ Unbilled(Canceled(rows, S))
           /\ \A k : /\ Started(Canceled(rows, S), k) = Started(rows, k) \ S
                     /\ Owing(Canceled(rows, S), k) = Owing(rows, k)
                     /\ CanceledRows(rows, k) \subseteq CanceledRows(Canceled(rows, S), k)
                     /\ Kind(Canceled(rows, S), k) = Kind(rows, k)
  <1> DEFINE new == Canceled(rows, S)
  <1>1. Len(rows) \in Nat /\ DOMAIN rows = 1..Len(rows) /\ \A n \in DOMAIN rows : rows[n] \in RequestRow
    BY Zenon, RowFacts
  <1>2. /\ DOMAIN new = DOMAIN rows
        /\ \A n \in DOMAIN rows : new[n] = IF n \in S THEN [rows[n] EXCEPT !.status = "canceled", !.fresh = FALSE]
                                           ELSE rows[n]
    BY Zenon DEF Canceled, cancel_unsettled_request
  <1>3. ASSUME NEW n \in DOMAIN rows
        PROVE  /\ new[n] \in RequestRow
               /\ new[n].kind = rows[n].kind /\ new[n].tokens = rows[n].tokens
               /\ new[n].status = IF n \in S THEN "canceled" ELSE rows[n].status
               /\ new[n].fresh => rows[n].fresh /\ n \notin S
    <2>1. rows[n] \in RequestRow
      BY Zenon, <1>1
    <2>2. CASE n \in S
      <3>1. new[n] = [rows[n] EXCEPT !.status = "canceled", !.fresh = FALSE]
        BY Zenon, <1>2, <2>2
      <3> QED BY Zenon, <2>1, <2>2, <3>1 DEF RequestRow
    <2>3. CASE n \notin S
      BY Zenon, <1>2, <2>1, <2>3
    <2> QED BY Zenon, <2>2, <2>3
  <1>4. new = [n \in 1..Len(rows) |-> new[n]]
    BY Zenon, <1>1 DEF Canceled
  <1>5. new \in [1..Len(rows) -> RequestRow]
    BY Zenon, <1>1, <1>3, <1>4
  <1>6. new \in Seq(RequestRow) /\ Len(new) = Len(rows)
    <2>1. new \in Seq(RequestRow)
      BY <1>1, <1>5
    <2>2. DOMAIN new = 1..Len(new) /\ Len(new) \in Nat
      BY <2>1
    <2>3. \A a, b \in Nat : 1..a = 1..b => a = b
      <3> SUFFICES ASSUME NEW a \in Nat, NEW b \in Nat, 1..a = 1..b, a # b PROVE FALSE
        BY Zenon
      <3>1. CASE a < b
        <4>1. b \in 1..b /\ b \notin 1..a
          BY <3>1
        <4> QED BY Zenon, <4>1
      <3>2. CASE b < a
        <4>1. a \in 1..a /\ a \notin 1..b
          BY <3>2
        <4> QED BY Zenon, <4>1
      <3> QED BY <3>1, <3>2
    <2> QED BY Zenon, <1>1, <1>2, <2>1, <2>2, <2>3
  <1> HIDE DEF new
  <1>7. Unbilled(new)
    BY Zenon, <1>2, <1>3 DEF Unbilled
  <1>8. ASSUME NEW k
        PROVE  /\ Started(new, k) = Started(rows, k) \ S /\ Owing(new, k) = Owing(rows, k)
               /\ CanceledRows(rows, k) \subseteq CanceledRows(new, k) /\ Kind(new, k) = Kind(rows, k)
    <2>1. Kind(new, k) = Kind(rows, k)
      BY Zenon, <1>2, <1>3 DEF Kind
    <2>2. Started(new, k) = Started(rows, k) \ S
      BY Zenon, <1>2, <1>3 DEF Started
    <2>3. CanceledRows(rows, k) \subseteq CanceledRows(new, k)
      BY Zenon, <1>2, <1>3, <2>1 DEF CanceledRows, Kind
    <2>4. Owing(new, k) = Owing(rows, k)
      BY Zenon, <1>2, <1>3, <2>1 DEF Owing, Kind, Unbilled
    <2> QED BY Zenon, <2>1, <2>2, <2>3, <2>4
  <1> QED BY Zenon, <1>2, <1>3, <1>6, <1>7, <1>8 DEF new

(* Every started row is one of a lane's. *)
LEMMA StartedFacts ==
    ASSUME NEW rows \in Seq(RequestRow)
    PROVE  /\ AllStarted(rows) \in SUBSET DOMAIN rows
           /\ \A n \in DOMAIN rows : n \in AllStarted(rows) <=> rows[n].status = "started"
           /\ \A k \in Lanes : Started(rows, k) \subseteq AllStarted(rows)
  BY RowFacts DEF AllStarted, Started

(* revoke_ticket_inference, the rotation of activate_inference_grant: all  *)
(* that is running is cancelled and no place is held.                      *)
LEMMA CancelBooks ==
    ASSUME NEW gr \in GrantRow, NEW gr2 \in GrantRow, NEW rows \in Seq(RequestRow), Booked(gr, rows),
           gr2.count = gr.count, gr2.tokens = gr.tokens, gr2.active = Zero,
           gr2.status = "revoked" \/ (gr2.status = "active" /\ gr.status \notin {"revoked", "exhausted"})
    PROVE  /\ Booked(gr2, Canceled(rows, AllStarted(rows))) /\ Canceled(rows, AllStarted(rows)) \in Seq(RequestRow)
           /\ DOMAIN Canceled(rows, AllStarted(rows)) = DOMAIN rows
           /\ \A n \in DOMAIN rows : /\ Canceled(rows, AllStarted(rows))[n].kind = rows[n].kind
                                     /\ Canceled(rows, AllStarted(rows))[n].status # "started"
  <1> DEFINE new == Canceled(rows, AllStarted(rows))
  <1>1. /\ AllStarted(rows) \in SUBSET DOMAIN rows
        /\ \A n \in DOMAIN rows : n \in AllStarted(rows) <=> rows[n].status = "started"
        /\ \A k \in Lanes : Started(rows, k) \subseteq AllStarted(rows)
    BY Zenon, StartedFacts
  <1>2. Unbilled(rows) /\ Walled(gr)
    BY Zenon DEF Booked
  <1>3. /\ new \in Seq(RequestRow) /\ DOMAIN new = DOMAIN rows /\ Unbilled(new)
        /\ \A n \in DOMAIN rows :
                /\ new[n].kind = rows[n].kind /\ new[n].tokens = rows[n].tokens
                /\ new[n].status = IF n \in AllStarted(rows) THEN "canceled" ELSE rows[n].status
        /\ \A k : /\ Started(new, k) = Started(rows, k) \ AllStarted(rows)
                  /\ Owing(new, k) = Owing(rows, k)
                  /\ CanceledRows(rows, k) \subseteq CanceledRows(new, k)
    BY <1>1, <1>2, CanceledFacts
  <1> HIDE DEF new
  <1>4. ASSUME NEW k \in Lanes PROVE LaneBooked(gr2, new, k)
    <2>1. Started(new, k) = {}
      BY Zenon, <1>1, <1>3
    <2>2. gr2.active[k] = Cardinality(Started(new, k))
      BY Zenon, <2>1, FS_EmptySet DEF Zero
    <2>3. LaneBooked(gr, rows, k)
      BY Zenon DEF Booked
    <2>4. /\ Owing(new, k) \subseteq Owing(rows, k) /\ CanceledRows(rows, k) \subseteq CanceledRows(new, k)
          /\ new \in Seq(RequestRow) /\ DOMAIN new = DOMAIN rows
          /\ \A n \in DOMAIN rows : new[n].kind = rows[n].kind /\ new[n].tokens = rows[n].tokens
      BY Zenon, <1>3
    <2> QED BY Zenon, <2>2, <2>3, <2>4, LaneKept
  <1>5. Walled(gr2)
    BY Zenon, <1>2 DEF Walled
  <1> QED BY Zenon, <1>1, <1>3, <1>4, <1>5 DEF Booked, new

(* Ending a grant leaves its books alone. *)
LEMMA EndBooks ==
    ASSUME NEW gr, NEW gr2, NEW rows, Booked(gr, rows),
           gr2.count = gr.count, gr2.tokens = gr.tokens, gr2.active = gr.active, gr2.status = "revoked"
    PROVE  Booked(gr2, rows)
  BY Zenon DEF Booked, Walled, LaneBooked

(* Ageing changes nothing the books are about. *)
LEMMA AgeBooks ==
    ASSUME NEW gr \in GrantRow, NEW rows \in Seq(RequestRow), NEW rows2 \in Seq(RequestRow), Booked(gr, rows),
           DOMAIN rows2 = DOMAIN rows,
           \A n \in DOMAIN rows : /\ rows2[n].kind = rows[n].kind /\ rows2[n].tokens = rows[n].tokens
                                  /\ rows2[n].status = rows[n].status
    PROVE  Booked(gr, rows2)
  <1>1. Unbilled(rows2) /\ Walled(gr)
    BY Zenon DEF Booked, Unbilled
  <1>2. ASSUME NEW k \in Lanes PROVE LaneBooked(gr, rows2, k)
    <2>1. Kind(rows2, k) = Kind(rows, k)
      BY Zenon DEF Kind
    <2>2. Started(rows2, k) = Started(rows, k)
      BY Zenon DEF Started
    <2>3. Owing(rows2, k) = Owing(rows, k) /\ CanceledRows(rows2, k) = CanceledRows(rows, k)
      BY Zenon, <2>1 DEF Owing, CanceledRows, Kind
    <2>4. LaneBooked(gr, rows, k)
      BY Zenon DEF Booked
    <2>5. gr.active[k] = Cardinality(Started(rows2, k))
      BY Zenon, <2>2, <2>4 DEF LaneBooked
    <2> QED BY Zenon, <2>3, <2>4, <2>5, LaneKept
  <1> QED BY Zenon, <1>1, <1>2 DEF Booked

(* The books of a grant nobody has used. *)
LEMMA FreshBooks ==
    ASSUME NEW gr, gr.count = Zero, gr.tokens = Zero, gr.active = Zero, gr.status \in {"none", "pending"}
    PROVE  Booked(gr, <<>>)
  <1>1. /\ "chat" \in Lanes /\ Ceiling \in Nat
        /\ \A k \in Lanes : TokenBudget[k] \in Nat \ {0} /\ Concurrency[k] \in Nat /\ RequestBudget[k] \in Nat
    BY Zenon, GrantAssumption
  <1>2. \A k \in Lanes : gr.count[k] = 0 /\ gr.tokens[k] = 0 /\ gr.active[k] = 0
    BY Zenon DEF Zero
  <1>3. Unbilled(<<>>)
    BY DEF Unbilled
  <1>4. Walled(gr)
    BY <1>1, <1>2 DEF Walled
  <1>5. ASSUME NEW k \in Lanes PROVE LaneBooked(gr, <<>>, k)
    <2>1. Kind(<<>>, k) = {} /\ Started(<<>>, k) = {}
      BY DEF Kind, Started
    <2>2. Owing(<<>>, k) = {} /\ CanceledRows(<<>>, k) = {}
      BY Zenon, <2>1 DEF Owing, CanceledRows
    <2>3. Spend(<<>>, k) = 0
      BY Zenon, <2>1, SumEmpty DEF Spend
    <2>4. Cardinality({}) = 0
      BY Zenon, FS_EmptySet
    <2>5. Ceiling * 0 = 0 /\ Ceiling * (Concurrency[k] + 0) \in Nat
      BY <1>1, TimesMonotone
    <2>6. 0 + Ceiling * 0 < TokenBudget[k] + Ceiling * (Concurrency[k] + 0)
      BY <1>1, <2>5
    <2>7. 0 <= RequestBudget[k]
      BY <1>1
    <2> QED BY Zenon, <1>2, <2>1, <2>2, <2>3, <2>4, <2>6, <2>7 DEF LaneBooked
  <1> QED BY Zenon, <1>3, <1>4, <1>5 DEF Booked

(* What an admission to lane k adds to the rows and to the grant. *)
RowsAdmitted(old, new, last, k) ==
    /\ last \notin DOMAIN old /\ DOMAIN new = DOMAIN old \cup {last} /\ new[last] = Row(k)
    /\ \A m \in DOMAIN old : new[m] = old[m]

GrantAdmitted(gr, gr2, k) ==
    /\ gr2.status = gr.status /\ gr2.tokens = gr.tokens
    /\ gr2.count[k] = gr.count[k] + 1 /\ gr2.active[k] = gr.active[k] + 1
    /\ \A j \in Lanes : j # k => gr2.count[j] = gr.count[j] /\ gr2.active[j] = gr.active[j]

(* The checks of begin_inference_request on the grant, a places being taken. *)
RailsHold(gr, k, a) == gr.count[k] < RequestBudget[k] /\ gr.tokens[k] < TokenBudget[k] /\ a < Concurrency[k]

(* finish_inference_request on one row: what was running there no longer   *)
(* is, and its receipt is in the rows.                                     *)
RowSettled(rows, new, n) ==
    /\ n \in DOMAIN rows /\ DOMAIN new = DOMAIN rows /\ \A m \in DOMAIN rows : m # n => new[m] = rows[m]
    /\ new[n].kind = rows[n].kind /\ new[n].status # "started" /\ rows[n].tokens = 0
    /\ rows[n].status \in {"started", "canceled"}
    /\ rows[n].status = "canceled" => new[n].status = "canceled"
(* A settlement keeps the books: the place is given back once, the receipt *)
(* is booked once, and it was part of the wall while the call was out.     *)
GrantSettled(gr, gr2, rows, new, n, k) ==
    /\ gr2.count = gr.count /\ gr2.tokens[k] = gr.tokens[k] + new[n].tokens
    /\ gr2.active[k] = ActiveAfter(rows[n], gr.active[k])
    /\ \A j \in Lanes : j # k => gr2.tokens[j] = gr.tokens[j] /\ gr2.active[j] = gr.active[j]
    /\ gr2.status = IF Exhausts(k, gr2.tokens) THEN "exhausted" ELSE gr.status

(* Settling a request keeps the books. *)
LEMMA SettleBooks ==
    \A gr \in GrantRow, gr2 \in GrantRow, rows \in Seq(RequestRow), new \in Seq(RequestRow) :
    \A n :
    \A k \in Lanes :
        /\ Booked(gr, rows) /\ RowSettled(rows, new, n)
        /\ k = rows[n].kind /\ GrantSettled(gr, gr2, rows, new, n, k)
        => Booked(gr2, new)
  (* Of the rows, only those of the settled request's lane change their sets. *)
  <1>SettleRows.
      ASSUME NEW rows \in Seq(RequestRow), NEW new \in Seq(RequestRow), Unbilled(rows), NEW n, RowSettled(rows, new, n)
      PROVE  /\ Unbilled(new)
             /\ \A k \in Lanes : k # rows[n].kind =>
                  /\ Started(new, k) = Started(rows, k) /\ Kind(new, k) = Kind(rows, k)
                  /\ Owing(new, k) = Owing(rows, k) /\ CanceledRows(new, k) = CanceledRows(rows, k)
                  /\ Spend(new, k) = Spend(rows, k)
             /\ \A k \in Lanes : k = rows[n].kind =>
                  /\ Started(new, k) = Started(rows, k) \ {n} /\ Kind(new, k) = Kind(rows, k)
                  /\ n \in Owing(rows, k) /\ CanceledRows(rows, k) \subseteq CanceledRows(new, k)
                  /\ Owing(new, k) = IF new[n].status = "canceled" /\ new[n].tokens = 0
                                     THEN Owing(rows, k) ELSE Owing(rows, k) \ {n}
                  /\ Spend(new, k) = Spend(rows, k) + new[n].tokens /\ Spend(rows, k) \in Nat
    <2> USE <1>SettleRows
    <2> USE DEF RowSettled
    <2>1. Unbilled(new)
      BY Zenon DEF Unbilled
    <2>2. \A k : Kind(new, k) = Kind(rows, k)
      BY Zenon DEF Kind
    <2>3. ASSUME NEW k \in Lanes, k # rows[n].kind
          PROVE  /\ Started(new, k) = Started(rows, k)
                 /\ Owing(new, k) = Owing(rows, k) /\ CanceledRows(new, k) = CanceledRows(rows, k)
                 /\ Spend(new, k) = Spend(rows, k)
      <3>1. Started(new, k) = Started(rows, k)
        BY Zenon, <2>3 DEF Started
      <3>2. \A m \in Kind(rows, k) : new[m] = rows[m]
        BY Zenon, <2>3 DEF Kind
      <3>3. Owing(new, k) = Owing(rows, k) /\ CanceledRows(new, k) = CanceledRows(rows, k)
        BY <2>2, <3>2 DEF Owing, CanceledRows
      <3>4. Spend(new, k) = Spend(rows, k)
        BY <2>2, <3>2, SpendSame
      <3> QED BY Zenon, <3>1, <3>3, <3>4
    <2>4. ASSUME NEW k \in Lanes, k = rows[n].kind
          PROVE  /\ Started(new, k) = Started(rows, k) \ {n}
                 /\ n \in Owing(rows, k) /\ CanceledRows(rows, k) \subseteq CanceledRows(new, k)
                 /\ Owing(new, k) = IF new[n].status = "canceled" /\ new[n].tokens = 0
                                    THEN Owing(rows, k) ELSE Owing(rows, k) \ {n}
      <3>1. Started(new, k) = Started(rows, k) \ {n}
        BY <2>4 DEF Started
      <3>2. n \in Kind(rows, k) /\ \A m \in Kind(rows, k) : m # n => new[m] = rows[m]
        BY Zenon, <2>4 DEF Kind
      <3>3. n \in Owing(rows, k) /\ CanceledRows(rows, k) \subseteq CanceledRows(new, k)
        BY Zenon, <2>2, <3>2 DEF Owing, CanceledRows
      <3>4. Owing(new, k) = IF new[n].status = "canceled" /\ new[n].tokens = 0
                            THEN Owing(rows, k) ELSE Owing(rows, k) \ {n}
        BY <2>2, <3>2 DEF Owing
      <3> QED BY Zenon, <3>1, <3>3, <3>4
    <2>5. ASSUME NEW k \in Lanes, k = rows[n].kind
          PROVE  Spend(new, k) = Spend(rows, k) + new[n].tokens /\ Spend(rows, k) \in Nat
      <3> DEFINE f == [m \in DOMAIN rows |-> rows[m].tokens]
                 g == [m \in DOMAIN new |-> new[m].tokens]
      <3> PICK rest : rest = Kind(rows, k) \ {n}
        BY Zenon
      <3>1. IsFiniteSet(Kind(rows, k)) /\ Kind(rows, k) \in SUBSET DOMAIN rows /\ n \in Kind(rows, k)
        <4>1. n \in Kind(rows, k)
          BY Zenon, <2>5 DEF Kind
        <4> QED BY Zenon, <4>1, SetFacts
      <3>2. IsFiniteSet(rest) /\ rest \in SUBSET Kind(rows, k) /\ n \notin rest
        BY Zenon, <3>1, FS_Subset
      <3>3. /\ \A m \in Kind(rows, k) : f[m] \in Nat /\ g[m] \in Nat
            /\ \A m \in rest : f[m] = g[m]
            /\ f[n] = 0 /\ g[n] = new[n].tokens
        BY Zenon, <3>1, <3>2, RowFacts
      <3>4. Spend(rows, k) = SumFunctionOnSet(f, Kind(rows, k)) /\ Spend(new, k) = SumFunctionOnSet(g, Kind(rows, k))
        BY Zenon, <2>2 DEF Spend
      <3> HIDE DEF f, g
      <3>5. /\ SumFunctionOnSet(f, Kind(rows, k)) = f[n] + SumFunctionOnSet(f, rest)
            /\ SumFunctionOnSet(g, Kind(rows, k)) = g[n] + SumFunctionOnSet(g, rest)
        <4>1. Values(f, Kind(rows, k)) /\ Values(g, Kind(rows, k))
          BY <3>3 DEF Values
        <4> QED BY <3>1, <4>1, SumRemove
      <3>6. SumFunctionOnSet(f, rest) = SumFunctionOnSet(g, rest) /\ SumFunctionOnSet(f, rest) \in Nat
        <4>1. Values(f, rest) /\ \A m \in rest : f[m] \in Nat
          BY <3>2, <3>3 DEF Values
        <4> QED BY <3>2, <3>3, <4>1, SumSame, SumNat
      <3>7. \A x, y \in Nat : 0 + x \in Nat /\ y + x = (0 + x) + y
        OBVIOUS
      <3>8. f[n] = 0 /\ g[n] = new[n].tokens /\ g[n] \in Nat
        BY Zenon, <3>1, <3>3
      <3> QED BY <3>4, <3>5, <3>6, <3>7, <3>8
    <2> QED BY Zenon, <2>1, <2>2, <2>3, <2>4, <2>5
  (* A receipt takes the place of the ceiling that was set aside for it. *)
  <1>ReceiptWithin.
      ASSUME NEW t \in Nat, NEW b \in Nat, NEW q \in Nat, NEW m \in Nat, NEW x \in Nat,
             NEW o \in Nat, NEW o2 \in Nat, NEW c \in Nat, NEW c2 \in Nat,
             t + q * o < b + q * (m + c), c <= c2, (x = 0 /\ o2 = o) \/ (x <= q /\ o = o2 + 1)
      PROVE  t + x + q * o2 < b + q * (m + c2)
    <2> USE <1>ReceiptWithin
    <2>1. /\ q * (m + c) \in Nat /\ q * (m + c2) \in Nat /\ q * (m + c) <= q * (m + c2)
      <3>1. m + c \in Nat /\ m + c2 \in Nat /\ m + c <= m + c2
        OBVIOUS
      <3> QED BY Zenon, <3>1, TimesMonotone
    <2>2. q * o \in Nat /\ q * o2 \in Nat
      BY TimesMonotone
    <2>3. x + q * o2 <= q * o
      <3>1. CASE x = 0 /\ o2 = o
        BY <2>2, <3>1
      <3>2. CASE x <= q /\ o = o2 + 1
        <4>1. \A i, j \in Nat : i * (j + 1) = i * j + i
          OBVIOUS
        <4>2. q * o = q * o2 + q
          BY Zenon, <3>2, <4>1
        <4>3. \A i, j, l \in Nat : i <= l => i + j <= j + l
          OBVIOUS
        <4> QED BY Zenon, <2>2, <3>2, <4>2, <4>3
      <3> QED BY Zenon, <3>1, <3>2
    <2>4. \A y, z, z2, w, w2 \in Nat : t + w < b + y /\ z + w2 <= w /\ y <= z2 => t + z + w2 < b + z2
      OBVIOUS
    <2> QED BY Zenon, <2>1, <2>2, <2>3, <2>4
  <1> SUFFICES ASSUME NEW gr \in GrantRow, NEW gr2 \in GrantRow, NEW rows \in Seq(RequestRow), NEW new \in Seq(RequestRow),
                      Booked(gr, rows), NEW n, RowSettled(rows, new, n), NEW k \in Lanes, k = rows[n].kind,
                      GrantSettled(gr, gr2, rows, new, n, k)
               PROVE  Booked(gr2, new)
    BY Zenon
  <1>1. Unbilled(rows) /\ Walled(gr) /\ \A j \in Lanes : LaneBooked(gr, rows, j)
    BY Zenon DEF Booked
  <1>2. /\ Unbilled(new)
        /\ \A j \in Lanes : j # k =>
             /\ Started(new, j) = Started(rows, j) /\ Kind(new, j) = Kind(rows, j)
             /\ Owing(new, j) = Owing(rows, j) /\ CanceledRows(new, j) = CanceledRows(rows, j)
             /\ Spend(new, j) = Spend(rows, j)
        /\ Started(new, k) = Started(rows, k) \ {n} /\ Kind(new, k) = Kind(rows, k)
        /\ n \in Owing(rows, k) /\ CanceledRows(rows, k) \subseteq CanceledRows(new, k)
        /\ Owing(new, k) = IF new[n].status = "canceled" /\ new[n].tokens = 0
                           THEN Owing(rows, k) ELSE Owing(rows, k) \ {n}
        /\ Spend(new, k) = Spend(rows, k) + new[n].tokens
    <2>1. /\ Unbilled(new)
          /\ \A j \in Lanes : j # rows[n].kind =>
               /\ Started(new, j) = Started(rows, j) /\ Kind(new, j) = Kind(rows, j)
               /\ Owing(new, j) = Owing(rows, j) /\ CanceledRows(new, j) = CanceledRows(rows, j)
               /\ Spend(new, j) = Spend(rows, j)
          /\ \A j \in Lanes : j = rows[n].kind =>
               /\ Started(new, j) = Started(rows, j) \ {n} /\ Kind(new, j) = Kind(rows, j)
               /\ n \in Owing(rows, j) /\ CanceledRows(rows, j) \subseteq CanceledRows(new, j)
               /\ Owing(new, j) = IF new[n].status = "canceled" /\ new[n].tokens = 0
                                  THEN Owing(rows, j) ELSE Owing(rows, j) \ {n}
               /\ Spend(new, j) = Spend(rows, j) + new[n].tokens /\ Spend(rows, j) \in Nat
      BY ZenonT(60), <1>1, <1>SettleRows
    <2> QED BY Zenon, <2>1
  <1>3. /\ "chat" \in Lanes /\ TokenBudget["chat"] \in Nat /\ gr.tokens["chat"] \in Nat
        /\ Ceiling \in Nat /\ TokenBudget[k] \in Nat /\ Concurrency[k] \in Nat
        /\ gr.tokens[k] \in Nat /\ gr.active[k] \in Nat
    BY Zenon, GrantAssumption DEF GrantRow
  <1>4. new[n].tokens \in 0..Ceiling /\ new[n].tokens \in Nat
    <2>1. new[n] \in RequestRow
      BY Zenon, RowFacts DEF RowSettled
    <2> QED BY <1>3, <2>1 DEF RequestRow
  <1>5. Walled(gr2)
    <2>1. CASE k = "chat"
      <3>1. CASE gr2.tokens["chat"] >= TokenBudget["chat"]
        BY Zenon, <2>1, <3>1 DEF Walled, Exhausts, GrantSettled
      <3>2. CASE ~(gr2.tokens["chat"] >= TokenBudget["chat"])
        <4>1. ~(gr.tokens["chat"] >= TokenBudget["chat"])
          BY <1>3, <1>4, <2>1, <3>2 DEF GrantSettled
        <4> QED BY Zenon, <1>1, <2>1, <3>2, <4>1 DEF Walled, Exhausts, GrantSettled
      <3> QED BY Zenon, <3>1, <3>2
    <2>2. CASE k # "chat"
      <3>1. gr2.status = gr.status /\ gr2.tokens["chat"] = gr.tokens["chat"]
        BY Zenon, <1>3, <2>2 DEF Exhausts, GrantSettled
      <3> QED BY Zenon, <1>1, <3>1 DEF Walled
    <2> QED BY Zenon, <2>1, <2>2
  <1>6. ASSUME NEW j \in Lanes, j # k PROVE LaneBooked(gr2, new, j)
    BY Zenon, <1>1, <1>2, <1>6 DEF LaneBooked, GrantSettled
  <1>7. gr2.active[k] = Cardinality(Started(new, k))
    <2>1. gr.active[k] = Cardinality(Started(rows, k)) /\ IsFiniteSet(Started(rows, k))
      BY Zenon, <1>1, SetFacts DEF LaneBooked
    <2>2. CASE rows[n].status = "started"
      <3>1. n \in Started(rows, k)
        BY Zenon, <2>2 DEF Started, RowSettled
      <3>2. Cardinality(Started(rows, k) \ {n}) = Cardinality(Started(rows, k)) - 1
        BY Zenon, <2>1, <3>1, FS_RemoveElement
      <3>3. Cardinality(Started(rows, k)) > 0
        BY <1>3, <2>1, <3>1, FS_EmptySet
      <3> QED BY Zenon, <1>2, <2>1, <2>2, <3>2, <3>3 DEF ActiveAfter, GrantSettled
    <2>3. CASE rows[n].status # "started"
      <3>1. n \notin Started(rows, k)
        BY Zenon, <2>3 DEF Started
      <3>2. Started(rows, k) \ {n} = Started(rows, k)
        BY Zenon, <3>1
      <3> QED BY Zenon, <1>2, <2>1, <2>3, <3>2 DEF ActiveAfter, GrantSettled
    <2> QED BY Zenon, <2>2, <2>3
  <1>8. LaneBooked(gr2, new, k)
    <2>1. LaneBooked(gr, rows, k)
      BY Zenon, <1>1
    <2>2. PICK o, o2, c, c2, x \in Nat :
            /\ o = Cardinality(Owing(rows, k)) /\ o2 = Cardinality(Owing(new, k)) /\ x = new[n].tokens
            /\ c = Cardinality(CanceledRows(rows, k)) /\ c2 = Cardinality(CanceledRows(new, k)) /\ c <= c2
            /\ (x = 0 /\ o2 = o) \/ (x <= Ceiling /\ o = o2 + 1)
      <3>1. /\ Cardinality(Owing(rows, k)) \in Nat /\ Cardinality(Owing(new, k)) \in Nat
            /\ Cardinality(CanceledRows(rows, k)) \in Nat /\ Cardinality(CanceledRows(new, k)) \in Nat
            /\ IsFiniteSet(Owing(rows, k)) /\ IsFiniteSet(CanceledRows(new, k))
        BY Zenon, SetFacts
      <3>2. Cardinality(CanceledRows(rows, k)) <= Cardinality(CanceledRows(new, k))
        BY Zenon, <1>2, <3>1, FS_Subset
      <3>3. Cardinality(Owing(rows, k) \ {n}) = Cardinality(Owing(rows, k)) - 1
        BY Zenon, <1>2, <3>1, FS_RemoveElement
      <3>4. \/ new[n].tokens = 0 /\ Cardinality(Owing(new, k)) = Cardinality(Owing(rows, k))
            \/ new[n].tokens <= Ceiling /\ Cardinality(Owing(rows, k)) = Cardinality(Owing(new, k)) + 1
        <4>1. CASE new[n].status = "canceled" /\ new[n].tokens = 0
          BY Zenon, <1>2, <4>1
        <4>2. CASE ~(new[n].status = "canceled" /\ new[n].tokens = 0)
          <5>1. Owing(new, k) = Owing(rows, k) \ {n}
            BY Zenon, <1>2, <4>2
          <5>2. \A i, j \in Nat : i = j - 1 => j = i + 1
            OBVIOUS
          <5>3. new[n].tokens <= Ceiling
            BY <1>3, <1>4
          <5> QED BY Zenon, <3>1, <3>3, <5>1, <5>2, <5>3
        <4> QED BY Zenon, <4>1, <4>2
      <3> QED BY Zenon, <1>4, <3>1, <3>2, <3>4
    <2>3. gr.tokens[k] + Ceiling * o < TokenBudget[k] + Ceiling * (Concurrency[k] + c)
      BY Zenon, <2>1, <2>2 DEF LaneBooked
    <2>6. gr.tokens[k] + x + Ceiling * o2 < TokenBudget[k] + Ceiling * (Concurrency[k] + c2)
      <3>1. PICK t, b, q, m \in Nat : t = gr.tokens[k] /\ b = TokenBudget[k] /\ q = Ceiling /\ m = Concurrency[k]
        BY Zenon, <1>3
      <3>2. t + q * o < b + q * (m + c)
        BY Zenon, <2>3, <3>1
      <3>3. c <= c2 /\ ((x = 0 /\ o2 = o) \/ (x <= q /\ o = o2 + 1))
        BY Zenon, <2>2, <3>1
      <3>4. t + x + q * o2 < b + q * (m + c2)
        BY Zenon, <3>2, <3>3, <1>ReceiptWithin
      <3> QED BY Zenon, <3>1, <3>4
    <2>7. gr2.count[k] = Cardinality(Kind(new, k)) /\ gr2.count[k] <= RequestBudget[k]
      BY Zenon, <1>2, <2>1 DEF LaneBooked, GrantSettled
    <2>8. gr2.tokens[k] = Spend(new, k)
      BY Zenon, <1>2, <2>1 DEF LaneBooked, GrantSettled
    <2>9. gr2.tokens[k] + Ceiling * Cardinality(Owing(new, k))
            < TokenBudget[k] + Ceiling * (Concurrency[k] + Cardinality(CanceledRows(new, k)))
      BY Zenon, <2>2, <2>6 DEF GrantSettled
    <2> QED BY Zenon, <1>7, <2>7, <2>8, <2>9 DEF LaneBooked
  <1> QED BY Zenon, <1>2, <1>5, <1>6, <1>8 DEF Booked

-----------------------------------------------------------------------------
(* The system. *)

(* The grant row an admission writes. *)
AdmitWrites(gr, new, k, a) ==
    a \in Nat /\ new = [gr EXCEPT !.count[k] = @ + 1, !.active[k] = a + 1]
(* Reclaiming, recounting and admitting: the whole transaction on the rows *)
(* of its grant.                                                           *)
RowsReclaimed(gr, rows, old, k, a) ==
    /\ old = Canceled(rows, {n \in Started(rows, k) : ~rows[n].fresh})
    /\ a = IF old = rows THEN gr.active[k] ELSE Cardinality(Started(old, k))

RowsWritten(rows, old, new, n, k) ==
    n = Len(rows) + 1 /\ new = [m \in DOMAIN rows \cup {n} |-> IF m = n THEN Row(k) ELSE old[m]]

(* Reclaiming stale reservations and recounting a lane keep the books. *)
LEMMA ReclaimedRows ==
    \A k \in Lanes, gr \in GrantRow, rows \in Seq(RequestRow) :
    \A old, a :
        Booked(gr, rows) /\ RowsReclaimed(gr, rows, old, k, a)
        => /\ old \in Seq(RequestRow) /\ DOMAIN old = DOMAIN rows /\ Len(old) = Len(rows) /\ a \in Nat
           /\ \A m \in DOMAIN rows :
                /\ old[m].kind = rows[m].kind
                /\ old[m].status = "started" /\ old[m].fresh => rows[m].status = "started" /\ rows[m].fresh
           /\ \E mid \in GrantRow : /\ mid.status = gr.status /\ mid.tokens = gr.tokens /\ mid.count = gr.count
                                    /\ mid.active[k] = a /\ \A j \in Lanes : j # k => mid.active[j] = gr.active[j]
                                    /\ Booked(mid, old)
  (* Books recounted over rows of which some were cancelled. *)
  <1>RecountBooks.
      ASSUME NEW gr \in GrantRow, NEW gr2 \in GrantRow, NEW rows \in Seq(RequestRow), NEW old \in Seq(RequestRow),
             Booked(gr, rows), Unbilled(old), DOMAIN old = DOMAIN rows,
             \A n \in DOMAIN rows : old[n].kind = rows[n].kind /\ old[n].tokens = rows[n].tokens,
             gr2.status = gr.status, gr2.tokens = gr.tokens, gr2.count = gr.count,
             \A j \in Lanes : /\ gr2.active[j] = Cardinality(Started(old, j))
                              /\ Owing(old, j) \subseteq Owing(rows, j)
                              /\ CanceledRows(rows, j) \subseteq CanceledRows(old, j)
      PROVE  Booked(gr2, old)
    <2> USE <1>RecountBooks
    <2>1. Walled(gr2)
      BY Zenon DEF Booked, Walled
    <2>2. ASSUME NEW j \in Lanes PROVE LaneBooked(gr2, old, j)
      <3>1. LaneBooked(gr, rows, j) /\ gr2.count[j] = gr.count[j] /\ gr2.tokens[j] = gr.tokens[j]
        BY Zenon DEF Booked
      <3>2. /\ gr2.active[j] = Cardinality(Started(old, j)) /\ Owing(old, j) \subseteq Owing(rows, j)
            /\ CanceledRows(rows, j) \subseteq CanceledRows(old, j)
        BY Zenon
      <3> QED BY Zenon, <3>1, <3>2, LaneKept
    <2> QED BY Zenon, <2>1, <2>2 DEF Booked
  (* Reclaiming what is overdue in a lane, and recounting it, keeps the      *)
  (* books.                                                                  *)
  <1>ReclaimBooks.
      ASSUME NEW k \in Lanes, NEW gr \in GrantRow, NEW gr2 \in GrantRow, NEW rows \in Seq(RequestRow), Booked(gr, rows),
             NEW S \in SUBSET Started(rows, k), NEW old, old = Canceled(rows, S),
             gr2.status = gr.status, gr2.tokens = gr.tokens, gr2.count = gr.count,
             gr2.active[k] = Cardinality(Started(old, k)), \A j \in Lanes : j # k => gr2.active[j] = gr.active[j]
      PROVE  Booked(gr2, old) /\ old \in Seq(RequestRow) /\ DOMAIN old = DOMAIN rows /\ Len(old) = Len(rows)
    <2> USE <1>ReclaimBooks
    <2>1. S \in SUBSET DOMAIN rows /\ \A n \in S : rows[n].status = "started" /\ rows[n].kind = k
      BY Zenon DEF Started
    <2>2. Unbilled(rows) /\ \A j \in Lanes : LaneBooked(gr, rows, j)
      BY Zenon DEF Booked
    <2>3. /\ old \in Seq(RequestRow) /\ DOMAIN old = DOMAIN rows /\ Len(old) = Len(rows) /\ Unbilled(old)
          /\ \A n \in DOMAIN rows : old[n].kind = rows[n].kind /\ old[n].tokens = rows[n].tokens
          /\ \A j : /\ Started(old, j) = Started(rows, j) \ S
                    /\ Owing(old, j) = Owing(rows, j)
                    /\ CanceledRows(rows, j) \subseteq CanceledRows(old, j)
      BY <2>1, <2>2, CanceledFacts
    <2>4. ASSUME NEW j \in Lanes PROVE gr2.active[j] = Cardinality(Started(old, j))
      <3>1. CASE j = k
        BY Zenon, <3>1
      <3>2. CASE j # k
        <4>1. Started(old, j) = Started(rows, j) \ S
          BY Zenon, <2>3
        <4>2. \A n \in Started(rows, j) : rows[n].kind = j
          BY Zenon DEF Started
        <4>3. Started(old, j) = Started(rows, j)
          BY <2>1, <3>2, <4>1, <4>2
        <4> QED BY Zenon, <2>2, <3>2, <4>3 DEF LaneBooked
      <3> QED BY Zenon, <3>1, <3>2
    <2> QED BY ZenonT(60), <2>3, <2>4, <1>RecountBooks
  (* The same row before its place is taken: the lane is recounted. *)
  <1>RecountedGrant.
      ASSUME NEW gr \in GrantRow, NEW k \in Lanes, NEW a \in Nat
      PROVE  \E mid \in GrantRow : /\ mid.status = gr.status /\ mid.tokens = gr.tokens /\ mid.count = gr.count
                                   /\ mid.active[k] = a /\ \A j \in Lanes : j # k => mid.active[j] = gr.active[j]
    <2> USE <1>RecountedGrant
    <2>1. gr.active \in [Lanes -> Nat]
      BY Zenon DEF GrantRow
    <2>2. PICK active : active = [gr.active EXCEPT ![k] = a]
      BY Zenon
    <2>3. active \in [Lanes -> Nat] /\ active[k] = a /\ \A j \in Lanes : j # k => active[j] = gr.active[j]
      BY Zenon, <2>1, <2>2
    <2>4. PICK mid : mid = [gr EXCEPT !.active = active]
      BY Zenon
    <2>5. mid \in GrantRow /\ mid.status = gr.status /\ mid.tokens = gr.tokens /\ mid.count = gr.count /\ mid.active = active
      BY Zenon, <2>3, <2>4 DEF GrantRow
    <2> QED BY Zenon, <2>3, <2>5
  <1> SUFFICES ASSUME NEW k \in Lanes, NEW gr \in GrantRow, NEW rows \in Seq(RequestRow), NEW old, NEW a,
                      Booked(gr, rows), RowsReclaimed(gr, rows, old, k, a)
               PROVE  /\ old \in Seq(RequestRow) /\ DOMAIN old = DOMAIN rows /\ Len(old) = Len(rows) /\ a \in Nat
                      /\ \A m \in DOMAIN rows :
                           /\ old[m].kind = rows[m].kind
                           /\ old[m].status = "started" /\ old[m].fresh => rows[m].status = "started" /\ rows[m].fresh
                      /\ \E mid \in GrantRow : /\ mid.status = gr.status /\ mid.tokens = gr.tokens /\ mid.count = gr.count
                                               /\ mid.active[k] = a /\ \A j \in Lanes : j # k => mid.active[j] = gr.active[j]
                                               /\ Booked(mid, old)
    OBVIOUS
  <1>1. PICK S : S = {n \in Started(rows, k) : ~rows[n].fresh}
    BY Zenon
  <1>2. old = Canceled(rows, S) /\ a = IF old = rows THEN gr.active[k] ELSE Cardinality(Started(old, k))
    BY Zenon, <1>1 DEF RowsReclaimed
  <1>3. /\ S \in SUBSET Started(rows, k) /\ S \in SUBSET DOMAIN rows /\ \A m \in S : rows[m].status = "started"
        /\ Unbilled(rows)
    BY Zenon, <1>1 DEF Started, Booked
  <1>4. /\ old \in Seq(RequestRow) /\ DOMAIN old = DOMAIN rows /\ Len(old) = Len(rows)
        /\ \A m \in DOMAIN rows :
             /\ old[m].kind = rows[m].kind
             /\ old[m].status = IF m \in S THEN "canceled" ELSE rows[m].status
             /\ old[m].fresh => rows[m].fresh /\ m \notin S
    BY <1>2, <1>3, CanceledFacts
  <1>5. a = Cardinality(Started(old, k)) /\ a \in Nat
    <2>1. gr.active[k] = Cardinality(Started(rows, k))
      BY Zenon DEF Booked, LaneBooked
    <2>2. Cardinality(Started(old, k)) \in Nat
      BY Zenon, <1>4, SetFacts
    <2> QED BY Zenon, <1>2, <2>1, <2>2
  <1>6. PICK mid \in GrantRow : /\ mid.status = gr.status /\ mid.tokens = gr.tokens /\ mid.count = gr.count
                                /\ mid.active[k] = a /\ \A j \in Lanes : j # k => mid.active[j] = gr.active[j]
    BY Zenon, <1>5, <1>RecountedGrant
  <1>7. Booked(mid, old)
    BY Zenon, <1>2, <1>3, <1>5, <1>6, <1>ReclaimBooks
  <1> QED BY Zenon, <1>4, <1>5, <1>6, <1>7

(* What an admission makes of a grant and its rows: one row more, the      *)
(* others as they were or no longer running, and books that say so.        *)
AdmissionBooked(gr, gr2, rows, new, n, k) ==
    /\ gr2 \in GrantRow /\ new \in Seq(RequestRow) /\ Booked(gr2, new)
    /\ gr2.status = gr.status /\ gr2.tokens = gr.tokens /\ gr2.generation = gr.generation
    /\ n \notin DOMAIN rows /\ DOMAIN new = DOMAIN rows \cup {n} /\ new[n].kind = k
    /\ \A m \in DOMAIN rows :
         /\ new[m].kind = rows[m].kind
         /\ new[m].status = "started" /\ new[m].fresh => rows[m].status = "started" /\ rows[m].fresh

(* Admitting a request on the reclaimed rows keeps the books. *)
LEMMA AdmittedRows ==
    \A k \in Lanes, gr \in GrantRow, rows \in Seq(RequestRow) : \A gr2, new, old, a, n :
        /\ Booked(gr, rows) /\ RowsReclaimed(gr, rows, old, k, a) /\ RailsHold(gr, k, a)
        /\ AdmitWrites(gr, gr2, k, a) /\ RowsWritten(rows, old, new, n, k)
        => AdmissionBooked(gr, gr2, rows, new, n, k)
  (* The wall of a lane that admits: what may still be booked is running or  *)
  (* cancelled, and what is running fits the concurrency.                    *)
  <1>AdmitWall.
      ASSUME NEW k \in Lanes, NEW rows \in Seq(RequestRow), NEW tokens \in Nat, tokens < TokenBudget[k],
             Cardinality(Started(rows, k)) <= Concurrency[k]
      PROVE  tokens + Ceiling * Cardinality(Owing(rows, k))
               < TokenBudget[k] + Ceiling * (Concurrency[k] + Cardinality(CanceledRows(rows, k)))
    <2> USE <1>AdmitWall
    <2>1. Owing(rows, k) \subseteq Started(rows, k) \cup CanceledRows(rows, k)
      BY Zenon DEF Owing, Started, CanceledRows, Kind
    <2>2. PICK o, s, c, u, i \in Nat :
            /\ o = Cardinality(Owing(rows, k)) /\ s = Cardinality(Started(rows, k))
            /\ c = Cardinality(CanceledRows(rows, k)) /\ u = s + c - i /\ o <= u
      <3>1. /\ IsFiniteSet(Started(rows, k)) /\ IsFiniteSet(CanceledRows(rows, k))
            /\ Cardinality(Started(rows, k)) \in Nat /\ Cardinality(CanceledRows(rows, k)) \in Nat
            /\ Cardinality(Owing(rows, k)) \in Nat
        BY Zenon, SetFacts
      <3>2. /\ IsFiniteSet(Started(rows, k) \cup CanceledRows(rows, k))
            /\ Cardinality(Started(rows, k) \cup CanceledRows(rows, k))
                 = Cardinality(Started(rows, k)) + Cardinality(CanceledRows(rows, k))
                     - Cardinality(Started(rows, k) \cap CanceledRows(rows, k))
        BY Zenon, <3>1, FS_Union
      <3>3. Cardinality(Started(rows, k) \cap CanceledRows(rows, k)) \in Nat
        BY Zenon, <3>1, FS_Intersection, FS_CardinalityType
      <3>4. /\ Cardinality(Owing(rows, k)) <= Cardinality(Started(rows, k) \cup CanceledRows(rows, k))
            /\ Cardinality(Started(rows, k) \cup CanceledRows(rows, k)) \in Nat
        BY Zenon, <2>1, <3>2, FS_Subset, FS_CardinalityType
      <3> QED BY Zenon, <3>1, <3>2, <3>3, <3>4
    <2>3. Ceiling \in Nat /\ TokenBudget[k] \in Nat /\ Concurrency[k] \in Nat
      BY Zenon, GrantAssumption
    <2>4. Concurrency[k] + c \in Nat /\ o <= Concurrency[k] + c
      BY SMTT(30), <2>2, <2>3
    <2>5. Ceiling * o \in Nat /\ Ceiling * (Concurrency[k] + c) \in Nat /\ Ceiling * o <= Ceiling * (Concurrency[k] + c)
      BY Zenon, <2>2, <2>3, <2>4, TimesMonotone
    <2>6. \A t, b, x, y \in Nat : t < b /\ x <= y => t + x < b + y
      OBVIOUS
    <2>7. tokens + Ceiling * o < TokenBudget[k] + Ceiling * (Concurrency[k] + c)
      BY Zenon, <2>3, <2>5, <2>6
    <2> QED BY Zenon, <2>2, <2>7
  (* begin_inference_request: one new row behind the others. *)
  <1>AdmitRows.
      ASSUME NEW k \in Lanes, NEW old \in Seq(RequestRow), NEW new \in Seq(RequestRow), Unbilled(old),
             NEW last, last \notin DOMAIN old, DOMAIN new = DOMAIN old \cup {last}, new[last] = Row(k),
             \A m \in DOMAIN old : new[m] = old[m]
      PROVE  /\ Unbilled(new)
             /\ Started(new, k) = Started(old, k) \cup {last} /\ Kind(new, k) = Kind(old, k) \cup {last}
             /\ Spend(new, k) = Spend(old, k) /\ Spend(old, k) \in Nat
             /\ \A j \in Lanes : j # k =>
                   /\ Started(new, j) = Started(old, j) /\ Kind(new, j) = Kind(old, j)
                   /\ Owing(new, j) = Owing(old, j) /\ CanceledRows(new, j) = CanceledRows(old, j)
                   /\ Spend(new, j) = Spend(old, j)
    <2> USE <1>AdmitRows
    <2>1. Row(k) \in RequestRow /\ Row(k).kind = k /\ Row(k).status = "started" /\ Row(k).tokens = 0
      BY GrantAssumption DEF Row, RequestRow
    <2>2. Unbilled(new)
      BY Zenon, <2>1 DEF Unbilled
    <2>3. Started(new, k) = Started(old, k) \cup {last} /\ Kind(new, k) = Kind(old, k) \cup {last}
      BY Zenon, <2>1 DEF Started, Kind
    <2>4. Spend(new, k) = Spend(old, k) /\ Spend(old, k) \in Nat
      <3> DEFINE f == [n \in DOMAIN new |-> new[n].tokens]
                 g == [n \in DOMAIN old |-> old[n].tokens]
      <3>1. IsFiniteSet(Kind(old, k)) /\ Kind(old, k) \in SUBSET DOMAIN old /\ last \notin Kind(old, k)
        BY Zenon, SetFacts
      <3>2. /\ \A n \in Kind(old, k) : g[n] \in Nat /\ g[n] = f[n]
            /\ f[last] = 0
        BY Zenon, <2>1, <3>1, RowFacts
      <3>3. /\ Spend(new, k) = SumFunctionOnSet(f, Kind(old, k) \cup {last})
            /\ Spend(old, k) = SumFunctionOnSet(g, Kind(old, k))
        BY Zenon, <2>3 DEF Spend
      <3> HIDE DEF f, g
      <3>4. SumFunctionOnSet(f, Kind(old, k) \cup {last}) = f[last] + SumFunctionOnSet(f, Kind(old, k))
        <4>1. Values(f, Kind(old, k) \cup {last})
          BY <3>2 DEF Values
        <4> QED BY Zenon, <3>1, <4>1, SumAdd
      <3>5. SumFunctionOnSet(g, Kind(old, k)) = SumFunctionOnSet(f, Kind(old, k))
        <4>1. Values(g, Kind(old, k))
          BY <3>2 DEF Values
        <4> QED BY <3>1, <3>2, <4>1, SumSame
      <3>6. SumFunctionOnSet(g, Kind(old, k)) \in Nat
        BY Zenon, <3>1, <3>2, SumNat
      <3> QED BY <3>2, <3>3, <3>4, <3>5, <3>6
    <2>5. ASSUME NEW j \in Lanes, j # k
          PROVE  /\ Started(new, j) = Started(old, j) /\ Kind(new, j) = Kind(old, j)
                 /\ Owing(new, j) = Owing(old, j) /\ CanceledRows(new, j) = CanceledRows(old, j)
                 /\ Spend(new, j) = Spend(old, j)
      <3>1. Kind(new, j) = Kind(old, j)
        BY Zenon, <2>1, <2>5 DEF Kind
      <3>2. Started(new, j) = Started(old, j)
        BY Zenon, <2>1, <2>5 DEF Started
      <3>3. \A n \in Kind(old, j) : new[n] = old[n]
        BY Zenon DEF Kind
      <3>4. Owing(new, j) = Owing(old, j) /\ CanceledRows(new, j) = CanceledRows(old, j)
        BY Zenon, <3>1, <3>3 DEF Owing, CanceledRows
      <3>5. Spend(new, j) = Spend(old, j)
        BY Zenon, <3>1, <3>3, SpendSame
      <3> QED BY Zenon, <3>1, <3>2, <3>4, <3>5
    <2> QED BY Zenon, <2>2, <2>3, <2>4, <2>5
  (* An admission within the rails keeps the books. *)
  <1>AdmitBooks.
      ASSUME NEW k \in Lanes, NEW gr \in GrantRow, NEW gr2 \in GrantRow,
             NEW old \in Seq(RequestRow), NEW new \in Seq(RequestRow), Booked(gr, old),
             NEW last, RowsAdmitted(old, new, last, k), RailsHold(gr, k, gr.active[k]), GrantAdmitted(gr, gr2, k)
      PROVE  Booked(gr2, new)
    <2> USE <1>AdmitBooks
    <2> USE DEF RowsAdmitted, RailsHold, GrantAdmitted
    <2>1. Unbilled(old) /\ Walled(gr) /\ \A j \in Lanes : LaneBooked(gr, old, j)
      BY Zenon DEF Booked
    <2>2. /\ Unbilled(new)
          /\ Started(new, k) = Started(old, k) \cup {last} /\ Kind(new, k) = Kind(old, k) \cup {last}
          /\ Spend(new, k) = Spend(old, k)
          /\ \A j \in Lanes : j # k =>
                /\ Started(new, j) = Started(old, j) /\ Kind(new, j) = Kind(old, j)
                /\ Owing(new, j) = Owing(old, j) /\ CanceledRows(new, j) = CanceledRows(old, j)
                /\ Spend(new, j) = Spend(old, j)
      BY <2>1, <1>AdmitRows
    <2>3. Walled(gr2)
      BY Zenon, <2>1 DEF Walled
    <2>4. ASSUME NEW j \in Lanes, j # k PROVE LaneBooked(gr2, new, j)
      BY Zenon, <2>1, <2>2, <2>4 DEF LaneBooked
    <2>5. LaneBooked(gr2, new, k)
      <3>1. /\ gr.tokens[k] \in Nat /\ gr.count[k] \in Nat /\ gr.active[k] \in Nat
            /\ Concurrency[k] \in Nat /\ RequestBudget[k] \in Nat
        BY Zenon, GrantAssumption DEF GrantRow
      <3>2. /\ gr.count[k] = Cardinality(Kind(old, k)) /\ gr.tokens[k] = Spend(old, k)
            /\ gr.active[k] = Cardinality(Started(old, k))
        BY Zenon, <2>1 DEF LaneBooked
      <3>3. Cardinality(Kind(old, k) \cup {last}) = Cardinality(Kind(old, k)) + 1
        <4>1. last \notin Kind(old, k)
          BY Zenon DEF Kind
        <4> QED BY Zenon, <4>1, SetFacts, FS_AddElement
      <3>4. Cardinality(Started(old, k) \cup {last}) = Cardinality(Started(old, k)) + 1
        <4>1. last \notin Started(old, k)
          BY Zenon DEF Started
        <4> QED BY Zenon, <4>1, SetFacts, FS_AddElement
      <3>5. Cardinality(Started(new, k)) <= Concurrency[k] /\ gr.count[k] + 1 <= RequestBudget[k]
        BY <2>2, <3>1, <3>2, <3>4
      <3>6. gr.tokens[k] + Ceiling * Cardinality(Owing(new, k))
               < TokenBudget[k] + Ceiling * (Concurrency[k] + Cardinality(CanceledRows(new, k)))
        BY Zenon, <3>1, <3>5, <1>AdmitWall
      <3> QED BY Zenon, <2>2, <3>2, <3>3, <3>4, <3>5, <3>6 DEF LaneBooked
    <2> QED BY Zenon, <2>2, <2>3, <2>4, <2>5 DEF Booked
  <1>AdmittedGrant.
      ASSUME NEW gr \in GrantRow, NEW new, NEW k \in Lanes, NEW a, AdmitWrites(gr, new, k, a)
      PROVE  /\ new \in GrantRow /\ new.status = gr.status /\ new.tokens = gr.tokens /\ new.generation = gr.generation
             /\ new.count[k] = gr.count[k] + 1 /\ new.active[k] = a + 1
             /\ \A j \in Lanes : j # k => new.count[j] = gr.count[j] /\ new.active[j] = gr.active[j]
    <2> USE <1>AdmittedGrant
    <2> USE DEF AdmitWrites
    <2>1. gr.count \in [Lanes -> Nat] /\ gr.active \in [Lanes -> Nat]
      BY Zenon DEF GrantRow
    <2>2. PICK c \in Nat, b \in Nat : c = gr.count[k] + 1 /\ b = a + 1
      BY <2>1
    <2>3. PICK count, active : count = [gr.count EXCEPT ![k] = c] /\ active = [gr.active EXCEPT ![k] = b]
      BY Zenon
    <2>4. /\ count \in [Lanes -> Nat] /\ count[k] = c /\ \A j \in Lanes : j # k => count[j] = gr.count[j]
          /\ active \in [Lanes -> Nat] /\ active[k] = b /\ \A j \in Lanes : j # k => active[j] = gr.active[j]
      BY Zenon, <2>1, <2>3
    <2>5. new = [gr EXCEPT !.count = count, !.active = active]
      BY Zenon, <2>2, <2>3 DEF GrantRow
    <2>6. /\ new \in GrantRow /\ new.status = gr.status /\ new.tokens = gr.tokens /\ new.generation = gr.generation
          /\ new.count = count /\ new.active = active
      BY Zenon, <2>4, <2>5 DEF GrantRow
    <2> QED BY Zenon, <2>2, <2>4, <2>6
  <1> SUFFICES ASSUME NEW k \in Lanes, NEW gr \in GrantRow, NEW rows \in Seq(RequestRow), NEW gr2, NEW new, NEW old, NEW a, NEW n,
                      Booked(gr, rows), RowsReclaimed(gr, rows, old, k, a), RailsHold(gr, k, a),
                      AdmitWrites(gr, gr2, k, a), RowsWritten(rows, old, new, n, k)
               PROVE  AdmissionBooked(gr, gr2, rows, new, n, k)
    OBVIOUS
  <1>1. /\ gr2 \in GrantRow /\ gr2.status = gr.status /\ gr2.tokens = gr.tokens /\ gr2.generation = gr.generation
        /\ gr2.count[k] = gr.count[k] + 1 /\ gr2.active[k] = a + 1
        /\ \A j \in Lanes : j # k => gr2.count[j] = gr.count[j] /\ gr2.active[j] = gr.active[j]
    BY ZenonT(60), <1>AdmittedGrant
  <1>2. /\ old \in Seq(RequestRow) /\ DOMAIN old = DOMAIN rows /\ Len(old) = Len(rows) /\ a \in Nat
        /\ \A m \in DOMAIN rows :
             /\ old[m].kind = rows[m].kind
             /\ old[m].status = "started" /\ old[m].fresh => rows[m].status = "started" /\ rows[m].fresh
    BY ReclaimedRows
  <1>3. PICK mid \in GrantRow : /\ mid.status = gr.status /\ mid.tokens = gr.tokens /\ mid.count = gr.count
                                /\ mid.active[k] = a /\ \A j \in Lanes : j # k => mid.active[j] = gr.active[j]
                                /\ Booked(mid, old)
    BY ReclaimedRows
  <1>4. /\ Len(rows) \in Nat /\ DOMAIN rows = 1..Len(rows) /\ n \notin DOMAIN rows /\ DOMAIN rows \cup {n} = 1..n /\ n \in Nat
    <2>1. Len(rows) \in Nat /\ DOMAIN rows = 1..Len(rows)
      BY Zenon, RowFacts
    <2> QED BY <2>1 DEF RowsWritten
  <1>5. /\ DOMAIN new = DOMAIN rows \cup {n} /\ new[n] = Row(k) /\ \A m \in DOMAIN rows : new[m] = old[m]
    BY Zenon, <1>4 DEF RowsWritten
  <1>6. Row(k) \in RequestRow /\ Row(k).kind = k
    BY GrantAssumption DEF Row, RequestRow
  <1>7. new \in Seq(RequestRow)
    <2>1. \A m \in DOMAIN rows : old[m] \in RequestRow
      BY Zenon, <1>2, RowFacts
    <2>2. new \in [1..n -> RequestRow]
      BY Zenon, <1>4, <1>6, <2>1 DEF RowsWritten
    <2> QED BY <1>4, <2>2
  <1>8. Booked(gr2, new)
    <2>1. RailsHold(mid, k, mid.active[k])
      BY Zenon, <1>3 DEF RailsHold
    <2>2. GrantAdmitted(mid, gr2, k)
      BY Zenon, <1>1, <1>3 DEF GrantAdmitted
    <2>3. RowsAdmitted(old, new, n, k)
      BY Zenon, <1>2, <1>4, <1>5 DEF RowsAdmitted
    <2> QED BY Zenon, <1>1, <1>2, <1>3, <1>7, <2>1, <2>2, <2>3, <1>AdmitBooks
  <1>9. ASSUME NEW m \in DOMAIN rows
        PROVE  /\ new[m].kind = rows[m].kind
               /\ new[m].status = "started" /\ new[m].fresh => rows[m].status = "started" /\ rows[m].fresh
    BY Zenon, <1>2, <1>5
  <1> QED BY Zenon, <1>1, <1>4, <1>5, <1>6, <1>7, <1>8, <1>9 DEF AdmissionBooked

=============================================================================
