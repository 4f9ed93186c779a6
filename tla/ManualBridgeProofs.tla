-------------------------- MODULE ManualBridgeProofs --------------------------
(***************************************************************************)
(* Proofs about manual transfers, for any number of requests, faults and   *)
(* readiness observations: money can move for one request at a time, and   *)
(* what the worker reports and the rows say is what happened.              *)
(*                                                                         *)
(* None of the three is inductive alone.  submit needs the rows to tell    *)
(* the truth, the rows the reports, and the reports the worker's state     *)
(* between two commits.  The strengthening adds what ties them together:   *)
(* custody only knows requests whose dispatch was marked as attempted, a   *)
(* refused request is never armed, and the report the worker is about to   *)
(* send is already true.  A truth stays true because every step but submit *)
(* narrows what can still happen (Narrows).                                *)
(***************************************************************************)
EXTENDS ManualBridge, FiniteSetTheorems, TLAPS

Readiness == [kind : {"readiness"}, at : Nat, after : 0..Cardinality(Requests), available : BOOLEAN]

Result == [kind : {"result"}, request : Requests, status : Terminal \cup {"pending"}]

Work == [request : Requests, step : {"tick", "report"}, status : Terminal \cup {"pending"}]

Types ==
    /\ rows \in [Requests -> Row]
    /\ bridge = NONE \/ bridge \in Readiness
    /\ requests \subseteq Requests /\ reports \subseteq Readiness \cup Result
    /\ work = NONE \/ work \in Work
    /\ refused \subseteq Requests /\ observed \in Nat /\ faults \in Nat
    /\ intent \in [Requests -> {"none", "armed", "closed"}]
    /\ claim \in [Requests -> {"none", "dispatching", "finalized", "failed", "expired"}]
    /\ late \subseteq Requests /\ paid \subseteq Requests

(* The journal signs only what is armed, and its verdicts are the chain's. *)
JournalInv(r) ==
    /\ claim[r] # "none" => intent[r] = "armed"
    /\ claim[r] = "finalized" => r \in paid
    /\ r \in paid => claim[r] \in {"dispatching", "finalized"}

(* The money of r did not move and cannot move any more. *)
Dead(r) == r \notin paid /\ ~Live(r)

(* What a report of status s says of r. *)
Truth(r, s) ==
    /\ s = "finalized" => r \in paid
    /\ s = "failed" => intent[r] # "none" /\ Dead(r)
    /\ s = "refused" => r \in refused

(* Custody knows only requests whose dispatch was marked as attempted.     *)
AskedInv(r) ==
    /\ r \in requests \cup refused \cup late => rows[r].attempted
    /\ intent[r] # "none" => rows[r].attempted
    /\ rows[r].attempted => rows[r].status # "none"
    /\ r \in refused => intent[r] = "none"

RowInv(r) ==
    /\ rows[r].status = "queued" => rows[r].report = NONE
    /\ rows[r].status \in {"audit_pending", "published"} => r \in paid
    /\ (rows[r].status \in {"failed", "refused"} /\ ~Ambiguous(r)) => Dead(r)

ReportInv(m) == m.kind = "result" => rows[m.request].attempted /\ Truth(m.request, m.status)

WorkInv ==
    work # NONE =>
        /\ rows[work.request].attempted
        /\ work.step = "tick" => intent[work.request] = "armed"
        /\ work.step = "report" => Truth(work.request, work.status)

IInv ==
    /\ Types
    /\ \A r \in Requests : JournalInv(r) /\ AskedInv(r) /\ RowInv(r)
    /\ \A m \in reports : ReportInv(m)
    /\ WorkInv
    /\ OneLive

(* A step narrows the future of r when it makes nothing possible again: a  *)
(* request that cannot pay stays so, and only a live one pays.             *)
Narrows(r) ==
    /\ Live(r)' => Live(r)
    /\ r \in paid' => r \in paid \/ Live(r)
    /\ r \in paid => r \in paid'
    /\ r \in refused => r \in refused'
    /\ intent[r] # "none" => intent'[r] # "none"

-----------------------------------------------------------------------------
(* What keeps the invariant. *)

(* What was reported of a request stays true while its future narrows.     *)
LEMMA TruthStays ==
    ASSUME NEW r, NEW s, Narrows(r)
    PROVE  /\ Dead(r) => Dead(r)'
           /\ Truth(r, s) => Truth(r, s)'
  <1>1. Dead(r) => Dead(r)'
    BY Zenon DEF Narrows, Dead
  <1> QED BY Zenon, <1>1 DEF Narrows, Truth

(* The rows, reports and requests have their types. *)
LEMMA TypeFacts ==
    ASSUME Types
    PROVE  /\ \A r \in Requests : rows[r] \in Row
           /\ \A m \in reports : m \in Readiness \/ m \in Result
           /\ \A m \in reports : m.kind = "result" => m \in Result /\ m.request \in Requests
           /\ \A m \in reports : m.kind = "readiness" => m \in Readiness
  <1>1. \A r \in Requests : rows[r] \in Row
    BY Zenon DEF Types
  <1>2. \A m \in reports : m \in Readiness \/ m \in Result
    BY Zenon DEF Types
  <1>3. \A m \in Readiness : m.kind = "readiness"
    BY Zenon DEF Readiness
  <1>4. \A m \in Result : m.kind = "result" /\ m.request \in Requests
    BY Zenon DEF Result
  <1> QED BY Zenon, <1>1, <1>2, <1>3, <1>4

(* A step of custody leaves the rows alone and narrows every future.       *)
LEMMA CustodyFrame ==
    ASSUME IInv, UNCHANGED platform, Types', WorkInv',
           \A r \in Requests : JournalInv(r)' /\ AskedInv(r)' /\ Narrows(r),
           \A m \in reports' : m \in reports \/ ReportInv(m)'
    PROVE  IInv'
  <1>1. rows' = rows
    BY Zenon DEF platform
  <1>2. ASSUME NEW r \in Requests PROVE RowInv(r)'
    <2>1. Ambiguous(r)' = Ambiguous(r)
      BY Zenon, <1>1 DEF Ambiguous
    <2>2. Dead(r) => Dead(r)'
      BY Zenon, TruthStays
    <2> QED BY Zenon, <1>1, <2>1, <2>2 DEF IInv, RowInv, Narrows
  <1>3. ASSUME NEW m \in reports PROVE ReportInv(m)'
    <2>1. ReportInv(m) /\ (m.kind = "result" => m.request \in Requests)
      BY Zenon, TypeFacts DEF IInv
    <2> QED BY Zenon, <1>1, <2>1, TruthStays DEF ReportInv
  <1>4. OneLive'
    BY Zenon DEF IInv, OneLive, Narrows
  <1> QED BY Zenon, <1>2, <1>3, <1>4 DEF IInv

(* A step of the platform leaves custody alone. *)
LEMMA PlatformFrame ==
    ASSUME IInv, UNCHANGED <<work, refused, observed, journal>>, Types', OneLive',
           \A r \in Requests : AskedInv(r)' /\ RowInv(r)',
           \A r \in Requests : rows[r].attempted => rows'[r].attempted /\ (Live(r)' => Live(r)),
           reports' \subseteq reports
    PROVE  IInv'
  <1>1. UNCHANGED <<work, refused, intent, claim, late, paid>>
    BY Zenon DEF journal
  <1>2. \A r \in Requests : JournalInv(r)'
    BY Zenon, <1>1 DEF IInv, JournalInv
  <1>3. ASSUME NEW r \in Requests, NEW s, rows[r].attempted, Truth(r, s) PROVE Truth(r, s)'
    BY Zenon, <1>1, <1>3 DEF Truth, Dead
  <1>4. ASSUME NEW m \in reports' PROVE ReportInv(m)'
    <2>1. ReportInv(m) /\ (m.kind = "result" => m.request \in Requests)
      BY Zenon, TypeFacts DEF IInv
    <2> QED BY Zenon, <1>3, <2>1 DEF ReportInv
  <1>5. WorkInv'
    <2>1. work # NONE => work.request \in Requests
      BY Zenon DEF IInv, Types, Work
    <2> QED BY Zenon, <1>1, <1>3, <2>1 DEF IInv, WorkInv
  <1> QED BY Zenon, <1>2, <1>4, <1>5 DEF IInv

(* The operations counted by the journal are requests.                     *)
LEMMA OperationBound ==
    ASSUME TRUE
    PROVE  LastOperation \in 0..Cardinality(Requests)
  <1>1. IsFiniteSet(Requests) /\ {q \in Requests : claim[q] # "none"} \subseteq Requests
    BY Zenon, BridgeAssumption
  <1>2. /\ Cardinality({q \in Requests : claim[q] # "none"}) \in Nat
        /\ Cardinality(Requests) \in Nat
        /\ Cardinality({q \in Requests : claim[q] # "none"}) <= Cardinality(Requests)
    BY Zenon, <1>1, FS_Subset, FS_CardinalityType
  <1> QED BY <1>2 DEF LastOperation

-----------------------------------------------------------------------------
(* The platform's steps. *)

(* submit queues a request only when no other can still pay. *)
LEMMA SubmitOK ==
    ASSUME IInv, NEW r \in Requests, submit(r)
    PROVE  IInv'
  <1> DEFINE e == [Absent EXCEPT !.status = "queued", !.after = bridge.after]
  <1>1. /\ rows[r].status = "none" /\ ~Blocked
        /\ rows' = [rows EXCEPT ![r] = e]
        /\ UNCHANGED <<bridge, enforced, requests, reports, work, refused, observed, faults, journal>>
    BY Zenon DEF submit
  <1>2. UNCHANGED <<intent, claim, late, paid>>
    BY Zenon, <1>1 DEF journal
  <1>3. bridge.after \in 0..Cardinality(Requests)
    BY Zenon, <1>1 DEF Blocked, IInv, Types, Readiness
  <1>4. e \in Row /\ e.status = "queued" /\ e.report = NONE /\ ~e.attempted
    BY Zenon, <1>3 DEF Absent, Row
  <1> HIDE DEF e
  <1>5. rows' \in [Requests -> Row] /\ rows'[r] = e /\ \A q \in Requests \ {r} : rows'[q] = rows[q]
    BY Zenon, <1>1, <1>4 DEF IInv, Types
  <1>6. Types'
    BY Zenon, <1>1, <1>2, <1>5 DEF IInv, Types
  <1>7. ~rows[r].attempted
    BY Zenon, <1>1 DEF IInv, AskedInv
  <1>8. ASSUME NEW q \in Requests \ {r} PROVE Live(q)' = Live(q) /\ Ambiguous(q)' = Ambiguous(q)
    BY Zenon, <1>1, <1>2, <1>5 DEF Live, Ambiguous
  <1>9. ASSUME NEW q \in Requests PROVE AskedInv(q)' /\ RowInv(q)'
    <2>1. CASE q = r
      BY Zenon, <1>1, <1>2, <1>4, <1>5, <1>7, <2>1 DEF IInv, AskedInv, RowInv
    <2>2. CASE q # r
      BY Zenon, <1>1, <1>2, <1>5, <1>8, <2>2 DEF IInv, AskedInv, RowInv, Dead
    <2> QED BY Zenon, <2>1, <2>2
  <1>10. ASSUME NEW q \in Requests \ {r} PROVE ~Live(q)
    <2>1. rows[q] \in Row /\ JournalInv(q) /\ AskedInv(q) /\ RowInv(q)
      BY Zenon, TypeFacts DEF IInv
    <2>2. /\ ~Unsettled(q) /\ ~Ambiguous(q)
          /\ rows[q].status \in {"none", "audit_pending", "published", "failed", "refused"}
      BY Zenon, <1>1, <2>1 DEF Blocked, Unsettled, Row
    <2>3. CASE rows[q].status = "none"
      BY Zenon, <2>1, <2>3 DEF AskedInv, JournalInv, Live
    <2>4. CASE rows[q].status \in {"audit_pending", "published"}
      BY Zenon, <2>1, <2>4 DEF RowInv, JournalInv, Live
    <2>5. CASE rows[q].status \in {"failed", "refused"}
      BY Zenon, <2>1, <2>2, <2>5 DEF RowInv, Dead
    <2> QED BY Zenon, <2>2, <2>3, <2>4, <2>5
  <1>11. OneLive'
    BY Zenon, <1>8, <1>10 DEF OneLive
  <1> QED BY Zenon, <1>1, <1>5, <1>6, <1>7, <1>8, <1>9, <1>11, PlatformFrame

(* A step that rewrites one row and queues nothing keeps the invariant if  *)
(* the new row is true.                                                    *)
LEMMA RewriteOK ==
    ASSUME IInv, NEW r \in Requests, NEW e \in Row,
           rows' = [rows EXCEPT ![r] = e], requests' \in {requests, requests \cup {r}},
           UNCHANGED <<work, refused, observed, journal>>,
           Types', reports' \subseteq reports,
           rows[r].attempted => e.attempted,
           e.attempted => e.status # "none",
           e.status = "queued" => rows[r].status = "queued" /\ e.report = NONE,
           requests' = requests \/ (rows[r].status = "queued" /\ rows[r].attempted),
           RowInv(r)'
    PROVE  IInv'
  <1>1. UNCHANGED <<refused, intent, claim, late, paid>>
    BY Zenon DEF journal
  <1>2. rows'[r] = e /\ \A q \in Requests \ {r} : rows'[q] = rows[q]
    BY Zenon DEF IInv, Types
  <1>3. \A q \in Requests \ {r} : q \in requests' <=> q \in requests
    BY Zenon
  <1>4. ASSUME NEW q \in Requests PROVE Live(q)' => Live(q)
    <2>1. CASE q = r
      BY Zenon, <1>1, <1>2, <2>1 DEF Live
    <2>2. CASE q # r
      BY Zenon, <1>1, <1>2, <1>3, <2>2 DEF Live
    <2> QED BY Zenon, <2>1, <2>2
  <1>5. ASSUME NEW q \in Requests PROVE AskedInv(q)' /\ RowInv(q)'
    <2>1. CASE q = r
      BY Zenon, <1>1, <1>2, <2>1 DEF IInv, AskedInv
    <2>2. CASE q # r
      <3>1. AskedInv(q)'
        BY Zenon, <1>1, <1>2, <1>3, <2>2 DEF IInv, AskedInv
      <3>2. RowInv(q)'
        BY Zenon, <1>1, <1>2, <1>4, <2>2 DEF IInv, RowInv, Dead, Ambiguous
      <3> QED BY Zenon, <3>1, <3>2
    <2> QED BY Zenon, <2>1, <2>2
  <1>6. OneLive'
    BY Zenon, <1>4 DEF IInv, OneLive
  <1>7. \A q \in Requests : rows[q].attempted => rows'[q].attempted
    BY Zenon, <1>2
  <1> QED BY Zenon, <1>4, <1>5, <1>6, <1>7, PlatformFrame
(* A report is applied to the row it is about, and is true of it. *)
LEMMA AcceptOK ==
    ASSUME IInv, NEW m \in reports, accept_report(m)
    PROVE  IInv'
  <1>1. /\ reports' \subseteq reports
        /\ UNCHANGED <<enforced, requests, work, refused, observed, journal>>
    BY Zenon DEF accept_report
  <1>2. UNCHANGED <<intent, claim, late, paid>>
    BY Zenon, <1>1 DEF journal
  <1>3. faults' \in Nat
    BY DEF accept_report, Acked, IInv, Types
  <1>4. CASE m.kind = "readiness"
    <2>1. rows' = rows /\ bridge' \in {bridge, m} /\ m \in Readiness
      BY Zenon, <1>4, TypeFacts DEF accept_report, IInv
    <2>2. Types'
      BY Zenon, <1>1, <1>2, <1>3, <2>1 DEF IInv, Types
    <2>3. \A r \in Requests : Live(r)' = Live(r) /\ Ambiguous(r)' = Ambiguous(r)
      BY Zenon, <1>1, <1>2, <2>1 DEF Live, Ambiguous
    <2>4. \A r \in Requests : AskedInv(r)' /\ RowInv(r)'
      BY Zenon, <1>1, <1>2, <2>1, <2>3 DEF IInv, AskedInv, RowInv, Dead
    <2>5. OneLive'
      BY Zenon, <2>3 DEF IInv, OneLive
    <2> QED BY Zenon, <1>1, <2>1, <2>2, <2>3, <2>4, <2>5, PlatformFrame
  <1>5. CASE m.kind # "readiness"
    <2> DEFINE r == m.request
               e == Apply(rows[r], m.status)
    <2>1. m \in Result
      BY Zenon, <1>5, TypeFacts DEF IInv, Readiness
    <2>2. r \in Requests /\ m.status \in Terminal \cup {"pending"} /\ m.kind = "result"
      BY Zenon, <2>1 DEF Result
    <2>3. rows' = [rows EXCEPT ![r] = e] /\ bridge' = bridge
      BY Zenon, <1>5 DEF accept_report
    <2>4. rows[r] \in Row /\ rows[r].attempted /\ Truth(r, m.status) /\ AskedInv(r) /\ JournalInv(r) /\ RowInv(r)
      BY Zenon, <2>2, TypeFacts DEF IInv, ReportInv
    <2>5. CASE e = rows[r]
      <3>1. rows' = rows
        BY Zenon, <2>2, <2>3, <2>5 DEF IInv, Types
      <3>2. Types'
        BY Zenon, <1>1, <1>2, <1>3, <2>3, <3>1 DEF IInv, Types
      <3>3. \A q \in Requests : Live(q)' = Live(q) /\ Ambiguous(q)' = Ambiguous(q)
        BY Zenon, <1>1, <1>2, <3>1 DEF Live, Ambiguous
      <3>4. \A q \in Requests : AskedInv(q)' /\ RowInv(q)'
        BY Zenon, <1>1, <1>2, <3>1, <3>3 DEF IInv, AskedInv, RowInv, Dead
      <3>5. OneLive'
        BY Zenon, <3>3 DEF IInv, OneLive
      <3> QED BY Zenon, <1>1, <3>1, <3>2, <3>3, <3>4, <3>5, PlatformFrame
    <2>6. CASE e # rows[r]
      <3>1. e = [rows[r] EXCEPT !.report = m.status,
                                !.status = IF m.status = "finalized" THEN "audit_pending" ELSE m.status]
        BY Zenon, <2>6 DEF Apply
      <3>2. /\ e \in Row /\ e.attempted /\ e.status # "none" /\ e.status # "queued" /\ e.report = m.status
            /\ e.status = IF m.status = "finalized" THEN "audit_pending" ELSE m.status
        BY Zenon, <2>2, <2>4, <3>1 DEF Row, Terminal
      <3> HIDE DEF e
      <3>3. rows' \in [Requests -> Row] /\ rows'[r] = e
        BY Zenon, <2>2, <2>3, <3>2 DEF IInv, Types
      <3>4. Types'
        BY Zenon, <1>1, <1>2, <1>3, <2>3, <3>3 DEF IInv, Types
      <3>5. m.status \in {"failed", "refused"} => Dead(r)'
        BY Zenon, <1>1, <1>2, <2>4, <3>2, <3>3 DEF Truth, Dead, Live, AskedInv, JournalInv
      <3>6. RowInv(r)'
        BY Zenon, <1>2, <2>2, <2>4, <3>2, <3>3, <3>5 DEF RowInv, Truth, Terminal
      <3> QED BY Zenon, <1>1, <2>2, <2>3, <3>2, <3>4, <3>6, RewriteOK
    <2> QED BY Zenon, <2>5, <2>6
  <1> QED BY Zenon, <1>4, <1>5

(* A refusal before any attempt is final; one after it is ambiguous.       *)
LEMMA RefuseDispatchOK ==
    ASSUME IInv, NEW r \in Requests, refuse_dispatch(r)
    PROVE  IInv'
  <1> DEFINE e == [rows[r] EXCEPT !.status = "refused"]
  <1>1. /\ rows[r].status = "queued" /\ rows' = [rows EXCEPT ![r] = e]
        /\ UNCHANGED <<bridge, enforced, requests, reports, work, refused, observed, faults, journal>>
    BY Zenon DEF refuse_dispatch
  <1>2. UNCHANGED <<intent, claim, late, paid>>
    BY Zenon, <1>1 DEF journal
  <1>3. rows[r] \in Row /\ AskedInv(r) /\ JournalInv(r) /\ RowInv(r)
    BY Zenon, TypeFacts DEF IInv
  <1>4. e \in Row /\ e.status = "refused" /\ e.attempted = rows[r].attempted /\ e.report = rows[r].report
    BY Zenon, <1>3 DEF Row
  <1> HIDE DEF e
  <1>5. rows' \in [Requests -> Row] /\ rows'[r] = e
    BY Zenon, <1>1, <1>4 DEF IInv, Types
  <1>6. Types'
    BY Zenon, <1>1, <1>2, <1>5 DEF IInv, Types
  <1>7. ~e.attempted => Dead(r)'
    BY Zenon, <1>1, <1>2, <1>3, <1>4, <1>5 DEF Dead, Live, AskedInv, JournalInv
  <1>8. RowInv(r)'
    BY Zenon, <1>1, <1>3, <1>4, <1>5, <1>7 DEF RowInv, Ambiguous
  <1> QED BY Zenon, <1>1, <1>4, <1>6, <1>8, RewriteOK

(* The attempt is marked before anything is published. *)
LEMMA MarkDispatchOK ==
    ASSUME IInv, NEW r \in Requests, MarkDispatch(r)
    PROVE  IInv'
  <1> DEFINE e == [rows[r] EXCEPT !.attempted = TRUE]
  <1>1. /\ rows[r].status = "queued" /\ rows' = [rows EXCEPT ![r] = e]
        /\ UNCHANGED <<bridge, enforced, requests, reports, work, refused, observed, faults, journal>>
    BY Zenon DEF MarkDispatch
  <1>2. UNCHANGED <<intent, claim, late, paid>>
    BY Zenon, <1>1 DEF journal
  <1>3. rows[r] \in Row /\ RowInv(r)
    BY Zenon, TypeFacts DEF IInv
  <1>4. e \in Row /\ e.status = "queued" /\ e.attempted /\ e.report = rows[r].report
    BY Zenon, <1>1, <1>3 DEF Row
  <1> HIDE DEF e
  <1>5. rows' \in [Requests -> Row] /\ rows'[r] = e
    BY Zenon, <1>1, <1>4 DEF IInv, Types
  <1>6. Types'
    BY Zenon, <1>1, <1>2, <1>5 DEF IInv, Types
  <1>7. RowInv(r)' /\ e.report = NONE
    BY Zenon, <1>1, <1>3, <1>4, <1>5 DEF RowInv
  <1> QED BY Zenon, <1>1, <1>4, <1>6, <1>7, RewriteOK

(* Publishing a marked request makes nothing live that was not. *)
LEMMA DispatchOK ==
    ASSUME IInv, NEW r \in Requests, Dispatch(r)
    PROVE  IInv'
  <1> DEFINE e == rows'[r]
  <1>1. /\ rows[r].status = "queued" /\ rows[r].attempted /\ requests' = requests \cup {r}
        /\ UNCHANGED <<bridge, enforced, reports, work, refused, observed, journal>>
        /\ rows' = rows \/ rows' = [rows EXCEPT ![r].status = "dispatched"]
        /\ faults' = faults \/ faults' = faults + 1
    BY Zenon DEF Dispatch
  <1>2. UNCHANGED <<intent, claim, late, paid>>
    BY Zenon, <1>1 DEF journal
  <1>3. rows \in [Requests -> Row] /\ rows[r] \in Row /\ RowInv(r)
    BY Zenon, TypeFacts DEF IInv, Types
  <1>4. [rows[r] EXCEPT !.status = "dispatched"] \in Row
    BY Zenon, <1>3 DEF Row
  <1>5. /\ e \in Row /\ e.attempted /\ e.status \in {"queued", "dispatched"} /\ e.report = rows[r].report
        /\ rows' = [rows EXCEPT ![r] = e] /\ rows' \in [Requests -> Row]
    BY <1>1, <1>3, <1>4 DEF Row
  <1> HIDE DEF e
  <1>6. Types'
    BY <1>1, <1>2, <1>5 DEF IInv, Types
  <1>7. RowInv(r)' /\ e.report = NONE
    BY Zenon, <1>1, <1>3, <1>5 DEF RowInv, e
  <1> QED BY Zenon, <1>1, <1>5, <1>6, <1>7, RewriteOK

(* A movement is published only when the chain shows it. *)
LEMMA PublishOK ==
    ASSUME IInv, NEW r \in Requests, PublishMovement(r) \/ PublishAudit(r)
    PROVE  IInv'
  <1>1. rows \in [Requests -> Row] /\ rows[r] \in Row /\ RowInv(r) /\ AskedInv(r)
    BY Zenon, TypeFacts DEF IInv, Types
  <1>2. /\ rows[r].status = "audit_pending"
        /\ UNCHANGED <<bridge, enforced, requests, reports, work, refused, observed, faults, journal>>
    BY Zenon DEF PublishMovement, PublishAudit
  <1>3. PICK e \in {[rows[r] EXCEPT !.receipt = TRUE], [rows[r] EXCEPT !.review = TRUE],
                    [rows[r] EXCEPT !.status = "published", !.receipt = TRUE]} :
          rows' = [rows EXCEPT ![r] = e]
    BY Zenon DEF PublishMovement, PublishAudit
  <1>4. UNCHANGED <<intent, claim, late, paid>>
    BY Zenon, <1>2 DEF journal
  <1>5. e \in Row /\ e.attempted = rows[r].attempted /\ e.status \in {"audit_pending", "published"}
    BY Zenon, <1>1, <1>2, <1>3 DEF Row
  <1>6. rows' \in [Requests -> Row] /\ rows'[r] = e
    BY Zenon, <1>1, <1>3, <1>5
  <1>7. Types'
    BY Zenon, <1>2, <1>4, <1>6 DEF IInv, Types
  <1>8. RowInv(r)'
    BY Zenon, <1>1, <1>2, <1>4, <1>5, <1>6 DEF RowInv
  <1> QED BY Zenon, <1>2, <1>3, <1>5, <1>7, <1>8, RewriteOK

(* Every step of the platform keeps the invariant. *)
LEMMA PlatformOK ==
    ASSUME IInv, Platform
    PROVE  IInv'
  <1>1. CASE SetRuntime
    <2>1. UNCHANGED <<rows, bridge, requests, reports, work, refused, observed, faults, intent, claim, late, paid>>
      BY Zenon, <1>1 DEF SetRuntime, journal
    <2>2. \A r \in Requests : Live(r)' = Live(r) /\ Ambiguous(r)' = Ambiguous(r)
      BY Zenon, <2>1 DEF Live, Ambiguous
    <2>3. Types' /\ OneLive' /\ \A r \in Requests : AskedInv(r)' /\ RowInv(r)'
      BY Zenon, <2>1, <2>2 DEF IInv, Types, OneLive, AskedInv, RowInv, Dead
    <2> QED BY Zenon, <2>1, <2>2, <2>3, PlatformFrame DEF journal
  <1> QED BY Zenon, <1>1, SubmitOK, AcceptOK, RefuseDispatchOK, MarkDispatchOK, DispatchOK, PublishOK DEF Platform

-----------------------------------------------------------------------------
(* The steps of custody and of the chain. *)

(* The journal's steps keep its rows consistent with the chain. *)
LEMMA JournalOK ==
    ASSUME IInv, NEW r \in Requests,
           \/ Journal!Arm(r) \/ Journal!Sign(r) \/ Journal!Pay(r) \/ Journal!Settle(r) \/ Journal!Close(r)
    PROVE  /\ intent' \in [Requests -> {"none", "armed", "closed"}]
           /\ claim' \in [Requests -> {"none", "dispatching", "finalized", "failed", "expired"}]
           /\ paid' \subseteq Requests
           /\ \A q \in Requests : JournalInv(q)'
  <1>1. /\ intent \in [Requests -> {"none", "armed", "closed"}]
        /\ claim \in [Requests -> {"none", "dispatching", "finalized", "failed", "expired"}]
        /\ paid \subseteq Requests
        /\ \A q \in Requests : JournalInv(q)
    BY Zenon DEF IInv, Types
  <1>2. CASE Journal!Arm(r)
    BY Zenon, <1>1, <1>2 DEF Journal!Arm, JournalInv
  <1>3. CASE Journal!Sign(r)
    BY Zenon, <1>1, <1>3 DEF Journal!Sign, JournalInv
  <1>4. CASE Journal!Pay(r)
    BY Zenon, <1>1, <1>4 DEF Journal!Pay, JournalInv
  <1>5. CASE Journal!Settle(r)
    <2>1. PICK s \in IF r \in paid THEN {"finalized"} ELSE {"failed", "expired"} :
            claim' = [claim EXCEPT ![r] = s]
      BY Zenon, <1>5 DEF Journal!Settle
    <2> QED BY Zenon, <1>1, <1>5, <2>1 DEF Journal!Settle, JournalInv
  <1>6. CASE Journal!Close(r)
    BY Zenon, <1>1, <1>6 DEF Journal!Close, JournalInv
  <1> QED BY Zenon, <1>2, <1>3, <1>4, <1>5, <1>6

(* A refusal is durable and never follows an arming. *)
LEMMA RefuseOK ==
    ASSUME IInv, NEW r \in requests, intent[r] = "none", refuse(r),
           UNCHANGED <<platform, requests, reports, observed, faults, claim, paid>>
    PROVE  IInv'
  <1>1. /\ refused' = refused \cup {r} /\ work' = [request |-> r, step |-> "report", status |-> "refused"]
        /\ UNCHANGED <<rows, bridge, requests, reports, observed, faults, intent, claim, late, paid>>
    BY Zenon DEF refuse, Report, platform
  <1>2. r \in Requests /\ rows[r].attempted
    BY Zenon DEF IInv, Types, AskedInv
  <1>3. work' \in Work /\ work'.request = r /\ work'.step = "report" /\ work'.status = "refused"
    BY Zenon, <1>1, <1>2 DEF Work, Terminal
  <1>4. Types'
    BY Zenon, <1>1, <1>2, <1>3 DEF IInv, Types
  <1>5. \A q \in Requests : JournalInv(q)' /\ AskedInv(q)'
    BY Zenon, <1>1, <1>2 DEF IInv, JournalInv, AskedInv
  <1>6. \A q \in Requests : Narrows(q)
    BY Zenon, <1>1 DEF Narrows, Live
  <1>7. WorkInv'
    BY Zenon, <1>1, <1>2, <1>3 DEF WorkInv, Truth
  <1> QED BY Zenon, <1>1, <1>4, <1>5, <1>6, <1>7, CustodyFrame

(* Only a live request is armed. *)
LEMMA ArmOK ==
    ASSUME IInv, NEW r \in requests, intent[r] = "none", r \notin refused,
           late' \in {late, late \cup {r}}, Journal!Arm(r),
           work' = [request |-> r, step |-> "tick", status |-> "pending"],
           UNCHANGED <<platform, requests, reports, refused, observed, faults, claim, paid>>
    PROVE  IInv'
  <1>1. /\ UNCHANGED <<rows, bridge, requests, reports, refused, observed, faults, claim, paid>>
        /\ intent' = [intent EXCEPT ![r] = "armed"]
    BY Zenon DEF platform, Journal!Arm
  <1>2. r \in Requests /\ rows[r].attempted /\ claim[r] = "none"
    BY Zenon DEF IInv, Types, AskedInv, JournalInv
  <1>3. work' \in Work /\ work'.request = r /\ work'.step = "tick"
    BY Zenon, <1>2 DEF Work
  <1>4. intent'[r] = "armed" /\ \A q \in Requests \ {r} : intent'[q] = intent[q] /\ (q \in late' <=> q \in late)
    BY Zenon, <1>1, <1>2 DEF IInv, Types
  <1>5. Types' /\ \A q \in Requests : JournalInv(q)'
    BY Zenon, <1>1, <1>2, <1>3, JournalOK DEF IInv, Types
  <1>6. \A q \in Requests : AskedInv(q)'
    BY Zenon, <1>1, <1>2, <1>4 DEF IInv, AskedInv
  <1>7. ASSUME NEW q \in Requests PROVE Narrows(q)
    <2>1. CASE q = r
      BY Zenon, <1>1, <1>2, <1>4, <2>1 DEF Narrows, Live
    <2>2. CASE q # r
      BY Zenon, <1>1, <1>4, <2>2 DEF Narrows, Live
    <2> QED BY Zenon, <2>1, <2>2
  <1>8. WorkInv'
    BY Zenon, <1>1, <1>2, <1>3, <1>4 DEF WorkInv
  <1> QED BY Zenon, <1>1, <1>5, <1>6, <1>7, <1>8, CustodyFrame

(* A step that only moves the worker keeps the invariant if what it is     *)
(* about to do is right.                                                   *)
LEMMA MoveOK ==
    ASSUME IInv, UNCHANGED <<platform, requests, reports, refused, observed, journal>>,
           faults' \in Nat, work' = NONE \/ work' \in Work, WorkInv'
    PROVE  IInv'
  <1>1. UNCHANGED <<rows, bridge, requests, reports, refused, observed, intent, claim, late, paid>>
    BY Zenon DEF platform, journal
  <1>2. Types'
    BY Zenon, <1>1 DEF IInv, Types
  <1>3. \A q \in Requests : JournalInv(q)' /\ AskedInv(q)' /\ Narrows(q)
    BY Zenon, <1>1 DEF IInv, JournalInv, AskedInv, Narrows, Live
  <1> QED BY Zenon, <1>1, <1>2, <1>3, CustodyFrame

(* The worker takes a message: what it answers at once is true. *)
LEMMA ReceiveOK ==
    ASSUME IInv, NEW r \in Requests, Receive(r)
    PROVE  IInv'
  <1>1. /\ r \in requests
        /\ UNCHANGED <<platform, requests, reports, observed, faults, claim, paid>>
    BY Zenon DEF Receive
  <1>2. rows[r].attempted /\ JournalInv(r) /\ rows' = rows /\ faults' \in Nat
    BY Zenon, <1>1 DEF IInv, AskedInv, Types, platform
  <1>3. CASE r \in refused /\ work' = Report(r, "refused") /\ UNCHANGED <<refused, intent, late>>
    <2>1. work' \in Work /\ work'.request = r /\ work'.step = "report" /\ work'.status = "refused"
      BY Zenon, <1>3 DEF Work, Terminal, Report
    <2>2. WorkInv'
      BY Zenon, <1>2, <1>3, <2>1 DEF WorkInv, Truth
    <2> QED BY Zenon, <1>1, <1>2, <1>3, <2>1, <2>2, MoveOK DEF journal
  <1>4. CASE intent[r] = "closed" /\ work' = Report(r, "failed") /\ UNCHANGED <<refused, intent, late>>
    <2>1. work' \in Work /\ work'.request = r /\ work'.step = "report" /\ work'.status = "failed"
      BY Zenon, <1>4 DEF Work, Terminal, Report
    <2>2. Dead(r)'
      BY Zenon, <1>1, <1>2, <1>4 DEF Dead, Live, JournalInv
    <2>3. WorkInv'
      BY Zenon, <1>2, <1>4, <2>1, <2>2 DEF WorkInv, Truth
    <2> QED BY Zenon, <1>1, <1>2, <1>4, <2>1, <2>3, MoveOK DEF journal
  <1>5. CASE /\ intent[r] = "armed" /\ work' = [request |-> r, step |-> "tick", status |-> "pending"]
             /\ UNCHANGED <<refused, intent, late>>
    <2>1. work' \in Work /\ work'.request = r /\ work'.step = "tick"
      BY Zenon, <1>5 DEF Work
    <2>2. WorkInv'
      BY Zenon, <1>2, <1>5, <2>1 DEF WorkInv
    <2> QED BY Zenon, <1>1, <1>2, <1>5, <2>1, <2>2, MoveOK DEF journal
  <1>6. CASE r \notin refused /\ intent[r] = "none" /\ arm(r)
    BY Zenon, <1>1, <1>6, RefuseOK, ArmOK DEF arm
  <1> QED BY Zenon, <1>3, <1>4, <1>5, <1>6 DEF Receive

(* What is reported of an operation that is no longer open is true. *)
LEMMA StatusTrue ==
    ASSUME NEW r \in Requests, NEW s, intent[r] = "armed", JournalInv(r), s \in Statuses(claim[r])
    PROVE  Truth(r, s) /\ s \in Terminal \cup {"pending"}
  <1>1. s \in {"finalized", "pending", "failed"}
    BY Zenon DEF Statuses
  <1>2. s = "finalized" => claim[r] = "finalized"
    BY Zenon DEF Statuses
  <1>3. s = "failed" => claim[r] \in {"failed", "expired"}
    BY Zenon DEF Statuses
  <1> QED BY Zenon, <1>1, <1>2, <1>3 DEF Truth, Dead, Live, JournalInv, Terminal

(* A tick signs or settles, and its report is that of the operation.       *)
LEMMA ExecuteOK ==
    ASSUME IInv, Execute
    PROVE  IInv'
  <1>1. /\ work # NONE /\ work.step = "tick"
        /\ UNCHANGED <<platform, requests, reports, refused, observed, faults>>
    BY Zenon DEF Execute
  <1>2. PICK r \in Requests :
          /\ r = work.request /\ rows[r].attempted /\ intent[r] = "armed" /\ JournalInv(r)
          /\ rows' = rows /\ faults' \in Nat
    BY Zenon, <1>1 DEF IInv, Types, Work, WorkInv, platform
  <1>3. CASE claim[r] = "none" /\ r \in late /\ work' = Report(r, "failed") /\ UNCHANGED journal
    <2>1. work' \in Work /\ work'.request = r /\ work'.step = "report" /\ work'.status = "failed"
      BY Zenon, <1>2, <1>3 DEF Work, Terminal, Report
    <2>2. Dead(r)' /\ intent'[r] = "armed"
      BY Zenon, <1>1, <1>2, <1>3 DEF Dead, Live, JournalInv, journal
    <2>3. WorkInv'
      BY Zenon, <1>2, <2>1, <2>2 DEF WorkInv, Truth
    <2> QED BY Zenon, <1>1, <1>2, <1>3, <2>1, <2>3, MoveOK
  <1>4. CASE (\E s \in Statuses(claim[r]) : work' = Report(r, s)) /\ UNCHANGED journal
    <2>1. PICK s \in Statuses(claim[r]) : work' = Report(r, s)
      BY Zenon, <1>4
    <2>2. Truth(r, s) /\ s \in Terminal \cup {"pending"}
      BY Zenon, <1>2, StatusTrue
    <2>3. work' \in Work /\ work'.request = r /\ work'.step = "report" /\ work'.status = s
      BY Zenon, <1>2, <2>1, <2>2 DEF Work, Report
    <2>4. Truth(r, s)'
      BY Zenon, <1>1, <1>2, <1>4, <2>2 DEF Truth, Dead, Live, journal
    <2>5. WorkInv'
      BY Zenon, <1>2, <2>3, <2>4 DEF WorkInv
    <2> QED BY Zenon, <1>1, <1>2, <1>4, <2>3, <2>5, MoveOK
  <1>5. CASE /\ Journal!Sign(r) \/ Journal!Settle(r)
             /\ \E s \in Statuses(claim'[r]) : work' = Report(r, s)
    <2>1. UNCHANGED <<rows, bridge, requests, reports, refused, observed, faults, intent, late, paid>>
      BY Zenon, <1>1, <1>5 DEF platform, Journal!Sign, Journal!Settle
    <2>2. /\ intent' \in [Requests -> {"none", "armed", "closed"}]
          /\ claim' \in [Requests -> {"none", "dispatching", "finalized", "failed", "expired"}]
          /\ \A q \in Requests : JournalInv(q)'
      BY Zenon, <1>2, <1>5, JournalOK
    <2>3. /\ claim[r] = "dispatching" \/ (claim[r] = "none" /\ r \notin late)
          /\ \A q \in Requests \ {r} : claim'[q] = claim[q]
          /\ claim'[r] = "dispatching" => claim[r] = "none"
          /\ claim'[r] # "none"
      BY Zenon, <1>2, <1>5 DEF Journal!Sign, Journal!Settle, IInv, Types
    <2>4. PICK s \in Statuses(claim'[r]) : work' = Report(r, s)
      BY Zenon, <1>5
    <2>5. Truth(r, s)' /\ s \in Terminal \cup {"pending"}
      <3>1. s \in {"finalized", "pending", "failed"}
        BY Zenon, <2>4 DEF Statuses
      <3>2. s = "finalized" => claim'[r] = "finalized"
        BY Zenon, <2>4 DEF Statuses
      <3>3. s = "failed" => claim'[r] \in {"failed", "expired"}
        BY Zenon, <2>4 DEF Statuses
      <3> QED BY Zenon, <1>2, <2>1, <2>2, <3>1, <3>2, <3>3 DEF Truth, Dead, Live, JournalInv, Terminal
    <2>6. work' \in Work /\ work'.request = r /\ work'.step = "report" /\ work'.status = s
      BY Zenon, <1>2, <2>4, <2>5 DEF Work, Report
    <2>7. Types'
      BY Zenon, <2>1, <2>2, <2>6 DEF IInv, Types
    <2>8. WorkInv'
      BY Zenon, <1>2, <2>5, <2>6 DEF WorkInv
    <2>9. \A q \in Requests : AskedInv(q)'
      BY Zenon, <2>1 DEF IInv, AskedInv
    <2>10. ASSUME NEW q \in Requests PROVE Narrows(q)
      <3>1. CASE q = r
        BY Zenon, <1>2, <2>1, <2>3, <3>1 DEF Narrows, Live, JournalInv, IInv
      <3>2. CASE q # r
        BY Zenon, <2>1, <2>3, <3>2 DEF Narrows, Live
      <3> QED BY Zenon, <3>1, <3>2
    <2> QED BY Zenon, <1>1, <2>1, <2>2, <2>7, <2>8, <2>9, <2>10, CustodyFrame
  <1> QED BY Zenon, <1>2, <1>3, <1>4, <1>5 DEF Execute

(* The worker sends the true report it holds, and may acknowledge.         *)
LEMMA SendOK ==
    ASSUME IInv, Send
    PROVE  IInv'
  <1> DEFINE m == [kind |-> "result", request |-> work.request, status |-> work.status]
  <1>1. /\ work # NONE /\ work.step = "report" /\ work' = NONE
        /\ reports' = reports \cup {m} /\ requests' \subseteq requests
        /\ UNCHANGED <<platform, refused, observed, journal>>
    BY Zenon DEF Send
  <1>2. UNCHANGED <<rows, bridge, refused, observed, intent, claim, late, paid>>
    BY Zenon, <1>1 DEF platform, journal
  <1>3. work \in Work /\ rows[work.request].attempted /\ Truth(work.request, work.status)
    BY Zenon, <1>1 DEF IInv, Types, WorkInv
  <1>4. m \in Result /\ m.request = work.request /\ m.status = work.status
    BY Zenon, <1>3 DEF Work, Result
  <1>5. faults' \in Nat
    BY DEF Send, Acked, IInv, Types
  <1>6. Types'
    BY Zenon, <1>1, <1>2, <1>4, <1>5 DEF IInv, Types
  <1>7. \A q \in Requests : JournalInv(q)' /\ AskedInv(q)' /\ Narrows(q)
    BY Zenon, <1>1, <1>2 DEF IInv, JournalInv, AskedInv, Narrows, Live
  <1>8. WorkInv'
    BY Zenon, <1>1 DEF WorkInv
  <1>9. PICK q \in Requests, s \in Terminal \cup {"pending"} :
          q = work.request /\ s = work.status /\ m = [kind |-> "result", request |-> q, status |-> s]
    BY Zenon, <1>3 DEF Work
  <1>10. rows'[q].attempted /\ Truth(q, s)'
    BY Zenon, <1>2, <1>3, <1>7, <1>9, TruthStays
  <1>11. ASSUME NEW n \in reports', n \notin reports PROVE ReportInv(n)'
    <2>1. n = [kind |-> "result", request |-> q, status |-> s]
      BY Zenon, <1>1, <1>9, <1>11
    <2>2. n.request = q /\ n.status = s
      BY Zenon, <2>1
    <2> QED BY Zenon, <1>10, <2>2 DEF ReportInv
  <1> QED BY Zenon, <1>1, <1>6, <1>7, <1>8, <1>11, CustodyFrame

(* Death forgets only what the mailbox delivers again.  A readiness is no  *)
(* result.                                                                 *)
LEMMA IdleOK ==
    ASSUME IInv, Crash \/ publish_readiness
    PROVE  IInv'
  <1>1. CASE Crash
    <2>1. work' = NONE /\ faults' \in Nat /\ UNCHANGED <<platform, requests, reports, refused, observed, journal>>
      BY <1>1 DEF Crash, IInv, Types
    <2> QED BY Zenon, <2>1, MoveOK DEF WorkInv
  <1>2. CASE publish_readiness
    <2>1. /\ observed' = observed + 1 /\ observed \in Nat
          /\ UNCHANGED <<rows, bridge, platform, requests, work, refused, faults, intent, claim, late, paid>>
      BY Zenon, <1>2 DEF publish_readiness, IInv, Types, platform, journal
    <2>2. PICK available \in {Ready, FALSE} :
            reports' = reports \cup {[kind |-> "readiness", at |-> observed + 1,
                                      after |-> LastOperation, available |-> available]}
      BY Zenon, <1>2 DEF publish_readiness
    <2> DEFINE m == [kind |-> "readiness", at |-> observed + 1, after |-> LastOperation, available |-> available]
    <2>3. available \in BOOLEAN
      BY Zenon DEF Ready
    <2>4. m \in Readiness
      BY <2>1, <2>3, OperationBound DEF Readiness
    <2>5. m.kind = "readiness"
      BY Zenon
    <2>6. reports' = reports \cup {m}
      BY Zenon, <2>2
    <2> HIDE DEF m
    <2>7. Types'
      BY <2>1, <2>4, <2>6 DEF IInv, Types
    <2>8. \A q \in Requests : JournalInv(q)' /\ AskedInv(q)' /\ Narrows(q)
      BY Zenon, <2>1 DEF IInv, JournalInv, AskedInv, Narrows, Live
    <2>9. WorkInv'
      <3>1. work # NONE => work.request \in Requests
        BY Zenon DEF IInv, Types, Work
      <3> QED BY Zenon, <2>1, <2>8, <3>1, TruthStays DEF IInv, WorkInv
    <2>10. ASSUME NEW n \in reports', n \notin reports PROVE ReportInv(n)'
      BY Zenon, <2>5, <2>6, <2>10 DEF ReportInv
    <2> QED BY Zenon, <2>1, <2>7, <2>8, <2>9, <2>10, CustodyFrame
  <1> QED BY Zenon, <1>1, <1>2

(* The operator's expiry, the chain and the clock change one request.      *)
LEMMA ChainOK ==
    ASSUME IInv, NEW r \in Requests, ExpireUnsigned(r) \/ Land(r) \/ Lapse(r)
    PROVE  IInv'
  <1>1. UNCHANGED <<rows, bridge, platform, requests, reports, work, refused, observed, faults, claim>>
    BY Zenon DEF ExpireUnsigned, Land, Lapse, platform, Journal!Close, Journal!Pay
  <1>2. /\ intent[r] = "armed" \/ claim[r] = "dispatching"
        /\ intent' = intent \/ (work = NONE /\ claim[r] = "none" /\ intent' = [intent EXCEPT ![r] = "closed"])
        /\ late' \in {late, late \cup {r}}
        /\ paid' = paid \/ (paid' = paid \cup {r} /\ claim[r] = "dispatching" /\ r \notin paid)
    BY Zenon DEF ExpireUnsigned, Land, Lapse, Journal!Close, Journal!Pay
  <1>3. /\ intent \in [Requests -> {"none", "armed", "closed"}] /\ intent[r] = "armed" /\ rows[r].attempted
    BY Zenon, <1>2 DEF IInv, Types, JournalInv, AskedInv
  <1>4. /\ intent'[r] \in {"armed", "closed"} /\ (intent'[r] = "closed" => claim[r] = "none" /\ work = NONE)
        /\ intent' \in [Requests -> {"none", "armed", "closed"}]
        /\ \A q \in Requests \ {r} : intent'[q] = intent[q] /\ (q \in paid' <=> q \in paid) /\ (q \in late' <=> q \in late)
    BY Zenon, <1>2, <1>3
  <1>5. Types'
    BY Zenon, <1>1, <1>2, <1>4 DEF IInv, Types
  <1>6. ASSUME NEW q \in Requests PROVE JournalInv(q)' /\ AskedInv(q)' /\ Narrows(q)
    <2>1. JournalInv(q) /\ AskedInv(q)
      BY Zenon DEF IInv
    <2>2. CASE q = r
      BY Zenon, <1>1, <1>2, <1>3, <1>4, <2>1, <2>2 DEF JournalInv, AskedInv, Narrows, Live
    <2>3. CASE q # r
      BY Zenon, <1>1, <1>4, <2>1, <2>3 DEF JournalInv, AskedInv, Narrows, Live
    <2> QED BY Zenon, <2>2, <2>3
  <1>7. WorkInv'
    <2>1. work # NONE => work.request \in Requests
      BY Zenon DEF IInv, Types, Work
    <2>2. work # NONE /\ work.step = "tick" => intent'[work.request] = "armed"
      BY Zenon, <1>3, <1>4, <2>1 DEF IInv, WorkInv
    <2> QED BY Zenon, <1>1, <1>6, <2>1, <2>2, TruthStays DEF IInv, WorkInv
  <1> QED BY Zenon, <1>1, <1>5, <1>6, <1>7, CustodyFrame

-----------------------------------------------------------------------------
(* The strengthened invariant holds through every order of clicks, mails,  *)
(* redeliveries, crashes, ticks and blocks.                                *)
THEOREM Invariance == Spec => []IInv
  <1>1. Init => IInv
    <2> SUFFICES ASSUME Init PROVE IInv
      BY Zenon
    <2>1. /\ rows = [r \in Requests |-> Absent] /\ bridge = NONE /\ requests = {} /\ reports = {}
          /\ work = NONE /\ refused = {} /\ observed = 0 /\ faults = 0
          /\ intent = [r \in Requests |-> "none"] /\ claim = [r \in Requests |-> "none"]
          /\ late = {} /\ paid = {}
      BY Zenon DEF Init, Journal!Init
    <2>2. Cardinality(Requests) \in Nat
      BY Zenon, BridgeAssumption, FS_CardinalityType
    <2>3. Absent \in Row /\ Absent.status = "none" /\ ~Absent.attempted
      BY <2>2 DEF Absent, Row
    <2>4. Types
      BY Zenon, <2>1, <2>3 DEF Types
    <2>5. \A r \in Requests : JournalInv(r) /\ AskedInv(r) /\ RowInv(r) /\ ~Live(r)
      BY Zenon, <2>1, <2>3 DEF JournalInv, AskedInv, RowInv, Live
    <2> QED BY Zenon, <2>1, <2>4, <2>5 DEF IInv, WorkInv, OneLive
  <1>2. IInv /\ [Next]_vars => IInv'
    <2> SUFFICES ASSUME IInv, [Next]_vars PROVE IInv'
      BY Zenon
    <2>1. CASE Platform
      BY Zenon, <2>1, PlatformOK
    <2>2. CASE Custody
      BY Zenon, <2>2, ReceiveOK, ExecuteOK, SendOK, IdleOK, ChainOK DEF Custody
    <2>3. CASE UNCHANGED vars
      <3>1. UNCHANGED <<platform, requests, reports, work, refused, observed, faults, journal, rows,
                        intent, claim, late, paid>>
        BY Zenon, <2>3 DEF vars, platform, journal
      <3>2. WorkInv' /\ (work' = NONE \/ work' \in Work) /\ faults' \in Nat
        BY Zenon, <3>1 DEF IInv, WorkInv, Truth, Dead, Live, Types
      <3> QED BY Zenon, <3>1, <3>2, MoveOK
    <2> QED BY Zenon, <2>1, <2>2, <2>3 DEF Next
  <1> QED BY <1>1, <1>2, PTL DEF Spec

(* state and submit admit one transfer at a time: money never can still    *)
(* move for two requests, for any number of requests, lost commits,        *)
(* redeliveries and restarts.                                              *)
THEOREM NeverTwoLive == Spec => []OneLive
  <1>1. IInv => OneLive
    BY Zenon DEF IInv
  <1> QED BY <1>1, Invariance, PTL

(* process_manual reports one result of a request, and it is true when it  *)
(* is sent and afterwards.                                                 *)
THEOREM ReportsHold == Spec => []ResultsTrue
  <1>1. IInv => ResultsTrue
    <2> SUFFICES ASSUME IInv, NEW m \in Results
                 PROVE  /\ IF m.status = "finalized" THEN m.request \in paid
                           ELSE m.request \notin paid /\ ~Live(m.request)
                        /\ \A n \in Results : m.request = n.request => m = n
      BY Zenon DEF ResultsTrue
    <2>1. ASSUME NEW n \in Results
          PROVE  /\ n = [kind |-> "result", request |-> n.request, status |-> n.status]
                 /\ n.request \in Requests /\ n.status \in {"finalized", "failed", "refused"}
                 /\ Truth(n.request, n.status)
                 /\ n.status # "finalized" => Dead(n.request)
                 /\ n.status = "refused" => intent[n.request] = "none"
      <3>1. n \in reports /\ n.kind = "result" /\ n.status \in Terminal
        BY Zenon DEF Results
      <3>2. n \in Result /\ n.request \in Requests /\ Truth(n.request, n.status)
        BY Zenon, <3>1, TypeFacts DEF IInv, ReportInv
      <3>3. n.status = "refused" => intent[n.request] = "none" /\ Dead(n.request)
        BY Zenon, <3>2 DEF IInv, Truth, AskedInv, JournalInv, Dead, Live
      <3> QED BY Zenon, <3>1, <3>2, <3>3 DEF Result, Terminal, Truth
    <2>2. ASSUME NEW n \in Results, m.request = n.request PROVE m = n
      <3>1. m.status = n.status
        BY Zenon, <2>1, <2>2 DEF Truth, Dead
      <3> QED BY Zenon, <2>1, <2>2, <3>1
    <2> QED BY Zenon, <2>1, <2>2 DEF Truth, Dead
  <1> QED BY <1>1, Invariance, PTL

(* The platform's rows say what happened: nothing in custody that no row   *)
(* asked for, what is audited or published has paid, and what a report or  *)
(* an early refusal settled will not pay.                                  *)
THEOREM RowsHold == Spec => []RowsTrue
  <1>1. IInv => RowsTrue
    <2> SUFFICES ASSUME IInv, NEW r \in Requests
                 PROVE  /\ rows[r] \in Row
                        /\ rows[r].status = "none" =>
                              r \notin requests \cup refused \cup late \cup paid /\ intent[r] = "none"
                                /\ claim[r] = "none"
                        /\ rows[r].status \in {"audit_pending", "published"} => r \in paid
                        /\ (rows[r].status \in {"failed", "refused"} /\ ~Ambiguous(r)) => r \notin paid /\ ~Live(r)
      BY Zenon DEF RowsTrue
    <2>1. rows[r] \in Row /\ JournalInv(r) /\ AskedInv(r) /\ RowInv(r)
      BY Zenon, TypeFacts DEF IInv
    <2> QED BY Zenon, <2>1 DEF JournalInv, AskedInv, RowInv, Dead
  <1> QED BY <1>1, Invariance, PTL

(* The worker drives the journal only through its promises: whatever is    *)
(* redelivered or lost, arming, signing, settling and closing happen in    *)
(* the order TransferJournal allows.  So what is proved here holds of any  *)
(* journal that implements TransferJournal.                                *)
THEOREM UsesJournal == Spec => Journal!Spec
  <1>1. Init => Journal!Init
    BY Zenon DEF Init
  <1>2. IInv /\ [Next]_vars => [Journal!Next]_(Journal!vars)
    <2> SUFFICES ASSUME IInv, [Next]_vars PROVE Journal!Next \/ UNCHANGED journal
      BY Zenon DEF Journal!vars, journal
    <2>1. CASE Platform
      BY Zenon, <2>1 DEF Platform, submit, refuse_dispatch, MarkDispatch, Dispatch, PublishMovement,
                  PublishAudit, accept_report, SetRuntime
    <2>2. ASSUME NEW r \in Requests, Receive(r) PROVE Journal!Next \/ UNCHANGED journal
      <3>1. CASE late' \in {late, late \cup {r}} /\ Journal!Arm(r)
        <4>1. Journal!Grow
          BY Zenon, <3>1 DEF Journal!Grow
        <4> QED BY Zenon, <3>1, <4>1 DEF Journal!Next
      <3>2. CASE UNCHANGED <<intent, late, claim, paid>>
        BY Zenon, <3>2 DEF journal
      <3> QED BY Zenon, <2>2, <3>1, <3>2 DEF Receive, arm, refuse
    <2>3. CASE Execute
      <3>1. PICK r \in Requests : r = work.request
        BY Zenon, <2>3 DEF Execute, IInv, Types, Work
      <3>2. Journal!Sign(r) \/ Journal!Settle(r) \/ UNCHANGED journal
        BY Zenon, <2>3, <3>1 DEF Execute
      <3> QED BY Zenon, <3>2 DEF Journal!Next
    <2>4. ASSUME NEW r \in Requests, ExpireUnsigned(r) \/ Land(r) \/ Lapse(r)
          PROVE  Journal!Next \/ UNCHANGED journal
      <3>1. CASE ExpireUnsigned(r)
        BY Zenon, <3>1 DEF ExpireUnsigned, Journal!Next
      <3>2. CASE Land(r)
        BY Zenon, <3>2 DEF Land, Journal!Next, Journal!Grow
      <3>3. CASE Lapse(r)
        BY Zenon, <3>3 DEF Lapse, Journal!Next, Journal!Lapse, Journal!Grow
      <3> QED BY Zenon, <2>4, <3>1, <3>2, <3>3
    <2>5. CASE Send \/ Crash \/ publish_readiness
      BY Zenon, <2>5 DEF Send, Crash, publish_readiness
    <2>6. CASE UNCHANGED vars
      BY Zenon, <2>6 DEF vars
    <2> QED BY Zenon, <2>1, <2>2, <2>3, <2>4, <2>5, <2>6 DEF Next, Custody
  <1> QED BY <1>1, <1>2, Invariance, PTL DEF Spec, Journal!Spec
=============================================================================
