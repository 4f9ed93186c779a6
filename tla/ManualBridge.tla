------------------------------ MODULE ManualBridge ------------------------------
(***************************************************************************)
(* Manual treasury transfers from the operator's click to the receipt.     *)
(*                                                                         *)
(* The platform queues a request (treasury_manual.submit), its loop sends  *)
(* it through a mailbox (treasury_manual_loop.sweep), the custody worker   *)
(* arms and signs it in its own journal (manual_worker.process_manual) and *)
(* reports back through a second mailbox, and the loop audits the reported *)
(* movement against the chain.  Two databases and two at-least-once        *)
(* mailboxes lie between the click and the money: a message stays until it *)
(* is acknowledged, may arrive again after that, and in any order; either  *)
(* process may die after any commit.                                       *)
(*                                                                         *)
(* The journal is TransferJournal, which CollectorJournal implements.  The *)
(* custody policy is fixed, so a request bears it; requests of other       *)
(* policies and malformed messages are dropped and change nothing here.    *)
(***************************************************************************)
EXTENDS Integers, FiniteSets

CONSTANTS
    Requests,       \* manual request UUIDs
    MaxFaults,      \* bound: crashes, failed commits and lost acknowledgements
    MaxReadiness,   \* bound: readiness observations published
    NONE

ASSUME BridgeAssumption == IsFiniteSet(Requests) /\ MaxFaults \in Nat /\ MaxReadiness \in Nat

VARIABLES
    rows,       \* treasury_manual_transfers
    bridge,     \* treasury_manual_bridge_state: the newest readiness, or NONE
    enforced,   \* the runtime permits dispatch under the request's policy
    requests,   \* request mailbox
    reports,    \* report mailbox
    work,       \* the custody worker: NONE, or the request and its next step
    refused,    \* manual_mailbox_refused events
    observed,   \* readiness observations published so far
    faults,
    intent, claim, late, paid

Journal == INSTANCE TransferJournal

platform == <<rows, bridge, enforced>>
journal == <<intent, claim, late, paid>>
vars == <<platform, requests, reports, work, refused, observed, faults, journal>>

Absent == [status |-> "none", after |-> 0, attempted |-> FALSE, report |-> NONE, receipt |-> FALSE,
           review |-> FALSE]

Init ==
    /\ rows = [r \in Requests |-> Absent]
    /\ bridge = NONE /\ enforced = TRUE
    /\ requests = {} /\ reports = {} /\ work = NONE /\ refused = {}
    /\ observed = 0 /\ faults = 0
    /\ Journal!Init

-----------------------------------------------------------------------------
(* The platform (treasury_manual.py, treasury_manual_loop.py). *)

Unsettled(r) == rows[r].status \in {"queued", "dispatched", "pending"}

\* A request that may have reached custody and whose fate nobody has reported.
Ambiguous(r) ==
    /\ rows[r].report = NONE
    /\ rows[r].status = "failed" \/ (rows[r].status = "refused" /\ rows[r].attempted)

\* delivery_verified
Delivered(r) == rows[r].status = "audit_pending" /\ rows[r].receipt

\* Mutant: a refusal without a custody report frees the bridge.
BlockedTrusting ==
    \/ bridge = NONE \/ ~enforced
    \/ \E r \in Requests :
          \/ rows[r].status = "audit_pending" /\ ~Delivered(r)
          \/ Unsettled(r)
          \/ (rows[r].status = "published" \/ Delivered(r)) /\ rows[r].after >= bridge.after
    \/ ~bridge.available

\* state: the reasons to refuse a new request, freshness and balances aside.
Blocked ==
    \/ bridge = NONE \/ ~enforced
    \/ \E r \in Requests :
          \/ rows[r].status = "audit_pending" /\ ~Delivered(r)
          \/ Unsettled(r) \/ Ambiguous(r)
          \/ (rows[r].status = "published" \/ Delivered(r)) /\ rows[r].after >= bridge.after
    \/ ~bridge.available

submit(r) ==
    /\ rows[r].status = "none" /\ ~Blocked
    /\ rows' = [rows EXCEPT ![r] = [Absent EXCEPT !.status = "queued", !.after = bridge.after]]
    /\ UNCHANGED <<bridge, enforced, requests, reports, work, refused, observed, faults, journal>>

\* An operator pauses or resumes enforcement, or rotates the approved policy.
SetRuntime ==
    /\ enforced' = ~enforced
    /\ UNCHANGED <<rows, bridge, requests, reports, work, refused, observed, faults, journal>>

Terminal == {"finalized", "failed", "refused"}

\* accept_report of a request's result: a terminal report is never replaced.
Apply(row, status) ==
    IF row.status = "published" \/ row.report \in Terminal THEN row
    ELSE [row EXCEPT !.report = status,
                     !.status = IF status = "finalized" THEN "audit_pending" ELSE status]

\* Acknowledging m removes it; the acknowledgement may be lost, and m comes again.
Acked(box, m, after) ==
    \/ after = box \ {m} /\ UNCHANGED faults
    \/ after = box /\ faults < MaxFaults /\ faults' = faults + 1

\* The first transaction of a sweep.  A readiness older than the stored one, or
\* one that is no longer fresh, is ignored.
accept_report(m) ==
    /\ m \in reports
    /\ IF m.kind = "readiness"
       THEN /\ bridge' \in IF bridge = NONE \/ bridge.at < m.at THEN {bridge, m} ELSE {bridge}
            /\ UNCHANGED rows
       ELSE /\ rows' = [rows EXCEPT ![m.request] = Apply(@, m.status)]
            /\ UNCHANGED bridge
    /\ reports' \in {reports, reports \ {m}} /\ Acked(reports, m, reports')
    /\ UNCHANGED <<enforced, requests, work, refused, observed, journal>>

refuse_dispatch(r) ==
    /\ rows[r].status = "queued" /\ ~enforced
    /\ rows' = [rows EXCEPT ![r].status = "refused"]
    /\ UNCHANGED <<bridge, enforced, requests, reports, work, refused, observed, faults, journal>>

\* The attempt is committed before anything is published.
MarkDispatch(r) ==
    /\ rows[r].status = "queued" /\ enforced /\ ~rows[r].attempted
    /\ rows' = [rows EXCEPT ![r].attempted = TRUE]
    /\ UNCHANGED <<bridge, enforced, requests, reports, work, refused, observed, faults, journal>>

\* Mutant: a request is published in the transaction that marks it.
DispatchUnmarked(r) ==
    /\ rows[r].status = "queued" /\ enforced
    /\ requests' = requests \cup {r}
    /\ \/ rows' = [rows EXCEPT ![r].status = "dispatched"] /\ UNCHANGED faults
       \/ faults < MaxFaults /\ faults' = faults + 1 /\ UNCHANGED rows
    /\ UNCHANGED <<bridge, enforced, reports, work, refused, observed, journal>>

\* The request is published inside a second transaction, which may then fail.
Dispatch(r) ==
    /\ rows[r].status = "queued" /\ enforced /\ rows[r].attempted
    /\ requests' = requests \cup {r}
    /\ \/ rows' = [rows EXCEPT ![r].status = "dispatched"] /\ UNCHANGED faults
       \/ faults < MaxFaults /\ faults' = faults + 1 /\ UNCHANGED rows
    /\ UNCHANGED <<bridge, enforced, reports, work, refused, observed, journal>>

\* publish_finalized_movement: only a transfer the chain shows gets a receipt.
PublishMovement(r) ==
    /\ rows[r].status = "audit_pending" /\ ~rows[r].receipt /\ r \in paid
    /\ rows' = [rows EXCEPT ![r].receipt = TRUE]
    /\ UNCHANGED <<bridge, enforced, requests, reports, work, refused, observed, faults, journal>>

\* publish_audit: the sources are attributed too, or an operator must look.
PublishAudit(r) ==
    /\ rows[r].status = "audit_pending" /\ ~rows[r].review
    /\ \/ /\ r \in paid
          /\ rows' = [rows EXCEPT ![r].status = "published", ![r].receipt = TRUE]
       \/ rows' = [rows EXCEPT ![r].review = TRUE]
    /\ UNCHANGED <<bridge, enforced, requests, reports, work, refused, observed, faults, journal>>

Platform ==
    \/ \E r \in Requests :
          \/ submit(r) \/ refuse_dispatch(r) \/ MarkDispatch(r) \/ Dispatch(r)
          \/ PublishMovement(r) \/ PublishAudit(r)
    \/ \E m \in reports : accept_report(m)
    \/ SetRuntime

-----------------------------------------------------------------------------
(* The custody worker (scripts/treasury_manual_worker.py, manual_worker.py). *)
(* It owns the journal file, takes one message at a time, and acknowledges   *)
(* only after a terminal report was published.                               *)

LastOperation == Cardinality({q \in Requests : claim[q] # "none"})

\* bounded_claim_available
Ready == \A q \in Requests : ~Journal!Standing(q)

Report(r, status) == [request |-> r, step |-> "report", status |-> status]

\* Mutant: a refusal is reported and not written down.
refuseForgetful(r) == work' = Report(r, "refused") /\ UNCHANGED <<refused, intent, late>>

\* The refusal is durable before it is reported: the message may come again.
refuse(r) ==
    /\ refused' = refused \cup {r}
    /\ work' = Report(r, "refused")
    /\ UNCHANGED <<intent, late>>

\* arm_manual_transfer: a request of an older revision is refused, one that
\* finds an unresolved claim raises and stays in the mailbox, any other is
\* refused for its data or armed.
arm(r) ==
    \/ /\ rows[r].after # LastOperation
       /\ refuse(r)
    \/ /\ rows[r].after = LastOperation /\ Ready
       /\ \/ refuse(r)
          \/ /\ late' \in {late, late \cup {r}}
             /\ Journal!Arm(r)
             /\ work' = [request |-> r, step |-> "tick", status |-> "pending"]
             /\ UNCHANGED refused

\* process_manual up to its tick.  What the message says of r is in its row.
Receive(r) ==
    /\ work = NONE /\ r \in requests
    /\ \/ /\ r \in refused
          /\ work' = Report(r, "refused")
          /\ UNCHANGED <<refused, intent, late>>
       \/ /\ r \notin refused /\ intent[r] = "closed"
          /\ work' = Report(r, "failed")
          /\ UNCHANGED <<refused, intent, late>>
       \/ /\ r \notin refused /\ intent[r] = "armed"
          /\ work' = [request |-> r, step |-> "tick", status |-> "pending"]
          /\ UNCHANGED <<refused, intent, late>>
       \/ /\ r \notin refused /\ intent[r] = "none"
          /\ arm(r)
    /\ UNCHANGED <<platform, requests, reports, observed, faults, claim, paid>>

\* What is reported of an operation; its coordinates may be unavailable.
Statuses(c) ==
    CASE c = "finalized" -> {"finalized", "pending"}
      [] c \in {"failed", "expired"} -> {"failed"}
      [] OTHER -> {"pending"}

\* tick for this request, then the report of its operation.
Execute ==
    /\ work # NONE /\ work.step = "tick"
    /\ LET r == work.request
       IN  \/ /\ claim[r] = "none" /\ r \in late
              /\ work' = Report(r, "failed")
              /\ UNCHANGED journal
           \/ /\ Journal!Sign(r) \/ Journal!Settle(r)
              /\ \E s \in Statuses(claim'[r]) : work' = Report(r, s)
           \/ /\ claim[r] # "none" \/ r \notin late
              /\ \E s \in Statuses(claim[r]) : work' = Report(r, s)
              /\ UNCHANGED journal
    /\ UNCHANGED <<platform, requests, reports, refused, observed, faults>>

\* Mutant: every report acknowledges its message.
SendAcksAll ==
    /\ work # NONE /\ work.step = "report"
    /\ reports' = reports \cup {[kind |-> "result", request |-> work.request, status |-> work.status]}
    /\ requests' = requests \ {work.request}
    /\ work' = NONE
    /\ UNCHANGED <<platform, refused, observed, faults, journal>>

Send ==
    /\ work # NONE /\ work.step = "report"
    /\ reports' = reports \cup {[kind |-> "result", request |-> work.request, status |-> work.status]}
    /\ \/ work.status = "pending" /\ UNCHANGED <<requests, faults>>
       \/ /\ work.status # "pending"
          /\ requests' \in {requests, requests \ {work.request}}
          /\ Acked(requests, work.request, requests')
    /\ work' = NONE
    /\ UNCHANGED <<platform, refused, observed, journal>>

\* The worker dies, or a read or a publication raises; the message comes again.
Crash ==
    /\ work # NONE /\ faults < MaxFaults
    /\ work' = NONE /\ faults' = faults + 1
    /\ UNCHANGED <<platform, requests, reports, refused, observed, journal>>

\* publish_current_readiness: an observation that fails is reported as a blocker.
publish_readiness ==
    /\ work = NONE /\ observed < MaxReadiness
    /\ observed' = observed + 1
    /\ \E available \in {Ready, FALSE} :
          reports' = reports \cup {[kind |-> "readiness", at |-> observed + 1,
                                   after |-> LastOperation, available |-> available]}
    /\ UNCHANGED <<platform, requests, work, refused, faults, journal>>

\* expire_unsigned_manual: the operator stops the worker first.
ExpireUnsigned(r) ==
    /\ work = NONE
    /\ Journal!Close(r)
    /\ UNCHANGED <<platform, requests, reports, work, refused, observed, faults>>

\* Blocks are finalized: a transfer lands, or a signing window passes.
Land(r) ==
    /\ late' = late
    /\ Journal!Pay(r)
    /\ UNCHANGED <<platform, requests, reports, work, refused, observed, faults>>

Lapse(r) ==
    /\ intent[r] = "armed" /\ r \notin late
    /\ late' = late \cup {r}
    /\ UNCHANGED <<platform, requests, reports, work, refused, observed, faults, intent, claim, paid>>

Custody ==
    \/ \E r \in Requests : Receive(r) \/ ExpireUnsigned(r) \/ Land(r) \/ Lapse(r)
    \/ Execute \/ Send \/ Crash \/ publish_readiness

Next == Platform \/ Custody

Spec == Init /\ [][Next]_vars

-----------------------------------------------------------------------------
AcceptTerminal(r) ==
    \E s \in Terminal : accept_report([kind |-> "result", request |-> r, status |-> s])

Conclude(r) == Execute /\ work.request = r /\ work'.status \in Terminal

\* The mailboxes deliver every message that is not acknowledged, the worker and
\* the loop keep pulling, blocks are finalized, and an archive that cannot be
\* read now can be read later.  Nothing is assumed of operators.
Fairness ==
    /\ \A r \in Requests :
          /\ SF_vars(Receive(r)) /\ SF_vars(Conclude(r)) /\ WF_vars(Lapse(r))
          /\ WF_vars(AcceptTerminal(r))
    /\ WF_vars(Execute) /\ WF_vars(Send)

FairSpec == Spec /\ Fairness

-----------------------------------------------------------------------------
Row == [status : {"none", "queued", "dispatched", "pending", "audit_pending", "published", "failed",
                  "refused"},
        after : 0..Cardinality(Requests), attempted : BOOLEAN,
        report : Terminal \cup {"pending", NONE}, receipt : BOOLEAN, review : BOOLEAN]

\* Money may still move for r: its transfer is outstanding, or it may yet be
\* signed, armed or dispatched.
Live(r) ==
    \/ claim[r] = "dispatching" /\ r \notin paid
    \/ claim[r] = "none" /\ intent[r] = "armed" /\ r \notin late
    \/ /\ intent[r] = "none" /\ r \notin refused
       /\ r \in requests \/ rows[r].status = "queued"

\* state and submit admit one transfer at a time: whatever was lost, repeated or
\* paused, money never can still move for two requests at once.
OneLive == \A r, q \in Requests : Live(r) /\ Live(q) => r = q

Results == {m \in reports : m.kind = "result" /\ m.status \in Terminal}

\* process_manual: a terminal report is true when it is sent and stays true.
\* Refused and failed requests never pay, finalized ones have paid, and
\* redelivery, crashes and lost acknowledgements never make the worker report
\* two different results, which the platform would have to reject as changed.
ResultsTrue ==
    \A m \in Results :
        /\ IF m.status = "finalized" THEN m.request \in paid
           ELSE m.request \notin paid /\ ~Live(m.request)
        /\ \A n \in Results : m.request = n.request => m = n

\* Rows keep their shape and say what happened: nothing is in a mailbox or in
\* the journal that no row asked for, a row that was settled by a report or
\* refused before any dispatch attempt will not pay later, and one being
\* audited or published has paid.
RowsTrue ==
    \A r \in Requests :
        /\ rows[r] \in Row
        /\ rows[r].status = "none" =>
              r \notin requests \cup refused \cup late \cup paid /\ intent[r] = "none" /\ claim[r] = "none"
        /\ rows[r].status \in {"audit_pending", "published"} => r \in paid
        /\ (rows[r].status \in {"failed", "refused"} /\ ~Ambiguous(r)) => r \notin paid /\ ~Live(r)

Stuck == \E q \in Requests : intent[q] = "armed" /\ claim[q] = "none" /\ q \in late

\* A dispatched request gets its terminal result, unless an intent whose window
\* has passed waits for the operator who must expire it.
RequestSettles ==
    \A r \in Requests :
        rows[r].status = "dispatched" ~> (rows[r].report \in Terminal \/ Stuck)
=============================================================================
