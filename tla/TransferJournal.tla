---------------------------- MODULE TransferJournal ----------------------------
(***************************************************************************)
(* What the collector's journal promises about manual requests, whatever   *)
(* its tables look like: a request is armed once, signed at most once and  *)
(* in time, money moves only while its one signed transfer is outstanding, *)
(* and the recorded outcome is the chain's.  CollectorJournal implements   *)
(* this; ManualBridge is built on it.                                      *)
(***************************************************************************)

CONSTANT Requests   \* manual request UUIDs

VARIABLES
    intent, \* [request -> "none" | "armed" | "closed" by an unsigned expiry]
    claim,  \* [request -> state of its signed operation, "none" without one]
    late,   \* requests whose signing window has passed
    paid    \* requests whose transfer moved money on the chain

vars == <<intent, claim, late, paid>>

Init ==
    /\ intent = [r \in Requests |-> "none"]
    /\ claim = [r \in Requests |-> "none"]
    /\ late = {} /\ paid = {}

Standing(r) == intent[r] = "armed" /\ claim[r] # "finalized"

\* arm_manual_transfer: the previous claim is finalized first.
Arm(r) ==
    /\ intent[r] = "none" /\ r \notin late
    /\ \A q \in Requests : ~Standing(q)
    /\ intent' = [intent EXCEPT ![r] = "armed"]
    /\ UNCHANGED <<claim, paid>>

\* tick: sign and record, before the window closes.
Sign(r) ==
    /\ intent[r] = "armed" /\ claim[r] = "none" /\ r \notin late
    /\ claim' = [claim EXCEPT ![r] = "dispatching"]
    /\ UNCHANGED <<intent, late, paid>>

\* The chain executes a transfer nobody has written off.
Pay(r) ==
    /\ claim[r] = "dispatching" /\ r \notin paid
    /\ paid' = paid \cup {r}
    /\ UNCHANGED <<intent, claim>>

\* reconcile
Settle(r) ==
    /\ claim[r] = "dispatching"
    /\ \E s \in IF r \in paid THEN {"finalized"} ELSE {"failed", "expired"} :
          claim' = [claim EXCEPT ![r] = s]
    /\ UNCHANGED <<intent, late, paid>>

\* expire_unsigned_manual
Close(r) ==
    /\ intent[r] = "armed" /\ claim[r] = "none" /\ r \in late
    /\ intent' = [intent EXCEPT ![r] = "closed"]
    /\ UNCHANGED <<claim, late, paid>>

\* Time only closes windows.
Grow == late \subseteq late'

Lapse == UNCHANGED <<intent, claim, paid>> /\ Grow

Next ==
    \/ \E r \in Requests : (Arm(r) /\ Grow) \/ Sign(r) \/ (Pay(r) /\ Grow) \/ Settle(r) \/ Close(r)
    \/ Lapse

Spec == Init /\ [][Next]_vars
=============================================================================
