------------------------------ MODULE MCTickets ------------------------------
(* Instances of ValidatorTickets for TLC.  Each run restricts the steps to *)
(* those its question is about, so that it can afford longer behaviours.   *)
EXTENDS ValidatorTickets, TLC

ValidatorSymmetry == Permutations(Validators)

(* Every lane that can put a lease on a slot or on an agent, without the   *)
(* outage and retry-budget operators.                                      *)
LanesNext ==
    \/ ScoringPoll \/ EvidencePoll \/ RetestPoll
    \/ ScoringReport \/ EvidenceReport \/ Clock
    \/ RetestOperator \/ ReplaceOperator

LanesSpec == Init /\ [][LanesNext]_vars

(* The lanes that count towards the quorum, with outages and every         *)
(* operator action on the queue, but no replacement of accepted scores.    *)
QuorumNext ==
    \/ ScoringPoll \/ ScoringReport \/ Outage \/ Clock
    \/ QueueOperator \/ ReviewOperator

QuorumSpec == Init /\ [][QuorumNext]_vars

(* The same with the operator's replacement of an accepted score.          *)
ReplaceSpec == Init /\ [][QuorumNext \/ ReplaceOperator]_vars

=============================================================================
