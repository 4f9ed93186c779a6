----------------------------- MODULE MCCollector -----------------------------
(* Instances of CollectorJournal: two receipts and two buckets. *)
EXTENDS CollectorJournal, TLC

MCEarned == [b \in 1..MaxBlock |-> CASE b = 1 -> 3 [] b = 2 -> 1 [] OTHER -> 0]
MCBps == <<60, 40>>
RequestSymmetry == Permutations(RequestIds)
=============================================================================
