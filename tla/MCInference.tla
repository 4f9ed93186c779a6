------------------------------ MODULE MCInference ------------------------------
(* Instances of InferenceGrants. *)
EXTENDS InferenceGrants, TLC

ChatAndEmbedding == {"chat", "embedding"}
PerLane(chat, embedding) == [k \in Lanes |-> IF k = "chat" THEN chat ELSE embedding]
OneAndTwo == PerLane(1, 2)
Twos == PerLane(2, 2)
Ones == PerLane(1, 1)
Symmetry == Permutations(Workers) \cup Permutations(Tickets)
=============================================================================
