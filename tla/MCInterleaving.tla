------------------------------ MODULE MCInterleaving ----------------------------
(* Two or three threads with up to MaxKps key points each, and every       *)
(* parent interleaving of up to four key points of two of them.            *)
EXTENDS Interleaving

CONSTANTS MaxKps

MCParents == {<<>>} \cup UNION {[1..k -> 0..1] : k \in 2..4}
MCInputs == UNION {[n : {k}, M : [0..(k - 1) -> 0..MaxKps], parent : MCParents] : k \in 2..3}
=============================================================================
