------------------------------ MODULE MCSBPMESched ------------------------------
(* Small schedulers, with and without a prefix. *)
EXTENDS SBPMESched, TLC

CONSTANTS MaxKps, MaxSum, MaxP

Total(f) == f[0] + (IF 1 \in DOMAIN f THEN f[1] ELSE 0)
            + (IF 2 \in DOMAIN f THEN f[2] ELSE 0)
KpsOf(n) == {f \in [0..(n - 1) -> 1..MaxKps] : Total(f) <= MaxSum}

MCInputs == [kps : KpsOf(1) \cup KpsOf(2) \cup KpsOf(3), p : 1..5, prefix : {<<>>}]

(* Prefixes of one or two periods, as get_prefix returns them. *)
MCBlocks == [thread : 0..1, kps : 1..2]
MCPrefixes == {<<b>> : b \in MCBlocks}
              \cup {<<b, c>> : b \in [thread : {0}, kps : 1..2], c \in [thread : {1}, kps : 1..2]}
MCPrefixInputs == {x \in [kps : KpsOf(2) \cup KpsOf(3), p : 2..MaxP, prefix : MCPrefixes] :
                      \A i \in DOMAIN x.prefix : x.prefix[i].kps <= x.kps[x.prefix[i].thread]}

MCAllInputs == MCInputs \cup MCPrefixInputs

(* A thread with five key points in three periods of its own. *)
MCLongInputs == [kps : {(0 :> 5 @@ 1 :> 2)}, p : {5}, prefix : {<<>>}]
=============================================================================
