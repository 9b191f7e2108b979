-------------------------- MODULE MCThreadHandshake --------------------------
(* Small instances of the creation handshake. *)
EXTENDS ThreadHandshake

CONSTANTS c1, c2, c3, c4, c5

(* main() creates every thread. *)
ParentMain == [c \in Child |-> Main]
(* main() creates c1 and c2, and c1 creates c3 meanwhile. *)
ParentNested == [c \in Child |-> IF c = c3 THEN c1 ELSE Main]
=============================================================================
