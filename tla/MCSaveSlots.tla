----------------------------- MODULE MCSaveSlots -----------------------------
(* The small instances of SaveSlots.  With one place in the game, the       *)
(* garbled machine, which can be saved and loaded like it, is the other: it *)
(* is also what reading a backup as of an old version leaves.               *)
EXTENDS SaveSlots

CONSTANTS s0, s1, p

MCReread == [m \in {p, Garbled} |-> Garbled]

=============================================================================
