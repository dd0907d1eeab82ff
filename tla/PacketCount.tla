----------------------------- MODULE PacketCount -----------------------------
(***************************************************************************)
(* What a packet search promises: the call on a packet of at least SeqDiv  *)
(* bytes is answered, once, with the largest number of non-overlapping     *)
(* occurrences of the packet's own prefix.  A shorter packet has a prefix  *)
(* of length zero and the call on it is never answered.                    *)
(***************************************************************************)
EXTENDS PrefixPacking

VARIABLES
    length,     \* number of bytes of the packet
    data,       \* the bytes, indexed from 0
    answered,   \* has the call returned
    result      \* what it returned, 0 before

absVars == <<length, data, answered, result>>

CONSTANTS Bytes, MaxLen

Init ==
    /\ length \in 1 .. MaxLen
    /\ data \in [0 .. length - 1 -> Bytes]
    /\ answered = FALSE
    /\ result = 0

Answer ==
    /\ ~answered
    /\ length >= SeqDiv
    /\ answered' = TRUE
    /\ IsMaxPacking(data, length, result')
    /\ UNCHANGED <<length, data>>

SafeSpec == Init /\ [][Answer]_absVars

LiveSpec == SafeSpec /\ (length >= SeqDiv ~> answered)

=============================================================================
