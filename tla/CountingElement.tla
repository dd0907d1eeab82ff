--------------------------- MODULE CountingElement ---------------------------
(***************************************************************************)
(* What the Click elements promise to the router they are part of: packets *)
(* pass through one at a time, and none is held back for good but those    *)
(* too short for the search.  The sum of a counting element grows with     *)
(* each packet by the largest number of non-overlapping occurrences of the *)
(* packet's prefix.  When the enclave is lost packets go on passing, and   *)
(* what they add to the sums of elements that use it means nothing.        *)
(***************************************************************************)
EXTENDS PrefixPacking

CONSTANTS
    Elements,   \* the elements of the router
    Hashing,    \* those that hash packets and count nothing
    Fallible,   \* those that use the enclave, which can be lost
    None,       \* no element
    Bytes, MaxLen

VARIABLES
    holder,         \* the element that has a packet, None between packets
    length, data,   \* the packet
    sum,            \* of each element
    lost            \* the enclave is lost

tapVars == <<holder, length, data, sum, lost>>

Init ==
    /\ holder = None
    /\ length = 0 /\ data = <<>>
    /\ sum = [e \in Elements |-> 0]
    /\ lost = FALSE

Take(e) ==
    /\ holder = None
    /\ holder' = e
    /\ length' \in 1 .. MaxLen
    /\ data' \in [0 .. length' - 1 -> Bytes]
    /\ UNCHANGED <<sum, lost>>

(* What a packet adds to the sum of its element.                           *)
Adds(e, c) ==
    \/ e \in Hashing /\ c = 0
    \/ e \notin Hashing /\ length >= SeqDiv /\ IsMaxPacking(data, length, c)
    \/ e \in Fallible \ Hashing /\ lost

PassOn ==
    /\ holder # None
    /\ Adds(holder, sum'[holder] - sum[holder])
    /\ sum' = [sum EXCEPT ![holder] = sum'[holder]]
    /\ holder' = None
    /\ length' = 0 /\ data' = <<>>
    /\ UNCHANGED lost

Lose ==
    /\ lost' = TRUE
    /\ UNCHANGED <<holder, length, data, sum>>

Next == (\E e \in Elements : Take(e)) \/ PassOn \/ Lose

SafeSpec == Init /\ [][Next]_tapVars

(* Packets that are long enough for the search are passed on.              *)
LongEnough == holder \in Hashing \/ length >= SeqDiv

Passes == holder # None /\ LongEnough ~> holder = None

=============================================================================
