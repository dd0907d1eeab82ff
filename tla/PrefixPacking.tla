---------------------------- MODULE PrefixPacking ----------------------------
(***************************************************************************)
(* The data a packet search is about: a packet of n bytes, the prefix of   *)
(* length n \div SeqDiv the search looks for, the places where it occurs,  *)
(* and the families of occurrences that do not overlap.  Both the loop of  *)
(* the program (PacketSearch) and the specification of what it computes    *)
(* (PacketCount) are stated with these operators.                          *)
(***************************************************************************)
EXTENDS Integers, FiniteSets

CONSTANT SeqDiv     \* The divisor of the code's `length/500'.

ASSUME SeqDivAssumption == SeqDiv \in Nat \ {0}

(***************************************************************************)
(* int sequence_len = ceil((double)(length/500));  the division is one of  *)
(* unsigned integers, so that ceil has nothing left to round up.           *)
(***************************************************************************)
SeqLen(n) == n \div SeqDiv

(* The inner for loop: ptr[i] = data[p + i] for every i < sequence_len.    *)
Matches(d, n, p) == \A i \in 0 .. SeqLen(n) - 1 : d[p + i] = d[i]

(* Every position at which the whole prefix occurs inside the packet.      *)
Occurrences(d, n) == {p \in 0 .. n - SeqLen(n) : Matches(d, n, p)}

(* No two occurrences of length s that start in S share a byte.            *)
Disjoint(S, s) == \A p, q \in S : p < q => p + s <= q

Packings(d, n) == {S \in SUBSET Occurrences(d, n) : Disjoint(S, SeqLen(n))}

(* c is the largest number of occurrences that fit in the packet together. *)
IsMaxPacking(d, n, c) ==
    /\ \E S \in Packings(d, n) : Cardinality(S) = c
    /\ \A S \in Packings(d, n) : Cardinality(S) <= c

=============================================================================
