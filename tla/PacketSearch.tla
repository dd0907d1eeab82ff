---------------------------- MODULE PacketSearch ----------------------------
(***************************************************************************)
(* The packet processing routine of the network function, the only work    *)
(* the enclave does for a packet: ecall_process_packet, and its copy for   *)
(* the build without SGX, call_process_packet_no_sgx_test.  It counts how  *)
(* often the first length/500 bytes of the packet occur in the packet.     *)
(*                                                                         *)
(* One step is one iteration of the while loop.  The packet stays where it *)
(* is (the pointer is [user_check]) and nobody else writes it meanwhile:   *)
(* both callers own the buffer until the call returns.                     *)
(***************************************************************************)
EXTENDS PrefixPacking

CONSTANTS
    Bytes,      \* byte values
    MaxLen,     \* longest packet
    MaxInt      \* largest value of a C int

ASSUME BytesAssumption == Bytes # {}
ASSUME MaxLenAssumption == MaxLen \in Nat \ {0}
ASSUME MaxIntAssumption == MaxInt \in Nat /\ MaxLen <= MaxInt

VARIABLES length, data, pc, index, count

vars == <<length, data, pc, index, count>>

-----------------------------------------------------------------------------

Init ==
    /\ length \in 1 .. MaxLen
    /\ data \in [0 .. length - 1 -> Bytes]
    /\ pc = "scan"
    /\ index = 0
    /\ count = 0

(* A C int that passes its largest value wraps around.                     *)
Increment(c) == IF c = MaxInt THEN -MaxInt - 1 ELSE c + 1

(* The loop of the unused test_process_packet, which stops one early.      *)
ScanningToLast == index < length - SeqLen(length)

Scanning == index <= length - SeqLen(length)

SkipByte ==
    /\ pc = "scan" /\ Scanning
    /\ data[0] # data[index]
    /\ index' = index + 1
    /\ UNCHANGED <<length, data, pc, count>>

(* Two ways to advance wrongly past an occurrence: by half of it, and      *)
(* twice.                                                                  *)
FoundOverlapping ==
    /\ pc = "scan" /\ Scanning
    /\ data[0] = data[index]
    /\ Matches(data, length, index)
    /\ count' = Increment(count)
    /\ index' = index + (SeqLen(length) + 1) \div 2
    /\ UNCHANGED <<length, data, pc>>

FoundSkipping ==
    /\ pc = "scan" /\ Scanning
    /\ data[0] = data[index]
    /\ Matches(data, length, index)
    /\ count' = Increment(count)
    /\ index' = index + 2 * SeqLen(length)
    /\ UNCHANGED <<length, data, pc>>

FoundSequence ==
    /\ pc = "scan" /\ Scanning
    /\ data[0] = data[index]
    /\ Matches(data, length, index)
    /\ count' = Increment(count)
    /\ index' = index + SeqLen(length)
    /\ UNCHANGED <<length, data, pc>>

PartialMatch ==
    /\ pc = "scan" /\ Scanning
    /\ data[0] = data[index]
    /\ ~Matches(data, length, index)
    /\ index' = index + 1
    /\ UNCHANGED <<length, data, pc, count>>

Return ==
    /\ pc = "scan" /\ ~Scanning
    /\ pc' = "done"
    /\ UNCHANGED <<length, data, index, count>>

(* The loop of the two copies of the routine.                              *)
ecall_process_packet == SkipByte \/ FoundSequence \/ PartialMatch \/ Return

Next == ecall_process_packet

Spec == Init /\ [][Next]_vars /\ WF_vars(Next)

-----------------------------------------------------------------------------

(* The type invariant: the loop index, a C int, never leaves the packet by *)
(* more than one position, whatever the packet is.                         *)
TypeOK ==
    /\ length \in 1 .. MaxLen
    /\ data \in [0 .. length - 1 -> Bytes]
    /\ pc \in {"scan", "done"}
    /\ index \in 0 .. length
    /\ count \in -MaxInt - 1 .. MaxInt

(* The loop's invariant on a packet that has a prefix to look for: the     *)
(* greedy scan is optimal so far.  No family of disjoint occurrences that  *)
(* starts before the index is larger than count, and one with count        *)
(* members lies wholly before the index.                                   *)
GreedyOptimal ==
    length >= SeqDiv =>
        /\ \E S \in Packings(data, length) :
              /\ Cardinality(S) = count
              /\ \A p \in S : p + SeqLen(length) <= index
        /\ \A S \in Packings(data, length) :
              (\A p \in S : p < index) => Cardinality(S) <= count

(* The value returned to the caller, 0 before the return.                  *)
resultBar == IF pc = "done" THEN count ELSE 0

Abs == INSTANCE PacketCount WITH answered <- pc = "done", result <- resultBar

(* The routine implements PacketCount: it answers with the largest number  *)
(* of non-overlapping occurrences, and it answers every packet of at least *)
(* SeqDiv bytes.                                                           *)
CountsPrefixes == Abs!LiveSpec

(* protocol_test.py sends a packet of five bytes and waits for the answer  *)
(* of the server, which sends it when the routine has returned.            *)
EveryPacketAnswered == <>(pc = "done")

=============================================================================
