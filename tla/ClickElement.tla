----------------------------- MODULE ClickElement -----------------------------
(***************************************************************************)
(* The Click elements of one router: BasicElement, which has the enclave   *)
(* search each packet, BasicElementSHA256, which has it hash each packet,  *)
(* and their copies without SGX, which call the routines directly.         *)
(*                                                                         *)
(* A constructor of a class with SGX creates an enclave and stores its id  *)
(* in the one global, global_eid, so that all of them end up calling the   *)
(* enclave of the last.  The router's thread pushes one packet at a time.  *)
(* Enclaves are lost, all at once, when the machine sleeps: the call that  *)
(* is under way then and all later ones fail.  The routine's frame is the  *)
(* state of PacketSearch; hashing (Sha256) is a step.                      *)
(***************************************************************************)
EXTENDS PacketSearch

CONSTANTS
    Elements,       \* the elements of the router
    Hashing,        \* those of a SHA256 class
    Enclaved,       \* those of a class with SGX
    None,           \* no element
    Leftovers,      \* what an unwritten sgx_return may hold
    MaxPackets      \* bound: packets pushed to each element

ASSUME HashingAssumption == Hashing \subseteq Elements
ASSUME ElementsAssumption == IsFiniteSet(Elements) /\ None \notin Elements
ASSUME EnclavedAssumption == Enclaved \subseteq Elements
ASSUME LeftoversAssumption == Leftovers \subseteq Int /\ Leftovers # {}
ASSUME MaxPacketsAssumption == MaxPackets \in Nat

VARIABLES
    state,      \* "construct", "run", or "exit"
    built,      \* the elements whose constructor has returned
    eid,        \* global_eid: number of the enclave, 0 before the first
    live,       \* the enclaves that exist
    holder,     \* the element inside push, None between packets
    packets,    \* count of each element
    sgx_sum     \* of each element

frame == <<length, data, pc, index, count>>
router == <<state, built, eid, live>>
elementVars == <<holder, packets, sgx_sum>>
clickVars == <<frame, router, elementVars>>

NoFrame == length = 0 /\ data = <<>> /\ pc = "done" /\ index = 0 /\ count = 0

-----------------------------------------------------------------------------
(***************************************************************************)
(* Construction, while Click reads the configuration.                      *)
(***************************************************************************)

Built(e) ==
    /\ built' = built \cup {e}
    /\ state' = IF built' = Elements THEN "run" ELSE state

ConstructSgx(e) ==
    /\ e \in Enclaved
    /\ eid' = eid + 1
    /\ live' = live \cup {eid'}
    /\ Built(e)

(* initialize_enclave fails: the constructor ends the process.             *)
ConstructFails(e) ==
    /\ e \in Enclaved
    /\ state' = "exit"
    /\ UNCHANGED <<built, eid, live>>

ConstructNoSgx(e) ==
    /\ e \notin Enclaved
    /\ Built(e)
    /\ UNCHANGED <<eid, live>>

Construct(e) ==
    /\ state = "construct" /\ e \notin built
    /\ ConstructSgx(e) \/ ConstructFails(e) \/ ConstructNoSgx(e)
    /\ UNCHANGED <<frame, elementVars>>

-----------------------------------------------------------------------------
(***************************************************************************)
(* push: count the packet, call the routine, pass the packet on.           *)
(***************************************************************************)

(* The call reaches the routine, and the routine can go on.                *)
Reachable == holder \in Enclaved => eid \in live

(* Frames that keep a local of the last packet: the index and the count.   *)
PushKeepsCount(e) ==
    /\ state = "run" /\ holder = None
    /\ packets[e] < MaxPackets
    /\ holder' = e
    /\ packets' = [packets EXCEPT ![e] = @ + 1]
    /\ length' \in 1 .. MaxLen
    /\ data' \in [0 .. length' - 1 -> Bytes]
    /\ pc' = IF e \in Hashing THEN "done" ELSE "scan"
    /\ index' = 0
    /\ count' = packets[e]
    /\ UNCHANGED <<router, sgx_sum>>

PushKeepsIndex(e) ==
    /\ state = "run" /\ holder = None
    /\ packets[e] < MaxPackets
    /\ holder' = e
    /\ packets' = [packets EXCEPT ![e] = @ + 1]
    /\ length' \in 1 .. MaxLen
    /\ data' \in [0 .. length' - 1 -> Bytes]
    /\ pc' = IF e \in Hashing THEN "done" ELSE "scan"
    /\ index' = MaxLen * packets[e]
    /\ count' = 0
    /\ UNCHANGED <<router, sgx_sum>>

Push(e) ==
    /\ state = "run" /\ holder = None
    /\ packets[e] < MaxPackets
    /\ holder' = e
    /\ packets' = [packets EXCEPT ![e] = @ + 1]
    /\ length' \in 1 .. MaxLen
    /\ data' \in [0 .. length' - 1 -> Bytes]
    /\ pc' = IF e \in Hashing THEN "done" ELSE "scan"
    /\ index' = 0 /\ count' = 0
    /\ UNCHANGED <<router, sgx_sum>>

Run ==
    /\ holder # None /\ Reachable
    /\ ecall_process_packet
    /\ UNCHANGED <<router, elementVars>>

(* The end of push: the value the wrapper returned is added to the sum, by *)
(* the elements that count, and the packet is passed on.                   *)
PassOn(value) ==
    /\ sgx_sum' = IF holder \in Hashing
                    THEN sgx_sum
                    ELSE [sgx_sum EXCEPT ![holder] = @ + value]
    /\ holder' = None
    /\ length' = 0 /\ data' = <<>> /\ pc' = "done" /\ index' = 0 /\ count' = 0
    /\ UNCHANGED <<router, packets>>

Returned == holder # None /\ Reachable /\ pc = "done" /\ PassOn(count)

(* A wrapper that repeats a call until it succeeds.                        *)
FailedRetries ==
    /\ holder # None /\ ~Reachable
    /\ pc' = "scan"
    /\ UNCHANGED <<length, data, index, count, router, elementVars>>

(* The call fails, which the wrapper prints, and sgx_return is unwritten.  *)
Failed ==
    /\ holder # None /\ ~Reachable
    /\ \E value \in Leftovers : PassOn(value)

(* Enclaves are lost.                                                      *)
PowerTransition ==
    /\ live # {}
    /\ live' = {}
    /\ UNCHANGED <<frame, state, built, eid, elementVars>>

-----------------------------------------------------------------------------

ClickInit ==
    /\ state = "construct" /\ built = {} /\ eid = 0 /\ live = {}
    /\ holder = None
    /\ packets = [e \in Elements |-> 0]
    /\ sgx_sum = [e \in Elements |-> 0]
    /\ NoFrame

InPush == Run \/ Returned \/ Failed

ClickNext ==
    \/ \E e \in Elements : Construct(e) \/ Push(e)
    \/ InPush
    \/ PowerTransition

(* The router's thread goes on with a packet it has begun.                 *)
ClickSpec == ClickInit /\ [][ClickNext]_clickVars /\ WF_clickVars(InPush)

-----------------------------------------------------------------------------

(* The type invariant.  Inside a push of a counting element the frame is   *)
(* one of PacketSearch, whatever packets came before it and whichever      *)
(* element they went to, and a router that runs calls the enclave of the   *)
(* constructor that ran last.                                              *)
ClickTypeOK ==
    /\ state \in {"construct", "run", "exit"}
    /\ built \subseteq Elements
    /\ state = "run" => built = Elements
    /\ eid = Cardinality(built \cap Enclaved)
    /\ live \subseteq 1 .. eid
    /\ holder \in Elements \cup {None}
    /\ holder # None => state = "run"
    /\ packets \in [Elements -> 0 .. MaxPackets]
    /\ sgx_sum \in [Elements -> Int]
    /\ IF holder = None THEN NoFrame ELSE TypeOK

(* The elements implement CountingElement: whatever order packets reach    *)
(* them in, and although they share the enclave and its id, each one's sum *)
(* is that of its own packets, for those with SGX until the enclave is     *)
(* lost; a packet is passed on once, after its call, by the element it was *)
(* pushed to.                                                              *)
Tap == INSTANCE CountingElement WITH
    Fallible <- Enclaved, sum <- sgx_sum,
    lost <- state = "run" /\ eid \notin live

CountsUntilLost == Tap!SafeSpec

(* A packet that is long enough for the search is passed on, also when the *)
(* enclave is lost before the call or in the middle of it.                 *)
PacketsPass == Tap!Passes

=============================================================================
