-------------------------- MODULE ClickElementProofs --------------------------
(***************************************************************************)
(* The Click elements, for any number of elements, packets and byte        *)
(* values, any divisor and size of int: the loop's invariant, proved in    *)
(* PacketSearchProofs for one packet, holds inside every push.             *)
(***************************************************************************)
EXTENDS ClickElement, PacketSearchProofs

(* The constants are as the assumptions say.                               *)
LEMMA Constants ==
    /\ None \notin Elements /\ Hashing \subseteq Elements
    /\ Enclaved \subseteq Elements
    /\ Leftovers \subseteq Int /\ MaxPackets \in Nat
    /\ MaxLen \in Nat \ {0} /\ MaxInt \in Nat /\ MaxLen <= MaxInt
BY ElementsAssumption, HashingAssumption, EnclavedAssumption,
   LeftoversAssumption, MaxPacketsAssumption, MaxLenAssumption,
   MaxIntAssumption

(* The elements' constructors: how far they are, and the enclave's id.     *)
BuildInv ==
    /\ state \in {"construct", "run", "exit"}
    /\ built \subseteq Elements
    /\ state = "run" => built = Elements
    /\ eid = Cardinality(built \cap Enclaved)
    /\ live \subseteq 1 .. eid

(* The elements' own variables.                                            *)
ElementInv ==
    /\ holder \in Elements \cup {None}
    /\ holder # None => state = "run"
    /\ packets \in [Elements -> 0 .. MaxPackets]
    /\ sgx_sum \in [Elements -> Int]

(* The frame of the routine: inside a push of a counting element the       *)
(* loop's invariant holds, and a hashed packet is never searched.          *)
FrameInv ==
    /\ holder = None => NoFrame
    /\ holder \in Hashing => TypeOK /\ pc = "done"
    /\ holder \in Elements \ Hashing => ScanInv

ClickInv == BuildInv /\ ElementInv /\ FrameInv

(* A construction adds one element and, with SGX, one enclave.             *)
LEMMA ConstructKeeps ==
    ASSUME ClickInv, NEW e \in Elements, Construct(e)
    PROVE  ClickInv'
<1>1. /\ state = "construct" /\ e \notin built
      /\ UNCHANGED <<length, data, pc, index, count>>
      /\ UNCHANGED <<holder, packets, sgx_sum>>
  BY DEF Construct, frame, elementVars
<1> DEFINE S == built \cap Enclaved
<1>2. IsFiniteSet(S) /\ Cardinality(S) \in Nat
  <2>1. S \subseteq Elements
    BY DEF ClickInv, BuildInv
  <2> QED
    BY <2>1, ElementsAssumption, FS_Subset, FS_CardinalityType
<1>3. Cardinality(S \cup {e}) = Cardinality(S) + 1
  BY <1>1, <1>2, FS_AddElement
<1>4. holder = None
  BY <1>1, Constants DEF ClickInv, ElementInv
<1>5. BuildInv'
  <2>1. BuildInv
    BY DEF ClickInv
  <2>2. CASE ConstructSgx(e)
    <3>1. /\ e \in Enclaved /\ eid' = eid + 1 /\ live' = live \cup {eid'}
          /\ built' = built \cup {e}
          /\ state' = IF built' = Elements THEN "run" ELSE state
      BY <2>2 DEF ConstructSgx, Built
    <3>2. eid = Cardinality(S) /\ eid' = Cardinality(S')
      <4>1. S' = S \cup {e}
        BY <3>1
      <4>2. eid = Cardinality(S)
        BY <2>1 DEF BuildInv
      <4> QED
        BY <1>3, <3>1, <4>1, <4>2
    <3>3. live' \subseteq 1 .. eid'
      <4>1. eid \in Nat /\ live \subseteq 1 .. eid
        BY <1>2, <2>1, <3>2 DEF BuildInv
      <4>2. eid' \in Nat /\ eid' >= 1 /\ eid' >= eid
        BY <3>1, <4>1
      <4>3. \A n \in 1 .. eid : n \in 1 .. eid'
        BY <4>1, <4>2
      <4> QED
        BY <3>1, <4>1, <4>2, <4>3
    <3> QED
      BY <1>1, <2>1, <3>1, <3>2, <3>3 DEF BuildInv
  <2>3. CASE ConstructFails(e)
    BY <2>1, <2>3 DEF BuildInv, ConstructFails
  <2>4. CASE ConstructNoSgx(e)
    <3>1. /\ e \notin Enclaved /\ built' = built \cup {e}
          /\ state' = IF built' = Elements THEN "run" ELSE state
          /\ UNCHANGED <<eid, live>>
      BY <2>4 DEF ConstructNoSgx, Built
    <3>2. built' \cap Enclaved = built \cap Enclaved
      BY <3>1
    <3> QED
      BY <1>1, <2>1, <3>1, <3>2 DEF BuildInv
  <2> QED
    BY <2>2, <2>3, <2>4 DEF Construct
<1>6. ElementInv' /\ FrameInv'
  BY <1>1, <1>4, Constants DEF ClickInv, ElementInv, FrameInv, NoFrame
<1> QED
  BY <1>5, <1>6 DEF ClickInv

(* A push begins with the frame PacketSearch begins with.                  *)
LEMMA PushKeeps ==
    ASSUME ClickInv, NEW e \in Elements, Push(e)
    PROVE  ClickInv'
<1>1. /\ state' = state /\ built' = built /\ eid' = eid /\ live' = live
      /\ sgx_sum' = sgx_sum /\ state = "run" /\ holder' = e
      /\ packets[e] < MaxPackets
      /\ packets' = [packets EXCEPT ![e] = @ + 1]
      /\ length' \in 1 .. MaxLen /\ data' \in [0 .. length' - 1 -> Bytes]
      /\ pc' = IF e \in Hashing THEN "done" ELSE "scan"
      /\ index' = 0 /\ count' = 0
  BY DEF Push, router
<1>2. BuildInv'
  BY <1>1 DEF ClickInv, BuildInv
<1>3. ElementInv'
  BY <1>1, Constants DEF ClickInv, ElementInv
<1>4. CASE e \in Hashing
  <2>1. TypeOK' /\ pc' = "done"
    <3>1. /\ 0 \in 0 .. length' /\ 0 \in -MaxInt - 1 .. MaxInt
      BY <1>1, Constants
    <3> QED
      BY <1>1, <1>4, <3>1 DEF TypeOK
  <2> QED
    BY <1>1, <1>2, <1>3, <1>4, <2>1, Constants DEF ClickInv, FrameInv
<1>5. CASE e \notin Hashing
  <2>1. Init'
    BY <1>1, <1>5 DEF Init
  <2>2. ScanInv'
    BY <2>1, ScanInvInit, PTL
  <2> QED
    BY <1>1, <1>2, <1>3, <1>5, <2>2, Constants DEF ClickInv, FrameInv
<1> QED
  BY <1>4, <1>5

(* The loop keeps its invariant.                                           *)
LEMMA RunKeeps == ClickInv /\ Run => ClickInv'
<1> SUFFICES ASSUME ClickInv, Run PROVE ClickInv'
  OBVIOUS
<1>1. /\ holder # None /\ ecall_process_packet
      /\ UNCHANGED <<state, built, eid, live, holder, packets, sgx_sum>>
  BY DEF Run, router, elementVars
<1>2. BuildInv' /\ ElementInv'
  BY <1>1 DEF ClickInv, BuildInv, ElementInv
<1>3. pc = "scan"
  BY <1>1 DEF ecall_process_packet, SkipByte, FoundSequence, PartialMatch,
              Return
<1>4. holder \in Elements \ Hashing
  BY <1>1, <1>3 DEF ClickInv, ElementInv, FrameInv
<1>5. ScanInv'
  BY <1>1, <1>4, ScanInvStep DEF ClickInv, FrameInv, Next
<1> QED
  BY <1>1, <1>2, <1>4, <1>5, Constants DEF ClickInv, FrameInv

(* The end of push adds a number and drops the frame.                      *)
LEMMA PassOnKeeps ==
    ASSUME ClickInv, holder # None, NEW value \in Int, PassOn(value)
    PROVE  ClickInv'
<1>1. /\ holder' = None
      /\ UNCHANGED <<state, built, eid, live, packets>>
      /\ sgx_sum' = IF holder \in Hashing THEN sgx_sum
                    ELSE [sgx_sum EXCEPT ![holder] = @ + value]
      /\ length' = 0 /\ data' = <<>> /\ pc' = "done"
      /\ index' = 0 /\ count' = 0
  BY DEF PassOn, router
<1>2. BuildInv'
  BY <1>1 DEF ClickInv, BuildInv
<1>3. ElementInv'
  BY <1>1, Constants DEF ClickInv, ElementInv
<1>4. FrameInv'
  BY <1>1, Constants DEF FrameInv, NoFrame
<1> QED
  BY <1>2, <1>3, <1>4 DEF ClickInv

(* The value a push adds is a number.                                      *)
LEMMA CountIsInt == ClickInv /\ holder # None => count \in Int
<1> SUFFICES ASSUME ClickInv, holder # None PROVE count \in Int
  OBVIOUS
<1>1. TypeOK
  BY DEF ClickInv, ElementInv, FrameInv, ScanInv, TypeInv
<1> QED
  BY <1>1, Constants DEF TypeOK

(* Every step keeps the invariant.                                         *)
LEMMA ClickStep == ClickInv /\ [ClickNext]_clickVars => ClickInv'
<1> SUFFICES ASSUME ClickInv, [ClickNext]_clickVars PROVE ClickInv'
  OBVIOUS
<1>1. ASSUME NEW e \in Elements, Construct(e) \/ Push(e) PROVE ClickInv'
  BY <1>1, ConstructKeeps, PushKeeps
<1>2. CASE Run
  BY <1>2, RunKeeps
<1>3. CASE Returned
  BY <1>3, CountIsInt, PassOnKeeps DEF Returned
<1>4. CASE Failed
  BY <1>4, Constants, PassOnKeeps DEF Failed
<1>5. CASE PowerTransition \/ UNCHANGED clickVars
  <2>1. /\ UNCHANGED <<state, built, eid, holder, packets, sgx_sum>>
        /\ UNCHANGED <<length, data, pc, index, count>>
        /\ live' \subseteq live
    BY <1>5 DEF PowerTransition, clickVars, frame, router, elementVars
  <2>2. BuildInv' /\ ElementInv'
    BY <2>1 DEF ClickInv, BuildInv, ElementInv
  <2>3. (TypeOK <=> TypeOK') /\ (ScanInv <=> ScanInv') /\ (NoFrame <=> NoFrame')
    BY <2>1 DEF TypeOK, ScanInv, TypeInv, GreedyOptimal, Scanning, NoFrame
  <2> QED
    BY <2>1, <2>2, <2>3 DEF ClickInv, FrameInv
<1> QED
  BY <1>1, <1>2, <1>3, <1>4, <1>5 DEF ClickNext, InPush

(* It holds when the program starts.                                       *)
LEMMA ClickStart == ClickInit => ClickInv
<1> SUFFICES ASSUME ClickInit PROVE ClickInv
  OBVIOUS
<1>1. Cardinality({}) = 0
  BY FS_EmptySet
<1> QED
  BY <1>1, Constants
     DEF ClickInit, ClickInv, BuildInv, ElementInv, FrameInv

(* Every push has a frame of its own, for any elements and packets.        *)
THEOREM ClickTypeCorrect == ClickSpec => []ClickTypeOK
<1>1. ClickInv => ClickTypeOK
  <2> SUFFICES ASSUME ClickInv PROVE ClickTypeOK
    OBVIOUS
  <2>1. BuildInv /\ ElementInv
    BY DEF ClickInv
  <2>2. IF holder = None THEN NoFrame ELSE TypeOK
    BY DEF ClickInv, ElementInv, FrameInv, ScanInv, TypeInv
  <2> QED
    BY <2>1, <2>2 DEF ClickTypeOK, BuildInv, ElementInv
<1> QED
  BY <1>1, ClickStart, ClickStep, PTL DEF ClickSpec

-----------------------------------------------------------------------------
(***************************************************************************)
(* The elements implement CountingElement.                                 *)
(***************************************************************************)

lostBar == state = "run" /\ eid \notin live

(* A search that has returned and whose call has not failed adds what      *)
(* CountingElement says.                                                   *)
LEMMA ReturnedAdds ==
    ASSUME ClickInv, Returned
    PROVE  Tap!PassOn
<1>1. /\ holder \in Elements /\ holder # None /\ PassOn(count) /\ pc = "done"
      /\ sgx_sum \in [Elements -> Int] /\ count \in Int
  BY CountIsInt DEF Returned, ClickInv, ElementInv
<1>2. /\ sgx_sum' = IF holder \in Hashing THEN sgx_sum
                    ELSE [sgx_sum EXCEPT ![holder] = @ + count]
      /\ holder' = None /\ length' = 0 /\ data' = <<>>
      /\ UNCHANGED <<state, eid, live>>
  BY <1>1 DEF PassOn, router
<1>3. Tap!Adds(holder, sgx_sum'[holder] - sgx_sum[holder])
  <2>1. CASE holder \in Hashing
    BY <1>1, <1>2, <2>1 DEF Tap!Adds
  <2>2. CASE holder \notin Hashing
    <3>1. ScanInv /\ ~Scanning
      BY <1>1, <2>2 DEF ClickInv, FrameInv, ScanInv
    <3>2. length \in Nat /\ SeqDiv \in Nat
      BY <3>1, SeqDivAssumption DEF ScanInv, TypeInv, TypeOK
    <3>3. length >= SeqDiv
      BY <3>1, <3>2, ShortNeverReturns DEF ScanInv
    <3>4. IsMaxPacking(data, length, count)
      BY <3>1, <3>3, ReturnIsMaximal
    <3>5. sgx_sum'[holder] - sgx_sum[holder] = count
      BY <1>1, <1>2, <2>2
    <3>6. Tap!IsMaxPacking(data, length, count)
      BY <3>4 DEF Cardinality, IsMaxPacking, Packings, Occurrences, Disjoint,
                  Matches, SeqLen, Tap!Cardinality, Tap!IsMaxPacking,
                  Tap!Packings, Tap!Occurrences, Tap!Disjoint, Tap!Matches,
                  Tap!SeqLen
    <3> QED
      BY <2>2, <3>3, <3>5, <3>6 DEF Tap!Adds
  <2> QED
    BY <2>1, <2>2
<1>4. sgx_sum' = [sgx_sum EXCEPT ![holder] = sgx_sum'[holder]]
  BY <1>1, <1>2
<1>5. lostBar' = lostBar
  BY <1>2 DEF lostBar
<1> QED
  BY <1>1, <1>2, <1>3, <1>4, <1>5 DEF Tap!PassOn, lostBar

(* A call that fails does so because the enclave is lost.                  *)
LEMMA FailedAdds ==
    ASSUME ClickInv, Failed
    PROVE  Tap!PassOn
<1>1. PICK value \in Int : PassOn(value)
  BY Constants DEF Failed
<1>2. /\ holder \in Enclaved /\ holder # None /\ holder \in Elements
      /\ state = "run" /\ eid \notin live /\ sgx_sum \in [Elements -> Int]
  BY DEF Failed, Reachable, ClickInv, ElementInv
<1>3. /\ sgx_sum' = IF holder \in Hashing THEN sgx_sum
                    ELSE [sgx_sum EXCEPT ![holder] = @ + value]
      /\ holder' = None /\ length' = 0 /\ data' = <<>>
      /\ UNCHANGED <<state, eid, live>>
  BY <1>1 DEF PassOn, router
<1>4. lostBar' = lostBar /\ lostBar
  BY <1>2, <1>3 DEF lostBar
<1>5. sgx_sum' = [sgx_sum EXCEPT ![holder] = sgx_sum'[holder]]
  BY <1>2, <1>3
<1>6. Tap!Adds(holder, sgx_sum'[holder] - sgx_sum[holder])
  BY <1>2, <1>3, <1>4 DEF Tap!Adds, lostBar
<1> QED
  BY <1>2, <1>3, <1>4, <1>5, <1>6 DEF Tap!PassOn, lostBar

(* Every step is one of CountingElement or changes nothing it shows.       *)
LEMMA ClickSimulates ==
    ClickInv /\ [ClickNext]_clickVars => [Tap!Next]_(Tap!tapVars)
<1> SUFFICES ASSUME ClickInv, [ClickNext]_clickVars
             PROVE  [Tap!Next]_(Tap!tapVars)
  OBVIOUS
<1>1. ASSUME UNCHANGED <<holder, length, data, sgx_sum>>, lostBar => lostBar'
      PROVE  [Tap!Next]_(Tap!tapVars)
  <2>1. lostBar \in BOOLEAN /\ lostBar' \in BOOLEAN
    BY Zenon DEF lostBar
  <2>2. CASE lostBar' = lostBar
    BY <1>1, <2>2 DEF Tap!tapVars, lostBar
  <2>3. CASE lostBar' # lostBar
    <3>1. lostBar' = TRUE
      BY <1>1, <2>1, <2>3
    <3> QED
      BY <1>1, <3>1 DEF Tap!Next, Tap!Lose, lostBar
  <2> QED
    BY <2>2, <2>3
<1>2. ASSUME NEW e \in Elements, Construct(e) PROVE [Tap!Next]_(Tap!tapVars)
  <2>1. UNCHANGED <<holder, length, data, sgx_sum>> /\ ~lostBar
    BY <1>2 DEF Construct, frame, elementVars, lostBar
  <2> QED
    BY <1>1, <2>1
<1>3. ASSUME NEW e \in Elements, Push(e) PROVE Tap!Next
  <2>1. lostBar' = lostBar
    BY <1>3 DEF Push, router, lostBar
  <2> QED
    BY <1>3, <2>1 DEF Push, Tap!Next, Tap!Take, lostBar
<1>4. CASE Run
  <2>1. UNCHANGED <<state, eid, live, holder, sgx_sum, length, data>>
    BY <1>4 DEF Run, router, elementVars, ecall_process_packet, SkipByte,
                FoundSequence, PartialMatch, Return
  <2>2. lostBar' = lostBar
    BY <2>1 DEF lostBar
  <2> QED
    BY <1>1, <2>1, <2>2
<1>5. CASE Returned \/ Failed
  BY <1>5, ReturnedAdds, FailedAdds DEF Tap!Next
<1>6. CASE PowerTransition
  <2>1. /\ UNCHANGED <<holder, length, data, sgx_sum, state, eid>>
        /\ live' = {}
    BY <1>6 DEF PowerTransition, frame, elementVars
  <2>2. lostBar => lostBar'
    BY <2>1 DEF lostBar
  <2> QED
    BY <1>1, <2>1, <2>2
<1>7. CASE UNCHANGED clickVars
  <2>1. UNCHANGED <<holder, length, data, sgx_sum, state, eid, live>>
    BY <1>7 DEF clickVars, frame, router, elementVars
  <2>2. lostBar' = lostBar
    BY <2>1 DEF lostBar
  <2> QED
    BY <1>1, <2>1, <2>2
<1> QED
  BY <1>2, <1>3, <1>4, <1>5, <1>6, <1>7 DEF ClickNext, InPush

(* The elements implement CountingElement: as long as the enclave lives,   *)
(* each sum is the number of non-overlapping prefixes of the packets that  *)
(* passed its element, and without SGX it always is.                       *)
THEOREM ImplementsCountingElement == ClickSpec => CountsUntilLost
<1>1. ClickInit => Tap!Init
  BY DEF ClickInit, Tap!Init, NoFrame
<1> QED
  BY <1>1, ClickStart, ClickStep, ClickSimulates, PTL
     DEF ClickSpec, CountsUntilLost, Tap!SafeSpec

(* Inside a push of a packet that is long enough for the search every step *)
(* passes the packet on, returns from the routine or advances its index,   *)
(* which ClickTypeCorrect keeps inside the packet: a push takes at most    *)
(* length + 2 steps, whenever the enclave is lost.                         *)
THEOREM PushAdvances ==
    ClickSpec => [][InPush /\ Tap!LongEnough
                      => \/ holder' = None
                         \/ pc = "scan" /\ (pc' = "done" \/ index < index')]_clickVars
<1> DEFINE Advance == \/ holder' = None
                      \/ pc = "scan" /\ (pc' = "done" \/ index < index')
<1>1. ASSUME ClickInv, InPush, Tap!LongEnough PROVE Advance
  <2>1. CASE Returned \/ Failed
    BY <2>1 DEF Returned, Failed, PassOn
  <2>2. CASE Run
    <3>1. pc = "scan" /\ ecall_process_packet
      BY <2>2 DEF Run, ecall_process_packet, SkipByte, FoundSequence,
                  PartialMatch, Return
    <3>2. holder \in Elements \ Hashing
      BY <1>1, <2>2, <3>1 DEF ClickInv, ElementInv, FrameInv, Run
    <3>3. /\ length \in Nat /\ index \in Nat /\ length >= SeqDiv
      BY <1>1, <3>2
         DEF ClickInv, FrameInv, ScanInv, TypeInv, TypeOK, Tap!LongEnough
    <3>4. SeqLen(length) \in Nat /\ SeqLen(length) >= 1
      BY <3>3, SeqLenBounds
    <3>5. pc' = "done" \/ index < index'
      BY <3>1, <3>3, <3>4
         DEF ecall_process_packet, SkipByte, FoundSequence, PartialMatch, Return
    <3> QED
      BY <3>1, <3>5
  <2> QED
    BY <1>1, <2>1, <2>2 DEF InPush
<1>2. ClickInv => [InPush /\ Tap!LongEnough => Advance]_clickVars
  BY <1>1
<1> QED
  BY <1>2, ClickStart, ClickStep, PTL DEF ClickSpec

=============================================================================
