------------------------- MODULE PacketSearchProofs -------------------------
(***************************************************************************)
(* The packet search counts what PacketCount promises, for packets of      *)
(* every length over every set of bytes and for every divisor.             *)
(***************************************************************************)
EXTENDS PacketSearch, FiniteSetTheorems, TLAPS

(* The prefix is no longer than the packet, and it is empty exactly when   *)
(* the packet has fewer than SeqDiv bytes.                                 *)
LEMMA SeqLenBounds ==
    ASSUME NEW n \in Nat
    PROVE  /\ SeqLen(n) \in Nat
           /\ SeqLen(n) <= n
           /\ n >= SeqDiv => SeqLen(n) >= 1
           /\ n < SeqDiv => SeqLen(n) = 0
BY SeqDivAssumption DEF SeqLen

-----------------------------------------------------------------------------

(* The loop of a packet without a prefix never moves.                      *)
TypeInv ==
    /\ TypeOK
    /\ SeqLen(length) = 0 => index = 0

(* The typing of the loop's variables is inductive with it.                *)
LEMMA TypeInvStep == TypeInv /\ [Next]_vars => TypeInv'
<1> SUFFICES ASSUME TypeInv, [Next]_vars PROVE TypeInv'
  OBVIOUS
<1> USE MaxLenAssumption, MaxIntAssumption DEF TypeInv, TypeOK
<1> DEFINE s == SeqLen(length)
<1>1. /\ length \in Nat /\ s \in Nat /\ s <= length
      /\ index \in Nat /\ MaxInt \in Nat /\ length >= 1
  BY SeqLenBounds
<1>2. index < length \/ ~Scanning
  BY <1>1 DEF Scanning
<1>3. CASE SkipByte
  <2>1. s # 0
    BY <1>3 DEF SkipByte
  <2> QED
    BY <1>1, <1>2, <1>3, <2>1 DEF SkipByte, Scanning
<1>4. CASE FoundSequence
  <2>1. count' \in -MaxInt - 1 .. MaxInt
    BY <1>1, <1>4 DEF FoundSequence, Increment
  <2>2. index' \in 0 .. length
    BY <1>1, <1>4 DEF FoundSequence, Scanning
  <2> QED
    BY <1>1, <1>4, <2>1, <2>2 DEF FoundSequence
<1>5. CASE PartialMatch
  <2>1. s # 0
    BY <1>5 DEF PartialMatch, Matches
  <2> QED
    BY <1>1, <1>2, <1>5, <2>1 DEF PartialMatch, Scanning
<1>6. CASE Return
  BY <1>6 DEF Return
<1>7. CASE UNCHANGED vars
  BY <1>7 DEF vars
<1> QED
  BY <1>3, <1>4, <1>5, <1>6, <1>7 DEF Next, ecall_process_packet

(* The loop keeps its index inside the packet, or just past its end.       *)
THEOREM TypeCorrect == Spec => []TypeOK
<1>1. Init => TypeInv
  BY MaxLenAssumption, MaxIntAssumption DEF Init, TypeInv, TypeOK
<1>2. TypeInv => TypeOK
  BY DEF TypeInv
<1> QED
  BY <1>1, <1>2, TypeInvStep, PTL DEF Spec

-----------------------------------------------------------------------------
(***************************************************************************)
(* Families of disjoint occurrences.                                       *)
(***************************************************************************)

(* They are finite sets of positions of the packet.                        *)
LEMMA PackingFinite ==
    ASSUME NEW n \in Nat, NEW d, NEW S \in Packings(d, n)
    PROVE  /\ S \subseteq 0 .. n
           /\ IsFiniteSet(S)
           /\ Cardinality(S) \in Nat
<1>1. S \subseteq 0 .. n
  BY SeqLenBounds DEF Packings, Occurrences
<1>2. IsFiniteSet(0 .. n)
  BY FS_Interval
<1> QED
  BY <1>1, <1>2, FS_Subset, FS_CardinalityType

(* A part of a packing is a packing.                                       *)
LEMMA SubPacking ==
    ASSUME NEW n, NEW d, NEW S \in Packings(d, n), NEW T \in SUBSET S
    PROVE  T \in Packings(d, n)
BY DEF Packings, Disjoint

(* A packing that ends before an occurrence can be extended with it.       *)
LEMMA ExtendPacking ==
    ASSUME NEW n \in Nat, n >= SeqDiv, NEW d, NEW S \in Packings(d, n),
           NEW i \in Occurrences(d, n),
           \A p \in S : p + SeqLen(n) <= i
    PROVE  /\ S \cup {i} \in Packings(d, n)
           /\ Cardinality(S \cup {i}) = Cardinality(S) + 1
<1> DEFINE s == SeqLen(n)
<1>1. s \in Nat /\ s >= 1 /\ i \in Nat /\ S \subseteq Nat
  BY SeqLenBounds, PackingFinite DEF Occurrences
<1> HIDE DEF s
<1>2. \A p \in S : p + s <= i
  BY DEF s
<1>3. i \notin S
  BY <1>1, <1>2
<1>4. Disjoint(S \cup {i}, s)
  <2> SUFFICES ASSUME NEW p \in S \cup {i}, NEW q \in S \cup {i}, p < q
               PROVE  p + s <= q
    BY DEF Disjoint
  <2>1. CASE p \in S /\ q \in S
    BY <2>1 DEF Packings, Disjoint, s
  <2>2. CASE q = i
    BY <1>1, <1>2, <2>2
  <2>3. CASE p = i /\ q \in S
    BY <1>1, <1>2, <2>3
  <2> QED
    BY <2>1, <2>2, <2>3
<1> QED
  BY <1>3, <1>4, PackingFinite, FS_AddElement DEF Packings, s

(* At most one member of a packing starts inside a window of the length of *)
(* the prefix.                                                             *)
LEMMA WindowHoldsOne ==
    ASSUME NEW n \in Nat, NEW d, NEW S \in Packings(d, n), NEW i \in Nat,
           \A p \in S : p < i + SeqLen(n)
    PROVE  Cardinality(S) <= Cardinality({p \in S : p < i}) + 1
<1> DEFINE s == SeqLen(n)
           T == {p \in S : p < i}
<1>1. s \in Nat /\ S \subseteq Nat /\ IsFiniteSet(S)
  BY SeqLenBounds, PackingFinite
<1>2. IsFiniteSet(T) /\ Cardinality(T) \in Nat
  BY <1>1, FS_Subset, FS_CardinalityType
<1>3. CASE S = T
  BY <1>2, <1>3
<1>4. CASE S # T
  <2>1. PICK q \in S : q \notin T
    BY <1>4
  <2>2. \A p \in S : p \notin T => p = q
    <3> SUFFICES ASSUME NEW p \in S, p \notin T PROVE p = q
      OBVIOUS
    <3>1. /\ p \in Nat /\ q \in Nat
          /\ p >= i /\ q >= i /\ p < i + s /\ q < i + s
      BY <1>1, <2>1
    <3>2. (p < q => p + s <= q) /\ (q < p => q + s <= p)
      BY <2>1 DEF Packings, Disjoint
    <3> QED
      BY <1>1, <3>1, <3>2
  <2>3. S = T \cup {q}
    BY <2>1, <2>2
  <2>4. Cardinality(T \cup {q}) = Cardinality(T) + 1
    BY <1>2, <2>1, FS_AddElement
  <2> HIDE DEF T
  <2>5. Cardinality(S) = Cardinality(T) + 1
    BY <2>3, <2>4
  <2> QED
    BY <1>2, <2>5 DEF T
<1> QED
  BY <1>3, <1>4

-----------------------------------------------------------------------------
(***************************************************************************)
(* The greedy scan.  Its invariant is GreedyOptimal, with what keeps count *)
(* away from the largest C int and what a return has seen.                 *)
(***************************************************************************)

ScanInv ==
    /\ TypeInv
    /\ GreedyOptimal
    /\ length >= SeqDiv => count \in 0 .. index
    /\ pc = "done" => ~Scanning

LEMMA ScanInvInit == Init => ScanInv
<1> SUFFICES ASSUME Init PROVE ScanInv
  OBVIOUS
<1>1. TypeInv /\ count \in 0 .. index /\ pc = "scan"
  BY MaxLenAssumption, MaxIntAssumption DEF Init, TypeInv, TypeOK
<1>2. length \in Nat
  BY <1>1 DEF TypeInv, TypeOK
<1>3. {} \in Packings(data, length)
  BY DEF Packings, Disjoint
<1>4. Cardinality({}) = 0
  BY FS_EmptySet
<1>5. ASSUME NEW S \in Packings(data, length), \A p \in S : p < 0
      PROVE  Cardinality(S) <= 0
  <2>1. S = {}
    BY <1>2, <1>5, PackingFinite
  <2> QED
    BY <1>4, <2>1
<1>6. GreedyOptimal
  BY <1>3, <1>4, <1>5 DEF GreedyOptimal, Init
<1> QED
  BY <1>1, <1>6 DEF ScanInv

(* Moving past a position where the prefix does not occur loses nothing.   *)
LEMMA SkipKeepsOptimal ==
    ASSUME ScanInv, index \notin Occurrences(data, length),
           index' = index + 1, UNCHANGED <<length, data, count>>
    PROVE  GreedyOptimal'
<1>1. length \in Nat /\ index \in Nat
  BY DEF ScanInv, TypeInv, TypeOK
<1> SUFFICES ASSUME length >= SeqDiv
    PROVE  /\ \E S \in Packings(data, length) :
                 /\ Cardinality(S) = count
                 /\ \A p \in S : p + SeqLen(length) <= index + 1
           /\ \A S \in Packings(data, length) :
                 (\A p \in S : p < index + 1) => Cardinality(S) <= count
  BY DEF GreedyOptimal
<1>2. SeqLen(length) \in Nat
  BY <1>1, SeqLenBounds
<1>3. PICK W \in Packings(data, length) :
           /\ Cardinality(W) = count
           /\ \A p \in W : p + SeqLen(length) <= index
  BY DEF ScanInv, GreedyOptimal
<1>4. \A p \in W : p + SeqLen(length) <= index + 1
  BY <1>1, <1>2, <1>3, PackingFinite
<1>5. ASSUME NEW S \in Packings(data, length), \A p \in S : p < index + 1
      PROVE  Cardinality(S) <= count
  <2>1. S \subseteq Nat /\ index \notin S
    <3>1. S \subseteq 0 .. length
      BY <1>1, PackingFinite
    <3>2. S \subseteq Occurrences(data, length)
      BY DEF Packings
    <3> QED
      BY <1>1, <3>1, <3>2
  <2>2. \A p \in S : p < index
    BY <1>1, <1>5, <2>1
  <2> QED
    BY <2>2 DEF ScanInv, GreedyOptimal
<1> QED
  BY <1>3, <1>4, <1>5

(* Taking the occurrence at the index is optimal.                          *)
LEMMA FoundKeepsOptimal ==
    ASSUME ScanInv, index \in Occurrences(data, length), length >= SeqDiv,
           index' = index + SeqLen(length), count' = count + 1,
           UNCHANGED <<length, data>>
    PROVE  GreedyOptimal'
<1>1. /\ length \in Nat /\ index \in Nat /\ count \in Int
      /\ SeqLen(length) \in Nat
  BY MaxIntAssumption, SeqLenBounds DEF ScanInv, TypeInv, TypeOK
<1> SUFFICES
        /\ \E S \in Packings(data, length) :
              /\ Cardinality(S) = count + 1
              /\ \A p \in S : p + SeqLen(length) <= index + SeqLen(length)
        /\ \A S \in Packings(data, length) :
              (\A p \in S : p < index + SeqLen(length))
                 => Cardinality(S) <= count + 1
  BY DEF GreedyOptimal
<1>2. PICK W \in Packings(data, length) :
           /\ Cardinality(W) = count
           /\ \A p \in W : p + SeqLen(length) <= index
  BY DEF ScanInv, GreedyOptimal
<1>3. /\ W \cup {index} \in Packings(data, length)
      /\ Cardinality(W \cup {index}) = count + 1
  BY <1>1, <1>2, ExtendPacking
<1>4. \A p \in W \cup {index} : p + SeqLen(length) <= index + SeqLen(length)
  BY <1>1, <1>2, PackingFinite
<1>5. ASSUME NEW S \in Packings(data, length),
             \A p \in S : p < index + SeqLen(length)
      PROVE  Cardinality(S) <= count + 1
  <2> DEFINE T == {p \in S : p < index}
  <2>1. T \in Packings(data, length) /\ \A p \in T : p < index
    BY SubPacking
  <2>2. Cardinality(T) \in Nat /\ Cardinality(S) \in Nat
    BY <1>1, <2>1, PackingFinite
  <2>3. Cardinality(T) <= count
    BY <2>1 DEF ScanInv, GreedyOptimal
  <2>4. Cardinality(S) <= Cardinality(T) + 1
    BY <1>1, <1>5, WindowHoldsOne
  <2> HIDE DEF T
  <2> QED
    BY <1>1, <2>2, <2>3, <2>4
<1> QED
  BY <1>3, <1>4, <1>5

LEMMA ScanInvStep == ScanInv /\ [Next]_vars => ScanInv'
<1> SUFFICES ASSUME ScanInv, [Next]_vars PROVE ScanInv'
  OBVIOUS
<1>1. TypeInv /\ TypeInv'
  BY TypeInvStep DEF ScanInv
<1>2. /\ length \in Nat /\ index \in Nat /\ count \in Int
      /\ length <= MaxInt /\ MaxInt \in Nat
      /\ SeqLen(length) \in Nat
      /\ length >= SeqDiv => SeqLen(length) >= 1
      /\ length >= SeqDiv => count \in 0 .. index
  <2>1. /\ length \in Nat /\ index \in Nat /\ count \in Int
        /\ length <= MaxInt /\ MaxInt \in Nat
    BY <1>1, MaxLenAssumption, MaxIntAssumption DEF TypeInv, TypeOK
  <2>2. /\ SeqLen(length) \in Nat
        /\ length >= SeqDiv => SeqLen(length) >= 1
    BY <2>1, SeqLenBounds
  <2> QED
    BY <2>1, <2>2 DEF ScanInv
<1>3. CASE SkipByte
  <2>1. length < SeqDiv \/ index \notin Occurrences(data, length)
    <3> SUFFICES ASSUME length >= SeqDiv, index \in Occurrences(data, length)
                 PROVE  FALSE
      BY <1>2, SeqDivAssumption
    <3>1. data[index + 0] = data[0]
      BY <1>2 DEF Occurrences, Matches
    <3> QED
      BY <1>2, <1>3, <3>1 DEF SkipByte
  <2>2. GreedyOptimal'
    <3>1. CASE length < SeqDiv
      BY <1>2, <1>3, <3>1, SeqDivAssumption DEF SkipByte, GreedyOptimal
    <3>2. CASE index \notin Occurrences(data, length)
      BY <1>3, <3>2, SkipKeepsOptimal DEF SkipByte
    <3> QED
      BY <2>1, <3>1, <3>2
  <2> QED
    BY <1>1, <1>2, <1>3, <2>2 DEF ScanInv, SkipByte
<1>4. CASE FoundSequence
  <2>1. index \in Occurrences(data, length)
    BY <1>2, <1>4 DEF FoundSequence, Scanning, Occurrences
  <2>2. length >= SeqDiv => count < MaxInt
    BY <1>2, <1>4 DEF FoundSequence, Scanning
  <2>3. length >= SeqDiv => count' = count + 1
    BY <1>2, <1>4, <2>2 DEF FoundSequence, Increment
  <2>4. GreedyOptimal'
    <3>1. CASE length >= SeqDiv
      BY <1>4, <2>1, <2>3, <3>1, FoundKeepsOptimal DEF FoundSequence
    <3>2. CASE ~(length >= SeqDiv)
      BY <1>4, <3>2 DEF FoundSequence, GreedyOptimal
    <3> QED
      BY <3>1, <3>2
  <2> QED
    BY <1>1, <1>2, <1>4, <2>3, <2>4 DEF ScanInv, FoundSequence
<1>5. CASE PartialMatch
  <2>1. index \notin Occurrences(data, length)
    BY <1>5 DEF PartialMatch, Occurrences
  <2>2. GreedyOptimal'
    BY <1>5, <2>1, SkipKeepsOptimal DEF PartialMatch
  <2> QED
    BY <1>1, <1>2, <1>5, <2>2 DEF ScanInv, PartialMatch
<1>6. CASE Return
  BY <1>1, <1>6 DEF ScanInv, Return, GreedyOptimal, Scanning
<1>7. CASE UNCHANGED vars
  BY <1>1, <1>7 DEF ScanInv, vars, GreedyOptimal, Scanning
<1> QED
  BY <1>3, <1>4, <1>5, <1>6, <1>7 DEF Next, ecall_process_packet

(* At every iteration the scan has counted as many disjoint occurrences as *)
(* any choice of them could: taking each one as soon as it is met is       *)
(* optimal.                                                                *)
THEOREM GreedyIsOptimal == Spec => []GreedyOptimal
<1>1. ScanInv => GreedyOptimal
  BY DEF ScanInv
<1> QED
  BY <1>1, ScanInvInit, ScanInvStep, PTL DEF Spec

-----------------------------------------------------------------------------
(***************************************************************************)
(* The loop implements PacketCount.                                        *)
(***************************************************************************)

(* A short packet is never left: the scan stands still at position zero.   *)
LEMMA ShortNeverReturns ==
    ASSUME TypeInv, length < SeqDiv
    PROVE  Scanning
<1>1. length \in Nat /\ SeqLen(length) = 0 /\ index = 0
  BY SeqLenBounds DEF TypeInv, TypeOK
<1> QED
  BY <1>1 DEF Scanning

(* What the loop returns is the largest packing of the whole packet.       *)
LEMMA ReturnIsMaximal ==
    ASSUME ScanInv, ~Scanning, length >= SeqDiv
    PROVE  IsMaxPacking(data, length, count)
<1>1. length \in Nat /\ index \in Nat /\ SeqLen(length) \in Nat
  BY SeqLenBounds DEF ScanInv, TypeInv, TypeOK
<1>2. ASSUME NEW S \in Packings(data, length)
      PROVE  \A p \in S : p < index
  BY <1>1 DEF Packings, Occurrences, Scanning
<1> QED
  BY <1>2 DEF ScanInv, GreedyOptimal, IsMaxPacking

(* Every step of the loop is the one answer of PacketCount or changes      *)
(* nothing that PacketCount shows: the routine answers at most once, only  *)
(* packets of at least SeqDiv bytes, and with the largest number of        *)
(* non-overlapping occurrences of the prefix.                              *)
THEOREM ImplementsPacketCount == Spec => Abs!SafeSpec
<1>1. Init => Abs!Init
  BY DEF Init, Abs!Init, resultBar
<1>2. ScanInv /\ [Next]_vars => [Abs!Answer]_(Abs!absVars)
  <2> SUFFICES ASSUME ScanInv, [Next]_vars
               PROVE  [Abs!Answer]_(Abs!absVars)
    OBVIOUS
  <2>1. CASE Return
    <3>1. length >= SeqDiv
      <4>1. length \in Nat
        BY DEF ScanInv, TypeInv, TypeOK
      <4> QED
        BY <2>1, <4>1, ShortNeverReturns, SeqDivAssumption DEF Return, ScanInv
    <3>2. IsMaxPacking(data, length, count)
      BY <2>1, <3>1, ReturnIsMaximal DEF Return
    <3>3. Abs!IsMaxPacking(data, length, count)
      BY <3>2 DEF Cardinality, Abs!Cardinality, IsMaxPacking, Packings, Occurrences, Matches, Disjoint,
                  SeqLen, Abs!IsMaxPacking, Abs!Packings, Abs!Occurrences,
                  Abs!Matches, Abs!Disjoint, Abs!SeqLen
    <3>4. resultBar' = count
      BY <2>1 DEF Return, resultBar
    <3> QED
      BY <2>1, <3>1, <3>3, <3>4 DEF Return, Abs!Answer
  <2>2. CASE SkipByte \/ FoundSequence \/ PartialMatch
    BY <2>2 DEF SkipByte, FoundSequence, PartialMatch, Abs!absVars, resultBar
  <2>3. CASE UNCHANGED vars
    BY <2>3 DEF vars, Abs!absVars, resultBar
  <2> QED
    BY <2>1, <2>2, <2>3 DEF Next, ecall_process_packet
<1> QED
  BY <1>1, <1>2, ScanInvInit, ScanInvStep, PTL DEF Spec, Abs!SafeSpec

-----------------------------------------------------------------------------
(***************************************************************************)
(* Which calls come to an end.  That the loop goes on is the fairness of   *)
(* Spec; how far it can go is proved here.                                 *)
(***************************************************************************)

(* Every iteration on a packet that has a prefix advances the index, which *)
(* by TypeCorrect never passes the end of the packet: the loop of          *)
(* ecall_process_packet returns after at most length + 1 iterations, and   *)
(* the fairness of the run is all that its termination needs.              *)
THEOREM LoopAdvances ==
    Spec => [][length >= SeqDiv => index < index' \/ pc' = "done"]_vars
<1>1. ASSUME TypeInv, [Next]_vars
      PROVE  [length >= SeqDiv => index < index' \/ pc' = "done"]_vars
  <2> SUFFICES ASSUME length >= SeqDiv, Next PROVE index < index' \/ pc' = "done"
    BY <1>1
  <2>1. index \in Nat /\ SeqLen(length) \in Nat /\ SeqLen(length) >= 1
    BY <1>1, SeqLenBounds DEF TypeInv, TypeOK
  <2>2. CASE SkipByte \/ PartialMatch
    BY <2>1, <2>2 DEF SkipByte, PartialMatch
  <2>3. CASE FoundSequence
    BY <2>1, <2>3 DEF FoundSequence
  <2>4. CASE Return
    BY <2>4 DEF Return
  <2> QED
    BY <2>2, <2>3, <2>4 DEF Next, ecall_process_packet
<1>2. Init => TypeInv
  BY MaxLenAssumption, MaxIntAssumption DEF Init, TypeInv, TypeOK
<1> QED
  BY <1>1, <1>2, TypeInvStep, PTL DEF Spec

(* A packet of fewer than SeqDiv bytes is never answered, whatever its     *)
(* bytes and whatever the divisor: the prefix of length zero matches and   *)
(* the loop of ecall_process_packet moves by nothing.                      *)
THEOREM ShortNeverAnswered == Spec => [](length < SeqDiv => pc = "scan" /\ index = 0)
<1> DEFINE Hangs == length < SeqDiv => pc = "scan" /\ index = 0
<1>1. Init => TypeInv /\ Hangs
  BY MaxLenAssumption, MaxIntAssumption DEF Init, TypeInv, TypeOK
<1>2. TypeInv /\ Hangs /\ [Next]_vars => Hangs'
  <2> SUFFICES ASSUME TypeInv, Hangs, [Next]_vars, length' < SeqDiv
               PROVE  pc' = "scan" /\ index' = 0
    OBVIOUS
  <2>1. length' = length
    BY DEF Next, ecall_process_packet, SkipByte, FoundSequence, PartialMatch,
           Return, vars
  <2>2. length \in Nat /\ SeqLen(length) = 0 /\ pc = "scan" /\ index = 0
    BY <2>1, SeqLenBounds DEF TypeInv, TypeOK
  <2>3. Scanning
    BY <2>1, ShortNeverReturns
  <2>4. CASE SkipByte
    BY <2>2, <2>4 DEF SkipByte
  <2>5. CASE FoundSequence
    BY <2>2, <2>5 DEF FoundSequence
  <2>6. CASE PartialMatch
    BY <2>2, <2>6 DEF PartialMatch, Matches
  <2>7. CASE Return
    BY <2>3, <2>7 DEF Return
  <2>8. CASE UNCHANGED vars
    BY <2>2, <2>8 DEF vars
  <2> QED
    BY <2>4, <2>5, <2>6, <2>7, <2>8 DEF Next, ecall_process_packet
<1> HIDE DEF Hangs
<1>3. Spec => []Hangs
  BY <1>1, <1>2, TypeInvStep, PTL DEF Spec
<1> QED
  BY <1>3 DEF Hangs

=============================================================================
