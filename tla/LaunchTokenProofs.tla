-------------------------- MODULE LaunchTokenProofs --------------------------
(***************************************************************************)
(* No launch token is lost while nothing fails, and what faults have left  *)
(* is repaired, for any number of programs started in one directory.       *)
(***************************************************************************)
EXTENDS LaunchToken, TLAPS

(* A program that will save a token, if the file holds no good one.        *)
WillSave(p) ==
    \/ pc[p] \in {"create", "read", "reopen", "write"}
    \/ pc[p] = "launch" /\ token[p] # "good" /\ fp[p] # "null"

(* What a program knows of its stream and its token.                       *)
ProcessInv ==
    \A p \in Processes :
        /\ pc[p] = "read" => fp[p] # "null"
        /\ pc[p] \in {"reopen", "write"} => token[p] = "good"

Inv == TypeOK /\ ProcessInv

(* Since a time at which there had been n faults and s starts and nobody   *)
(* was starting: while nothing fails, every program has its stream, and    *)
(* somebody owes the file a token.                                         *)
RepairInv(n, s) ==
    \/ faults > n
    \/ /\ faults = n /\ starts >= s
       /\ \A p \in Processes : pc[p] = "launch" => fp[p] # "null"
       /\ starts > s /\ file # "good" => \E p \in Processes : WillSave(p)

LEMMA InitInv == Init => Inv
BY BoundsAssumption DEF Init, Inv, TypeOK, ProcessInv, Contents, Tokens

(* Types and streams.                                                      *)
LEMMA TypeStep ==
    ASSUME Inv, NEW p \in Processes, initialize_enclave(p) \/ Crash(p)
    PROVE  TypeOK' /\ ProcessInv'
<1> USE BoundsAssumption DEF Inv, TypeOK, ProcessInv, Contents, Tokens, Goto,
                            Fault, NoFault
<1>1. CASE Open(p)
  BY <1>1 DEF Open
<1>2. CASE Create(p)
  BY <1>2 DEF Create
<1>3. CASE Read(p)
  BY <1>3 DEF Read
<1>4. CASE Launch(p)
  BY <1>4 DEF Launch, MustSave
<1>5. CASE LaunchFails(p)
  BY <1>5 DEF LaunchFails, Return
<1>6. CASE Reopen(p)
  BY <1>6 DEF Reopen, Return
<1>7. CASE Write(p)
  BY <1>7 DEF Write, Return
<1>8. CASE Crash(p)
  BY <1>8 DEF Crash
<1> QED
  BY <1>1, <1>2, <1>3, <1>4, <1>5, <1>6, <1>7, <1>8 DEF initialize_enclave

LEMMA InvStep == Inv /\ [Next]_vars => Inv'
<1> SUFFICES ASSUME Inv, [Next]_vars PROVE Inv'
  OBVIOUS
<1>1. CASE UNCHANGED vars
  BY <1>1 DEF vars, Inv, TypeOK, ProcessInv
<1>2. ASSUME NEW p \in Processes, initialize_enclave(p) \/ Crash(p) PROVE Inv'
  BY <1>2, TypeStep DEF Inv
<1> QED
  BY <1>1, <1>2 DEF Next

(* A torn token file never reaches sgx_create_enclave.                     *)
THEOREM TypeCorrect == Spec => []TypeOK
<1>1. Inv => TypeOK
  BY DEF Inv
<1> QED
  BY <1>1, InitInv, InvStep, PTL DEF Spec

-----------------------------------------------------------------------------
(***************************************************************************)
(* The debt.                                                               *)
(***************************************************************************)

(* Faults and starts are only counted up.                                  *)
LEMMA CountsUp ==
    ASSUME Inv, NEW p \in Processes, initialize_enclave(p) \/ Crash(p)
    PROVE  /\ faults \in Nat /\ starts \in Nat
           /\ faults' = faults \/ faults' = faults + 1
           /\ starts' = starts \/ starts' = starts + 1
           /\ faults' = faults => ~Fault
<1>1. faults \in Nat /\ starts \in Nat
  BY BoundsAssumption DEF Inv, TypeOK
<1> QED
  BY <1>1 DEF initialize_enclave, Open, Create, Read, Launch, LaunchFails,
              Reopen, Write, Return, Crash, Fault, NoFault

(* While nothing fails, a program keeps its stream until it saves.         *)
LEMMA StreamStep ==
    ASSUME Inv, NEW p \in Processes, initialize_enclave(p), ~Fault,
           \A q \in Processes : pc[q] = "launch" => fp[q] # "null"
    PROVE  (\A q \in Processes : pc[q] = "launch" => fp[q] # "null")'
<1>1. /\ pc \in [Processes -> {"idle", "create", "read", "launch", "reopen", "write"}]
      /\ fp \in [Processes -> {"null", "rb", "wb"}]
  BY DEF Inv, TypeOK
<1> USE <1>1 DEF Goto
<1>2. CASE Open(p) \/ Create(p)
  BY <1>2 DEF Open, Create
<1>3. CASE Read(p)
  BY <1>3 DEF Read, Inv, ProcessInv
<1>4. CASE Launch(p)
  BY <1>4 DEF Launch
<1>5. CASE Reopen(p) \/ Write(p) \/ LaunchFails(p)
  BY <1>5 DEF Reopen, Write, LaunchFails, Return
<1> QED
  BY <1>2, <1>3, <1>4, <1>5 DEF initialize_enclave

(* A program that pays the debt does so with a good token, and one that    *)
(* leaves it to others has found a good token or leaves one that owes.     *)
LEMMA OwedStep ==
    ASSUME Inv, NEW p \in Processes, initialize_enclave(p), ~Fault,
           \A q \in Processes : pc[q] = "launch" => fp[q] # "null",
           starts' = starts /\ file # "good" => \E q \in Processes : WillSave(q),
           file' # "good"
    PROVE  \E q \in Processes : WillSave(q)'
<1>0. /\ starts \in Nat
      /\ pc \in [Processes -> {"idle", "create", "read", "launch", "reopen", "write"}]
      /\ fp \in [Processes -> {"null", "rb", "wb"}]
      /\ token \in [Processes -> Tokens]
  BY BoundsAssumption DEF Inv, TypeOK
<1> USE <1>0 DEF Goto
<1>3. CASE Open(p)
  BY <1>3 DEF Open, WillSave
<1>4. CASE Create(p)
  BY <1>4 DEF Create, WillSave
<1>5. CASE Read(p)
  <2>1. fp[p] # "null" /\ file # "good"
    BY <1>5 DEF Read, Inv, ProcessInv
  <2>2. token'[p] # "good" /\ fp'[p] # "null" /\ pc'[p] = "launch"
    BY <1>5, <2>1 DEF Read
  <2> QED
    BY <2>2 DEF WillSave
<1>6. CASE Launch(p)
  <2>1. file # "good" /\ starts' = starts
    BY <1>6 DEF Launch
  <2>2. PICK q \in Processes : WillSave(q)
    BY <2>1
  <2>3. CASE q = p
    BY <1>6, <2>2, <2>3 DEF Launch, WillSave, MustSave
  <2>4. CASE q # p
    <3>1. pc'[q] = pc[q] /\ token'[q] = token[q] /\ fp'[q] = fp[q]
      BY <1>6, <2>4 DEF Launch
    <3> QED
      BY <2>2, <3>1 DEF WillSave
  <2> QED
    BY <2>3, <2>4
<1>7. CASE Reopen(p)
  BY <1>7 DEF Reopen, WillSave
<1>8. CASE Write(p)
  BY <1>8 DEF Write, Inv, ProcessInv
<1>9. CASE LaunchFails(p)
  BY <1>9 DEF LaunchFails
<1> QED
  BY <1>3, <1>4, <1>5, <1>6, <1>7, <1>8, <1>9 DEF initialize_enclave

LEMMA RepairStep ==
    ASSUME NEW n \in Nat, NEW s \in Nat, Inv, RepairInv(n, s), [Next]_vars
    PROVE  RepairInv(n, s)'
<1>1. CASE UNCHANGED vars
  BY <1>1 DEF vars, RepairInv, WillSave
<1>2. ASSUME NEW p \in Processes, initialize_enclave(p) \/ Crash(p)
      PROVE  RepairInv(n, s)'
  <2>1. /\ faults \in Nat /\ starts \in Nat
        /\ faults' = faults \/ faults' = faults + 1
        /\ starts' = starts \/ starts' = starts + 1
        /\ faults' = faults => ~Fault
    BY <1>2, CountsUp
  <2>2. CASE faults' > n
    BY <2>2 DEF RepairInv
  <2>3. CASE faults' = faults /\ faults = n
    <3>1. initialize_enclave(p) /\ ~Fault
      BY <1>2, <2>1, <2>3 DEF Crash
    <3>2. \A q \in Processes : pc[q] = "launch" => fp[q] # "null"
      BY <2>1, <2>3 DEF RepairInv
    <3>3. (\A q \in Processes : pc[q] = "launch" => fp[q] # "null")'
      BY <3>1, <3>2, StreamStep
    <3>4. starts >= s /\ starts' >= s
      BY <2>1, <2>3 DEF RepairInv
    <3>5. ASSUME starts' > s, file' # "good"
          PROVE  \E q \in Processes : WillSave(q)'
      <4>1. starts' = starts /\ file # "good" => \E q \in Processes : WillSave(q)
        BY <2>1, <2>3, <3>5 DEF RepairInv
      <4> QED
        BY <3>1, <3>2, <3>5, <4>1, OwedStep
    <3> QED
      BY <2>3, <3>3, <3>4, <3>5 DEF RepairInv
  <2> QED
    BY <2>1, <2>2, <2>3 DEF RepairInv
<1> QED
  BY <1>1, <1>2 DEF Next

(* While nothing fails, programs that start at once in one directory leave *)
(* a good token behind, although they truncate each other's files.         *)
THEOREM TokenSaved == Spec => []GoodTokenSaved
<1>1. Init => RepairInv(0, 0)
  BY DEF Init, RepairInv
<1>2. Inv /\ RepairInv(0, 0) /\ [Next]_vars => RepairInv(0, 0)'
  BY RepairStep
<1>3. RepairInv(0, 0) => GoodTokenSaved
  BY DEF RepairInv, WillSave, GoodTokenSaved, Quiet
<1> QED
  BY <1>1, <1>2, <1>3, InitInv, InvStep, PTL DEF Spec

(* Whatever faults have left in the file, the programs that start after    *)
(* the last of them repair it, for any number of faults and starts before. *)
THEOREM TokenRepaired == Spec => RepairsToken
<1> SUFFICES ASSUME NEW n \in 0 .. MaxFaults, NEW s \in 0 .. MaxStarts
             PROVE  Spec => [](Quiet /\ faults = n /\ starts = s
                        => [](Quiet /\ faults = n /\ starts > s => file = "good"))
  BY DEF RepairsToken
<1> DEFINE R == RepairInv(n, s)
           From == Quiet /\ faults = n /\ starts = s
           Good == Quiet /\ faults = n /\ starts > s => file = "good"
<1>1. n \in Nat /\ s \in Nat
  BY BoundsAssumption
<1>2. From => R
  BY <1>1 DEF RepairInv, Quiet
<1>3. Inv /\ R /\ [Next]_vars => R'
  BY <1>1, RepairStep
<1>4. R => Good
  BY <1>1 DEF RepairInv, WillSave, Quiet
<1> HIDE DEF R, From, Good
<1>5. Spec => [](From => []Good)
  BY <1>2, <1>3, <1>4, InitInv, InvStep, PTL DEF Spec
<1> QED
  BY <1>5 DEF From, Good

-----------------------------------------------------------------------------

(* Since a time at which there had been n faults, nobody was starting and  *)
(* a good token was saved: while nothing fails every program reads it.     *)
StayInv(n) ==
    \/ faults > n
    \/ /\ faults = n /\ file = "good"
       /\ \A p \in Processes :
             /\ pc[p] \in {"idle", "read", "launch"}
             /\ pc[p] = "read" => fp[p] = "rb"
             /\ pc[p] = "launch" => token[p] = "good"

LEMMA StayStep ==
    ASSUME NEW n \in Nat, Inv, StayInv(n), [Next]_vars PROVE StayInv(n)'
<1>1. CASE UNCHANGED vars
  BY <1>1 DEF vars, StayInv
<1>2. ASSUME NEW p \in Processes, initialize_enclave(p) \/ Crash(p)
      PROVE  StayInv(n)'
  <2>1. /\ faults \in Nat
        /\ faults' = faults \/ faults' = faults + 1
        /\ faults' = faults => ~Fault
    BY <1>2, CountsUp
  <2>2. CASE faults' > n
    BY <2>2 DEF StayInv
  <2>3. CASE faults' = faults /\ faults = n
    <3>1. initialize_enclave(p) /\ ~Fault
      BY <1>2, <2>1, <2>3 DEF Crash
    <3>2. /\ file = "good"
          /\ \A q \in Processes :
                /\ pc[q] \in {"idle", "read", "launch"}
                /\ pc[q] = "read" => fp[q] = "rb"
                /\ pc[q] = "launch" => token[q] = "good"
      BY <2>1, <2>3 DEF StayInv
    <3>3. /\ pc \in [Processes -> {"idle", "create", "read", "launch", "reopen", "write"}]
          /\ fp \in [Processes -> {"null", "rb", "wb"}]
          /\ token \in [Processes -> Tokens]
      BY DEF Inv, TypeOK
    <3>4. CASE Open(p)
      BY <2>3, <3>1, <3>2, <3>3, <3>4 DEF Open, Goto, StayInv
    <3>5. CASE Read(p)
      BY <2>3, <3>2, <3>3, <3>5 DEF Read, Goto, StayInv
    <3>6. CASE Launch(p)
      BY <2>3, <3>2, <3>3, <3>6 DEF Launch, MustSave, Goto, StayInv
    <3>7. CASE Create(p) \/ Reopen(p) \/ Write(p) \/ LaunchFails(p)
      BY <3>1, <3>2, <3>7 DEF Create, Reopen, Write, LaunchFails
    <3> QED
      BY <3>1, <3>4, <3>5, <3>6, <3>7 DEF initialize_enclave
  <2> QED
    BY <2>1, <2>2, <2>3 DEF StayInv
<1> QED
  BY <1>1, <1>2 DEF Next

(* A good token in the file is read and never truncated while nothing      *)
(* fails, by any number of programs that start at the same time.           *)
THEOREM TokenStays == Spec => SavedTokenStays
<1> SUFFICES ASSUME NEW n \in 0 .. MaxFaults
             PROVE  Spec => [](Quiet /\ faults = n /\ file = "good"
                                 => [](faults = n => file = "good"))
  BY DEF SavedTokenStays
<1> DEFINE R == StayInv(n)
           From == Quiet /\ faults = n /\ file = "good"
           Good == faults = n => file = "good"
<1>1. n \in Nat
  BY BoundsAssumption
<1>2. From => R
  BY <1>1 DEF StayInv, Quiet
<1>3. Inv /\ R /\ [Next]_vars => R'
  BY <1>1, StayStep
<1>4. R => Good
  BY <1>1 DEF StayInv
<1> HIDE DEF R, From, Good
<1>5. Spec => [](From => []Good)
  BY <1>2, <1>3, <1>4, InitInv, InvStep, PTL DEF Spec
<1> QED
  BY <1>5 DEF From, Good

=============================================================================
