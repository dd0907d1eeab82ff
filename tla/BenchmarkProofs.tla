---------------------------- MODULE BenchmarkProofs ----------------------------
(***************************************************************************)
(* What the benchmark has measured when it prints a time, for any number   *)
(* of rounds.                                                              *)
(***************************************************************************)
EXTENDS Benchmark, TLAPS

(* Where main has not begun a piece of work.                               *)
Before(m) ==
    CASE m = "no-sgx" -> {"init", "stress"}
      [] m = "sgx" -> {"init", "stress", "ecall_stress"}
      [] m = "no-sgx memory" -> {"init", "stress", "ecall_stress", "malloc"}
      [] m = "sgx memory" -> {"init", "stress", "ecall_stress", "malloc", "sha"}

(* Nothing is done or printed of a piece of work that has not begun; the   *)
(* first loop counts its work; the second counts its calls, which are work *)
(* as long as the enclave runs.                                            *)
NotBegun ==
    \A m \in Measures : pc \in Before(m) => work[m] = 0 /\ m \notin printed

Loops ==
    /\ pc = "sha" => work["no-sgx memory"] = i /\ "no-sgx memory" \notin printed
    /\ pc = "ecall_sha" => /\ work["sgx memory"] <= i
                           /\ enclave = "running" => work["sgx memory"] = i
                           /\ "sgx memory" \notin printed

Inv == TypeOK /\ NotBegun /\ Loops /\ MeasuresUnlessLost

(* The pieces of work.                                                     *)
LEMMA FourMeasures ==
    /\ "no-sgx" \in Measures /\ "sgx" \in Measures
    /\ "no-sgx memory" \in Measures /\ "sgx memory" \in Measures
    /\ Before("no-sgx") = {"init", "stress"}
    /\ Before("sgx") = {"init", "stress", "ecall_stress"}
    /\ Before("no-sgx memory") = {"init", "stress", "ecall_stress", "malloc"}
    /\ Before("sgx memory")
           = {"init", "stress", "ecall_stress", "malloc", "sha"}
BY DEF Measures, Before

(* How much the whole of each is.                                          *)
LEMMA WholeMeasures ==
    /\ Whole("no-sgx") = 1 /\ Whole("sgx") = 1
    /\ Whole("no-sgx memory") = Rounds /\ Whole("sgx memory") = Rounds
BY DEF Whole

(* What the types say of the numbers.                                      *)
LEMMA Types ==
    ASSUME TypeOK
    PROVE  /\ i \in 0 .. Rounds
           /\ work \in [Measures -> 0 .. Rounds]
           /\ \A m \in Measures : work[m] \in 0 .. Rounds
BY DEF TypeOK

(* A piece of work that is done grows by one, and no other.                *)
LEMMA DoneWork ==
    ASSUME NEW m \in Measures, work \in [Measures -> 0 .. Rounds],
           work[m] \in 0 .. Rounds, work[m] < Rounds, Done(m)
    PROVE  /\ work' \in [Measures -> 0 .. Rounds]
           /\ work'[m] = work[m] + 1
           /\ \A o \in Measures : o # m => work'[o] = work[o]
BY RoundsAssumption DEF Done

(* Nothing is done or printed initially.                                   *)
LEMMA InvInit == Init => Inv
<1> SUFFICES ASSUME Init PROVE Inv
  OBVIOUS
<1>1. TypeOK
  <2>1. /\ i \in 0 .. Rounds
        /\ work \in [Measures -> 0 .. Rounds]
    BY RoundsAssumption DEF Init
  <2>2. /\ pc \in Stopped \cup {"init", "stress", "ecall_stress", "malloc",
                               "sha", "ecall_sha", "destroy"}
        /\ printed \subseteq Measures
    BY DEF Init
  <2>3. /\ ret \in {"unset", "success", "error"}
        /\ enclave \in {"none", "running", "lost"}
    BY DEF Init
  <2>4. pc \in {"malloc", "sha", "ecall_sha", "destroy"} => ret = "success"
    BY DEF Init
  <2> QED
    BY <2>1, <2>2, <2>3, <2>4 DEF TypeOK
<1>2. NotBegun
  BY DEF Init, NotBegun
<1>3. Loops
  BY DEF Init, Loops
<1>4. MeasuresUnlessLost
  BY DEF Init, MeasuresUnlessLost
<1> QED
  BY <1>1, <1>2, <1>3, <1>4 DEF Inv

(* The steps that do a piece of work do it when it is not yet whole.       *)
LEMMA StressWork ==
    ASSUME TypeOK, NotBegun, Loops, stress
    PROVE  /\ work' \in [Measures -> 0 .. Rounds]
           /\ work'["no-sgx"] = work["no-sgx"] + 1
           /\ \A o \in Measures : o # "no-sgx" => work'[o] = work[o]
<1>1. pc = "stress" /\ Done("no-sgx")
  BY DEF stress
<1>2. work["no-sgx"] = 0
  BY <1>1, FourMeasures DEF NotBegun
<1>3. work["no-sgx"] < Rounds
  BY <1>2, RoundsAssumption
<1> QED
  BY <1>1, <1>3, Types, DoneWork, FourMeasures

LEMMA EcallStressWork ==
    ASSUME TypeOK, NotBegun, Loops, ecall_stress, enclave = "running"
    PROVE  /\ work' \in [Measures -> 0 .. Rounds]
           /\ work'["sgx"] = work["sgx"] + 1
           /\ \A o \in Measures : o # "sgx" => work'[o] = work[o]
<1>1. pc = "ecall_stress" /\ Done("sgx")
  BY DEF ecall_stress
<1>2. work["sgx"] = 0
  BY <1>1, FourMeasures DEF NotBegun
<1>3. work["sgx"] < Rounds
  BY <1>2, RoundsAssumption
<1> QED
  BY <1>1, <1>3, Types, DoneWork, FourMeasures

LEMMA ShaWork ==
    ASSUME TypeOK, NotBegun, Loops, Sha
    PROVE  /\ work' \in [Measures -> 0 .. Rounds]
           /\ work'["no-sgx memory"] = work["no-sgx memory"] + 1
           /\ \A o \in Measures : o # "no-sgx memory" => work'[o] = work[o]
<1>1. pc = "sha" /\ i < Rounds /\ Done("no-sgx memory")
  BY DEF Sha
<1>2. work["no-sgx memory"] = i
  BY <1>1 DEF Loops
<1>3. work["no-sgx memory"] < Rounds
  BY <1>1, <1>2
<1> QED
  BY <1>1, <1>3, Types, DoneWork, FourMeasures

LEMMA EcallShaWork ==
    ASSUME TypeOK, NotBegun, Loops, ecall_sha, enclave = "running"
    PROVE  /\ work' \in [Measures -> 0 .. Rounds]
           /\ work'["sgx memory"] = work["sgx memory"] + 1
           /\ \A o \in Measures : o # "sgx memory" => work'[o] = work[o]
<1>1. pc = "ecall_sha" /\ i < Rounds /\ Done("sgx memory")
  BY DEF ecall_sha
<1>2. work["sgx memory"] = i
  BY <1>1 DEF Loops
<1>3. work["sgx memory"] < Rounds
  BY <1>1, <1>2
<1> QED
  BY <1>1, <1>3, Types, DoneWork, FourMeasures

(* Every step keeps the types.                                             *)
LEMMA TypeStep == ASSUME TypeOK, NotBegun, Loops, [Next]_vars PROVE TypeOK'
<1>1. CASE initialize_enclave
  <2>1. pc' \in Stopped \cup {"init", "stress", "ecall_stress", "malloc",
                             "sha", "ecall_sha", "destroy"}
    BY <1>1 DEF TypeOK, Stopped, initialize_enclave
  <2>2. i' \in 0 .. Rounds
    BY <1>1 DEF TypeOK, initialize_enclave
  <2>3. /\ ret' \in {"unset", "success", "error"}
        /\ enclave' \in {"none", "running", "lost"}
    BY <1>1 DEF TypeOK, initialize_enclave
  <2>4. pc' \in {"malloc", "sha", "ecall_sha", "destroy"} => ret' = "success"
    BY <1>1 DEF TypeOK, initialize_enclave
  <2>5. work' \in [Measures -> 0 .. Rounds]
    BY <1>1, Types DEF initialize_enclave
  <2>6. printed' \subseteq Measures
    BY <1>1, FourMeasures DEF TypeOK, initialize_enclave
  <2> QED
    BY <2>1, <2>2, <2>3, <2>4, <2>5, <2>6 DEF TypeOK
<1>2. CASE stress
  <2>1. pc' \in Stopped \cup {"init", "stress", "ecall_stress", "malloc",
                             "sha", "ecall_sha", "destroy"}
    BY <1>2 DEF TypeOK, Stopped, stress
  <2>2. i' \in 0 .. Rounds
    BY <1>2 DEF TypeOK, stress
  <2>3. /\ ret' \in {"unset", "success", "error"}
        /\ enclave' \in {"none", "running", "lost"}
    BY <1>2 DEF TypeOK, stress
  <2>4. pc' \in {"malloc", "sha", "ecall_sha", "destroy"} => ret' = "success"
    BY <1>2 DEF TypeOK, stress
  <2>5. work' \in [Measures -> 0 .. Rounds]
    BY <1>2, StressWork
  <2>6. printed' \subseteq Measures
    BY <1>2, FourMeasures DEF TypeOK, stress, Report
  <2> QED
    BY <2>1, <2>2, <2>3, <2>4, <2>5, <2>6 DEF TypeOK
<1>3. CASE ecall_stress
  <2>1. pc' \in Stopped \cup {"init", "stress", "ecall_stress", "malloc",
                             "sha", "ecall_sha", "destroy"}
    BY <1>3 DEF TypeOK, Stopped, ecall_stress
  <2>2. i' \in 0 .. Rounds
    BY <1>3 DEF TypeOK, ecall_stress
  <2>3. /\ ret' \in {"unset", "success", "error"}
        /\ enclave' \in {"none", "running", "lost"}
    BY <1>3 DEF TypeOK, ecall_stress
  <2>4. pc' \in {"malloc", "sha", "ecall_sha", "destroy"} => ret' = "success"
    BY <1>3 DEF TypeOK, ecall_stress
  <2>5. work' \in [Measures -> 0 .. Rounds]
    <3>1. CASE enclave = "running"
      BY <1>3, <3>1, EcallStressWork
    <3>2. CASE enclave # "running"
      BY <1>3, <3>2, Types DEF ecall_stress
    <3> QED
      BY <3>1, <3>2
  <2>6. printed' \subseteq Measures
    BY <1>3, FourMeasures DEF TypeOK, ecall_stress, Report
  <2> QED
    BY <2>1, <2>2, <2>3, <2>4, <2>5, <2>6 DEF TypeOK
<1>4. CASE Malloc
  <2>1. pc' \in Stopped \cup {"init", "stress", "ecall_stress", "malloc",
                             "sha", "ecall_sha", "destroy"}
    BY <1>4 DEF TypeOK, Stopped, Malloc
  <2>2. i' \in 0 .. Rounds
    <3>1. i' = 0 \/ i' = i
      BY <1>4 DEF Malloc
    <3> QED
      BY <3>1, Types, RoundsAssumption
  <2>3. /\ ret' \in {"unset", "success", "error"}
        /\ enclave' \in {"none", "running", "lost"}
    BY <1>4 DEF TypeOK, Malloc
  <2>4. pc' \in {"malloc", "sha", "ecall_sha", "destroy"} => ret' = "success"
    BY <1>4 DEF TypeOK, Malloc
  <2>5. work' \in [Measures -> 0 .. Rounds]
    BY <1>4, Types DEF Malloc
  <2>6. printed' \subseteq Measures
    BY <1>4, FourMeasures DEF TypeOK, Malloc
  <2> QED
    BY <2>1, <2>2, <2>3, <2>4, <2>5, <2>6 DEF TypeOK
<1>5. CASE Sha
  <2>1. pc' \in Stopped \cup {"init", "stress", "ecall_stress", "malloc",
                             "sha", "ecall_sha", "destroy"}
    BY <1>5 DEF TypeOK, Stopped, Sha
  <2>2. i' \in 0 .. Rounds
    <3>1. i < Rounds /\ i' = i + 1
      BY <1>5 DEF Sha
    <3> QED
      BY <3>1, Types, RoundsAssumption
  <2>3. /\ ret' \in {"unset", "success", "error"}
        /\ enclave' \in {"none", "running", "lost"}
    BY <1>5 DEF TypeOK, Sha
  <2>4. pc' \in {"malloc", "sha", "ecall_sha", "destroy"} => ret' = "success"
    BY <1>5 DEF TypeOK, Sha
  <2>5. work' \in [Measures -> 0 .. Rounds]
    BY <1>5, ShaWork
  <2>6. printed' \subseteq Measures
    BY <1>5, FourMeasures DEF TypeOK, Sha
  <2> QED
    BY <2>1, <2>2, <2>3, <2>4, <2>5, <2>6 DEF TypeOK
<1>6. CASE ShaEnds
  <2>1. pc' \in Stopped \cup {"init", "stress", "ecall_stress", "malloc",
                             "sha", "ecall_sha", "destroy"}
    BY <1>6 DEF TypeOK, Stopped, ShaEnds
  <2>2. i' \in 0 .. Rounds
    <3>1. i' = 0
      BY <1>6 DEF ShaEnds
    <3> QED
      BY <3>1, RoundsAssumption
  <2>3. /\ ret' \in {"unset", "success", "error"}
        /\ enclave' \in {"none", "running", "lost"}
    BY <1>6 DEF TypeOK, ShaEnds
  <2>4. pc' \in {"malloc", "sha", "ecall_sha", "destroy"} => ret' = "success"
    BY <1>6 DEF TypeOK, ShaEnds
  <2>5. work' \in [Measures -> 0 .. Rounds]
    BY <1>6, Types DEF ShaEnds
  <2>6. printed' \subseteq Measures
    BY <1>6, FourMeasures DEF TypeOK, ShaEnds, Report
  <2> QED
    BY <2>1, <2>2, <2>3, <2>4, <2>5, <2>6 DEF TypeOK
<1>7. CASE ecall_sha
  <2>1. pc' \in Stopped \cup {"init", "stress", "ecall_stress", "malloc",
                             "sha", "ecall_sha", "destroy"}
    BY <1>7 DEF TypeOK, Stopped, ecall_sha
  <2>2. i' \in 0 .. Rounds
    <3>1. i < Rounds /\ i' = i + 1
      BY <1>7 DEF ecall_sha
    <3> QED
      BY <3>1, Types, RoundsAssumption
  <2>3. /\ ret' \in {"unset", "success", "error"}
        /\ enclave' \in {"none", "running", "lost"}
    BY <1>7 DEF TypeOK, ecall_sha
  <2>4. pc' \in {"malloc", "sha", "ecall_sha", "destroy"} => ret' = "success"
    BY <1>7 DEF TypeOK, ecall_sha
  <2>5. work' \in [Measures -> 0 .. Rounds]
    <3>1. CASE enclave = "running"
      BY <1>7, <3>1, EcallShaWork
    <3>2. CASE enclave # "running"
      BY <1>7, <3>2, Types DEF ecall_sha
    <3> QED
      BY <3>1, <3>2
  <2>6. printed' \subseteq Measures
    BY <1>7, FourMeasures DEF TypeOK, ecall_sha
  <2> QED
    BY <2>1, <2>2, <2>3, <2>4, <2>5, <2>6 DEF TypeOK
<1>8. CASE EcallShaEnds
  <2>1. pc' \in Stopped \cup {"init", "stress", "ecall_stress", "malloc",
                             "sha", "ecall_sha", "destroy"}
    BY <1>8 DEF TypeOK, Stopped, EcallShaEnds
  <2>2. i' \in 0 .. Rounds
    BY <1>8 DEF TypeOK, EcallShaEnds
  <2>3. /\ ret' \in {"unset", "success", "error"}
        /\ enclave' \in {"none", "running", "lost"}
    BY <1>8 DEF TypeOK, EcallShaEnds
  <2>4. pc' \in {"malloc", "sha", "ecall_sha", "destroy"} => ret' = "success"
    BY <1>8 DEF TypeOK, EcallShaEnds
  <2>5. work' \in [Measures -> 0 .. Rounds]
    BY <1>8, Types DEF EcallShaEnds
  <2>6. printed' \subseteq Measures
    BY <1>8, FourMeasures DEF TypeOK, EcallShaEnds, Report
  <2> QED
    BY <2>1, <2>2, <2>3, <2>4, <2>5, <2>6 DEF TypeOK
<1>9. CASE sgx_destroy_enclave
  <2>1. pc' \in Stopped \cup {"init", "stress", "ecall_stress", "malloc",
                             "sha", "ecall_sha", "destroy"}
    BY <1>9 DEF TypeOK, Stopped, sgx_destroy_enclave
  <2>2. i' \in 0 .. Rounds
    BY <1>9 DEF TypeOK, sgx_destroy_enclave
  <2>3. /\ ret' \in {"unset", "success", "error"}
        /\ enclave' \in {"none", "running", "lost"}
    BY <1>9 DEF TypeOK, sgx_destroy_enclave
  <2>4. pc' \in {"malloc", "sha", "ecall_sha", "destroy"} => ret' = "success"
    BY <1>9 DEF TypeOK, sgx_destroy_enclave
  <2>5. work' \in [Measures -> 0 .. Rounds]
    BY <1>9, Types DEF sgx_destroy_enclave
  <2>6. printed' \subseteq Measures
    BY <1>9, FourMeasures DEF TypeOK, sgx_destroy_enclave
  <2> QED
    BY <2>1, <2>2, <2>3, <2>4, <2>5, <2>6 DEF TypeOK
<1>10. CASE PowerTransition
  <2>1. pc' \in Stopped \cup {"init", "stress", "ecall_stress", "malloc",
                             "sha", "ecall_sha", "destroy"}
    BY <1>10 DEF TypeOK, Stopped, PowerTransition
  <2>2. i' \in 0 .. Rounds
    BY <1>10 DEF TypeOK, PowerTransition
  <2>3. /\ ret' \in {"unset", "success", "error"}
        /\ enclave' \in {"none", "running", "lost"}
    BY <1>10 DEF TypeOK, PowerTransition
  <2>4. pc' \in {"malloc", "sha", "ecall_sha", "destroy"} => ret' = "success"
    BY <1>10 DEF TypeOK, PowerTransition
  <2>5. work' \in [Measures -> 0 .. Rounds]
    BY <1>10, Types DEF PowerTransition
  <2>6. printed' \subseteq Measures
    BY <1>10, FourMeasures DEF TypeOK, PowerTransition
  <2> QED
    BY <2>1, <2>2, <2>3, <2>4, <2>5, <2>6 DEF TypeOK
<1>11. CASE UNCHANGED vars
  <2>1. pc' \in Stopped \cup {"init", "stress", "ecall_stress", "malloc",
                             "sha", "ecall_sha", "destroy"}
    BY <1>11 DEF TypeOK, Stopped, vars
  <2>2. i' \in 0 .. Rounds
    BY <1>11 DEF TypeOK, vars
  <2>3. /\ ret' \in {"unset", "success", "error"}
        /\ enclave' \in {"none", "running", "lost"}
    BY <1>11 DEF TypeOK, vars
  <2>4. pc' \in {"malloc", "sha", "ecall_sha", "destroy"} => ret' = "success"
    BY <1>11 DEF TypeOK, vars
  <2>5. work' \in [Measures -> 0 .. Rounds]
    BY <1>11, Types DEF vars
  <2>6. printed' \subseteq Measures
    BY <1>11, FourMeasures DEF TypeOK, vars
  <2> QED
    BY <2>1, <2>2, <2>3, <2>4, <2>5, <2>6 DEF TypeOK
<1> QED
  BY <1>1, <1>2, <1>3, <1>4, <1>5, <1>6, <1>7, <1>8, <1>9, <1>10, <1>11
     DEF Next, main

(* Every step keeps account of what has not begun.                         *)
LEMMA NotBegunStep == ASSUME TypeOK, NotBegun, Loops, [Next]_vars PROVE NotBegun'
<1> SUFFICES ASSUME NEW m \in Measures, pc' \in Before(m)
             PROVE  work'[m] = 0 /\ m \notin printed'
  BY DEF NotBegun
<1> DEFINE Old == pc \in Before(m) => work[m] = 0 /\ m \notin printed
<1>0. Old /\ m \in {"no-sgx", "sgx", "no-sgx memory", "sgx memory"}
  BY DEF NotBegun, Measures
<1>1. CASE initialize_enclave
  BY <1>0, <1>1, FourMeasures DEF initialize_enclave
<1>2. CASE stress
  BY <1>0, <1>2, StressWork, FourMeasures DEF stress, Report
<1>3. CASE ecall_stress
  <2>1. CASE enclave = "running"
    <3>1. pc = "ecall_stress" /\ pc' = "malloc" /\ printed' = printed \cup {"sgx"}
      BY <1>3, <2>1 DEF ecall_stress, Report
    <3>2. m # "sgx" /\ pc \in Before(m)
      BY <1>0, <3>1, FourMeasures
    <3>3. work'[m] = work[m]
      BY <1>3, <2>1, <3>2, EcallStressWork
    <3> QED
      BY <1>0, <3>1, <3>2, <3>3
  <2>2. CASE enclave # "running"
    BY <1>0, <1>3, <2>2, FourMeasures DEF ecall_stress
  <2> QED
    BY <2>1, <2>2
<1>4. CASE Malloc
  BY <1>0, <1>4, FourMeasures DEF Malloc
<1>5. CASE Sha
  <2>1. pc = "sha" /\ pc' = "sha" /\ printed' = printed
    BY <1>5 DEF Sha
  <2>2. m # "no-sgx memory" /\ pc \in Before(m)
    BY <1>0, <2>1, FourMeasures
  <2>3. work'[m] = work[m]
    BY <1>5, <2>2, ShaWork
  <2> QED
    BY <1>0, <2>1, <2>2, <2>3
<1>6. CASE ShaEnds
  <2>1. pc' \notin {"init", "stress", "ecall_stress", "malloc", "sha"}
    BY <1>6 DEF ShaEnds
  <2> QED
    BY <1>0, <2>1, FourMeasures
<1>7. CASE ecall_sha
  <2>1. pc' \notin {"init", "stress", "ecall_stress", "malloc", "sha"}
    BY <1>7 DEF ecall_sha
  <2> QED
    BY <1>0, <2>1, FourMeasures
<1>8. CASE EcallShaEnds
  <2>1. pc' \notin {"init", "stress", "ecall_stress", "malloc", "sha"}
    BY <1>8 DEF EcallShaEnds
  <2> QED
    BY <1>0, <2>1, FourMeasures
<1>9. CASE sgx_destroy_enclave
  <2>1. pc' \notin {"init", "stress", "ecall_stress", "malloc", "sha"}
    BY <1>9 DEF sgx_destroy_enclave
  <2> QED
    BY <1>0, <2>1, FourMeasures
<1>10. CASE PowerTransition
  <2>1. UNCHANGED <<pc, work, printed>>
    BY <1>10 DEF PowerTransition
  <2> QED
    BY <1>0, <2>1
<1>11. CASE UNCHANGED vars
  BY <1>0, <1>11, FourMeasures DEF vars
<1> QED
  BY <1>1, <1>2, <1>3, <1>4, <1>5, <1>6, <1>7, <1>8, <1>9, <1>10, <1>11
     DEF Next, main

(* Counting a call, whether it did its work or not.                        *)
LEMMA Counting ==
    ASSUME NEW a \in 0 .. Rounds, NEW b \in 0 .. Rounds, a <= b
    PROVE  a + 1 <= b + 1 /\ a <= b + 1
BY RoundsAssumption

(* Every step keeps the counters of the loops.                             *)
LEMMA LoopsStep == ASSUME TypeOK, NotBegun, Loops, [Next]_vars PROVE Loops'
<1>1. CASE initialize_enclave
  BY <1>1, Types, FourMeasures, RoundsAssumption
     DEF Loops, NotBegun, initialize_enclave
<1>2. CASE stress
  BY <1>2 DEF Loops, stress
<1>3. CASE ecall_stress
  BY <1>3 DEF Loops, ecall_stress
<1>4. CASE Malloc
  BY <1>4, Types, FourMeasures, RoundsAssumption
     DEF Loops, NotBegun, Malloc
<1>5. CASE Sha
  <2>1. pc = "sha" /\ pc' = "sha" /\ i' = i + 1 /\ printed' = printed
    BY <1>5 DEF Sha
  <2>2. work["no-sgx memory"] = i /\ "no-sgx memory" \notin printed
    BY <2>1 DEF Loops
  <2>3. work'["no-sgx memory"] = work["no-sgx memory"] + 1
    BY <1>5, ShaWork
  <2> QED
    BY <2>1, <2>2, <2>3 DEF Loops
<1>6. CASE ShaEnds
  <2>1. /\ pc = "sha" /\ pc' = "ecall_sha" /\ i' = 0 /\ work' = work
        /\ printed' = printed \cup {"no-sgx memory"}
    BY <1>6 DEF ShaEnds, Report
  <2>2. work["sgx memory"] = 0 /\ "sgx memory" \notin printed
    BY <2>1, FourMeasures DEF NotBegun
  <2>3. 0 <= 0
    OBVIOUS
  <2>4. /\ work'["sgx memory"] <= i' /\ work'["sgx memory"] = i'
        /\ "sgx memory" \notin printed'
    BY <2>1, <2>2, <2>3, Zenon
  <2> QED
    BY <2>1, <2>4, Zenon DEF Loops
<1>7. CASE ecall_sha
  <2>1. /\ pc = "ecall_sha" /\ pc' = "ecall_sha" /\ i' = i + 1
        /\ printed' = printed /\ enclave' = enclave
    BY <1>7 DEF ecall_sha
  <2>2. /\ work["sgx memory"] <= i
        /\ enclave = "running" => work["sgx memory"] = i
        /\ "sgx memory" \notin printed
    BY <2>1 DEF Loops
  <2>3. work["sgx memory"] \in 0 .. Rounds /\ i \in 0 .. Rounds
    BY Types, FourMeasures
  <2>4. CASE enclave = "running"
    <3>1. work'["sgx memory"] = work["sgx memory"] + 1
      BY <1>7, <2>4, EcallShaWork
    <3>2. work["sgx memory"] + 1 <= i + 1
      BY <2>2, <2>3, Counting, Zenon
    <3>3. work'["sgx memory"] <= i' /\ work'["sgx memory"] = i'
      BY <2>1, <2>2, <2>4, <3>1, <3>2, Zenon
    <3> QED
      BY <2>1, <2>2, <3>3, Zenon DEF Loops
  <2>5. CASE enclave # "running"
    <3>1. work' = work
      BY <1>7, <2>5 DEF ecall_sha
    <3>2. work["sgx memory"] <= i + 1
      BY <2>2, <2>3, Counting, Zenon
    <3>3. work'["sgx memory"] <= i'
      BY <2>1, <3>1, <3>2, Zenon
    <3> QED
      BY <2>1, <2>2, <2>5, <3>3, Zenon DEF Loops
  <2> QED
    BY <2>4, <2>5
<1>8. CASE EcallShaEnds
  BY <1>8, Types, FourMeasures, RoundsAssumption
     DEF Loops, NotBegun, EcallShaEnds, Report
<1>9. CASE sgx_destroy_enclave
  BY <1>9, Types, FourMeasures, RoundsAssumption
     DEF Loops, NotBegun, sgx_destroy_enclave
<1>10. CASE PowerTransition
  BY <1>10, Types, FourMeasures, RoundsAssumption
     DEF Loops, NotBegun, PowerTransition
<1>11. CASE UNCHANGED vars
  BY <1>11, Types, FourMeasures, RoundsAssumption
     DEF Loops, NotBegun, vars
<1> QED
  BY <1>1, <1>2, <1>3, <1>4, <1>5, <1>6, <1>7, <1>8, <1>9, <1>10, <1>11
     DEF Next, main

(* Every step that prints a time prints that of a whole piece of work.     *)
LEMMA MeasuresStep == ASSUME Inv, [Next]_vars PROVE MeasuresUnlessLost'
<1> SUFFICES ASSUME NEW m \in printed'
             PROVE  \/ work'[m] = Whole(m)
                    \/ m = "sgx memory" /\ enclave' # "running"
  BY DEF MeasuresUnlessLost
<1> DEFINE Whole1 == work[m] = Whole(m) \/ (m = "sgx memory" /\ enclave # "running")
            Old == m \in printed => Whole1
<1>0. /\ Old
      /\ TypeOK /\ NotBegun /\ Loops
      /\ printed \subseteq Measures
  <2>1. TypeOK /\ NotBegun /\ Loops /\ MeasuresUnlessLost
    BY DEF Inv
  <2>2. Old
    BY <2>1 DEF MeasuresUnlessLost
  <2>3. printed \subseteq Measures
    BY <2>1 DEF TypeOK
  <2> QED
    BY <2>1, <2>2, <2>3
<1>1. CASE initialize_enclave
  <2>1. pc = "init" /\ printed' = printed
    BY <1>1 DEF initialize_enclave
  <2>2. m \in Measures /\ pc \in Before(m)
    BY <1>0, <2>1, FourMeasures DEF Measures
  <2> QED
    BY <1>0, <2>1, <2>2 DEF NotBegun
<1>2. CASE stress
  <2>1. pc = "stress" /\ printed' = printed \cup {"no-sgx"} /\ UNCHANGED enclave
    BY <1>2 DEF stress, Report
  <2>2. CASE m = "no-sgx"
    <3>1. work["no-sgx"] = 0
      BY <1>0, <2>1, FourMeasures DEF NotBegun
    <3>2. work'["no-sgx"] = work["no-sgx"] + 1
      BY <1>0, <1>2, StressWork
    <3>3. work'["no-sgx"] = 1
      BY <3>1, <3>2
    <3> QED
      BY <2>2, <3>3, WholeMeasures
  <2>3. CASE m # "no-sgx"
    <3>1. m \in printed /\ m \in Measures
      BY <1>0, <2>1, <2>3
    <3>2. work'[m] = work[m]
      BY <1>0, <1>2, <2>3, <3>1, StressWork
    <3> QED
      BY <1>0, <2>1, <3>1, <3>2
  <2> QED
    BY <2>2, <2>3
<1>3. CASE ecall_stress
  <2>1. CASE enclave = "running"
    <3>1. /\ pc = "ecall_stress" /\ printed' = printed \cup {"sgx"}
          /\ UNCHANGED enclave
      BY <1>3, <2>1 DEF ecall_stress, Report
    <3>2. CASE m = "sgx"
      <4>1. work["sgx"] = 0
        BY <1>0, <3>1, FourMeasures DEF NotBegun
      <4>2. work'["sgx"] = work["sgx"] + 1
        BY <1>0, <1>3, <2>1, EcallStressWork
      <4>3. work'["sgx"] = 1
        BY <4>1, <4>2
      <4> QED
        BY <3>2, <4>3, WholeMeasures
    <3>3. CASE m # "sgx"
      <4>1. m \in printed /\ m \in Measures
        BY <1>0, <3>1, <3>3
      <4>2. work'[m] = work[m]
        BY <1>0, <1>3, <2>1, <3>3, <4>1, EcallStressWork
      <4> QED
        BY <1>0, <3>1, <4>1, <4>2
    <3> QED
      BY <3>2, <3>3
  <2>2. CASE enclave # "running"
    BY <1>0, <1>3, <2>2 DEF ecall_stress
  <2> QED
    BY <2>1, <2>2
<1>4. CASE Malloc
  BY <1>0, <1>4, Types, WholeMeasures DEF Loops, Malloc
<1>5. CASE Sha
  <2>1. pc = "sha" /\ UNCHANGED <<printed, enclave>>
    BY <1>5 DEF Sha
  <2>2. m # "no-sgx memory" /\ m \in printed /\ m \in Measures
    BY <1>0, <2>1 DEF Loops
  <2>3. work'[m] = work[m]
    BY <1>0, <1>5, <2>2, ShaWork
  <2> QED
    BY <1>0, <2>1, <2>2, <2>3
<1>6. CASE ShaEnds
  BY <1>0, <1>6, Types, WholeMeasures DEF Loops, ShaEnds, Report
<1>7. CASE ecall_sha
  <2>1. CASE enclave = "running"
    BY <1>0, <1>7, <2>1, EcallShaWork, Types, WholeMeasures DEF Loops, NotBegun, ecall_sha
  <2>2. CASE enclave # "running"
    BY <1>0, <1>7, <2>2 DEF ecall_sha
  <2> QED
    BY <2>1, <2>2
<1>8. CASE EcallShaEnds
  BY <1>0, <1>8, Types, WholeMeasures DEF Loops, EcallShaEnds, Report
<1>9. CASE sgx_destroy_enclave
  BY <1>0, <1>9, Types, WholeMeasures DEF Loops, sgx_destroy_enclave
<1>10. CASE PowerTransition
  BY <1>0, <1>10, Types, WholeMeasures DEF Loops, PowerTransition
<1>11. CASE UNCHANGED vars
  BY <1>0, <1>11, Types, WholeMeasures DEF Loops, vars
<1> QED
  BY <1>1, <1>2, <1>3, <1>4, <1>5, <1>6, <1>7, <1>8, <1>9, <1>10, <1>11
     DEF Next, main

(* The invariant is inductive.                                             *)
LEMMA InvStep == Inv /\ [Next]_vars => Inv'
<1> SUFFICES ASSUME Inv, [Next]_vars PROVE Inv'
  OBVIOUS
<1>1. TypeOK /\ NotBegun /\ Loops
  BY DEF Inv
<1>2. TypeOK'
  BY <1>1, TypeStep
<1>3. NotBegun'
  BY <1>1, NotBegunStep
<1>4. Loops'
  BY <1>1, LoopsStep
<1>5. MeasuresUnlessLost'
  BY MeasuresStep
<1> QED
  BY <1>2, <1>3, <1>4, <1>5 DEF Inv

(* The loops never run over, whenever the enclave is lost.                 *)
THEOREM TypeCorrect == Spec => []TypeOK
<1>1. Inv => TypeOK
  BY DEF Inv
<1> QED
  BY <1>1, InvInit, InvStep, PTL DEF Spec

(* Every printed time but the last is that of the whole piece of work, and *)
(* the last one is unless the enclave was lost.                            *)
THEOREM MeasuresWork == Spec => []MeasuresUnlessLost
<1>1. Inv => MeasuresUnlessLost
  BY DEF Inv
<1> QED
  BY <1>1, InvInit, InvStep, PTL DEF Spec

-----------------------------------------------------------------------------

(* The statements and rounds main still has before it, at most.            *)
Rest ==
    CASE pc = "init"         -> 2 * Rounds + 7
      [] pc = "stress"       -> 2 * Rounds + 6
      [] pc = "ecall_stress" -> 2 * Rounds + 5
      [] pc = "malloc"       -> 2 * Rounds + 4
      [] pc = "sha"          -> (Rounds - i) + Rounds + 3
      [] pc = "ecall_sha"    -> (Rounds - i) + 2
      [] pc = "destroy"      -> 1
      [] OTHER               -> 0

(* Their number at each statement.                                         *)
LEMMA RestAt ==
    ASSUME i \in 0 .. Rounds
    PROVE  /\ pc = "init" => Rest = 2 * Rounds + 7
           /\ pc = "stress" => Rest = 2 * Rounds + 6
           /\ pc = "ecall_stress" => Rest = 2 * Rounds + 5
           /\ pc = "malloc" => Rest = 2 * Rounds + 4
           /\ pc = "sha" => Rest = (Rounds - i) + Rounds + 3
           /\ pc = "ecall_sha" => Rest = (Rounds - i) + 2
           /\ pc = "destroy" => Rest = 1
           /\ pc \in Stopped => Rest = 0
BY RoundsAssumption DEF Rest, Stopped

(* Every step of main leaves less of it, and losing the enclave changes    *)
(* nothing of that: neither loop is stuck on a call that fails, and main   *)
(* ends after at most 2 * Rounds + 7 steps.                                *)
THEOREM MainShrinks ==
    Spec => /\ [](Rest \in 0 .. 2 * Rounds + 7)
            /\ [][Rest' < Rest \/ (PowerTransition /\ Rest' = Rest)]_vars
<1>1. ASSUME Inv PROVE Rest \in 0 .. 2 * Rounds + 7
  <2>1. Rounds \in Nat /\ i \in 0 .. Rounds
    BY <1>1, RoundsAssumption DEF Inv, TypeOK
  <2>2. pc \in Stopped \cup {"init", "stress", "ecall_stress", "malloc", "sha",
                             "ecall_sha", "destroy"}
    BY <1>1 DEF Inv, TypeOK
  <2> QED
    BY <2>1, <2>2, RestAt
<1>2. ASSUME Inv, [Next]_vars
      PROVE  [Rest' < Rest \/ (PowerTransition /\ Rest' = Rest)]_vars
  <2>1. Rounds \in Nat /\ i \in 0 .. Rounds /\ i' \in 0 .. Rounds
    BY <1>2, InvStep, RoundsAssumption DEF Inv, TypeOK
  <2> DEFINE RestAtPrimed ==
        /\ pc' = "stress" => Rest' = 2 * Rounds + 6
        /\ pc' = "ecall_stress" => Rest' = 2 * Rounds + 5
        /\ pc' = "malloc" => Rest' = 2 * Rounds + 4
        /\ pc' = "sha" => Rest' = (Rounds - i') + Rounds + 3
        /\ pc' = "ecall_sha" => Rest' = (Rounds - i') + 2
        /\ pc' = "destroy" => Rest' = 1
        /\ pc' \in Stopped => Rest' = 0
  <2>2. RestAtPrimed
    BY <2>1 DEF Rest, Stopped
  <2>3. CASE initialize_enclave
    BY <2>1, <2>2, <2>3, RestAt DEF initialize_enclave, Stopped
  <2>4. CASE stress
    BY <2>1, <2>2, <2>4, RestAt DEF stress
  <2>5. CASE ecall_stress
    BY <2>1, <2>2, <2>5, RestAt DEF ecall_stress, Stopped
  <2>6. CASE Malloc
    BY <2>1, <2>2, <2>6, RestAt DEF Malloc, Stopped
  <2>7. CASE Sha
    <3>1. Rest = (Rounds - i) + Rounds + 3 /\ i < Rounds
      BY <2>1, <2>7, RestAt DEF Sha
    <3>2. Rest' = (Rounds - (i + 1)) + Rounds + 3
      BY <2>1, <2>2, <2>7 DEF Sha
    <3>3. Rest' < Rest
      BY <2>1, <3>1, <3>2
    <3> QED
      BY <3>3
  <2>8. CASE ShaEnds
    <3>1. Rest = (Rounds - Rounds) + Rounds + 3
      BY <2>1, <2>8, RestAt DEF ShaEnds
    <3>2. Rest' = (Rounds - 0) + 2
      BY <2>1, <2>2, <2>8 DEF ShaEnds
    <3>3. Rest' < Rest
      BY <2>1, <3>1, <3>2
    <3> QED
      BY <3>3
  <2>9. CASE ecall_sha
    <3>1. Rest = (Rounds - i) + 2 /\ i < Rounds
      BY <2>1, <2>9, RestAt DEF ecall_sha
    <3>2. Rest' = (Rounds - (i + 1)) + 2
      BY <2>1, <2>2, <2>9 DEF ecall_sha
    <3>3. Rest' < Rest
      BY <2>1, <3>1, <3>2
    <3> QED
      BY <3>3
  <2>10. CASE EcallShaEnds
    <3>1. Rest = (Rounds - Rounds) + 2
      BY <2>1, <2>10, RestAt DEF EcallShaEnds
    <3>2. Rest' = 1 \/ Rest' = 0
      BY <2>1, <2>2, <2>10 DEF EcallShaEnds, Stopped
    <3>3. Rest' < Rest
      BY <2>1, <3>1, <3>2
    <3> QED
      BY <3>3
  <2>11. CASE sgx_destroy_enclave
    BY <2>1, <2>2, <2>11, RestAt DEF sgx_destroy_enclave, Stopped
  <2>12. CASE PowerTransition
    BY <2>12 DEF PowerTransition, Rest
  <2>13. CASE UNCHANGED vars
    BY <2>13
  <2> QED
    BY <1>2, <2>3, <2>4, <2>5, <2>6, <2>7, <2>8, <2>9, <2>10, <2>11, <2>12, <2>13
       DEF Next, main
<1> QED
  BY <1>1, <1>2, InvInit, InvStep, PTL DEF Spec

================================================================================
