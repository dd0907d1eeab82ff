------------------------------- MODULE Benchmark -------------------------------
(***************************************************************************)
(* The execution benchmark, main of sample.cpp.  Four pieces of work are   *)
(* timed, each between two calls of gettimeofday, and a line is printed    *)
(* for each: a hash chain outside the enclave and in it, and then the same *)
(* buffer hashed Rounds times outside and in it.  The enclave can be lost  *)
(* at any time, when the machine sleeps: the call that is under way and    *)
(* all later ones then fail.                                               *)
(***************************************************************************)
EXTENDS Naturals

CONSTANT Rounds     \* the code's 10000

ASSUME RoundsAssumption == Rounds \in Nat \ {0}

Measures == {"no-sgx", "sgx", "no-sgx memory", "sgx memory"}

VARIABLES
    pc,         \* what main does next, or "returned", "failed", "aborted"
    i,          \* the counter that both loops use
    ret,        \* the status of an enclave call: "unset", "success" or "error"
    enclave,    \* "none", "running" or "lost"
    work,       \* how much of each piece of work has been done
    printed     \* the measurements printed

vars == <<pc, i, ret, enclave, work, printed>>

Stopped == {"returned", "failed", "aborted"}

(* The chain of hashes counts as one, the buffer as one each time.         *)
Whole(m) == IF m \in {"no-sgx", "sgx"} THEN 1 ELSE Rounds

Done(m) == work' = [work EXCEPT ![m] = @ + 1]
Report(m) == printed' = printed \cup {m}

-----------------------------------------------------------------------------

(* main returns when no enclave can be created, and aborts when it cannot  *)
(* change to the directory of its files.                                   *)
initialize_enclave ==
    /\ pc = "init"
    /\ \/ pc' = "stress" /\ enclave' = "running"
       \/ pc' \in {"failed", "aborted"} /\ UNCHANGED enclave
    /\ UNCHANGED <<i, ret, work, printed>>

stress ==
    /\ pc = "stress"
    /\ Done("no-sgx") /\ Report("no-sgx")
    /\ pc' = "ecall_stress"
    /\ UNCHANGED <<i, ret, enclave>>

(* A benchmark that does not look at the status of the chain either.       *)
EcallStressUnchecked ==
    /\ pc = "ecall_stress"
    /\ IF enclave = "running"
         THEN Done("sgx") /\ ret' = "success"
         ELSE UNCHANGED work /\ ret' = "error"
    /\ Report("sgx")
    /\ pc' = "malloc"
    /\ UNCHANGED <<i, enclave>>

ecall_stress ==
    /\ pc = "ecall_stress"
    /\ \/ /\ enclave = "running"
          /\ ret' = "success" /\ pc' = "malloc"
          /\ Done("sgx") /\ Report("sgx")
       \/ /\ enclave # "running"
          /\ ret' = "error" /\ pc' = "aborted"
          /\ UNCHANGED <<work, printed>>
    /\ UNCHANGED <<i, enclave>>

(* malloc and memset of the buffer; the loop starts.                       *)
Malloc ==
    /\ pc = "malloc"
    /\ \/ pc' = "sha" /\ i' = 0
       \/ pc' = "aborted" /\ UNCHANGED i
    /\ UNCHANGED <<ret, enclave, work, printed>>

(* A loop that goes round once more.                                       *)
ShaOnceMore ==
    /\ pc = "sha" /\ i <= Rounds
    /\ Done("no-sgx memory")
    /\ i' = i + 1
    /\ UNCHANGED <<pc, ret, enclave, printed>>

Sha ==
    /\ pc = "sha" /\ i < Rounds
    /\ Done("no-sgx memory")
    /\ i' = i + 1
    /\ UNCHANGED <<pc, ret, enclave, printed>>

(* A second loop that goes on where the first one ended.                   *)
ShaEndsKeepsCounter ==
    /\ pc = "sha" /\ i = Rounds
    /\ Report("no-sgx memory")
    /\ pc' = "ecall_sha"
    /\ UNCHANGED <<i, ret, enclave, work>>

(* The first loop ends, and the second starts.                             *)
ShaEnds ==
    /\ pc = "sha" /\ i = Rounds
    /\ Report("no-sgx memory")
    /\ pc' = "ecall_sha" /\ i' = 0
    /\ UNCHANGED <<ret, enclave, work>>

(* A loop that repeats a failed call.                                      *)
EcallShaRepeats ==
    /\ pc = "ecall_sha" /\ i < Rounds
    /\ IF enclave = "running" THEN Done("sgx memory") /\ i' = i + 1 ELSE UNCHANGED <<work, i>>
    /\ UNCHANGED <<pc, ret, enclave, printed>>

(* The status of the call is discarded.                                    *)
ecall_sha ==
    /\ pc = "ecall_sha" /\ i < Rounds
    /\ IF enclave = "running" THEN Done("sgx memory") ELSE UNCHANGED work
    /\ i' = i + 1
    /\ UNCHANGED <<pc, ret, enclave, printed>>

(* The test after the loop looks at ret, which ecall_stress has set.       *)
EcallShaEnds ==
    /\ pc = "ecall_sha" /\ i = Rounds
    /\ IF ret = "success"
         THEN Report("sgx memory") /\ pc' = "destroy"
         ELSE UNCHANGED printed /\ pc' = "aborted"
    /\ UNCHANGED <<i, ret, enclave, work>>

sgx_destroy_enclave ==
    /\ pc = "destroy"
    /\ enclave' = "none" /\ pc' = "returned"
    /\ UNCHANGED <<i, ret, work, printed>>

PowerTransition ==
    /\ enclave = "running" /\ enclave' = "lost"
    /\ UNCHANGED <<pc, i, ret, work, printed>>

main ==
    \/ initialize_enclave \/ stress \/ ecall_stress \/ Malloc
    \/ Sha \/ ShaEnds \/ ecall_sha \/ EcallShaEnds \/ sgx_destroy_enclave

Init ==
    /\ pc = "init" /\ i = 0 /\ ret = "unset" /\ enclave = "none"
    /\ work = [m \in Measures |-> 0] /\ printed = {}

Next == main \/ PowerTransition

Spec == Init /\ [][Next]_vars /\ WF_vars(main)

-----------------------------------------------------------------------------

(* The type invariant: neither loop runs over, and the second runs with a  *)
(* status that is that of the chain.                                       *)
TypeOK ==
    /\ pc \in Stopped \cup {"init", "stress", "ecall_stress", "malloc", "sha",
                            "ecall_sha", "destroy"}
    /\ i \in 0 .. Rounds
    /\ ret \in {"unset", "success", "error"}
    /\ pc \in {"malloc", "sha", "ecall_sha", "destroy"} => ret = "success"
    /\ enclave \in {"none", "running", "lost"}
    /\ work \in [Measures -> 0 .. Rounds]
    /\ printed \subseteq Measures

(* Every number that was printed is the time of the whole piece of work,   *)
(* done neither too few times nor too many.  Only the last one may be of   *)
(* less, and only when the enclave has been lost (or is destroyed by now). *)
MeasuresUnlessLost ==
    \A m \in printed :
        work[m] = Whole(m) \/ (m = "sgx memory" /\ enclave # "running")

(* The program comes to an end, whenever the enclave is lost.              *)
Ends == <>(pc \in Stopped)

(* sample.cpp tests the status after the loop of ecall_sha, to abort       *)
(* instead of printing the time: what it prints is the time of all calls.  *)
MeasuresWhole == \A m \in printed : work[m] = Whole(m)

=============================================================================
