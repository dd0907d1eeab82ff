----------------------------- MODULE LaunchToken -----------------------------
(***************************************************************************)
(* initialize_enclave, which every program that uses the enclave runs when *)
(* it starts: it reads the launch token an earlier run has saved, creates  *)
(* the enclave with it and saves the token if it was replaced.  Programs   *)
(* started in one directory share the file and lock nothing.               *)
(*                                                                         *)
(* Whether a token is good is decided by sgx_create_enclave: a token that  *)
(* is all zeros, or from an earlier platform or enclave, is replaced.      *)
(***************************************************************************)
EXTENDS Integers

CONSTANTS
    Processes,  \* programs started in the directory
    MaxStarts,  \* bound: calls of initialize_enclave, all processes
    MaxFaults   \* bound: crashes and failed calls of the libraries

ASSUME BoundsAssumption == MaxStarts \in Nat /\ MaxFaults \in Nat

VARIABLES
    file,       \* what the token file holds
    pc, fp,     \* of each process: its next step and its stream,
    token,      \*   the buffer it passes to sgx_create_enclave,
    ret,        \*   and what its last call returned
    starts, faults

vars == <<file, pc, fp, token, ret, starts, faults>>

(* A torn file is shorter than a token, because a write failed.            *)
Contents == {"absent", "empty", "torn", "stale", "good"}
Tokens == {"zero", "stale", "good"}

Fault == faults < MaxFaults /\ faults' = faults + 1
NoFault == UNCHANGED faults

Goto(p, l) == pc' = [pc EXCEPT ![p] = l]

-----------------------------------------------------------------------------

(* fopen(token_path, "rb").                                                *)
Open(p) ==
    /\ pc[p] = "idle" /\ starts < MaxStarts
    /\ starts' = starts + 1
    /\ token' = [token EXCEPT ![p] = "zero"]
    /\ \/ /\ file # "absent" /\ NoFault
          /\ fp' = [fp EXCEPT ![p] = "rb"] /\ Goto(p, "read")
       \/ /\ IF file = "absent" THEN NoFault ELSE Fault
          /\ fp' = [fp EXCEPT ![p] = "null"] /\ Goto(p, "create")
    /\ UNCHANGED <<file, ret>>

(* fopen(token_path, "wb"): in the meantime the file may have been saved.  *)
Create(p) ==
    /\ pc[p] = "create"
    /\ \/ /\ NoFault
          /\ file' = "empty"
          /\ fp' = [fp EXCEPT ![p] = "wb"] /\ Goto(p, "read")
       \/ /\ Fault
          /\ Goto(p, "launch") /\ UNCHANGED <<file, fp>>
    /\ UNCHANGED <<token, ret, starts>>

(* fread into the buffer, without a look at how much was read.             *)
ReadUnchecked(p) ==
    /\ pc[p] = "read"
    /\ token' = [token EXCEPT ![p] =
          IF fp[p] = "rb" /\ file \in {"torn", "stale", "good"} THEN file ELSE "zero"]
    /\ Goto(p, "launch") /\ NoFault
    /\ UNCHANGED <<file, fp, ret, starts>>

(* fread: nothing from a stream opened for writing or an empty file, and   *)
(* what there is of a torn one is cleared.                                 *)
Read(p) ==
    /\ pc[p] = "read"
    /\ token' = [token EXCEPT ![p] =
          IF fp[p] = "rb" /\ file \in {"stale", "good"} THEN file ELSE "zero"]
    /\ Goto(p, "launch") /\ NoFault
    /\ UNCHANGED <<file, fp, ret, starts>>

(* A program that only saves where there was nothing to read.              *)
SavesIfZero(p) == token[p] = "zero" /\ fp[p] # "null"

(* A program that saves its token without a look at updated.               *)
SavesAlways(p) == fp[p] # "null"

(* sgx_create_enclave sets updated when it replaces the token.             *)
MustSave(p) == token[p] # "good" /\ fp[p] # "null"

Launch(p) ==
    /\ pc[p] = "launch"
    /\ token' = [token EXCEPT ![p] = "good"]
    /\ IF MustSave(p)
         THEN Goto(p, "reopen") /\ UNCHANGED <<fp, ret>>
         ELSE /\ Goto(p, "idle")
              /\ fp' = [fp EXCEPT ![p] = "null"]
              /\ ret' = [ret EXCEPT ![p] = 0]
    /\ NoFault
    /\ UNCHANGED <<file, starts>>

Return(p, r) ==
    /\ Goto(p, "idle")
    /\ fp' = [fp EXCEPT ![p] = "null"]
    /\ ret' = [ret EXCEPT ![p] = r]
    /\ UNCHANGED <<token, starts>>

LaunchFails(p) ==
    /\ pc[p] = "launch"
    /\ Return(p, -1)
    /\ Fault
    /\ UNCHANGED file

(* freopen(token_path, "wb", fp) truncates the file.                       *)
Reopen(p) ==
    /\ pc[p] = "reopen"
    /\ \/ /\ NoFault
          /\ file' = "empty"
          /\ fp' = [fp EXCEPT ![p] = "wb"] /\ Goto(p, "write")
          /\ UNCHANGED <<token, ret, starts>>
       \/ Fault /\ Return(p, 0) /\ UNCHANGED file

(* fwrite and fclose: one write of the whole token, which may fail.        *)
Write(p) ==
    /\ pc[p] = "write"
    /\ Return(p, 0)
    /\ \/ NoFault /\ file' = token[p]
       \/ /\ Fault
          /\ file' \in IF file = "empty" THEN {"empty", "torn"} ELSE {file}

initialize_enclave(p) ==
    Open(p) \/ Create(p) \/ Read(p) \/ Launch(p) \/ LaunchFails(p)
    \/ Reopen(p) \/ Write(p)

Crash(p) ==
    /\ pc[p] # "idle"
    /\ Fault
    /\ Goto(p, "idle")
    /\ fp' = [fp EXCEPT ![p] = "null"]
    /\ UNCHANGED <<file, token, ret, starts>>

-----------------------------------------------------------------------------

Init ==
    /\ file \in Contents
    /\ pc = [p \in Processes |-> "idle"]
    /\ fp = [p \in Processes |-> "null"]
    /\ token = [p \in Processes |-> "zero"]
    /\ ret = [p \in Processes |-> 0]
    /\ starts = 0 /\ faults = 0

Next == \E p \in Processes : initialize_enclave(p) \/ Crash(p)

Spec == Init /\ [][Next]_vars

-----------------------------------------------------------------------------

(* The type invariant: a torn file never reaches sgx_create_enclave.       *)
TypeOK ==
    /\ file \in Contents
    /\ pc \in [Processes -> {"idle", "create", "read", "launch", "reopen", "write"}]
    /\ fp \in [Processes -> {"null", "rb", "wb"}]
    /\ token \in [Processes -> Tokens]
    /\ ret \in [Processes -> {0, -1}]
    /\ starts \in 0 .. MaxStarts
    /\ faults \in 0 .. MaxFaults

(* No program is starting.                                                 *)
Quiet == \A p \in Processes : pc[p] = "idle"

(* When no call has failed and every program that started is running its   *)
(* enclave, a good token is saved: although a program that found no file   *)
(* truncates the one another program has just saved, and readers come      *)
(* between the truncation and the write, no saved token is lost.           *)
GoodTokenSaved ==
    starts > 0 /\ faults = 0 /\ Quiet => file = "good"

(* Whatever crashes and failed writes have left in the file, the programs  *)
(* that start afterwards repair it: n faults and s starts into a run in    *)
(* which no more faults come, a good token is there whenever the programs  *)
(* that have started since run their enclaves.                             *)
RepairsToken ==
    \A n \in 0 .. MaxFaults, s \in 0 .. MaxStarts :
        [](Quiet /\ faults = n /\ starts = s
              => [](Quiet /\ faults = n /\ starts > s => file = "good"))

(* A good token is saved once: programs that start later, as many at a     *)
(* time as may be, read it and never truncate the file, as long as nothing *)
(* fails.                                                                  *)
SavedTokenStays ==
    \A n \in 0 .. MaxFaults :
        [](Quiet /\ faults = n /\ file = "good"
              => [](faults = n => file = "good"))

=============================================================================
