---------------------------- MODULE PacketService ----------------------------
(***************************************************************************)
(* What clients are promised of the packet server: a call asks about one   *)
(* packet; the packets are decided on one at a time, in the order in which *)
(* the calls were made, each once and for all, and only one that was sent  *)
(* as a whole gets a count.  A call returns the count of its own packet or *)
(* an error, but for the one flaw of the code: once its packet is decided  *)
(* it may return what other calls have left behind, a count that was given *)
(* before or a mixture of several.                                         *)
(***************************************************************************)
EXTENDS Integers, Sequences

CONSTANTS
    Clients,
    Packets,
    MaxCalls,               \* calls per client
    NoCount,                \* nothing, where a count is expected
    NoVerdict, Refused,     \* no decision yet, and one that is no count
    Mixtures,               \* counts that were never given to a call
    Errors                  \* what a call returns for an error

Calls == Clients \X (1 .. MaxCalls)

VARIABLES
    call,       \* number of each client's present or last call
    busy,       \* the clients inside a call
    packet,     \* the packet of each call
    complete,   \* the calls whose packet was sent as a whole
    queue,      \* the calls that wait for a decision
    verdict,    \* the decisions
    result      \* what each client's last call returned

serviceVars == <<call, busy, packet, complete, queue, verdict, result>>

Current(c) == <<c, call[c]>>

Init ==
    /\ call = [c \in Clients |-> 0]
    /\ busy = {}
    /\ packet = [k \in Calls |-> <<>>]
    /\ complete = {}
    /\ queue = <<>>
    /\ verdict = [k \in Calls |-> NoVerdict]
    /\ result = [c \in Clients |-> NoCount]

Ask(c, p) ==
    /\ c \notin busy /\ call[c] < MaxCalls
    /\ call' = [call EXCEPT ![c] = @ + 1]
    /\ busy' = busy \cup {c}
    /\ LET k == <<c, call[c] + 1>> IN
         /\ packet' = [packet EXCEPT ![k] = p]
         /\ queue' = Append(queue, k)
    /\ result' = [result EXCEPT ![c] = NoCount]
    /\ UNCHANGED <<complete, verdict>>

Complete(c) ==
    /\ c \in busy
    /\ complete' = complete \cup {Current(c)}
    /\ UNCHANGED <<call, busy, packet, queue, verdict, result>>

(* A verdict on the packet that has waited longest.                        *)
Verdicts(k) ==
    {Refused} \cup IF k \in complete THEN 0 .. Len(packet[k]) ELSE {}

Decide ==
    /\ queue # <<>>
    /\ \E v \in Verdicts(Head(queue)) :
          verdict' = [verdict EXCEPT ![Head(queue)] = v]
    /\ queue' = Tail(queue)
    /\ UNCHANGED <<call, busy, packet, complete, result>>

Return(c, r) ==
    /\ busy' = busy \ {c}
    /\ result' = [result EXCEPT ![c] = r]
    /\ UNCHANGED <<call, packet, complete, queue, verdict>>

Given(c) ==
    /\ c \in busy /\ verdict[Current(c)] >= 0
    /\ Return(c, verdict[Current(c)])

LeftBehind == Mixtures \cup {n \in {verdict[k] : k \in Calls} : n >= 0}

Mistaken(c) ==
    /\ c \in busy /\ verdict[Current(c)] # NoVerdict
    /\ \E n \in LeftBehind : Return(c, n)

Fails(c) ==
    /\ c \in busy
    /\ \E r \in Errors : Return(c, r)

Next ==
    \/ \E c \in Clients :
          \/ \E p \in Packets : Ask(c, p)
          \/ Complete(c) \/ Given(c) \/ Mistaken(c) \/ Fails(c)
    \/ Decide

Spec == Init /\ [][Next]_serviceVars

-----------------------------------------------------------------------------

(* The calls that were made and not decided.                               *)
Undecided == {k \in Calls : k[2] <= call[k[1]] /\ verdict[k] = NoVerdict}

(* They are the calls that wait, and each of them waits once: none is      *)
(* forgotten, and none is decided a second time.                           *)
WaitsOnce ==
    /\ \A i \in DOMAIN queue : queue[i] \in Undecided
    /\ \A k \in Undecided : \E i \in DOMAIN queue : queue[i] = k
    /\ \A i, j \in DOMAIN queue : queue[i] = queue[j] => i = j

=============================================================================
