--------------------------- MODULE ServiceProvider ---------------------------
(***************************************************************************)
(* Remote attestation: the service provider's three message handlers       *)
(* (service_provider.cpp, with the simulated attestation server of         *)
(* ias_ra.cpp) and the enclaves that talk to it.                           *)
(*                                                                         *)
(* The service provider keeps ONE session in a global, g_sp_db, whoever    *)
(* sends the next message.  sp_ra_proc_msg1_req fills it field by field    *)
(* and stops at the first failure, leaving a mixture of two exchanges.     *)
(* Handlers do not overlap: the server handles one request at a time.      *)
(*                                                                         *)
(* Keys are symbols.  A client's public key g_a is <<client, attempt>>,    *)
(* the provider's key g_b is the number of its key pair, and whoever holds *)
(* one private half and the other public key derives [a, b] from them.     *)
(* Every request travels on a connection of its own (send_request): it is  *)
(* handled at most once, in any order, possibly after its client gave up.  *)
(***************************************************************************)
EXTENDS Integers

CONSTANTS
    Clients,        \* platforms that attest an enclave
    Foreign,        \* those whose extended EPID group the provider lacks
    NoKey,          \* the zeroes an unset key or g_a holds
    MaxAttempts,    \* bound: attestations started per client
    MaxFaults       \* bound: failed calls, rejected quotes, lost connections
                    \* and restarts

ASSUME ForeignAssumption == Foreign \subseteq Clients
ASSUME BoundsAssumption == MaxAttempts \in Nat /\ MaxFaults \in Nat

PublicKeys == Clients \X Nat
DhKeys == [a : PublicKeys, b : Nat \ {0}]
ASSUME NoKeyAssumption ==
    NoKey \notin PublicKeys /\ NoKey \notin [a : PublicKeys, b : Nat]

VARIABLES
    registered,     \* g_is_sp_registered
    group,          \* id of *g_sp_extended_epid_group_id, NoGroup for NULL
    db,             \* g_sp_db
    nextB,          \* number of the next key pair of the provider
    requests,       \* requests on their way to the provider
    pc,             \* what each client waits for, "idle", or "done"
    attempt,        \* attestations each client has started
    gb,             \* the g_b each client got in message 2, 0 before
    secret,         \* g_secret of each client's enclave, TRUE once delivered
    inbox,          \* the response each client has not read yet
    faults

spVars == <<registered, group, db, nextB>>
clientVars == <<pc, attempt, gb, secret>>
vars == <<spVars, clientVars, requests, inbox, faults>>

-----------------------------------------------------------------------------
(***************************************************************************)
(* Messages.                                                               *)
(***************************************************************************)

NoGroup == -1
SupportedGroups == {0}
GroupOf(c) == IF c \in Foreign THEN 1 ELSE 0

Waits == {"msg0", "msg1", "msg3"}
Requests == [type : Waits, from : Clients, n : Nat, gb : Nat]

Nothing == [type |-> "none"]
Failure == [type |-> "error"]       \* an error answer, or the end of the stream
Broken == [type |-> "broken"]       \* send_request itself returns an error
Accepted == [type |-> "ok"]

(* g_a of the attempt that sent a request, and the keys its sender derives *)
(* from the g_b it was given.                                              *)
KeyA(r) == <<r.from, r.n>>
KeyAB(r) == [a |-> KeyA(r), b |-> r.gb]

(* g_a and the derived keys of a client's current attempt.                 *)
OwnA(c) == <<c, attempt[c]>>
OwnKey(c) == [a |-> OwnA(c), b |-> gb[c]]

Awaits(r) ==
    /\ pc[r.from] = r.type
    /\ attempt[r.from] = r.n
    /\ inbox[r.from] = Nothing

(* What the server loop, which is not part of the repository, is taken to  *)
(* do with the outcome of a handler: it answers on the request's           *)
(* connection, if that is still open, or closes it for a failure.          *)
Respond(r, m) ==
    /\ requests' = requests \ {r}
    /\ inbox' = IF Awaits(r) THEN [inbox EXCEPT ![r.from] = m] ELSE inbox

Fault == faults < MaxFaults /\ faults' = faults + 1
NoFault == UNCHANGED faults

-----------------------------------------------------------------------------
(***************************************************************************)
(* Message 0: register with the attestation server of the client's group.  *)
(***************************************************************************)

(* The condition with the pointer taken for the flag.                      *)
GroupOnly(g) == group # g

MustEnroll(g) == ~registered \/ (group # NoGroup /\ group # g)

Msg0Known(r) ==
    /\ r.type = "msg0" /\ ~MustEnroll(GroupOf(r.from))
    /\ Respond(r, Accepted)
    /\ NoFault
    /\ UNCHANGED <<spVars, clientVars>>

Msg0Unsupported(r) ==
    /\ r.type = "msg0" /\ MustEnroll(GroupOf(r.from))
    /\ GroupOf(r.from) \notin SupportedGroups
    /\ Respond(r, Failure)
    /\ NoFault
    /\ UNCHANGED <<spVars, clientVars>>

(* What Msg0Enroll must not do: set the flag before the table is searched. *)
RegisterFirst(r, enrolled) ==
    /\ r.type = "msg0" /\ MustEnroll(GroupOf(r.from))
    /\ registered' = TRUE
    /\ IF GroupOf(r.from) \in SupportedGroups /\ enrolled
         THEN group' = GroupOf(r.from) /\ Respond(r, Accepted) /\ NoFault
         ELSE UNCHANGED group /\ Respond(r, Failure) /\ Fault
    /\ UNCHANGED <<db, nextB, clientVars>>

(* The group is remembered before enrolling, the registration after it.    *)
Msg0Enroll(r, enrolled) ==
    /\ r.type = "msg0" /\ MustEnroll(GroupOf(r.from))
    /\ GroupOf(r.from) \in SupportedGroups
    /\ group' = GroupOf(r.from)
    /\ registered' = (registered \/ enrolled)
    /\ Respond(r, IF enrolled THEN Accepted ELSE Failure)
    /\ IF enrolled THEN NoFault ELSE Fault
    /\ UNCHANGED <<db, nextB, clientVars>>

sp_ra_proc_msg0_req(r) ==
    \/ Msg0Known(r)
    \/ Msg0Unsupported(r)
    \/ \E enrolled \in BOOLEAN : Msg0Enroll(r, enrolled)

-----------------------------------------------------------------------------
(***************************************************************************)
(* Message 1: exchange keys.  The handler stores a field of g_sp_db at a   *)
(* time, in this order, and each store is preceded by calls that may fail. *)
(***************************************************************************)

Slots == {"ga", "gb", "smk", "mk", "sk", "vk"}

EmptyDb == [ga |-> NoKey, gb |-> 0,
            smk |-> NoKey, mk |-> NoKey, sk |-> NoKey, vk |-> NoKey]

(* An order that derives SMK after the keys msg3 is answered with.         *)
SmkLate == [mk |-> 1, sk |-> 2, smk |-> 3, vk |-> 4, ga |-> 5, gb |-> 6]

StoreOrder == [ga |-> 1, gb |-> 2, smk |-> 3, mk |-> 4, sk |-> 5, vk |-> 6]

(* Completed stores of a call that reaches the end.                        *)
AllStored == 6

(* What a complete exchange with g_a = a and key pair b would store.       *)
Exchange(a, b) ==
    LET k == [a |-> a, b |-> b] IN
    [ga |-> a, gb |-> b, smk |-> k, mk |-> k, sk |-> k, vk |-> k]

Store(a, b, stored) ==
    [s \in Slots |-> IF StoreOrder[s] <= stored THEN Exchange(a, b)[s]
                                                ELSE db[s]]

Msg2 == [type |-> "msg2", ga |-> db'.ga, gb |-> db'.gb, mac |-> db'.smk]

Msg1Unregistered(r) ==
    /\ r.type = "msg1" /\ ~registered
    /\ Respond(r, Failure)
    /\ NoFault
    /\ UNCHANGED <<spVars, clientVars>>

(* The calls after the last store (allocation, signature, CMAC) may fail   *)
(* as well: everything is stored and there is still no message 2.          *)
Msg1Exchange(r, stored, replied) ==
    /\ r.type = "msg1" /\ registered
    /\ replied => stored = AllStored
    /\ db' = Store(KeyA(r), nextB, stored)
    /\ nextB' = IF stored > 1 THEN nextB + 1 ELSE nextB
    /\ Respond(r, IF replied THEN Msg2 ELSE Failure)
    /\ IF replied THEN NoFault ELSE Fault
    /\ UNCHANGED <<registered, group, clientVars>>

sp_ra_proc_msg1_req(r) ==
    \/ Msg1Unregistered(r)
    \/ \E stored \in 0 .. AllStored, replied \in BOOLEAN :
           Msg1Exchange(r, stored, replied)

-----------------------------------------------------------------------------
(***************************************************************************)
(* Message 3: check the quote against the session, answer with the secret. *)
(***************************************************************************)

(* The verdict on a quote: the simulated attestation server accepts every  *)
(* quote, the one it stands for may not; a rejection counts as a fault.    *)
ias_verify_attestation_evidence == BOOLEAN

SameClientKey(r) == db.ga = KeyA(r)
CmacVerifies(r) == db.smk = KeyAB(r)
ReportMatches(r) == <<db.ga, db.gb, db.vk>> = <<KeyA(r), r.gb, KeyAB(r)>>

Accepts(r) ==
    /\ registered
    /\ SameClientKey(r)
    /\ CmacVerifies(r)
    /\ ReportMatches(r)

(* The platform info blob is authenticated with MK whatever the verdict;   *)
(* the secret is encrypted with SK only for a quote that is in order.      *)
AttResult(verdict) ==
    [type |-> "result", status |-> verdict,
     mac |-> db.mk, payload |-> IF verdict THEN db.sk ELSE NoKey]

(* What Msg3Reject must not do: forget the session of whoever holds it.    *)
RejectForgets(r) ==
    /\ r.type = "msg3" /\ ~Accepts(r)
    /\ Respond(r, Failure)
    /\ db' = EmptyDb
    /\ NoFault
    /\ UNCHANGED <<registered, group, nextB, clientVars>>

Msg3Reject(r) ==
    /\ r.type = "msg3" /\ ~Accepts(r)
    /\ Respond(r, Failure)
    /\ NoFault
    /\ UNCHANGED <<spVars, clientVars>>

(* Hashing, the attestation server, allocation or encryption fails.        *)
Msg3Fail(r) ==
    /\ r.type = "msg3" /\ Accepts(r)
    /\ Respond(r, Failure)
    /\ Fault
    /\ UNCHANGED <<spVars, clientVars>>

Msg3Answer(r, verdict) ==
    /\ r.type = "msg3" /\ Accepts(r)
    /\ Respond(r, AttResult(verdict))
    /\ IF verdict THEN NoFault ELSE Fault
    /\ UNCHANGED <<spVars, clientVars>>

sp_ra_proc_msg3_req(r) ==
    \/ Msg3Reject(r)
    \/ Msg3Fail(r)
    \/ \E verdict \in ias_verify_attestation_evidence : Msg3Answer(r, verdict)

-----------------------------------------------------------------------------
(***************************************************************************)
(* Clients.                                                                *)
(***************************************************************************)

Send(c, type, b) ==
    requests' = requests \cup
                    {[type |-> type, from |-> c, n |-> attempt'[c], gb |-> b]}

GiveUp(c) ==
    /\ pc' = [pc EXCEPT ![c] = "idle"]
    /\ inbox' = [inbox EXCEPT ![c] = Nothing]

(* perform_remote_attestation up to message 0, with a fresh context.       *)
Start(c) ==
    /\ pc[c] = "idle" /\ attempt[c] < MaxAttempts
    /\ attempt' = [attempt EXCEPT ![c] = @ + 1]
    /\ gb' = [gb EXCEPT ![c] = 0]
    /\ pc' = [pc EXCEPT ![c] = "msg0"]
    /\ Send(c, "msg0", 0)
    /\ UNCHANGED <<spVars, secret, inbox, faults>>

(* The key exchange library makes g_a, and message 1 carries it.  Nobody   *)
(* looks at the answer to message 0: whatever came back, the client goes   *)
(* on, unless send_request returned an error.                              *)
GetMsg1(c) ==
    /\ pc[c] = "msg0" /\ inbox[c] \notin {Nothing, Broken}
    /\ pc' = [pc EXCEPT ![c] = "msg1"]
    /\ inbox' = [inbox EXCEPT ![c] = Nothing]
    /\ UNCHANGED attempt
    /\ Send(c, "msg1", 0)
    /\ UNCHANGED <<spVars, gb, secret, faults>>

(* sgx_ra_proc_msg2 checks the signature of (g_b, g_a) and the CMAC, then  *)
(* derives the keys and makes message 3.                                   *)
ProcMsg2(c) ==
    /\ pc[c] = "msg1" /\ inbox[c].type = "msg2"
    /\ inbox[c].ga = OwnA(c)
    /\ inbox[c].mac = [a |-> OwnA(c), b |-> inbox[c].gb]
    /\ gb' = [gb EXCEPT ![c] = inbox[c].gb]
    /\ pc' = [pc EXCEPT ![c] = "msg3"]
    /\ inbox' = [inbox EXCEPT ![c] = Nothing]
    /\ UNCHANGED attempt
    /\ Send(c, "msg3", inbox[c].gb)
    /\ UNCHANGED <<spVars, secret, faults>>

verify_att_result_mac(c) == inbox[c].mac = OwnKey(c)

(* Decryption with the client's own SK; a wrong key leaves g_secret alone. *)
Decrypts(c) == inbox[c].payload = OwnKey(c)

(* The end of perform_remote_attestation: the MAC of the blob, the status, *)
(* then put_secret_data, which succeeds when g_secret holds the secret and *)
(* the decryption did not fail.                                            *)
ReadResult(c) ==
    /\ pc[c] = "msg3" /\ inbox[c].type = "result"
    /\ LET passed == verify_att_result_mac(c) /\ inbox[c].status
           delivered == passed /\ Decrypts(c)
       IN  /\ secret' = [secret EXCEPT ![c] = @ \/ delivered]
           /\ pc' = [pc EXCEPT ![c] = IF delivered THEN "done" ELSE "idle"]
    /\ inbox' = [inbox EXCEPT ![c] = Nothing]
    /\ UNCHANGED <<spVars, attempt, gb, requests, faults>>

(* A request that could not be made ends the attempt, and so does an       *)
(* answer without the message the client needs next.                       *)
ReadFailure(c) ==
    /\ \/ pc[c] \in Waits /\ inbox[c] = Broken
       \/ pc[c] \in {"msg1", "msg3"} /\ inbox[c] = Failure
    /\ GiveUp(c)
    /\ UNCHANGED <<spVars, attempt, gb, secret, requests, faults>>

-----------------------------------------------------------------------------
(***************************************************************************)
(* Connections and processes that fail.                                    *)
(***************************************************************************)

(* The client stops; what it sent may still reach the provider.            *)
Abandon(c) ==
    /\ pc[c] \in Waits
    /\ GiveUp(c)
    /\ Fault
    /\ UNCHANGED <<spVars, attempt, gb, secret, requests>>

(* A connection ends before the provider has read the request: the client  *)
(* sees it broken, or the end of the stream.                               *)
Disconnect(r) ==
    /\ \E m \in {Failure, Broken} : Respond(r, m)
    /\ Fault
    /\ UNCHANGED <<spVars, clientVars>>

(* The provider restarts: its globals are lost and its connections close.  *)
Restart ==
    /\ Fault
    /\ registered' = FALSE /\ group' = NoGroup /\ db' = EmptyDb
    /\ requests' = {}
    /\ \E broken \in SUBSET Clients :
          inbox' = [c \in Clients |->
                      IF pc[c] \notin Waits \/ inbox[c] # Nothing THEN inbox[c]
                      ELSE IF c \in broken THEN Broken ELSE Failure]
    /\ UNCHANGED <<nextB, clientVars>>

-----------------------------------------------------------------------------

Init ==
    /\ registered = FALSE /\ group = NoGroup /\ db = EmptyDb /\ nextB = 1
    /\ requests = {}
    /\ pc = [c \in Clients |-> "idle"]
    /\ attempt = [c \in Clients |-> 0]
    /\ gb = [c \in Clients |-> 0]
    /\ secret = [c \in Clients |-> FALSE]
    /\ inbox = [c \in Clients |-> Nothing]
    /\ faults = 0

Provider(r) ==
    sp_ra_proc_msg0_req(r) \/ sp_ra_proc_msg1_req(r) \/ sp_ra_proc_msg3_req(r)

Client(c) ==
    GetMsg1(c) \/ ProcMsg2(c) \/ ReadResult(c) \/ ReadFailure(c)

Next ==
    \/ \E r \in requests : Provider(r) \/ Disconnect(r)
    \/ \E c \in Clients : Start(c) \/ Client(c) \/ Abandon(c)
    \/ Restart

Spec == Init /\ [][Next]_vars

(* The server handles what it has received, and a client that has a        *)
(* response goes on.  Nobody has to start an attestation.                  *)
FairSpec ==
    /\ Spec
    /\ WF_vars(\E r \in requests : Provider(r))
    /\ \A c \in Clients : WF_vars(Client(c))

-----------------------------------------------------------------------------

Responses ==
    {Nothing, Failure, Broken, Accepted}
    \cup [type : {"msg2"}, ga : PublicKeys, gb : Nat \ {0}, mac : DhKeys]
    \cup [type : {"result"}, status : BOOLEAN,
          mac : DhKeys \cup {NoKey}, payload : DhKeys \cup {NoKey}]

(* The type invariant.  Besides the shapes: a registered provider always   *)
(* has a group whose callbacks it can call.                                *)
TypeOK ==
    /\ registered \in BOOLEAN
    /\ group \in SupportedGroups \cup {NoGroup}
    /\ registered => group # NoGroup
    /\ db \in [ga : PublicKeys \cup {NoKey}, gb : Nat,
               smk : DhKeys \cup {NoKey}, mk : DhKeys \cup {NoKey},
               sk : DhKeys \cup {NoKey}, vk : DhKeys \cup {NoKey}]
    /\ nextB \in Nat \ {0}
    /\ requests \subseteq Requests
    /\ pc \in [Clients -> Waits \cup {"idle", "done"}]
    /\ attempt \in [Clients -> 0 .. MaxAttempts]
    /\ gb \in [Clients -> Nat]
    /\ secret \in [Clients -> BOOLEAN]
    /\ inbox \in [Clients -> Responses]
    /\ faults \in 0 .. MaxFaults

(* The number of the key pair a stored key comes from, 0 for none.         *)
Age(k) == IF k = NoKey THEN 0 ELSE k.b

(* However many calls of the message 1 handler stopped half way, a stored  *)
(* key is never newer than one the handler stores before it, and two keys  *)
(* that come from the same key pair come from the same exchange.           *)
KeysAgeInOrder ==
    /\ Age(db.smk) >= Age(db.mk)
    /\ Age(db.mk) >= Age(db.sk)
    /\ Age(db.sk) >= Age(db.vk)
    /\ \A k, l \in {db.smk, db.mk, db.sk, db.vk} : Age(k) = Age(l) => k = l

(* Whenever the provider answers a client with a result, the keys it used  *)
(* are those of this client's present exchange, both for the MAC and for   *)
(* the secret, although all clients share one session that may be half     *)
(* overwritten.                                                            *)
ResultBoundToSession ==
    \A c \in Clients :
        inbox[c].type = "result" =>
            /\ pc[c] = "msg3"
            /\ inbox[c].mac = OwnKey(c)
            /\ inbox[c].payload \in {OwnKey(c), NoKey}

(* Only message 0 looks at a client's group, and its refusal stops nobody: *)
(* the registration one client leaves serves all.  What is left of the     *)
(* check is that no secret is given away before a client of a supported    *)
(* group has asked for it.                                                 *)
SupportedAskedFirst ==
    (\E c \in Clients : secret[c]) => \E c \in Clients \ Foreign : attempt[c] > 0

(* Nobody attests at the moment.                                           *)
AtRest == requests = {} /\ \A c \in Clients : pc[c] \in {"idle", "done"}

(* Clients that attest at the same time take the one session from each     *)
(* other, and a message 3 that finds another's session fails.  As long as  *)
(* nothing has failed from outside, the last one to take it cannot fail:   *)
(* by the time they have all come to an end somebody has got the secret, if *)
(* a client of a supported group has tried.                                *)
LastExchangeSucceeds ==
    /\ faults = 0 /\ AtRest
    /\ \E c \in Clients \ Foreign : attempt[c] > 0
    => \E c \in Clients : secret[c]

(* This client has made its last attempt.                                  *)
Retired(c) ==
    \/ pc[c] = "done"
    \/ pc[c] = "idle" /\ attempt[c] = MaxAttempts

(* Nothing disturbs this client's present attempt any more.                *)
Undisturbed(c) ==
    /\ faults = MaxFaults
    /\ c \notin Foreign
    /\ \A d \in Clients \ {c} : Retired(d)
    /\ \A r \in requests : r.from = c /\ r.n = attempt[c]

(* When connections, calls and processes stop failing, nothing of another  *)
(* attempt is still on its way and nobody else attests any more, an        *)
(* attempt that has begun delivers the secret, whatever the failures and   *)
(* the other clients before it left in the provider's globals.             *)
UndisturbedSucceeds ==
    \A c \in Clients : (pc[c] = "msg0" /\ inbox[c] = Nothing /\ Undisturbed(c))
                           ~> pc[c] = "done"

(* The safe half of it, which needs no fairness: such an attempt never     *)
(* fails on its way to the secret.                                         *)
UndisturbedNeverFails ==
    \A c \in Clients :
        [](pc[c] = "msg0" /\ inbox[c] = Nothing /\ Undisturbed(c)
              => [](pc[c] # "idle"))

(* The provider and its clients implement Attestation: the session is held *)
(* by the client whose exchange was stored as a whole last, and whatever   *)
(* the handlers left half done, only that client, and only with its        *)
(* present attempt, is given the secret.                                   *)
Promise == INSTANCE Attestation WITH
    Nobody <- NoKey,
    holder <- IF db = Exchange(db.ga, db.gb) THEN db.ga ELSE NoKey,
    offered <- {c \in Clients : inbox[c].type = "result" /\ inbox[c].status},
    trusted <- {c \in Clients : secret[c]}

AttestsInTurn == Promise!Spec

=============================================================================
