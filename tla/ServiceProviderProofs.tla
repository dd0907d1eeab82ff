------------------------ MODULE ServiceProviderProofs ------------------------
(***************************************************************************)
(* The service provider's session, for any number of clients, attempts,    *)
(* failed calls, lost connections and restarts.                            *)
(***************************************************************************)
EXTENDS ServiceProvider, TLAPS

(* What a response to one request can change in the inboxes.               *)
LEMMA RespondEffect ==
    ASSUME TypeOK, NEW r \in requests, NEW m \in Responses, Respond(r, m)
    PROVE  /\ requests' \subseteq requests
           /\ inbox' \in [Clients -> Responses]
           /\ \A c \in Clients :
                 \/ inbox'[c] = inbox[c]
                 \/ /\ c = r.from /\ inbox'[c] = m
                    /\ pc[c] = r.type /\ attempt[c] = r.n
                    /\ inbox[c] = Nothing
<1>1. r \in Requests /\ r.from \in Clients
  BY DEF TypeOK, Requests
<1>2. inbox \in [Clients -> Responses]
  BY DEF TypeOK
<1>3. requests' \subseteq requests
  BY DEF Respond
<1>4. CASE Awaits(r)
  <2>1. inbox' = [inbox EXCEPT ![r.from] = m]
    BY <1>4 DEF Respond
  <2> QED
    BY <1>1, <1>2, <1>3, <1>4, <2>1 DEF Awaits
<1>5. CASE ~Awaits(r)
  <2>1. inbox' = inbox
    BY <1>5 DEF Respond
  <2> QED
    BY <1>2, <1>3, <2>1
<1> QED
  BY <1>4, <1>5

(* The plain responses are responses.                                      *)
LEMMA PlainResponses ==
    {Nothing, Failure, Broken, Accepted} \subseteq Responses
BY DEF Responses

(* The request a client sends is one.                                      *)
LEMMA SendType ==
    ASSUME TypeOK, NEW c \in Clients, NEW type \in Waits, NEW b \in Nat,
           attempt' \in [Clients -> 0 .. MaxAttempts], Send(c, type, b)
    PROVE  requests' \subseteq Requests
<1>1. attempt'[c] \in Nat
  BY BoundsAssumption
<1>2. [type |-> type, from |-> c, n |-> attempt'[c], gb |-> b] \in Requests
  BY <1>1 DEF Requests
<1> QED
  BY <1>2 DEF TypeOK, Send

(* Storing part of an exchange keeps the session well formed.              *)
LEMMA StoreType ==
    ASSUME TypeOK, NEW a \in PublicKeys, NEW stored \in 0 .. AllStored,
           db' = Store(a, nextB, stored)
    PROVE  /\ db' \in [ga : PublicKeys \cup {NoKey}, gb : Nat,
                       smk : DhKeys \cup {NoKey}, mk : DhKeys \cup {NoKey},
                       sk : DhKeys \cup {NoKey}, vk : DhKeys \cup {NoKey}]
           /\ stored = AllStored =>
                 /\ db'.ga \in PublicKeys
                 /\ db'.gb \in Nat \ {0}
                 /\ db'.smk \in DhKeys
<1> DEFINE k == [a |-> a, b |-> nextB]
           e == Exchange(a, nextB)
           st(s) == StoreOrder[s] <= stored
<1>1. nextB \in Nat \ {0} /\ k \in DhKeys
  BY DEF TypeOK, DhKeys
<1>2. /\ e.ga = a /\ e.gb = nextB
      /\ e.smk = k /\ e.mk = k /\ e.sk = k /\ e.vk = k
  BY DEF Exchange
<1>3. /\ db'["ga"] = IF st("ga") THEN a ELSE db.ga
      /\ db'["gb"] = IF st("gb") THEN nextB ELSE db.gb
      /\ db'["smk"] = IF st("smk") THEN k ELSE db.smk
      /\ db'["mk"] = IF st("mk") THEN k ELSE db.mk
      /\ db'["sk"] = IF st("sk") THEN k ELSE db.sk
      /\ db'["vk"] = IF st("vk") THEN k ELSE db.vk
  BY <1>2 DEF Store, Slots
<1>4. db' = [ga |-> db'["ga"], gb |-> db'["gb"], smk |-> db'["smk"],
             mk |-> db'["mk"], sk |-> db'["sk"], vk |-> db'["vk"]]
  BY DEF Store, Slots
<1>5. stored = AllStored => st("ga") /\ st("gb") /\ st("smk")
  BY DEF StoreOrder, AllStored
<1>6. /\ db.ga \in PublicKeys \cup {NoKey} /\ db.gb \in Nat
      /\ db.smk \in DhKeys \cup {NoKey} /\ db.mk \in DhKeys \cup {NoKey}
      /\ db.sk \in DhKeys \cup {NoKey} /\ db.vk \in DhKeys \cup {NoKey}
  BY DEF TypeOK
<1>7. /\ db'["ga"] \in PublicKeys \cup {NoKey} /\ db'["gb"] \in Nat
      /\ db'["smk"] \in DhKeys \cup {NoKey} /\ db'["mk"] \in DhKeys \cup {NoKey}
      /\ db'["sk"] \in DhKeys \cup {NoKey} /\ db'["vk"] \in DhKeys \cup {NoKey}
  BY <1>1, <1>3, <1>6
<1> HIDE DEF k, e, st
<1> QED
  BY <1>1, <1>3, <1>4, <1>5, <1>7

-----------------------------------------------------------------------------

(* A message 0 handler keeps the types, and a registration has a group.    *)
LEMMA Msg0Type ==
    ASSUME TypeOK, NEW r \in requests, sp_ra_proc_msg0_req(r)
    PROVE  TypeOK'
<1> USE BoundsAssumption
<1>1. CASE Msg0Known(r)
  BY <1>1, RespondEffect, PlainResponses
     DEF Msg0Known, TypeOK, NoFault, spVars, clientVars
<1>2. CASE Msg0Unsupported(r)
  BY <1>2, RespondEffect, PlainResponses
     DEF Msg0Unsupported, TypeOK, NoFault, spVars, clientVars
<1>3. ASSUME NEW enrolled \in BOOLEAN, Msg0Enroll(r, enrolled)
      PROVE  TypeOK'
  <2> DEFINE m == IF enrolled THEN Accepted ELSE Failure
  <2>1. m \in Responses /\ Respond(r, m)
    BY <1>3, PlainResponses DEF Msg0Enroll
  <2>2. requests' \subseteq Requests /\ inbox' \in [Clients -> Responses]
    BY <2>1, RespondEffect DEF TypeOK
  <2>3. faults' \in 0 .. MaxFaults
    BY <1>3 DEF Msg0Enroll, TypeOK, NoFault, Fault
  <2>4. /\ group' \in SupportedGroups /\ registered' \in BOOLEAN
        /\ NoGroup \notin SupportedGroups
    BY <1>3 DEF Msg0Enroll, TypeOK, SupportedGroups, NoGroup
  <2>5. registered' => group' # NoGroup
    BY <2>4
  <2> QED
    BY <1>3, <2>2, <2>3, <2>4, <2>5 DEF Msg0Enroll, TypeOK, clientVars
<1> QED
  BY <1>1, <1>2, <1>3 DEF sp_ra_proc_msg0_req

(* A message 1 handler keeps the types wherever it stops.                  *)
LEMMA Msg1Type ==
    ASSUME TypeOK, NEW r \in requests, sp_ra_proc_msg1_req(r)
    PROVE  TypeOK'
<1> USE BoundsAssumption
<1>1. CASE Msg1Unregistered(r)
  BY <1>1, RespondEffect, PlainResponses
     DEF Msg1Unregistered, TypeOK, NoFault, spVars, clientVars
<1>2. ASSUME NEW stored \in 0 .. AllStored, NEW replied \in BOOLEAN,
             Msg1Exchange(r, stored, replied)
      PROVE  TypeOK'
  <2>1. KeyA(r) \in PublicKeys
    BY DEF TypeOK, Requests, KeyA, PublicKeys
  <2>2. /\ db' \in [ga : PublicKeys \cup {NoKey}, gb : Nat,
                    smk : DhKeys \cup {NoKey}, mk : DhKeys \cup {NoKey},
                    sk : DhKeys \cup {NoKey}, vk : DhKeys \cup {NoKey}]
        /\ stored = AllStored =>
              /\ db'.ga \in PublicKeys
              /\ db'.gb \in Nat \ {0}
              /\ db'.smk \in DhKeys
    BY <1>2, <2>1, StoreType DEF Msg1Exchange
  <2> DEFINE m == IF replied THEN Msg2 ELSE Failure
  <2>3. m \in Responses
    <3>1. replied => stored = AllStored
      BY <1>2 DEF Msg1Exchange
    <3>2. replied => Msg2 \in Responses
      BY <2>2, <3>1 DEF Msg2, Responses
    <3> QED
      BY <3>2, PlainResponses
  <2>4. Respond(r, m)
    BY <1>2 DEF Msg1Exchange
  <2>5. requests' \subseteq Requests /\ inbox' \in [Clients -> Responses]
    BY <2>3, <2>4, RespondEffect DEF TypeOK
  <2>6. nextB' \in Nat \ {0}
    BY <1>2 DEF Msg1Exchange, TypeOK
  <2>7. faults' \in 0 .. MaxFaults
    BY <1>2 DEF Msg1Exchange, TypeOK, NoFault, Fault
  <2> QED
    BY <1>2, <2>2, <2>5, <2>6, <2>7 DEF Msg1Exchange, TypeOK, clientVars
<1> QED
  BY <1>1, <1>2 DEF sp_ra_proc_msg1_req

(* The result the message 3 handler builds is a response.                  *)
LEMMA AttResultType ==
    ASSUME TypeOK, NEW verdict \in BOOLEAN
    PROVE  AttResult(verdict) \in Responses
<1>1. db.mk \in DhKeys \cup {NoKey} /\ db.sk \in DhKeys \cup {NoKey}
  BY DEF TypeOK
<1> QED
  BY <1>1 DEF AttResult, Responses

(* A message 3 handler keeps the types.                                    *)
LEMMA Msg3Type ==
    ASSUME TypeOK, NEW r \in requests, sp_ra_proc_msg3_req(r)
    PROVE  TypeOK'
<1> USE BoundsAssumption
<1>1. CASE Msg3Reject(r)
  BY <1>1, RespondEffect, PlainResponses
     DEF Msg3Reject, TypeOK, NoFault, spVars, clientVars
<1>2. CASE Msg3Fail(r)
  BY <1>2, RespondEffect, PlainResponses
     DEF Msg3Fail, TypeOK, Fault, spVars, clientVars
<1>3. ASSUME NEW verdict \in BOOLEAN, Msg3Answer(r, verdict)
      PROVE  TypeOK'
  <2>1. AttResult(verdict) \in Responses
    BY AttResultType
  <2> QED
    BY <1>3, <2>1, RespondEffect
       DEF Msg3Answer, TypeOK, Fault, NoFault, spVars, clientVars
<1> QED
  BY <1>1, <1>2, <1>3
     DEF sp_ra_proc_msg3_req, ias_verify_attestation_evidence

(* The clients and the failures keep the types.                            *)
LEMMA ClientType ==
    ASSUME TypeOK, NEW c \in Clients, Start(c) \/ Client(c) \/ Abandon(c)
    PROVE  TypeOK'
<1> USE BoundsAssumption, PlainResponses
<1>1. CASE Start(c)
  <2>1. attempt' \in [Clients -> 0 .. MaxAttempts]
    BY <1>1 DEF Start, TypeOK
  <2>2. requests' \subseteq Requests
    BY <1>1, <2>1, SendType DEF Start, Waits
  <2> QED
    BY <1>1, <2>1, <2>2 DEF Start, TypeOK, spVars, Waits
<1>2. CASE GetMsg1(c)
  <2>1. requests' \subseteq Requests
    BY <1>2, SendType DEF GetMsg1, Waits, TypeOK
  <2> QED
    BY <1>2, <2>1 DEF GetMsg1, TypeOK, spVars, Waits
<1>3. CASE ProcMsg2(c)
  <2>1. inbox[c].gb \in Nat
    BY <1>3 DEF ProcMsg2, TypeOK, Responses, Nothing, Failure, Broken, Accepted
  <2>2. requests' \subseteq Requests
    BY <1>3, <2>1, SendType DEF ProcMsg2, Waits, TypeOK
  <2> QED
    BY <1>3, <2>1, <2>2 DEF ProcMsg2, TypeOK, spVars, Waits
<1>4. CASE ReadResult(c)
  <2>1. inbox[c].status \in BOOLEAN
    BY <1>4 DEF ReadResult, TypeOK, Responses, Nothing, Failure, Broken, Accepted
  <2> DEFINE delivered == /\ verify_att_result_mac(c) /\ inbox[c].status
                          /\ Decrypts(c)
  <2>2. /\ secret' = [secret EXCEPT ![c] = @ \/ delivered]
        /\ pc' = [pc EXCEPT ![c] = IF delivered THEN "done" ELSE "idle"]
    BY <1>4 DEF ReadResult
  <2>3. delivered \in BOOLEAN
    BY <2>1 DEF verify_att_result_mac, Decrypts
  <2> HIDE DEF delivered
  <2>4. secret' \in [Clients -> BOOLEAN]
    <3>1. (secret[c] \/ delivered) \in BOOLEAN
      BY Zenon
    <3>2. secret \in [Clients -> BOOLEAN]
      BY DEF TypeOK
    <3> DEFINE b == secret[c] \/ delivered
    <3>3. secret' = [secret EXCEPT ![c] = b]
      BY <2>2, Zenon
    <3> HIDE DEF b
    <3> QED
      BY <3>1, <3>2, <3>3, Zenon DEF b
  <2>5. pc' \in [Clients -> Waits \cup {"idle", "done"}]
    BY <2>2 DEF TypeOK
  <2> QED
    BY <1>4, <2>4, <2>5 DEF ReadResult, TypeOK, spVars
<1>5. CASE ReadFailure(c)
  BY <1>5 DEF ReadFailure, GiveUp, TypeOK, spVars
<1>6. CASE Abandon(c)
  BY <1>6 DEF Abandon, GiveUp, TypeOK, spVars, Fault
<1> QED
  BY <1>1, <1>2, <1>3, <1>4, <1>5, <1>6 DEF Client

(* Every step keeps the types.                                             *)
LEMMA TypeStep == TypeOK /\ [Next]_vars => TypeOK'
<1> SUFFICES ASSUME TypeOK, [Next]_vars PROVE TypeOK'
  OBVIOUS
<1>1. ASSUME NEW r \in requests, Provider(r) PROVE TypeOK'
  BY <1>1, Msg0Type, Msg1Type, Msg3Type DEF Provider
<1>2. ASSUME NEW r \in requests, Disconnect(r) PROVE TypeOK'
  BY <1>2, RespondEffect, PlainResponses, BoundsAssumption
     DEF Disconnect, TypeOK, Fault, spVars, clientVars
<1>3. ASSUME NEW c \in Clients, Start(c) \/ Client(c) \/ Abandon(c)
      PROVE  TypeOK'
  BY <1>3, ClientType
<1>4. CASE Restart
  <2>1. EmptyDb \in [ga : PublicKeys \cup {NoKey}, gb : Nat,
                     smk : DhKeys \cup {NoKey}, mk : DhKeys \cup {NoKey},
                     sk : DhKeys \cup {NoKey}, vk : DhKeys \cup {NoKey}]
    BY DEF EmptyDb
  <2>2. inbox' \in [Clients -> Responses]
    BY <1>4, PlainResponses DEF Restart, TypeOK
  <2>3. faults' \in 0 .. MaxFaults
    BY <1>4, BoundsAssumption DEF Restart, Fault, TypeOK
  <2>4. /\ ~registered' /\ registered' \in BOOLEAN /\ group' = NoGroup
        /\ db' = EmptyDb /\ requests' = {} /\ nextB' = nextB
        /\ pc' = pc /\ attempt' = attempt /\ gb' = gb /\ secret' = secret
    BY <1>4, Zenon DEF Restart, clientVars
  <2> QED
    BY <2>1, <2>2, <2>3, <2>4 DEF TypeOK
<1>5. CASE UNCHANGED vars
  BY <1>5 DEF TypeOK, vars, spVars, clientVars
<1> QED
  BY <1>1, <1>2, <1>3, <1>4, <1>5 DEF Next

(* The initial state is well typed.                                        *)
LEMMA TypeInit == Init => TypeOK
<1> SUFFICES ASSUME Init PROVE TypeOK
  OBVIOUS
<1>1. 0 \in 0 .. MaxAttempts /\ 0 \in 0 .. MaxFaults
  BY BoundsAssumption
<1>2. EmptyDb \in [ga : PublicKeys \cup {NoKey}, gb : Nat,
                   smk : DhKeys \cup {NoKey}, mk : DhKeys \cup {NoKey},
                   sk : DhKeys \cup {NoKey}, vk : DhKeys \cup {NoKey}]
  BY DEF EmptyDb
<1>3. /\ attempt \in [Clients -> 0 .. MaxAttempts] /\ gb \in [Clients -> Nat]
      /\ pc \in [Clients -> Waits \cup {"idle", "done"}]
      /\ inbox \in [Clients -> Responses]
  BY <1>1, PlainResponses DEF Init
<1>4. secret \in [Clients -> BOOLEAN]
  BY Zenon DEF Init
<1>5. /\ registered \in BOOLEAN /\ ~registered /\ group = NoGroup
      /\ db = EmptyDb /\ nextB = 1 /\ requests = {} /\ faults = 0
  BY Zenon DEF Init
<1> QED
  BY <1>1, <1>2, <1>3, <1>4, <1>5 DEF TypeOK

(* The type invariant of the provider and its clients.                     *)
THEOREM TypeCorrect == Spec => []TypeOK
BY TypeInit, TypeStep, PTL DEF Spec

-----------------------------------------------------------------------------

(* KeysAgeInOrder is inductive once no stored key comes from a key pair    *)
(* that has not been made.                                                 *)
Fresh ==
    /\ Age(db.smk) < nextB /\ Age(db.mk) < nextB
    /\ Age(db.sk) < nextB /\ Age(db.vk) < nextB

SessionInv == KeysAgeInOrder /\ Fresh

(* The age of a stored key is a number.                                    *)
LEMMA AgeType ==
    ASSUME NEW k \in DhKeys \cup {NoKey}
    PROVE  Age(k) \in Nat
BY DEF Age, DhKeys

(* Storing any part of an exchange keeps the keys in order.                *)
LEMMA StoreKeepsOrder ==
    ASSUME TypeOK, SessionInv,
           NEW a \in PublicKeys, NEW stored \in 0 .. AllStored,
           db' = Store(a, nextB, stored),
           nextB' = IF stored > 1 THEN nextB + 1 ELSE nextB
    PROVE  SessionInv'
<1> DEFINE k == [a |-> a, b |-> nextB]
<1>1. nextB \in Nat \ {0} /\ k \in DhKeys /\ k # NoKey
  BY NoKeyAssumption DEF TypeOK, DhKeys
<1>2. Age(k) = nextB
  BY <1>1 DEF Age
<1>3. /\ db'.smk = IF 3 <= stored THEN k ELSE db.smk
      /\ db'.mk = IF 4 <= stored THEN k ELSE db.mk
      /\ db'.sk = IF 5 <= stored THEN k ELSE db.sk
      /\ db'.vk = IF 6 <= stored THEN k ELSE db.vk
  BY DEF Store, Slots, StoreOrder, Exchange
<1>4. /\ Age(db.smk) \in Nat /\ Age(db.mk) \in Nat
      /\ Age(db.sk) \in Nat /\ Age(db.vk) \in Nat
  BY AgeType DEF TypeOK
<1> HIDE DEF k
<1>5. /\ Age(db'.smk) = IF 3 <= stored THEN nextB ELSE Age(db.smk)
      /\ Age(db'.mk) = IF 4 <= stored THEN nextB ELSE Age(db.mk)
      /\ Age(db'.sk) = IF 5 <= stored THEN nextB ELSE Age(db.sk)
      /\ Age(db'.vk) = IF 6 <= stored THEN nextB ELSE Age(db.vk)
  BY <1>2, <1>3
<1>6. Fresh'
  BY <1>1, <1>4, <1>5 DEF Fresh, SessionInv
<1>7. /\ Age(db'.smk) >= Age(db'.mk)
      /\ Age(db'.mk) >= Age(db'.sk)
      /\ Age(db'.sk) >= Age(db'.vk)
  BY <1>1, <1>4, <1>5 DEF Fresh, SessionInv, KeysAgeInOrder
<1>8. ASSUME NEW x \in {db'.smk, db'.mk, db'.sk, db'.vk},
             NEW y \in {db'.smk, db'.mk, db'.sk, db'.vk},
             Age(x) = Age(y)
      PROVE  x = y
  <2>1. /\ x = k \/ x \in {db.smk, db.mk, db.sk, db.vk}
        /\ y = k \/ y \in {db.smk, db.mk, db.sk, db.vk}
    BY <1>3
  <2>2. \A z \in {db.smk, db.mk, db.sk, db.vk} : Age(z) # nextB
    BY <1>1, <1>4 DEF Fresh, SessionInv
  <2> QED
    BY <1>2, <1>8, <2>1, <2>2 DEF SessionInv, KeysAgeInOrder
<1>9. KeysAgeInOrder'
  BY <1>7, <1>8 DEF KeysAgeInOrder
<1> QED
  BY <1>6, <1>9 DEF SessionInv

(* Every step keeps the keys in order: only message 1 and a restart write  *)
(* the session.                                                            *)
LEMMA SessionStep == TypeOK /\ SessionInv /\ [Next]_vars => SessionInv'
<1> SUFFICES ASSUME TypeOK, SessionInv, [Next]_vars PROVE SessionInv'
  OBVIOUS
<1>1. ASSUME UNCHANGED <<db, nextB>> PROVE SessionInv'
  BY <1>1 DEF SessionInv, KeysAgeInOrder, Fresh
<1>2. ASSUME NEW r \in requests, sp_ra_proc_msg1_req(r) PROVE SessionInv'
  <2>1. CASE Msg1Unregistered(r)
    BY <1>1, <2>1 DEF Msg1Unregistered, spVars
  <2>2. ASSUME NEW stored \in 0 .. AllStored, NEW replied \in BOOLEAN,
               Msg1Exchange(r, stored, replied)
        PROVE  SessionInv'
    <3>1. KeyA(r) \in PublicKeys
      BY DEF TypeOK, Requests, KeyA, PublicKeys
    <3> QED
      BY <2>2, <3>1, StoreKeepsOrder DEF Msg1Exchange
  <2> QED
    BY <1>2, <2>1, <2>2 DEF sp_ra_proc_msg1_req
<1>3. ASSUME NEW r \in requests,
             \/ sp_ra_proc_msg0_req(r) \/ sp_ra_proc_msg3_req(r)
             \/ Disconnect(r)
      PROVE  UNCHANGED <<db, nextB>>
  BY <1>3 DEF sp_ra_proc_msg0_req, sp_ra_proc_msg3_req, Disconnect, Msg0Known,
              Msg0Unsupported, Msg0Enroll, Msg3Reject, Msg3Fail, Msg3Answer,
              spVars
<1>4. ASSUME NEW c \in Clients, Start(c) \/ Client(c) \/ Abandon(c)
      PROVE  UNCHANGED <<db, nextB>>
  BY <1>4 DEF Start, Client, Abandon, GetMsg1, ProcMsg2, ReadResult,
              ReadFailure, spVars
<1>5. CASE Restart
  <2>1. db' = EmptyDb /\ nextB' = nextB
    BY <1>5 DEF Restart
  <2>2. nextB \in Nat \ {0} /\ Age(NoKey) = 0
    BY DEF TypeOK, Age
  <2> QED
    BY <2>1, <2>2 DEF SessionInv, KeysAgeInOrder, Fresh, EmptyDb
<1>6. CASE UNCHANGED vars
  BY <1>1, <1>6 DEF vars, spVars
<1> QED
  BY <1>1, <1>2, <1>3, <1>4, <1>5, <1>6 DEF Next, Provider

(* The first session is empty.                                             *)
LEMMA SessionInit == Init => SessionInv
<1> SUFFICES ASSUME Init PROVE SessionInv
  OBVIOUS
<1>1. db = EmptyDb /\ nextB = 1 /\ Age(NoKey) = 0
  BY Zenon DEF Init, Age
<1> QED
  BY <1>1 DEF SessionInv, KeysAgeInOrder, Fresh, EmptyDb

(* The keys of the session age in the order in which they are stored.      *)
THEOREM KeysOrdered == Spec => []KeysAgeInOrder
<1>1. Init => TypeOK /\ SessionInv
  BY TypeInit, SessionInit
<1>2. TypeOK /\ SessionInv /\ [Next]_vars => (TypeOK /\ SessionInv)'
  BY TypeStep, SessionStep
<1>3. SessionInv => KeysAgeInOrder
  BY DEF SessionInv
<1> QED
  BY <1>1, <1>2, <1>3, PTL DEF Spec

-----------------------------------------------------------------------------

(* A message 3 in flight for a client's present attempt carries the g_b    *)
(* this client derived its keys from: message 3 is the last one it sends.  *)
Msg3Current ==
    \A r \in requests :
        /\ r.n <= attempt[r.from]
        /\ r.type = "msg3" /\ r.n = attempt[r.from] =>
              /\ r.gb = gb[r.from]
              /\ pc[r.from] \notin {"msg0", "msg1"}

ResultInv == Msg3Current /\ ResultBoundToSession

(* A message 3 is accepted only if all four keys of the session are the    *)
(* keys its sender derived.                                                *)
LEMMA AcceptedKeys ==
    ASSUME TypeOK, KeysAgeInOrder, NEW r \in requests, Accepts(r)
    PROVE  db.mk = KeyAB(r) /\ db.sk = KeyAB(r)
<1>1. KeyAB(r) \in [a : PublicKeys, b : Nat] /\ KeyAB(r) # NoKey
  BY NoKeyAssumption DEF TypeOK, Requests, KeyAB, KeyA, PublicKeys
<1>2. db.smk = KeyAB(r) /\ db.vk = KeyAB(r)
  BY DEF Accepts, CmacVerifies, ReportMatches
<1>3. /\ Age(db.smk) \in Nat /\ Age(db.mk) \in Nat
      /\ Age(db.sk) \in Nat /\ Age(db.vk) \in Nat
  BY AgeType DEF TypeOK
<1>4. Age(db.mk) = Age(db.smk) /\ Age(db.sk) = Age(db.smk)
  BY <1>2, <1>3 DEF KeysAgeInOrder
<1> QED
  BY <1>2, <1>4 DEF KeysAgeInOrder

(* A step of the provider changes nothing that ResultInv speaks about but  *)
(* requests it removes and an inbox it fills.                              *)
LEMMA ProviderResult ==
    ASSUME TypeOK, ResultInv, NEW r \in requests, NEW m \in Responses,
           Respond(r, m), UNCHANGED clientVars,
           m.type = "result" /\ Awaits(r) =>
               /\ r.type = "msg3"
               /\ m.mac = KeyAB(r) /\ m.payload \in {KeyAB(r), NoKey}
    PROVE  ResultInv'
<1>1. /\ requests' \subseteq requests
      /\ \A c \in Clients :
            \/ inbox'[c] = inbox[c]
            \/ /\ c = r.from /\ inbox'[c] = m
               /\ pc[c] = r.type /\ attempt[c] = r.n /\ inbox[c] = Nothing
  BY RespondEffect
<1>2. pc' = pc /\ attempt' = attempt /\ gb' = gb
  BY DEF clientVars
<1>3. Msg3Current'
  BY <1>1, <1>2 DEF Msg3Current, ResultInv
<1>4. ASSUME NEW c \in Clients, inbox'[c].type = "result"
      PROVE  /\ pc'[c] = "msg3"
             /\ inbox'[c].mac = OwnKey(c)'
             /\ inbox'[c].payload \in {OwnKey(c)', NoKey}
  <2>1. OwnKey(c)' = OwnKey(c)
    BY <1>2 DEF OwnKey, OwnA
  <2>2. CASE inbox'[c] = inbox[c]
    BY <1>2, <1>4, <2>1, <2>2 DEF ResultInv, ResultBoundToSession
  <2>3. CASE /\ c = r.from /\ inbox'[c] = m
             /\ pc[c] = r.type /\ attempt[c] = r.n /\ inbox[c] = Nothing
    <3>1. m.type = "result" /\ Awaits(r)
      BY <1>4, <2>3 DEF Awaits
    <3>2. r.gb = gb[c]
      BY <2>3, <3>1 DEF ResultInv, Msg3Current
    <3>3. KeyAB(r) = OwnKey(c)
      BY <2>3, <3>2 DEF KeyAB, KeyA, OwnKey, OwnA
    <3> QED
      BY <1>2, <2>1, <2>3, <3>1, <3>3
  <2> QED
    BY <1>1, <2>2, <2>3
<1>5. ResultBoundToSession'
  BY <1>4 DEF ResultBoundToSession
<1> QED
  BY <1>3, <1>5 DEF ResultInv

(* Every step keeps results bound to the session of their client.          *)
LEMMA ResultStep ==
    TypeOK /\ KeysAgeInOrder /\ ResultInv /\ [Next]_vars => ResultInv'
<1> SUFFICES ASSUME TypeOK, KeysAgeInOrder, ResultInv, [Next]_vars
             PROVE  ResultInv'
  OBVIOUS
<1> DEFINE plain(m) == m.type # "result"
<1>1. plain(Failure) /\ plain(Broken) /\ plain(Accepted) /\ plain(Nothing)
  BY DEF Failure, Broken, Accepted, Nothing
<1>2. ASSUME NEW r \in requests, NEW m \in {Failure, Broken, Accepted},
             Respond(r, m), UNCHANGED clientVars
      PROVE  ResultInv'
  BY <1>1, <1>2, PlainResponses, ProviderResult
<1>3. ASSUME NEW r \in requests,
             \/ sp_ra_proc_msg0_req(r) \/ Msg1Unregistered(r)
             \/ Msg3Reject(r) \/ Msg3Fail(r) \/ Disconnect(r)
      PROVE  ResultInv'
  BY <1>2, <1>3 DEF sp_ra_proc_msg0_req, Msg0Known, Msg0Unsupported,
                    Msg0Enroll, Msg1Unregistered, Msg3Reject, Msg3Fail,
                    Disconnect
<1>4. ASSUME NEW r \in requests, NEW stored \in 0 .. AllStored,
             NEW replied \in BOOLEAN, Msg1Exchange(r, stored, replied)
      PROVE  ResultInv'
  <2>1. CASE ~replied
    BY <1>2, <1>4, <2>1 DEF Msg1Exchange
  <2>2. CASE replied
    <3>1. KeyA(r) \in PublicKeys
      BY DEF TypeOK, Requests, KeyA, PublicKeys
    <3>2. /\ db'.ga \in PublicKeys /\ db'.gb \in Nat \ {0}
          /\ db'.smk \in DhKeys
      BY <1>4, <2>2, <3>1, StoreType DEF Msg1Exchange
    <3>3. Msg2 \in Responses /\ plain(Msg2)
      BY <3>2 DEF Msg2, Responses
    <3> QED
      BY <1>4, <2>2, <3>3, ProviderResult DEF Msg1Exchange
  <2> QED
    BY <2>1, <2>2
<1>5. ASSUME NEW r \in requests, NEW verdict \in BOOLEAN,
             Msg3Answer(r, verdict)
      PROVE  ResultInv'
  <2> DEFINE m == AttResult(verdict)
  <2>1. m \in Responses
    BY AttResultType
  <2>2. r.type = "msg3" /\ m.mac = KeyAB(r) /\ m.payload \in {KeyAB(r), NoKey}
    BY <1>5, AcceptedKeys DEF Msg3Answer, AttResult
  <2>3. Respond(r, m) /\ UNCHANGED clientVars
    BY <1>5 DEF Msg3Answer
  <2> HIDE DEF m
  <2> QED
    BY <2>1, <2>2, <2>3, ProviderResult
<1>6. ASSUME NEW c \in Clients, Start(c) PROVE ResultInv'
  <2>1. /\ pc[c] = "idle" /\ attempt' = [attempt EXCEPT ![c] = @ + 1]
        /\ gb' = [gb EXCEPT ![c] = 0] /\ pc' = [pc EXCEPT ![c] = "msg0"]
        /\ inbox' = inbox
        /\ requests' = requests \cup
              {[type |-> "msg0", from |-> c, n |-> attempt'[c], gb |-> 0]}
    BY <1>6 DEF Start, Send
  <2>2. /\ attempt \in [Clients -> Nat] /\ requests \subseteq Requests
        /\ gb \in [Clients -> Nat]
        /\ pc \in [Clients -> Waits \cup {"idle", "done"}]
    BY BoundsAssumption DEF TypeOK
  <2>3. Msg3Current'
    <3> SUFFICES ASSUME NEW r \in requests'
                 PROVE  /\ r.n <= attempt'[r.from]
                        /\ r.type = "msg3" /\ r.n = attempt'[r.from] =>
                              /\ r.gb = gb'[r.from]
                              /\ pc'[r.from] \notin {"msg0", "msg1"}
      BY DEF Msg3Current
    <3>1. CASE r \in requests
      <4>1. /\ r.n \in Nat /\ r.from \in Clients
            /\ r.n <= attempt[r.from]
            /\ r.type = "msg3" /\ r.n = attempt[r.from] =>
                  /\ r.gb = gb[r.from]
                  /\ pc[r.from] \notin {"msg0", "msg1"}
        BY <2>2, <3>1 DEF Requests, ResultInv, Msg3Current
      <4> QED
        BY <2>1, <2>2, <4>1
    <3>2. CASE r \notin requests
      BY <2>1, <2>2, <3>2
    <3> QED
      BY <3>1, <3>2
  <2>4. ResultBoundToSession'
    BY <2>1, <2>2 DEF ResultInv, ResultBoundToSession, OwnKey, OwnA
  <2> QED
    BY <2>3, <2>4 DEF ResultInv
<1>7. ASSUME NEW c \in Clients, NEW type \in {"msg1", "msg3"},
             NEW b \in Nat, Send(c, type, b), attempt' = attempt,
             pc[c] \in {"msg0", "msg1"}, pc' = [pc EXCEPT ![c] = type],
             inbox' = [inbox EXCEPT ![c] = Nothing],
             gb' = [gb EXCEPT ![c] = IF type = "msg3" THEN b ELSE gb[c]]
      PROVE  ResultInv'
  <2>1. /\ attempt \in [Clients -> Nat] /\ requests \subseteq Requests
        /\ gb \in [Clients -> Nat] /\ inbox \in [Clients -> Responses]
        /\ pc \in [Clients -> Waits \cup {"idle", "done"}]
    BY BoundsAssumption DEF TypeOK
  <2>2. Msg3Current'
    <3> SUFFICES ASSUME NEW r \in requests'
                 PROVE  /\ r.n <= attempt'[r.from]
                        /\ r.type = "msg3" /\ r.n = attempt'[r.from] =>
                              /\ r.gb = gb'[r.from]
                              /\ pc'[r.from] \notin {"msg0", "msg1"}
      BY DEF Msg3Current
    <3>1. CASE r \in requests
      <4>1. /\ r.n \in Nat /\ r.from \in Clients
            /\ r.n <= attempt[r.from]
            /\ r.type = "msg3" /\ r.n = attempt[r.from] =>
                  /\ r.gb = gb[r.from]
                  /\ pc[r.from] \notin {"msg0", "msg1"}
        BY <2>1, <3>1 DEF Requests, ResultInv, Msg3Current
      <4> QED
        BY <1>7, <2>1, <4>1
    <3>2. CASE r = [type |-> type, from |-> c, n |-> attempt'[c], gb |-> b]
      BY <1>7, <2>1, <3>2
    <3> QED
      BY <1>7, <3>1, <3>2 DEF Send
  <2>3. ResultBoundToSession'
    BY <1>1, <1>7, <2>1
       DEF ResultInv, ResultBoundToSession, OwnKey, OwnA
  <2> QED
    BY <2>2, <2>3 DEF ResultInv
<1>8. ASSUME NEW c \in Clients, GetMsg1(c) PROVE ResultInv'
  <2>1. gb' = [gb EXCEPT ![c] = gb[c]]
    BY <1>8 DEF GetMsg1, TypeOK
  <2> QED
    BY <1>7, <1>8, <2>1 DEF GetMsg1
<1>9. ASSUME NEW c \in Clients, ProcMsg2(c) PROVE ResultInv'
  <2>1. inbox[c].gb \in Nat
    BY <1>9 DEF ProcMsg2, TypeOK, Responses, Nothing, Failure, Broken, Accepted
  <2> QED
    BY <1>7, <1>9, <2>1 DEF ProcMsg2
<1>10. ASSUME NEW c \in Clients, NEW s \in {"idle", "done"},
              pc' = [pc EXCEPT ![c] = s],
              inbox' = [inbox EXCEPT ![c] = Nothing],
              UNCHANGED <<attempt, gb, requests>>
       PROVE  ResultInv'
  <2>1. /\ pc \in [Clients -> Waits \cup {"idle", "done"}]
        /\ inbox \in [Clients -> Responses] /\ requests \subseteq Requests
    BY DEF TypeOK
  <2>2. Msg3Current'
    BY <1>10, <2>1 DEF ResultInv, Msg3Current, Requests
  <2>3. ResultBoundToSession'
    BY <1>1, <1>10, <2>1
       DEF ResultInv, ResultBoundToSession, OwnKey, OwnA
  <2> QED
    BY <2>2, <2>3 DEF ResultInv
<1>11. ASSUME NEW c \in Clients, ReadResult(c) PROVE ResultInv'
  <2>1. \E s \in {"idle", "done"} : pc' = [pc EXCEPT ![c] = s]
    BY <1>11, Zenon DEF ReadResult
  <2>2. /\ inbox' = [inbox EXCEPT ![c] = Nothing]
        /\ UNCHANGED <<attempt, gb, requests>>
    BY <1>11, Zenon DEF ReadResult
  <2> QED
    BY <1>10, <2>1, <2>2
<1>12. ASSUME NEW c \in Clients, ReadFailure(c) \/ Abandon(c)
       PROVE  ResultInv'
  BY <1>10, <1>12 DEF ReadFailure, Abandon, GiveUp
<1>13. CASE Restart
  <2>1. /\ requests' = {} /\ pc' = pc /\ attempt' = attempt /\ gb' = gb
        /\ \A c \in Clients : inbox'[c] \in {Failure, Broken, inbox[c]}
    BY <1>13 DEF Restart, clientVars
  <2> QED
    BY <1>1, <2>1
       DEF ResultInv, Msg3Current, ResultBoundToSession, OwnKey, OwnA
<1>14. CASE UNCHANGED vars
  BY <1>14 DEF vars, clientVars, ResultInv, Msg3Current,
               ResultBoundToSession, OwnKey, OwnA
<1> QED
  BY <1>3, <1>4, <1>5, <1>6, <1>8, <1>9, <1>11, <1>12, <1>13, <1>14
     DEF Next, Provider, Client, sp_ra_proc_msg1_req, sp_ra_proc_msg3_req,
         ias_verify_attestation_evidence

(* The provider answers with the keys of the client it answers, and with   *)
(* no others, whoever else has used the session.                           *)
THEOREM ResultBound == Spec => []ResultBoundToSession
<1>1. Init => TypeOK /\ SessionInv /\ ResultInv
  <2>1. Init => ResultInv
    BY DEF Init, ResultInv, Msg3Current, ResultBoundToSession, Nothing
  <2> QED
    BY <2>1, TypeInit, SessionInit
<1>2. TypeOK /\ SessionInv /\ ResultInv /\ [Next]_vars =>
          (TypeOK /\ SessionInv /\ ResultInv)'
  BY TypeStep, SessionStep, ResultStep DEF SessionInv
<1>3. ResultInv => ResultBoundToSession
  BY DEF ResultInv
<1> QED
  BY <1>1, <1>2, <1>3, PTL DEF Spec

-----------------------------------------------------------------------------

(* LastExchangeSucceeds speaks of states at rest.  While attestations run, *)
(* as long as nothing fails from outside, either nobody has taken the      *)
(* session and whoever has begun still has its message 1 before it, or the *)
(* client that took it last is on its way to the secret.                   *)
Quiet == faults = 0

Sent(c) == \E r \in requests : r.from = c

Awaited(c) ==
    \A r \in requests :
        r.from = c => /\ Awaits(r)
                      /\ r.gb = IF r.type = "msg3" THEN gb[c] ELSE 0

(* What the place a client has reached says of the provider.               *)
Reached(c) ==
    /\ pc[c] = "msg1" /\ c \notin Foreign => registered
    /\ pc[c] = "msg3" \/ inbox[c].type \in {"ok", "msg2", "result"} => registered
    /\ pc[c] = "msg3" \/ inbox[c].type = "msg2" => db.ga # NoKey
    /\ pc[c] \in {"idle", "done"} => inbox[c] = Nothing
    /\ pc[c] = "done" => secret[c]

(* A supported client fails only because another one took the session.     *)
Displaced(c) ==
    /\ inbox[c] # Broken
    /\ inbox[c] = Failure /\ c \notin Foreign =>
          pc[c] # "msg0" /\ db.ga # NoKey /\ db.ga # OwnA(c)

Sending(c) ==
    \/ pc[c] = "msg0" /\ (inbox[c] = Accepted \/ Sent(c))
    \/ pc[c] = "msg1" /\ Sent(c)

Owed(c) ==
    db.ga = NoKey /\ attempt[c] > 0 /\ c \notin Foreign => Sending(c)

OwnMsg2(c) == [type |-> "msg2", ga |-> OwnA(c), gb |-> db.gb, mac |-> db.smk]

OwnResult(c) ==
    [type |-> "result", status |-> TRUE,
     mac |-> OwnKey(c), payload |-> OwnKey(c)]

Succeeding(c) ==
    /\ db = Exchange(OwnA(c), db.gb)
    /\ \/ pc[c] = "done"
       \/ pc[c] = "msg1" /\ inbox[c] = OwnMsg2(c)
       \/ /\ pc[c] = "msg3" /\ gb[c] = db.gb
          /\ Sent(c) \/ inbox[c] = OwnResult(c)

ClientInv(c) == Awaited(c) /\ Reached(c) /\ Displaced(c) /\ Owed(c)

Held == db.ga = NoKey \/ \E c \in Clients : Succeeding(c)

ContendInv == Quiet => (\A c \in Clients : ClientInv(c)) /\ Held

(* A step about one client that leaves the session alone disturbs nobody   *)
(* else.                                                                   *)
LEMMA OneClientMoves ==
    ASSUME \A d \in Clients : ClientInv(d), Held,
           NEW c \in Clients, db' = db, registered => registered',
           requests \subseteq Requests, requests' \subseteq Requests,
           \A d \in Clients \ {c} :
               /\ pc'[d] = pc[d] /\ attempt'[d] = attempt[d]
               /\ gb'[d] = gb[d] /\ secret'[d] = secret[d]
               /\ inbox'[d] = inbox[d],
           \A r \in Requests :
               r.from # c => (r \in requests' <=> r \in requests),
           ClientInv(c)', Succeeding(c) => Succeeding(c)'
    PROVE  (\A d \in Clients : ClientInv(d)') /\ Held'
<1>1. ASSUME NEW d \in Clients, d # c PROVE Sent(d)' <=> Sent(d)
  BY <1>1 DEF Sent
<1>2. ASSUME NEW d \in Clients, d # c PROVE OwnA(d)' = OwnA(d)
  BY <1>2 DEF OwnA
<1>3. ASSUME NEW d \in Clients, d # c PROVE ClientInv(d)'
  <2>1. Awaited(d)'
    <3> SUFFICES ASSUME NEW r \in requests', r.from = d
                 PROVE  /\ Awaits(r)'
                        /\ r.gb = IF r.type = "msg3" THEN gb'[d] ELSE 0
      BY DEF Awaited
    <3>1. r \in requests
      BY <1>3
    <3>2. Awaits(r) /\ r.gb = IF r.type = "msg3" THEN gb[d] ELSE 0
      BY <3>1 DEF ClientInv, Awaited
    <3> QED
      BY <1>3, <3>2 DEF Awaits
  <2>2. Reached(d)'
    BY <1>3 DEF ClientInv, Reached
  <2>3. Displaced(d)'
    BY <1>2, <1>3 DEF ClientInv, Displaced
  <2>4. Owed(d)'
    BY <1>1, <1>3 DEF ClientInv, Owed, Sending
  <2> QED
    BY <2>1, <2>2, <2>3, <2>4 DEF ClientInv
<1>4. ASSUME NEW d \in Clients, d # c, Succeeding(d) PROVE Succeeding(d)'
  <2>1. OwnMsg2(d)' = OwnMsg2(d) /\ OwnResult(d)' = OwnResult(d)
    BY <1>2, <1>4 DEF OwnMsg2, OwnResult, OwnKey
  <2> QED
    BY <1>1, <1>2, <1>4, <2>1 DEF Succeeding, Exchange
<1> QED
  BY <1>3, <1>4 DEF Held

(* The requests under way that are not the one a client waits for are      *)
(* those of other clients.                                                 *)
LEMMA OneRequestEach ==
    ASSUME requests \subseteq Requests, NEW r \in requests,
           Awaited(r.from), NEW q \in requests, q.from = r.from
    PROVE  q = r
<1>1. /\ q.type = r.type /\ q.n = r.n /\ q.gb = r.gb
  BY DEF Awaited, Awaits
<1>2. /\ q = [type |-> q.type, from |-> q.from, n |-> q.n, gb |-> q.gb]
      /\ r = [type |-> r.type, from |-> r.from, n |-> r.n, gb |-> r.gb]
  BY DEF Requests
<1> QED
  BY <1>1, <1>2

(* The provider's answer to a client that waits, the session untouched.    *)
LEMMA AnswerMoves ==
    ASSUME TypeOK, \A d \in Clients : ClientInv(d), Held,
           NEW r \in requests, NEW m \in Responses, Respond(r, m),
           UNCHANGED <<db, clientVars>>, registered => registered',
           m.type \in {"ok", "error", "result"},
           m = Accepted => r.type = "msg0" /\ registered',
           m.type = "result" => registered',
           m = Failure /\ r.from \notin Foreign =>
               r.type # "msg0" /\ db.ga # NoKey /\ db.ga # KeyA(r),
           db.ga = NoKey /\ r.from \notin Foreign =>
               m = Accepted,
           Succeeding(r.from) => m = OwnResult(r.from)
    PROVE  (\A d \in Clients : ClientInv(d)') /\ Held'
<1> DEFINE c == r.from
<1>1. /\ r \in Requests /\ c \in Clients /\ requests \subseteq Requests
      /\ r.type \in Waits
  BY DEF TypeOK, Requests
<1>2. /\ inbox \in [Clients -> Responses]
      /\ pc \in [Clients -> Waits \cup {"idle", "done"}]
  BY DEF TypeOK
<1>3. Awaits(r)
  BY <1>1 DEF ClientInv, Awaited
<1>4. requests' = requests \ {r} /\ inbox' = [inbox EXCEPT ![c] = m]
  BY <1>3 DEF Respond
<1>5. /\ pc' = pc /\ attempt' = attempt /\ gb' = gb /\ secret' = secret
      /\ db' = db
  BY DEF clientVars
<1>6. inbox'[c] = m /\ inbox[c] = Nothing /\ pc[c] = r.type /\ attempt[c] = r.n
  BY <1>1, <1>2, <1>3, <1>4 DEF Awaits
<1>7. ~Sent(c)'
  BY <1>1, <1>4, OneRequestEach DEF Sent, ClientInv
<1>8. KeyA(r) = OwnA(c)
  BY <1>6 DEF KeyA, OwnA
<1>9. ClientInv(c)'
  <2>1. Awaited(c)'
    BY <1>7 DEF Awaited, Sent
  <2>0. m.type = "ok" => m = Accepted
    BY DEF Responses, Nothing, Failure, Broken, Accepted
  <2>2. Reached(c)'
    BY <1>1, <1>5, <1>6, <2>0 DEF ClientInv, Reached, Waits, Nothing
  <2>3. Displaced(c)'
    BY <1>5, <1>6, <1>8 DEF Displaced, OwnA, Broken
  <2>4. Owed(c)'
    BY <1>5, <1>6 DEF Owed, Sending
  <2> QED
    BY <2>1, <2>2, <2>3, <2>4 DEF ClientInv
<1>10. ASSUME Succeeding(c) PROVE Succeeding(c)'
  <2>1. pc[c] = "msg3" /\ gb[c] = db.gb /\ db = Exchange(OwnA(c), db.gb)
    BY <1>1, <1>6, <1>10 DEF Succeeding, OwnMsg2, Nothing, Waits
  <2>2. inbox'[c] = OwnResult(c) /\ OwnResult(c)' = OwnResult(c)
    BY <1>5, <1>6, <1>10 DEF OwnResult, OwnKey, OwnA
  <2> QED
    BY <1>5, <2>1, <2>2 DEF Succeeding, OwnA, Exchange
<1> HIDE DEF c
<1> QED
  BY <1>1, <1>2, <1>4, <1>5, <1>9, <1>10, OneClientMoves DEF c

(* An exchange that stores everything makes its client the one that holds  *)
(* the session.                                                            *)
LEMMA ExchangeMoves ==
    ASSUME TypeOK, \A d \in Clients : ClientInv(d), registered,
           NEW r \in requests, r.type = "msg1",
           Msg1Exchange(r, AllStored, TRUE)
    PROVE  (\A d \in Clients : ClientInv(d)') /\ Held'
<1> DEFINE c == r.from
           k == [a |-> KeyA(r), b |-> nextB]
<1>1. /\ r \in Requests /\ c \in Clients /\ requests \subseteq Requests
      /\ KeyA(r) \in PublicKeys /\ KeyA(r) # NoKey
  BY NoKeyAssumption DEF TypeOK, Requests, KeyA, PublicKeys
<1>2. /\ inbox \in [Clients -> Responses]
      /\ pc \in [Clients -> Waits \cup {"idle", "done"}]
  BY DEF TypeOK
<1>3. Awaits(r)
  BY <1>1 DEF ClientInv, Awaited
<1>4. /\ requests' = requests \ {r}
      /\ inbox' = [inbox EXCEPT ![c] = Msg2]
      /\ registered' = registered
      /\ pc' = pc /\ attempt' = attempt /\ gb' = gb /\ secret' = secret
  BY <1>3 DEF Msg1Exchange, Respond, clientVars
<1>5. db' = Exchange(KeyA(r), nextB)
  <2>1. db' = Store(KeyA(r), nextB, AllStored)
    BY DEF Msg1Exchange
  <2>2. \A s \in Slots : StoreOrder[s] <= AllStored
    BY DEF Slots, StoreOrder, AllStored
  <2>3. db' = [s \in Slots |-> Exchange(KeyA(r), nextB)[s]]
    BY <2>1, <2>2 DEF Store
  <2> QED
    BY <2>3 DEF Exchange, Slots
<1>6. /\ db'.ga = KeyA(r) /\ db'.gb = nextB /\ db'.smk = k
      /\ db' = Exchange(db'.ga, db'.gb)
  BY <1>5 DEF Exchange
<1>7. /\ inbox'[c] = Msg2 /\ inbox[c] = Nothing /\ pc[c] = "msg1"
      /\ attempt[c] = r.n
  BY <1>1, <1>2, <1>3, <1>4 DEF Awaits
<1>8. KeyA(r) = OwnA(c) /\ OwnA(c)' = OwnA(c)
  BY <1>4, <1>7 DEF KeyA, OwnA
<1>9. Succeeding(c)'
  <2>1. Msg2 = OwnMsg2(c)'
    BY <1>6, <1>8 DEF Msg2, OwnMsg2
  <2> QED
    BY <1>4, <1>6, <1>7, <1>8, <2>1 DEF Succeeding
<1>10. \A d \in Clients \ {c} : KeyA(r) # OwnA(d)' /\ inbox'[d] = inbox[d]
  BY <1>1, <1>2, <1>4 DEF KeyA, OwnA
<1>11. ASSUME NEW d \in Clients PROVE Awaited(d)'
  <2> SUFFICES ASSUME NEW q \in requests', q.from = d
               PROVE  /\ Awaits(q)'
                      /\ q.gb = IF q.type = "msg3" THEN gb'[d] ELSE 0
    BY DEF Awaited
  <2>1. q \in requests /\ q # r
    BY <1>4
  <2>2. d # c
    BY <1>1, <1>11, <2>1, OneRequestEach DEF ClientInv
  <2>3. Awaits(q) /\ q.gb = IF q.type = "msg3" THEN gb[d] ELSE 0
    BY <1>11, <2>1 DEF ClientInv, Awaited
  <2> QED
    BY <1>4, <1>10, <1>11, <2>2, <2>3 DEF Awaits
<1>12. ASSUME NEW d \in Clients PROVE Reached(d)' /\ Displaced(d)' /\ Owed(d)'
  <2>1. CASE d = c
    BY <1>1, <1>4, <1>6, <1>7, <2>1
       DEF Reached, Displaced, Owed, Msg2, Accepted, Failure, Broken
  <2>2. CASE d # c
    <3>1. Reached(d) /\ Displaced(d)
      BY <1>12 DEF ClientInv
    <3> QED
      BY <1>1, <1>4, <1>6, <1>10, <1>12, <2>2, <3>1
         DEF Reached, Displaced, Owed
  <2> QED
    BY <2>1, <2>2
<1> QED
  BY <1>1, <1>9, <1>11, <1>12 DEF ClientInv, Held

(* The provider's handlers, none of whose calls fails.                     *)
LEMMA ProviderContends ==
    ASSUME TypeOK, \A d \in Clients : ClientInv(d), Held,
           faults' = faults,
           NEW r \in requests, Provider(r)
    PROVE  (\A d \in Clients : ClientInv(d)') /\ Held'
<1>1. /\ r \in Requests /\ r.from \in Clients /\ r.type \in Waits
      /\ KeyA(r) # NoKey
  BY NoKeyAssumption DEF TypeOK, Requests, KeyA, PublicKeys
<1>2. /\ Awaits(r) /\ Reached(r.from)
      /\ r.gb = IF r.type = "msg3" THEN gb[r.from] ELSE 0
  BY <1>1 DEF ClientInv, Awaited
<1>3. /\ pc[r.from] = r.type /\ inbox[r.from] = Nothing
      /\ KeyA(r) = OwnA(r.from)
      /\ Succeeding(r.from) => r.type = "msg3"
  BY <1>1, <1>2
     DEF Awaits, KeyA, OwnA, Succeeding, OwnMsg2, Nothing, Waits
<1>4. ~Fault
  BY DEF Fault, TypeOK
<1>5. /\ Failure.type = "error" /\ Accepted.type = "ok"
  BY DEF Failure, Accepted
<1>6. ASSUME Msg0Known(r) PROVE (\A d \in Clients : ClientInv(d)') /\ Held'
  <2>1. registered
    BY <1>6 DEF Msg0Known, MustEnroll
  <2> QED
    BY <1>3, <1>5, <1>6, <2>1, PlainResponses, AnswerMoves
       DEF Msg0Known, spVars, Failure, Accepted
<1>7. ASSUME Msg0Unsupported(r)
      PROVE  (\A d \in Clients : ClientInv(d)') /\ Held'
  <2>1. r.from \in Foreign
    BY <1>7 DEF Msg0Unsupported, GroupOf, SupportedGroups
  <2> QED
    BY <1>3, <1>5, <1>7, <2>1, PlainResponses, AnswerMoves
       DEF Msg0Unsupported, spVars, Failure, Accepted
<1>8. ASSUME NEW enrolled \in BOOLEAN, Msg0Enroll(r, enrolled)
      PROVE  (\A d \in Clients : ClientInv(d)') /\ Held'
  <2>1. enrolled /\ Respond(r, Accepted) /\ registered'
    BY <1>4, <1>8 DEF Msg0Enroll
  <2> QED
    BY <1>3, <1>5, <1>8, <2>1, PlainResponses, AnswerMoves
       DEF Msg0Enroll, Failure, Accepted
<1>9. ASSUME r.type = "msg1", sp_ra_proc_msg1_req(r)
      PROVE  (\A d \in Clients : ClientInv(d)') /\ Held'
  <2>0. CASE ~registered
    <3>1. r.from \in Foreign
      BY <1>1, <1>2, <1>3, <1>9, <2>0 DEF Reached
    <3>2. Msg1Unregistered(r)
      BY <1>9, <2>0 DEF sp_ra_proc_msg1_req, Msg1Exchange
    <3> QED
      BY <1>3, <1>5, <1>9, <3>1, <3>2, PlainResponses, AnswerMoves
         DEF Msg1Unregistered, spVars, Failure, Accepted
  <2>1. CASE registered
    <3>2. PICK stored \in 0 .. AllStored, replied \in BOOLEAN :
              Msg1Exchange(r, stored, replied)
      BY <1>9, <2>1 DEF sp_ra_proc_msg1_req, Msg1Unregistered
    <3>3. replied = TRUE /\ stored = AllStored
      BY <1>4, <3>2 DEF Msg1Exchange
    <3> QED
      BY <1>9, <2>1, <3>2, <3>3, ExchangeMoves
  <2> QED
    BY <2>0, <2>1
<1>10. ASSUME r.type = "msg3"
       PROVE  /\ db.ga # NoKey /\ registered
              /\ Succeeding(r.from) => Accepts(r)
              /\ db.ga = KeyA(r) => Succeeding(r.from)
  <2>1. db.ga # NoKey /\ registered
    BY <1>2, <1>3, <1>10 DEF Reached
  <2>2. ASSUME Succeeding(r.from) PROVE Accepts(r)
    <3>1. db = Exchange(KeyA(r), r.gb)
      BY <1>2, <1>3, <1>10, <2>2 DEF Succeeding
    <3> QED
      BY <2>1, <3>1 DEF Accepts, SameClientKey, CmacVerifies, ReportMatches,
                        Exchange, KeyAB
  <2>3. ASSUME db.ga = KeyA(r) PROVE Succeeding(r.from)
    <3>1. PICK c \in Clients : Succeeding(c)
      BY <2>1 DEF Held
    <3>2. OwnA(c) = OwnA(r.from)
      BY <1>3, <2>3, <3>1 DEF Succeeding, Exchange
    <3>3. c = r.from
      BY <3>2 DEF OwnA
    <3> QED
      BY <3>1, <3>3
  <2> QED
    BY <2>1, <2>2, <2>3
<1>11. ASSUME Msg3Reject(r)
       PROVE  (\A d \in Clients : ClientInv(d)') /\ Held'
  <2>1. /\ db.ga # NoKey /\ db.ga # KeyA(r) /\ ~Succeeding(r.from)
    BY <1>10, <1>11 DEF Msg3Reject
  <2> QED
    BY <1>5, <1>11, <2>1, PlainResponses, AnswerMoves
       DEF Msg3Reject, spVars, Failure, Accepted
<1>12. ASSUME NEW verdict \in BOOLEAN, Msg3Answer(r, verdict)
       PROVE  (\A d \in Clients : ClientInv(d)') /\ Held'
  <2> DEFINE m == AttResult(verdict)
  <2>1. m \in Responses /\ m.type = "result" /\ m # Accepted /\ m # Failure
    BY AttResultType DEF AttResult, Accepted, Failure
  <2>2. db.ga # NoKey /\ registered
    BY <1>10, <1>12 DEF Msg3Answer
  <2>3. ASSUME Succeeding(r.from) PROVE m = OwnResult(r.from)
    <3>1. db = Exchange(OwnA(r.from), gb[r.from])
      BY <1>3, <1>12, <2>3 DEF Msg3Answer, Succeeding
    <3>2. verdict = TRUE
      BY <1>4, <1>12 DEF Msg3Answer
    <3> QED
      BY <3>1, <3>2 DEF AttResult, OwnResult, OwnKey, Exchange
  <2>4. Respond(r, m) /\ UNCHANGED <<db, clientVars, registered>>
    BY <1>12 DEF Msg3Answer, spVars
  <2> HIDE DEF m
  <2> QED
    BY <2>1, <2>2, <2>3, <2>4, AnswerMoves
<1> QED
  BY <1>4, <1>6, <1>7, <1>8, <1>9, <1>11, <1>12
     DEF Provider, sp_ra_proc_msg0_req, sp_ra_proc_msg1_req, Msg1Unregistered,
         Msg1Exchange, sp_ra_proc_msg3_req, Msg3Fail,
         ias_verify_attestation_evidence

(* The clients, none of which gives up.                                    *)
LEMMA ClientContends ==
    ASSUME TypeOK, TypeOK', \A d \in Clients : ClientInv(d), Held,
           NEW c \in Clients, Start(c) \/ Client(c)
    PROVE  (\A d \in Clients : ClientInv(d)') /\ Held'
<1>1. /\ requests \subseteq Requests /\ requests' \subseteq Requests
      /\ attempt \in [Clients -> Nat] /\ gb \in [Clients -> Nat]
      /\ pc \in [Clients -> Waits \cup {"idle", "done"}]
      /\ inbox \in [Clients -> Responses] /\ secret \in [Clients -> BOOLEAN]
  BY BoundsAssumption DEF TypeOK
<1>2. /\ Awaited(c) /\ Reached(c) /\ Displaced(c) /\ Owed(c)
  BY DEF ClientInv
<1>3. ASSUME inbox[c] # Nothing \/ pc[c] \notin Waits PROVE ~Sent(c)
  BY <1>1, <1>2, <1>3 DEF Sent, Awaited, Awaits, Requests
<1>4. db' = db /\ registered' = registered
  BY DEF Start, Client, GetMsg1, ProcMsg2, ReadResult, ReadFailure, spVars
<1>5. CASE Start(c)
  <2> DEFINE q == [type |-> "msg0", from |-> c, n |-> attempt'[c], gb |-> 0]
  <2>1. /\ pc[c] = "idle" /\ pc' = [pc EXCEPT ![c] = "msg0"]
        /\ attempt' = [attempt EXCEPT ![c] = @ + 1]
        /\ gb' = [gb EXCEPT ![c] = 0]
        /\ requests' = requests \cup {q} /\ secret' = secret /\ inbox' = inbox
    BY <1>5 DEF Start, Send
  <2>2. ~Sent(c) /\ inbox[c] = Nothing
    BY <1>2, <1>3, <2>1 DEF Reached, Waits
  <2>3. Sent(c)' /\ \A r \in requests' : r.from = c => r = q
    <3>1. q.from = c /\ requests' = requests \cup {q}
      BY <2>1
    <3> HIDE DEF q
    <3> QED
      BY <2>2, <3>1 DEF Sent
  <2>4. ClientInv(c)'
    BY <1>1, <1>2, <2>1, <2>2, <2>3
       DEF ClientInv, Awaited, Awaits, Reached, Displaced, Owed, Sending,
           Nothing, Failure, Broken, Accepted
  <2>5. ~Succeeding(c)
    BY <2>1 DEF Succeeding
  <2> QED
    BY <1>1, <1>4, <2>1, <2>4, <2>5, OneClientMoves
<1>6. CASE GetMsg1(c)
  <2> DEFINE q == [type |-> "msg1", from |-> c, n |-> attempt'[c], gb |-> 0]
  <2>1. /\ pc[c] = "msg0" /\ pc' = [pc EXCEPT ![c] = "msg1"]
        /\ attempt' = attempt /\ gb' = gb /\ inbox[c] # Nothing
        /\ inbox' = [inbox EXCEPT ![c] = Nothing]
        /\ requests' = requests \cup {q} /\ secret' = secret
    BY <1>6 DEF GetMsg1, Send
  <2>2. c \notin Foreign => registered
    BY <1>1, <1>2, <2>1
       DEF Responses, Reached, Displaced, Nothing, Failure, Broken, Accepted
  <2>3. ~Sent(c)
    BY <1>3, <2>1
  <2>4. Sent(c)' /\ \A r \in requests' : r.from = c => r = q
    <3>1. q.from = c /\ requests' = requests \cup {q}
      BY <2>1
    <3> HIDE DEF q
    <3> QED
      BY <2>3, <3>1 DEF Sent
  <2>5. ClientInv(c)'
    BY <1>1, <1>2, <1>4, <2>1, <2>2, <2>3, <2>4
       DEF ClientInv, Awaited, Awaits, Reached, Displaced, Owed, Sending,
           Nothing, Failure, Broken, Accepted
  <2>6. ~Succeeding(c)
    BY <2>1 DEF Succeeding
  <2> QED
    BY <1>1, <1>4, <2>1, <2>5, <2>6, OneClientMoves
<1>7. CASE ProcMsg2(c)
  <2> DEFINE q == [type |-> "msg3", from |-> c, n |-> attempt'[c],
                   gb |-> inbox[c].gb]
  <2>1. /\ pc[c] = "msg1" /\ pc' = [pc EXCEPT ![c] = "msg3"]
        /\ attempt' = attempt /\ gb' = [gb EXCEPT ![c] = inbox[c].gb]
        /\ inbox[c].type = "msg2"
        /\ inbox' = [inbox EXCEPT ![c] = Nothing]
        /\ requests' = requests \cup {q} /\ secret' = secret
    BY <1>7 DEF ProcMsg2, Send
  <2>2. ~Sent(c) /\ registered /\ db.ga # NoKey
    BY <1>2, <1>3, <2>1 DEF Reached, Nothing
  <2>3. Sent(c)' /\ \A r \in requests' : r.from = c => r = q
    <3>1. q.from = c /\ requests' = requests \cup {q}
      BY <2>1
    <3> HIDE DEF q
    <3> QED
      BY <2>2, <3>1 DEF Sent
  <2>4. ClientInv(c)'
    BY <1>1, <1>2, <1>4, <2>1, <2>2, <2>3
       DEF ClientInv, Awaited, Awaits, Reached, Displaced, Owed,
           Nothing, Failure, Broken, Accepted
  <2>5. ASSUME Succeeding(c) PROVE Succeeding(c)'
    <3>1. inbox[c].gb = db.gb /\ OwnA(c)' = OwnA(c)
      BY <2>1, <2>5 DEF Succeeding, OwnMsg2, OwnA
    <3> QED
      BY <1>1, <1>4, <2>1, <2>3, <2>5, <3>1 DEF Succeeding, Exchange
  <2> QED
    BY <1>1, <1>4, <2>1, <2>4, <2>5, OneClientMoves
<1>8. CASE ReadResult(c)
  <2> DEFINE ok == /\ verify_att_result_mac(c) /\ inbox[c].status
                   /\ Decrypts(c)
  <2>1. /\ pc[c] = "msg3" /\ inbox[c].type = "result"
        /\ pc' = [pc EXCEPT ![c] = IF ok THEN "done" ELSE "idle"]
        /\ secret' = [secret EXCEPT ![c] = @ \/ ok]
        /\ inbox' = [inbox EXCEPT ![c] = Nothing]
        /\ attempt' = attempt /\ gb' = gb /\ requests' = requests
    BY <1>8 DEF ReadResult
  <2>2. ~Sent(c) /\ ~Sent(c)' /\ db.ga # NoKey
    BY <1>2, <1>3, <2>1 DEF Reached, Nothing, Sent
  <2>3. ok => secret'[c]
    <3>1. ASSUME ok PROVE secret'[c] = (secret[c] \/ ok)
      BY <1>1, <2>1, Zenon
    <3> QED
      BY <3>1, Zenon
  <2>4. ASSUME Succeeding(c) PROVE ok
    <3>1. inbox[c] = OwnResult(c)
      BY <2>1, <2>2, <2>4 DEF Succeeding
    <3> QED
      BY <3>1 DEF OwnResult, verify_att_result_mac, Decrypts
  <2>5. \A d \in Clients \ {c} : secret'[d] = secret[d]
    BY <1>1, <2>1
  <2> HIDE DEF ok
  <2>6. ClientInv(c)'
    BY <1>1, <1>4, <2>1, <2>2, <2>3
       DEF ClientInv, Awaited, Sent, Reached, Displaced, Owed,
           Nothing, Failure, Broken, Accepted
  <2>7. ASSUME Succeeding(c) PROVE Succeeding(c)'
    BY <1>1, <1>4, <2>1, <2>4, <2>7 DEF Succeeding, Exchange, OwnA
  <2> QED
    BY <1>1, <1>4, <2>1, <2>5, <2>6, <2>7, OneClientMoves
<1>9. CASE ReadFailure(c)
  <2>0. pc[c] \in {"msg1", "msg3"} /\ inbox[c] = Failure
    BY <1>2, <1>9 DEF ReadFailure, Displaced
  <2>1. /\ pc[c] \in Waits /\ inbox[c] = Failure
        /\ pc' = [pc EXCEPT ![c] = "idle"]
        /\ inbox' = [inbox EXCEPT ![c] = Nothing]
        /\ attempt' = attempt /\ gb' = gb /\ secret' = secret
        /\ requests' = requests
    BY <1>9, <2>0 DEF ReadFailure, GiveUp, Waits
  <2>2. ~Sent(c) /\ ~Sent(c)' /\ (c \in Foreign \/ db.ga # NoKey)
    BY <1>2, <1>3, <2>1 DEF Displaced, Nothing, Failure, Sent
  <2>3. ClientInv(c)'
    BY <1>1, <1>4, <2>1, <2>2
       DEF ClientInv, Awaited, Sent, Reached, Displaced, Owed,
           Nothing, Failure, Broken, Accepted
  <2>4. ~Succeeding(c)
    BY <2>1, <2>2 DEF Succeeding, OwnMsg2, OwnResult, Failure, Waits
  <2> QED
    BY <1>1, <1>4, <2>1, <2>3, <2>4, OneClientMoves
<1> QED
  BY <1>5, <1>6, <1>7, <1>8, <1>9 DEF Client

(* Every step keeps the invariant: a step that fails ends the quiet.       *)
LEMMA ContendStep ==
    TypeOK /\ ContendInv /\ [Next]_vars => ContendInv'
<1> SUFFICES ASSUME TypeOK, ContendInv, [Next]_vars, Quiet'
             PROVE  (\A d \in Clients : ClientInv(d)') /\ Held'
  BY DEF ContendInv
<1>1. TypeOK'
  BY TypeStep
<1>2. faults' = 0 /\ faults \in Nat /\ ~Fault
  BY BoundsAssumption DEF Quiet, Fault, TypeOK
<1>3. faults' = faults
  BY <1>2 DEF Next, Provider, Client, sp_ra_proc_msg0_req, Msg0Known,
     Msg0Unsupported, Msg0Enroll, sp_ra_proc_msg1_req, Msg1Unregistered,
     Msg1Exchange, sp_ra_proc_msg3_req, Msg3Reject, Msg3Fail, Msg3Answer,
     NoFault, Disconnect, Start, GetMsg1, ProcMsg2, ReadResult, ReadFailure,
     Abandon, Restart, vars
<1>4. (\A d \in Clients : ClientInv(d)) /\ Held
  BY <1>2, <1>3 DEF ContendInv, Quiet
<1>5. ASSUME NEW r \in requests, Provider(r)
      PROVE  (\A d \in Clients : ClientInv(d)') /\ Held'
  BY <1>2, <1>3, <1>4, <1>5, ProviderContends
<1>6. ASSUME NEW c \in Clients, Start(c) \/ Client(c)
      PROVE  (\A d \in Clients : ClientInv(d)') /\ Held'
  BY <1>1, <1>4, <1>6, ClientContends
<1>7. CASE UNCHANGED vars
  BY <1>4, <1>7
     DEF vars, spVars, clientVars, ClientInv, Awaited, Awaits, Reached,
         Displaced, Owed, Sending, Sent, OwnA, Held, Succeeding, OwnMsg2,
         OwnResult, OwnKey, Exchange
<1> QED
  BY <1>2, <1>5, <1>6, <1>7 DEF Next, Disconnect, Abandon, Restart

(* When clients contend for the session and nothing else goes wrong, the   *)
(* last of them to take it gets the secret.                                *)
THEOREM LastSucceeds == Spec => []LastExchangeSucceeds
<1>1. Init => TypeOK /\ ContendInv
  <2>1. ASSUME Init PROVE ContendInv
    BY <2>1 DEF Init, EmptyDb, ContendInv, ClientInv, Awaited, Reached,
                Displaced, Owed, Held, Nothing, Accepted, Failure, Broken
  <2> QED
    BY <2>1, TypeInit
<1>2. TypeOK /\ ContendInv /\ [Next]_vars => (TypeOK /\ ContendInv)'
  BY TypeStep, ContendStep
<1>3. ContendInv => LastExchangeSucceeds
  <2> SUFFICES ASSUME ContendInv, Quiet, AtRest,
                      NEW c \in Clients \ Foreign, attempt[c] > 0
               PROVE  \E d \in Clients : secret[d]
    BY DEF LastExchangeSucceeds, Quiet
  <2>1. \A d \in Clients : ClientInv(d) /\ ~Sent(d) /\ pc[d] \in {"idle", "done"}
    BY DEF ContendInv, AtRest, Sent
  <2>2. db.ga # NoKey
    BY <2>1 DEF ClientInv, Owed, Sending
  <2>3. PICK d \in Clients : Succeeding(d)
    BY <2>2 DEF ContendInv, Held
  <2> QED
    BY <2>1, <2>3 DEF Succeeding, ClientInv, Reached
<1> QED
  BY <1>1, <1>2, <1>3, PTL DEF Spec

-----------------------------------------------------------------------------

(* The requests of present attempts: the one a client waits for an answer  *)
(* to, as it sent it.  Those of older attempts may be anything.            *)
AwaitedRequests ==
    \A r \in requests :
        /\ r.n <= attempt[r.from]
        /\ r.n = attempt[r.from] /\ pc[r.from] \in Waits =>
              /\ Awaits(r)
              /\ r.gb = IF r.type = "msg3" THEN gb[r.from] ELSE 0

(* Who waits for nothing has nothing to read.                              *)
NothingAtRest == \A c \in Clients : pc[c] \notin Waits => inbox[c] = Nothing

TurnInv == AwaitedRequests /\ NothingAtRest

(* A response to a request disturbs no other client, and no other request. *)
LEMMA ResponseTurn ==
    ASSUME TypeOK, TurnInv, NEW r \in requests, NEW m \in Responses,
           m # Nothing, Respond(r, m), UNCHANGED clientVars
    PROVE  TurnInv'
<1>1. /\ requests' = requests \ {r}
      /\ requests \subseteq Requests
      /\ \A c \in Clients :
            \/ inbox'[c] = inbox[c]
            \/ /\ c = r.from /\ inbox'[c] = m
               /\ pc[c] = r.type /\ attempt[c] = r.n /\ inbox[c] = Nothing
  BY RespondEffect DEF Respond, TypeOK
<1>2. pc' = pc /\ attempt' = attempt /\ gb' = gb
  BY DEF clientVars
<1>3. inbox \in [Clients -> Responses] /\ r.from \in Clients /\ r.type \in Waits
  BY DEF TypeOK, Requests
<1>4. AwaitedRequests'
  <2> SUFFICES ASSUME NEW q \in requests'
               PROVE  /\ q.n <= attempt'[q.from]
                      /\ q.n = attempt'[q.from] /\ pc'[q.from] \in Waits =>
                            /\ Awaits(q)'
                            /\ q.gb = IF q.type = "msg3" THEN gb'[q.from] ELSE 0
    BY DEF AwaitedRequests
  <2>1. /\ q \in requests /\ q # r /\ q.from \in Clients
        /\ q.n <= attempt[q.from]
    BY <1>1 DEF TurnInv, AwaitedRequests, Requests
  <2>2. ASSUME q.n = attempt[q.from], pc[q.from] \in Waits
        PROVE  /\ Awaits(q)'
               /\ q.gb = IF q.type = "msg3" THEN gb[q.from] ELSE 0
    <3>1. /\ Awaits(q)
          /\ q.gb = IF q.type = "msg3" THEN gb[q.from] ELSE 0
      BY <2>1, <2>2 DEF TurnInv, AwaitedRequests
    <3>2. ASSUME q.from = r.from, pc[r.from] = r.type, attempt[r.from] = r.n
          PROVE  FALSE
      <4>1. r.gb = IF r.type = "msg3" THEN gb[r.from] ELSE 0
        BY <1>3, <3>2 DEF TurnInv, AwaitedRequests
      <4>2. q.type = r.type /\ q.n = r.n /\ q.gb = r.gb
        BY <3>1, <3>2, <4>1 DEF Awaits
      <4>3. /\ q = [type |-> q.type, from |-> q.from, n |-> q.n, gb |-> q.gb]
            /\ r = [type |-> r.type, from |-> r.from, n |-> r.n, gb |-> r.gb]
        BY <1>1, <2>1 DEF Requests
      <4> QED
        BY <2>1, <3>2, <4>2, <4>3
    <3>3. inbox'[q.from] = inbox[q.from]
      BY <1>1, <2>1, <3>2
    <3> QED
      BY <1>2, <3>1, <3>3 DEF Awaits
  <2> QED
    BY <1>2, <2>1, <2>2
<1>5. NothingAtRest'
  BY <1>1, <1>2, <1>3 DEF TurnInv, NothingAtRest
<1> QED
  BY <1>4, <1>5 DEF TurnInv

(* A client sends a request only when it has none of this attempt under    *)
(* way.                                                                    *)
LEMMA SendTurn ==
    ASSUME TypeOK, TurnInv, NEW c \in Clients, NEW type \in Waits, NEW b \in Nat,
           pc' = [pc EXCEPT ![c] = type],
           inbox' = [inbox EXCEPT ![c] = Nothing],
           attempt' \in [Clients -> Nat],
           attempt'[c] >= attempt[c],
           \A r \in requests : r.from = c => r.n # attempt'[c],
           \A d \in Clients \ {c} : attempt'[d] = attempt[d] /\ gb'[d] = gb[d],
           b = IF type = "msg3" THEN gb'[c] ELSE 0,
           Send(c, type, b)
    PROVE  TurnInv'
<1>0. PICK new : new = [type |-> type, from |-> c, n |-> attempt'[c], gb |-> b]
  OBVIOUS
<1>1. /\ requests' = requests \cup {new}
      /\ new.type = type /\ new.from = c /\ new.n = attempt'[c] /\ new.gb = b
      /\ requests \subseteq Requests /\ attempt \in [Clients -> Nat]
      /\ pc \in [Clients -> Waits \cup {"idle", "done"}]
      /\ inbox \in [Clients -> Responses]
  BY <1>0, BoundsAssumption DEF Send, TypeOK
<1>2. /\ pc'[c] = type /\ inbox'[c] = Nothing
      /\ \A d \in Clients \ {c} : pc'[d] = pc[d] /\ inbox'[d] = inbox[d]
  BY <1>1
<1>3. AwaitedRequests'
  <2> SUFFICES ASSUME NEW q \in requests'
               PROVE  /\ q.n <= attempt'[q.from]
                      /\ q.n = attempt'[q.from] /\ pc'[q.from] \in Waits =>
                            /\ Awaits(q)'
                            /\ q.gb = IF q.type = "msg3" THEN gb'[q.from] ELSE 0
    BY DEF AwaitedRequests
  <2>1. CASE q = new
    BY <1>1, <1>2, <2>1 DEF Awaits
  <2>2. CASE q # new
    <3>1. /\ q \in requests /\ q.from \in Clients /\ q.n \in Nat
          /\ q.n <= attempt[q.from]
      BY <1>1, <2>2 DEF TurnInv, AwaitedRequests, Requests
    <3>2. CASE q.from = c
      BY <1>1, <3>1, <3>2
    <3>3. CASE q.from # c
      BY <1>2, <3>1, <3>3 DEF TurnInv, AwaitedRequests, Awaits
    <3> QED
      BY <3>2, <3>3
  <2> QED
    BY <2>1, <2>2
<1>4. NothingAtRest'
  BY <1>2 DEF TurnInv, NothingAtRest
<1> QED
  BY <1>3, <1>4 DEF TurnInv

(* A client that comes to an end leaves what it sent behind.               *)
LEMMA EndTurn ==
    ASSUME TypeOK, TurnInv, NEW c \in Clients, NEW s \in {"idle", "done"},
           pc' = [pc EXCEPT ![c] = s],
           inbox' = [inbox EXCEPT ![c] = Nothing],
           UNCHANGED <<attempt, gb, requests>>
    PROVE  TurnInv'
<1>1. /\ requests \subseteq Requests
      /\ pc \in [Clients -> Waits \cup {"idle", "done"}]
      /\ inbox \in [Clients -> Responses]
  BY DEF TypeOK
<1>2. /\ pc'[c] \notin Waits /\ inbox'[c] = Nothing
      /\ \A d \in Clients \ {c} : pc'[d] = pc[d] /\ inbox'[d] = inbox[d]
  BY <1>1 DEF Waits
<1>3. AwaitedRequests'
  BY <1>1, <1>2 DEF TurnInv, AwaitedRequests, Awaits, Requests
<1>4. NothingAtRest'
  BY <1>2 DEF TurnInv, NothingAtRest
<1> QED
  BY <1>3, <1>4 DEF TurnInv

(* What one handler does to one request: it answers something.             *)
LEMMA ProviderResponds ==
    ASSUME TypeOK, NEW r \in requests, Provider(r) \/ Disconnect(r)
    PROVE  /\ UNCHANGED clientVars
           /\ \E m \in Responses : m # Nothing /\ Respond(r, m)
<1> DEFINE responds == \E m \in Responses : m # Nothing /\ Respond(r, m)
<1>1. /\ Failure \in Responses /\ Failure # Nothing
      /\ Accepted \in Responses /\ Accepted # Nothing
  BY PlainResponses DEF Failure, Accepted, Nothing
<1>0. Broken \in Responses /\ Broken # Nothing
  BY PlainResponses DEF Broken, Nothing
<1>2. CASE sp_ra_proc_msg0_req(r)
  BY <1>1, <1>2
     DEF sp_ra_proc_msg0_req, Msg0Known, Msg0Unsupported, Msg0Enroll
<1>3. CASE Msg1Unregistered(r) \/ Msg3Reject(r) \/ Msg3Fail(r) \/ Disconnect(r)
  BY <1>0, <1>1, <1>3 DEF Msg1Unregistered, Msg3Reject, Msg3Fail, Disconnect
<1>4. ASSUME NEW stored \in 0 .. AllStored, NEW replied \in BOOLEAN,
             Msg1Exchange(r, stored, replied)
      PROVE  UNCHANGED clientVars /\ responds
  <2>1. KeyA(r) \in PublicKeys
    BY DEF TypeOK, Requests, KeyA, PublicKeys
  <2>2. stored = AllStored =>
            db'.ga \in PublicKeys /\ db'.gb \in Nat \ {0} /\ db'.smk \in DhKeys
    BY <1>4, <2>1, StoreType DEF Msg1Exchange
  <2>3. stored = AllStored => Msg2 \in Responses /\ Msg2 # Nothing
    BY <2>2 DEF Msg2, Responses, Nothing
  <2>4. UNCHANGED clientVars /\ Respond(r, IF replied THEN Msg2 ELSE Failure)
    BY <1>4 DEF Msg1Exchange
  <2>5. replied => stored = AllStored
    BY <1>4 DEF Msg1Exchange
  <2>6. CASE replied
    BY <2>3, <2>4, <2>5, <2>6
  <2>7. CASE ~replied
    BY <1>1, <2>4, <2>7
  <2> QED
    BY <2>6, <2>7
<1>5. ASSUME NEW verdict \in BOOLEAN, Msg3Answer(r, verdict)
      PROVE  UNCHANGED clientVars /\ responds
  <2>1. AttResult(verdict) \in Responses /\ AttResult(verdict) # Nothing
    BY AttResultType DEF AttResult, Nothing
  <2> QED
    BY <1>5, <2>1 DEF Msg3Answer
<1> QED
  BY <1>2, <1>3, <1>4, <1>5
     DEF Provider, sp_ra_proc_msg1_req, sp_ra_proc_msg3_req,
         ias_verify_attestation_evidence

(* Every step keeps the requests of present attempts in turn.              *)
LEMMA TurnStep == TypeOK /\ TurnInv /\ [Next]_vars => TurnInv'
<1> SUFFICES ASSUME TypeOK, TurnInv, [Next]_vars PROVE TurnInv'
  OBVIOUS
<1>0. /\ pc \in [Clients -> Waits \cup {"idle", "done"}]
      /\ inbox \in [Clients -> Responses]
      /\ attempt \in [Clients -> Nat] /\ gb \in [Clients -> Nat]
      /\ requests \subseteq Requests
  BY BoundsAssumption DEF TypeOK
<1>1. ASSUME NEW r \in requests, Provider(r) \/ Disconnect(r) PROVE TurnInv'
  BY <1>1, ProviderResponds, ResponseTurn
<1>2. ASSUME NEW c \in Clients, Start(c) PROVE TurnInv'
  <2>1. /\ pc[c] = "idle" /\ attempt' = [attempt EXCEPT ![c] = @ + 1]
        /\ gb' = [gb EXCEPT ![c] = 0] /\ pc' = [pc EXCEPT ![c] = "msg0"]
        /\ inbox' = inbox /\ Send(c, "msg0", 0)
    BY <1>2 DEF Start
  <2>2. inbox' = [inbox EXCEPT ![c] = Nothing]
    BY <1>0, <2>1 DEF TurnInv, NothingAtRest, Waits
  <2>3. \A r \in requests : r.from = c => r.n # attempt'[c]
    BY <1>0, <2>1 DEF TurnInv, AwaitedRequests, Requests
  <2>4. attempt' \in [Clients -> Nat] /\ attempt'[c] >= attempt[c]
    BY <1>0, <2>1
  <2>5. \A d \in Clients \ {c} : attempt'[d] = attempt[d] /\ gb'[d] = gb[d]
    BY <1>0, <2>1
  <2> QED
    BY <2>1, <2>2, <2>3, <2>4, <2>5, SendTurn DEF Waits
<1>3. ASSUME NEW c \in Clients, pc[c] \in Waits, inbox[c] # Nothing
      PROVE  \A r \in requests : r.from = c => r.n # attempt[c]
  BY <1>3 DEF TurnInv, AwaitedRequests, Awaits
<1>4. ASSUME NEW c \in Clients, GetMsg1(c) PROVE TurnInv'
  <2>1. /\ pc[c] \in Waits /\ inbox[c] # Nothing
        /\ pc' = [pc EXCEPT ![c] = "msg1"] /\ attempt' = attempt /\ gb' = gb
        /\ inbox' = [inbox EXCEPT ![c] = Nothing] /\ Send(c, "msg1", 0)
    BY <1>4 DEF GetMsg1, Nothing, Waits
  <2>2. \A r \in requests : r.from = c => r.n # attempt'[c]
    BY <1>3, <2>1
  <2>3. /\ attempt' \in [Clients -> Nat] /\ attempt'[c] >= attempt[c]
        /\ \A d \in Clients \ {c} : attempt'[d] = attempt[d] /\ gb'[d] = gb[d]
    BY <1>0, <2>1
  <2> QED
    BY <2>1, <2>2, <2>3, SendTurn DEF Waits
<1>5. ASSUME NEW c \in Clients, ProcMsg2(c) PROVE TurnInv'
  <2>1. /\ pc[c] \in Waits /\ inbox[c] # Nothing
        /\ pc' = [pc EXCEPT ![c] = "msg3"] /\ attempt' = attempt
        /\ gb' = [gb EXCEPT ![c] = inbox[c].gb]
        /\ inbox' = [inbox EXCEPT ![c] = Nothing]
        /\ Send(c, "msg3", inbox[c].gb)
    BY <1>5 DEF ProcMsg2, Nothing, Waits
  <2>2. inbox[c].gb \in Nat
    BY <1>5 DEF ProcMsg2, TypeOK, Responses, Nothing, Failure, Broken, Accepted
  <2>3. \A r \in requests : r.from = c => r.n # attempt'[c]
    BY <1>3, <2>1
  <2>4. /\ attempt' \in [Clients -> Nat] /\ attempt'[c] >= attempt[c]
        /\ \A d \in Clients \ {c} : attempt'[d] = attempt[d] /\ gb'[d] = gb[d]
        /\ gb'[c] = inbox[c].gb
    BY <1>0, <2>1
  <2> QED
    BY <2>1, <2>2, <2>3, <2>4, SendTurn DEF Waits
<1>6. ASSUME NEW c \in Clients, ReadResult(c) PROVE TurnInv'
  <2>1. \E s \in {"idle", "done"} : pc' = [pc EXCEPT ![c] = s]
    BY <1>6, Zenon DEF ReadResult
  <2>2. /\ inbox' = [inbox EXCEPT ![c] = Nothing]
        /\ UNCHANGED <<attempt, gb, requests>>
    BY <1>6, Zenon DEF ReadResult
  <2> QED
    BY <2>1, <2>2, EndTurn
<1>7. ASSUME NEW c \in Clients, ReadFailure(c) \/ Abandon(c) PROVE TurnInv'
  BY <1>7, EndTurn DEF ReadFailure, Abandon, GiveUp
<1>8. CASE Restart
  <2>1. /\ requests' = {} /\ pc' = pc
        /\ \A c \in Clients :
              IF pc[c] \notin Waits \/ inbox[c] # Nothing
                THEN inbox'[c] = inbox[c] ELSE inbox'[c] \in {Failure, Broken}
    BY <1>8 DEF Restart, clientVars
  <2>2. Failure # Nothing /\ Broken # Nothing
    BY DEF Failure, Broken, Nothing
  <2> QED
    BY <2>1, <2>2 DEF TurnInv, AwaitedRequests, NothingAtRest
<1>9. CASE UNCHANGED vars
  BY <1>9 DEF vars, clientVars, TurnInv, AwaitedRequests, NothingAtRest,
              Awaits
<1> QED
  BY <1>1, <1>2, <1>4, <1>5, <1>6, <1>7, <1>8, <1>9 DEF Next, Client

LEMMA TurnInit == Init => TurnInv
BY DEF Init, TurnInv, AwaitedRequests, NothingAtRest, Waits

-----------------------------------------------------------------------------

(* Where an attempt may be that nothing disturbs: whatever it finds in the *)
(* provider's globals, its message 0 leaves the provider registered and    *)
(* its message 1 leaves a whole exchange of its own.                       *)
Proceeds(c) ==
    \/ pc[c] = "msg0" /\ inbox[c] = Nothing
    \/ pc[c] = "msg0" /\ inbox[c] = Accepted /\ registered
    \/ pc[c] = "msg1" /\ inbox[c] = Nothing /\ registered
    \/ /\ pc[c] = "msg1" /\ inbox[c] = OwnMsg2(c) /\ registered
       /\ db = Exchange(OwnA(c), db.gb)
    \/ /\ pc[c] = "msg3" /\ inbox[c] \in {Nothing, OwnResult(c)} /\ registered
       /\ db = Exchange(OwnA(c), db.gb) /\ gb[c] = db.gb
    \/ pc[c] = "done"

Undoubted(c) == Undisturbed(c) /\ Proceeds(c)

(* Nothing fails any more.                                                 *)
LEMMA NoMoreFaults ==
    ASSUME NEW c \in Clients, Undisturbed(c) PROVE ~Fault
BY BoundsAssumption DEF Undisturbed, Fault

(* A step that answers the client's request keeps it undisturbed.          *)
LEMMA AnsweredUndisturbed ==
    ASSUME TypeOK, TurnInv, NEW c \in Clients, Undoubted(c),
           NEW r \in requests, NEW m, Respond(r, m), UNCHANGED clientVars,
           Fault \/ NoFault
    PROVE  /\ Undisturbed(c)'
           /\ pc[c] \in Waits =>
                 /\ Awaits(r) /\ r.from = c /\ r.n = attempt[c]
                 /\ r.type = pc[c] /\ inbox[c] = Nothing /\ inbox'[c] = m
                 /\ r.gb = IF r.type = "msg3" THEN gb[c] ELSE 0
           /\ pc[c] \notin Waits => inbox'[c] = inbox[c]
<1>1. /\ pc' = pc /\ attempt' = attempt /\ faults' = faults
      /\ requests' = requests \ {r}
  BY NoMoreFaults DEF clientVars, Respond, Undoubted, NoFault
<1>2. r.from = c /\ r.n = attempt[c] /\ r.type \in Waits
  BY DEF Undoubted, Undisturbed, TypeOK, Requests
<1>3. inbox \in [Clients -> Responses]
  BY DEF TypeOK
<1>4. Undisturbed(c)'
  BY <1>1 DEF Undoubted, Undisturbed, Retired
<1>5. CASE pc[c] \in Waits
  <2>1. /\ Awaits(r)
        /\ r.gb = IF r.type = "msg3" THEN gb[c] ELSE 0
    BY <1>2, <1>5 DEF TurnInv, AwaitedRequests
  <2>2. inbox' = [inbox EXCEPT ![c] = m]
    BY <1>2, <2>1 DEF Respond
  <2>3. inbox'[c] = m /\ r.type = pc[c] /\ inbox[c] = Nothing
    BY <1>2, <1>3, <2>1, <2>2 DEF Awaits
  <2> QED
    BY <1>2, <1>4, <1>5, <2>1, <2>3
<1>6. CASE pc[c] \notin Waits
  <2>1. ~Awaits(r)
    BY <1>2, <1>6 DEF Awaits
  <2> QED
    BY <1>4, <1>6, <2>1 DEF Respond
<1> QED
  BY <1>5, <1>6

(* The handler that gets its request answers it with what it needs to go   *)
(* on.                                                                     *)
LEMMA ProviderUndoubted ==
    ASSUME TypeOK, TurnInv, NEW c \in Clients, Undoubted(c),
           NEW r \in requests, Provider(r)
    PROVE  Undoubted(c)'
<1>0. /\ ~Fault /\ c \notin Foreign /\ r.from = c
      /\ registered \in BOOLEAN
  BY NoMoreFaults DEF Undoubted, Undisturbed, TypeOK
<1>1. CASE pc[c] \notin Waits
  <2>1. UNCHANGED clientVars /\ \E m \in Responses : Respond(r, m)
    BY ProviderResponds
  <2>2. Fault \/ NoFault
    BY DEF Provider, sp_ra_proc_msg0_req, sp_ra_proc_msg1_req,
           sp_ra_proc_msg3_req, Msg0Known, Msg0Unsupported, Msg0Enroll,
           Msg1Unregistered, Msg1Exchange, Msg3Reject, Msg3Fail, Msg3Answer
  <2>3. Undisturbed(c)'
    BY <2>1, <2>2, AnsweredUndisturbed
  <2>4. pc[c] = "done" /\ pc'[c] = "done"
    BY <1>1, <2>1 DEF Undoubted, Proceeds, Waits, clientVars
  <2> QED
    BY <2>3, <2>4 DEF Undoubted, Proceeds
<1>2. CASE pc[c] \in Waits
  <2>0. ASSUME NEW m, Respond(r, m), UNCHANGED clientVars, Fault \/ NoFault
        PROVE  /\ Undisturbed(c)' /\ inbox[c] = Nothing /\ inbox'[c] = m
               /\ pc'[c] = r.type /\ pc[c] = r.type /\ KeyA(r) = OwnA(c)
               /\ r.gb = IF r.type = "msg3" THEN gb[c] ELSE 0
    <3>1. /\ Undisturbed(c)' /\ inbox[c] = Nothing /\ inbox'[c] = m
          /\ r.type = pc[c] /\ r.n = attempt[c]
          /\ r.gb = IF r.type = "msg3" THEN gb[c] ELSE 0
      BY <1>2, <2>0, AnsweredUndisturbed
    <3> QED
      BY <1>0, <2>0, <3>1 DEF clientVars, KeyA, OwnA
  <2>1. CASE sp_ra_proc_msg0_req(r)
    <3>1. GroupOf(c) = 0 /\ GroupOf(c) \in SupportedGroups
      BY <1>0 DEF GroupOf, SupportedGroups
    <3>2. ~Msg0Unsupported(r)
      BY <1>0, <3>1 DEF Msg0Unsupported
    <3>3. /\ r.type = "msg0" /\ Respond(r, Accepted) /\ UNCHANGED clientVars
          /\ NoFault /\ registered'
      <4>1. CASE Msg0Known(r)
        BY <4>1 DEF Msg0Known, MustEnroll, spVars
      <4>2. ASSUME NEW enrolled \in BOOLEAN, Msg0Enroll(r, enrolled)
            PROVE  /\ r.type = "msg0" /\ Respond(r, Accepted)
                   /\ UNCHANGED clientVars /\ NoFault /\ registered'
        <5>1. enrolled
          BY <1>0, <4>2 DEF Msg0Enroll
        <5>2. registered' = (registered \/ enrolled)
          BY <4>2 DEF Msg0Enroll
        <5>3. registered'
          BY <5>1, <5>2, Zenon
        <5> QED
          BY <4>2, <5>1, <5>3 DEF Msg0Enroll
      <4> QED
        BY <2>1, <3>2, <4>1, <4>2 DEF sp_ra_proc_msg0_req
    <3> QED
      BY <2>0, <3>3 DEF Undoubted, Proceeds
  <2>2. CASE sp_ra_proc_msg1_req(r)
    <3>1. r.type = "msg1" /\ UNCHANGED clientVars
      BY <2>2 DEF sp_ra_proc_msg1_req, Msg1Unregistered, Msg1Exchange
    <3>2. pc[c] = "msg1" /\ inbox[c] = Nothing
      <4>1. /\ \E m : Respond(r, m)
            /\ Fault \/ NoFault
        BY <2>2 DEF sp_ra_proc_msg1_req, Msg1Unregistered, Msg1Exchange
      <4> QED
        BY <2>0, <3>1, <4>1
    <3>3. registered
      BY <3>2 DEF Undoubted, Proceeds
    <3>4. PICK stored \in 0 .. AllStored, replied \in BOOLEAN :
              Msg1Exchange(r, stored, replied)
      BY <2>2, <3>3 DEF sp_ra_proc_msg1_req, Msg1Unregistered
    <3>5. /\ stored = AllStored /\ Respond(r, Msg2) /\ NoFault
          /\ db' = Store(KeyA(r), nextB, AllStored)
          /\ registered' = registered
      BY <1>0, <3>4 DEF Msg1Exchange
    <3>6. /\ Undisturbed(c)' /\ inbox'[c] = Msg2
          /\ pc'[c] = "msg1" /\ KeyA(r) = OwnA(c)
      BY <2>0, <3>1, <3>5
    <3>7. db' = Exchange(KeyA(r), nextB) /\ db'.gb = nextB
      BY <3>5 DEF Store, Slots, StoreOrder, AllStored, Exchange
    <3>8. OwnA(c)' = OwnA(c)
      BY <3>1 DEF OwnA, clientVars
    <3>9. db' = Exchange(OwnA(c)', db'.gb)
      BY <3>6, <3>7, <3>8
    <3>10. db'.ga = OwnA(c)'
      BY <3>9 DEF Exchange
    <3>11. inbox'[c] = OwnMsg2(c)'
      BY <3>6, <3>10 DEF Msg2, OwnMsg2
    <3> QED
      BY <3>3, <3>5, <3>6, <3>9, <3>11 DEF Undoubted, Proceeds, Exchange
  <2>3. CASE sp_ra_proc_msg3_req(r)
    <3>1. /\ r.type = "msg3" /\ UNCHANGED clientVars
          /\ db' = db /\ registered' = registered
      BY <2>3 DEF sp_ra_proc_msg3_req, Msg3Reject, Msg3Fail, Msg3Answer, spVars
    <3>2. /\ pc[c] = "msg3" /\ inbox[c] = Nothing
          /\ r.gb = gb[c] /\ KeyA(r) = OwnA(c)
      <4>1. /\ \E m : Respond(r, m)
            /\ Fault \/ NoFault
        BY <2>3 DEF sp_ra_proc_msg3_req, Msg3Reject, Msg3Fail, Msg3Answer
      <4> QED
        BY <2>0, <3>1, <4>1
    <3>3. registered /\ db = Exchange(OwnA(c), db.gb) /\ gb[c] = db.gb
      BY <3>2 DEF Undoubted, Proceeds
    <3>4. /\ db.ga = OwnA(c) /\ KeyAB(r) = OwnKey(c)
          /\ db.smk = OwnKey(c) /\ db.vk = OwnKey(c)
          /\ db.mk = OwnKey(c) /\ db.sk = OwnKey(c)
      BY <3>2, <3>3 DEF Exchange, KeyAB, OwnKey
    <3>5. Accepts(r)
      BY <3>2, <3>3, <3>4
         DEF Accepts, SameClientKey, CmacVerifies, ReportMatches
    <3>6. Msg3Answer(r, TRUE)
      BY <1>0, <2>3, <3>5
         DEF sp_ra_proc_msg3_req, Msg3Reject, Msg3Fail, Msg3Answer,
             ias_verify_attestation_evidence
    <3>7. Respond(r, AttResult(TRUE)) /\ NoFault
      BY <3>6 DEF Msg3Answer
    <3>8. /\ Undisturbed(c)' /\ inbox'[c] = AttResult(TRUE) /\ pc'[c] = "msg3"
      BY <2>0, <3>1, <3>7
    <3>9. OwnA(c)' = OwnA(c) /\ OwnKey(c)' = OwnKey(c) /\ gb'[c] = gb[c]
      BY <3>1 DEF OwnA, OwnKey, clientVars
    <3>10. inbox'[c] = OwnResult(c)'
      BY <3>4, <3>8, <3>9 DEF AttResult, OwnResult
    <3> QED
      BY <3>1, <3>3, <3>8, <3>9, <3>10 DEF Undoubted, Proceeds, Exchange
  <2> QED
    BY <2>1, <2>2, <2>3 DEF Provider
<1> QED
  BY <1>1, <1>2

(* Its own steps take the client on its way.                               *)
LEMMA ClientUndoubted ==
    ASSUME TypeOK, NEW c \in Clients, Undoubted(c),
           NEW d \in Clients, Start(d) \/ Client(d) \/ Abandon(d)
    PROVE  Undoubted(c)'
<1>0. /\ ~Fault /\ Proceeds(c) /\ Undisturbed(c)
      /\ pc \in [Clients -> Waits \cup {"idle", "done"}]
      /\ inbox \in [Clients -> Responses]
  BY NoMoreFaults DEF Undoubted, TypeOK
<1>1. d = c
  <2>1. ASSUME d # c PROVE Retired(d)
    BY <2>1 DEF Undoubted, Undisturbed
  <2>2. ~Retired(d)
    <3>1. attempt[d] < MaxAttempts => attempt[d] # MaxAttempts
      BY BoundsAssumption DEF TypeOK
    <3> QED
      BY <1>0, <3>1 DEF Start, Client, Abandon, GetMsg1, ProcMsg2, ReadResult,
                        ReadFailure, Retired, Waits
  <2> QED
    BY <2>1, <2>2
<1>2. pc[c] # "idle" /\ ~Start(c) /\ ~Abandon(c)
  BY <1>0 DEF Proceeds, Start, Abandon
<1>3. ASSUME UNCHANGED <<attempt, faults>>,
             \A e \in Clients \ {c} : pc'[e] = pc[e],
             \A r \in requests' \ requests : r.from = c /\ r.n = attempt[c]
      PROVE  Undisturbed(c)'
  BY <1>0, <1>3 DEF Undisturbed, Retired
<1>4. /\ OwnMsg2(c).type = "msg2" /\ OwnMsg2(c).gb = db.gb
      /\ OwnResult(c).type = "result" /\ OwnResult(c).status = TRUE
      /\ OwnResult(c).mac = OwnKey(c) /\ OwnResult(c).payload = OwnKey(c)
      /\ Nothing.type = "none" /\ Accepted.type = "ok"
      /\ {Nothing, Accepted, OwnMsg2(c), OwnResult(c)}
            \cap {Failure, Broken} = {}
  BY DEF OwnMsg2, OwnResult, Nothing, Accepted, Failure, Broken
<1>5. CASE GetMsg1(c)
  <2>1. /\ pc[c] = "msg0" /\ inbox[c] # Nothing
        /\ pc' = [pc EXCEPT ![c] = "msg1"]
        /\ inbox' = [inbox EXCEPT ![c] = Nothing]
        /\ attempt' = attempt /\ faults' = faults /\ registered' = registered
        /\ Send(c, "msg1", 0)
    BY <1>5 DEF GetMsg1, spVars
  <2>2. Undisturbed(c)'
    BY <1>0, <1>3, <2>1 DEF Send
  <2>3. registered
    BY <1>0, <1>4, <2>1 DEF Proceeds
  <2>4. pc'[c] = "msg1" /\ inbox'[c] = Nothing
    BY <1>0, <2>1
  <2> QED
    BY <2>1, <2>2, <2>3, <2>4 DEF Undoubted, Proceeds
<1>6. CASE ProcMsg2(c)
  <2>1. /\ pc[c] = "msg1" /\ inbox[c].type = "msg2"
        /\ pc' = [pc EXCEPT ![c] = "msg3"]
        /\ inbox' = [inbox EXCEPT ![c] = Nothing]
        /\ gb' = [gb EXCEPT ![c] = inbox[c].gb]
        /\ attempt' = attempt /\ faults' = faults
        /\ registered' = registered /\ db' = db
        /\ Send(c, "msg3", inbox[c].gb)
    BY <1>6 DEF ProcMsg2, spVars
  <2>2. Undisturbed(c)'
    BY <1>0, <1>3, <2>1 DEF Send
  <2>3. /\ registered /\ db = Exchange(OwnA(c), db.gb)
        /\ inbox[c] = OwnMsg2(c)
    BY <1>0, <1>4, <2>1 DEF Proceeds
  <2>4. /\ pc'[c] = "msg3" /\ inbox'[c] = Nothing
        /\ gb'[c] = db.gb /\ OwnA(c)' = OwnA(c)
    BY <1>0, <1>4, <2>1, <2>3 DEF TypeOK, OwnA
  <2> QED
    BY <2>1, <2>2, <2>3, <2>4 DEF Undoubted, Proceeds, Exchange
<1>7. CASE ReadResult(c)
  <2>1. /\ pc[c] = "msg3" /\ inbox[c].type = "result"
        /\ attempt' = attempt /\ faults' = faults /\ requests' = requests
        /\ pc' = [pc EXCEPT ![c] =
                     IF /\ verify_att_result_mac(c) /\ inbox[c].status
                        /\ Decrypts(c)
                       THEN "done" ELSE "idle"]
    BY <1>7, Zenon DEF ReadResult
  <2>2. inbox[c] = OwnResult(c)
    BY <1>0, <1>4, <2>1 DEF Proceeds
  <2>3. verify_att_result_mac(c) /\ inbox[c].status /\ Decrypts(c)
    BY <1>4, <2>2 DEF verify_att_result_mac, Decrypts
  <2>4. pc' = [pc EXCEPT ![c] = "done"]
    BY <2>1, <2>3
  <2>5. Undisturbed(c)'
    BY <1>0, <1>3, <2>1, <2>4
  <2>6. pc'[c] = "done"
    BY <1>0, <2>4
  <2> QED
    BY <2>5, <2>6 DEF Undoubted, Proceeds
<1>8. ~ReadFailure(c)
  BY <1>0, <1>4 DEF Proceeds, ReadFailure, Waits
<1> QED
  BY <1>1, <1>2, <1>5, <1>6, <1>7, <1>8 DEF Client

LEMMA UndoubtedStep ==
    ASSUME TypeOK, TurnInv, NEW c \in Clients, Undoubted(c), [Next]_vars
    PROVE  Undoubted(c)'
<1>1. ~Fault
  BY NoMoreFaults DEF Undoubted
<1>2. ASSUME NEW r \in requests, Provider(r) PROVE Undoubted(c)'
  BY <1>2, ProviderUndoubted
<1>3. ASSUME NEW d \in Clients, Start(d) \/ Client(d) \/ Abandon(d)
      PROVE  Undoubted(c)'
  BY <1>3, ClientUndoubted
<1>4. ~Restart /\ \A r \in requests : ~Disconnect(r)
  BY <1>1 DEF Restart, Disconnect
<1>5. CASE UNCHANGED vars
  BY <1>5
     DEF vars, spVars, clientVars, Undoubted, Undisturbed, Retired, Proceeds,
         OwnA, OwnMsg2, OwnResult, OwnKey, Exchange
<1> QED
  BY <1>2, <1>3, <1>4, <1>5 DEF Next

(* Once nothing disturbs an attempt that has begun, it never fails,        *)
(* whatever failures, restarts and other clients have left behind.         *)
THEOREM NeverFails == Spec => UndisturbedNeverFails
<1> SUFFICES ASSUME NEW c \in Clients
             PROVE  Spec => [](pc[c] = "msg0" /\ inbox[c] = Nothing
                                   /\ Undisturbed(c) => [](pc[c] # "idle"))
  BY DEF UndisturbedNeverFails
<1> DEFINE Begun == pc[c] = "msg0" /\ inbox[c] = Nothing /\ Undisturbed(c)
<1>1. Begun => Undoubted(c)
  BY DEF Undoubted, Proceeds
<1>2. TypeOK /\ TurnInv /\ Undoubted(c) /\ [Next]_vars => Undoubted(c)'
  BY UndoubtedStep
<1>3. Undoubted(c) => pc[c] # "idle"
  BY DEF Undoubted, Proceeds
<1> QED
  BY <1>1, <1>2, <1>3, TypeInit, TypeStep, TurnInit, TurnStep, PTL DEF Spec

-----------------------------------------------------------------------------

(* The promise as the provider and its clients show it.                    *)
holderBar == IF db = Exchange(db.ga, db.gb) THEN db.ga ELSE NoKey
offeredBar == {c \in Clients : inbox[c].type = "result" /\ inbox[c].status}
trustedBar == {c \in Clients : secret[c]}

promiseBar == <<attempt, holderBar, offeredBar, trustedBar>>

LEMMA PromiseVars ==
    ASSUME UNCHANGED promiseBar PROVE UNCHANGED Promise!attestationVars
BY DEF Promise!attestationVars, promiseBar, holderBar, offeredBar, trustedBar

(* What a request and a client in the middle of an attempt tell of it: it  *)
(* has a number, and who has the secret has come to the end.               *)
Numbered ==
    /\ \A r \in requests : r.n \in 1 .. attempt[r.from]
    /\ \A c \in Clients : pc[c] \in Waits => attempt[c] >= 1

TrustedDone == \A c \in Clients : pc[c] # "done" => ~secret[c]

PromiseInv == Numbered /\ TrustedDone

(* A client's step from one place to another.                              *)
LEMMA PlaceStep ==
    ASSUME TypeOK, PromiseInv, NEW c \in Clients, pc[c] # "done",
           NEW s \in Waits \cup {"idle", "done"}, pc' = [pc EXCEPT ![c] = s],
           secret' = secret
    PROVE  TrustedDone'
<1>1. pc \in [Clients -> Waits \cup {"idle", "done"}]
  BY DEF TypeOK
<1>2. ASSUME NEW d \in Clients, pc'[d] # "done" PROVE ~secret'[d]
  <2>1. pc[d] # "done"
    BY <1>1, <1>2
  <2>2. ~secret[d]
    BY <2>1 DEF PromiseInv, TrustedDone
  <2> QED
    BY <2>2, Zenon
<1> QED
  BY <1>2 DEF TrustedDone

(* A request a client sends has the number of its attempt.                 *)
LEMMA SendNumbered ==
    ASSUME TypeOK, PromiseInv, NEW c \in Clients, NEW type \in Waits, NEW b,
           Send(c, type, b),
           attempt' \in [Clients -> Nat], attempt'[c] >= attempt[c],
           attempt'[c] >= 1,
           \A d \in Clients \ {c} : attempt'[d] = attempt[d] /\ pc'[d] = pc[d]
    PROVE  Numbered'
<1>1. requests \subseteq Requests /\ attempt \in [Clients -> Nat]
  BY BoundsAssumption DEF TypeOK
<1>0. PICK new : new = [type |-> type, from |-> c, n |-> attempt'[c], gb |-> b]
  OBVIOUS
<1>2. /\ requests' = requests \cup {new}
      /\ new.type = type /\ new.from = c /\ new.n = attempt'[c]
  BY <1>0 DEF Send
<1>3. ASSUME NEW q \in requests'
      PROVE  q.n \in 1 .. attempt'[q.from]
  <2>1. CASE q = new
    BY <1>2, <2>1
  <2>2. CASE q \in requests
    <3>1. q.n \in 1 .. attempt[q.from] /\ q.from \in Clients
      BY <1>1, <2>2 DEF PromiseInv, Numbered, Requests
    <3>2. attempt'[q.from] >= attempt[q.from] /\ attempt'[q.from] \in Nat
      BY <1>1, <3>1
    <3> QED
      BY <1>1, <3>1, <3>2
  <2> QED
    BY <1>2, <1>3, <2>1, <2>2
<1>4. ASSUME NEW d \in Clients, pc'[d] \in Waits PROVE attempt'[d] >= 1
  BY <1>4 DEF PromiseInv, Numbered
<1> QED
  BY <1>3, <1>4 DEF Numbered

LEMMA PromiseInvStep ==
    ASSUME TypeOK, PromiseInv, [Next]_vars
    PROVE  PromiseInv'
<1>0. /\ pc \in [Clients -> Waits \cup {"idle", "done"}]
      /\ secret \in [Clients -> BOOLEAN] /\ attempt \in [Clients -> Nat]
      /\ requests \subseteq Requests
  BY BoundsAssumption DEF TypeOK
<1>1. ASSUME UNCHANGED clientVars, requests' \subseteq requests
      PROVE  PromiseInv'
  BY <1>1 DEF PromiseInv, Numbered, TrustedDone, clientVars
<1>2. ASSUME NEW r \in requests, Provider(r) \/ Disconnect(r)
      PROVE  PromiseInv'
  BY <1>1, <1>2, ProviderResponds DEF Respond
<1>3. ASSUME NEW c \in Clients, Start(c) PROVE PromiseInv'
  <2>1. /\ pc[c] = "idle" /\ attempt' = [attempt EXCEPT ![c] = @ + 1]
        /\ pc' = [pc EXCEPT ![c] = "msg0"] /\ secret' = secret
        /\ Send(c, "msg0", 0)
    BY <1>3 DEF Start
  <2>2. /\ attempt' \in [Clients -> Nat] /\ attempt'[c] >= attempt[c]
        /\ attempt'[c] >= 1
        /\ \A d \in Clients \ {c} : attempt'[d] = attempt[d] /\ pc'[d] = pc[d]
    BY <1>0, <2>1
  <2> QED
    BY <2>1, <2>2, PlaceStep, SendNumbered DEF PromiseInv, Waits
<1>4. ASSUME NEW c \in Clients, GetMsg1(c) \/ ProcMsg2(c) PROVE PromiseInv'
  <2>1. /\ pc[c] \in {"msg0", "msg1"} /\ attempt' = attempt /\ secret' = secret
        /\ \E s \in {"msg1", "msg3"} : /\ pc' = [pc EXCEPT ![c] = s]
                                      /\ \E b : Send(c, s, b)
    BY <1>4 DEF GetMsg1, ProcMsg2
  <2>3. attempt[c] >= 1
    BY <2>1 DEF PromiseInv, Numbered, Waits
  <2>4. \A d \in Clients \ {c} : attempt'[d] = attempt[d] /\ pc'[d] = pc[d]
    BY <1>0, <2>1
  <2>5. attempt' \in [Clients -> Nat] /\ attempt'[c] >= attempt[c]
    BY <1>0, <2>1
  <2>6. TrustedDone'
    BY <2>1, PlaceStep DEF Waits
  <2>7. Numbered'
    BY <2>1, <2>3, <2>4, <2>5, SendNumbered DEF Waits
  <2> QED
    BY <2>6, <2>7 DEF PromiseInv
<1>5. ASSUME NEW c \in Clients, NEW s \in {"idle", "done"},
             pc' = [pc EXCEPT ![c] = s], UNCHANGED <<attempt, requests>>
      PROVE  Numbered'
  BY <1>0, <1>5 DEF PromiseInv, Numbered, Waits
<1>6. ASSUME NEW c \in Clients, ReadFailure(c) \/ Abandon(c) PROVE PromiseInv'
  <2>1. /\ pc[c] \in Waits /\ pc' = [pc EXCEPT ![c] = "idle"]
        /\ UNCHANGED <<attempt, requests, secret>>
    BY <1>6 DEF ReadFailure, Abandon, GiveUp, Waits
  <2>2. TrustedDone'
    BY <2>1, PlaceStep DEF Waits
  <2> QED
    BY <1>5, <2>1, <2>2 DEF PromiseInv
<1>7. ASSUME NEW c \in Clients, ReadResult(c) PROVE PromiseInv'
  <2> DEFINE delivered == /\ verify_att_result_mac(c) /\ inbox[c].status
                          /\ Decrypts(c)
  <2>1. /\ pc[c] = "msg3" /\ UNCHANGED <<attempt, requests>>
        /\ secret' = [secret EXCEPT ![c] = @ \/ delivered]
        /\ pc' = [pc EXCEPT ![c] = IF delivered THEN "done" ELSE "idle"]
    BY <1>7, Zenon DEF ReadResult
  <2> HIDE DEF delivered
  <2>2. \E s \in {"idle", "done"} : pc' = [pc EXCEPT ![c] = s]
    BY <2>1
  <2>3. ~secret[c]
    BY <2>1 DEF PromiseInv, TrustedDone
  <2>4. pc'[c] # "done" => ~delivered
    BY <1>0, <2>1
  <2>5. ~delivered => ~secret'[c]
    BY <1>0, <2>1, <2>3, Zenon
  <2>6. ASSUME NEW d \in Clients, d # c, pc'[d] # "done" PROVE ~secret'[d]
    <3>1. pc[d] # "done"
      BY <1>0, <2>1, <2>6
    <3>2. ~secret[d]
      BY <3>1 DEF PromiseInv, TrustedDone
    <3>3. secret'[d] = secret[d]
      BY <1>0, <2>1, <2>6, Zenon
    <3> QED
      BY <3>2, <3>3, Zenon
  <2>7. TrustedDone'
    BY <2>4, <2>5, <2>6 DEF TrustedDone
  <2> QED
    BY <1>5, <2>1, <2>2, <2>7 DEF PromiseInv
<1>8. CASE Restart
  BY <1>1, <1>8 DEF Restart
<1>9. CASE UNCHANGED vars
  BY <1>1, <1>9 DEF vars
<1> QED
  BY <1>2, <1>3, <1>4, <1>6, <1>7, <1>8, <1>9 DEF Next, Client

LEMMA PromiseInvInit == Init => PromiseInv
<1> SUFFICES ASSUME Init PROVE PromiseInv
  OBVIOUS
<1>1. TrustedDone
  BY Zenon DEF Init, TrustedDone
<1>2. Numbered
  BY DEF Init, Numbered, Waits
<1> QED
  BY <1>1, <1>2 DEF PromiseInv

-----------------------------------------------------------------------------

(* As long as no client of a supported group has asked, the provider is    *)
(* not registered, and nobody is on its way to the secret.                 *)
AskedInv ==
    (\A c \in Clients \ Foreign : attempt[c] = 0) =>
        /\ ~registered
        /\ \A c \in Clients : ~secret[c] /\ inbox[c].type # "result"

(* Every step keeps it: a supported client's message 0 has a number.       *)
LEMMA AskedStep ==
    ASSUME TypeOK, PromiseInv, AskedInv, [Next]_vars
    PROVE  AskedInv'
<1> SUFFICES ASSUME \A c \in Clients \ Foreign : attempt'[c] = 0
             PROVE  /\ ~registered'
                    /\ \A c \in Clients :
                          ~secret'[c] /\ inbox'[c].type # "result"
  BY DEF AskedInv
<1>1. /\ attempt \in [Clients -> Nat] /\ secret \in [Clients -> BOOLEAN]
      /\ inbox \in [Clients -> Responses] /\ registered \in BOOLEAN
  BY BoundsAssumption DEF TypeOK
<1>2. \A c \in Clients : attempt'[c] = 0 => attempt[c] = 0
  <2>1. \/ attempt' = attempt
        \/ \E c \in Clients : attempt' = [attempt EXCEPT ![c] = @ + 1]
    BY DEF Next, Provider, Client, sp_ra_proc_msg0_req, Msg0Known,
       Msg0Unsupported, Msg0Enroll, sp_ra_proc_msg1_req, Msg1Unregistered,
       Msg1Exchange, sp_ra_proc_msg3_req, Msg3Reject, Msg3Fail, Msg3Answer,
       Disconnect, Start, GetMsg1, ProcMsg2, ReadResult, ReadFailure,
       Abandon, Restart, vars, clientVars
  <2> QED
    BY <1>1, <2>1
<1>3. /\ \A c \in Clients \ Foreign : attempt[c] = 0
      /\ ~registered
      /\ \A c \in Clients : ~secret[c] /\ inbox[c].type # "result"
  BY <1>2 DEF AskedInv
<1>4. /\ Failure.type # "result" /\ Broken.type # "result"
      /\ Nothing.type # "result"
  BY DEF Failure, Broken, Nothing
<1>5. ASSUME registered' = registered, secret' = secret,
             \A c \in Clients :
                 inbox'[c] \in {inbox[c], Nothing, Failure, Broken}
      PROVE  /\ ~registered'
             /\ \A c \in Clients :
                   ~secret'[c] /\ inbox'[c].type # "result"
  <2>1. \A c \in Clients : inbox'[c].type # "result"
    BY <1>3, <1>4, <1>5
  <2>2. \A c \in Clients : ~secret'[c]
    BY <1>3, <1>5, Zenon
  <2> QED
    BY <1>3, <1>5, <2>1, <2>2
<1>6. ASSUME NEW r \in requests, Provider(r) \/ Disconnect(r)
      PROVE  /\ registered' = registered /\ secret' = secret
             /\ \A c \in Clients : inbox'[c] \in {inbox[c], Failure, Broken}
  <2>1. r.from \in Clients /\ r.n \in 1 .. attempt[r.from]
    BY DEF TypeOK, Requests, PromiseInv, Numbered
  <2>2. r.from \in Foreign
    BY <1>3, <2>1
  <2>3. GroupOf(r.from) \notin SupportedGroups
    BY <2>2 DEF GroupOf, SupportedGroups
  <2>4. /\ registered' = registered /\ secret' = secret
        /\ \E m \in {Failure, Broken} : Respond(r, m)
    BY <1>3, <1>6, <2>3
       DEF Provider, sp_ra_proc_msg0_req, Msg0Known, MustEnroll,
           Msg0Unsupported, Msg0Enroll, sp_ra_proc_msg1_req,
           Msg1Unregistered, Msg1Exchange, sp_ra_proc_msg3_req, Msg3Reject,
           Msg3Fail, Msg3Answer, Accepts, Disconnect, spVars, clientVars
  <2> QED
    BY <2>4, PlainResponses, RespondEffect
<1>7. ASSUME NEW c \in Clients, Start(c) \/ Client(c) \/ Abandon(c)
      PROVE  /\ registered' = registered /\ secret' = secret
             /\ \A d \in Clients : inbox'[d] \in {inbox[d], Nothing}
  <2>1. ~ReadResult(c)
    BY <1>3, Zenon DEF ReadResult
  <2> QED
    BY <1>1, <1>7, <2>1 DEF Start, Client, GetMsg1, ProcMsg2, ReadFailure,
                            Abandon, GiveUp, spVars
<1>8. CASE Restart
  <2>1. /\ ~registered' /\ secret' = secret
        /\ \A c \in Clients : inbox'[c] \in {inbox[c], Failure, Broken}
    BY <1>8 DEF Restart, clientVars
  <2>2. registered' = registered
    BY <1>1, <1>3, <1>8, <2>1 DEF Restart
  <2> QED
    BY <1>5, <2>1, <2>2
<1>9. CASE UNCHANGED vars
  BY <1>5, <1>9 DEF vars, spVars, clientVars
<1> QED
  BY <1>5, <1>6, <1>7, <1>8, <1>9 DEF Next

(* The registration that lets everybody through messages 1 and 3 is always *)
(* that of a client of a supported group.                                  *)
THEOREM AskedFirst == Spec => []SupportedAskedFirst
<1>1. Init => AskedInv
  <2> SUFFICES ASSUME Init PROVE ~registered /\ \A c \in Clients :
                                     ~secret[c] /\ inbox[c].type # "result"
    BY DEF AskedInv
  <2>1. ~registered /\ \A c \in Clients : ~secret[c]
    BY Zenon DEF Init
  <2>2. \A c \in Clients : inbox[c].type # "result"
    BY DEF Init, Nothing
  <2> QED
    BY <2>1, <2>2
<1>2. TypeOK /\ AskedInv => SupportedAskedFirst
  <2> SUFFICES ASSUME TypeOK, AskedInv, NEW c \in Clients, secret[c]
               PROVE  \E d \in Clients \ Foreign : attempt[d] > 0
    BY DEF SupportedAskedFirst
  <2>1. PICK d \in Clients \ Foreign : attempt[d] # 0
    BY Zenon DEF AskedInv
  <2>2. attempt[d] \in Nat
    BY BoundsAssumption DEF TypeOK
  <2> QED
    BY <2>1, <2>2
<1> QED
  BY <1>1, <1>2, TypeInit, TypeStep, PromiseInvInit, PromiseInvStep, AskedStep,
     PTL DEF Spec

-----------------------------------------------------------------------------

(* A response that is no secret changes nothing of what is offered.        *)
LEMMA PlainAnswer ==
    ASSUME TypeOK, NEW r \in requests, NEW m \in Responses, Respond(r, m),
           m.type # "result" \/ m.status = FALSE
    PROVE  offeredBar' = offeredBar
<1>1. \A c \in Clients :
         inbox'[c] = inbox[c] \/ (inbox'[c] = m /\ inbox[c] = Nothing)
  BY RespondEffect
<1>2. Nothing.type # "result"
  BY DEF Nothing
<1>3. ASSUME NEW c \in Clients
      PROVE  (inbox'[c].type = "result" /\ inbox'[c].status)
                 <=> (inbox[c].type = "result" /\ inbox[c].status)
  <2>1. CASE inbox'[c] = inbox[c]
    BY <2>1
  <2>2. CASE inbox'[c] = m /\ inbox[c] = Nothing
    <3>1. ~(inbox[c].type = "result")
      BY <1>2, <2>2
    <3>2. m.status = FALSE => ~m.status
      OBVIOUS
    <3>3. inbox'[c].type = "result" => ~inbox'[c].status
      BY <2>2, <3>2
    <3> QED
      BY <3>1, <3>3
  <2> QED
    BY <1>1, <2>1, <2>2
<1> QED
  BY <1>3 DEF offeredBar

(* A client that reads, or gives up, has nothing offered any more.         *)
LEMMA InboxEmptied ==
    ASSUME TypeOK, NEW c \in Clients, inbox' = [inbox EXCEPT ![c] = Nothing]
    PROVE  offeredBar' = offeredBar \ {c}
<1>1. inbox \in [Clients -> Responses] /\ Nothing.type # "result"
  BY DEF TypeOK, Nothing
<1>2. /\ inbox'[c] = Nothing
      /\ \A d \in Clients \ {c} : inbox'[d] = inbox[d]
  BY <1>1
<1> QED
  BY <1>1, <1>2 DEF offeredBar

(* Whoever exchanges keys takes the session, or leaves it to nobody.       *)
LEMMA ExchangeTakes ==
    ASSUME TypeOK, PromiseInv, NEW r \in requests,
           NEW stored \in 0 .. AllStored, NEW replied \in BOOLEAN,
           Msg1Exchange(r, stored, replied)
    PROVE  Promise!Next \/ UNCHANGED promiseBar
<1>1. /\ r.type = "msg1" /\ db' = Store(KeyA(r), nextB, stored)
      /\ UNCHANGED clientVars
      /\ Respond(r, IF replied THEN Msg2 ELSE Failure)
      /\ replied => stored = AllStored
  BY DEF Msg1Exchange
<1>2. attempt' = attempt /\ trustedBar' = trustedBar
  BY <1>1 DEF clientVars, trustedBar
<1>3. offeredBar' = offeredBar
  <2>1. KeyA(r) \in PublicKeys
    BY DEF TypeOK, Requests, KeyA, PublicKeys
  <2>2. stored = AllStored =>
            db'.ga \in PublicKeys /\ db'.gb \in Nat \ {0} /\ db'.smk \in DhKeys
    BY <1>1, <2>1, StoreType
  <2>3. stored = AllStored => Msg2 \in Responses /\ Msg2.type # "result"
    BY <2>2 DEF Msg2, Responses
  <2>4. Failure \in Responses /\ Failure.type # "result"
    BY PlainResponses DEF Failure
  <2>5. PICK m \in Responses : Respond(r, m) /\ m.type # "result"
    BY <1>1, <2>3, <2>4
  <2> QED
    BY <2>5, PlainAnswer
<1>4. r.from \in Clients /\ r.n \in 1 .. attempt[r.from]
  BY <1>1 DEF PromiseInv, Numbered, TypeOK, Requests
<1>5. CASE stored = 0
  <2>1. \A s \in Slots : ~(StoreOrder[s] <= stored)
    BY <1>5 DEF Slots, StoreOrder
  <2>2. db' = [s \in Slots |-> db[s]]
    BY <1>1, <2>1 DEF Store
  <2>3. db' = db
    BY <2>2 DEF TypeOK, Slots
  <2> QED
    BY <1>2, <1>3, <2>3 DEF promiseBar, holderBar
<1>6. CASE stored # 0
  <2>1. db'.ga = KeyA(r)
    BY <1>1, <1>6 DEF Store, Slots, StoreOrder, Exchange
  <2>2. holderBar' = NoKey \/ holderBar' = <<r.from, r.n>>
    BY <2>1 DEF holderBar, KeyA
  <2>3. CASE holderBar' = NoKey
    <3>1. Promise!Spoil
      BY <1>2, <1>3, <2>3
         DEF Promise!Spoil, holderBar, offeredBar, trustedBar
    <3> QED
      BY <3>1 DEF Promise!Next
  <2>4. CASE holderBar' = <<r.from, r.n>>
    <3>1. Promise!Take(r.from)
      BY <1>2, <1>3, <1>4, <2>4
         DEF Promise!Take, holderBar, offeredBar, trustedBar
    <3> QED
      BY <1>4, <3>1 DEF Promise!Next
  <2> QED
    BY <2>2, <2>3, <2>4
<1> QED
  BY <1>5, <1>6

(* The provider offers the secret only to the holder of its session.       *)
LEMMA AnswerOffers ==
    ASSUME TypeOK, KeysAgeInOrder, PromiseInv, NEW r \in requests,
           NEW verdict \in BOOLEAN, Msg3Answer(r, verdict)
    PROVE  Promise!Next \/ UNCHANGED promiseBar
<1>1. /\ r.type = "msg3" /\ Accepts(r) /\ Respond(r, AttResult(verdict))
      /\ UNCHANGED <<spVars, clientVars>>
  BY DEF Msg3Answer
<1>2. attempt' = attempt /\ trustedBar' = trustedBar /\ holderBar' = holderBar
  BY <1>1 DEF clientVars, spVars, trustedBar, holderBar
<1>3. AttResult(verdict) \in Responses
  BY AttResultType
<1>4. CASE ~(verdict /\ Awaits(r))
  <2>1. CASE ~Awaits(r)
    BY <1>1, <1>2, <2>1 DEF Respond, promiseBar, offeredBar
  <2>2. CASE ~verdict
    <3>1. AttResult(verdict).status = FALSE
      BY <2>2 DEF AttResult
    <3>2. offeredBar' = offeredBar
      BY <1>1, <1>3, <3>1, PlainAnswer
    <3> QED
      BY <1>2, <3>2 DEF promiseBar
  <2> QED
    BY <1>4, <2>1, <2>2
<1>5. CASE verdict /\ Awaits(r)
  <2>0. PICK c : c = r.from
    OBVIOUS
  <2>1. /\ c \in Clients /\ pc[c] = "msg3" /\ inbox[c] = Nothing
        /\ r.n = attempt[c]
    BY <1>1, <1>5, <2>0 DEF Awaits, TypeOK, Requests
  <2>2. holderBar = <<c, attempt[c]>>
    <3>1. db.mk = KeyAB(r) /\ db.sk = KeyAB(r)
      BY <1>1, AcceptedKeys
    <3>2. /\ db.ga = KeyA(r) /\ db.gb = r.gb /\ db.smk = KeyAB(r)
          /\ db.vk = KeyAB(r)
      BY <1>1 DEF Accepts, SameClientKey, CmacVerifies, ReportMatches
    <3>3. db = [ga |-> db.ga, gb |-> db.gb, smk |-> db.smk, mk |-> db.mk,
                sk |-> db.sk, vk |-> db.vk]
      BY DEF TypeOK
    <3>4. db = Exchange(db.ga, db.gb)
      BY <3>1, <3>2, <3>3 DEF Exchange, KeyAB
    <3> QED
      BY <2>0, <2>1, <3>2, <3>4 DEF holderBar, KeyA
  <2>3. c \notin offeredBar
    BY <2>1 DEF offeredBar, Nothing
  <2>4. c \notin trustedBar
    BY <2>1 DEF trustedBar, PromiseInv, TrustedDone
  <2>5. offeredBar' = offeredBar \cup {c}
    <3>1. inbox' = [inbox EXCEPT ![c] = AttResult(verdict)]
      BY <1>1, <1>5, <2>0 DEF Respond
    <3>2. inbox \in [Clients -> Responses]
      BY DEF TypeOK
    <3>3. AttResult(verdict).type = "result" /\ AttResult(verdict).status
      BY <1>5 DEF AttResult
    <3>4. /\ inbox'[c] = AttResult(verdict)
          /\ \A d \in Clients \ {c} : inbox'[d] = inbox[d]
      BY <2>1, <3>1, <3>2
    <3>5. inbox'[c].type = "result" /\ inbox'[c].status
      BY <3>3, <3>4
    <3> QED
      BY <2>1, <3>4, <3>5 DEF offeredBar
  <2>6. Promise!Offer(c)
    BY <1>2, <2>2, <2>3, <2>4, <2>5
       DEF Promise!Offer, holderBar, offeredBar, trustedBar
  <2> QED
    BY <2>1, <2>6 DEF Promise!Next
<1> QED
  BY <1>4, <1>5

(* Every step of the provider is one of the promise, or changes nothing.   *)
LEMMA ProviderPromise ==
    ASSUME TypeOK, KeysAgeInOrder, PromiseInv,
           NEW r \in requests, Provider(r) \/ Disconnect(r)
    PROVE  Promise!Next \/ UNCHANGED promiseBar
<1>1. ASSUME NEW m \in {Accepted, Failure, Broken}, Respond(r, m), db' = db,
             UNCHANGED clientVars
      PROVE  UNCHANGED promiseBar
  <2>1. m \in Responses /\ m.type # "result"
    BY PlainResponses DEF Accepted, Failure, Broken
  <2>2. offeredBar' = offeredBar
    BY <1>1, <2>1, PlainAnswer
  <2> QED
    BY <1>1, <2>2 DEF promiseBar, holderBar, trustedBar, clientVars
<1>2. CASE sp_ra_proc_msg0_req(r)
  BY <1>1, <1>2 DEF sp_ra_proc_msg0_req, Msg0Known, Msg0Unsupported,
                    Msg0Enroll, spVars
<1>3. CASE Msg1Unregistered(r) \/ Msg3Reject(r) \/ Msg3Fail(r) \/ Disconnect(r)
  BY <1>1, <1>3 DEF Msg1Unregistered, Msg3Reject, Msg3Fail, Disconnect, spVars
<1>4. CASE \E stored \in 0 .. AllStored, replied \in BOOLEAN :
               Msg1Exchange(r, stored, replied)
  BY <1>4, ExchangeTakes
<1>5. CASE \E verdict \in BOOLEAN : Msg3Answer(r, verdict)
  BY <1>5, AnswerOffers
<1> QED
  BY <1>2, <1>3, <1>4, <1>5
     DEF Provider, sp_ra_proc_msg1_req, sp_ra_proc_msg3_req,
         ias_verify_attestation_evidence

(* So is every step of a client.                                           *)
LEMMA ClientPromise ==
    ASSUME TypeOK, ResultBoundToSession, PromiseInv,
           NEW c \in Clients, Start(c) \/ Client(c) \/ Abandon(c)
    PROVE  Promise!Next \/ UNCHANGED promiseBar
<1>1. holderBar' = holderBar
  BY DEF Start, Client, Abandon, GetMsg1, ProcMsg2, ReadResult, ReadFailure,
         spVars, holderBar
<1>2. CASE Start(c)
  <2>1. /\ pc[c] = "idle" /\ attempt[c] < MaxAttempts
        /\ attempt' = [attempt EXCEPT ![c] = @ + 1]
        /\ UNCHANGED <<secret, inbox>>
    BY <1>2 DEF Start
  <2>2. c \notin offeredBar
    BY <2>1 DEF offeredBar, ResultBoundToSession
  <2>3. c \notin trustedBar
    BY <2>1 DEF trustedBar, PromiseInv, TrustedDone
  <2>4. offeredBar' = offeredBar /\ trustedBar' = trustedBar
    BY <2>1 DEF offeredBar, trustedBar
  <2>5. Promise!Begin(c)
    BY <1>1, <2>1, <2>2, <2>3, <2>4
       DEF Promise!Begin, holderBar, offeredBar, trustedBar
  <2> QED
    BY <2>5 DEF Promise!Next
<1>3. CASE GetMsg1(c) \/ ProcMsg2(c) \/ ReadFailure(c) \/ Abandon(c)
  <2>1. /\ UNCHANGED <<attempt, secret>>
        /\ inbox' = [inbox EXCEPT ![c] = Nothing]
    BY <1>3 DEF GetMsg1, ProcMsg2, ReadFailure, Abandon, GiveUp
  <2>2. offeredBar' = offeredBar \ {c} /\ trustedBar' = trustedBar
    BY <2>1, InboxEmptied DEF trustedBar
  <2>3. CASE c \in offeredBar
    <3>1. Promise!Lose(c)
      BY <1>1, <2>1, <2>2, <2>3
         DEF Promise!Lose, holderBar, offeredBar, trustedBar
    <3> QED
      BY <3>1 DEF Promise!Next
  <2>4. CASE c \notin offeredBar
    BY <1>1, <2>1, <2>2, <2>4 DEF promiseBar
  <2> QED
    BY <2>3, <2>4
<1>4. CASE ReadResult(c)
  <2> DEFINE delivered == /\ verify_att_result_mac(c) /\ inbox[c].status
                          /\ Decrypts(c)
  <2>1. /\ inbox[c].type = "result" /\ attempt' = attempt
        /\ secret' = [secret EXCEPT ![c] = @ \/ delivered]
        /\ inbox' = [inbox EXCEPT ![c] = Nothing]
    BY <1>4, Zenon DEF ReadResult
  <2>2. offeredBar' = offeredBar \ {c}
    BY <2>1, InboxEmptied
  <2>3. delivered => c \in offeredBar
    BY <2>1 DEF offeredBar
  <2> HIDE DEF delivered
  <2>4. secret \in [Clients -> BOOLEAN]
    BY DEF TypeOK
  <2>5. \A d \in Clients : secret'[d] <=> secret[d] \/ (d = c /\ delivered)
    BY <2>1, <2>4, Zenon
  <2>6. CASE delivered
    <3>1. trustedBar' = trustedBar \cup {c}
      BY <2>5, <2>6 DEF trustedBar
    <3>2. Promise!Deliver(c)
      BY <1>1, <2>1, <2>2, <2>3, <2>6, <3>1
         DEF Promise!Deliver, holderBar, offeredBar, trustedBar
    <3> QED
      BY <3>2 DEF Promise!Next
  <2>7. CASE ~delivered
    <3>1. trustedBar' = trustedBar
      BY <2>5, <2>7 DEF trustedBar
    <3>2. CASE c \in offeredBar
      <4>1. Promise!Lose(c)
        BY <1>1, <2>1, <2>2, <3>1, <3>2
           DEF Promise!Lose, holderBar, offeredBar, trustedBar
      <4> QED
        BY <4>1 DEF Promise!Next
    <3>3. CASE c \notin offeredBar
      BY <1>1, <2>1, <2>2, <3>1, <3>3 DEF promiseBar
    <3> QED
      BY <3>2, <3>3
  <2> QED
    BY <2>6, <2>7
<1> QED
  BY <1>2, <1>3, <1>4 DEF Client

LEMMA PromiseStep ==
    ASSUME TypeOK, KeysAgeInOrder, ResultBoundToSession, PromiseInv,
           [Next]_vars
    PROVE  [Promise!Next]_(Promise!attestationVars)
<1>1. ASSUME NEW r \in requests, Provider(r) \/ Disconnect(r)
      PROVE  Promise!Next \/ UNCHANGED promiseBar
  BY <1>1, ProviderPromise
<1>2. ASSUME NEW c \in Clients, Start(c) \/ Client(c) \/ Abandon(c)
      PROVE  Promise!Next \/ UNCHANGED promiseBar
  BY <1>2, ClientPromise
<1>3. CASE Restart
  <2>1. /\ db' = EmptyDb /\ UNCHANGED clientVars
        /\ \A c \in Clients :
              \/ inbox'[c] = inbox[c]
              \/ inbox'[c] \in {Failure, Broken} /\ inbox[c] = Nothing
    BY <1>3 DEF Restart
  <2>2. holderBar' = NoKey
    BY <2>1 DEF holderBar, EmptyDb
  <2>3. offeredBar' = offeredBar
    BY <2>1 DEF offeredBar, Failure, Broken, Nothing
  <2>4. attempt' = attempt /\ trustedBar' = trustedBar
    BY <2>1 DEF clientVars, trustedBar
  <2>5. Promise!Spoil
    BY <2>2, <2>3, <2>4 DEF Promise!Spoil, holderBar, offeredBar, trustedBar
  <2> QED
    BY <2>5 DEF Promise!Next
<1>4. CASE UNCHANGED vars
  <2>1. UNCHANGED promiseBar
    BY <1>4
       DEF vars, spVars, clientVars, promiseBar, holderBar, offeredBar,
           trustedBar
  <2> QED
    BY <2>1, PromiseVars
<1> QED
  BY <1>1, <1>2, <1>3, <1>4, PromiseVars DEF Next

LEMMA PromiseInit == Init => Promise!Init
<1> SUFFICES ASSUME Init PROVE Promise!Init
  OBVIOUS
<1>1. attempt = [c \in Clients |-> 0] /\ db = EmptyDb
  BY DEF Init
<1>2. holderBar = NoKey
  BY <1>1 DEF holderBar, EmptyDb
<1>3. offeredBar = {}
  BY DEF Init, offeredBar, Nothing
<1>4. trustedBar = {}
  <2>1. \A c \in Clients : ~secret[c]
    BY Zenon DEF Init
  <2> QED
    BY <2>1 DEF trustedBar
<1> QED
  BY <1>1, <1>2, <1>3, <1>4
     DEF Promise!Init, holderBar, offeredBar, trustedBar

(* The provider and its clients implement Attestation: only the client     *)
(* whose exchange was stored as a whole last, and only with its present    *)
(* attempt, is offered the secret, wherever handlers stop, connections     *)
(* break and processes restart.                                            *)
THEOREM ImplementsAttestation == Spec => AttestsInTurn
<1> DEFINE I == TypeOK /\ SessionInv /\ ResultInv /\ PromiseInv
<1>1. Init => I
  <2>1. Init => ResultInv
    BY DEF Init, ResultInv, Msg3Current, ResultBoundToSession, Nothing
  <2> QED
    BY <2>1, TypeInit, SessionInit, PromiseInvInit
<1>2. I /\ [Next]_vars => I'
  BY TypeStep, SessionStep, ResultStep, PromiseInvStep
     DEF SessionInv
<1>3. I /\ [Next]_vars => [Promise!Next]_(Promise!attestationVars)
  BY PromiseStep DEF SessionInv, ResultInv
<1>4. Init => Promise!Init
  BY PromiseInit
<1> HIDE DEF I
<1> QED
  BY <1>1, <1>2, <1>3, <1>4, PTL DEF Spec, AttestsInTurn, Promise!Spec

=============================================================================
