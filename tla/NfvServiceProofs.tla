-------------------------- MODULE NfvServiceProofs --------------------------
(***************************************************************************)
(* NfvServer implements PacketService, for any number of clients and       *)
(* calls, all packets and all sizes: each step of the server or of a       *)
(* client is a step of the service or changes nothing of it.               *)
(***************************************************************************)
EXTENDS NfvServerProofs

(* The service as the server shows it: who is inside a call, which packets *)
(* were sent as a whole, and who waits, the one being handled first.       *)
busyBar == {c \in Clients : cpc[c] # "idle"}
completeBar == {k \in Connections : Offered(k) /\ sent[k] = total_data(k)}
queueBar == IF spc = "accept" THEN backlog ELSE <<conn>> \o backlog

serviceBar == <<call, busyBar, packet, completeBar, queueBar, answer, ret>>

(* They are what the service sees.                                         *)
LEMMA ServiceVars ==
    ASSUME UNCHANGED serviceBar PROVE UNCHANGED Service!serviceVars
BY DEF Service!serviceVars, serviceBar, busyBar, completeBar, queueBar,
       Offered, total_data, data_length

(* What is in front of a queue.                                            *)
LEMMA InFront ==
    ASSUME NEW S, NEW q \in Seq(S), NEW x \in S
    PROVE  /\ <<x>> \o q # <<>>
           /\ Head(<<x>> \o q) = x
           /\ Tail(<<x>> \o q) = q
           /\ \A y \in S : <<x>> \o Append(q, y) = Append(<<x>> \o q, y)
<1>1. <<x>> \in Seq(S) /\ Len(<<x>>) = 1 /\ <<x>>[1] = x
  OBVIOUS
<1>2. /\ <<x>> \o q \in Seq(S) /\ Len(<<x>> \o q) = 1 + Len(q)
      /\ \A i \in 1 .. 1 + Len(q) :
             (<<x>> \o q)[i] = IF i <= 1 THEN x ELSE q[i - 1]
  BY <1>1, ConcatProperties
<1>3. Len(q) \in Nat
  BY LenProperties
<1>4. <<x>> \o q # <<>> /\ Head(<<x>> \o q) = x
  BY <1>2, <1>3, EmptySeq
<1>5. Tail(<<x>> \o q) = q
  <2>1. /\ Tail(<<x>> \o q) \in Seq(S) /\ Len(Tail(<<x>> \o q)) = Len(q)
        /\ \A i \in 1 .. Len(q) : Tail(<<x>> \o q)[i] = (<<x>> \o q)[i + 1]
    BY <1>2, <1>3, <1>4, HeadTailProperties
  <2>2. \A i \in 1 .. Len(q) : Tail(<<x>> \o q)[i] = q[i]
    BY <1>2, <1>3, <2>1
  <2> QED
    BY <2>1, <2>2, SeqEqual
<1>6. ASSUME NEW y \in S
      PROVE  <<x>> \o Append(q, y) = Append(<<x>> \o q, y)
  <2>1. <<y>> \in Seq(S)
    OBVIOUS
  <2>2. Append(q, y) = q \o <<y>> /\ Append(<<x>> \o q, y) = (<<x>> \o q) \o <<y>>
    BY <1>2, AppendIsConcat
  <2> QED
    BY <1>1, <2>1, <2>2, ConcatAssociative
<1> QED
  BY <1>4, <1>5, <1>6

(* A nonempty queue is its head in front of its tail.                      *)
LEMMA HeadInFront ==
    ASSUME NEW S, NEW q \in Seq(S), q # <<>>
    PROVE  <<Head(q)>> \o Tail(q) = q
<1>1. /\ Head(q) \in S /\ Tail(q) \in Seq(S) /\ Len(Tail(q)) = Len(q) - 1
      /\ \A i \in 1 .. Len(Tail(q)) : Tail(q)[i] = q[i + 1]
      /\ Len(q) \in Nat \ {0} /\ Head(q) = q[1]
  BY HeadTailProperties, EmptySeq
<1>2. <<Head(q)>> \in Seq(S) /\ Len(<<Head(q)>>) = 1
  BY <1>1
<1>3. /\ <<Head(q)>> \o Tail(q) \in Seq(S)
      /\ Len(<<Head(q)>> \o Tail(q)) = Len(q)
      /\ \A i \in 1 .. Len(q) : (<<Head(q)>> \o Tail(q))[i]
             = IF i <= 1 THEN Head(q) ELSE Tail(q)[i - 1]
  BY <1>1, <1>2, ConcatProperties
<1>4. \A i \in 1 .. Len(q) : (<<Head(q)>> \o Tail(q))[i] = q[i]
  BY <1>1, <1>3
<1> QED
  BY <1>3, <1>4, SeqEqual

(* The routine never counts more newlines than the packet has bytes,       *)
(* whatever lies where it looks.                                           *)
LEMMA CountRange ==
    ASSUME Inv, spc # "accept", NEW a \in Counts
    PROVE  a \in 0 .. Len(packet[conn])
<1>1. conn \in Connections /\ data_length(conn) \in Nat
  BY LengthType DEF Inv, TypeOK
<1>2. CASE Sgx
  BY <1>1, <1>2 DEF Counts, data_length
<1>3. CASE ~Sgx /\ dangling
  BY <1>1, <1>3 DEF Counts, process_packet, data_length
<1>4. CASE ~Sgx /\ ~dangling
  <2> DEFINE L == {p \in Processed : IsNewline(p)}
             J == {p \in Processed : cells[p] = Junk}
  <2>1. IsFiniteSet(Processed) /\ Cardinality(Processed) = data_length(conn)
    <3> DEFINE last == HeaderLen + data_length(conn) - 1
    <3>1. /\ HeaderLen \in Int /\ last \in Int /\ data_length(conn) \in Nat
          /\ HeaderLen > last <=> data_length(conn) = 0
          /\ last - HeaderLen + 1 = data_length(conn)
      BY <1>1, SizesAssumption
    <3> HIDE DEF last
    <3>2. /\ IsFiniteSet(HeaderLen .. last)
          /\ Cardinality(HeaderLen .. last)
                = IF HeaderLen > last THEN 0 ELSE last - HeaderLen + 1
      BY <3>1, FS_Interval
    <3>3. Processed = HeaderLen .. last
      BY DEF Processed, last
    <3> QED
      BY <3>1, <3>2, <3>3
  <2>2. L \in SUBSET Processed /\ J \in SUBSET Processed
    OBVIOUS
  <2>3. L \cap J = {}
    BY SizesAssumption DEF IsNewline, Junk
  <2>4. a \in Cardinality(L) .. Cardinality(L) + Cardinality(J)
    BY <1>4 DEF Counts, process_packet
  <2> HIDE DEF L, J
  <2>5. IsFiniteSet(L) /\ IsFiniteSet(J)
    BY <2>1, <2>2, FS_Subset
  <2>6. /\ Cardinality(L) \in Nat /\ Cardinality(J) \in Nat
        /\ Cardinality(L \cap J) = 0
    BY <2>3, <2>5, FS_CardinalityType, FS_EmptySet
  <2>7. Cardinality(L \cup J) = Cardinality(L) + Cardinality(J)
    <3>1. Cardinality(L \cup J)
              = Cardinality(L) + Cardinality(J) - Cardinality(L \cap J)
      BY <2>5, FS_Union
    <3> QED
      BY <2>6, <3>1
  <2>8. L \cup J \in SUBSET Processed
    BY <2>2
  <2>9. Cardinality(L \cup J) <= data_length(conn)
    BY <2>1, <2>8, FS_Subset
  <2> QED
    BY <1>1, <2>4, <2>6, <2>7, <2>9 DEF data_length
<1> QED
  BY <1>2, <1>3, <1>4

-----------------------------------------------------------------------------
(***************************************************************************)
(* The steps of the clients.                                               *)
(***************************************************************************)

(* A call that connects is a question to the service.                      *)
LEMMA ConnectAsks ==
    ASSUME Inv, NEW c \in Clients, NEW p \in Packets, Connect(c, p)
    PROVE  Service!Ask(c, p)
<1> USE SizesAssumption, BoundsAssumption
<1> DEFINE k == <<c, call[c] + 1>>
<1>1. /\ cpc[c] = "idle" /\ call[c] < MaxCalls
      /\ cpc' = [cpc EXCEPT ![c] = "header"]
      /\ call' = [call EXCEPT ![c] = @ + 1]
      /\ ret' = [ret EXCEPT ![c] = NoCount]
      /\ packet' = [packet EXCEPT ![k] = p]
      /\ backlog' = Append(backlog, k)
      /\ UNCHANGED <<sent, answer, spc, conn>>
  BY DEF Connect, serverVars
<1>2. /\ call \in [Clients -> Nat]
      /\ cpc \in [Clients -> {"idle", "header", "send", "wait"}]
      /\ packet \in [Connections -> Packets \cup {<<>>}]
      /\ sent \in [Connections -> Nat] /\ backlog \in Seq(Connections)
      /\ spc # "accept" => conn \in Connections
  BY DEF Inv, TypeOK
<1>3. k \in Connections
  <2>1. call[c] + 1 \in 1 .. MaxCalls
    BY <1>1, <1>2
  <2> QED
    BY <2>1 DEF Connections
<1>4. busyBar' = busyBar \cup {c} /\ c \notin busyBar
  BY <1>1, <1>2 DEF busyBar
<1>5. completeBar' = completeBar
  <2> DEFINE whole(j) == /\ j[2] <= call[j[1]]
                         /\ sent[j] = HeaderLen + Len(packet[j])
             becomes(j) == /\ j[2] <= call'[j[1]]
                           /\ sent'[j] = HeaderLen + Len(packet'[j])
  <2>1. /\ completeBar = {j \in Connections : whole(j)}
        /\ completeBar' = {j \in Connections : becomes(j)}
    BY DEF completeBar, Offered, total_data, data_length
  <2>2. ASSUME NEW j \in Connections, j # k
        PROVE  becomes(j) <=> whole(j)
    <3>1. j[1] \in Clients /\ j[2] \in Nat /\ j = <<j[1], j[2]>>
      BY ConnectionParts
    <3>2. j[2] <= call'[j[1]] <=> j[2] <= call[j[1]]
      <4>1. CASE j[1] = c
        <5>1. call'[j[1]] = call[c] + 1 /\ j[2] # call[c] + 1
          BY <1>1, <1>2, <2>2, <3>1, <4>1
        <5> QED
          BY <1>2, <3>1, <4>1, <5>1
      <4>2. CASE j[1] # c
        BY <1>1, <1>2, <3>1, <4>2
      <4> QED
        BY <4>1, <4>2
    <3>3. sent'[j] = sent[j] /\ packet'[j] = packet[j]
      BY <1>1, <1>2, <2>2
    <3> QED
      BY <3>2, <3>3
  <2>3. ~becomes(k)
    <3>1. sent'[k] = 0
      BY <1>1, <1>2, <1>3 DEF Inv, ConnectionsInv, Offered
    <3>2. packet'[k] = p
      BY <1>1, <1>2, <1>3
    <3>3. Len(p) \in Nat
      BY PacketsAssumption, LenProperties
    <3> QED
      BY <3>1, <3>2, <3>3
  <2>4. ~whole(k)
    BY <1>2
  <2> HIDE DEF k, whole, becomes
  <2> QED
    BY <1>3, <2>1, <2>2, <2>3, <2>4
<1>6. queueBar' = Append(queueBar, k)
  <2> HIDE DEF k
  <2>1. spc # "accept" => <<conn>> \o Append(backlog, k)
                             = Append(<<conn>> \o backlog, k)
    BY <1>2, <1>3, InFront
  <2> QED
    BY <1>1, <2>1 DEF queueBar
<1> HIDE DEF k
<1> QED
  BY <1>1, <1>4, <1>5, <1>6
     DEF Service!Ask, busyBar, completeBar, queueBar, Offered, total_data,
         data_length, k

(* Sending changes nothing but how much of the packet is complete: not at  *)
(* all, or the packet is complete now.                                     *)
LEMMA SendServes ==
    ASSUME Inv, NEW c \in Clients, SendHeader(c) \/ SendBody(c)
    PROVE  Service!Complete(c) \/ UNCHANGED serviceBar
<1> USE SizesAssumption
<1>0. PICK k : k = Current(c)
  OBVIOUS
<1>1. /\ cpc[c] \in {"header", "send"}
      /\ UNCHANGED <<call, ret, packet, answer, backlog, spc, conn>>
  BY DEF SendHeader, SendBody, serverVars
<1>2. PICK pc, n : /\ cpc' = [cpc EXCEPT ![c] = pc]
                   /\ sent' = [sent EXCEPT ![k] = n]
                   /\ pc \in {"send", "wait"}
                   /\ \/ n = total_data(k)
                      \/ n = HeaderLen /\ cpc[c] = "header"
  BY <1>0 DEF SendHeader, SendBody
<1>3. k \in Connections /\ Offered(k)
  BY <1>0, <1>1, CurrentUsed
<1>4. /\ cpc \in [Clients -> {"idle", "header", "send", "wait"}]
      /\ sent \in [Connections -> Nat]
  BY DEF Inv, TypeOK
<1>5. busyBar' = busyBar /\ c \in busyBar /\ queueBar' = queueBar
  <2>1. queueBar' = queueBar
    BY <1>1 DEF queueBar
  <2>2. \A d \in Clients : cpc'[d] # "idle" <=> cpc[d] # "idle"
    BY <1>1, <1>2, <1>4
  <2> QED
    BY <1>1, <2>1, <2>2 DEF busyBar
<1>6. \A j \in Connections : /\ Offered(j)' <=> Offered(j)
                             /\ total_data(j)' = total_data(j)
  BY <1>1 DEF Offered, total_data, data_length
<1>7. CASE n = total_data(k)
  <2>1. completeBar' = completeBar \cup {k}
    BY <1>2, <1>3, <1>4, <1>6, <1>7 DEF completeBar
  <2>2. k = Service!Current(c)
    BY <1>0 DEF Current, Service!Current
  <2> QED
    BY <1>1, <1>5, <2>1, <2>2
       DEF Service!Complete, busyBar, completeBar, queueBar, Offered,
           total_data, data_length
<1>8. CASE n # total_data(k)
  <2>1. sent[k] = 0
    BY <1>0, <1>2, <1>8 DEF Inv, ConnectionsInv
  <2>2. total_data(k) \in Nat /\ total_data(k) >= HeaderLen
    BY <1>3, LengthType DEF Inv
  <2>3. completeBar' = completeBar
    BY <1>2, <1>3, <1>4, <1>6, <1>8, <2>1, <2>2 DEF completeBar
  <2> QED
    BY <1>1, <1>5, <2>3 DEF serviceBar
<1> QED
  BY <1>7, <1>8

(* What a call that returns changes of the service.                        *)
LEMMA ReturnsIsReturn ==
    ASSUME Inv, NEW c \in Clients, cpc[c] # "idle", NEW r, Returns(c, r)
    PROVE  c \in busyBar /\ Service!Return(c, r)
<1>1. /\ cpc' = [cpc EXCEPT ![c] = "idle"] /\ ret' = [ret EXCEPT ![c] = r]
      /\ UNCHANGED <<call, packet, sent, answer, backlog, spc, conn>>
  BY DEF Returns, serverVars
<1>2. cpc \in [Clients -> {"idle", "header", "send", "wait"}]
  BY DEF Inv, TypeOK
<1>3. busyBar' = busyBar \ {c} /\ c \in busyBar /\ queueBar' = queueBar
  BY <1>1, <1>2 DEF busyBar, queueBar
<1>4. completeBar' = completeBar
  BY <1>1 DEF completeBar, Offered, total_data, data_length
<1> QED
  BY <1>1, <1>3, <1>4
     DEF Service!Return, busyBar, completeBar, queueBar, Offered, total_data,
         data_length

(* A call returns its own verdict, an error, or what calls left behind.    *)
LEMMA ReturnServes ==
    ASSUME Inv, NEW c \in Clients,
           ReadAnswer(c) \/ ReadPart(c) \/ ReadClosed(c) \/ SocketError(c)
    PROVE  Service!Given(c) \/ Service!Mistaken(c) \/ Service!Fails(c)
<1>1. cpc[c] # "idle"
  BY DEF ReadAnswer, ReadPart, ReadClosed, SocketError
<1>2. Current(c) = Service!Current(c)
  BY DEF Current, Service!Current
<1>3. CASE ReadAnswer(c)
  <2>0. PICK r : r = answer[Current(c)]
    OBVIOUS
  <2>1. r >= 0 /\ Returns(c, r)
    BY <1>3, <2>0 DEF ReadAnswer
  <2>2. c \in busyBar /\ Service!Return(c, r)
    BY <1>1, <2>1, ReturnsIsReturn
  <2> QED
    BY <1>2, <2>0, <2>1, <2>2 DEF Service!Given, Service!Return, busyBar
<1>4. CASE ReadPart(c) \/ ReadClosed(c)
  <2>1. PICK n \in Leftovers \cup {Malformed} : Returns(c, n)
    BY <1>4 DEF ReadPart, ReadClosed
  <2>2. answer[Current(c)] # NoAnswer
    BY <1>4 DEF ReadPart, ReadClosed, NoAnswer, Closed
  <2>3. c \in busyBar /\ Service!Return(c, n)
    BY <1>1, <2>1, ReturnsIsReturn
  <2>4. CASE n \in Leftovers
    <3>1. n \in Service!LeftBehind
      BY <2>4 DEF Leftovers, Service!LeftBehind, Service!Calls, Connections
    <3>2. answer[Service!Current(c)] # NoAnswer
      BY <1>2, <2>2, Zenon
    <3> QED
      BY <2>3, <3>1, <3>2 DEF Service!Mistaken, busyBar
  <2>5. CASE n = Malformed
    BY <2>3, <2>5 DEF Service!Fails, busyBar, Malformed
  <2> QED
    BY <2>1, <2>4, <2>5
<1>5. CASE SocketError(c)
  <2>1. Returns(c, -1)
    BY <1>5 DEF SocketError
  <2>2. c \in busyBar /\ Service!Return(c, -1)
    BY <1>1, <2>1, ReturnsIsReturn
  <2> QED
    BY <2>1, <2>2 DEF Service!Fails, busyBar
<1> QED
  BY <1>3, <1>4, <1>5

(* Every step of a client is one of the service, or hidden.                *)
LEMMA ClientServes ==
    ASSUME Inv, NEW c \in Clients, sendData(c)
    PROVE  Service!Next \/ UNCHANGED serviceBar
<1>1. CASE \E p \in Packets : Connect(c, p)
  BY <1>1, ConnectAsks DEF Service!Next
<1>2. CASE SendHeader(c) \/ SendBody(c)
  BY <1>2, SendServes DEF Service!Next
<1>3. CASE ReadAnswer(c) \/ ReadPart(c) \/ ReadClosed(c) \/ SocketError(c)
  BY <1>3, ReturnServes DEF Service!Next
<1> QED
  BY <1>1, <1>2, <1>3 DEF sendData

-----------------------------------------------------------------------------
(***************************************************************************)
(* The steps of the server.                                                *)
(***************************************************************************)

(* To finish a connection is to decide on the first call of the queue.     *)
LEMMA FinishDecides ==
    ASSUME Inv, spc # "accept", NEW a, Finish(a),
           a = Closed \/ (a \in Counts /\ ~Incomplete(conn))
    PROVE  Service!Decide
<1>1. /\ spc' = "accept" /\ answer' = [answer EXCEPT ![conn] = a]
      /\ UNCHANGED <<cpc, call, ret, packet, sent, backlog>>
  BY DEF Finish, clientVars
<1>2. /\ conn \in Connections /\ backlog \in Seq(Connections)
      /\ total_received \in Nat /\ sent[conn] \in Nat
      /\ total_received <= sent[conn] /\ sent[conn] <= total_data(conn)
      /\ Offered(conn)
  BY DEF Inv, TypeOK, ConnectionsInv
<1>3. /\ queueBar # <<>> /\ Head(queueBar) = conn
      /\ queueBar' = Tail(queueBar)
  BY <1>1, <1>2, InFront DEF queueBar
<1>4. busyBar' = busyBar /\ completeBar' = completeBar
  BY <1>1 DEF busyBar, completeBar, Offered, total_data, data_length
<1>5. \/ a = Closed
      \/ conn \in completeBar /\ a \in 0 .. Len(packet[conn])
  <2> SUFFICES ASSUME a \in Counts, ~Incomplete(conn)
               PROVE  conn \in completeBar /\ a \in 0 .. Len(packet[conn])
    OBVIOUS
  <2>1. total_data(conn) \in Nat
    BY <1>2, LengthType DEF Inv
  <2>2. sent[conn] = total_data(conn)
    BY <1>2, <2>1 DEF Incomplete
  <2> QED
    BY <1>2, <2>2, CountRange DEF completeBar
<1>6. a \in Service!Verdicts(conn)
  BY <1>5
     DEF Service!Verdicts, completeBar, Offered, total_data, data_length
<1> QED
  BY <1>1, <1>3, <1>4, <1>6
     DEF Service!Decide, busyBar, completeBar, queueBar, Offered, total_data,
         data_length

(* Receiving shows nothing to the clients.                                 *)
LEMMA ReceivingHidden ==
    ASSUME UNCHANGED <<clientVars, answer>>, queueBar' = queueBar
    PROVE  UNCHANGED serviceBar
<1>1. UNCHANGED <<cpc, call, ret, packet, sent, answer>>
  BY DEF clientVars
<1> QED
  BY <1>1 DEF serviceBar, busyBar, completeBar, Offered, total_data, data_length

(* Every step of the server decides on a call or is hidden.                *)
LEMMA ServerServes ==
    ASSUME Inv, run_server
    PROVE  Service!Next \/ UNCHANGED serviceBar
<1>1. ASSUME spc # "accept", NEW a, Finish(a),
             a = Closed \/ (a \in Counts /\ ~Incomplete(conn))
      PROVE  Service!Next
  BY <1>1, FinishDecides DEF Service!Next
<1>2. CASE Accept
  <2>1. /\ spc = "accept" /\ spc' = "first" /\ backlog # <<>>
        /\ conn' = Head(backlog) /\ backlog' = Tail(backlog)
        /\ UNCHANGED <<clientVars, answer>>
    BY <1>2 DEF Accept
  <2>2. backlog \in Seq(Connections)
    BY DEF Inv, TypeOK
  <2>3. queueBar' = queueBar
    BY <2>1, <2>2, HeadInFront DEF queueBar
  <2> QED
    BY <2>1, <2>3, ReceivingHidden
<1>3. CASE AcceptFails
  <2>1. UNCHANGED <<clientVars, answer>> /\ queueBar' = queueBar
    BY <1>3 DEF AcceptFails, serverVars, queueBar
  <2> QED
    BY <2>1, ReceivingHidden
<1>4. CASE FirstFails \/ ExtendFails \/ RecvFails
  BY <1>1, <1>4 DEF FirstFails, ExtendFails, RecvFails
<1>5. CASE FirstRecv
  <2>1. spc = "first"
    BY <1>5 DEF FirstRecv
  <2>2. \/ Finish(Closed)
        \/ spc' = "test" /\ UNCHANGED <<clientVars, answer, backlog, conn>>
    BY <1>5 DEF FirstRecv
  <2>3. CASE Finish(Closed)
    BY <1>1, <2>1, <2>3
  <2>4. CASE spc' = "test" /\ UNCHANGED <<clientVars, answer, backlog, conn>>
    BY <2>1, <2>4, ReceivingHidden DEF queueBar
  <2> QED
    BY <2>2, <2>3, <2>4
<1>6. CASE Extend \/ Recv
  <2>1. /\ spc # "accept" /\ spc' # "accept"
        /\ UNCHANGED <<clientVars, answer, backlog, conn>>
    BY <1>6 DEF Extend, Recv
  <2> QED
    BY <2>1, ReceivingHidden DEF queueBar
<1>7. CASE Reply
  <2>1. spc = "test" /\ ~Incomplete(conn) /\ \E a \in Counts : Finish(a)
    BY <1>7 DEF Reply
  <2> QED
    BY <1>1, <2>1
<1> QED
  BY <1>2, <1>3, <1>4, <1>5, <1>6, <1>7 DEF run_server, handle_connection

-----------------------------------------------------------------------------

(* Nobody has asked initially.                                             *)
LEMMA InitServes == Init => Service!Init
<1> SUFFICES ASSUME Init PROVE Service!Init
  OBVIOUS
<1>1. /\ call = [c \in Clients |-> 0] /\ cpc = [c \in Clients |-> "idle"]
      /\ packet = [k \in Connections |-> <<>>] /\ backlog = <<>>
      /\ answer = [k \in Connections |-> NoAnswer] /\ spc = "accept"
      /\ ret = [c \in Clients |-> NoCount]
  BY DEF Init
<1>2. busyBar = {} /\ queueBar = <<>>
  BY <1>1 DEF busyBar, queueBar
<1>3. completeBar = {}
  BY <1>1, ConnectionParts DEF completeBar, Offered
<1>4. Service!Calls = Connections
  BY DEF Service!Calls, Connections
<1> QED
  BY <1>1, <1>2, <1>3, <1>4
     DEF Service!Init, busyBar, completeBar, queueBar, Offered, total_data,
         data_length

LEMMA StepServes ==
    ASSUME Inv, [Next]_vars
    PROVE  [Service!Next]_(Service!serviceVars)
<1>1. CASE run_server
  BY <1>1, ServerServes, ServiceVars
<1>2. CASE \E c \in Clients : sendData(c)
  BY <1>2, ClientServes, ServiceVars
<1>3. CASE UNCHANGED vars
  <2>1. UNCHANGED <<clientVars, answer>> /\ queueBar' = queueBar
    BY <1>3 DEF vars, serverVars, queueBar
  <2> QED
    BY <2>1, ReceivingHidden, ServiceVars
<1> QED
  BY <1>1, <1>2, <1>3 DEF Next

(* The server and its clients implement the packet service: connections    *)
(* are decided in the order in which they were made, each once, only whole *)
(* packets get a count, which is at most their length, and a call returns  *)
(* its own count, an error, or, only after its connection was decided, the *)
(* leftovers of other calls.                                               *)
THEOREM ImplementsPacketService == Spec => ServesInOrder
<1>1. Init => Service!Init
  BY InitServes
<1>2. Inv /\ [Next]_vars => [Service!Next]_(Service!serviceVars)
  BY StepServes
<1> QED
  BY <1>1, <1>2, InvInit, InvStep, PTL
     DEF Spec, ServesInOrder, Service!Spec

-----------------------------------------------------------------------------
(***************************************************************************)
(* The queue of the service: who waits in it.                              *)
(***************************************************************************)

(* The elements of a sequence, and that each of them is there once.        *)
Waiting(q) == {q[i] : i \in DOMAIN q}
OneEach(q) == \A i, j \in DOMAIN q : q[i] = q[j] => i = j

LEMMA AppendWaiting ==
    ASSUME NEW S, NEW q \in Seq(S), NEW x \in S
    PROVE  /\ Waiting(Append(q, x)) = Waiting(q) \cup {x}
           /\ OneEach(q) /\ x \notin Waiting(q) => OneEach(Append(q, x))
<1> DEFINE r == Append(q, x)
           n == Len(q)
<1>1. /\ n \in Nat /\ DOMAIN q = 1 .. n /\ DOMAIN r = 1 .. n + 1
      /\ \A i \in 1 .. n : r[i] = q[i]
      /\ r[n + 1] = x
  BY AppendProperties, LenProperties
<1> HIDE DEF r, n
<1>2. Waiting(r) = Waiting(q) \cup {x}
  <2>1. ASSUME NEW y \in Waiting(r) PROVE y \in Waiting(q) \cup {x}
    <3>1. PICK i \in 1 .. n + 1 : r[i] = y
      BY <1>1, <2>1 DEF Waiting
    <3>2. i \in 1 .. n \/ i = n + 1
      BY <1>1
    <3> QED
      BY <1>1, <3>1, <3>2 DEF Waiting
  <2>2. ASSUME NEW y \in Waiting(q) PROVE y \in Waiting(r)
    <3>1. PICK i \in 1 .. n : q[i] = y
      BY <1>1, <2>2 DEF Waiting
    <3>2. i \in 1 .. n + 1 /\ r[i] = y
      BY <1>1, <3>1
    <3> QED
      BY <1>1, <3>2 DEF Waiting
  <2>3. x \in Waiting(r)
    <3>1. n + 1 \in 1 .. n + 1
      BY <1>1
    <3> QED
      BY <1>1, <3>1 DEF Waiting
  <2> QED
    BY <2>1, <2>2, <2>3
<1>3. ASSUME OneEach(q), x \notin Waiting(q),
             NEW i \in 1 .. n + 1, NEW j \in 1 .. n + 1, r[i] = r[j]
      PROVE  i = j
  <2>1. \A l \in 1 .. n : q[l] # x
    BY <1>1, <1>3 DEF Waiting
  <2>2. (i \in 1 .. n \/ i = n + 1) /\ (j \in 1 .. n \/ j = n + 1)
    BY <1>1
  <2> QED
    BY <1>1, <1>3, <2>1, <2>2 DEF OneEach
<1> QED
  BY <1>1, <1>2, <1>3 DEF OneEach, r

LEMMA TailWaiting ==
    ASSUME NEW S, NEW q \in Seq(S), q # <<>>, OneEach(q)
    PROVE  Waiting(Tail(q)) = Waiting(q) \ {Head(q)} /\ OneEach(Tail(q))
<1> DEFINE r == Tail(q)
           n == Len(q)
<1>1. /\ n \in Nat \ {0} /\ DOMAIN q = 1 .. n /\ DOMAIN r = 1 .. n - 1
      /\ \A i \in 1 .. n - 1 : r[i] = q[i + 1]
      /\ Head(q) = q[1]
  BY HeadTailProperties, LenProperties, EmptySeq
<1> HIDE DEF r, n
<1>2. Waiting(r) = Waiting(q) \ {q[1]}
  <2>1. ASSUME NEW y \in Waiting(r) PROVE y \in Waiting(q) \ {q[1]}
    <3>1. PICK i \in 1 .. n - 1 : r[i] = y
      BY <1>1, <2>1 DEF Waiting
    <3>2. i + 1 \in 1 .. n /\ 1 \in 1 .. n /\ i + 1 # 1 /\ y = q[i + 1]
      BY <1>1, <3>1
    <3> QED
      BY <1>1, <3>2 DEF Waiting, OneEach
  <2>2. ASSUME NEW y \in Waiting(q), y # q[1] PROVE y \in Waiting(r)
    <3>1. PICK i \in 1 .. n : q[i] = y
      BY <1>1, <2>2 DEF Waiting
    <3>2. i - 1 \in 1 .. n - 1 /\ r[i - 1] = y
      BY <1>1, <2>2, <3>1
    <3> QED
      BY <1>1, <3>2 DEF Waiting
  <2> QED
    BY <2>1, <2>2
<1>3. ASSUME NEW i \in 1 .. n - 1, NEW j \in 1 .. n - 1, r[i] = r[j]
      PROVE  i = j
  <2>1. /\ i + 1 \in 1 .. n /\ j + 1 \in 1 .. n
        /\ q[i + 1] = q[j + 1]
    BY <1>1, <1>3
  <2>2. i + 1 = j + 1
    BY <1>1, <2>1 DEF OneEach
  <2> QED
    BY <1>1, <2>2
<1> QED
  BY <1>1, <1>2, <1>3 DEF OneEach, r

-----------------------------------------------------------------------------

(* The calls that were made and not decided, and where they are.           *)
undecidedBar == {k \in Connections : Offered(k) /\ answer[k] = NoAnswer}

QueueInv == Waiting(queueBar) = undecidedBar /\ OneEach(queueBar)

LEMMA QueueType == ASSUME Inv PROVE queueBar \in Seq(Connections)
<1>1. /\ backlog \in Seq(Connections)
      /\ spc # "accept" => <<conn>> \in Seq(Connections)
  BY DEF Inv, TypeOK
<1> QED
  BY <1>1, ConcatProperties DEF queueBar

(* A new call waits behind the others.                                     *)
LEMMA AskWaits ==
    ASSUME Inv, QueueInv, NEW c \in Clients, NEW p, Service!Ask(c, p)
    PROVE  QueueInv'
<1>0. PICK k : k = <<c, call[c] + 1>>
  OBVIOUS
<1>1. /\ call[c] < MaxCalls
      /\ call' = [call EXCEPT ![c] = @ + 1]
      /\ queueBar' = Append(queueBar, k)
      /\ answer' = answer
  BY <1>0 DEF Service!Ask, queueBar
<1>2. call \in [Clients -> 0 .. MaxCalls]
  BY DEF Inv, TypeOK
<1>3. k \in Connections /\ ~Offered(k) /\ call[c] \in Nat
  BY <1>0, <1>1, <1>2, BoundsAssumption DEF Connections, Offered
<1>4. answer[k] = NoAnswer
  BY <1>3 DEF Inv, ConnectionsInv
<1>5. undecidedBar' = undecidedBar \cup {k}
  <2>1. ASSUME NEW j \in Connections
        PROVE  Offered(j)' <=> Offered(j) \/ j = k
    <3>1. j[1] \in Clients /\ j[2] \in Nat /\ j = <<j[1], j[2]>>
      BY ConnectionParts
    <3>2. CASE j[1] = c
      <4>1. call'[j[1]] = call[c] + 1
        BY <1>1, <1>2, <3>1, <3>2
      <4>2. j = k <=> j[2] = call[c] + 1
        BY <1>0, <3>1, <3>2
      <4> QED
        BY <1>3, <3>1, <3>2, <4>1, <4>2 DEF Offered
    <3>3. CASE j[1] # c
      <4>1. call'[j[1]] = call[j[1]] /\ j # k
        BY <1>0, <1>1, <1>2, <3>1, <3>3
      <4> QED
        BY <4>1 DEF Offered
    <3> QED
      BY <3>2, <3>3
  <2> QED
    BY <1>1, <1>3, <1>4, <2>1 DEF undecidedBar
<1>6. k \notin Waiting(queueBar)
  BY <1>3 DEF QueueInv, undecidedBar
<1> QED
  BY <1>1, <1>3, <1>5, <1>6, QueueType, AppendWaiting DEF QueueInv

(* The call that is decided leaves the queue, and no other.                *)
LEMMA DecideWaits ==
    ASSUME Inv, QueueInv, Service!Decide
    PROVE  QueueInv'
<1>0. PICK k : k = Head(queueBar)
  OBVIOUS
<1>1. PICK v \in Service!Verdicts(k) : answer' = [answer EXCEPT ![k] = v]
  BY <1>0 DEF Service!Decide, queueBar
<1>2. queueBar # <<>> /\ queueBar' = Tail(queueBar) /\ call' = call
  BY DEF Service!Decide, queueBar
<1>3. v # NoAnswer
  BY DEF Service!Verdicts, NoAnswer, Closed
<1>4. queueBar \in Seq(Connections)
  BY QueueType
<1>5. k \in Waiting(queueBar)
  <2>1. 1 \in DOMAIN queueBar /\ k = queueBar[1]
    BY <1>0, <1>2, <1>4, LenProperties, EmptySeq, HeadTailProperties
  <2> QED
    BY <2>1 DEF Waiting
<1>6. k \in Connections /\ answer[k] = NoAnswer
  BY <1>5 DEF QueueInv, undecidedBar
<1>7. answer \in [Connections -> Nat \cup {NoAnswer, Closed}]
  BY DEF Inv, TypeOK
<1>8. undecidedBar' = undecidedBar \ {k}
  BY <1>1, <1>2, <1>3, <1>6, <1>7 DEF undecidedBar, Offered
<1> QED
  BY <1>0, <1>2, <1>4, <1>8, TailWaiting DEF QueueInv

LEMMA QueueStep ==
    ASSUME Inv, QueueInv, [Next]_vars
    PROVE  QueueInv'
<1>1. [Service!Next]_(Service!serviceVars)
  BY StepServes
<1>2. ASSUME UNCHANGED <<call, queueBar, answer>> PROVE QueueInv'
  BY <1>2 DEF QueueInv, undecidedBar, Offered
<1>3. CASE Service!Decide
  BY <1>3, DecideWaits
<1>4. ASSUME NEW c \in Clients, NEW p \in Packets, Service!Ask(c, p)
      PROVE  QueueInv'
  BY <1>4, AskWaits
<1>5. ASSUME NEW c \in Clients,
             \/ Service!Complete(c) \/ Service!Given(c) \/ Service!Mistaken(c)
             \/ Service!Fails(c)
      PROVE  UNCHANGED <<call, queueBar, answer>>
  BY <1>5
     DEF Service!Complete, Service!Given, Service!Mistaken, Service!Fails,
         Service!Return, queueBar
<1>6. CASE UNCHANGED Service!serviceVars
  BY <1>2, <1>6 DEF Service!serviceVars, queueBar
<1> QED
  BY <1>1, <1>2, <1>3, <1>4, <1>5, <1>6 DEF Service!Next

LEMMA QueueInit == Init => QueueInv
<1> SUFFICES ASSUME Init PROVE QueueInv
  OBVIOUS
<1>1. call = [c \in Clients |-> 0] /\ queueBar = <<>>
  BY DEF Init, queueBar
<1>2. undecidedBar = {}
  BY <1>1, ConnectionParts DEF undecidedBar, Offered
<1> QED
  BY <1>1, <1>2 DEF QueueInv, Waiting, OneEach

(* No connection is forgotten: those made and not decided are the ones in  *)
(* the backlog and the one being handled, each of them in one place.       *)
THEOREM WaitersKept == Spec => []NoneForgotten
<1>1. QueueInv => NoneForgotten
  <2> SUFFICES ASSUME QueueInv PROVE Service!WaitsOnce
    BY DEF NoneForgotten
  <2>1. Service!Undecided = undecidedBar
    BY DEF Service!Undecided, Service!Calls, undecidedBar, Connections, Offered
  <2>2. /\ \A i \in DOMAIN queueBar : queueBar[i] \in undecidedBar
        /\ \A k \in undecidedBar : \E i \in DOMAIN queueBar : queueBar[i] = k
        /\ OneEach(queueBar)
    BY DEF QueueInv, Waiting
  <2> QED
    BY <2>1, <2>2 DEF Service!WaitsOnce, OneEach, queueBar
<1> QED
  BY <1>1, InvInit, InvStep, QueueInit, QueueStep, PTL DEF Spec

=============================================================================
