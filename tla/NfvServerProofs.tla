--------------------------- MODULE NfvServerProofs ---------------------------
(***************************************************************************)
(* What the server processes and whom it answers, for any number of        *)
(* clients, all packets, and all sizes of a header, a part and a block.    *)
(***************************************************************************)
EXTENDS NfvServer, SequenceTheorems, FunctionTheorems, FiniteSetTheorems, TLAPS

(* The part of the type invariant that says how much has been received is  *)
(* inductive only with what it relies on: which connections are in use,    *)
(* that nothing is sent on one before its header, and that no more is ever *)
(* sent than its packet has.                                               *)
ConnectionsInv ==
    /\ \A i \in DOMAIN backlog : Offered(backlog[i])
    /\ spc # "accept" => Offered(conn)
    /\ \A k \in Connections : answer[k] # NoAnswer => Offered(k)
    /\ \A k \in Connections : Offered(k) => sent[k] <= total_data(k)
    /\ \A k \in Connections : ~Offered(k) => sent[k] = 0
    /\ \A c \in Clients : cpc[c] # "idle" => call[c] >= 1
    /\ \A c \in Clients : cpc[c] = "header" => sent[Current(c)] = 0

Inv == TypeOK /\ ConnectionsInv

(* The two components of a connection.                                     *)
LEMMA ConnectionParts ==
    ASSUME NEW k \in Connections
    PROVE  /\ k[1] \in Clients /\ k[2] \in 1 .. MaxCalls
           /\ k = <<k[1], k[2]>>
BY DEF Connections

(* A packet has a length.                                                  *)
LEMMA LengthType ==
    ASSUME TypeOK, NEW k \in Connections
    PROVE  /\ packet[k] \in Seq({Newline, Other})
           /\ data_length(k) \in Nat
           /\ total_data(k) \in Nat /\ total_data(k) >= HeaderLen
<1>1. packet[k] \in Packets \cup {<<>>}
  BY DEF TypeOK
<1>2. packet[k] \in Seq({Newline, Other})
  <2>1. CASE packet[k] \in Packets
    BY <2>1, PacketsAssumption
  <2>2. CASE packet[k] = <<>>
    BY <2>2
  <2> QED
    BY <1>1, <2>1, <2>2
<1> QED
  BY <1>2, SizesAssumption DEF data_length, total_data

(* What recv may return.                                                   *)
LEMMA RecvResultsType ==
    ASSUME TypeOK, spc # "accept", NEW k \in RecvResults
    PROVE  k \in 0 .. Chunk /\ total_received + k <= sent[conn]
<1>1. /\ total_received \in Nat /\ sent[conn] \in Nat
      /\ total_received <= sent[conn] /\ Chunk \in Nat
  BY SizesAssumption DEF TypeOK
<1> QED
  BY <1>1 DEF RecvResults, available

(* Receiving keeps the block well formed.                                  *)
LEMMA StoreAtType ==
    ASSUME TypeOK, NEW size \in Nat, NEW offset \in Nat, NEW k \in Nat
    PROVE  StoreAt(cells, size, offset, k)
               \in [0 .. size - 1 -> Nat \cup {Zero, Junk}]
<1>1. /\ total_received \in Nat
      /\ cells \in [0 .. recv_size - 1 -> Nat \cup {Zero, Junk}]
  BY DEF TypeOK
<1> QED
  BY <1>1 DEF StoreAt

(* The count is a number.                                                  *)
LEMMA CountType ==
    ASSUME Inv, spc # "accept", NEW a \in process_packet
    PROVE  a \in Nat
<1>1. data_length(conn) \in Nat
  BY LengthType DEF Inv, TypeOK
<1>2. CASE dangling
  BY <1>1, <1>2 DEF process_packet
<1>3. CASE ~dangling
  <2> DEFINE L == {p \in Processed : IsNewline(p)}
             J == {p \in Processed : cells[p] = Junk}
  <2>1. IsFiniteSet(Processed)
    BY <1>1, SizesAssumption, FS_Interval DEF Processed
  <2>2. IsFiniteSet(L)
    BY <2>1, FS_Subset
  <2>3. IsFiniteSet(J)
    BY <2>1, FS_Subset
  <2>4. Cardinality(L) \in Nat /\ Cardinality(J) \in Nat
    BY <2>2, <2>3, FS_CardinalityType
  <2>5. a \in Cardinality(L) .. Cardinality(L) + Cardinality(J)
    BY <1>3 DEF process_packet
  <2> HIDE DEF L, J
  <2> QED
    BY <2>4, <2>5
<1> QED
  BY <1>2, <1>3

(* What is sent back is a number too.                                      *)
LEMMA AnswerType ==
    ASSUME Inv, spc # "accept", NEW a \in Counts
    PROVE  a \in Nat
<1>1. CASE Sgx
  BY <1>1 DEF Counts
<1>2. CASE ~Sgx
  BY <1>2, CountType DEF Counts
<1> QED
  BY <1>1, <1>2

(* A finished connection leaves the handler without a block.               *)
LEMMA FinishInv ==
    ASSUME Inv, spc # "accept", NEW a \in Nat \cup {Closed}, Finish(a),
           faults' \in 0 .. MaxFaults
    PROVE  Inv'
<1>1. /\ UNCHANGED <<cpc, call, ret, packet, sent, open, backlog>>
      /\ spc' = "accept" /\ conn' = None
      /\ recv_size' = 0 /\ recv_offset' = 0 /\ bytes_received' = 0
      /\ total_received' = 0 /\ cells' = NoBlock
  BY DEF Finish, clientVars
<1>2. answer' = [answer EXCEPT ![conn] = a] /\ dangling' \in BOOLEAN
  BY Zenon DEF Finish
<1>3. conn \in Connections
  BY DEF Inv, TypeOK
<1>4. cells' \in [0 .. 0 - 1 -> Nat \cup {Zero, Junk}]
  BY <1>1 DEF NoBlock
<1>5. 0 \in 0 .. MaxSize /\ 0 \in 0 .. Chunk
  BY SizesAssumption
<1>6. answer' \in [Connections -> Nat \cup {NoAnswer, Closed}]
  BY <1>2, <1>3 DEF Inv, TypeOK
<1>7. TypeOK'
  BY <1>1, <1>2, <1>4, <1>5, <1>6 DEF Inv, TypeOK
<1>8. ConnectionsInv'
  BY <1>1, <1>2, <1>3
     DEF Inv, ConnectionsInv, TypeOK, Offered, Current, total_data,
         data_length
<1> QED
  BY <1>7, <1>8 DEF Inv

-----------------------------------------------------------------------------

(* The steps of the server that keep the connection.                       *)
LEMMA ReceiveInv ==
    ASSUME Inv, spc # "accept", spc' \in {"test", "recv"},
           UNCHANGED <<clientVars, answer, backlog, conn>>,
           recv_size' \in 0 .. MaxSize, recv_offset' \in 0 .. MaxSize,
           bytes_received' \in 0 .. Chunk, total_received' \in Nat,
           recv_size' = recv_offset' + Chunk,
           total_received' <= sent[conn],
           cells' \in [0 .. recv_size' - 1 -> Nat \cup {Zero, Junk}],
           dangling' \in BOOLEAN, faults' \in 0 .. MaxFaults
    PROVE  Inv'
<1>1. UNCHANGED <<cpc, call, ret, packet, sent, open>>
  BY DEF clientVars
<1>2. TypeOK'
  BY <1>1 DEF Inv, TypeOK
<1>3. ConnectionsInv'
  BY <1>1 DEF Inv, ConnectionsInv, Offered, Current, total_data, data_length
<1> QED
  BY <1>2, <1>3 DEF Inv

(* Every step of the server keeps the invariant.                           *)
LEMMA ServerInv == ASSUME Inv, run_server PROVE Inv'
<1> USE SizesAssumption, BoundsAssumption
<1>0. /\ faults \in Nat /\ faults \in 0 .. MaxFaults
      /\ recv_size \in Nat /\ recv_offset \in Nat /\ total_received \in Nat
      /\ bytes_received \in 0 .. Chunk /\ dangling \in BOOLEAN
      /\ spc # "accept" => recv_size = recv_offset + Chunk
      /\ spc # "accept" => conn \in Connections
      /\ spc # "accept" => /\ sent[conn] \in Nat
                           /\ total_received <= sent[conn]
      /\ cells \in [0 .. recv_size - 1 -> Nat \cup {Zero, Junk}]
      /\ recv_size <= MaxSize /\ recv_offset <= MaxSize
  BY DEF Inv, TypeOK
<1>9. ASSUME Finish(Closed), spc # "accept", Fault \/ NoFault PROVE Inv'
  <2>1. faults' \in 0 .. MaxFaults
    BY <1>0, <1>9 DEF Fault, NoFault
  <2> QED
    BY <1>9, <2>1, FinishInv
<1>1. CASE Accept
  <2>1. /\ backlog \in Seq(Connections) /\ backlog # <<>>
        /\ conn' = Head(backlog) /\ backlog' = Tail(backlog)
        /\ UNCHANGED <<cpc, call, ret, packet, sent, open, answer,
                       faults>>
        /\ spc' = "first" /\ recv_size' = Chunk /\ recv_offset' = 0
        /\ bytes_received' = 0 /\ total_received' = 0
        /\ cells' = [p \in 0 .. Chunk - 1 |-> Zero]
    BY <1>1 DEF Accept, Inv, TypeOK, clientVars, NoFault
  <2>2. dangling' \in BOOLEAN
    BY <1>1, Zenon DEF Accept
  <2>3. /\ conn' \in Connections /\ backlog' \in Seq(Connections)
        /\ Len(backlog') = Len(backlog) - 1
        /\ \A i \in 1 .. Len(backlog') : backlog'[i] = backlog[i + 1]
        /\ Len(backlog) \in Nat \ {0} /\ DOMAIN backlog = 1 .. Len(backlog)
        /\ DOMAIN backlog' = 1 .. Len(backlog')
    BY <2>1, HeadTailProperties, LenProperties, EmptySeq
  <2>4. conn' = backlog[1]
    BY <2>1, <2>3
  <2>5. TypeOK'
    BY <2>1, <2>2, <2>3 DEF Inv, TypeOK
  <2>6. ConnectionsInv'
    <3>1. \A i \in 1 .. Len(backlog) : Offered(backlog[i])
      BY <2>3 DEF Inv, ConnectionsInv
    <3>2. Offered(conn)'
      BY <2>1, <2>3, <2>4, <3>1 DEF Offered
    <3>3. \A i \in 1 .. Len(backlog') : Offered(backlog[i + 1])
      BY <2>3, <3>1
    <3>4. \A i \in DOMAIN backlog' : Offered(backlog[i])'
      BY <2>1, <2>3, <3>3 DEF Offered
    <3> QED
      BY <2>1, <3>2, <3>4
         DEF Inv, ConnectionsInv, Offered, Current, total_data, data_length
  <2> QED
    BY <2>5, <2>6 DEF Inv
<1>2. CASE FirstFails
  BY <1>2, <1>9 DEF FirstFails
<1>3. CASE FirstRecv
  <2>1. spc = "first" /\ faults' = faults
    BY <1>3 DEF FirstRecv, NoFault
  <2>2. PICK k \in RecvResults :
           IF k < HeaderLen
             THEN Finish(Closed)
             ELSE /\ spc' = "test"
                  /\ bytes_received' = k /\ total_received' = k
                  /\ cells' = StoreAt(cells, recv_size, 0, k)
                  /\ UNCHANGED <<clientVars, answer, backlog, conn, recv_size,
                                 recv_offset, dangling>>
    BY <1>3 DEF FirstRecv
  <2>3. k \in 0 .. Chunk /\ total_received + k <= sent[conn]
    BY <2>1, RecvResultsType DEF Inv
  <2>4. CASE k < HeaderLen
    BY <1>0, <2>1, <2>2, <2>4, FinishInv
  <2>5. CASE ~(k < HeaderLen)
    <3>1. StoreAt(cells, recv_size, 0, k)
              \in [0 .. recv_size - 1 -> Nat \cup {Zero, Junk}]
      BY <1>0, <2>3, StoreAtType DEF Inv
    <3> QED
      BY <1>0, <2>1, <2>2, <2>3, <2>5, <3>1, ReceiveInv
  <2> QED
    BY <2>4, <2>5
<1>4. CASE Extend
  <2>1. StoreAt(cells, recv_size + Chunk, 0, 0)
            \in [0 .. recv_size + Chunk - 1 -> Nat \cup {Zero, Junk}]
    BY <1>0, StoreAtType DEF Inv
  <2>2. dangling' \in BOOLEAN
    BY <1>0, <1>4 DEF Extend
  <2>3. /\ spc = "test" /\ spc' = "recv" /\ recv_size + Chunk <= MaxSize
        /\ recv_size' = recv_size + Chunk
        /\ recv_offset' = recv_offset + Chunk
        /\ cells' = StoreAt(cells, recv_size + Chunk, 0, 0)
        /\ UNCHANGED <<clientVars, answer, backlog, conn, bytes_received,
                       total_received, faults>>
    BY <1>4 DEF Extend, NoFault
  <2> QED
    BY <1>0, <2>1, <2>2, <2>3, ReceiveInv
<1>5. CASE ExtendFails
  BY <1>5, <1>9 DEF ExtendFails
<1>6. CASE Recv
  <2>1. /\ spc = "recv" /\ spc' = "test"
        /\ UNCHANGED <<clientVars, answer, backlog, conn, recv_size,
                       recv_offset, dangling, faults>>
    BY <1>6 DEF Recv, NoFault
  <2>2. PICK k \in RecvResults :
            /\ bytes_received' = k
            /\ total_received' = total_received + k
            /\ cells' = StoreAt(cells, recv_size, recv_offset, k)
    BY <1>6 DEF Recv
  <2>3. k \in 0 .. Chunk /\ total_received + k <= sent[conn]
    BY <2>1, RecvResultsType DEF Inv
  <2>4. cells' \in [0 .. recv_size - 1 -> Nat \cup {Zero, Junk}]
    BY <1>0, <2>2, <2>3, StoreAtType DEF Inv
  <2> QED
    BY <1>0, <2>1, <2>2, <2>3, <2>4, ReceiveInv
<1>7. CASE RecvFails
  BY <1>7, <1>9 DEF RecvFails
<1>8. CASE Reply
  <2>1. PICK a \in Counts : Finish(a)
    BY <1>8 DEF Reply
  <2>2. spc = "test" /\ faults' = faults
    BY <1>8 DEF Reply, NoFault
  <2>3. a \in Nat
    BY <2>2, AnswerType
  <2> QED
    BY <1>0, <2>1, <2>2, <2>3, FinishInv
<1>10. CASE AcceptFails
  <2>1. /\ UNCHANGED <<cpc, call, ret, packet, sent, open>>
        /\ UNCHANGED <<answer, backlog, spc, conn>>
        /\ UNCHANGED <<recv_size, recv_offset, bytes_received, total_received,
                       cells, dangling>>
        /\ faults' \in 0 .. MaxFaults
    BY <1>0, <1>10 DEF AcceptFails, Fault, clientVars, serverVars, handlerVars
  <2> QED
    BY <2>1
       DEF Inv, TypeOK, ConnectionsInv, Offered, Current, total_data,
         data_length
<1> QED
  BY <1>1, <1>2, <1>3, <1>4, <1>5, <1>6, <1>7, <1>8, <1>10
     DEF run_server, handle_connection

-----------------------------------------------------------------------------

(* A client inside a call has a connection.                                *)
LEMMA CurrentUsed ==
    ASSUME Inv, NEW c \in Clients, cpc[c] # "idle"
    PROVE  Current(c) \in Connections /\ Offered(Current(c))
<1>1. call[c] \in 0 .. MaxCalls /\ call[c] >= 1
  BY DEF Inv, TypeOK, ConnectionsInv
<1>2. call[c] \in 1 .. MaxCalls
  BY <1>1, BoundsAssumption
<1> QED
  BY <1>2 DEF Current, Connections, Offered

(* A call that returns keeps the invariant.                                *)
LEMMA ReturnsInv ==
    ASSUME Inv, NEW c \in Clients, cpc[c] # "idle",
           NEW r \in Nat \cup {Malformed, NoCount}, Returns(c, r),
           faults' \in 0 .. MaxFaults
    PROVE  Inv'
<1>1. /\ cpc' = [cpc EXCEPT ![c] = "idle"] /\ ret' = [ret EXCEPT ![c] = r]
      /\ UNCHANGED <<call, packet, sent, answer, backlog, serverVars>>
  BY DEF Returns
<1>2. UNCHANGED <<spc, conn, recv_size, recv_offset, bytes_received,
                  total_received, cells, dangling>>
  BY <1>1 DEF serverVars, handlerVars
<1>3. /\ cpc' \in [Clients -> {"idle", "header", "send", "wait"}]
      /\ ret' \in [Clients -> Nat \cup {Malformed, NoCount}]
  BY <1>1 DEF Inv, TypeOK
<1>4. open' \in [Connections -> BOOLEAN]
  <2>1. open' = [open EXCEPT ![Current(c)] = FALSE]
    BY Zenon DEF Returns
  <2>2. open \in [Connections -> BOOLEAN]
    BY DEF Inv, TypeOK
  <2> QED
    BY <2>1, <2>2, Zenon
<1>5. TypeOK'
  BY <1>1, <1>2, <1>3, <1>4 DEF Inv, TypeOK
<1>6. ConnectionsInv'
  BY <1>1, <1>2
     DEF Inv, TypeOK, ConnectionsInv, Offered, Current, total_data,
         data_length
<1> QED
  BY <1>5, <1>6 DEF Inv

(* A new connection is one that nobody has used.                           *)
LEMMA ConnectInv ==
    ASSUME Inv, NEW c \in Clients, NEW p \in Packets, Connect(c, p)
    PROVE  Inv'
<1> USE BoundsAssumption, SizesAssumption
<1> DEFINE k == <<c, call[c] + 1>>
           used(j) == j[2] <= call'[j[1]]
<1>1. /\ cpc' = [cpc EXCEPT ![c] = "header"]
      /\ call' = [call EXCEPT ![c] = @ + 1]
      /\ ret' = [ret EXCEPT ![c] = NoCount]
      /\ packet' = [packet EXCEPT ![k] = p]
      /\ backlog' = Append(backlog, k)
      /\ UNCHANGED <<sent, answer, faults>>
      /\ call[c] < MaxCalls
  BY DEF Connect, NoFault
<1>2. UNCHANGED <<spc, conn, recv_size, recv_offset, bytes_received,
                  total_received, cells, dangling>>
  BY DEF Connect, serverVars, handlerVars
<1>3. call \in [Clients -> Nat] /\ k \in Connections
  <2>1. call[c] \in 0 .. MaxCalls
    BY DEF Inv, TypeOK
  <2>2. call[c] + 1 \in 1 .. MaxCalls
    BY <1>1, <2>1
  <2> QED
    BY <2>2 DEF Inv, TypeOK, Connections
<1>4. \A j \in Connections : Offered(j) => j # k /\ used(j)
  BY <1>1, <1>3, ConnectionParts DEF Offered
<1>5. open' \in [Connections -> BOOLEAN]
  <2>1. open' = [open EXCEPT ![k] = TRUE]
    BY Zenon DEF Connect
  <2>2. open \in [Connections -> BOOLEAN]
    BY DEF Inv, TypeOK
  <2> QED
    BY <2>1, <2>2, Zenon
<1> DEFINE old == /\ backlog \in Seq(Connections)
                  /\ packet \in [Connections -> Packets \cup {<<>>}]
                  /\ sent \in [Connections -> Nat]
                  /\ call \in [Clients -> 0 .. MaxCalls]
                  /\ cpc \in [Clients -> {"idle", "header", "send", "wait"}]
                  /\ ret \in [Clients -> Nat \cup {Malformed, NoCount}]
<1>6. old
  BY DEF Inv, TypeOK
<1>7. /\ backlog' \in Seq(Connections)
      /\ Len(backlog') = Len(backlog) + 1 /\ Len(backlog) \in Nat
      /\ \A i \in 1 .. Len(backlog) : backlog'[i] = backlog[i]
      /\ backlog'[Len(backlog) + 1] = k
  BY <1>1, <1>3, <1>6, AppendProperties, LenProperties
<1>8. spc # "accept" => conn \in Connections /\ conn # k
  BY <1>4 DEF Inv, TypeOK, ConnectionsInv
<1> HIDE DEF k
<1>9. /\ packet' \in [Connections -> Packets \cup {<<>>}]
      /\ sent' \in [Connections -> Nat]
      /\ call' \in [Clients -> 0 .. MaxCalls]
      /\ cpc' \in [Clients -> {"idle", "header", "send", "wait"}]
      /\ ret' \in [Clients -> Nat \cup {Malformed, NoCount}]
  <2>1. packet' \in [Connections -> Packets \cup {<<>>}]
    BY <1>1, <1>6
  <2>2. sent' \in [Connections -> Nat]
    BY <1>1, <1>6
  <2>3. call' \in [Clients -> 0 .. MaxCalls]
    <3>1. call[c] + 1 \in 0 .. MaxCalls
      BY <1>1, <1>6
    <3> QED
      BY <1>1, <1>6, <3>1
  <2>4. cpc' \in [Clients -> {"idle", "header", "send", "wait"}]
    BY <1>1, <1>6
  <2>5. ret' \in [Clients -> Nat \cup {Malformed, NoCount}]
    BY <1>1, <1>6
  <2> QED
    BY <2>1, <2>2, <2>3, <2>4, <2>5
<1>10. spc # "accept" => total_received <= sent'[conn]
  BY <1>1, <1>6, <1>8 DEF Inv, TypeOK
<1>11. TypeOK'
  BY <1>1, <1>2, <1>5, <1>7, <1>9, <1>10 DEF Inv, TypeOK
<1>12. ConnectionsInv'
  <2>1. used(k)
    BY <1>1, <1>3 DEF k
  <2>2. \A i \in DOMAIN backlog' : used(backlog'[i])
    <3>1. \A i \in 1 .. Len(backlog) :
              backlog[i] \in Connections /\ Offered(backlog[i])
      BY <1>6, LenProperties, ElementOfSeq DEF Inv, ConnectionsInv
    <3>2. DOMAIN backlog' = 1 .. Len(backlog')
      BY <1>7, LenProperties
    <3> SUFFICES ASSUME NEW i \in 1 .. Len(backlog) + 1
                 PROVE  used(backlog'[i])
      BY <1>7, <3>2
    <3>4. CASE i \in 1 .. Len(backlog)
      <4>1. backlog[i] \in Connections /\ Offered(backlog[i])
        BY <3>1, <3>4
      <4>2. backlog'[i] = backlog[i]
        BY <1>7, <3>4
      <4> QED
        BY <1>4, <4>1, <4>2
    <3>5. CASE i = Len(backlog) + 1
      BY <1>7, <2>1, <3>5
    <3> QED
      BY <1>7, <3>4, <3>5
  <2>3. \A j \in Connections : used(j) => sent'[j] <= HeaderLen + Len(packet'[j])
    <3> SUFFICES ASSUME NEW j \in Connections, used(j)
                 PROVE  sent'[j] <= HeaderLen + Len(packet'[j])
      OBVIOUS
    <3>1. CASE j = k
      <4>1. packet'[j] = p /\ sent'[j] = 0
        BY <1>1, <1>3, <1>4, <1>6, <3>1 DEF Inv, ConnectionsInv
      <4>2. Len(p) \in Nat
        BY PacketsAssumption, LenProperties
      <4> QED
        BY <4>1, <4>2
    <3>2. CASE j # k
      <4>1. packet'[j] = packet[j] /\ sent'[j] = sent[j]
        BY <1>1, <1>6, <3>2
      <4>2. Offered(j)
        BY <1>1, <1>3, <3>2, ConnectionParts DEF Offered, k
      <4> QED
        BY <4>1, <4>2 DEF Inv, ConnectionsInv, total_data, data_length
    <3> QED
      BY <3>1, <3>2
  <2>4. \A j \in Connections : answer'[j] # NoAnswer => used(j)
    BY <1>1, <1>4 DEF Inv, ConnectionsInv
  <2>5. spc' # "accept" => used(conn')
    BY <1>2, <1>4, <1>8 DEF Inv, ConnectionsInv
  <2>6. \A d \in Clients : cpc'[d] # "idle" => call'[d] >= 1
    BY <1>1, <1>3, <1>6 DEF Inv, ConnectionsInv
  <2>7. \A j \in Connections : ~used(j) => sent'[j] = 0
    BY <1>1, <1>4 DEF Inv, ConnectionsInv
  <2>8. \A d \in Clients : cpc'[d] = "header" => sent'[<<d, call'[d]>>] = 0
    <3> SUFFICES ASSUME NEW d \in Clients, cpc'[d] = "header"
                 PROVE  sent[<<d, call'[d]>>] = 0
      BY <1>1
    <3>1. CASE d = c
      <4>1. <<d, call'[d]>> = k
        BY <1>1, <1>3, <3>1 DEF k
      <4> QED
        BY <1>3, <1>4, <4>1 DEF Inv, ConnectionsInv
    <3>2. CASE d # c
      <4>1. cpc[d] = "header" /\ call'[d] = call[d]
        BY <1>1, <1>3, <1>6, <3>2
      <4> QED
        BY <4>1 DEF Inv, ConnectionsInv, Current
    <3> QED
      BY <3>1, <3>2
  <2> QED
    BY <2>2, <2>3, <2>4, <2>5, <2>6, <2>7, <2>8
       DEF ConnectionsInv, Offered, Current, total_data, data_length
<1> QED
  BY <1>11, <1>12 DEF Inv

(* Sending more of the packet, the header or the rest, keeps the           *)
(* invariant.                                                              *)
LEMMA SendInv ==
    ASSUME Inv, NEW c \in Clients, cpc[c] \in {"header", "send"},
           NEW pc \in {"send", "wait"}, cpc' = [cpc EXCEPT ![c] = pc],
           NEW n \in Nat, sent[Current(c)] <= n, n <= total_data(Current(c)),
           sent' = [sent EXCEPT ![Current(c)] = n],
           UNCHANGED <<call, ret, packet, open, answer, backlog, serverVars,
                       faults>>
    PROVE  Inv'
<1> USE SizesAssumption
<1> DEFINE k == Current(c)
<1>1. /\ cpc[c] # "idle" /\ cpc' = [cpc EXCEPT ![c] = pc]
      /\ sent' = [sent EXCEPT ![k] = n]
      /\ sent[k] <= n /\ n <= total_data(k) /\ n \in Nat
      /\ UNCHANGED <<call, ret, packet, open, answer, backlog, faults>>
  OBVIOUS
<1>2. UNCHANGED <<spc, conn, recv_size, recv_offset, bytes_received,
                  total_received, cells, dangling>>
  BY DEF serverVars, handlerVars
<1>3. k \in Connections /\ Offered(k)
  BY <1>1, CurrentUsed
<1>4. total_data(k) \in Nat
  BY <1>3, LengthType DEF Inv
<1> HIDE DEF k
<1>5. sent \in [Connections -> Nat] /\ sent' \in [Connections -> Nat]
  <2>1. sent \in [Connections -> Nat]
    BY DEF Inv, TypeOK
  <2> QED
    BY <1>1, <2>1, Zenon
<1>6. cpc' \in [Clients -> {"idle", "header", "send", "wait"}]
  <2>1. cpc \in [Clients -> {"idle", "header", "send", "wait"}]
    BY DEF Inv, TypeOK
  <2>2. pc \in {"idle", "header", "send", "wait"}
    OBVIOUS
  <2> QED
    BY <1>1, <2>1, <2>2, Zenon
<1>7. spc # "accept" => total_received <= sent'[conn]
  <2> SUFFICES ASSUME spc # "accept" PROVE total_received <= sent'[conn]
    OBVIOUS
  <2>1. /\ conn \in Connections /\ Offered(conn) /\ total_received \in Nat
        /\ total_received <= sent[conn] /\ sent[conn] <= total_data(conn)
    BY DEF Inv, TypeOK, ConnectionsInv
  <2>2. sent'[conn] = IF conn = k THEN n ELSE sent[conn]
    BY <1>1, <1>5, <2>1
  <2> QED
    BY <1>1, <1>5, <2>1, <2>2
<1>8. TypeOK'
  BY <1>1, <1>2, <1>5, <1>6, <1>7 DEF Inv, TypeOK
<1>9. ConnectionsInv'
  <2>1. \A j \in Connections :
            Offered(j) => sent'[j] <= HeaderLen + Len(packet[j])
    <3> SUFFICES ASSUME NEW j \in Connections, Offered(j)
                 PROVE  sent'[j] <= HeaderLen + Len(packet[j])
      OBVIOUS
    <3>1. sent[j] <= HeaderLen + Len(packet[j])
      BY DEF Inv, ConnectionsInv, total_data, data_length
    <3>2. total_data(k) = HeaderLen + Len(packet[k])
      BY DEF total_data, data_length
    <3> QED
      BY <1>1, <1>4, <1>5, <3>1, <3>2
  <2>2. \A d \in Clients : cpc'[d] # "idle" => call[d] >= 1
    BY <1>1, <1>6 DEF Inv, ConnectionsInv, TypeOK
  <2>3. \A j \in Connections : ~Offered(j) => sent'[j] = 0
    BY <1>1, <1>3, <1>5 DEF Inv, ConnectionsInv
  <2>4. \A d \in Clients : cpc'[d] = "header" => sent'[<<d, call[d]>>] = 0
    <3> SUFFICES ASSUME NEW d \in Clients, cpc'[d] = "header"
                 PROVE  sent'[<<d, call[d]>>] = 0
      OBVIOUS
    <3>1. cpc[d] = "header" /\ d # c
      BY <1>1, <1>6 DEF Inv, TypeOK
    <3>2. <<d, call[d]>> \in Connections /\ <<d, call[d]>> # k
      BY <3>1, CurrentUsed DEF Current, k
    <3>3. sent'[<<d, call[d]>>] = sent[<<d, call[d]>>]
      BY <1>1, <1>5, <3>2
    <3> QED
      BY <3>1, <3>3 DEF Inv, ConnectionsInv, Current
  <2> QED
    BY <1>1, <1>2, <2>1, <2>2, <2>3, <2>4
       DEF Inv, ConnectionsInv, Offered, Current, total_data, data_length
<1> QED
  BY <1>8, <1>9 DEF Inv

(* The two parts that are sent.                                            *)
LEMMA SendHeaderInv ==
    ASSUME Inv, NEW c \in Clients, SendHeader(c)
    PROVE  Inv'
<1>1. /\ cpc[c] = "header" /\ cpc' = [cpc EXCEPT ![c] = "send"]
      /\ sent' = [sent EXCEPT ![Current(c)] = HeaderLen]
      /\ UNCHANGED <<call, ret, packet, open, answer, backlog, serverVars,
                     faults>>
  BY DEF SendHeader, NoFault
<1>2. sent[Current(c)] = 0
  BY <1>1 DEF Inv, ConnectionsInv
<1>3. total_data(Current(c)) \in Nat /\ total_data(Current(c)) >= HeaderLen
  BY <1>1, CurrentUsed, LengthType DEF Inv
<1>4. /\ HeaderLen \in Nat /\ sent[Current(c)] <= HeaderLen
      /\ HeaderLen <= total_data(Current(c))
  BY <1>2, <1>3, SizesAssumption
<1>5. cpc[c] \in {"header", "send"} /\ "send" \in {"send", "wait"}
  BY <1>1
<1> QED
  BY <1>1, <1>4, <1>5, SendInv, Zenon

LEMMA SendBodyInv ==
    ASSUME Inv, NEW c \in Clients, SendBody(c)
    PROVE  Inv'
<1>0. PICK n : n = total_data(Current(c))
  OBVIOUS
<1>1. /\ cpc[c] = "send" /\ cpc' = [cpc EXCEPT ![c] = "wait"]
      /\ sent' = [sent EXCEPT ![Current(c)] = n]
      /\ UNCHANGED <<call, ret, packet, open, answer, backlog, serverVars,
                     faults>>
  BY <1>0 DEF SendBody, NoFault
<1>2. Current(c) \in Connections /\ Offered(Current(c))
  BY <1>1, CurrentUsed
<1>3. n \in Nat
  BY <1>0, <1>2, LengthType DEF Inv
<1>4. sent[Current(c)] <= n /\ n <= total_data(Current(c))
  BY <1>0, <1>2, <1>3 DEF Inv, ConnectionsInv
<1>5. cpc[c] \in {"header", "send"} /\ "wait" \in {"send", "wait"}
  BY <1>1
<1> QED
  BY <1>1, <1>3, <1>4, <1>5, SendInv, Zenon

(* What a recv left over is a count or no number.                          *)
LEMMA LeftoversType ==
    ASSUME Inv, NEW n \in Leftovers \cup {Malformed}
    PROVE  n \in Nat \cup {Malformed, NoCount}
<1>1. answer \in [Connections -> Nat \cup {NoAnswer, Closed}]
  BY DEF Inv, TypeOK
<1>2. CASE n \in Mixtures
  BY <1>2, MixturesAssumption
<1>3. CASE n \in {m \in {answer[k] : k \in Connections} : m >= 0}
  BY <1>1, <1>3 DEF NoAnswer, Closed
<1> QED
  BY <1>2, <1>3 DEF Leftovers

(* Every step of a call of sendData keeps the invariant.                   *)
LEMMA ClientInv ==
    ASSUME Inv, NEW c \in Clients, sendData(c)
    PROVE  Inv'
<1> USE BoundsAssumption
<1>0. /\ faults \in 0 .. MaxFaults
      /\ answer \in [Connections -> Nat \cup {NoAnswer, Closed}]
  BY DEF Inv, TypeOK
<1>1. CASE \E p \in Packets : Connect(c, p)
  BY <1>1, ConnectInv
<1>2. CASE SendHeader(c) \/ SendBody(c)
  BY <1>2, SendHeaderInv, SendBodyInv
<1>3. CASE ReadAnswer(c)
  <2>1. /\ cpc[c] = "wait" /\ answer[Current(c)] >= 0
        /\ Returns(c, answer[Current(c)]) /\ faults' = faults
    BY <1>3 DEF ReadAnswer, NoFault
  <2>2. Current(c) \in Connections
    BY <2>1, CurrentUsed
  <2>3. answer[Current(c)] \in Nat
    BY <1>0, <2>1, <2>2 DEF NoAnswer, Closed
  <2> QED
    BY <1>0, <2>1, <2>3, ReturnsInv
<1>4. CASE ReadPart(c) \/ ReadClosed(c)
  <2>1. PICK n \in Leftovers \cup {Malformed} : Returns(c, n)
    BY <1>4 DEF ReadPart, ReadClosed
  <2>2. cpc[c] = "wait" /\ faults' = faults
    BY <1>4 DEF ReadPart, ReadClosed, NoFault
  <2> QED
    BY <1>0, <2>1, <2>2, LeftoversType, ReturnsInv
<1>5. CASE SocketError(c)
  <2>1. cpc[c] # "idle" /\ Returns(c, -1)
    BY <1>5 DEF SocketError
  <2>2. faults' \in 0 .. MaxFaults
    BY <1>0, <1>5 DEF SocketError, Fault, NoFault
  <2>3. -1 \in Nat \cup {Malformed, NoCount}
    BY DEF NoCount
  <2> QED
    BY <1>0, <2>1, <2>2, <2>3, ReturnsInv
<1> QED
  BY <1>1, <1>2, <1>3, <1>4, <1>5 DEF sendData

(* Nothing is received or sent initially.                                  *)
LEMMA InvInit == Init => Inv
<1> USE BoundsAssumption, SizesAssumption
<1> SUFFICES ASSUME Init PROVE Inv
  OBVIOUS
<1>1. cells \in [0 .. 0 - 1 -> Nat \cup {Zero, Junk}]
  BY DEF Init, NoBlock
<1>2. backlog = <<>> /\ backlog \in Seq(Connections) /\ DOMAIN backlog = {}
  BY DEF Init
<1>3. open \in [Connections -> BOOLEAN] /\ dangling \in BOOLEAN
  BY Zenon DEF Init
<1>4. TypeOK
  <2>1. /\ cpc \in [Clients -> {"idle", "header", "send", "wait"}]
        /\ call \in [Clients -> 0 .. MaxCalls]
        /\ ret \in [Clients -> Nat \cup {Malformed, NoCount}]
    BY DEF Init
  <2>2. /\ packet \in [Connections -> Packets \cup {<<>>}]
        /\ sent \in [Connections -> Nat]
        /\ answer \in [Connections -> Nat \cup {NoAnswer, Closed}]
    BY DEF Init
  <2>3. /\ spc = "accept" /\ conn = None /\ recv_size = 0 /\ recv_offset = 0
        /\ bytes_received = 0 /\ total_received = 0 /\ faults = 0
    BY DEF Init
  <2> QED
    BY <1>1, <1>2, <1>3, <2>1, <2>2, <2>3 DEF TypeOK
<1>5. ConnectionsInv
  <2>1. \A k \in Connections : ~Offered(k)
    BY ConnectionParts DEF Init, Offered
  <2>2. /\ answer = [k \in Connections |-> NoAnswer]
        /\ cpc = [c \in Clients |-> "idle"] /\ spc = "accept"
        /\ sent = [k \in Connections |-> 0]
    BY DEF Init
  <2> QED
    BY <1>2, <2>1, <2>2 DEF ConnectionsInv
<1> QED
  BY <1>4, <1>5 DEF Inv

(* The invariant only mentions the variables.                              *)
LEMMA InvStutters == ASSUME Inv, UNCHANGED vars PROVE Inv'
<1>1. /\ UNCHANGED <<cpc, call, ret, packet, sent, open>>
      /\ UNCHANGED <<answer, backlog, spc, conn, faults>>
      /\ UNCHANGED <<recv_size, recv_offset, bytes_received, total_received,
                     cells, dangling>>
  BY DEF vars, clientVars, serverVars, handlerVars
<1> QED
  BY <1>1 DEF Inv, TypeOK, ConnectionsInv, Offered, Current, total_data,
         data_length

(* Every step keeps the invariant.                                         *)
LEMMA InvStep == Inv /\ [Next]_vars => Inv'
BY ServerInv, ClientInv, InvStutters DEF Next

(* The type invariant, which bounds what the server counts by what its     *)
(* client has sent, is an invariant of the specification.                  *)
THEOREM TypeCorrect == Spec => []TypeOK
<1>1. Inv => TypeOK
  BY DEF Inv
<1> QED
  BY <1>1, InvInit, InvStep, PTL DEF Spec

-----------------------------------------------------------------------------

(* Who has been answered.                                                  *)

(* A step that keeps answered connections as they are.                     *)
LEMMA AnswersKept ==
    ASSUME Inv, AnswersOnlyComplete,
           NEW k \in Connections, answer' = answer,
           answer[k] >= 0 => /\ packet'[k] = packet[k]
                             /\ sent'[k] \in {sent[k], total_data(k)}
    PROVE  answer'[k] >= 0 => sent'[k] = HeaderLen + Len(packet'[k])
BY DEF AnswersOnlyComplete, total_data, data_length

(* Only a connection whose packet was sent is answered.                    *)
LEMMA AnswersStep ==
    ASSUME Inv, AnswersOnlyComplete, [Next]_vars
    PROVE  AnswersOnlyComplete'
<1> USE SizesAssumption, BoundsAssumption
<1> DEFINE complete(k) == answer'[k] >= 0 => sent'[k] = HeaderLen + Len(packet'[k])
<1>0. SUFFICES ASSUME NEW k \in Connections PROVE complete(k)
  BY DEF AnswersOnlyComplete, total_data, data_length
<1>1. ASSUME UNCHANGED <<answer, packet, sent>> PROVE complete(k)
  BY <1>1, AnswersKept
<1>2. ASSUME NEW a \in Nat \cup {Closed}, Finish(a), spc # "accept",
             a = Closed \/ ~Incomplete(conn)
      PROVE  complete(k)
  <2>1. /\ answer' = [answer EXCEPT ![conn] = a]
        /\ packet' = packet /\ sent' = sent
    BY <1>2 DEF Finish, clientVars
  <2>2. /\ conn \in Connections /\ sent[conn] \in Nat
        /\ total_received \in Nat /\ total_received <= sent[conn]
        /\ sent[conn] <= total_data(conn)
        /\ answer \in [Connections -> Nat \cup {NoAnswer, Closed}]
    BY <1>2 DEF Inv, TypeOK, ConnectionsInv
  <2>3. total_data(conn) \in Nat
    BY <2>2, LengthType DEF Inv
  <2>4. CASE k # conn
    <3>1. answer'[k] = answer[k]
      BY <2>1, <2>2, <2>4
    <3> QED
      BY <2>1, <3>1 DEF AnswersOnlyComplete, total_data, data_length
  <2>5. CASE k = conn
    <3>1. answer'[k] = a
      BY <2>1, <2>2, <2>5
    <3>2. CASE a = Closed
      BY <3>1, <3>2 DEF Closed
    <3>3. CASE ~Incomplete(conn)
      <4>1. total_received >= total_data(conn)
        BY <2>2, <2>3, <3>3 DEF Incomplete
      <4>2. sent[conn] = total_data(conn)
        BY <2>2, <2>3, <4>1
      <4> QED
        BY <2>1, <2>5, <4>2 DEF total_data, data_length
    <3> QED
      BY <1>2, <3>2, <3>3
  <2> QED
    BY <2>4, <2>5
<1>3. CASE run_server
  <2>1. CASE Accept \/ AcceptFails
    BY <1>1, <2>1 DEF Accept, AcceptFails, clientVars
  <2>2. CASE FirstFails \/ ExtendFails \/ RecvFails
    BY <1>2, <2>2 DEF FirstFails, ExtendFails, RecvFails
  <2>3. CASE FirstRecv
    <3>1. spc = "first"
      BY <2>3 DEF FirstRecv
    <3>2. Finish(Closed) \/ UNCHANGED <<clientVars, answer>>
      BY <2>3 DEF FirstRecv
    <3> QED
      BY <1>1, <1>2, <3>1, <3>2 DEF clientVars
  <2>4. CASE Extend
    BY <1>1, <2>4 DEF Extend, clientVars
  <2>5. CASE Recv
    BY <1>1, <2>5 DEF Recv, clientVars
  <2>6. CASE Reply
    <3>1. PICK a \in Counts : Finish(a)
      BY <2>6 DEF Reply
    <3>2. spc = "test" /\ ~Incomplete(conn)
      BY <2>6 DEF Reply
    <3>3. a \in Nat
      BY <3>2, AnswerType
    <3> QED
      BY <1>2, <3>1, <3>2, <3>3
  <2> QED
    BY <1>3, <2>1, <2>2, <2>3, <2>4, <2>5, <2>6
       DEF run_server, handle_connection
<1>4. ASSUME NEW c \in Clients, sendData(c) PROVE complete(k)
  <2>1. ASSUME NEW p \in Packets, Connect(c, p) PROVE complete(k)
    <3>1. /\ packet' = [packet EXCEPT ![<<c, call[c] + 1>>] = p]
          /\ sent' = sent /\ answer' = answer
      BY <2>1 DEF Connect
    <3>2. answer[k] >= 0 => k # <<c, call[c] + 1>>
      <4>1. answer[k] >= 0 => Offered(k)
        BY DEF Inv, ConnectionsInv, NoAnswer
      <4>2. call[c] \in Nat
        BY DEF Inv, TypeOK
      <4> QED
        BY <4>1, <4>2 DEF Offered
    <3>3. answer[k] >= 0 => packet'[k] = packet[k] /\ sent'[k] = sent[k]
      BY <3>1, <3>2 DEF Inv, TypeOK
    <3> QED
      BY <3>1, <3>3, AnswersKept
  <2>4. CASE SendHeader(c)
    <3>1. /\ packet' = packet /\ answer' = answer /\ cpc[c] = "header"
          /\ sent' = [sent EXCEPT ![Current(c)] = HeaderLen]
      BY <2>4 DEF SendHeader
    <3>2. sent[Current(c)] = 0
      BY <3>1 DEF Inv, ConnectionsInv
    <3>3. answer[k] >= 0 => k # Current(c)
      <4>1. total_data(k) >= HeaderLen
        BY LengthType DEF Inv
      <4> QED
        BY <3>2, <4>1 DEF AnswersOnlyComplete
    <3>4. answer[k] >= 0 => sent'[k] = sent[k]
      BY <3>1, <3>3 DEF Inv, TypeOK
    <3> QED
      BY <3>1, <3>4, AnswersKept
  <2>2. CASE SendBody(c)
    <3>1. /\ packet' = packet /\ answer' = answer
          /\ sent' = [sent EXCEPT ![Current(c)] = total_data(Current(c))]
      BY <2>2 DEF SendBody
    <3>2. sent'[k] \in {sent[k], total_data(k)}
      BY <3>1 DEF Inv, TypeOK
    <3> QED
      BY <3>1, <3>2, AnswersKept
  <2>3. CASE \/ ReadAnswer(c) \/ ReadPart(c) \/ ReadClosed(c)
             \/ SocketError(c)
    <3>1. UNCHANGED <<answer, packet, sent>>
      BY <2>3 DEF ReadAnswer, ReadPart, ReadClosed, SocketError, Returns
    <3> QED
      BY <1>1, <3>1
  <2> QED
    BY <1>4, <2>1, <2>2, <2>3, <2>4 DEF sendData
<1>5. CASE UNCHANGED vars
  BY <1>1, <1>5 DEF vars, clientVars
<1> QED
  BY <1>3, <1>4, <1>5 DEF Next

(* Only a connection on which a client has sent its whole packet is ever   *)
(* answered, wherever clients stop and whatever pieces recv is handed.     *)
THEOREM CompleteAnswered == Spec => []AnswersOnlyComplete
<1>1. Init => AnswersOnlyComplete
  BY DEF Init, AnswersOnlyComplete, NoAnswer
<1> QED
  BY <1>1, AnswersStep, InvInit, InvStep, PTL DEF Spec

-----------------------------------------------------------------------------

(* What is in the block.                                                   *)

(* The first bytes of the block are the first bytes of the stream.         *)
Intact(block, n) == \A p \in 0 .. n - 1 : block[p] = p

(* The parts are long enough for what was received; and if that just fills *)
(* them, every byte is where it belongs.                                   *)
BlockInv ==
    /\ spc = "first" => total_received = 0 /\ recv_offset = 0
    /\ spc = "test" =>
          /\ total_received <= recv_offset + bytes_received
          /\ total_received = recv_offset + bytes_received
                => Intact(cells, total_received)
    /\ spc = "recv" =>
          /\ total_received <= recv_offset
          /\ total_received = recv_offset => Intact(cells, total_received)

(* What StoreAt does to the bytes before and after the offset.             *)
LEMMA StoreAtIntact ==
    ASSUME TypeOK, spc # "accept", Intact(cells, total_received),
           total_received <= recv_size, NEW size \in Nat, recv_size <= size,
           NEW offset \in Nat, NEW k \in Nat, offset + k <= size,
           total_received = offset \/ k = 0
    PROVE  Intact(StoreAt(cells, size, offset, k), total_received + k)
<1>1. /\ total_received \in Nat /\ recv_size \in Nat
      /\ DOMAIN cells = 0 .. recv_size - 1
  BY SizesAssumption DEF TypeOK
<1> DEFINE block == StoreAt(cells, size, offset, k)
           n == total_received + k
<1> HIDE DEF block, n
<1> SUFFICES ASSUME NEW p \in 0 .. n - 1 PROVE block[p] = p
  BY DEF Intact, block, n
<1> USE DEF n
<1>2. p \in 0 .. size - 1
  BY <1>1
<1>3. CASE p \in offset .. offset + k - 1
  <2>1. total_received = offset
    BY <1>1, <1>3
  <2> QED
    BY <1>1, <1>2, <1>3, <2>1 DEF StoreAt, block
<1>4. CASE p \notin offset .. offset + k - 1
  <2>1. p \in 0 .. total_received - 1 /\ p \in DOMAIN cells
    BY <1>1, <1>4
  <2> QED
    BY <1>2, <1>4, <2>1 DEF StoreAt, Intact, block
<1> QED
  BY <1>3, <1>4

(* Every step keeps it.                                                    *)
LEMMA BlockStep ==
    ASSUME Inv, BlockInv, [Next]_vars
    PROVE  BlockInv'
<1> USE SizesAssumption
<1>0. /\ recv_size \in Nat /\ recv_offset \in Nat /\ total_received \in Nat
      /\ bytes_received \in 0 .. Chunk
      /\ spc # "accept" => recv_size = recv_offset + Chunk
  BY DEF Inv, TypeOK
<1>1. ASSUME UNCHANGED serverVars PROVE BlockInv'
  BY <1>1 DEF BlockInv, Intact, serverVars, handlerVars
<1>2. ASSUME spc' = "accept" PROVE BlockInv'
  BY <1>2 DEF BlockInv
<1>3. CASE run_server
  <2>1. CASE Accept
    BY <2>1 DEF Accept, BlockInv
  <2>6. CASE AcceptFails
    BY <1>1, <2>6 DEF AcceptFails
  <2>2. CASE FirstFails \/ ExtendFails \/ RecvFails \/ Reply
    BY <1>2, <2>2 DEF FirstFails, ExtendFails, RecvFails, Reply, Finish
  <2>3. CASE FirstRecv
    <3>1. spc = "first" /\ total_received = 0 /\ recv_offset = 0
      BY <2>3 DEF FirstRecv, BlockInv
    <3>2. PICK k \in RecvResults :
              \/ Finish(Closed)
              \/ /\ spc' = "test" /\ bytes_received' = k
                 /\ total_received' = k /\ recv_offset' = recv_offset
                 /\ cells' = StoreAt(cells, recv_size, 0, k)
      BY <2>3 DEF FirstRecv
    <3>3. CASE Finish(Closed)
      BY <1>2, <3>3 DEF Finish
    <3>4. CASE /\ spc' = "test" /\ bytes_received' = k
               /\ total_received' = k /\ recv_offset' = recv_offset
               /\ cells' = StoreAt(cells, recv_size, 0, k)
      <4>1. k \in 0 .. Chunk
        BY <3>1, RecvResultsType DEF Inv
      <4>2. Intact(cells, total_received)
        BY <3>1 DEF Intact
      <4>3. Intact(cells', total_received')
        BY <1>0, <3>1, <3>4, <4>1, <4>2, StoreAtIntact DEF Inv
      <4> QED
        BY <3>1, <3>4, <4>1, <4>3 DEF BlockInv
    <3> QED
      BY <3>2, <3>3, <3>4
  <2>4. CASE Extend
    <3>1. /\ spc = "test" /\ spc' = "recv"
          /\ recv_offset' = recv_offset + Chunk
          /\ total_received' = total_received
          /\ cells' = StoreAt(cells, recv_size + Chunk, 0, 0)
      BY <2>4 DEF Extend
    <3>2. total_received' <= recv_offset'
      BY <1>0, <3>1 DEF BlockInv
    <3>3. ASSUME total_received' = recv_offset'
          PROVE  Intact(cells', total_received')
      <4>1. Intact(cells, total_received)
        BY <1>0, <3>1, <3>3 DEF BlockInv
      <4> QED
        BY <1>0, <3>1, <3>3, <4>1, StoreAtIntact DEF Inv
    <3> QED
      BY <3>1, <3>2, <3>3 DEF BlockInv
  <2>5. CASE Recv
    <3>1. PICK k \in RecvResults :
              /\ bytes_received' = k
              /\ total_received' = total_received + k
              /\ cells' = StoreAt(cells, recv_size, recv_offset, k)
      BY <2>5 DEF Recv
    <3>2. spc = "recv" /\ spc' = "test" /\ recv_offset' = recv_offset
      BY <2>5 DEF Recv
    <3>3. k \in 0 .. Chunk
      BY <3>2, RecvResultsType DEF Inv
    <3>4. total_received' <= recv_offset' + bytes_received'
      BY <1>0, <3>1, <3>2, <3>3 DEF BlockInv
    <3>5. ASSUME total_received' = recv_offset' + bytes_received'
          PROVE  Intact(cells', total_received')
      <4>1. total_received = recv_offset
        BY <1>0, <3>1, <3>2, <3>3, <3>5
      <4>2. Intact(cells, total_received)
        BY <3>2, <4>1 DEF BlockInv
      <4> QED
        BY <1>0, <3>1, <3>2, <3>3, <4>1, <4>2, StoreAtIntact DEF Inv
    <3> QED
      BY <3>2, <3>4, <3>5 DEF BlockInv
  <2> QED
    BY <1>3, <2>1, <2>2, <2>3, <2>4, <2>5, <2>6
       DEF run_server, handle_connection
<1>4. ASSUME NEW c \in Clients, sendData(c) PROVE BlockInv'
  <2>1. UNCHANGED serverVars
    BY <1>4 DEF sendData, Connect, SendHeader, SendBody, ReadAnswer,
                ReadPart, ReadClosed, SocketError, Returns
  <2> QED
    BY <1>1, <2>1
<1>5. CASE UNCHANGED vars
  BY <1>1, <1>5 DEF vars
<1> QED
  BY <1>3, <1>4, <1>5 DEF Next

LEMMA BlockInit == Init => BlockInv
BY DEF Init, BlockInv

(* The bytes process_packet is given always lie inside the block, although *)
(* the loop of handle_connection counts bytes, not parts.                  *)
THEOREM InsideBlock == Spec => []ProcessesInside
<1>1. Inv /\ BlockInv => ProcessesInside
  <2> SUFFICES ASSUME Inv, BlockInv, Processing
               PROVE  HeaderLen + data_length(conn) <= recv_size
    BY DEF ProcessesInside
  <2>1. /\ spc = "test" /\ ~Incomplete(conn) /\ conn \in Connections
        /\ bytes_received \in 0 .. Chunk /\ total_received \in Nat
        /\ recv_size = recv_offset + Chunk /\ recv_offset \in Nat
    BY DEF Processing, Inv, TypeOK
  <2>2. total_data(conn) \in Nat
    BY <2>1, LengthType DEF Inv
  <2>3. total_received <= recv_offset + bytes_received
    BY <2>1 DEF BlockInv
  <2> QED
    BY <2>1, <2>2, <2>3, SizesAssumption DEF Incomplete, total_data
<1> QED
  BY <1>1, InvInit, InvStep, BlockInit, BlockStep, PTL DEF Spec

(* A packet that arrived in full parts in a block that did not move is     *)
(* what process_packet sees: every position holds the byte it should.      *)
LEMMA PositionsIntact ==
    ASSUME Inv, BlockInv, Processing,
           total_received = recv_offset + bytes_received
    PROVE  \A p \in Processed : cells[p] = p
<1>1. /\ spc = "test" /\ ~Incomplete(conn) /\ conn \in Connections
      /\ total_received \in Nat
  BY DEF Processing, Inv, TypeOK
<1>2. total_data(conn) \in Nat /\ total_received >= total_data(conn)
  BY <1>1, LengthType DEF Inv, Incomplete
<1>3. Intact(cells, total_received)
  BY <1>1 DEF BlockInv
<1> QED
  BY <1>1, <1>2, <1>3, LengthType, SizesAssumption
     DEF Processed, Intact, total_data, Inv

(* Its newlines are then those of the packet.                              *)
LEMMA NewlinesProcessed ==
    ASSUME Inv, Processing, \A p \in Processed : cells[p] = p, ~dangling
    PROVE  process_packet = {NewlinesOf(packet[conn])}
<1> DEFINE L == {p \in Processed : IsNewline(p)}
           J == {p \in Processed : cells[p] = Junk}
           N == {i \in DOMAIN packet[conn] : packet[conn][i] = Newline}
           f == [i \in N |-> i + HeaderLen - 1]
<1>1. /\ data_length(conn) \in Nat /\ HeaderLen \in Nat
      /\ DOMAIN packet[conn] = 1 .. data_length(conn)
  BY LengthType, LenProperties, SizesAssumption
     DEF Processing, Inv, TypeOK, data_length
<1>2. J = {}
  BY <1>1 DEF Processed, Junk
<1>3. L = {p \in Processed : packet[conn][p - HeaderLen + 1] = Newline}
  BY <1>1 DEF Processed, IsNewline
<1>4. IsFiniteSet(N)
  <2>1. IsFiniteSet(DOMAIN packet[conn])
    BY <1>1, FS_Interval
  <2> QED
    BY <2>1, FS_Subset
<1>5. f \in Bijection(N, L)
  <2>1. ASSUME NEW i \in N PROVE f[i] \in L
    BY <1>1, <1>3 DEF Processed
  <2>2. ASSUME NEW i \in N, NEW j \in N, f[i] = f[j] PROVE i = j
    BY <1>1, <2>2
  <2>3. ASSUME NEW p \in L PROVE \E i \in N : f[i] = p
    <3>1. p - HeaderLen + 1 \in N
      BY <1>1, <1>3 DEF Processed
    <3>2. f[p - HeaderLen + 1] = p
      BY <1>1, <3>1 DEF Processed
    <3> QED
      BY <3>1, <3>2
  <2> HIDE DEF L, N
  <2>4. f \in [N -> L]
    BY <2>1
  <2> QED
    BY <2>2, <2>3, <2>4, Fun_IsBij
<1>6. IsFiniteSet(L) /\ Cardinality(L) = Cardinality(N)
  <2> HIDE DEF f, L, N
  <2> QED
    BY <1>4, <1>5, FS_Bijection DEF ExistsBijection
<1>7. Cardinality(N) \in Nat /\ Cardinality(J) = 0
  BY <1>2, <1>4, FS_CardinalityType, FS_EmptySet
<1>8. process_packet = Cardinality(L) .. Cardinality(L) + Cardinality(J)
  BY DEF process_packet
<1>9. Cardinality(N) = NewlinesOf(packet[conn])
  BY DEF NewlinesOf
<1> HIDE DEF L, J, N
<1> QED
  BY <1>6, <1>7, <1>8, <1>9

(* So the answer is the number of the newlines the client sent.            *)
THEOREM FullPartsProcessed == Spec => []FullPartsIntact
<1>1. Inv /\ BlockInv => FullPartsIntact
  BY PositionsIntact, NewlinesProcessed DEF FullPartsIntact
<1> QED
  BY <1>1, InvInit, InvStep, BlockInit, BlockStep, PTL DEF Spec

-----------------------------------------------------------------------------

(* When the server waits for a client.                                     *)

(* A client that has not yet sent its header or its body is about to.      *)
Served(k) ==
    \/ cpc[k[1]] \in {"header", "send"} /\ Current(k[1]) = k
    \/ ~open[k]
    \/ sent[k] = total_data(k)

(* The server asks for a header only as long as it has none, and for more  *)
(* only while it knows that more will come.                                *)
WaitInv ==
    /\ \A k \in Connections : Offered(k) => Served(k)
    /\ spc = "first" => total_received = 0
    /\ spc = "recv" => Incomplete(conn)

LEMMA WaitInit == Init => WaitInv
<1> SUFFICES ASSUME Init PROVE WaitInv
  OBVIOUS
<1>1. call = [c \in Clients |-> 0] /\ spc = "accept"
  BY DEF Init
<1>2. \A k \in Connections : ~Offered(k)
  BY <1>1, ConnectionParts DEF Offered
<1> QED
  BY <1>1, <1>2 DEF WaitInv

(* The server changes nothing of its clients.                              *)
LEMMA WaitServer ==
    ASSUME Inv, WaitInv, run_server
    PROVE  WaitInv'
<1>1. UNCHANGED clientVars
  BY DEF run_server, handle_connection, Accept, AcceptFails, FirstFails,
         FirstRecv, Extend, ExtendFails, Recv, RecvFails, Reply, Finish
<1>2. UNCHANGED <<cpc, call, packet, sent, open>>
  BY <1>1 DEF clientVars
<1>3. \A k \in Connections : Offered(k)' => Served(k)'
  BY <1>2
     DEF WaitInv, Offered, Served, Current, total_data, data_length
<1>4. /\ spc' = "first" => total_received' = 0
      /\ spc' = "recv" => Incomplete(conn)'
  <2>1. CASE Accept
    BY <2>1 DEF Accept
  <2>2. CASE AcceptFails
    BY <2>2 DEF AcceptFails, serverVars
  <2>3. CASE FirstFails \/ ExtendFails \/ RecvFails \/ Reply
    BY <2>3 DEF FirstFails, ExtendFails, RecvFails, Reply, Finish
  <2>4. CASE FirstRecv
    BY <2>4 DEF FirstRecv, Finish
  <2>5. CASE Extend
    BY <1>2, <2>5 DEF Extend, Incomplete, total_data, data_length
  <2>6. CASE Recv
    BY <2>6 DEF Recv
  <2> QED
    BY <2>1, <2>2, <2>3, <2>4, <2>5, <2>6 DEF run_server, handle_connection
<1> QED
  BY <1>3, <1>4 DEF WaitInv

(* A client touches its present connection only, and the others of its     *)
(* connections are closed or were sent as a whole.                         *)
LEMMA ServedKept ==
    ASSUME NEW c \in Clients, NEW k \in Connections, Served(k),
           sent'[k] = sent[k], packet'[k] = packet[k], open'[k] = open[k],
           \A d \in Clients \ {c} : cpc'[d] = cpc[d] /\ call'[d] = call[d],
           cpc[c] = "idle" \/ Current(c) # k
    PROVE  Served(k)'
<1>1. k[1] \in Clients
  BY ConnectionParts
<1>2. CASE k[1] = c
  <2>1. ~open[k] \/ sent[k] = total_data(k)
    BY <1>2 DEF Served
  <2> QED
    BY <2>1 DEF Served, total_data, data_length
<1>3. CASE k[1] # c
  BY <1>1, <1>3 DEF Served, Current, total_data, data_length
<1> QED
  BY <1>2, <1>3

LEMMA WaitConnect ==
    ASSUME Inv, WaitInv, NEW c \in Clients, NEW p \in Packets, Connect(c, p)
    PROVE  WaitInv'
<1>0. PICK k : k = <<c, call[c] + 1>>
  OBVIOUS
<1>1. /\ cpc[c] = "idle" /\ call[c] < MaxCalls
      /\ cpc' = [cpc EXCEPT ![c] = "header"]
      /\ call' = [call EXCEPT ![c] = @ + 1]
      /\ packet' = [packet EXCEPT ![k] = p]
      /\ UNCHANGED <<sent, spc, conn, total_received>>
  BY <1>0 DEF Connect, serverVars, handlerVars
<1>2. open' = [open EXCEPT ![k] = TRUE]
  BY <1>0, Zenon DEF Connect
<1>3. /\ call \in [Clients -> 0 .. MaxCalls]
      /\ cpc \in [Clients -> {"idle", "header", "send", "wait"}]
      /\ packet \in [Connections -> Packets \cup {<<>>}]
      /\ sent \in [Connections -> Nat] /\ open \in [Connections -> BOOLEAN]
      /\ spc # "accept" => conn \in Connections /\ Offered(conn)
  BY BoundsAssumption DEF Inv, TypeOK, ConnectionsInv
<1>4. call[c] \in Nat /\ k \in Connections /\ ~Offered(k) /\ k[1] = c
  BY <1>0, <1>1, <1>3, BoundsAssumption DEF Connections, Offered
<1>5. Served(k)'
  <2>1. cpc'[c] = "header" /\ call'[c] = call[c] + 1
    BY <1>1, <1>3, <1>4
  <2> QED
    BY <1>0, <1>4, <2>1 DEF Served, Current
<1>6. ASSUME NEW j \in Connections, Offered(j)', j # k
      PROVE  Served(j)'
  <2>1. Offered(j)
    <3>1. j[1] \in Clients /\ j[2] \in Nat /\ j = <<j[1], j[2]>>
      BY ConnectionParts
    <3>2. j[1] # c => j[2] <= call[j[1]]
      BY <1>1, <1>3, <1>6, <3>1 DEF Offered
    <3>3. j[1] = c => j[2] <= call[c] + 1 /\ j[2] # call[c] + 1
      BY <1>0, <1>1, <1>3, <1>6, <3>1 DEF Offered
    <3> QED
      BY <1>4, <3>1, <3>2, <3>3 DEF Offered
  <2>2. sent'[j] = sent[j] /\ packet'[j] = packet[j]
    BY <1>1, <1>3, <1>6
  <2>3. open'[j] = open[j]
    BY <1>2, <1>3, <1>6, Zenon
  <2>4. \A d \in Clients \ {c} : cpc'[d] = cpc[d] /\ call'[d] = call[d]
    BY <1>1, <1>3
  <2>5. Served(j)
    BY <2>1 DEF WaitInv
  <2> QED
    BY <1>1, <2>2, <2>3, <2>4, <2>5, ServedKept
<1>7. spc' = "recv" => Incomplete(conn)'
  <2> SUFFICES ASSUME spc = "recv" PROVE Incomplete(conn)'
    BY <1>1
  <2>1. conn \in Connections /\ conn # k /\ Incomplete(conn)
    BY <1>3, <1>4 DEF WaitInv
  <2>2. packet'[conn] = packet[conn]
    BY <1>1, <1>3, <2>1
  <2> QED
    BY <1>1, <2>1, <2>2 DEF Incomplete, total_data, data_length
<1> QED
  BY <1>1, <1>5, <1>6, <1>7 DEF WaitInv

LEMMA WaitSend ==
    ASSUME Inv, WaitInv, NEW c \in Clients, SendHeader(c) \/ SendBody(c)
    PROVE  WaitInv'
<1>0. PICK k : k = Current(c)
  OBVIOUS
<1>1. /\ cpc[c] # "idle"
      /\ UNCHANGED <<call, packet, open, spc, conn, total_received>>
  BY DEF SendHeader, SendBody, serverVars, handlerVars
<1>7. PICK pc, n : /\ cpc' = [cpc EXCEPT ![c] = pc]
                   /\ sent' = [sent EXCEPT ![k] = n]
                   /\ pc = "send" \/ n = total_data(k)
  BY <1>0 DEF SendHeader, SendBody
<1>2. k \in Connections /\ k[1] = c
  BY <1>0, <1>1, CurrentUsed DEF Current
<1>3. /\ cpc \in [Clients -> {"idle", "header", "send", "wait"}]
      /\ sent \in [Connections -> Nat]
  BY DEF Inv, TypeOK
<1>5. Served(k)'
  <2>1. cpc'[c] = pc /\ sent'[k] = n
    BY <1>2, <1>3, <1>7
  <2>2. total_data(k)' = total_data(k) /\ Current(c)' = k
    BY <1>0, <1>1 DEF total_data, data_length, Current
  <2> QED
    BY <1>2, <1>7, <2>1, <2>2 DEF Served
<1>6. ASSUME NEW j \in Connections, Offered(j)', j # k
      PROVE  Served(j)'
  <2>1. Served(j)
    BY <1>1, <1>6 DEF WaitInv, Offered
  <2>2. sent'[j] = sent[j] /\ Current(c) # j
    BY <1>0, <1>3, <1>6, <1>7
  <2>3. \A d \in Clients \ {c} : cpc'[d] = cpc[d] /\ call'[d] = call[d]
    BY <1>1, <1>3, <1>7
  <2> QED
    BY <1>1, <2>1, <2>2, <2>3, ServedKept
<1> QED
  BY <1>1, <1>5, <1>6
     DEF WaitInv, Incomplete, total_data, data_length

LEMMA WaitReturns ==
    ASSUME Inv, WaitInv, NEW c \in Clients, cpc[c] # "idle", NEW r,
           Returns(c, r)
    PROVE  WaitInv'
<1>0. PICK k : k = Current(c)
  OBVIOUS
<1>1. /\ cpc' = [cpc EXCEPT ![c] = "idle"]
      /\ UNCHANGED <<call, packet, sent, spc, conn, total_received>>
  BY DEF Returns, serverVars, handlerVars
<1>2. open' = [open EXCEPT ![k] = FALSE] /\ open \in [Connections -> BOOLEAN]
  BY <1>0, Zenon DEF Returns, Inv, TypeOK
<1>3. k \in Connections /\ Offered(k)
  BY <1>0, CurrentUsed
<1>4. cpc \in [Clients -> {"idle", "header", "send", "wait"}]
  BY DEF Inv, TypeOK
<1>5. Served(k)'
  <2>1. ~open'[k]
    BY <1>2, <1>3, Zenon
  <2> QED
    BY <1>1, <1>3, <2>1 DEF WaitInv, Served, total_data, data_length
<1>6. ASSUME NEW j \in Connections, Offered(j)', j # k
      PROVE  Served(j)'
  <2>1. Served(j)
    BY <1>1, <1>6 DEF WaitInv, Offered
  <2>2. open'[j] = open[j]
    BY <1>2, <1>6, Zenon
  <2>3. Current(c) # j
    BY <1>0, <1>6
  <2>4. \A d \in Clients \ {c} : cpc'[d] = cpc[d] /\ call'[d] = call[d]
    BY <1>1, <1>4
  <2> QED
    BY <1>1, <2>1, <2>2, <2>3, <2>4, ServedKept
<1> QED
  BY <1>1, <1>5, <1>6
     DEF WaitInv, Incomplete, total_data, data_length

LEMMA WaitStep ==
    ASSUME Inv, WaitInv, [Next]_vars
    PROVE  WaitInv'
<1>1. ASSUME NEW c \in Clients, sendData(c) PROVE WaitInv'
  <2>1. CASE \E p \in Packets : Connect(c, p)
    BY <2>1, WaitConnect
  <2>2. CASE SendHeader(c) \/ SendBody(c)
    BY <2>2, WaitSend
  <2>3. CASE \/ ReadAnswer(c) \/ ReadPart(c) \/ ReadClosed(c)
             \/ SocketError(c)
    <3>1. cpc[c] # "idle" /\ \E r : Returns(c, r)
      BY <2>3 DEF ReadAnswer, ReadPart, ReadClosed, SocketError
    <3> QED
      BY <3>1, WaitReturns
  <2> QED
    BY <1>1, <2>1, <2>2, <2>3 DEF sendData
<1>2. CASE UNCHANGED vars
  BY <1>2
     DEF WaitInv, vars, clientVars, serverVars, handlerVars, Offered, Served,
         Current, Incomplete, total_data, data_length
<1> QED
  BY <1>1, <1>2, WaitServer DEF Next

(* The server and a client never wait for each other: when recv blocks,    *)
(* the client it serves is about to send its header or the rest of its     *)
(* packet.                                                                 *)
THEOREM NeverMutual == Spec => []NoMutualWait
<1>1. Inv /\ WaitInv => NoMutualWait
  <2> SUFFICES ASSUME Inv, WaitInv, spc \in {"first", "recv"}, RecvResults = {}
               PROVE  /\ cpc[conn[1]] \in {"header", "send"}
                      /\ Current(conn[1]) = conn
    BY DEF NoMutualWait
  <2>1. /\ conn \in Connections /\ Offered(conn) /\ Served(conn)
        /\ total_received \in Nat /\ sent[conn] \in Nat
        /\ total_received <= sent[conn]
        /\ HeaderLen \in Nat \ {0} /\ Chunk \in Nat /\ HeaderLen <= Chunk
    BY SizesAssumption DEF Inv, TypeOK, ConnectionsInv, WaitInv
  <2>2. sent[conn] = total_received /\ open[conn]
    <3>1. ~(available > 0)
      <4> SUFFICES ASSUME available > 0 PROVE 1 \in RecvResults
        OBVIOUS
      <4> QED
        BY <2>1 DEF RecvResults, available
    <3> QED
      BY <2>1, <3>1 DEF RecvResults, available
  <2>3. total_data(conn) \in Nat /\ total_data(conn) >= HeaderLen
    BY <2>1, LengthType DEF Inv
  <2>4. spc = "first" => total_received = 0
    BY DEF WaitInv
  <2>5. spc = "recv" => Incomplete(conn)
    BY DEF WaitInv
  <2>6. sent[conn] # total_data(conn)
    BY <2>1, <2>2, <2>3, <2>4, <2>5 DEF Incomplete
  <2> QED
    BY <2>1, <2>2, <2>6 DEF Served
<1> QED
  BY <1>1, InvInit, InvStep, WaitInit, WaitStep, PTL DEF Spec

-----------------------------------------------------------------------------

(* What a packet too short for the enclave's routine does to the service.  *)

(* The server is inside a call of the enclave that does not return.        *)
Stuck == Processing /\ ~Returning(conn)

LEMMA StuckStep ==
    ASSUME Inv, Stuck, [Next]_vars
    PROVE  Stuck' /\ answer' = answer
<1>1. /\ spc = "test" /\ ~Incomplete(conn) /\ ~Returning(conn)
      /\ conn \in Connections /\ Offered(conn)
  BY DEF Stuck, Processing, Inv, TypeOK, ConnectionsInv
<1>2. ASSUME UNCHANGED <<spc, conn, total_received, answer>>,
             packet'[conn] = packet[conn]
      PROVE  Stuck' /\ answer' = answer
  BY <1>1, <1>2
     DEF Stuck, Processing, Incomplete, Returning, total_data, data_length
<1>3. ~run_server
  BY <1>1
     DEF run_server, handle_connection, Accept, AcceptFails, FirstFails,
         FirstRecv, Extend, ExtendFails, Recv, RecvFails, Reply
<1>4. ASSUME NEW c \in Clients, sendData(c) PROVE Stuck' /\ answer' = answer
  <2>1. UNCHANGED <<spc, conn, total_received, answer>>
    BY <1>4 DEF sendData, Connect, SendHeader, SendBody, ReadAnswer,
                ReadPart, ReadClosed, SocketError, Returns, serverVars,
                handlerVars
  <2>2. CASE \E p \in Packets : Connect(c, p)
    <3>1. PICK p \in Packets : packet' = [packet EXCEPT ![<<c, call[c] + 1>>] = p]
      BY <2>2 DEF Connect
    <3>2. conn # <<c, call[c] + 1>>
      <4>1. call[c] \in Nat
        BY DEF Inv, TypeOK
      <4> QED
        BY <1>1, <4>1 DEF Offered
    <3>3. packet \in [Connections -> Packets \cup {<<>>}]
      BY DEF Inv, TypeOK
    <3>4. packet'[conn] = packet[conn]
      BY <1>1, <3>1, <3>2, <3>3
    <3> QED
      BY <1>2, <2>1, <3>4
  <2>3. CASE \/ SendHeader(c) \/ SendBody(c) \/ ReadAnswer(c)
             \/ ReadPart(c) \/ ReadClosed(c) \/ SocketError(c)
    <3>1. packet' = packet
      BY <2>3 DEF SendHeader, SendBody, ReadAnswer, ReadPart, ReadClosed,
                  SocketError, Returns
    <3> QED
      BY <1>2, <2>1, <3>1
  <2> QED
    BY <1>4, <2>2, <2>3 DEF sendData
<1>5. CASE UNCHANGED vars
  BY <1>2, <1>5 DEF vars, clientVars, serverVars, handlerVars
<1> QED
  BY <1>3, <1>4, <1>5 DEF Next

(* One packet shorter than a prefix stops the server that calls the        *)
(* enclave for good: whoever has no answer by then, its own client or      *)
(* another one in the backlog, never gets one.                             *)
THEOREM ShortPacketStopsService ==
    ASSUME NEW k \in Connections
    PROVE  Spec => []((Stuck /\ answer[k] = NoAnswer) => [](answer[k] = NoAnswer))
<1> DEFINE P == Stuck /\ answer[k] = NoAnswer
<1>1. Inv /\ P /\ [Next]_vars => P'
  BY StuckStep
<1>2. P => answer[k] = NoAnswer
  OBVIOUS
<1> QED
  BY <1>1, <1>2, InvInit, InvStep, PTL DEF Spec

=============================================================================
