------------------------------ MODULE NfvServer ------------------------------
(***************************************************************************)
(* Packet processing over TCP: the single-threaded server (run_server and  *)
(* handle_connection) and the Click elements that send it packets          *)
(* (sendData).  There are two such servers, with the same loop: one counts *)
(* newlines itself, the other (Sgx) calls the enclave.                     *)
(*                                                                         *)
(* A connection carries HeaderLen bytes of header, `data_len:<n>|data:',   *)
(* and n bytes of data.  TCP hands them to recv in pieces of any size.     *)
(* handle_connection receives into a block it extends by Chunk bytes per   *)
(* recv, and always receives at the beginning of the new part, however     *)
(* few bytes the part before it has got.  It remembers where the data      *)
(* begins as a pointer into the first block.                               *)
(***************************************************************************)
EXTENDS Integers, Sequences, FiniteSets

CONSTANTS
    Clients,        \* Click elements that send packets
    Packets,        \* packets: sequences over {Newline, Other}
    Newline, Other, \* the byte 0x0a, and any other one
    HeaderLen,      \* bytes of a header
    Chunk,          \* the code's 1000
    MaxSize,        \* largest block that can be allocated
    Sgx,            \* is it the server that calls the enclave
    MinLength,      \* shortest packet the enclave's routine returns for: 500
    Mixtures,       \* counts that bytes of several responses may read as
    MaxCalls,       \* bound: calls of sendData per client
    MaxConnections, \* bound: calls of sendData in all
    MaxFaults       \* bound: failed calls of either side

ASSUME PacketsAssumption == Packets \subseteq Seq({Newline, Other})
ASSUME BytesAssumption == Newline # Other
ASSUME SizesAssumption ==
    /\ HeaderLen \in Nat \ {0} /\ Chunk \in Nat /\ HeaderLen <= Chunk
    /\ MaxSize \in Nat /\ Chunk <= MaxSize
    /\ MinLength \in Nat
ASSUME MixturesAssumption == Mixtures \subseteq Nat
ASSUME BoundsAssumption ==
    MaxCalls \in Nat /\ MaxConnections \in Nat /\ MaxFaults \in Nat

Connections == Clients \X (1 .. MaxCalls)
None == <<>>
NoCount == -1       \* no number, where a count is expected
NoAnswer == -2      \* the connection is open and nothing was sent on it
Closed == -3        \* the server closed it without an answer

VARIABLES
    \* one call of sendData per client at a time
    cpc,            \* "idle", "header", "send" or "wait"
    call,           \* number of the client's present or last call
    ret,            \* what its last call returned, NoCount while it runs
    \* connections
    packet,         \* the packet of each connection
    sent,           \* bytes sent on it
    open,           \* has its client kept it open
    answer,         \* the count the server sent, NoAnswer or Closed
    backlog,        \* connections the server has not accepted yet
    \* handle_connection
    spc, conn, recv_size, recv_offset, bytes_received, total_received,
    cells,          \* the block: what each of its bytes holds
    dangling,       \* the block moved after the data pointer was computed
    faults

clientVars == <<cpc, call, ret, packet, sent, open>>
handlerVars == <<recv_size, recv_offset, bytes_received, total_received,
                 cells, dangling>>
serverVars == <<spc, conn, handlerVars>>
vars == <<clientVars, answer, backlog, serverVars, faults>>

-----------------------------------------------------------------------------
(***************************************************************************)
(* The bytes of a connection and of the block they are received into.      *)
(***************************************************************************)

data_length(k) == Len(packet[k])
total_data(k) == HeaderLen + data_length(k)
available == sent[conn] - total_received

(* A byte of the block holds a byte of the stream, named by its position,  *)
(* or the zero of the memset, or what the allocator left there.            *)
Zero == -1
Junk == -2
NoBlock == [p \in 0 .. -1 |-> Junk]

(* Received over the first part, as if the offset were forgotten.          *)
StoreOverFirst(old, size, offset, k) ==
    [p \in 0 .. size - 1 |->
        IF p \in 0 .. k - 1 THEN total_received + p
        ELSE IF p \in DOMAIN old THEN old[p] ELSE Junk]

(* recv of k bytes at an offset of a block of some size.                   *)
StoreAt(old, size, offset, k) ==
    [p \in 0 .. size - 1 |->
        IF p \in offset .. offset + k - 1 THEN total_received + (p - offset)
        ELSE IF p \in DOMAIN old THEN old[p] ELSE Junk]

(* The positions of the block that the routine processes.                  *)
Processed == HeaderLen .. HeaderLen + data_length(conn) - 1

IsNewline(p) ==
    /\ cells[p] >= HeaderLen
    /\ packet[conn][cells[p] - HeaderLen + 1] = Newline

(* What process_packet may count.  Bytes nobody wrote, and all bytes of a  *)
(* freed block, may hold anything.                                         *)
process_packet ==
    IF dangling
      THEN 0 .. data_length(conn)
      ELSE LET lines == Cardinality({p \in Processed : IsNewline(p)})
               junk == Cardinality({p \in Processed : cells[p] = Junk})
           IN  lines .. lines + junk

(* The enclave's routine never returns for a packet that has no prefix to  *)
(* look for (see PacketSearch), and the server that calls it does not use  *)
(* its result: enclave_return keeps its initial zero.                      *)
Returning(k) == ~Sgx \/ data_length(k) >= MinLength
Counts == IF Sgx THEN {0} ELSE process_packet

NewlinesOf(s) == Cardinality({i \in DOMAIN s : s[i] = Newline})

Fault == faults < MaxFaults /\ faults' = faults + 1
NoFault == UNCHANGED faults

-----------------------------------------------------------------------------
(***************************************************************************)
(* sendData.                                                               *)
(***************************************************************************)

Current(c) == <<c, call[c]>>

(* A call of sendData has connected on it.                                 *)
Offered(k) == k[2] <= call[k[1]]

MoreCalls == Cardinality({k \in Connections : Offered(k)}) < MaxConnections

(* The connection is made, and is in the backlog, before the header is     *)
(* sent.                                                                   *)
Connect(c, p) ==
    /\ cpc[c] = "idle" /\ call[c] < MaxCalls /\ MoreCalls
    /\ cpc' = [cpc EXCEPT ![c] = "header"]
    /\ call' = [call EXCEPT ![c] = @ + 1]
    /\ ret' = [ret EXCEPT ![c] = NoCount]
    /\ LET k == <<c, call[c] + 1>> IN
         /\ packet' = [packet EXCEPT ![k] = p]
         /\ open' = [open EXCEPT ![k] = TRUE]
         /\ backlog' = Append(backlog, k)
    /\ NoFault
    /\ UNCHANGED <<sent, answer, serverVars>>

SendHeader(c) ==
    /\ cpc[c] = "header"
    /\ cpc' = [cpc EXCEPT ![c] = "send"]
    /\ sent' = [sent EXCEPT ![Current(c)] = HeaderLen]
    /\ NoFault
    /\ UNCHANGED <<call, ret, packet, open, answer, backlog, serverVars>>

SendBody(c) ==
    /\ cpc[c] = "send"
    /\ cpc' = [cpc EXCEPT ![c] = "wait"]
    /\ sent' = [sent EXCEPT ![Current(c)] = total_data(Current(c))]
    /\ NoFault
    /\ UNCHANGED <<call, ret, packet, open, answer, backlog, serverVars>>

(* The call returns r and closes its end of the connection.                *)
Returns(c, r) ==
    /\ cpc' = [cpc EXCEPT ![c] = "idle"]
    /\ ret' = [ret EXCEPT ![c] = r]
    /\ open' = [open EXCEPT ![Current(c)] = FALSE]
    /\ UNCHANGED <<call, packet, sent, answer, backlog, serverVars>>

(* The whole answer arrives at once.                                       *)
ReadAnswer(c) ==
    /\ cpc[c] = "wait" /\ answer[Current(c)] >= 0
    /\ Returns(c, answer[Current(c)])
    /\ NoFault

(* recv_buff is an array on the stack that is not initialised.  What recv  *)
(* has not stored is what earlier calls on the thread have left there: the *)
(* response of one of them, bytes of several, or no response.              *)
Leftovers == Mixtures \cup {n \in {answer[k] : k \in Connections} : n >= 0}
Malformed == -2

(* recv brings a part of `OK:<n>', the end of which is left over.  There   *)
(* is no second recv.                                                      *)
ReadPart(c) ==
    /\ cpc[c] = "wait" /\ answer[Current(c)] >= 0
    /\ \E n \in Leftovers \cup {Malformed} : Returns(c, n)
    /\ NoFault

(* recv returns 0 when the server has closed, and the buffer is examined   *)
(* all the same.                                                           *)
ReadClosed(c) ==
    /\ cpc[c] = "wait" /\ answer[Current(c)] = Closed
    /\ \E n \in Leftovers \cup {Malformed} : Returns(c, n)
    /\ NoFault

(* A failed send or recv, or a connection that is reset.                   *)
SocketError(c) ==
    /\ cpc[c] \in {"header", "send", "wait"}
    /\ Returns(c, -1)
    /\ IF answer[Current(c)] = Closed THEN NoFault ELSE Fault

sendData(c) ==
    \/ \E p \in Packets : Connect(c, p)
    \/ SendHeader(c) \/ SendBody(c)
    \/ ReadAnswer(c) \/ ReadPart(c) \/ ReadClosed(c) \/ SocketError(c)

-----------------------------------------------------------------------------
(***************************************************************************)
(* run_server and handle_connection.                                       *)
(***************************************************************************)

(* malloc, and the memset of the first Chunk bytes.                        *)
Accept ==
    /\ spc = "accept" /\ backlog # <<>>
    /\ spc' = "first"
    /\ conn' = Head(backlog)
    /\ backlog' = Tail(backlog)
    /\ recv_size' = Chunk /\ recv_offset' = 0
    /\ bytes_received' = 0 /\ total_received' = 0
    /\ cells' = [p \in 0 .. Chunk - 1 |-> Zero]
    /\ dangling' = FALSE
    /\ NoFault
    /\ UNCHANGED <<clientVars, answer>>

(* A return that forgets to close the connection.                          *)
FinishLeaks(a) ==
    /\ spc' = "accept" /\ conn' = None
    /\ answer' = IF a = Closed THEN answer ELSE [answer EXCEPT ![conn] = a]
    /\ recv_size' = 0 /\ recv_offset' = 0
    /\ bytes_received' = 0 /\ total_received' = 0
    /\ cells' = NoBlock /\ dangling' = FALSE
    /\ UNCHANGED <<clientVars, backlog>>

(* Close the connection with an answer, or Closed, and accept the next.    *)
Finish(a) ==
    /\ spc' = "accept" /\ conn' = None
    /\ answer' = [answer EXCEPT ![conn] = a]
    /\ recv_size' = 0 /\ recv_offset' = 0
    /\ bytes_received' = 0 /\ total_received' = 0
    /\ cells' = NoBlock /\ dangling' = FALSE
    /\ UNCHANGED <<clientVars, backlog>>

(* The results of recv: it blocks as long as there is neither a byte nor   *)
(* the end of the stream.                                                  *)
RecvResults ==
    IF available > 0 THEN 1 .. IF available < Chunk THEN available ELSE Chunk
    ELSE IF open[conn] THEN {} ELSE {0}

(* malloc or the first recv fails; the latter shows as a malformed header. *)
FirstFails ==
    /\ spc = "first"
    /\ Fault
    /\ Finish(Closed)

(* The first recv must bring the whole header, or it is malformed.         *)
FirstRecv ==
    /\ spc = "first"
    /\ \E k \in RecvResults :
          IF k < HeaderLen
            THEN Finish(Closed)
            ELSE /\ spc' = "test"
                 /\ bytes_received' = k /\ total_received' = k
                 /\ cells' = StoreAt(cells, recv_size, 0, k)
                 /\ UNCHANGED <<clientVars, answer, backlog, conn, recv_size,
                                recv_offset, dangling>>
    /\ NoFault

(* A loop guard that forgets the header.                                   *)
ShortOfHeader(k) == total_received < data_length(k)

(* One that waits for a byte nobody sends.                                 *)
OneTooMany(k) == total_received <= total_data(k)

Incomplete(k) == total_received < total_data(k)

(* Extend the block.  realloc may move it, and data keeps pointing into    *)
(* the block it moved from.                                                *)
Extend ==
    /\ spc = "test" /\ Incomplete(conn)
    /\ recv_size + Chunk <= MaxSize
    /\ spc' = "recv"
    /\ recv_size' = recv_size + Chunk
    /\ recv_offset' = recv_offset + Chunk
    /\ cells' = StoreAt(cells, recv_size + Chunk, 0, 0)
    /\ dangling' \in {dangling, TRUE}
    /\ NoFault
    /\ UNCHANGED <<clientVars, answer, backlog, conn, bytes_received,
                   total_received>>

ExtendFails ==
    /\ spc = "test" /\ Incomplete(conn)
    /\ IF recv_size + Chunk <= MaxSize THEN Fault ELSE NoFault
    /\ Finish(Closed)

(* Two ways to get Recv wrong: receive again at the end of the stream, and *)
(* count a full part whatever was received.                                *)
RecvAgain ==
    /\ spc = "recv"
    /\ \E k \in RecvResults :
          /\ spc' = IF k = 0 THEN "recv" ELSE "test"
          /\ bytes_received' = k
          /\ total_received' = total_received + k
          /\ cells' = StoreAt(cells, recv_size, recv_offset, k)
    /\ NoFault
    /\ UNCHANGED <<clientVars, answer, backlog, conn, recv_size, recv_offset,
                   dangling>>

RecvCountsPart ==
    /\ spc = "recv"
    /\ \E k \in RecvResults :
          /\ bytes_received' = k
          /\ total_received' = total_received + Chunk
          /\ cells' = StoreAt(cells, recv_size, recv_offset, k)
    /\ spc' = "test"
    /\ NoFault
    /\ UNCHANGED <<clientVars, answer, backlog, conn, recv_size, recv_offset,
                   dangling>>

(* A recv that returns 0 at the end of the stream goes round the loop.     *)
Recv ==
    /\ spc = "recv"
    /\ \E k \in RecvResults :
          /\ bytes_received' = k
          /\ total_received' = total_received + k
          /\ cells' = StoreAt(cells, recv_size, recv_offset, k)
    /\ spc' = "test"
    /\ NoFault
    /\ UNCHANGED <<clientVars, answer, backlog, conn, recv_size, recv_offset,
                   dangling>>

RecvFails ==
    /\ spc = "recv"
    /\ Fault
    /\ Finish(Closed)

(* Process the packet and send the count, which is lost if nobody reads it.*)
Reply ==
    /\ spc = "test" /\ ~Incomplete(conn)
    /\ Returning(conn)
    /\ \E processing_count \in Counts : Finish(processing_count)
    /\ NoFault

handle_connection ==
    FirstFails \/ FirstRecv \/ Extend \/ ExtendFails \/ Recv \/ RecvFails
    \/ Reply

(* accept fails, for want of a descriptor say.  The connection -1 is       *)
(* handled all the same: its recv fails, and nothing comes of it.          *)
AcceptFails ==
    /\ spc = "accept"
    /\ Fault
    /\ UNCHANGED <<clientVars, answer, backlog, serverVars>>

run_server == Accept \/ AcceptFails \/ handle_connection

-----------------------------------------------------------------------------

Init ==
    /\ cpc = [c \in Clients |-> "idle"]
    /\ call = [c \in Clients |-> 0]
    /\ ret = [c \in Clients |-> NoCount]
    /\ packet = [k \in Connections |-> <<>>]
    /\ sent = [k \in Connections |-> 0]
    /\ open = [k \in Connections |-> FALSE]
    /\ answer = [k \in Connections |-> NoAnswer]
    /\ backlog = <<>>
    /\ spc = "accept" /\ conn = None
    /\ recv_size = 0 /\ recv_offset = 0
    /\ bytes_received = 0 /\ total_received = 0
    /\ cells = NoBlock /\ dangling = FALSE
    /\ faults = 0

Next == run_server \/ \E c \in Clients : sendData(c)

Spec == Init /\ [][Next]_vars

(* The server is scheduled, and so is a client inside a call.  Nothing     *)
(* makes a client begin a call, a call fail or a client stop.              *)
FairSpec ==
    /\ Spec
    /\ WF_vars(run_server)
    /\ \A c \in Clients :
          WF_vars(SendHeader(c) \/ SendBody(c)
                      \/ ReadAnswer(c) \/ ReadPart(c) \/ ReadClosed(c))

-----------------------------------------------------------------------------

(* The type invariant.  Of the block: its size counts the recv calls, and  *)
(* the server never counts more bytes than its client has sent.            *)
TypeOK ==
    /\ cpc \in [Clients -> {"idle", "header", "send", "wait"}]
    /\ call \in [Clients -> 0 .. MaxCalls]
    /\ ret \in [Clients -> Nat \cup {Malformed, NoCount}]
    /\ packet \in [Connections -> Packets \cup {<<>>}]
    /\ sent \in [Connections -> Nat]
    /\ open \in [Connections -> BOOLEAN]
    /\ answer \in [Connections -> Nat \cup {NoAnswer, Closed}]
    /\ backlog \in Seq(Connections)
    /\ spc \in {"accept", "first", "test", "recv"}
    /\ conn \in IF spc = "accept" THEN {None} ELSE Connections
    /\ recv_size \in 0 .. MaxSize
    /\ recv_offset \in 0 .. MaxSize
    /\ bytes_received \in 0 .. Chunk
    /\ total_received \in Nat
    /\ spc # "accept" => /\ recv_size = recv_offset + Chunk
                         /\ total_received <= sent[conn]
    /\ cells \in [0 .. recv_size - 1 -> Nat \cup {Zero, Junk}]
    /\ dangling \in BOOLEAN
    /\ faults \in 0 .. MaxFaults

(* The server is about to process the packet.                              *)
Processing == spc = "test" /\ ~Incomplete(conn)

(* The bytes handed to process_packet lie inside the block, although the   *)
(* loop that receives them only counts bytes.                              *)
ProcessesInside == Processing => HeaderLen + data_length(conn) <= recv_size

(* When every recv but the last one filled its part of the block and the   *)
(* block has not moved, what is processed is the client's packet, and the  *)
(* answer is the number of its newlines.                                   *)
FullPartsIntact ==
    Processing /\ ~dangling /\ total_received = recv_offset + bytes_received
        => /\ \A p \in Processed : cells[p] = p
           /\ process_packet = {NewlinesOf(packet[conn])}

(* Only a connection on which the whole packet was sent is answered: not   *)
(* one whose client stopped early, although the loop does not tell the end *)
(* of the stream from a recv that brought something.                       *)
AnswersOnlyComplete ==
    \A k \in Connections : answer[k] >= 0 => sent[k] = total_data(k)

(* Every call of sendData comes to an end, although the server serves one  *)
(* connection at a time and other clients may stop in the middle of theirs.*)
CallsReturn == \A c \in Clients : cpc[c] = "header" ~> cpc[c] = "idle"

(* Every connection the server was offered is decided: it is answered or   *)
(* closed, also those whose clients have given up.                         *)
AllDecided == \A k \in Connections : Offered(k) ~> answer[k] # NoAnswer

(* The server and its clients implement PacketService: connections are     *)
(* decided in the order in which they were made, each once, a count is for *)
(* a packet that was received as a whole and not larger than its length,   *)
(* and a call that returns before its connection is decided returns an     *)
(* error.  A count it returns is its own, unless it read leftovers.        *)
Service == INSTANCE PacketService WITH
    NoVerdict <- NoAnswer, Refused <- Closed, Errors <- {-1, -2},
    busy <- {c \in Clients : cpc[c] # "idle"},
    complete <- {k \in Connections : Offered(k) /\ sent[k] = total_data(k)},
    queue <- IF spc = "accept" THEN backlog ELSE <<conn>> \o backlog,
    verdict <- answer, result <- ret

ServesInOrder == Service!Spec

(* No connection is forgotten: one that was made and not decided is in the *)
(* backlog or is the one being handled, and in one place only, although    *)
(* handle_connection has many ways out and accept may fail.                *)
NoneForgotten == Service!WaitsOnce

(* The server and a client never wait for each other: the server blocks in *)
(* recv only while the client it serves has its header or its body still   *)
(* to send, never when that client waits for its answer or has gone.       *)
NoMutualWait ==
    spc \in {"first", "recv"} /\ RecvResults = {}
        => cpc[conn[1]] \in {"header", "send"} /\ Current(conn[1]) = conn

(* basicelement.cc: the response is "OK:<int>", the int "representing the  *)
(* amount of data originally sent".                                        *)
AnswersAmountSent ==
    \A k \in Connections : answer[k] >= 0 => answer[k] = Len(packet[k])

(* basicelement.cc: sendData returns "the response from the client or a    *)
(* negative number indicating an error code".                              *)
ReturnsResponse ==
    \A c \in Clients :
        cpc[c] = "idle" /\ ret[c] >= 0 => ret[c] = answer[Current(c)]

=============================================================================
