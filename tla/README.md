# A verification development for sgx_nfv

`sgx_nfv` lets a network function (an element of the Click router) hand its
packets to an SGX enclave, on the same machine or behind a TCP server, and
contains an unfinished remote attestation protocol by which the enclave is to be
given a secret.  This directory models that code in TLA+, checks the models with
TLC on small instances and proves their main safety properties with TLAPS for
every instance.

Paths below are relative to `src/`; `sgx/` stands for
`NFV_Basic_SGX/sgx/enclave_enclave1/`, `ra/` for `NFV_Remote_Attestation_C/sgx/`,
`bench/` for `SGX_Execution_Benchmark/sgx/enclave_enclave/`.

## 1. The system

| Component | Code | State it keeps | Operations | Interacts with |
|---|---|---|---|---|
| Packet search | `sgx/trusted/enclave1.cpp:159`, copy in `sgx/untrusted/App.cpp:247` | locals of one call | count the occurrences of the packet's own prefix | called for each packet by a Click element or the server |
| SHA256 class | `enclave1.cpp:50`, copies in `sgx/untrusted/App.cpp:63`, `bench/trusted/enclave.cpp:28`, `bench/untrusted/sample.cpp:234` | chaining value, two-block buffer, two lengths | `init`, `update`, `final` | used per packet by two Click elements, in a loop by the benchmark |
| Packet server | `NFV_Basic_No_SGX/App.cpp`; with SGX `sgx/untrusted/App.cpp:320-452` | listening socket; per connection a growing block, offsets and a pointer into the block | accept, receive header and data, process, answer, close | Click elements over TCP; the enclave |
| Click elements | `click_experiments/*.cc`, `sgx/untrusted/App.cpp:223-318` | counters `count`, `sgx_sum`; the one `global_eid`; locals of `sendData` | `push`, read handler, `sendData` | Click, the enclave, the server |
| Launch token | `initialize_enclave` in four programs | the token file | read, create the enclave, save | other programs started in the directory; the SGX runtime |
| Service provider | `ra/service_provider/service_provider.cpp` | `g_is_sp_registered`, `g_sp_extended_epid_group_id`, one session `g_sp_db` | handlers of messages 0, 1 and 3 | attesting clients, attestation server |
| Simulated attestation server | `ra/service_provider/ias_ra.cpp` | none | enrol, revocation list, verdict on a quote | callbacks of the service provider |
| Attesting client | `ra/enclave_Enclave1/untrusted/App.cpp`, `trusted/Enclave1.cpp` | key exchange context, `g_secret` | `perform_remote_attestation`, `verify_att_result_mac`, `put_secret_data` | service provider over the network; the key exchange library |
| Network framing | `ra/service_provider/network_ra.cpp` | none | `ra_network_send_receive` | client and provider |
| Key derivation, cryptography | `ra/service_provider/ecp.cpp`, `sample_libcrypto` | none | functions | service provider |
| Benchmark | `bench/` | the SHA256 objects | timed loops inside and outside an enclave | SHA256, the SGX runtime |
| Python verifier | `NFV_Remote_Attestation_Python/` | as the service provider | unfinished port | - |
| Scripts, data, submodules | `run_experiment.sh`, `data/`, `click/`, ... | - | build, run, plot | - |

What is hard about each, and what makes it correct:

* **Packet search.** Integer edges: the loop bound, how far to advance, the
  prefix length `length/500`.  *Correct when* it never leaves the packet, returns,
  and returns the number of occurrences that do not overlap.
* **SHA256.** The edges of a block: where buffering stops, when the padding needs
  a second block, and a buffer that is never cleared between messages.  *Correct
  when* the digest depends on the message alone and not on how it was cut or on
  what the object hashed before.
* **Packet server and `sendData`.** TCP delivers any split of what was sent, either
  side may stop anywhere, the block moves while a pointer into it is kept, the
  server is single-threaded and nothing has a timeout.  *Correct when* what is
  processed lies in the block and is the packet, only complete packets are
  answered, calls return what the server answered, and every call returns.
* **Launch token.** Several programs share a file without a lock and may crash in
  the middle of saving.  *Correct when* a damaged token is never used and a good
  one is not lost.
* **Service provider.** All clients share one session that a failing call leaves
  half overwritten, requests are late or reordered, the provider may restart.
  *Correct when* a result is made with the keys of the client it goes to, nobody
  gets the secret before a supported client has asked, and whatever failed before,
  an undisturbed attestation succeeds.
* **Click push path.** The elements of a router share one enclave id, the enclave can
  be lost at any time, and a call that fails leaves its result uninitialised.
  *Correct when* each sum is that of the element's own packets until then, and
  packets go on passing, each once.
* **Benchmark.** The enclave can be lost between two calls, and the status of the
  timed calls is discarded.  *Correct when* a time that is printed is that of the
  whole piece of work, and the program ends.

`PROJECT.json` lists these hazards line by line with the properties that cover
them, and for those none covers the reason.

## 2. Modules

| Module | What it is |
|---|---|
| `PrefixPacking` | the data of the packet search: prefix, occurrences, disjoint families |
| `PacketCount` | abstract: a call is answered with the largest number of disjoint occurrences |
| `PacketSearch` | the loop, one iteration a step; implements `PacketCount` |
| `MessageDigest` | abstract: the digest is that of the padded message, however it was cut |
| `Sha256` | the class; implements `MessageDigest` |
| `NfvServer`, `MCNfvServer` | server(s), clients, and the TCP connections between them |
| `PacketService` | abstract: calls are decided on in their order, and return their own packet's count, an error or, once decided, at worst what earlier calls left behind; `NfvServer` implements it |
| `CountingElement` | abstract: packets pass one at a time and each adds the right number to its element's sum, until the enclave is lost |
| `ClickElement` | the elements of a router, composed with `PacketSearch` (the frame of the call they make); implements `CountingElement` |
| `Benchmark` | `main` of the execution benchmark, with an enclave that is lost |
| `Attestation` | abstract: one session, taken by the client that exchanges keys last; the secret is offered to whoever holds it; `ServiceProvider` implements it |
| `LaunchToken` | `initialize_enclave` in several processes, and the file |
| `ServiceProvider` | the provider, the clients that attest to it, messages and failures |
| `*Proofs` | the theorems about the module they are named after |

Names of variables and actions are those of the code where TLA+ allows it.

### PacketSearch

`length`, `data`, `index` and `count` are the locals; `SkipByte`, `FoundSequence`,
`PartialMatch` are the three ways through the body of the `while` loop and
`Return` is its end.  The divisor 500 is the constant `SeqDiv`, and `count` wraps
at `MaxInt` (signed overflow is undefined in C++; wrapping is what the build
does).  `ceil` does nothing, since the division before it is one of integers.
Packets have at least one byte: Click does not push empty packets, and for an
empty one the code reads `data[0]`.

### Sha256

The compression function is abstract: `m_h` is the sequence of bytes compressed so
far, so two digests are equal exactly when their padded inputs are.  A byte of a
message is named by the message's number and its position, so that a byte of an
earlier message left in the buffer is not mistaken for one of this message.
`update` takes any number of bytes of the message; `init` may be called at any
time, as the benchmark does for one message after the other.  The live callers
call `update` once per message; several calls are what the class offers.  A local
object's members are unset before `init`, which every caller calls first.  `LengthLimit`
stands for 2^32, where the bit length computed by `final` wraps.

### NfvServer

A connection is `<<client, call>>` with its packet, the number of bytes `sent`,
whether the client keeps it `open`, and the server's `answer`.  `recv` returns any
number of the bytes sent and not yet received (up to `Chunk`, the code's 1000), 0
after the client has closed, and blocks otherwise.  The server's state is that of
`handle_connection`; `cells` says for each byte of the block which byte of the
stream it holds, so that data stored at the wrong offset is seen, and `dangling`
that `realloc` moved the block although `data` still points into the old one, in
which case the count is any number.

| Action | Code (`NFV_Basic_No_SGX/App.cpp` unless named) |
|---|---|
| `Accept`, `AcceptFails` | `run_server`, 140-151, and the first allocation; after a failed `accept` the connection -1 is handled, whose `recv` fails |
| `FirstRecv`, `FirstFails` | 34-59: the header must arrive with the first `recv` |
| `Extend`, `ExtendFails` | 60-72 |
| `Recv`, `RecvFails` | 73-80 |
| `Reply` | 83-92: process, send, close |
| `Connect` | `basicelement.cc` 74-122: the connection is in the backlog before its header is sent |
| `SendHeader`, `SendBody` | `basicelement.cc` 124-138 |
| `ReadAnswer`, `ReadPart`, `ReadClosed` | `basicelement.cc` 140-179: the whole answer, a part of it, the end of the stream |
| `SocketError` | a `send` or `recv` of these that fails |

TCP may also cut the answer `OK:<n>` in two, and `sendData` does not call `recv`
again: it reads what has come together with what `recv_buff` held, an array on the
stack that nothing initialises.  `ReadPart` and `ReadClosed` return any of
`Leftovers`: a count sent on any connection before, whoever made it, or a number of
`Mixtures`, which digits of several answers may read as; or an error if there is
no number (`Malformed`).  The buffer is not taken to be a client's own.

With `Sgx = TRUE` the module is the server with SGX: its text is the same but that
it calls the enclave, whose routine does not return for a packet shorter than
`MinLength` (500; this is what `PacketCount` says of it), and that it always
answers `OK:0`.  `sendData` is the same text in the four elements; its call in
`push` is commented out at this commit, so that the elements use the enclave
directly.  The map names one copy for each definition, spread over the copies.

`Service` is the refinement mapping to `PacketService`: the queue is the backlog
with the connection being handled in front, and a verdict is a connection's answer or
its being closed.  The abstract `Mistaken` is the one flaw the code adds to
what one would ask of such a service (`nfv_stale_response`): a call may return
what is `LeftBehind`, perhaps another client's count.  The abstract specification
bounds it to calls that are decided already: before that nobody gets anything but
an error.  A verdict on a complete packet is any number up to its length, since
scattered data (hazard at `App.cpp:73`) and a moved block make the count wrong;
`FullPartsIntact` says when it is right.

A fact about the queue is stated in `PacketService` and holds of the code through
the same mapping: the calls that are not decided are the ones that wait, each of
them once (`NoneForgotten`).
`NoMutualWait` is about the two ends of a connection: `recv` blocks the server only
while its client has the header or the body still to send.  It counts on a `send` that takes all
it is given, as the model's does.

Not modelled: calls that fail before they are connected (they return -1 and
nothing else happens), partial sends, SIGPIPE, the listen backlog of 100, headers that are
not what `sendData` writes, a failing enclave call in the server.

### ClickElement

`Construct` is a constructor: with SGX (`Enclaved`) it calls `initialize_enclave`,
which creates an enclave and overwrites `global_eid`, or ends the process; without
SGX it does nothing.  `Push` is `push` up to the call, `Run` an iteration of the
routine (`PacketSearch`, whose variables are the frame of the call), `Returned`
and `Failed` the ends of the wrapper and of `push`.  `PowerTransition` loses all
enclaves at once; from then on calls fail and `Failed` adds an arbitrary value of
`Leftovers`, the uninitialised `sgx_return`.  An element of a SHA256 class hashes
(the work of `Sha256`) and counts nothing, which takes no steps here.

Click runs the elements in one thread, so one packet at a time is inside a `push`.
The configurations of the repository contain one element; Click allows any number
of any classes, with and without SGX, and so does the model.  The SHA256 element without SGX and the one
with it have no sum; their members are there all the same.  `sgx_sum` and `count`
are taken to start at 0, as in the class definitions, and do not wrap.

### Benchmark

`pc` is the next statement of `main`.  The four pieces of work are named as in the
printed lines.  The hash chains of `stress` and `ecall_stress` count as one piece
each, since nothing is looked at in between, and each round of the two loops is a
step.  An `ecall` on a lost enclave returns an error at once.

### LaunchToken

The token is `zero`, `stale` (refused by this platform or enclave) or `good`; the
file may also be `absent`, `empty` or `torn`, and starts as anything.  `Open`,
`Create`, `Read`, `Launch`, `Reopen` and `Write` are the calls of
`initialize_enclave` in their order, each a step of its own since other programs
run in between.  `sgx_create_enclave` is external: it replaces a token that is not
good and tells so.  Two of the four copies put the file in the home directory,
which changes only who shares it.

### ServiceProvider

Cryptography is symbolic: a client's `g_a` is `<<client, attempt>>`, the
provider's `g_b` the number of its key pair, and a derived key is the pair of
both.  The handlers are actions; handler `sp_ra_proc_msg1_req` stores the fields
of `g_sp_db` in the order `StoreOrder` and may stop after any of them, which
`Msg1Exchange(r, stored, replied)` covers.  `sp_ra_proc_msg3_req` checks the
session's `g_a`, the CMAC with SMK and the report (`Accepts`) before it answers.
`Requests` holds what is on its way: each request travels on a connection of its
own, so it is handled at most once, in any order, and perhaps after its client
gave up.  `Disconnect`, `Abandon` and `Restart` are the failures.

The client is the environment: `perform_remote_attestation` sends only message 0
at this commit and has no caller; the model's client sends the messages 1 and 3
its TODO comments announce and reads the result as the rest of the function does.
After message 0 it goes on whatever came back, as the code does: `App.cpp:134-138`
looks only at what `send_request` returned, which is an error (`Broken`) if nothing
could be sent or received, and 0 for a refusal and for the end of the stream
(`Failure`).  The handlers of messages 1 and 3 look only at `g_is_sp_registered`,
so a client of a foreign group gets the secret as soon as another one has
registered the provider; `SupportedAskedFirst` is all that is left of the check.

The dispatch to the handlers in `network_ra.cpp` is commented out, and nothing in
the repository sends what a handler returns.  A server loop is assumed (`Respond`,
external) that does what the handlers need: it calls one at a time and answers on
the connection the request came on, or closes it when the handler fails.  That
a handled request is answered is an assumption here and no result.  The simulated
attestation server never fails and accepts every quote; the model also lets it
fail or reject, each of which counts as a fault.  `ps_sec_prop`, PSE sessions and the revocation list's contents are
left out.

`Promise` is the refinement mapping to `Attestation`.  The abstract holder of the
session is the client and attempt whose `g_a` is stored, if the fields of `g_sp_db`
are those of one exchange (`Exchange`), and nobody otherwise, so that a handler that
stops between two stores spoils the session, and one that stores all of them takes
it.  The secret is offered while a positive result is in a client's inbox, and the
trusted clients are those whose enclave has it.  The mapping hides messages, keys,
registration and restarts; what is left says that shared globals, in whatever state
the handlers left them, give the secret only to the client whose present
attempt holds the session.

## 3. Runs

| Run | Instance | States | Shows |
|---|---|---|---|
| `packet_search` | all packets of 1..9 bytes over 2 values, divisor 2 | 4,768 | index stays in the packet; greedy scan optimal at each iteration; implements `PacketCount`, termination included |
| `packet_short` | 1..3 bytes | - | **violated**: a packet shorter than the divisor is never answered |
| `service_provider` | 2 clients, one foreign, 2 attempts each, 3 faults | 137,330 | typed; keys of the session ordered by age; results bound to their client; no secret given away before a supported client has asked; when clients that replaced each other's session have come to rest without faults, somebody has got the secret if a supported one tried; an attempt that nothing disturbs any more is never turned down, and succeeds; implements `Attestation` |
| `click_element` | 3 elements: two with SGX, one of which hashes, one without; 2 packets each of 1..4 bytes, divisor 2 | 130,919 | typed; implements `CountingElement`; packets pass |
| `nfv_server` | 2 clients, up to 2 calls each and 3 in all, packets of 1 and 2 bytes, 1 fault; answers whole or in part | 346,026 | block, offsets and counts; bytes processed inside the block; full parts intact; only complete packets answered; no waiting connection forgotten; server and client never wait for each other; implements `PacketService`; every `sendData` returns; every connection is answered or closed |
| `nfv_answer_length` | 1 client, 2 calls | - | **violated**: the answer is not the amount of data sent |
| `nfv_stale_response` | 1 client, 2 calls, 2 faults | - | **violated**: a call returns what an earlier call has left on the stack |
| `nfv_sgx_short` | 2 clients, no faults, `Sgx = TRUE` | - | **violated**: one short packet stops the server for everybody |
| `sha256` | the code's sizes; messages up to 130 bytes in 2 pieces, 2 messages | 32,188 | buffer never full between calls; implements `MessageDigest` |
| `launch_token` | 3 programs, 4 starts, 2 faults | 38,744 | a torn token is never used; without faults a good token is saved; what faults have left is repaired by the next starts without any; a good token saved is not truncated any more |
| `benchmark` | 12 rounds | 169 | typed; times printed are those of whole pieces of work unless the enclave was lost; the program ends |
| `benchmark_stale` | 12 rounds | - | **violated**: failed calls are timed as if they had hashed |

*Why the bounds are enough.* Packet search: with divisor 2, lengths up to 9 give
prefixes of 0 to 4 bytes, and packets with overlapping, adjacent and no further
occurrences.  SHA256: 130 bytes reach the second edge of a block and both paddings
for every remainder, and the second message meets every buffer the first can leave.
NfvServer: with header 2 and `Chunk` 3 one packet ends at the edge of its first
part, the other in a second one or, when `recv` cuts it short, in a third, and
`recv` cuts it everywhere; two clients are enough for one to hold up the other; a
second call is one that can return the first one's count, of its own client or of
the other, and the third in all (`MaxConnections`) comes between or beside them;
one number in `Mixtures` that is no count of a packet stands for all of them.
ServiceProvider: two interleaved clients replace each other's session, the second
of them being the foreign one, which the provider treats like any other from
message 1 on; a second attempt lets messages of a first arrive late; a fault is any
of the failing calls, a rejected quote, a lost connection or a restart, and three
let a restart follow a half finished exchange and something else go wrong after it.  ClickElement: two counting elements show that a sum gets no
packet of the other's, two with SGX share the enclave id, the second packet shows
that nothing of the first is left, and with divisor 2 packets of 1 byte are the ones
that hang.  `Sgx = TRUE` is run in `nfv_sgx_short` alone; the theorems about
`NfvServer` hold for both servers.
Benchmark: nothing depends on the number of rounds but that it is more than one.
LaunchToken: a writer, another writer and a reader.
In `sha256`, `LengthLimit` 1040 excludes exactly the messages of 130 bytes, of which
the abstract digest promises nothing.  Where a run says `CHECK_DEADLOCK FALSE`, the
system stops when the bounded calls or attempts are used up.

*Fairness.* `PacketSearch`: the caller's thread runs.  `NfvServer!FairSpec`: the
server process is scheduled, and a client inside `sendData`, a straight piece of
code, sends its header and its data and reads what has come; nothing makes a client
begin a call or a call fail.  The client that keeps its connection open and does
nothing is excluded by this: with it, the single-threaded server waits for ever.
`ClickElement`: the router's thread goes on with a packet it has begun
(`InPush`).  `Benchmark`: `main` is scheduled.
`ServiceProvider!FairSpec`: the provider handles some received request, and a
client that has a response goes on; nobody has to start.  That the handler's
outcome reaches the client is the assumption about the server loop above.  `UndisturbedSucceeds`
assumes that faults have ended, nobody else attests any more and no request of
another attempt is left: two clients attesting together may replace each other's session
again and again.

*The violated runs* are disagreements of the code with its own texts:

1. `packet_short`, `nfv_sgx_short`: `protocol_test.py` sends five bytes and waits
   for the answer; `length/500` is 0 there and `enclave1.cpp:165` loops for ever.
   The server, being single-threaded, serves nobody after it.
2. `nfv_answer_length`: the protocol comment (`basicelement.cc:66`) says that the
   answer is the amount of data sent; the server sends a count of newlines.
3. `nfv_stale_response`: `sendData` looks at a buffer it has not initialised when
   `recv` returns 0, or only a part of the answer, although it is documented to
   return the response or a negative number.
4. `benchmark_stale`: `sample.cpp:507` tests the status of the calls it has timed,
   to abort instead of printing, but `sample.cpp:504` discards it, and the test
   looks at that of `ecall_stress`.

## 4. Theorems

All are proved by `tlapm` from the assumptions on the constants that the modules
name, without bounds on them.

* **PacketSearchProofs.** `TypeCorrect`; `GreedyIsOptimal`; `ImplementsPacketCount`
  (`Spec => Abs!SafeSpec`).  `TypeInv` adds to the types that a zero-length prefix
  never advances the index.  `ScanInv` adds that the count is at most the index, so
  it cannot wrap.  The step is an exchange argument: of two members of a disjoint
  family one prefix length apart at most one lies in a window of a prefix length
  (`WindowHoldsOne`), so a family that uses positions before the new index has at
  most one more member than one before the old index.  `LoopAdvances` and
  `ShortNeverAnswered` say which calls end: with a prefix each iteration advances an
  index that stays in the packet, and without one it never moves, for every packet
  and divisor, which is what `packet_short` shows for one packet.
* **Sha256Proofs.** `TypeCorrect`; `ComputesDigest` (`Spec => ImplementsDigest`).
  `Inv` says that what was compressed is the first `m_tot_len` bytes of the message
  and the buffer holds the next `m_len`.  The lemmas about division show that the
  padding chosen by `NeedsTwo` is the shortest multiple of a block.
* **NfvServerProofs.** `TypeCorrect` and `CompleteAnswered`, from `Inv`, which adds
  to the types which connections have been used, that nothing is sent on one before
  its header, and no more than its packet; `InsideBlock` and `FullPartsProcessed`, from `BlockInv`: the
  bytes received never exceed offset plus last `recv`, and as long as the two are
  equal the block is an intact prefix of the stream.  `NeverMutual` needs `WaitInv`:
  every connection that was made is `Served` (its client is about to send its header
  or the rest, has sent it all, or has closed), and the server
  is in `recv` only when bytes are missing; with what `Inv` says of the bytes counted
  this leaves one reason to block, a client about to send.
  `ShortPacketStopsService`: once `Stuck` (the server has handed the enclave a packet
  too short for its routine), every connection without an answer stays without one,
  for any clients and calls: `nfv_sgx_short` in general.
* **NfvServiceProofs.** `ImplementsPacketService` (`Spec => ServesInOrder`).
  The invariant is `Inv` of `NfvServerProofs`: `ConnectionsInv` in it says which
  connections are in use, and `TypeOK` that no more is received than was sent, so
  that a count is of a complete packet (`CountRange`).  Each action is then a step
  of the service or a stutter: `Accept`, `Extend` and the `recv`s leave queue and
  verdicts as they are (`ReceivingHidden`), and every way out of
  `handle_connection` is `Decide` (`FinishDecides`).  `WaitersKept` comes from
  `QueueInv`: the connection being handled and the backlog are the undecided
  connections, each once; the sequence lemmas before it (`Waiting`, `OneEach`) say what
  appending a new one and leaving the first do to that.  A call that returns leftovers
  has found its connection answered or closed, which is what `Mistaken` asks for.
* **ClickElementProofs.** `ClickTypeCorrect`; `ImplementsCountingElement`
  (`ClickSpec => CountsUntilLost`).  Inside a push the invariant of
  `PacketSearchProofs` holds of the frame, and its lemmas are used for the steps of
  `Run`: the call's result comes from what was proved of the routine.
  `PushAdvances`: the packet that is long enough moves on with every step.
* **BenchmarkProofs.** `TypeCorrect`; `MeasuresWork`.  Added to the property are
  that nothing is done or printed of a piece of work that has not begun, and what
  the counter of each loop counts: in the second one calls, which are work as long
  as the enclave runs.  `MainShrinks` gives the variant of `main`: every step of it
  leaves fewer statements and rounds, and losing the enclave changes nothing of that.
* **LaunchTokenProofs.** `TypeCorrect`; `TokenSaved` and `TokenRepaired`, from
  `RepairInv(n, s)`: since a quiet time with `n` faults and `s` starts behind it, as
  long as nothing has failed and the file holds no good token, some program is in a
  place from which it will save one.  The properties themselves speak only of states in
  which all programs have started, and are not inductive.  `TokenStays` is from
  `StayInv`: once a good token is saved, every program reads it and none owes anything.
* **ServiceProviderProofs.** `TypeCorrect`; `KeysOrdered`; `ResultBound`;
  `AskedFirst`.  `KeysAgeInOrder` with `Fresh` (no stored key is from a key pair
  that is yet to be made) is inductive because the stores of an exchange come in
  one order and all are from one key pair.  `ResultBound` follows since the handler
  checks only SMK and VK, the first and the last key stored: with the keys between
  them ordered by age, they are of the same exchange.  `LastSucceeds` is about
  states at rest; `ContendInv` says of all others that, without faults, either
  nobody has taken the session and every supported client that began still has its
  message 1 before it, or the client that took it last is on its way to the secret.
  `AskedFirst` is from `AskedInv`: before a supported client has begun, the provider
  is not registered and no result is on its way to anybody.
  `NeverFails` is the safe half of `UndisturbedSucceeds`: `Proceeds` says, for each of
  the three requests and their responses, what the provider's globals must be for the
  client to go on (registered from the answer to message 0 on, its own whole exchange
  stored from that to message 1 on), and is inductive as long as the client is
  `Undisturbed`.  It needs `TurnInv`: no request is from a later attempt than its
  client's, one of the present attempt is the one its client waits for, and who waits
  for nothing has nothing to read.  `ImplementsAttestation` (`Spec => AttestsInTurn`) maps each action to
  a step of `Attestation`: message 1 takes or spoils the session, a restart spoils it,
  message 3 offers, reading a result delivers or loses.  `PromiseInv` supplies that
  requests are of attempts that were made and that whoever has the secret has come to
  an end; that the holder is
  the client the secret is offered to follows from what `Accepts` checks and from
  `KeysAgeInOrder` (`AcceptedKeys`).

*Only model-checked*: liveness (`CallsReturn`, `AllDecided`, `PacketsPass`,
`UndisturbedSucceeds`, `Ends`, termination in `CountsPrefixes`), which needs `ENABLED`
and fairness, out of the prover's reach.  What of it is safety is proved: no
connection is forgotten (`WaitersKept`), server and client do not wait for each other
(`NeverMutual`), nothing fails that must succeed (`NeverFails`), and loops advance
(`LoopAdvances`, `PushAdvances`, `MainShrinks`).

## 5. Not modelled

* `test_process_packet` and `BasicElementNoSGX::call_process_packet_no_sgx`: no
  caller.
* The Python verifier: `remote_verifier.py` does not parse.
* The compression function of SHA-256 and all cryptography: pure functions.
* A message of 2^29 bytes or more: `MessageDigest` promises nothing for it.
* `m_len + len` wrapping around in `update` for a `len` near 2^32.
* The response framing of `network_ra.cpp`, which does not compile.
* `stress_memory`, `ecall_stress_memory`, `ecall_enclave_sample` and the dead code
  in comments of the benchmark and of `push`: no caller.
* Sends that are cut short by a signal, and SIGPIPE, in `sendData`: the first leaves
  client and server waiting for each other, the second ends the Click process; no
  text of the repository speaks of either.
* `sample_crypto_wrappermodule.c`, the Python binding of a key derivation that is
  symbolic here, and scripts and data.

## 6. Plan

The order was that of importance: packet search (the work done for each packet),
service provider (the shared session), packet server, SHA256, launch token; then
the Click elements on top of the search, the packet service that server and clients
implement, contention for the session, and the benchmark; each with its theorems.
What a change of the code would call for next:

1. `network_ra`, once it compiles: the framing of request and response, and then
   the provider behind it, with messages dispatched by type.
2. `sendData` in `push`, once its call is no longer commented out: `ClickElement`
   composed with `PacketService` in place of the enclave.
3. The Python verifier, once it parses, as a second implementation of what
   `ServiceProvider` promises.
