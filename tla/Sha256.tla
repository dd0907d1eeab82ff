------------------------------- MODULE Sha256 -------------------------------
(***************************************************************************)
(* The class SHA256 that hashes packets inside and outside the enclave:    *)
(* how update buffers pieces of any length and how final pads.  The        *)
(* compression of a block is left abstract: the chaining value m_h stands  *)
(* for all the bytes that were compressed into it.                         *)
(***************************************************************************)
EXTENDS Integers

CONSTANTS
    BlockSize, LengthField, StoredLength, LengthLimit,  \* see MessageDigest
    MaxLength,      \* bound: longest message
    MaxUpdates,     \* bound: calls of update per message
    MaxMessages     \* bound: messages hashed with the object

ASSUME SizesAssumption ==
    /\ BlockSize \in Nat /\ LengthField \in Nat /\ StoredLength \in Nat
    /\ 0 < StoredLength /\ StoredLength <= LengthField
    /\ LengthField < BlockSize
    /\ LengthLimit \in Nat \ {0}
ASSUME BoundsAssumption ==
    MaxLength \in Nat /\ MaxUpdates \in Nat /\ MaxMessages \in Nat

VARIABLES
    pc,             \* "new", "open" (after init) or "done" (after final)
    m_h,            \* the bytes compressed so far
    m_block,        \* the buffer: two blocks
    m_len,          \* bytes in it
    m_tot_len,      \* bytes compressed
    nth,            \* number of the message
    updates,        \* calls of update for it
    digest          \* what final returned

vars == <<pc, m_h, m_block, m_len, m_tot_len, nth, updates, digest>>

Digest == INSTANCE MessageDigest WITH absorbed <- m_tot_len + m_len

-----------------------------------------------------------------------------

(* Compresses the first k bytes of some block, after n earlier ones.       *)
transform(h, n, block, k) ==
    [i \in 0 .. n + k - 1 |-> IF i < n THEN h[i] ELSE block[i - n]]

(* k bytes of the message, from some position, are copied to a block.      *)
memcpy(block, to, from, k) ==
    [i \in DOMAIN block |->
        IF i \in to .. to + k - 1 THEN Digest!Message(nth, from + (i - to))
        ELSE block[i]]

(* Nothing compressed yet.                                                 *)
Start == [i \in 0 .. -1 |-> Digest!Junk]

(* The member object is not initialised by its constructor.                *)
Init ==
    /\ pc = "new"
    /\ m_h = Start
    /\ m_block = [i \in 0 .. 2 * BlockSize - 1 |-> Digest!Junk]
    /\ m_len = 0 /\ m_tot_len = 0
    /\ nth = 0 /\ updates = 0
    /\ digest = Digest!NoDigest

(* A forgetful init: the bytes the last message left in the buffer count.  *)
InitKeepsLength ==
    /\ nth < MaxMessages
    /\ pc' = "open"
    /\ m_h' = Start /\ m_tot_len' = 0
    /\ nth' = nth + 1 /\ updates' = 0 /\ digest' = Digest!NoDigest
    /\ UNCHANGED <<m_block, m_len>>

(* The next message.  The object may have hashed others, and the buffer    *)
(* keeps what they have left in it.                                        *)
init ==
    /\ nth < MaxMessages
    /\ pc' = "open"
    /\ m_h' = Start /\ m_len' = 0 /\ m_tot_len' = 0
    /\ nth' = nth + 1 /\ updates' = 0 /\ digest' = Digest!NoDigest
    /\ UNCHANGED m_block

Smaller(x, y) == IF x < y THEN x ELSE y

(* Where update stops buffering: one byte late, and as it is.              *)
FitsBlock(n) == n <= BlockSize
StaysShort(n) == n < BlockSize

(* update(message, len) for the next len bytes of the message.             *)
update(len) ==
    LET from == m_tot_len + m_len
        rem_len == Smaller(len, BlockSize - m_len)
        filled == memcpy(m_block, m_len, from, rem_len)
        new_len == len - rem_len
        blocks == (new_len \div BlockSize) * BlockSize
        rest == new_len % BlockSize
        shifted_message == [i \in 0 .. blocks - 1 |-> Digest!Message(nth, from + rem_len + i)]
    IN  /\ pc = "open"
        /\ updates < MaxUpdates /\ from + len <= MaxLength
        /\ IF StaysShort(m_len + len)
             THEN /\ m_block' = filled
                  /\ m_len' = m_len + len
                  /\ UNCHANGED <<m_h, m_tot_len>>
             ELSE /\ m_h' = transform(transform(m_h, m_tot_len, filled, BlockSize),
                                      m_tot_len + BlockSize, shifted_message, blocks)
                  /\ m_block' = memcpy(filled, 0, from + rem_len + blocks, rest)
                  /\ m_len' = rest
                  /\ m_tot_len' = m_tot_len + blocks + BlockSize
        /\ updates' = updates + 1
        /\ UNCHANGED <<pc, nth, digest>>

(* Whether the mark and the length do not fit in the first block: with an  *)
(* off-by-one, and as it is.                                               *)
NeedsTwoLate(n) == BlockSize - LengthField < n
NeedsTwo(n) == BlockSize - (LengthField + 1) < n

(* Zeros, the mark over the first of them and the length over the last,    *)
(* which is computed in 32 bits.                                           *)
Pad(pm_len) ==
    LET len_b == (8 * (m_tot_len + m_len)) % LengthLimit
    IN  [i \in DOMAIN m_block |->
            IF i \in pm_len - StoredLength .. pm_len - 1
              THEN Digest!LengthByte(len_b, i - (pm_len - StoredLength))
            ELSE IF i = m_len THEN Digest!Mark
            ELSE IF i \in m_len .. pm_len - 1 THEN Digest!Zero
            ELSE m_block[i]]

final ==
    LET pm_len == IF NeedsTwo(m_len % BlockSize) THEN 2 * BlockSize ELSE BlockSize
    IN  /\ pc = "open"
        /\ pc' = "done"
        /\ m_block' = Pad(pm_len)
        /\ m_h' = transform(m_h, m_tot_len, m_block', pm_len)
        /\ digest' = m_h'
        /\ UNCHANGED <<m_len, m_tot_len, nth, updates>>

Next == init \/ (\E len \in 0 .. MaxLength : update(len)) \/ final

Spec == Init /\ [][Next]_vars

-----------------------------------------------------------------------------

(* The type invariant: the buffer is never full between two calls, and     *)
(* what is compressed are the whole blocks that are counted.               *)
TypeOK ==
    /\ pc \in {"new", "open", "done"}
    /\ m_len \in 0 .. BlockSize - 1
    /\ m_tot_len \in 0 .. MaxLength
    /\ m_tot_len % BlockSize = 0
    /\ pc # "done" => DOMAIN m_h = 0 .. m_tot_len - 1
    /\ DOMAIN m_block = 0 .. 2 * BlockSize - 1
    /\ nth \in 0 .. MaxMessages
    /\ updates \in 0 .. MaxUpdates

(* However a message is cut into pieces, and whatever the object hashed    *)
(* before, the digest is the one of the whole message with its shortest    *)
(* padding: at the edges of a block no byte is lost, repeated or taken     *)
(* from an earlier message, and the padding has none either.               *)
ImplementsDigest == Digest!Spec

=============================================================================
