---------------------------- MODULE MessageDigest ----------------------------
(***************************************************************************)
(* What a message digest promises: however a message is cut into pieces,   *)
(* the digest is the one of the whole message, padded with a one bit,      *)
(* zeros and its length in bits to a number of blocks, and one message     *)
(* after the other can be digested.  A digest is named by the bytes it is  *)
(* computed from, and a byte of a message by the number of the message and *)
(* its position.                                                           *)
(***************************************************************************)
EXTENDS Integers

CONSTANTS
    BlockSize,      \* bytes of a block: 64 for SHA-256
    LengthField,    \* bytes of the length that ends the padding: 8
    StoredLength,   \* bytes of it that the code writes: 4
    LengthLimit     \* a length in bits below it fits in those bytes: 2^32

VARIABLES
    nth,            \* number of the message
    absorbed,       \* number of its bytes so far
    digest

(* Bytes: of a message, a zero, 0x80, byte j of a length, anything.        *)
Message(m, i) == <<"message", m, i>>
Zero == <<"zero", 0>>
Mark == <<"mark", 0>>
LengthByte(bits, j) == <<"length", bits, j>>
Junk == <<"junk", 0>>

NoDigest == <<>>

IsMultiple(p) == \E q \in 0 .. p : p = q * BlockSize

(* n bytes of message m and their padding, p bytes in all.                 *)
Padded(m, n, p) ==
    [i \in 0 .. p - 1 |->
        IF i < n THEN Message(m, i)
        ELSE IF i = n THEN Mark
        ELSE IF i < p - StoredLength THEN Zero
        ELSE LengthByte(8 * n, i - (p - StoredLength))]

Init == nth = 0 /\ absorbed = 0 /\ digest = NoDigest

(* The next message, whether or not the one before was closed.             *)
Begin == nth' = nth + 1 /\ absorbed' = 0 /\ digest' = NoDigest

Absorb ==
    /\ digest = NoDigest /\ UNCHANGED <<nth, digest>>
    /\ absorbed' \in Nat /\ absorbed <= absorbed'

(* The padding is as short as it can be: it has room for the mark and the  *)
(* length, and is shorter than a block more.  Nothing is promised of a     *)
(* message whose length does not fit.                                      *)
Close ==
    /\ digest = NoDigest /\ UNCHANGED <<nth, absorbed>>
    /\ 8 * absorbed < LengthLimit =>
          \E p \in absorbed + LengthField + 1 .. absorbed + LengthField + BlockSize :
              IsMultiple(p) /\ digest' = Padded(nth, absorbed, p)

Next == Begin \/ Absorb \/ Close

Spec == Init /\ [][Next]_<<nth, absorbed, digest>>

=============================================================================
