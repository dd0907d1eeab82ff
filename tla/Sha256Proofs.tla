---------------------------- MODULE Sha256Proofs ----------------------------
(***************************************************************************)
(* The buffering of SHA256 implements a message digest, for every size of  *)
(* a block and of the length, and every way of cutting a message.          *)
(***************************************************************************)
EXTENDS Sha256, TLAPS

(* Division with remainder.                                                *)
LEMMA DivMod ==
    ASSUME NEW n \in Nat, NEW b \in Nat \ {0}
    PROVE  /\ n \div b \in Nat /\ n % b \in 0 .. b - 1
           /\ (n \div b) * b \in Nat
           /\ n = (n \div b) * b + (n % b)
<1>1. n \div b \in Nat /\ n % b \in 0 .. b - 1
  OBVIOUS
<1>2. (n \div b) * b \in Nat
  BY <1>1
<1>3. n = (n \div b) * b + (n % b)
  OBVIOUS
<1> QED
  BY <1>1, <1>2, <1>3

LEMMA UniqueRemainder ==
    ASSUME NEW b \in Nat \ {0}, NEW q \in Nat, NEW r \in 0 .. b - 1
    PROVE  (q * b + r) % b = r
<1> DEFINE n == q * b + r
<1>1. n \in Nat
  OBVIOUS
<1>2. n = q * b + r
  OBVIOUS
<1> HIDE DEF n
<1>3. n % b = r
  BY <1>1, <1>2
<1> QED
  BY <1>3 DEF n

(* Whole blocks and whole blocks are whole blocks.                         *)
LEMMA WholeBlocks ==
    ASSUME NEW b \in Nat \ {0}, NEW n \in Nat, NEW q \in Nat, n % b = 0
    PROVE  (n + q * b) % b = 0
<1> DEFINE m == n \div b
<1>1. m \in Nat /\ n = m * b
  BY DivMod
<1> HIDE DEF m
<1>2. n + q * b = (m + q) * b + 0
  BY <1>1
<1>3. m + q \in Nat /\ 0 \in 0 .. b - 1
  BY <1>1
<1>4. ((m + q) * b + 0) % b = 0
  BY <1>3, UniqueRemainder
<1> QED
  BY <1>2, <1>4

LEMMA NextBlocks ==
    ASSUME NEW b \in Nat \ {0}, NEW n \in Nat, NEW x \in Nat, n % b = 0
    PROVE  (n + (x \div b) * b + b) % b = 0
<1> DEFINE m == (x \div b) + 1
<1>1. x \div b \in Nat
  BY DivMod
<1>2. m \in Nat
  BY <1>1
<1>3. n + (x \div b) * b + b = n + m * b
  BY <1>1
<1> HIDE DEF m
<1>4. (n + m * b) % b = 0
  BY <1>2, WholeBlocks
<1> QED
  BY <1>3, <1>4

LEMMA MultipleIfWhole ==
    ASSUME NEW n \in Nat, n % BlockSize = 0
    PROVE  Digest!IsMultiple(n)
<1> DEFINE m == n \div BlockSize
<1>1. m \in Nat /\ n = m * BlockSize
  BY DivMod, SizesAssumption
<1> HIDE DEF m
<1>2. m \in 0 .. n
  BY <1>1, SizesAssumption
<1> QED
  BY <1>1, <1>2 DEF Digest!IsMultiple

-----------------------------------------------------------------------------

(* What was compressed, and then what is buffered, is the message so far.  *)
Compressed(m, h, n) == h = [i \in 0 .. n - 1 |-> Digest!Message(m, i)]

Buffered(m, block, from, n) ==
    /\ DOMAIN block = 0 .. 2 * BlockSize - 1
    /\ \A i \in 0 .. n - 1 : block[i] = Digest!Message(m, from + i)

Inv ==
    /\ TypeOK
    /\ m_tot_len + m_len <= MaxLength
    /\ Buffered(nth, m_block, m_tot_len, IF pc = "done" THEN 0 ELSE m_len)
    /\ pc # "done" => Compressed(nth, m_h, m_tot_len) /\ digest = Digest!NoDigest

(* Copying the next bytes of the message behind those that are buffered.   *)
LEMMA CopyBuffers ==
    ASSUME NEW block, NEW from \in Nat, NEW n \in Nat, NEW k \in Nat,
           n + k <= 2 * BlockSize, Buffered(nth, block, from, n)
    PROVE  Buffered(nth, memcpy(block, n, from + n, k), from, n + k)
<1> DEFINE c == memcpy(block, n, from + n, k)
<1>1. c = [i \in 0 .. 2 * BlockSize - 1 |->
              IF i \in n .. n + k - 1 THEN Digest!Message(nth, from + n + (i - n))
              ELSE block[i]]
  BY DEF memcpy, Buffered
<1> HIDE DEF c
<1>2. DOMAIN c = 0 .. 2 * BlockSize - 1
  BY <1>1
<1>3. ASSUME NEW i \in 0 .. n + k - 1 PROVE c[i] = Digest!Message(nth, from + i)
  <2>1. i \in 0 .. 2 * BlockSize - 1
    BY SizesAssumption
  <2>2. CASE i \in n .. n + k - 1
    <3>1. from + n + (i - n) = from + i
      OBVIOUS
    <3> QED
      BY <1>1, <2>1, <2>2, <3>1
  <2>3. CASE i \in 0 .. n - 1
    <3>1. block[i] = Digest!Message(nth, from + i)
      BY <2>3 DEF Buffered
    <3>2. i \notin n .. n + k - 1
      BY <2>3
    <3> QED
      BY <1>1, <2>1, <3>1, <3>2
  <2> QED
    BY <2>2, <2>3
<1>4. Buffered(nth, c, from, n + k)
  BY <1>2, <1>3 DEF Buffered
<1> QED
  BY <1>4 DEF c

(* Compressing bytes that go on with the message.                          *)
LEMMA TransformCompresses ==
    ASSUME NEW h, NEW block, NEW n \in Nat, NEW k \in Nat, Compressed(nth, h, n),
           \A i \in 0 .. k - 1 : block[i] = Digest!Message(nth, n + i)
    PROVE  Compressed(nth, transform(h, n, block, k), n + k)
<1> DEFINE e(i) == IF i < n THEN h[i] ELSE block[i - n]
<1>1. ASSUME NEW i \in 0 .. n + k - 1 PROVE e(i) = Digest!Message(nth, i)
  <2>1. CASE i < n
    <3>1. i \in 0 .. n - 1
      BY <2>1
    <3>2. h[i] = Digest!Message(nth, i)
      BY <3>1 DEF Compressed
    <3> QED
      BY <2>1, <3>2
  <2>2. CASE ~(i < n)
    <3>1. i - n \in 0 .. k - 1 /\ n + (i - n) = i
      BY <2>2
    <3> QED
      BY <2>2, <3>1
  <2> QED
    BY <2>1, <2>2
<1>2. transform(h, n, block, k) = [i \in 0 .. n + k - 1 |-> e(i)]
  BY DEF transform
<1> HIDE DEF e
<1> QED
  BY <1>1, <1>2 DEF Compressed

-----------------------------------------------------------------------------

LEMMA InitInv == Init => Inv
<1> SUFFICES ASSUME Init PROVE Inv
  OBVIOUS
<1>1. /\ pc = "new" /\ m_len = 0 /\ m_tot_len = 0 /\ nth = 0 /\ updates = 0
      /\ m_h = Start /\ digest = Digest!NoDigest
      /\ m_block = [i \in 0 .. 2 * BlockSize - 1 |-> Digest!Junk]
  BY DEF Init
<1>2. 0 % BlockSize = 0
  BY SizesAssumption
<1>3. TypeOK
  BY <1>1, <1>2, SizesAssumption, BoundsAssumption DEF TypeOK, Start
<1>4. Buffered(nth, m_block, 0, 0)
  BY <1>1 DEF Buffered
<1>5. Compressed(nth, m_h, 0)
  BY <1>1 DEF Compressed, Start
<1> QED
  BY <1>1, <1>3, <1>4, <1>5, BoundsAssumption DEF Inv

(* init starts again with nothing, whatever the buffer holds.             *)
LEMMA StartInv == ASSUME Inv, init PROVE Inv'
<1>1. /\ nth < MaxMessages /\ nth' = nth + 1 /\ updates' = 0
      /\ pc' = "open" /\ m_h' = Start /\ m_len' = 0 /\ m_tot_len' = 0
      /\ digest' = Digest!NoDigest /\ m_block' = m_block
  BY DEF init
<1>2. 0 % BlockSize = 0
  BY SizesAssumption
<1>3. TypeOK'
  BY <1>1, <1>2, SizesAssumption, BoundsAssumption DEF Inv, TypeOK, Start
<1>4. Buffered(nth', m_block', 0, 0)
  BY <1>1 DEF Inv, TypeOK, Buffered
<1>5. Compressed(nth', m_h', 0)
  BY <1>1 DEF Compressed, Start
<1> QED
  BY <1>1, <1>3, <1>4, <1>5, BoundsAssumption DEF Inv

(* update absorbs len more bytes.                                          *)
LEMMA UpdateInv ==
    ASSUME Inv, NEW len \in 0 .. MaxLength, update(len)
    PROVE  Inv' /\ m_tot_len' + m_len' = m_tot_len + m_len + len
<1> USE SizesAssumption, BoundsAssumption
<1> DEFINE from == m_tot_len + m_len
           rem_len == Smaller(len, BlockSize - m_len)
           filled == memcpy(m_block, m_len, from, rem_len)
           new_len == len - rem_len
           blocks == (new_len \div BlockSize) * BlockSize
           rest == new_len % BlockSize
           shifted_message ==
               [i \in 0 .. blocks - 1 |-> Digest!Message(nth, from + rem_len + i)]
<1>1. /\ pc = "open" /\ pc' = "open" /\ updates < MaxUpdates
      /\ updates' = updates + 1 /\ nth' = nth /\ digest' = digest
      /\ m_tot_len + m_len + len <= MaxLength
  BY DEF update
<1>2. /\ m_len \in 0 .. BlockSize - 1 /\ m_tot_len \in Nat
      /\ m_tot_len \in 0 .. MaxLength
      /\ m_tot_len % BlockSize = 0 /\ updates \in 0 .. MaxUpdates
      /\ nth \in 0 .. MaxMessages
      /\ Buffered(nth, m_block, m_tot_len, m_len) /\ Compressed(nth, m_h, m_tot_len)
      /\ digest = Digest!NoDigest
  BY <1>1 DEF Inv, TypeOK
<1>3. rem_len \in Nat /\ new_len \in Nat /\ m_len + rem_len <= BlockSize
  BY <1>2 DEF Smaller
<1>4. Buffered(nth, filled, m_tot_len, m_len + rem_len)
  <2> HIDE DEF rem_len
  <2> QED
    BY <1>2, <1>3, CopyBuffers
<1>5. CASE StaysShort(m_len + len)
  <2>1. /\ m_block' = filled /\ m_len' = m_len + len
        /\ UNCHANGED <<m_h, m_tot_len>>
    BY <1>5 DEF update
  <2>2. rem_len = len /\ m_len + len < BlockSize
    BY <1>2, <1>5 DEF StaysShort, Smaller
  <2> HIDE DEF filled, rem_len
  <2>3. Buffered(nth, m_block', m_tot_len, m_len')
    BY <1>4, <2>1, <2>2
  <2>4. DOMAIN m_block' = 0 .. 2 * BlockSize - 1
    BY <2>3 DEF Buffered
  <2>5. TypeOK'
    BY <1>1, <1>2, <2>1, <2>2, <2>4 DEF TypeOK, Compressed
  <2> QED
    BY <1>1, <1>2, <2>1, <2>2, <2>3, <2>5 DEF Inv
<1>6. CASE ~StaysShort(m_len + len)
  <2>1. /\ m_h' = transform(transform(m_h, m_tot_len, filled, BlockSize),
                            m_tot_len + BlockSize, shifted_message, blocks)
        /\ m_block' = memcpy(filled, 0, from + rem_len + blocks, rest)
        /\ m_len' = rest
        /\ m_tot_len' = m_tot_len + blocks + BlockSize
    BY <1>6 DEF update
  <2>2. m_len + rem_len = BlockSize /\ from + rem_len = m_tot_len + BlockSize
    BY <1>2, <1>6 DEF StaysShort, Smaller
  <2>3. /\ blocks \in Nat /\ rest \in 0 .. BlockSize - 1
        /\ new_len = blocks + rest
    <3>1. BlockSize \in Nat \ {0} /\ new_len \in Nat
      BY <1>3
    <3> HIDE DEF new_len
    <3> QED
      BY <3>1, DivMod
  <2>4. (m_tot_len + blocks + BlockSize) % BlockSize = 0
    <3>1. BlockSize \in Nat \ {0} /\ new_len \in Nat
      BY <1>3
    <3> HIDE DEF new_len
    <3> QED
      BY <1>2, <3>1, NextBlocks
  <2>5. \A i \in 0 .. blocks - 1 :
            shifted_message[i] = Digest!Message(nth, m_tot_len + BlockSize + i)
    BY <2>2
  <2>6. from = m_tot_len + m_len
    OBVIOUS
  <2>7. new_len = len - rem_len
    OBVIOUS
  <2> HIDE DEF from, filled, rem_len, blocks, rest, new_len, shifted_message
  <2> DEFINE once == transform(m_h, m_tot_len, filled, BlockSize)
  <2>8. Compressed(nth, once, m_tot_len + BlockSize)
    <3>1. \A i \in 0 .. BlockSize - 1 : filled[i] = Digest!Message(nth, m_tot_len + i)
      BY <1>4, <2>2 DEF Buffered
    <3> QED
      BY <1>2, <3>1, TransformCompresses
  <2> HIDE DEF once
  <2>9. Compressed(nth, m_h', m_tot_len + BlockSize + blocks)
    <3>1. m_h' = transform(once, m_tot_len + BlockSize, shifted_message, blocks)
      BY <2>1 DEF once
    <3> QED
      BY <1>2, <2>3, <2>5, <2>8, <3>1, TransformCompresses
  <2>10. m_tot_len + BlockSize + blocks = m_tot_len'
    BY <1>2, <2>1, <2>3
  <2>11. Buffered(nth, m_block', m_tot_len', m_len')
    <3>1. Buffered(nth, filled, m_tot_len', 0)
      BY <1>4 DEF Buffered
    <3>2. m_block' = memcpy(filled, 0, m_tot_len' + 0, rest)
      <4>1. from + rem_len + blocks = m_tot_len' + 0
        BY <1>2, <2>1, <2>2, <2>3
      <4> QED
        BY <2>1, <4>1
    <3>3. m_tot_len' \in Nat /\ rest \in Nat /\ 0 + rest = rest
          /\ 0 + rest <= 2 * BlockSize
      BY <1>2, <2>1, <2>3
    <3>4. Buffered(nth, memcpy(filled, 0, m_tot_len' + 0, rest), m_tot_len', 0 + rest)
      BY <3>1, <3>3, CopyBuffers
    <3> QED
      BY <2>1, <3>2, <3>3, <3>4
  <2>12. DOMAIN m_block' = 0 .. 2 * BlockSize - 1
    BY <2>11 DEF Buffered
  <2>13. m_tot_len' + m_len' = m_tot_len + m_len + len
    BY <1>2, <1>3, <2>1, <2>2, <2>3, <2>6, <2>7
  <2>14. m_tot_len' \in 0 .. MaxLength /\ m_len' \in 0 .. BlockSize - 1
    BY <1>1, <1>2, <2>1, <2>3, <2>13
  <2>15. DOMAIN m_h' = 0 .. m_tot_len' - 1 /\ Compressed(nth, m_h', m_tot_len')
    BY <2>9, <2>10 DEF Compressed
  <2>16. m_tot_len' % BlockSize = 0
    BY <2>1, <2>4
  <2>17. TypeOK'
    <3>1. updates' \in 0 .. MaxUpdates
      BY <1>1, <1>2
    <3> QED
      BY <1>1, <1>2, <2>12, <2>14, <2>15, <2>16, <3>1 DEF TypeOK
  <2> QED
    BY <1>1, <1>2, <2>11, <2>13, <2>15, <2>17 DEF Inv
<1> QED
  BY <1>5, <1>6

-----------------------------------------------------------------------------

(* The mark, the zeros and the length that final puts behind the buffered  *)
(* bytes make them the end of the padded message.                          *)
LEMMA PadPads ==
    ASSUME Inv, pc = "open", NEW pm_len \in Nat, pm_len <= 2 * BlockSize,
           m_len + LengthField + 1 <= pm_len,
           8 * (m_tot_len + m_len) < LengthLimit
    PROVE  transform(m_h, m_tot_len, Pad(pm_len), pm_len)
               = Digest!Padded(nth, m_tot_len + m_len, m_tot_len + pm_len)
<1> USE SizesAssumption
<1> DEFINE total == m_tot_len + m_len
           end == m_tot_len + pm_len
           len_b == (8 * total) % LengthLimit
           padding(i) == IF i = total THEN Digest!Mark
                         ELSE IF i < end - StoredLength THEN Digest!Zero
                         ELSE Digest!LengthByte(8 * total, i - (end - StoredLength))
           padded(i) == IF i < total THEN Digest!Message(nth, i) ELSE padding(i)
           out == Pad(pm_len)
           hashed(i) == IF i < m_tot_len THEN m_h[i] ELSE out[i - m_tot_len]
<1>1. /\ m_len \in 0 .. BlockSize - 1 /\ m_tot_len \in Nat
      /\ Buffered(nth, m_block, m_tot_len, m_len) /\ Compressed(nth, m_h, m_tot_len)
  BY BoundsAssumption DEF Inv, TypeOK
<1>2. len_b = 8 * total
  <2>1. 8 * total \in Nat /\ 8 * total \in 0 .. LengthLimit - 1
    BY <1>1
  <2>2. (0 * LengthLimit + 8 * total) % LengthLimit = 8 * total
    BY <2>1, UniqueRemainder, Zenon
  <2>3. 0 * LengthLimit + 8 * total = 8 * total
    BY <2>1
  <2> QED
    BY <2>2, <2>3
<1>3. out = [i \in 0 .. 2 * BlockSize - 1 |->
                  IF i \in pm_len - StoredLength .. pm_len - 1
                    THEN Digest!LengthByte(8 * total, i - (pm_len - StoredLength))
                  ELSE IF i = m_len THEN Digest!Mark
                  ELSE IF i \in m_len .. pm_len - 1 THEN Digest!Zero
                  ELSE m_block[i]]
  <2> HIDE DEF len_b
  <2>1. out = [i \in 0 .. 2 * BlockSize - 1 |->
                    IF i \in pm_len - StoredLength .. pm_len - 1
                      THEN Digest!LengthByte(len_b, i - (pm_len - StoredLength))
                    ELSE IF i = m_len THEN Digest!Mark
                    ELSE IF i \in m_len .. pm_len - 1 THEN Digest!Zero
                    ELSE m_block[i]]
    BY <1>1 DEF Pad, Buffered, len_b
  <2> QED
    BY <1>2, <2>1
<1> HIDE DEF len_b, out
<1>4. ASSUME NEW i \in 0 .. end - 1 PROVE hashed(i) = padded(i)
  <2>1. CASE i < m_tot_len
    <3>1. m_h[i] = Digest!Message(nth, i) /\ i < total
      BY <1>1, <2>1 DEF Compressed
    <3> QED
      BY <2>1, <3>1
  <2>2. CASE ~(i < m_tot_len)
    <3> DEFINE j == i - m_tot_len
    <3>1. j \in 0 .. pm_len - 1 /\ i = m_tot_len + j /\ (i < total <=> j < m_len)
      BY <1>1, <2>2
    <3>2. hashed(i) = out[j]
      BY <2>2
    <3> HIDE DEF j, hashed
    <3>3. CASE j < m_len
      <4>1. out[j] = m_block[j]
        BY <1>1, <1>3, <3>1, <3>3
      <4>2. m_block[j] = Digest!Message(nth, i)
        BY <1>1, <3>1, <3>3 DEF Buffered
      <4> QED
        BY <1>1, <3>1, <3>2, <3>3, <4>1, <4>2
    <3>4. CASE j = m_len
      <4>1. out[j] = Digest!Mark
        BY <1>1, <1>3, <3>4
      <4> QED
        BY <1>1, <3>1, <3>2, <3>4, <4>1
    <3>5. CASE m_len < j /\ j < pm_len - StoredLength
      <4>1. out[j] = Digest!Zero
        BY <1>1, <1>3, <3>1, <3>5
      <4> QED
        BY <1>1, <3>1, <3>2, <3>5, <4>1
    <3>6. CASE pm_len - StoredLength <= j
      <4>1. out[j] = Digest!LengthByte(8 * total, j - (pm_len - StoredLength))
        BY <1>1, <1>3, <3>1, <3>6
      <4>2. j - (pm_len - StoredLength) = i - (end - StoredLength)
        BY <1>1, <3>1
      <4>3. ~(i < total) /\ i # total /\ ~(i < end - StoredLength)
        BY <1>1, <3>1, <3>6
      <4> QED
        BY <3>2, <4>1, <4>2, <4>3
    <3> QED
      BY <1>1, <3>1, <3>3, <3>4, <3>5, <3>6
  <2> QED
    BY <2>1, <2>2
<1> DEFINE F == transform(m_h, m_tot_len, out, pm_len)
           G == Digest!Padded(nth, total, end)
<1>5. DOMAIN F = 0 .. end - 1 /\ DOMAIN G = 0 .. end - 1
  BY <1>1 DEF transform, Digest!Padded
<1>6. F = [i \in DOMAIN F |-> F[i]] /\ G = [i \in DOMAIN G |-> G[i]]
  BY <1>1 DEF transform, Digest!Padded
<1>7. ASSUME NEW i \in 0 .. end - 1 PROVE F[i] = G[i]
  <2>1. F[i] = hashed(i)
    BY <1>1 DEF transform
  <2>2. G[i] = padded(i)
    BY <1>1 DEF Digest!Padded
  <2> QED
    BY <1>4, <2>1, <2>2
<1> HIDE DEF F, G
<1>8. F = G
  BY <1>5, <1>6, <1>7
<1> QED
  BY <1>8 DEF F, G, out

(* How much final pads: to one or to two blocks.                           *)
LEMMA FinalPads ==
    ASSUME Inv, final
    PROVE  \E pm_len \in {BlockSize, 2 * BlockSize} :
               /\ m_block' = Pad(pm_len)
               /\ digest' = transform(m_h, m_tot_len, Pad(pm_len), pm_len)
               /\ m_len + LengthField + 1 <= pm_len
               /\ pm_len <= m_len + LengthField + BlockSize
<1> DEFINE pm_len == IF NeedsTwo(m_len % BlockSize)
                       THEN 2 * BlockSize ELSE BlockSize
<1>1. m_block' = Pad(pm_len)
      /\ digest' = transform(m_h, m_tot_len, Pad(pm_len), pm_len)
  BY DEF final
<1>2. m_len \in 0 .. BlockSize - 1 /\ BlockSize \in Nat \ {0}
  BY SizesAssumption DEF Inv, TypeOK
<1>3. m_len % BlockSize = m_len
  BY <1>2
<1>4. m_len + LengthField + 1 <= pm_len /\ pm_len <= m_len + LengthField + BlockSize
  BY <1>2, <1>3, SizesAssumption DEF NeedsTwo
<1>5. pm_len \in {BlockSize, 2 * BlockSize}
  OBVIOUS
<1> HIDE DEF pm_len
<1> QED
  BY <1>1, <1>4, <1>5

LEMMA FinalInv == ASSUME Inv, final PROVE Inv'
<1>1. /\ pc = "open" /\ pc' = "done"
      /\ UNCHANGED <<m_len, m_tot_len, nth, updates>>
  BY DEF final
<1>2. DOMAIN m_block' = 0 .. 2 * BlockSize - 1
  BY FinalPads DEF Pad, Inv, TypeOK
<1>3. TypeOK'
  BY <1>1, <1>2 DEF Inv, TypeOK
<1>4. Buffered(nth, m_block', m_tot_len', 0)
  BY <1>2 DEF Buffered
<1> QED
  BY <1>1, <1>3, <1>4 DEF Inv

LEMMA InvStep == Inv /\ [Next]_vars => Inv'
<1> SUFFICES ASSUME Inv, [Next]_vars PROVE Inv'
  OBVIOUS
<1>1. CASE UNCHANGED vars
  BY <1>1 DEF Inv, TypeOK, Buffered, Compressed, vars
<1> QED
  BY <1>1, StartInv, UpdateInv, FinalInv DEF Next

(* Between two calls the buffer is never full and whole blocks have been   *)
(* compressed.                                                             *)
THEOREM TypeCorrect == Spec => []TypeOK
<1>1. Inv => TypeOK
  BY DEF Inv
<1> QED
  BY <1>1, InitInv, InvStep, PTL DEF Spec

(* Whatever the sizes, however a message is cut and whatever the object    *)
(* hashed before, init, update and final compute the digest of the message.*)
THEOREM ComputesDigest == Spec => ImplementsDigest
<1>1. Init => Digest!Init
  BY DEF Init, Digest!Init
<1>2. Inv /\ [Next]_vars => [Digest!Next]_<<nth, m_tot_len + m_len, digest>>
  <2> SUFFICES ASSUME Inv, [Next]_vars
               PROVE  [Digest!Next]_<<nth, m_tot_len + m_len, digest>>
    OBVIOUS
  <2>0. m_tot_len \in Nat /\ m_len \in Nat
    BY SizesAssumption, BoundsAssumption DEF Inv, TypeOK
  <2>1. CASE UNCHANGED vars
    BY <2>1 DEF vars
  <2>2. ASSUME init PROVE Digest!Begin
    BY <2>2 DEF init, Digest!Begin
  <2>3. ASSUME NEW len \in 0 .. MaxLength, update(len)
        PROVE  Digest!Absorb
    <3>1. pc = "open" /\ digest' = digest /\ nth' = nth
      BY <2>3 DEF update
    <3>2. m_tot_len' + m_len' = m_tot_len + m_len + len
      BY <2>3, UpdateInv
    <3> QED
      BY <2>0, <3>1, <3>2, BoundsAssumption DEF Inv, Digest!Absorb
  <2>4. ASSUME final PROVE Digest!Close
    <3> DEFINE n == m_tot_len + m_len
    <3>1. digest = Digest!NoDigest /\ m_tot_len' + m_len' = n
          /\ nth' = nth
      BY <2>4 DEF final, Inv
    <3>2. ASSUME 8 * n < LengthLimit
          PROVE  \E p \in n + LengthField + 1 .. n + LengthField + BlockSize :
                     Digest!IsMultiple(p) /\ digest' = Digest!Padded(nth, n, p)
      <4>1. PICK pm_len \in {BlockSize, 2 * BlockSize} :
               /\ digest' = transform(m_h, m_tot_len, Pad(pm_len), pm_len)
               /\ m_len + LengthField + 1 <= pm_len
               /\ pm_len <= m_len + LengthField + BlockSize
        BY <2>4, FinalPads
      <4>2. pm_len \in Nat /\ pm_len <= 2 * BlockSize
        BY SizesAssumption
      <4>3. digest' = Digest!Padded(nth, n, m_tot_len + pm_len)
        BY <2>4, <3>2, <4>1, <4>2, PadPads DEF final
      <4>4. (m_tot_len + pm_len) % BlockSize = 0
        <5>1. BlockSize \in Nat \ {0} /\ m_tot_len % BlockSize = 0
              /\ 1 \in Nat /\ 2 \in Nat
          BY SizesAssumption DEF Inv, TypeOK
        <5>2. /\ (m_tot_len + 1 * BlockSize) % BlockSize = 0
              /\ (m_tot_len + 2 * BlockSize) % BlockSize = 0
          BY <2>0, <5>1, WholeBlocks, Zenon
        <5> QED
          BY <5>1, <5>2
      <4>5. Digest!IsMultiple(m_tot_len + pm_len)
        BY <2>0, <4>2, <4>4, MultipleIfWhole
      <4>6. m_tot_len + pm_len
                \in n + LengthField + 1 .. n + LengthField + BlockSize
        BY <2>0, <4>1, <4>2, SizesAssumption
      <4> QED
        BY <4>3, <4>5, <4>6
    <3> QED
      BY <3>1, <3>2 DEF Digest!Close
  <2> QED
    BY <2>1, <2>2, <2>3, <2>4 DEF Next, Digest!Next
<1> QED
  BY <1>1, <1>2, InitInv, InvStep, PTL DEF Spec, ImplementsDigest, Digest!Spec

=============================================================================
