---------------------------- MODULE CodecProofs -----------------------------
(***************************************************************************)
(* Proofs about the codecs: a reassembled handshake message is the one     *)
(* that was cut, steering data admits every joiner added to it, and a      *)
(* dataset reads as it was edited, saved and loaded.                       *)
(***************************************************************************)
EXTENDS Reassembly, DatasetEditing, SteeringData, SequenceTheorems, WellFoundedInduction, TLAPS

-----------------------------------------------------------------------------
(* Recursion on the natural numbers.                                         *)

(* A nonempty set of numbers has a least one.                                *)
LEMMA LeastNatural ==
    ASSUME NEW T \in SUBSET Nat, T # {}
    PROVE  \E m \in T : \A k \in T : m <= k
<1> DEFINE R == OpToRel(<, Nat)
<1>1. IsWellFoundedOn(R, Nat)
  BY NatLessThanWellFounded
<1>2. \A y, x \in Nat : y < x => <<y, x>> \in R
  BY DEF OpToRel
<1> HIDE DEF R
<1>3. PICK x \in T : \A y \in T : ~ (<<y, x>> \in R)
  BY <1>1, WFMin
<1>4. \A k \in T : x <= k
  <2> SUFFICES ASSUME NEW k \in T, ~(x <= k) PROVE FALSE
    OBVIOUS
  <2>1. k < x /\ k \in Nat /\ x \in Nat
    OBVIOUS
  <2> QED
    BY <1>2, <1>3, <2>1
<1> QED
  BY <1>4

(* A set that holds 0 and, up to n, every successor of its members.          *)
LEMMA CountingUp ==
    ASSUME NEW n \in Nat, NEW T, 0 \in T, \A k \in 1..n : k - 1 \in T => k \in T
    PROVE  \A k \in 0..n : k \in T
<1> SUFFICES ASSUME NEW j \in 0..n, j \notin T PROVE FALSE
  OBVIOUS
<1> DEFINE C == {k \in 0..n : k \notin T}
<1>1. PICK m \in C : \A k \in C : m <= k
  <2>1. C \in SUBSET Nat /\ C # {}
    OBVIOUS
  <2> QED
    BY <2>1, LeastNatural
<1>2. m # 0 /\ m \in 1..n
  OBVIOUS
<1>3. m - 1 \notin C /\ m - 1 \in 0..n
  BY <1>1, <1>2
<1> QED
  BY <1>2, <1>3

Stepping(n, V, G) == G \in [(1..n) \X V -> V]
Iterated(n, V, c, G, f) ==
    f \in [0..n -> V] /\ f[0] = c /\ \A k \in 1..n : f[k] = G[<<k, f[k - 1]>>]

(* A step that is a function of the index and of the last value iterates.    *)
LEMMA Iterates ==
    ASSUME NEW n \in Nat, NEW V, NEW c \in V, NEW G, Stepping(n, V, G)
    PROVE  \E f : Iterated(n, V, c, G, f)
<1> DEFINE T == {m \in 0..n : \E f \in [0..m -> V] :
                               f[0] = c /\ \A k \in 1..m : f[k] = G[<<k, f[k - 1]>>]}
<1>0. G \in [(1..n) \X V -> V]
  BY DEF Stepping
<1>1. 0 \in T
  <2>1. [k \in 0..0 |-> c] \in [0..0 -> V] /\ [k \in 0..0 |-> c][0] = c
    OBVIOUS
  <2>2. 1..0 = {} /\ 0 \in 0..n
    OBVIOUS
  <2> QED
    BY <2>1, <2>2
<1>2. ASSUME NEW m \in 1..n, m - 1 \in T
      PROVE  m \in T
  <2>1. PICK f \in [0..(m - 1) -> V] :
            f[0] = c /\ \A k \in 1..(m - 1) : f[k] = G[<<k, f[k - 1]>>]
    BY <1>2
  <2>2. m \in Nat /\ m \in 0..n /\ m > 0
    OBVIOUS
  <2> DEFINE v == G[<<m, f[m - 1]>>]
             g == [k \in 0..m |-> IF k < m THEN f[k] ELSE v]
  <2>3. f[m - 1] \in V
    BY <2>1, <2>2
  <2>4. v \in V
    BY <1>0, <2>3
  <2> HIDE DEF v
  <2>5. \A k \in 0..m : k < m => k \in 0..(m - 1)
    BY <2>2
  <2>6. g \in [0..m -> V]
    BY <2>1, <2>4, <2>5
  <2>7. g[0] = c
    BY <2>1, <2>2
  <2>8. ASSUME NEW k \in 1..m
        PROVE  g[k] = G[<<k, g[k - 1]>>]
    <3>1. k - 1 \in 0..m /\ k - 1 < m /\ k \in 0..m
      BY <2>2
    <3>2. g[k - 1] = f[k - 1]
      BY <3>1
    <3>3. CASE k < m
      <4>1. k \in 1..(m - 1)
        BY <2>2, <3>3
      <4>2. g[k] = f[k]
        BY <3>1, <3>3
      <4> QED
        BY <2>1, <3>2, <4>1, <4>2
    <3>4. CASE k = m
      <4>1. g[k] = v
        BY <3>1, <3>4, <2>2
      <4> QED
        BY <3>2, <3>4, <4>1 DEF v
    <3> QED
      BY <3>3, <3>4, <2>2
  <2> HIDE DEF g
  <2> QED
    BY <2>2, <2>6, <2>7, <2>8
<1>3. n \in T
  <2>1. \A m \in 1..n : m - 1 \in T => m \in T
    BY <1>2
  <2> HIDE DEF T
  <2> QED
    BY <1>1, <2>1, CountingUp
<1> QED
  BY <1>3 DEF Iterated

-----------------------------------------------------------------------------
(* Bits.                                                                     *)

(* The weights of the bits of a byte.                                        *)
LEMMA Weights ==
    /\ Weight[1] = 1 /\ Weight[2] = 2 /\ Weight[3] = 4 /\ Weight[4] = 8
    /\ Weight[5] = 16 /\ Weight[6] = 32 /\ Weight[7] = 64 /\ Weight[8] = 128
BY SMTT(20) DEF Weight

(* Adding a bit that a byte lacks sets it and clears no other.               *)
LEMMA AddedBit ==
    ASSUME NEW b \in Byte, NEW n \in 0..7, ~HasBit(b, n)
    PROVE  /\ b + Weight[n + 1] \in Byte
           /\ HasBit(b + Weight[n + 1], n)
           /\ \A k \in 0..7 : HasBit(b, k) => HasBit(b + Weight[n + 1], k)
<1>0. b \in Nat /\ b <= 255
  BY SMTT(20) DEF Byte
<1>1. \A x \in Nat : HasBit(x, 0) <=> x % 2 = 1
  BY Weights, SMTT(20) DEF HasBit
<1>2. \A x \in Nat : HasBit(x, 1) <=> (x \div 2) % 2 = 1
  BY Weights, SMTT(20) DEF HasBit
<1>3. \A x \in Nat : HasBit(x, 2) <=> (x \div 4) % 2 = 1
  BY Weights, SMTT(20) DEF HasBit
<1>4. \A x \in Nat : HasBit(x, 3) <=> (x \div 8) % 2 = 1
  BY Weights, SMTT(20) DEF HasBit
<1>5. \A x \in Nat : HasBit(x, 4) <=> (x \div 16) % 2 = 1
  BY Weights, SMTT(20) DEF HasBit
<1>6. \A x \in Nat : HasBit(x, 5) <=> (x \div 32) % 2 = 1
  BY Weights, SMTT(20) DEF HasBit
<1>7. \A x \in Nat : HasBit(x, 6) <=> (x \div 64) % 2 = 1
  BY Weights, SMTT(20) DEF HasBit
<1>8. \A x \in Nat : HasBit(x, 7) <=> (x \div 128) % 2 = 1
  BY Weights, SMTT(20) DEF HasBit
<1> DEFINE Sets(w, m) == /\ b + w \in Byte /\ b + w \in Nat
                         /\ HasBit(b + w, m)
                         /\ HasBit(b, 0) => HasBit(b + w, 0)
                         /\ HasBit(b, 1) => HasBit(b + w, 1)
                         /\ HasBit(b, 2) => HasBit(b + w, 2)
                         /\ HasBit(b, 3) => HasBit(b + w, 3)
                         /\ HasBit(b, 4) => HasBit(b + w, 4)
                         /\ HasBit(b, 5) => HasBit(b + w, 5)
                         /\ HasBit(b, 6) => HasBit(b + w, 6)
                         /\ HasBit(b, 7) => HasBit(b + w, 7)
<1>10. ~HasBit(b, 0) => Sets(1, 0)
  BY <1>0, <1>1, <1>2, <1>3, <1>4, <1>5, <1>6, <1>7, <1>8, SMTT(60) DEF Byte
<1>11. ~HasBit(b, 1) => Sets(2, 1)
  BY <1>0, <1>1, <1>2, <1>3, <1>4, <1>5, <1>6, <1>7, <1>8, SMTT(60) DEF Byte
<1>12. ~HasBit(b, 2) => Sets(4, 2)
  BY <1>0, <1>1, <1>2, <1>3, <1>4, <1>5, <1>6, <1>7, <1>8, SMTT(60) DEF Byte
<1>13. ~HasBit(b, 3) => Sets(8, 3)
  BY <1>0, <1>1, <1>2, <1>3, <1>4, <1>5, <1>6, <1>7, <1>8, SMTT(60) DEF Byte
<1>14. ~HasBit(b, 4) => Sets(16, 4)
  BY <1>0, <1>1, <1>2, <1>3, <1>4, <1>5, <1>6, <1>7, <1>8, SMTT(60) DEF Byte
<1>15. ~HasBit(b, 5) => Sets(32, 5)
  BY <1>0, <1>1, <1>2, <1>3, <1>4, <1>5, <1>6, <1>7, <1>8, SMTT(60) DEF Byte
<1>16. ~HasBit(b, 6) => Sets(64, 6)
  BY <1>0, <1>1, <1>2, <1>3, <1>4, <1>5, <1>6, <1>7, <1>8, SMTT(60) DEF Byte
<1>17. ~HasBit(b, 7) => Sets(128, 7)
  BY <1>0, <1>1, <1>2, <1>3, <1>4, <1>5, <1>6, <1>7, <1>8, SMTT(60) DEF Byte
<1> HIDE DEF Sets
<1>20. Sets(Weight[n + 1], n)
  BY <1>10, <1>11, <1>12, <1>13, <1>14, <1>15, <1>16, <1>17, Weights, SMTT(20)
<1> QED
  BY <1>20, SMTT(20) DEF Sets

(* An exclusive or is a number.                                              *)
LEMMA XorNat ==
    ASSUME NEW m \in Nat, NEW n \in Nat
    PROVE  Xor[<<m, n>>] \in Nat
<1> DEFINE b == [i \in 1..16 |-> (BitOf(m, i) + BitOf(n, i)) % 2]
<1>1. \A i \in 1..16 : b[i] \in Nat
  <2>1. \A i \in 1..16 : Weight[i] \in Nat /\ Weight[i] > 0
    BY SMTT(20) DEF Weight
  <2>2. \A i \in 1..16 : BitOf(m, i) \in Nat /\ BitOf(n, i) \in Nat
    BY <2>1, SMTT(20) DEF BitOf
  <2> QED
    BY <2>2, SMTT(20)
<1>2. Xor[<<m, n>>] = Number(b)
  BY DEF Xor
<1> HIDE DEF b
<1>3. Number(b) \in Nat
  <2>1. /\ b[1] \in Nat /\ b[2] \in Nat /\ b[3] \in Nat /\ b[4] \in Nat
        /\ b[5] \in Nat /\ b[6] \in Nat /\ b[7] \in Nat /\ b[8] \in Nat
        /\ b[9] \in Nat /\ b[10] \in Nat /\ b[11] \in Nat /\ b[12] \in Nat
        /\ b[13] \in Nat /\ b[14] \in Nat /\ b[15] \in Nat /\ b[16] \in Nat
    BY <1>1, SMTT(20)
  <2> HIDE DEF b
  <2>2. \A x, y \in Nat : x + y \in Nat
    OBVIOUS
  <2> DEFINE s4 == b[1] + 2 * b[2] + 4 * b[3] + 8 * b[4]
             s8 == s4 + 16 * b[5] + 32 * b[6] + 64 * b[7] + 128 * b[8]
             s12 == s8 + 256 * b[9] + 512 * b[10] + 1024 * b[11] + 2048 * b[12]
             s16 == s12 + 4096 * b[13] + 8192 * b[14] + 16384 * b[15] + 32768 * b[16]
  <2>3. s4 \in Nat
    BY <2>1, SMTT(20)
  <2> HIDE DEF s4
  <2>4. s8 \in Nat
    BY <2>1, <2>3, SMTT(20)
  <2> HIDE DEF s8
  <2>5. s12 \in Nat
    BY <2>1, <2>4, SMTT(20)
  <2> HIDE DEF s12
  <2>6. s16 \in Nat
    BY <2>1, <2>5, SMTT(20)
  <2> QED
    BY <2>6, SMTT(20) DEF Number, s4, s8, s12, s16
<1> QED
  BY <1>2, <1>3

(* The checksum of a byte string is a number.                                *)
LEMMA CrcNat ==
    ASSUME NEW poly \in Nat, NEW bytes \in Seq(Nat)
    PROVE  crc16(poly, bytes) \in Nat
<1> DEFINE n == 8 * Len(bytes)
           Shift[x \in Nat] == IF x >= 32768 THEN Xor[<<(2 * x) % 65536, poly>>] ELSE 2 * x
           in(k, x) == IF k % 8 = 1 THEN Xor[<<x, 256 * bytes[(k + 7) \div 8]>>] ELSE x
           crc == CHOOSE f : f = [k \in 0..n |-> IF k = 0 THEN 0 ELSE Shift[in(k, f[k - 1])]]
           G == [p \in (1..n) \X Nat |-> Shift[in(p[1], p[2])]]
<1>0. n \in Nat /\ Len(bytes) \in Nat
  OBVIOUS
<1>1. \A x \in Nat : Shift[x] \in Nat
  <2>1. \A x \in Nat : (2 * x) % 65536 \in Nat
    BY SMTT(20)
  <2> QED
    BY <2>1, XorNat, SMTT(20)
<1>2. \A k \in 1..n, x \in Nat : in(k, x) \in Nat
  <2>1. \A k \in 1..n : (k + 7) \div 8 \in 1..Len(bytes)
    BY <1>0, SMTT(20)
  <2>2. \A k \in 1..n : 256 * bytes[(k + 7) \div 8] \in Nat
    BY <2>1, SMTT(20)
  <2> QED
    BY <2>2, XorNat, SMTT(20)
<1>3. crc16(poly, bytes) = crc[n]
  BY DEF crc16
<1> HIDE DEF in, Shift, n
<1>4. \A k \in 1..n, x \in Nat : Shift[in(k, x)] \in Nat
  BY <1>1, <1>2
<1>5. Stepping(n, Nat, G)
  BY <1>4 DEF Stepping
<1>6. \A k \in 1..n, x \in Nat : G[<<k, x>>] = Shift[in(k, x)]
  OBVIOUS
<1> HIDE DEF G
<1>7. PICK f : Iterated(n, Nat, 0, G, f)
  <2>1. 0 \in Nat
    OBVIOUS
  <2> QED
    BY <1>0, <1>5, <2>1, Iterates, Zenon
<1>7a. f \in [0..n -> Nat] /\ f[0] = 0 /\ \A k \in 1..n : f[k] = G[<<k, f[k - 1]>>]
  BY <1>7 DEF Iterated
<1>8. f = [k \in 0..n |-> IF k = 0 THEN 0 ELSE Shift[in(k, f[k - 1])]]
  <2>1. ASSUME NEW k \in 0..n
        PROVE  f[k] = IF k = 0 THEN 0 ELSE Shift[in(k, f[k - 1])]
    <3>1. CASE k = 0
      BY <1>7a, <3>1
    <3>2. CASE k # 0
      <4>1. k \in 1..n /\ k - 1 \in 0..n
        BY <1>0, <3>2
      <4>2. f[k - 1] \in Nat
        BY <1>7a, <4>1
      <4> QED
        BY <1>6, <1>7a, <3>2, <4>1, <4>2
    <3> QED
      BY <3>1, <3>2
  <2>2. f = [k \in 0..n |-> f[k]]
    BY <1>7a
  <2> QED
    BY <2>1, <2>2
<1>9. crc = [k \in 0..n |-> IF k = 0 THEN 0 ELSE Shift[in(k, crc[k - 1])]]
  BY <1>8
<1> HIDE DEF crc
<1> DEFINE T == {k \in 0..n : crc[k] \in Nat}
<1>10. 0 \in T
  <2>1. 0 \in 0..n
    BY <1>0
  <2> QED
    BY <1>9, <2>1
<1>11. ASSUME NEW k \in 1..n, k - 1 \in T
       PROVE  k \in T
  <2>1. k \in 0..n /\ k # 0
    BY <1>0
  <2>2. crc[k - 1] \in Nat
    BY <1>11
  <2>3. crc[k] = Shift[in(k, crc[k - 1])]
    BY <1>9, <2>1
  <2> QED
    BY <1>4, <2>1, <2>2, <2>3
<1>12. n \in T
  <2>1. \A k \in 1..n : k - 1 \in T => k \in T
    BY <1>11
  <2> HIDE DEF T
  <2>2. n \in 0..n
    BY <1>0
  <2> QED
    BY <1>0, <1>10, <2>1, <2>2, CountingUp
<1> QED
  BY <1>3, <1>12

-----------------------------------------------------------------------------
(* The filter.                                                               *)

Filter == [1..16 -> Byte]

(* The bit of a filter that a hash selects.                                  *)
HasFilterBit(F, bit) == HasBit(F[16 - bit \div 8], bit % 8)

(* set_bit sets the bit and clears none.                                     *)
LEMMA SetBit ==
    ASSUME NEW F \in Filter, NEW bit \in 0..127
    PROVE  /\ set_bit(F, bit) \in Filter
           /\ HasFilterBit(set_bit(F, bit), bit)
           /\ \A b \in 0..127 : HasFilterBit(F, b) => HasFilterBit(set_bit(F, bit), b)
<1> DEFINE i == 16 - bit \div 8
           n == bit % 8
           v == IF HasBit(F[i], n) THEN F[i] ELSE F[i] + Weight[n + 1]
           g == [F EXCEPT ![i] = v]
<1>1. \A b \in 0..127 : 16 - b \div 8 \in 1..16 /\ b % 8 \in 0..7
  BY SMTT(20)
<1>2. i \in 1..16 /\ n \in 0..7
  BY <1>1
<1>3. Len(F) = 16
  BY SMTT(20) DEF Filter
<1>4. set_bit(F, bit) = g
  BY <1>3, SMTT(20) DEF set_bit
<1> HIDE DEF i, n
<1>5. F[i] \in Byte
  BY <1>2 DEF Filter
<1>6. v \in Byte /\ HasBit(v, n) /\ \A k \in 0..7 : HasBit(F[i], k) => HasBit(v, k)
  <2>1. CASE HasBit(F[i], n)
    BY <1>5, <2>1
  <2>2. CASE ~HasBit(F[i], n)
    BY <1>2, <1>5, <2>2, AddedBit
  <2> QED
    BY <2>1, <2>2
<1> HIDE DEF v
<1>7. g \in Filter /\ g[i] = v /\ \A k \in 1..16 : k # i => g[k] = F[k]
  BY <1>2, <1>6, SMTT(20) DEF Filter
<1> HIDE DEF g
<1>8. HasFilterBit(g, bit)
  BY <1>6, <1>7 DEF HasFilterBit, i, n
<1>9. ASSUME NEW b \in 0..127, HasFilterBit(F, b)
      PROVE  HasFilterBit(g, b)
  <2> DEFINE j == 16 - b \div 8
             k == b % 8
  <2>1. j \in 1..16 /\ k \in 0..7 /\ HasBit(F[j], k)
    BY <1>1, <1>9 DEF HasFilterBit
  <2> HIDE DEF j, k
  <2>2. HasBit(g[j], k)
    BY <1>6, <1>7, <2>1
  <2> QED
    BY <2>2 DEF HasFilterBit, j, k
<1> QED
  BY <1>4, <1>7, <1>8, <1>9

(* A filter is a string of sixteen bytes.                                    *)
LEMMA FilterLength ==
    /\ \A F \in Filter : F \in Seq(Byte) /\ Len(F) = 16
    /\ \A q \in Seq(Byte) : Len(q) = 16 => q \in Filter
<1>1. 16 \in Nat
  BY SMTT(20)
<1>2. ASSUME NEW F \in [1..16 -> Byte]
      PROVE  F \in Seq(Byte) /\ Len(F) = 16
  <2>1. F \in Seq(Byte)
    BY <1>1, SeqDef, Zenon
  <2>2. Len(F) = 16
    BY SMTT(20)
  <2> QED
    BY <2>1, <2>2
<1>3. ASSUME NEW q \in Seq(Byte), Len(q) = 16
      PROVE  q \in [1..16 -> Byte]
  BY <1>3, LenProperties, Zenon
<1> QED
  BY <1>2, <1>3, Zenon DEF Filter

(* The hash of a joiner, and the bit that it selects.                        *)
CCITT == 4129
ANSI == 32773
HashBit(poly, j) == crc16(poly, j) % 128

(* A joiner that the filter admits: the bits of both hashes are set.         *)
Admits(F, j) == HasFilterBit(F, HashBit(CCITT, j)) /\ HasFilterBit(F, HashBit(ANSI, j))

(* Both hashes of a joiner select bits of a filter.                          *)
LEMMA HashBits ==
    ASSUME NEW j \in Seq(Byte)
    PROVE  HashBit(CCITT, j) \in 0..127 /\ HashBit(ANSI, j) \in 0..127
<1>1. Byte \subseteq Nat
  BY SMTT(20) DEF Byte
<1>2. j \in Seq(Nat)
  <2>1. Len(j) \in Nat /\ j \in [1..Len(j) -> Byte]
    BY LenProperties
  <2>2. j \in [1..Len(j) -> Nat]
    BY <1>1, <2>1
  <2> QED
    BY <2>1, <2>2, SMTT(20)
<1>3. CCITT \in Nat /\ ANSI \in Nat
  BY SMTT(20) DEF CCITT, ANSI
<1>4. crc16(CCITT, j) \in Nat /\ crc16(ANSI, j) \in Nat
  BY <1>2, <1>3, CrcNat, Zenon
<1>5. \A x \in Nat : x % 128 \in 0..127
  BY SMTT(20)
<1> QED
  BY <1>4, <1>5 DEF HashBit

(* Adding a joiner to a full-length filter sets its two bits.                *)
LEMMA BloomFilter ==
    ASSUME NEW F \in Filter, NEW j
    PROVE  compute_bloom_filter(F, j) = set_bit(set_bit(F, HashBit(CCITT, j)), HashBit(ANSI, j))
<1>1. Len(F) = 16
  BY FilterLength
<1>2. 8 * Len(F) = 128
  BY <1>1, SMTT(20)
<1> QED
  BY <1>2, SMTT(20) DEF compute_bloom_filter, bloom_bit, HashBit, CCITT, ANSI

(* It admits the joiner and keeps the others.                                *)
LEMMA AddedToFilter ==
    ASSUME NEW F \in Filter, NEW j \in Seq(Byte)
    PROVE  /\ compute_bloom_filter(F, j) \in Filter
           /\ Admits(compute_bloom_filter(F, j), j)
           /\ \A k \in Seq(Byte) : Admits(F, k) => Admits(compute_bloom_filter(F, j), k)
<1> DEFINE b1 == HashBit(CCITT, j)
           b2 == HashBit(ANSI, j)
           once == set_bit(F, b1)
           twice == set_bit(once, b2)
<1>1. b1 \in 0..127 /\ b2 \in 0..127
  BY HashBits
<1>3. compute_bloom_filter(F, j) = twice
  BY BloomFilter
<1> HIDE DEF b1, b2
<1>4. /\ once \in Filter /\ HasFilterBit(once, b1)
      /\ \A b \in 0..127 : HasFilterBit(F, b) => HasFilterBit(once, b)
  BY <1>1, SetBit, ZenonT(30), SMTT(20)
<1> HIDE DEF once
<1>5. /\ twice \in Filter /\ HasFilterBit(twice, b2)
      /\ \A b \in 0..127 : HasFilterBit(once, b) => HasFilterBit(twice, b)
  BY <1>1, <1>4, SetBit, ZenonT(30), SMTT(20)
<1> HIDE DEF twice
<1>6. Admits(twice, j)
  BY <1>1, <1>4, <1>5 DEF Admits, b1, b2
<1>7. \A k \in Seq(Byte) : Admits(F, k) => Admits(twice, k)
  BY <1>4, <1>5, HashBits, Zenon DEF Admits
<1> QED
  BY <1>3, <1>5, <1>6, <1>7

SteeringInv ==
    part = "steering" =>
        /\ held \in Seq(Byte)
        /\ meant \subseteq Joiners
        /\ meant # {} => held \in Filter /\ \A j \in meant : Admits(held, j)

(* Steering data starts without joiners.                                     *)
LEMMA SteeringStart == InitSteering => SteeringInv
BY FilterAssumption DEF InitSteering, SteeringInv

(* A joiner added to steering data is admitted and shuts out no other.       *)
LEMMA AddJoinerStep ==
    ASSUME SteeringInv, part = "steering", NEW j \in Joiners, AddJoiner(j)
    PROVE  SteeringInv'
<1> DEFINE F == IF Len(held) # 16 THEN Repeat(0, 16) ELSE held
<1>1. held' = compute_bloom_filter(F, j) /\ meant' = meant \cup {j}
  BY DEF AddJoiner, add_joiner_to_steering_data, MAX_STEERING_DATA_LEN
<1>2. held \in Seq(Byte) /\ meant \subseteq Joiners
  BY DEF SteeringInv
<1>3. F \in Filter
  <2>1. CASE Len(held) # 16
    <3>1. F = [i \in 1..16 |-> 0]
      BY <2>1 DEF Repeat
    <3>2. 0 \in Byte
      BY SMTT(20) DEF Byte
    <3> QED
      BY <3>1, <3>2 DEF Filter
  <2>2. CASE Len(held) = 16
    BY <1>2, <2>2, FilterLength
  <2> QED
    BY <2>1, <2>2
<1>4. meant # {} => F = held
  <2>1. held \in Filter => Len(held) = 16
    BY FilterLength
  <2> QED
    BY <2>1 DEF SteeringInv
<1> HIDE DEF F
<1>5. j \in Seq(Byte) /\ meant' \subseteq Joiners
  BY <1>1, <1>2, JoinerAssumption
<1>6. /\ held' \in Filter /\ Admits(held', j)
      /\ \A k \in Seq(Byte) : Admits(F, k) => Admits(held', k)
  BY <1>1, <1>3, <1>5, AddedToFilter
<1>7. \A k \in meant' : Admits(held', k)
  <2>1. \A k \in meant : Admits(F, k) /\ k \in Seq(Byte)
    BY <1>2, <1>4, JoinerAssumption DEF SteeringInv
  <2> QED
    BY <1>1, <1>6, <2>1
<1>8. held' \in Seq(Byte)
  BY <1>6, FilterLength
<1> QED
  BY <1>5, <1>6, <1>7, <1>8 DEF SteeringInv

(* Every step keeps the invariant.                                           *)
LEMMA SteeringStep == SteeringInv /\ [Steer]_vars => SteeringInv'
<1> SUFFICES ASSUME SteeringInv, [Steer]_vars PROVE SteeringInv'
  OBVIOUS
<1>1. CASE UNCHANGED vars
  BY <1>1 DEF vars, SteeringInv
<1>2. CASE Steer
  <2>1. PICK j \in Joiners : AddJoiner(j)
    BY <1>2 DEF Steer
  <2>2. part = "steering"
    BY <2>1 DEF AddJoiner
  <2> QED
    BY <2>1, <2>2, AddJoinerStep
<1> QED
  BY <1>1, <1>2

(* The invariant says that every joiner that was added is admitted.          *)
LEMMA SteeringConsequence == SteeringInv => SteeringAdmits
<1> SUFFICES ASSUME SteeringInv, part = "steering", NEW j \in meant
             PROVE  \A poly \in {4129, 32773} :
                        LET bit == bloom_bit(poly, held, j)
                        IN  HasBit(held[Len(held) - bit \div 8], bit % 8)
  BY DEF SteeringAdmits
<1>1. held \in Filter /\ Admits(held, j)
  BY DEF SteeringInv
<1>2. Len(held) = 16
  BY <1>1, SMTT(20) DEF Filter
<1>3. \A poly : bloom_bit(poly, held, j) = HashBit(poly, j)
  BY <1>2, SMTT(20) DEF bloom_bit, HashBit
<1>4. \A poly \in {CCITT, ANSI} : HasFilterBit(held, HashBit(poly, j))
  BY <1>1 DEF Admits
<1> QED
  BY <1>2, <1>3, <1>4, SMTT(20) DEF HasFilterBit, CCITT, ANSI

(* add_joiner_to_steering_data admits every joiner that was ever added, to   *)
(* whatever steering data it began with (pskc.rs).                           *)
THEOREM SteeringStaysOpen == SteeringSpec => []SteeringAdmits
BY SteeringStart, SteeringStep, SteeringConsequence, PTL DEF SteeringSpec

-----------------------------------------------------------------------------
(* The limits of the handshake messages; the large numbers stay here.        *)
LEMMA Limits ==
    /\ BodyLength \in Nat /\ BodyLength > 0
    /\ MAX_U24 \in Nat /\ BodyLength <= MAX_U24
    /\ BodyLength <= MAX_HANDSHAKE_MESSAGE_LEN
    /\ \A n \in Nat : n <= BodyLength => ~(n > MAX_U24) /\ ~(n > MAX_HANDSHAKE_MESSAGE_LEN)
<1>1. MAX_HANDSHAKE_MESSAGE_LEN \in Nat
  BY SMTT(20) DEF MAX_HANDSHAKE_MESSAGE_LEN
<1>2. MAX_U24 \in Nat
  BY SMTT(20) DEF MAX_U24
<1>3. MAX_HANDSHAKE_MESSAGE_LEN <= MAX_U24
  BY SMTT(20) DEF MAX_HANDSHAKE_MESSAGE_LEN, MAX_U24
<1>4. BodyLength \in Nat /\ BodyLength > 0 /\ BodyLength <= MAX_HANDSHAKE_MESSAGE_LEN
  BY <1>1, BodyAssumption, SMTT(20)
<1> QED
  BY <1>1, <1>2, <1>3, <1>4, SMTT(20)

-----------------------------------------------------------------------------
(* Words and the headers of TLVs.                                            *)

Word == {n \in Nat : n < 65536}

(* A 16-bit word is read back from its bytes.                                *)
LEMMA WordRead ==
    ASSUME NEW n \in Word
    PROVE  be16(n) \in Seq(Byte) /\ Len(be16(n)) = 2 /\ from16(be16(n)) = n
<1>1. /\ n \div 256 \in Byte /\ n % 256 \in Byte /\ (n \div 256) % 256 = n \div 256
      /\ n = 256 * (n \div 256) + (n % 256)
  BY SMTT(20) DEF Word, Byte
<1> DEFINE x == n \div 256
           y == n % 256
<1>2. be16(n) = <<x, y>>
  BY <1>1, SMTT(20) DEF be16
<1>3. x \in Byte /\ y \in Byte /\ n = 256 * x + y
  BY <1>1, SMTT(20)
<1> HIDE DEF x, y
<1>4. <<x, y>> \in Seq(Byte) /\ Len(<<x, y>>) = 2 /\ <<x, y>>[1] = x /\ <<x, y>>[2] = y
  BY <1>3, SMTT(20)
<1>5. from16(<<x, y>>) = n
  BY <1>3, <1>4, SMTT(20) DEF from16
<1> QED
  BY <1>2, <1>4, <1>5, SMTT(20)

(* Two bytes are a 16-bit word.                                              *)
LEMMA WordType ==
    ASSUME NEW b, b[1] \in Byte, b[2] \in Byte
    PROVE  from16(b) \in Word
<1> DEFINE x == b[1]
           y == b[2]
<1>1. x \in Byte /\ y \in Byte /\ from16(b) = 256 * x + y
  BY SMTT(20) DEF from16
<1> HIDE DEF x, y
<1>2. 256 * x + y \in Word
  BY <1>1, SMTT(20) DEF Byte, Word
<1> QED
  BY <1>1, <1>2, SMTT(20)

(* A word is made of its two bytes.                                          *)
LEMMA WordOf ==
    ASSUME NEW a, NEW b, a[1] = b[1], a[2] = b[2]
    PROVE  from16(a) = from16(b)
BY SMTT(20) DEF from16

(* The header of a TLV: the short form up to 254 bytes, the long form above. *)
LEMMA Header ==
    ASSUME NEW ty \in Byte, NEW n \in Nat
    PROVE  \/ /\ n \in Byte /\ n # EXTENDED_TLV_MARKER
              /\ encode_header(ty, n) = Ok(<<ty, n>>)
           \/ /\ n \in Word
              /\ encode_header(ty, n) = Ok(<<ty, EXTENDED_TLV_MARKER>> \o be16(n))
           \/ encode_header(ty, n) = Err
<1> USE DEF MAX_STANDARD_TLV_LENGTH, MAX_EXTENDED_TLV_LENGTH
<1>1. CASE n <= 254
  <2>1. n \in Byte /\ n # EXTENDED_TLV_MARKER
    BY <1>1, SMTT(20) DEF Byte, EXTENDED_TLV_MARKER
  <2>2. encode_header(ty, n) = Ok(<<ty, n>>)
    BY <1>1, SMTT(20) DEF encode_header
  <2> QED
    BY <2>1, <2>2, SMTT(20)
<1>2. CASE n > 254 /\ n <= 65535
  <2>1. n \in Word
    BY <1>2, SMTT(20) DEF Word
  <2>2. encode_header(ty, n) = Ok(<<ty, EXTENDED_TLV_MARKER>> \o be16(n))
    BY <1>2, SMTT(20) DEF encode_header
  <2> QED
    BY <2>1, <2>2, SMTT(20)
<1>3. CASE n > 65535
  BY <1>3, SMTT(20) DEF encode_header
<1> QED
  BY <1>1, <1>2, <1>3, SMTT(20)

(* The marker is a byte.                                                     *)
LEMMA MarkerByte == EXTENDED_TLV_MARKER \in Byte
BY SMTT(20) DEF EXTENDED_TLV_MARKER, Byte

(* A word is a number.                                                       *)
LEMMA WordIsNat == \A n \in Word : n \in Nat
BY SMTT(20) DEF Word

(* A byte is a number.                                                       *)
LEMMA ByteIsNat == \A n \in Byte : n \in Nat
BY SMTT(20) DEF Byte

-----------------------------------------------------------------------------
(* The security policy.                                                      *)

(* Flags by their fields: the version in bits 13-15, the legacy flag in bit  *)
(* 2, and the others.                                                        *)
Between == {n \in Nat : n < 1024}
Flags(h, a, l, c) == 8192 * h + 8 * a + 4 * l + c

LEMMA FlagFields ==
    ASSUME NEW h \in 0..7, NEW a \in Between, NEW l \in 0..1, NEW c \in 0..3
    PROVE  /\ Flags(h, a, l, c) \in Word
           /\ Legacy(Flags(h, a, l, c)) <=> l = 1
           /\ Flags(h, a, l, c) % 8192 = Flags(0, a, l, c)
           /\ Flags(h, a, l, c) \div 8192 = h
           /\ OtherFlags(Flags(h, a, l, c)) = Flags(0, a, 0, c)
<1> DEFINE f == 8192 * h + 8 * a + 4 * l + c
           g == 8 * a + 4 * l + c
<1>0. /\ Flags(h, a, l, c) = f /\ Flags(0, a, l, c) = g /\ Flags(0, a, 0, c) = 8 * a + c
      /\ a \in Nat /\ a < 1024
  BY SMTT(20) DEF Flags, Between
<1>1. f \in Word /\ g \in Nat
  BY <1>0, SMTT(20) DEF Word
<1>2. f % 8192 = g /\ f \div 8192 = h
  BY <1>0, SMTT(20)
<1>3. (f \div 4) % 2 = l
  <2>1. f \div 4 = 2 * (1024 * h + a) + l
    BY <1>0, SMTT(20)
  <2> QED
    BY <1>0, <2>1, SMTT(20)
<1>4. (g \div 4) % 2 = l
  <2>1. g \div 4 = 2 * a + l
    BY <1>0, SMTT(20)
  <2> QED
    BY <1>0, <2>1, SMTT(20)
<1>5. Legacy(f) <=> l = 1
  BY <1>3, SMTT(20) DEF Legacy, LEGACY_ROUTERS_ENABLED
<1>6. Legacy(g) <=> l = 1
  BY <1>4, SMTT(20) DEF Legacy, LEGACY_ROUTERS_ENABLED
<1>7. OtherFlags(f) = 8 * a + c
  <2>1. OtherFlags(f) = IF Legacy(g) THEN g - 4 ELSE g
    BY <1>2, SMTT(20) DEF OtherFlags, LEGACY_ROUTERS_ENABLED
  <2> QED
    BY <1>0, <1>6, <2>1, SMTT(20)
<1> QED
  BY <1>0, <1>1, <1>2, <1>5, <1>7, SMTT(20)

(* Every value of the flags has these fields.                                *)
LEMMA HasFields ==
    ASSUME NEW f \in Word
    PROVE  \E h \in 0..7, a \in Between, l \in 0..1, c \in 0..3 : f = Flags(h, a, l, c)
<1> DEFINE h == f \div 8192
           g == f % 8192
           a == g \div 8
           r == g % 8
           l == r \div 4
           c == r % 4
<1>1. h \in 0..7 /\ g \in Nat /\ g < 8192 /\ f = 8192 * h + g
  BY SMTT(20) DEF Word
<1> HIDE DEF h, g
<1>2. a \in Nat /\ a < 1024 /\ r \in 0..7 /\ g = 8 * a + r
  BY <1>1, SMTT(20)
<1> HIDE DEF a, r
<1>3. l \in 0..1 /\ c \in 0..3 /\ r = 4 * l + c
  BY <1>2, SMTT(20)
<1> HIDE DEF l, c
<1>4. f = Flags(h, a, l, c) /\ a \in Between
  BY <1>1, <1>2, <1>3, SMTT(20) DEF Flags, Between
<1>5. h \in 0..7 /\ l \in 0..1 /\ c \in 0..3
  BY <1>1, <1>3, SMTT(20)
<1> QED
  BY <1>4, <1>5

(* The version field of a version above 2.                                   *)
LEMMA VersionField ==
    ASSUME NEW version \in Versions, version # "V1Or2"
    PROVE  to_bits(version) \in 0..7 /\ FieldVersions[to_bits(version) + 1] = version
<1>1. \E i \in 1..8 : FieldVersions[i] = version
  <2>1. /\ FieldVersions[1] = "V3" /\ FieldVersions[2] = "V4" /\ FieldVersions[3] = "V5"
        /\ FieldVersions[4] = "V6" /\ FieldVersions[5] = "V7" /\ FieldVersions[6] = "V8"
        /\ FieldVersions[7] = "V9" /\ FieldVersions[8] = "V10"
    BY SMTT(20) DEF FieldVersions
  <2>2. version \in {"V3", "V4", "V5", "V6", "V7", "V8", "V9", "V10"}
    BY DEF Versions
  <2>3. 1 \in 1..8 /\ 2 \in 1..8 /\ 3 \in 1..8 /\ 4 \in 1..8
        /\ 5 \in 1..8 /\ 6 \in 1..8 /\ 7 \in 1..8 /\ 8 \in 1..8
    BY SMTT(20)
  <2> QED
    BY <2>1, <2>2, <2>3
<1> DEFINE i == CHOOSE i \in 1..8 : FieldVersions[i] = version
<1>2. i \in 1..8 /\ FieldVersions[i] = version
  BY <1>1
<1>3. to_bits(version) = i - 1
  BY DEF to_bits
<1> HIDE DEF i
<1>4. i - 1 \in 0..7 /\ (i - 1) + 1 = i
  BY <1>2, SMTT(20)
<1> QED
  BY <1>2, <1>3, <1>4

(* Setting the threshold is read back, and changes no other flag.            *)
LEMMA ThresholdSet ==
    ASSUME NEW f \in Word, NEW version \in Versions
    PROVE  /\ set_version_threshold_for_routing(f, version) \in Word
           /\ version_threshold_for_routing(set_version_threshold_for_routing(f, version)) = version
           /\ OtherFlags(set_version_threshold_for_routing(f, version)) = OtherFlags(f)
<1>1. PICK h \in 0..7, a \in Between, l \in 0..1, c \in 0..3 : f = Flags(h, a, l, c)
  BY HasFields
<1>2. (Legacy(f) <=> l = 1) /\ OtherFlags(f) = Flags(0, a, 0, c)
  BY <1>1, FlagFields, SMTT(20)
<1> DEFINE cleared == IF Legacy(f) THEN f - 4 ELSE f
           g == set_version_threshold_for_routing(f, version)
<1>3. cleared = Flags(h, a, 0, c)
  BY <1>1, <1>2, SMTT(20) DEF Flags, Between
<1>4. g = IF version = "V1Or2" THEN cleared + 4 ELSE (cleared % 8192) + to_bits(version) * 8192
  BY SMTT(20) DEF set_version_threshold_for_routing, LEGACY_ROUTERS_ENABLED
<1> HIDE DEF cleared, g
<1>5. CASE version = "V1Or2"
  <2>1. g = Flags(h, a, 1, c)
    BY <1>3, <1>4, <1>5, SMTT(20) DEF Flags, Between
  <2>2. 1 \in 0..1
    BY SMTT(20)
  <2>3. Legacy(g) /\ g \in Word /\ OtherFlags(g) = Flags(0, a, 0, c)
    BY <2>1, <2>2, FlagFields, SMTT(20)
  <2>4. version_threshold_for_routing(g) = version
    BY <1>5, <2>3, SMTT(20) DEF version_threshold_for_routing
  <2> QED
    BY <1>2, <2>3, <2>4, SMTT(20) DEF g
<1>6. CASE version # "V1Or2"
  <2> DEFINE v == to_bits(version)
  <2>1. v \in 0..7 /\ FieldVersions[v + 1] = version
    BY <1>6, VersionField
  <2> HIDE DEF v
  <2>2. 0 \in 0..1
    BY SMTT(20)
  <2>3. cleared % 8192 = Flags(0, a, 0, c)
    BY <1>3, <2>2, FlagFields, SMTT(20)
  <2>4. g = (cleared % 8192) + v * 8192
    BY <1>4, <1>6, SMTT(20) DEF v
  <2>5. g = Flags(v, a, 0, c)
    BY <2>1, <2>3, <2>4, SMTT(20) DEF Flags, Between
  <2>6. (Legacy(g) <=> 0 = 1) /\ g \in Word /\ g \div 8192 = v /\ OtherFlags(g) = Flags(0, a, 0, c)
    BY <2>1, <2>2, <2>5, FlagFields, SMTT(20)
  <2>7. ~Legacy(g)
    BY <2>6, SMTT(20)
  <2>8. version_threshold_for_routing(g) = version
    BY <2>1, <2>6, <2>7, SMTT(20) DEF version_threshold_for_routing
  <2> QED
    BY <1>2, <2>6, <2>8, SMTT(20) DEF g
<1> QED
  BY <1>5, <1>6, SMTT(20)

\* The obligations below carry a large context, which Zenon takes better than
\* SMTT(20), and whose translation for SMT may take more than one attempt.
USE ZenonT(5), SMTT(30), ZenonT(25), SMTT(20), SMTT(25)

-----------------------------------------------------------------------------
(* Fragments.                                                                *)

PieceOf(m, f) ==
    /\ f.ty = m.ty /\ f.seq = m.seq /\ f.length = Len(m.payload)
    /\ f.offset \in Nat /\ f.bytes \in Seq(Nat)
    /\ f.offset + Len(f.bytes) <= Len(m.payload)
    /\ \A i \in 1..Len(f.bytes) : f.bytes[i] = m.payload[f.offset + i]

(* The k-th of the parts of at most max bytes starts within the message.     *)
LEMMA PartStarts ==
    ASSUME NEW L \in Nat, NEW max \in Nat, max > 0,
           NEW k \in Nat, k > 0, k <= (L + max - 1) \div max
    PROVE  (k - 1) * max \in Nat /\ (k - 1) * max <= L
<1> DEFINE n == (L + max - 1) \div max
<1>1. n \in Nat /\ n * max <= L + max - 1
  OBVIOUS
<1> HIDE DEF n
<1>2. k <= n
  BY DEF n
<1>3. PICK d \in Nat : n = k + d
  <2>1. n - k \in Nat /\ n = k + (n - k)
    BY <1>1, <1>2
  <2> QED
    BY <2>1
<1>4. d * max \in Nat /\ (k - 1) * max \in Nat
  OBVIOUS
<1>5. n * max = (k - 1) * max + max + d * max
  BY <1>3
<1> QED
  BY <1>1, <1>4, <1>5

(* A message that is not empty has a part.                                   *)
LEMMA AtLeastOne ==
    ASSUME NEW L \in Nat, L > 0, NEW max \in Nat, max > 0
    PROVE  (L + max - 1) \div max \in Nat /\ (L + max - 1) \div max # 0
<1> DEFINE x == L + max - 1
<1>1. x \in Nat /\ x >= max
  OBVIOUS
<1> HIDE DEF x
<1>2. x \div max \in Nat /\ x % max \in Nat /\ x % max < max
  BY <1>1
<1>3. x = max * (x \div max) + (x % max)
  BY <1>1
<1>4. x \div max # 0
  <2> SUFFICES ASSUME x \div max = 0 PROVE FALSE
    OBVIOUS
  <2>1. max * (x \div max) = 0
    OBVIOUS
  <2> QED
    BY <1>1, <1>2, <1>3, <2>1
<1> QED
  BY <1>2, <1>4 DEF x

(* A part of a sequence of bytes.                                            *)
LEMMA PartOf ==
    ASSUME NEW s \in Seq(Nat), NEW a \in Nat, NEW b \in Nat, a <= b, b <= Len(s)
    PROVE  /\ SubSeq(s, a + 1, b) \in Seq(Nat)
           /\ Len(SubSeq(s, a + 1, b)) = b - a
           /\ \A i \in 1..(b - a) : SubSeq(s, a + 1, b)[i] = s[a + i]
<1> DEFINE p == SubSeq(s, a + 1, b)
<1>1. /\ a + 1 \in Int /\ b \in Int /\ b - (a + 1) + 1 = b - a
      /\ \A i \in 1..(b - a) : (a + 1) + i - 1 = a + i
  OBVIOUS
<1>2. \A i \in (a + 1)..b : s[i] \in Nat
  <2>1. Len(s) \in Nat /\ \A i \in 1..Len(s) : s[i] \in Nat
    BY ElementOfSeq
  <2>2. \A i \in (a + 1)..b : i \in 1..Len(s)
    BY <2>1
  <2> QED
    BY <2>1, <2>2
<1>3. p \in Seq(Nat) /\ Len(p) = IF a + 1 <= b THEN b - (a + 1) + 1 ELSE 0
  BY <1>1, <1>2, SubSeqProperties
<1>4. \A i \in 1..(b - (a + 1) + 1) : p[i] = s[(a + 1) + i - 1]
  BY <1>1, <1>2, SubSeqProperties
<1> HIDE DEF p
<1>5. Len(p) = b - a
  BY <1>3
<1> QED
  BY <1>1, <1>3, <1>4, <1>5 DEF p

(* fragment cuts a message into pieces of it.                                *)
LEMMA Pieces ==
    ASSUME NEW m, m.payload \in Seq(Nat), ~(Len(m.payload) > MAX_U24),
           NEW f \in FragmentsOf(m)
    PROVE  PieceOf(m, f)
<1> DEFINE L == Len(m.payload)
           piece(max, k) == Fragment(m.ty, m.seq, L, (k - 1) * max,
                                    SubSeq(m.payload, (k - 1) * max + 1,
                                           IF (k - 1) * max + max <= L
                                           THEN (k - 1) * max + max ELSE L))
           count(max) == (L + max - 1) \div max
<1>0. L \in Nat
  OBVIOUS
<1>1. PICK max \in 1..L : f \in {fragment(m, max)[1][i] : i \in DOMAIN fragment(m, max)[1]}
  BY DEF FragmentsOf
<1>2. max \in Nat /\ max > 0 /\ L > 0
  BY <1>0, <1>1
<1>3. fragment(m, max)[1] = [k \in 1..(IF count(max) = 0 THEN 1 ELSE count(max)) |-> piece(max, k)]
  BY <1>2 DEF fragment, Ok
<1>4. count(max) \in Nat /\ count(max) # 0
  BY <1>0, <1>2, AtLeastOne
<1> HIDE DEF piece, count, L
<1>5. PICK k \in 1..count(max) : f = piece(max, k)
  BY <1>1, <1>3, <1>4
<1>6. k \in Nat /\ k > 0 /\ k <= count(max)
  BY <1>4
<1> DEFINE a == (k - 1) * max
           b == IF a + max <= L THEN a + max ELSE L
<1>7. a \in Nat /\ a <= L
  BY <1>0, <1>2, <1>6, PartStarts DEF count
<1> HIDE DEF a
<1>8. b \in Nat /\ a <= b /\ b <= L
  BY <1>0, <1>2, <1>7
<1> HIDE DEF b
<1>9. f = Fragment(m.ty, m.seq, L, a, SubSeq(m.payload, a + 1, b))
  BY <1>5 DEF piece, a, b
<1>10. /\ SubSeq(m.payload, a + 1, b) \in Seq(Nat)
       /\ Len(SubSeq(m.payload, a + 1, b)) = b - a
       /\ \A i \in 1..(b - a) : SubSeq(m.payload, a + 1, b)[i] = m.payload[a + i]
  BY <1>7, <1>8, PartOf DEF L
<1>11. a + (b - a) <= L
  BY <1>0, <1>7, <1>8
<1> QED
  BY <1>7, <1>9, <1>10, <1>11 DEF PieceOf, Fragment, L

-----------------------------------------------------------------------------
(* The reassembler.                                                          *)

Reassembler(a) ==
    /\ a.bytes \in Seq(Nat)
    /\ a.filled \subseteq 1..Len(a.bytes)

FragmentType(f) == f.offset \in Nat /\ f.length \in Nat /\ f.bytes \in Seq(Nat)

(* initialize_or_validate keeps what is filled.                              *)
LEMMA BegunType ==
    ASSUME NEW a, Reassembler(a), NEW f, FragmentType(f), initialize_or_validate(a, f) # Err
    PROVE  LET b == initialize_or_validate(a, f)[1]
           IN  /\ Reassembler(b)
               /\ a.filled \subseteq b.filled
               /\ \A p \in a.filled : b.bytes[p] = a.bytes[p]
<1>1. CASE a = EmptyReassembler
  <2> DEFINE b == [ty |-> f.ty, seq |-> f.seq, bytes |-> Repeat(0, f.length), filled |-> {}]
  <2>1. initialize_or_validate(a, f)[1] = b
    BY <1>1 DEF initialize_or_validate, Ok, Err
  <2>2. Repeat(0, f.length) \in Seq(Nat)
    BY DEF Repeat, FragmentType
  <2>3. a.filled = {}
    BY <1>1 DEF EmptyReassembler
  <2>4. Reassembler(b)
    BY <2>2 DEF Reassembler
  <2> HIDE DEF b
  <2> QED
    BY <2>1, <2>3, <2>4
<1>2. CASE a # EmptyReassembler
  <2>1. initialize_or_validate(a, f)[1] = a
    BY <1>2 DEF initialize_or_validate, Ok, Err
  <2> QED
    BY <2>1
<1> QED
  BY <1>1, <1>2

(* Writing at positions where nothing disagrees keeps what is filled.        *)
LEMMA WriteKeeps ==
    ASSUME NEW a, Reassembler(a), NEW f, FragmentType(f),
           f.offset + Len(f.bytes) <= Len(a.bytes)
    PROVE  LET b == Write(a, f, Written(a, f))
           IN  /\ Reassembler(b)
               /\ a.filled \subseteq b.filled
               /\ \A p \in a.filled : b.bytes[p] = a.bytes[p]
<1> DEFINE where == Written(a, f)
           put(p) == IF p \in where THEN f.bytes[p - f.offset] ELSE a.bytes[p]
           b == Write(a, f, where)
<1>1. b = [ty |-> a.ty, seq |-> a.seq, bytes |-> [p \in DOMAIN a.bytes |-> put(p)],
           filled |-> a.filled \cup where]
  BY DEF Write
<1>2. DOMAIN a.bytes = 1..Len(a.bytes) /\ Len(a.bytes) \in Nat
  BY DEF Reassembler
<1>3. where \subseteq 1..Len(a.bytes) /\ where \subseteq Positions(f)
  <2>1. where \subseteq Positions(f)
    BY DEF Written
  <2>2. Positions(f) \subseteq 1..Len(a.bytes)
    BY <1>2 DEF Positions, FragmentType
  <2> QED
    BY <2>1, <2>2
<1>4. \A p \in where : f.bytes[p - f.offset] \in Nat
  <2>1. \A p \in Positions(f) : p - f.offset \in 1..Len(f.bytes)
    BY DEF Positions, FragmentType
  <2>2. \A i \in 1..Len(f.bytes) : f.bytes[i] \in Nat
    BY DEF FragmentType
  <2> QED
    BY <1>3, <2>1, <2>2
<1>5. \A p \in 1..Len(a.bytes) : put(p) \in Nat
  <2>1. \A p \in 1..Len(a.bytes) : a.bytes[p] \in Nat
    BY DEF Reassembler
  <2> HIDE DEF where
  <2> QED
    BY <1>4, <2>1
<1>6. \A p \in a.filled : put(p) = a.bytes[p]
  <2> SUFFICES ASSUME NEW p \in a.filled, p \in where
               PROVE  f.bytes[p - f.offset] = a.bytes[p]
    BY DEF put
  <2>1. p \in Positions(f) /\ p \in Nat
    BY <1>2, <1>3 DEF Reassembler
  <2>2. p \notin Conflicts(a, f)
    BY <2>1 DEF Written
  <2> QED
    BY <2>1, <2>2 DEF Conflicts
<1>7. a.filled \subseteq 1..Len(a.bytes)
  BY DEF Reassembler
<1> HIDE DEF where, put
<1> DEFINE bytes == [p \in DOMAIN a.bytes |-> put(p)]
<1>8. bytes \in Seq(Nat) /\ Len(bytes) = Len(a.bytes)
  BY <1>2, <1>5
<1>9. \A p \in a.filled : bytes[p] = a.bytes[p]
  BY <1>2, <1>6, <1>7
<1>10. a.filled \cup where \subseteq 1..Len(bytes)
  BY <1>3, <1>7, <1>8
<1> HIDE DEF bytes
<1>11. b = [ty |-> a.ty, seq |-> a.seq, bytes |-> bytes, filled |-> a.filled \cup where]
  BY <1>1 DEF bytes
<1> HIDE DEF b
<1>12. /\ Reassembler(b)
       /\ a.filled \subseteq b.filled
       /\ \A p \in a.filled : b.bytes[p] = a.bytes[p]
  BY <1>8, <1>9, <1>10, <1>11 DEF Reassembler
<1> QED
  BY <1>12 DEF b, where

(* push keeps every byte that is filled, whatever arrives.                   *)
LEMMA PushKeeps ==
    ASSUME NEW a, Reassembler(a), NEW f, FragmentType(f)
    PROVE  LET b == push(a, f).asm
           IN  /\ Reassembler(b)
               /\ a.filled \subseteq b.filled
               /\ \A p \in a.filled : b.bytes[p] = a.bytes[p]
<1> DEFINE begun == initialize_or_validate(a, f)
           w == Write(begun[1], f, Written(begun[1], f))
<1>1. CASE begun = Err
  <2>1. push(a, f).asm = a
    BY <1>1 DEF push
  <2> QED
    BY <2>1
<1>2. CASE begun # Err /\ f.offset + Len(f.bytes) > Len(begun[1].bytes)
  <2>1. push(a, f).asm = begun[1]
    BY <1>2 DEF push
  <2> QED
    BY <1>2, <2>1, BegunType
<1>3. CASE begun # Err /\ ~(f.offset + Len(f.bytes) > Len(begun[1].bytes))
  <2>1. push(a, f).asm = w
    BY <1>3 DEF push, Pushed
  <2>2. /\ Reassembler(begun[1])
        /\ a.filled \subseteq begun[1].filled
        /\ \A p \in a.filled : begun[1].bytes[p] = a.bytes[p]
    BY <1>3, BegunType
  <2> HIDE DEF begun
  <2>3. f.offset + Len(f.bytes) <= Len(begun[1].bytes)
    BY <1>3, <2>2 DEF FragmentType, Reassembler
  <2>4. /\ Reassembler(w)
        /\ begun[1].filled \subseteq w.filled
        /\ \A p \in begun[1].filled : w.bytes[p] = begun[1].bytes[p]
    BY <2>2, <2>3, WriteKeeps
  <2> HIDE DEF w
  <2> QED
    BY <2>1, <2>2, <2>4
<1> QED
  BY <1>1, <1>2, <1>3

-----------------------------------------------------------------------------
(* One message, however it is cut.                                           *)

Covered(S) == UNION {Positions(f) : f \in S}

Assembled(a, S) ==
    /\ a.ty = 16 /\ a.seq = 2
    /\ a.bytes \in Seq(Nat) /\ Len(a.bytes) = BodyLength
    /\ a.filled = Covered(S)
    /\ \A p \in a.filled : a.bytes[p] = p

(* The three messages of which fragments arrive.                             *)
LEMMA Bodies ==
    /\ Original.ty = 16 /\ Original.seq = 2
    /\ Original.payload = [i \in 1..BodyLength |-> i]
    /\ Original.payload \in Seq(Nat) /\ Len(Original.payload) = BodyLength
    /\ Rival.payload \in Seq(Nat) /\ Len(Rival.payload) = BodyLength
    /\ Shorter.payload \in Seq(Nat) /\ Len(Shorter.payload) = BodyLength - 1
<1>1. BodyLength \in Nat /\ BodyLength > 0
  BY Limits
<1>2. /\ Original.ty = 16 /\ Original.seq = 2
      /\ Original.payload = [i \in 1..BodyLength |-> i]
  BY DEF Original, Body
<1>3. Original.payload \in Seq(Nat) /\ Len(Original.payload) = BodyLength
  BY <1>1, <1>2
<1>4. Rival.payload = [i \in 1..BodyLength |-> IF i % 2 = 0 THEN i ELSE 100 + i]
  BY DEF Rival, Body
<1>5. Rival.payload \in Seq(Nat) /\ Len(Rival.payload) = BodyLength
  BY <1>1, <1>4, SMT
<1>6. Shorter.payload = [i \in 1..(BodyLength - 1) |-> i]
  BY DEF Shorter, Body
<1>7. Shorter.payload \in Seq(Nat) /\ Len(Shorter.payload) = BodyLength - 1
  BY <1>1, <1>6
<1> QED
  BY <1>2, <1>3, <1>5, <1>7

(* Every fragment that arrives is well formed.                               *)
LEMMA ArrivingType ==
    ASSUME NEW f \in FragmentsOf(Original) \cup FragmentsOf(Rival) \cup FragmentsOf(Shorter)
    PROVE  FragmentType(f)
<1> DEFINE fits(m) == m.payload \in Seq(Nat) /\ ~(Len(m.payload) > MAX_U24)
<1>1. \A m : fits(m) => \A g \in FragmentsOf(m) : PieceOf(m, g)
  BY Pieces
<1>2. fits(Original) /\ fits(Rival)
  BY Bodies, Limits
<1>3. fits(Shorter)
  <2>1. BodyLength - 1 \in Nat /\ BodyLength - 1 <= BodyLength
    BY Limits
  <2> QED
    BY <2>1, Bodies, Limits
<1>4. \A m : fits(m) /\ PieceOf(m, f) => FragmentType(f)
  BY DEF PieceOf, FragmentType
<1> HIDE DEF fits
<1> QED
  BY <1>1, <1>2, <1>3, <1>4

(* A fragment of the original message carries its bytes at their places.     *)
LEMMA OriginalPiece ==
    ASSUME NEW f \in FragmentsOf(Original)
    PROVE  /\ f.ty = 16 /\ f.seq = 2 /\ f.length = BodyLength
           /\ FragmentType(f)
           /\ f.offset + Len(f.bytes) <= BodyLength
           /\ \A i \in 1..Len(f.bytes) : f.bytes[i] = f.offset + i
<1>1. PieceOf(Original, f)
  BY Pieces, Bodies, Limits
<1>2. /\ f.ty = 16 /\ f.seq = 2 /\ f.length = BodyLength
      /\ f.offset \in Nat /\ f.bytes \in Seq(Nat)
      /\ f.offset + Len(f.bytes) <= BodyLength
      /\ \A i \in 1..Len(f.bytes) : f.bytes[i] = Original.payload[f.offset + i]
  BY <1>1, Bodies DEF PieceOf
<1>3. ASSUME NEW i \in 1..Len(f.bytes)
      PROVE  f.bytes[i] = f.offset + i
  <2>1. Len(f.bytes) \in Nat
    BY <1>2
  <2>2. f.offset + i \in 1..BodyLength
    BY <1>2, <2>1, Limits
  <2> QED
    BY <1>2, <2>2, Bodies
<1> QED
  BY <1>2, <1>3, Limits DEF FragmentType

(* Its positions, with the bytes it has there.                               *)
LEMMA OriginalPositions ==
    ASSUME NEW f \in FragmentsOf(Original), NEW p \in Positions(f)
    PROVE  p \in 1..BodyLength /\ f.bytes[p - f.offset] = p
<1>1. f.offset \in Nat /\ Len(f.bytes) \in Nat /\ BodyLength \in Nat
  BY OriginalPiece, Limits DEF FragmentType
<1>2. p \in Nat /\ p > f.offset /\ p <= f.offset + Len(f.bytes)
  BY <1>1 DEF Positions
<1>3. p - f.offset \in 1..Len(f.bytes) /\ f.offset + (p - f.offset) = p
  BY <1>1, <1>2
<1>4. f.bytes[p - f.offset] = p
  BY <1>3, OriginalPiece
<1>5. p \in 1..BodyLength
  BY <1>1, <1>2, OriginalPiece
<1> QED
  BY <1>4, <1>5

(* What the first fragment of a message starts from.                         *)
LEMMA OriginalBegins ==
    ASSUME NEW a, NEW S, (S = {} /\ a = EmptyReassembler) \/ Assembled(a, S),
           NEW f \in FragmentsOf(Original)
    PROVE  /\ initialize_or_validate(a, f) # Err
           /\ Assembled(initialize_or_validate(a, f)[1], S)
<1>1. CASE S = {} /\ a = EmptyReassembler
  <2> DEFINE b == [ty |-> f.ty, seq |-> f.seq, bytes |-> Repeat(0, f.length), filled |-> {}]
  <2>1. ~(f.length > MAX_HANDSHAKE_MESSAGE_LEN)
    BY OriginalPiece, Limits
  <2>2. initialize_or_validate(a, f) = <<b>>
    BY <1>1, <2>1 DEF initialize_or_validate, Ok
  <2>3. Repeat(0, f.length) \in Seq(Nat) /\ Len(Repeat(0, f.length)) = BodyLength
    BY OriginalPiece, Limits DEF Repeat
  <2>4. Covered(S) = {}
    BY <1>1 DEF Covered
  <2>5. Assembled(b, S)
    BY <2>3, <2>4, OriginalPiece DEF Assembled
  <2> HIDE DEF b
  <2> QED
    BY <2>2, <2>5 DEF Err
<1>2. CASE Assembled(a, S)
  <2>1. a # EmptyReassembler
    <3>1. a.ty = 16
      BY <1>2 DEF Assembled
    <3>2. EmptyReassembler.ty # 16
      BY DEF EmptyReassembler
    <3> QED
      BY <3>1, <3>2
  <2>2. a.ty = f.ty /\ a.seq = f.seq /\ Len(a.bytes) = f.length
    BY <1>2, OriginalPiece DEF Assembled
  <2>3. initialize_or_validate(a, f) = <<a>>
    BY <2>1, <2>2 DEF initialize_or_validate, Ok
  <2> QED
    BY <1>2, <2>3 DEF Err
<1> QED
  BY <1>1, <1>2

(* The next fragment of a message adds its bytes.                            *)
LEMMA OriginalGrows ==
    ASSUME NEW a, NEW S, S \subseteq FragmentsOf(Original),
           (S = {} /\ a = EmptyReassembler) \/ Assembled(a, S),
           NEW f \in FragmentsOf(Original)
    PROVE  /\ Assembled(push(a, f).asm, S \cup {f})
           /\ push(a, f).res = IF Covered(S \cup {f}) = 1..BodyLength THEN Ok(<<Original>>)
                               ELSE Ok(<< >>)
<1> DEFINE begun == initialize_or_validate(a, f)
           b == begun[1]
           w == Write(b, f, Positions(f))
<1>1. begun # Err /\ Assembled(b, S)
  BY OriginalBegins
<1> HIDE DEF begun
<1>2. ~(f.offset + Len(f.bytes) > Len(b.bytes))
  <2>1. f.offset + Len(f.bytes) <= BodyLength /\ f.offset \in Nat /\ Len(f.bytes) \in Nat
    BY OriginalPiece DEF FragmentType
  <2> QED
    BY <1>1, <2>1, Limits DEF Assembled
<1> HIDE DEF b
<1>3. Conflicts(b, f) = {}
  <2>1. \A p \in Positions(f) \cap b.filled : b.bytes[p] = f.bytes[p - f.offset]
    BY <1>1, OriginalPositions DEF Assembled
  <2> QED
    BY <2>1 DEF Conflicts
<1>4. Written(b, f) = Positions(f)
  BY <1>3 DEF Written
<1>5. push(a, f) = Pushed(b, f, Positions(f))
  BY <1>1, <1>2, <1>4 DEF push, begun, b
<1>6. Covered(S \cup {f}) = Covered(S) \cup Positions(f)
  BY DEF Covered
<1> DEFINE bytes == [p \in DOMAIN b.bytes |-> IF p \in Positions(f) THEN f.bytes[p - f.offset]
                                             ELSE b.bytes[p]]
<1>7. w = [ty |-> b.ty, seq |-> b.seq, bytes |-> bytes, filled |-> b.filled \cup Positions(f)]
  BY DEF Write
<1>8. DOMAIN b.bytes = 1..BodyLength /\ BodyLength \in Nat
  BY <1>1, Limits DEF Assembled
<1>9. \A p \in 1..BodyLength : bytes[p] \in Nat
  <2>1. \A p \in 1..BodyLength : b.bytes[p] \in Nat
    BY <1>1, <1>8 DEF Assembled
  <2>2. \A p \in Positions(f) : f.bytes[p - f.offset] \in Nat
    BY <1>8, OriginalPositions
  <2> QED
    BY <1>8, <2>1, <2>2
<1>10. \A p \in b.filled \cup Positions(f) : bytes[p] = p /\ p \in 1..BodyLength
  <2>1. \A p \in b.filled : p \in 1..BodyLength /\ b.bytes[p] = p
    BY <1>1, OriginalPositions DEF Assembled, Covered
  <2>2. \A p \in Positions(f) : p \in 1..BodyLength /\ f.bytes[p - f.offset] = p
    BY OriginalPositions
  <2> QED
    BY <1>8, <2>1, <2>2
<1>11. bytes = [p \in 1..BodyLength |-> bytes[p]]
  BY <1>8
<1> HIDE DEF bytes, w
<1>12. bytes \in Seq(Nat) /\ Len(bytes) = BodyLength
  BY <1>8, <1>9, <1>11
<1>13. Assembled(w, S \cup {f})
  BY <1>1, <1>6, <1>7, <1>10, <1>12 DEF Assembled
<1>14. push(a, f).asm = w
  BY <1>5 DEF Pushed, w
<1>15. push(a, f).res = IF w.filled = DOMAIN w.bytes
                        THEN Ok(<<[ty |-> w.ty, seq |-> w.seq, payload |-> w.bytes]>>)
                        ELSE Ok(<< >>)
  BY <1>5 DEF Pushed, w
<1>16. w.filled = Covered(S \cup {f}) /\ DOMAIN w.bytes = 1..BodyLength
  BY <1>13, Limits DEF Assembled
<1>17. ASSUME w.filled = 1..BodyLength
       PROVE  [ty |-> w.ty, seq |-> w.seq, payload |-> w.bytes] = Original
  <2>1. w.bytes = [p \in 1..BodyLength |-> p]
    BY <1>7, <1>10, <1>11, <1>17
  <2> QED
    BY <1>13, <2>1 DEF Assembled, Original, Body
<1> QED
  BY <1>13, <1>14, <1>15, <1>16, <1>17

-----------------------------------------------------------------------------
(* A reassembly never loses a byte, and ends when all of them have come.     *)

ReassemblyInv ==
    part = "reassembly" =>
        /\ Reassembler(held.asm)
        /\ meant \subseteq FragmentsOf(Original) =>
             (meant = {} /\ held.asm = EmptyReassembler) \/ Assembled(held.asm, meant)

(* What a step of a reassembly does.                                         *)
Reassembles ==
    part = "reassembly" =>
        /\ \A p \in held.asm.filled :
             /\ p \in held'.asm.filled
             /\ held'.asm.bytes[p] = held.asm.bytes[p]
        /\ meant' \subseteq FragmentsOf(Original) =>
             held'.res = IF Covered(meant') = 1..BodyLength THEN Ok(<<Original>>)
                         ELSE Ok(<< >>)

(* A reassembly begins empty.                                                *)
LEMMA ReassemblyStart == InitReassembly => ReassemblyInv
<1> SUFFICES ASSUME InitReassembly PROVE ReassemblyInv
  OBVIOUS
<1>1. meant = {} /\ held.asm = EmptyReassembler
  BY DEF InitReassembly
<1>2. Reassembler(EmptyReassembler)
  BY DEF EmptyReassembler, Reassembler
<1> QED
  BY <1>1, <1>2 DEF ReassemblyInv

(* A fragment does to the reassembler what push does.                        *)
LEMMA ArriveStep ==
    ASSUME ReassemblyInv, part = "reassembly",
           NEW f \in FragmentsOf(Original) \cup FragmentsOf(Rival) \cup FragmentsOf(Shorter),
           Arrive(f)
    PROVE  ReassemblyInv' /\ Reassembles
<1> DEFINE a == held.asm
<1>1. held' = push(a, f) /\ meant' = meant \cup {f} /\ part' = part
  BY DEF Arrive
<1>2. Reassembler(a)
  BY DEF ReassemblyInv
<1>3. FragmentType(f)
  BY ArrivingType
<1> HIDE DEF a
<1>4. /\ Reassembler(push(a, f).asm)
      /\ a.filled \subseteq push(a, f).asm.filled
      /\ \A p \in a.filled : push(a, f).asm.bytes[p] = a.bytes[p]
  BY <1>2, <1>3, PushKeeps
<1>5. ASSUME meant' \subseteq FragmentsOf(Original)
      PROVE  /\ Assembled(held'.asm, meant')
             /\ held'.res = IF Covered(meant') = 1..BodyLength THEN Ok(<<Original>>)
                            ELSE Ok(<< >>)
  <2>1. f \in FragmentsOf(Original) /\ meant \subseteq FragmentsOf(Original)
    BY <1>1, <1>5
  <2>2. (meant = {} /\ a = EmptyReassembler) \/ Assembled(a, meant)
    BY <2>1 DEF ReassemblyInv, a
  <2>3. /\ Assembled(push(a, f).asm, meant \cup {f})
        /\ push(a, f).res = IF Covered(meant \cup {f}) = 1..BodyLength THEN Ok(<<Original>>)
                            ELSE Ok(<< >>)
    BY <2>1, <2>2, OriginalGrows
  <2> QED
    BY <1>1, <2>3
<1>6. Reassembler(held'.asm)
  BY <1>1, <1>4
<1>7. \A p \in a.filled : p \in held'.asm.filled /\ held'.asm.bytes[p] = a.bytes[p]
  BY <1>1, <1>4
<1>8. ReassemblyInv'
  BY <1>5, <1>6 DEF ReassemblyInv
<1>9. Reassembles
  BY <1>5, <1>7 DEF Reassembles, a
<1> QED
  BY <1>8, <1>9

(* Every step keeps the invariant and is such a step.                        *)
LEMMA ReassemblyStep ==
    ReassemblyInv /\ [Reassemble]_vars => ReassemblyInv' /\ [Reassembles]_vars
<1> SUFFICES ASSUME ReassemblyInv, [Reassemble]_vars
             PROVE  ReassemblyInv' /\ [Reassembles]_vars
  OBVIOUS
<1>1. CASE UNCHANGED vars
  BY <1>1 DEF vars, ReassemblyInv
<1>2. CASE Reassemble
  <2>1. PICK f \in FragmentsOf(Original) \cup FragmentsOf(Rival) \cup FragmentsOf(Shorter) :
            Arrive(f)
    BY <1>2 DEF Reassemble
  <2>2. part = "reassembly"
    BY <2>1 DEF Arrive
  <2> QED
    BY <2>1, <2>2, ArriveStep
<1> QED
  BY <1>1, <1>2

(* HandshakeReassembler::push never changes a byte it has taken, and returns *)
(* a message that arrives in any cuts, order and number of copies exactly    *)
(* when its last byte has come (handshake.rs).                               *)
THEOREM ReassemblyIsExact == ReassemblySpec => ReassemblyExact
<1>1. Reassembles <=>
        (part = "reassembly" =>
          LET covered == UNION {Positions(f) : f \in meant'}
          IN  /\ \A p \in held.asm.filled :
                   /\ p \in held'.asm.filled
                   /\ held'.asm.bytes[p] = held.asm.bytes[p]
              /\ meant' \subseteq FragmentsOf(Original) =>
                   held'.res = IF covered = 1..BodyLength THEN Ok(<<Original>>)
                               ELSE Ok(<<>>))
  BY DEF Reassembles, Covered
<1> QED
  BY <1>1, ReassemblyStart, ReassemblyStep, PTL DEF ReassemblySpec, ReassemblyExact

-----------------------------------------------------------------------------
(* Functions defined by their smaller values.                                *)

Causal(n, V, G) ==
    /\ G \in [[0..n -> V] -> [0..n -> V]]
    /\ \A f, g \in [0..n -> V], k \in 0..n :
         (\A i \in 0..n : i < k => f[i] = g[i]) => G[f][k] = G[g][k]

(* A function is well defined by values that depend only on smaller ones.    *)
LEMMA FixedPoint ==
    ASSUME NEW n \in Nat, NEW V, NEW c \in V, NEW G, Causal(n, V, G)
    PROVE  \E f \in [0..n -> V] : f = G[f]
<1> DEFINE W == [0..n -> V]
           S == [p \in (1..(n + 2)) \X W |-> G[p[2]]]
           start == [i \in 0..n |-> c]
<1>1. G \in [W -> W] /\ start \in W /\ n + 2 \in Nat
  BY DEF Causal
<1>2. Stepping(n + 2, W, S)
  <2>1. \A p \in (1..(n + 2)) \X W : p[2] \in W
    OBVIOUS
  <2> HIDE DEF W
  <2> QED
    BY <1>1, <2>1 DEF Stepping
<1>3. \A k \in 1..(n + 2), w \in W : S[<<k, w>>] = G[w]
  OBVIOUS
<1> HIDE DEF S, start
<1>4. PICK F : Iterated(n + 2, W, start, S, F)
  <2> HIDE DEF W
  <2> QED
    BY <1>1, <1>2, Iterates
<1>5. /\ F \in [0..(n + 2) -> W]
      /\ \A k \in 1..(n + 2) : F[k] = S[<<k, F[k - 1]>>]
  BY <1>4 DEF Iterated
<1>6. \A k \in 1..(n + 2) : k - 1 \in 0..(n + 2) /\ F[k - 1] \in W /\ F[k] = G[F[k - 1]]
  <2> HIDE DEF W
  <2>1. \A k \in 1..(n + 2) : k - 1 \in 0..(n + 2)
    OBVIOUS
  <2>2. \A k \in 1..(n + 2) : F[k - 1] \in W
    BY <1>5, <2>1
  <2> QED
    BY <1>3, <1>5, <2>1, <2>2
<1> DEFINE T == {k \in 0..(n + 1) : \A i \in 0..n : i < k => F[k][i] = F[k + 1][i]}
<1>7. 0 \in T
  BY SMT
<1>8. ASSUME NEW k \in 1..(n + 1), k - 1 \in T
      PROVE  k \in T
  <2>1. /\ k \in 1..(n + 2) /\ k + 1 \in 1..(n + 2) /\ k \in 0..(n + 1)
        /\ (k + 1) - 1 = k /\ (k - 1) + 1 = k
    OBVIOUS
  <2>2. F[k] = G[F[k - 1]] /\ F[k + 1] = G[F[k]] /\ F[k - 1] \in W /\ F[k] \in W
    <3> HIDE DEF W, T
    <3>1. F[k + 1] = G[F[(k + 1) - 1]] /\ F[(k + 1) - 1] \in W
      BY <1>6, <2>1
    <3> QED
      BY <1>6, <2>1, <3>1
  <2>3. ASSUME NEW i \in 0..n, i < k
        PROVE  F[k][i] = F[k + 1][i]
    <3>1. \A j \in 0..n : j < i => F[k - 1][j] = F[(k - 1) + 1][j]
      <4>1. \A j \in 0..n : j < i => j < k - 1
        BY <2>3
      <4>2. \A j \in 0..n : j < k - 1 => F[k - 1][j] = F[(k - 1) + 1][j]
        BY <1>8
      <4> QED
        BY <4>1, <4>2
    <3>2. \A j \in 0..n : j < i => F[k - 1][j] = F[k][j]
      BY <2>1, <3>1
    <3>3. G[F[k - 1]][i] = G[F[k]][i]
      BY <2>2, <3>2 DEF Causal
    <3> QED
      BY <2>2, <3>3
  <2> QED
    BY <2>1, <2>3
<1>9. n + 1 \in T
  <2>1. \A k \in 1..(n + 1) : k - 1 \in T => k \in T
    BY <1>8
  <2>2. n + 1 \in Nat /\ n + 1 \in 0..(n + 1)
    OBVIOUS
  <2> HIDE DEF T
  <2> QED
    BY <1>7, <2>1, <2>2, CountingUp
<1>10. /\ n + 1 \in 1..(n + 2) /\ n + 2 \in 1..(n + 2) /\ (n + 2) - 1 = n + 1
       /\ (n + 1) + 1 = n + 2 /\ \A i \in 0..n : i < n + 1
  OBVIOUS
<1>11. F[n + 2] = G[F[n + 1]] /\ F[n + 1] \in W
  <2> HIDE DEF W, T
  <2>1. F[n + 2] = G[F[(n + 2) - 1]] /\ F[(n + 2) - 1] \in W
    BY <1>6, <1>10
  <2> QED
    BY <1>10, <2>1
<1>12. \A i \in 0..n : F[n + 1][i] = F[n + 2][i]
  BY <1>9, <1>10
<1>13. F[n + 2] \in W
  <2> HIDE DEF W, T
  <2> QED
    BY <1>1, <1>11
<1>14. F[n + 1] = F[n + 2]
  BY <1>11, <1>12, <1>13
<1> QED
  BY <1>11, <1>14

-----------------------------------------------------------------------------
(* The TLVs of a dataset.                                                    *)

Greatest(S) == CHOOSE i \in S : \A j \in S : j <= i

(* A nonempty set of positions has a last one.                               *)
LEMMA LastPosition ==
    ASSUME NEW n \in Nat, NEW S \in SUBSET (1..n), S # {}
    PROVE  Greatest(S) \in S /\ \A j \in S : j <= Greatest(S)
<1> DEFINE T == {n - j : j \in S}
<1>1. T \in SUBSET Nat /\ T # {}
  <2>1. \A j \in S : n - j \in Nat
    OBVIOUS
  <2>2. T \in SUBSET Nat
    BY <2>1
  <2>3. \A j \in S : n - j \in T
    OBVIOUS
  <2> HIDE DEF T
  <2> QED
    BY <2>2, <2>3
<1>2. PICK m \in T : \A k \in T : m <= k
  BY <1>1, LeastNatural
<1>3. PICK j \in S : m = n - j
  OBVIOUS
<1>4. \A k \in S : n - k \in T
  OBVIOUS
<1>5. \A k \in S : k <= j
  BY <1>2, <1>3, <1>4
<1>6. \E x \in S : \A y \in S : y <= x
  BY <1>5
<1> QED
  BY <1>6 DEF Greatest

(* The last value of a type is the one that was pushed last.                 *)
LEMMA LastPushed ==
    ASSUME NEW s \in Seq(TlvEntry), NEW e \in TlvEntry, NEW ty
    PROVE  last_value(Append(s, e), ty) = IF e.ty = ty THEN Ok(e.value) ELSE last_value(s, ty)
<1> DEFINE a == Append(s, e)
           S == {i \in DOMAIN s : s[i].ty = ty}
           A == {i \in DOMAIN a : a[i].ty = ty}
           n == Len(s)
<1>1. /\ n \in Nat /\ DOMAIN s = 1..n /\ DOMAIN a = 1..(n + 1) /\ a[n + 1] = e
      /\ \A i \in 1..n : a[i] = s[i]
  OBVIOUS
<1>2. /\ last_value(s, ty) = IF S = {} THEN Err ELSE Ok(s[Greatest(S)].value)
      /\ last_value(a, ty) = IF A = {} THEN Err ELSE Ok(a[Greatest(A)].value)
  BY DEF last_value, Greatest
<1> HIDE DEF a, n
<1>3. CASE e.ty = ty
  <2>1. n + 1 \in A /\ A \in SUBSET (1..(n + 1)) /\ n + 1 \in Nat
    BY <1>1, <1>3
  <2>2. Greatest(A) \in A /\ \A j \in A : j <= Greatest(A)
    <3> HIDE DEF A
    <3> QED
      BY <2>1, LastPosition
  <2>3. Greatest(A) = n + 1
    <3>1. Greatest(A) \in 1..(n + 1) /\ n + 1 <= Greatest(A)
      <4> HIDE DEF A
      <4> QED
        BY <2>1, <2>2
    <3> HIDE DEF A
    <3> QED
      BY <1>1, <3>1
  <2> QED
    BY <1>1, <1>2, <1>3, <2>1, <2>3 DEF a
<1>4. CASE e.ty # ty
  <2>1. A = S
    BY <1>1, <1>4
  <2>2. CASE S = {}
    BY <1>2, <1>4, <2>1, <2>2 DEF a
  <2>3. CASE S # {}
    <3>1. S \in SUBSET (1..n)
      BY <1>1
    <3>2. Greatest(S) \in 1..n
      <4> HIDE DEF S
      <4> QED
        BY <1>1, <2>3, <3>1, LastPosition
    <3> HIDE DEF S, A
    <3> QED
      BY <1>1, <1>2, <1>4, <2>1, <2>3, <3>2 DEF a
  <2> QED
    BY <2>2, <2>3
<1> QED
  BY <1>3, <1>4

(* A dataset up to its nth TLV.                                              *)
LEMMA UpTo ==
    ASSUME NEW s \in Seq(TlvEntry), NEW n \in 1..Len(s)
    PROVE  /\ SubSeq(s, 1, n - 1) \in Seq(TlvEntry) /\ s[n] \in TlvEntry
           /\ SubSeq(s, 1, n) = Append(SubSeq(s, 1, n - 1), s[n])
<1>1. n \in Nat /\ n - 1 \in Nat /\ Len(s) \in Nat /\ n <= Len(s) /\ n >= 1
  OBVIOUS
<1>2. s[n] \in TlvEntry
  BY <1>1
<1> DEFINE p == SubSeq(s, 1, n - 1)
           q == SubSeq(s, 1, n)
<1>3. /\ p \in Seq(TlvEntry) /\ Len(p) = n - 1 /\ \A i \in 1..(n - 1) : p[i] = s[i]
      /\ q \in Seq(TlvEntry) /\ Len(q) = n /\ \A i \in 1..n : q[i] = s[i]
  BY <1>1, SMT
<1> HIDE DEF p, q
<1>4. Append(p, s[n]) \in Seq(TlvEntry) /\ Len(Append(p, s[n])) = n
  BY <1>1, <1>2, <1>3
<1>5. \A i \in 1..n : Append(p, s[n])[i] = q[i]
  BY <1>1, <1>2, <1>3
<1>6. q = Append(p, s[n])
  BY <1>3, <1>4, <1>5, SeqEqual
<1> QED
  BY <1>2, <1>3, <1>6 DEF p, q

(* An empty dataset has no values.                                           *)
LEMMA NothingSet ==
    ASSUME NEW ty
    PROVE  last_value(<<>>, ty) = Err
BY DEF last_value

(* remove_all removes every TLV of its type and no other.                    *)
LEMMA Removed ==
    ASSUME NEW d \in Seq(TlvEntry), NEW ty
    PROVE  /\ remove_all(d, ty) \in Seq(TlvEntry)
           /\ \A t : last_value(remove_all(d, ty), t) =
                       IF t = ty THEN Err ELSE last_value(d, t)
<1> DEFINE n == Len(d)
           Keep(k, s) == IF d[k].ty = ty THEN s ELSE Append(s, d[k])
           kept == CHOOSE f : f = [k \in 0..n |-> IF k = 0 THEN <<>>
                                     ELSE IF d[k].ty = ty THEN f[k - 1]
                                     ELSE Append(f[k - 1], d[k])]
           V == Seq(TlvEntry)
           G == [p \in (1..n) \X V |-> Keep(p[1], p[2])]
<1>0. n \in Nat /\ <<>> \in V /\ \A k \in 1..n : d[k] \in TlvEntry
  OBVIOUS
<1>1. remove_all(d, ty) = kept[n]
  BY DEF remove_all
<1>2. \A k \in 1..n, s \in V : Keep(k, s) \in V
  BY <1>0
<1>3. Stepping(n, V, G)
  <2> HIDE DEF V, Keep
  <2> QED
    BY <1>2 DEF Stepping
<1>4. \A k \in 1..n, s \in V : G[<<k, s>>] = Keep(k, s)
  <2> HIDE DEF V, Keep
  <2> QED
    OBVIOUS
<1> HIDE DEF G, V, n
<1>5. PICK f : Iterated(n, V, <<>>, G, f)
  BY <1>0, <1>3, Iterates
<1>6. f \in [0..n -> V] /\ f[0] = <<>> /\ \A k \in 1..n : f[k] = G[<<k, f[k - 1]>>]
  BY <1>5 DEF Iterated
<1>7. \A k \in 1..n : k - 1 \in 0..n /\ k \in 0..n /\ k # 0
  BY <1>0
<1>8. \A k \in 1..n : f[k] = Keep(k, f[k - 1])
  <2> HIDE DEF Keep
  <2> QED
    BY <1>4, <1>6, <1>7
<1>9. f = [k \in 0..n |-> IF k = 0 THEN <<>> ELSE IF d[k].ty = ty THEN f[k - 1]
                          ELSE Append(f[k - 1], d[k])]
  <2>1. ASSUME NEW k \in 0..n
        PROVE  f[k] = IF k = 0 THEN <<>> ELSE IF d[k].ty = ty THEN f[k - 1]
                      ELSE Append(f[k - 1], d[k])
    <3>1. k = 0 \/ k \in 1..n
      BY <1>0
    <3> QED
      BY <1>6, <1>8, <3>1
  <2>2. f = [k \in 0..n |-> f[k]]
    BY <1>6
  <2> QED
    BY <2>1, <2>2
<1>10. kept = [k \in 0..n |-> IF k = 0 THEN <<>> ELSE IF d[k].ty = ty THEN kept[k - 1]
                              ELSE Append(kept[k - 1], d[k])]
  BY <1>9
<1> HIDE DEF kept
<1>11. kept[0] = <<>> /\ \A k \in 1..n : kept[k] = Keep(k, kept[k - 1])
  <2>1. 0 \in 0..n
    BY <1>0
  <2>2. kept[0] = <<>>
    BY <1>10, <2>1
  <2> QED
    BY <1>7, <1>10, <2>2
<1> DEFINE Right(k) == /\ kept[k] \in V
                       /\ \A t : last_value(kept[k], t) =
                            IF t = ty THEN Err ELSE last_value(SubSeq(d, 1, k), t)
           T == {k \in 0..n : Right(k)}
<1>12. 0 \in T
  <2>1. SubSeq(d, 1, 0) = <<>> /\ 0 \in 0..n
    BY <1>0
  <2> QED
    BY <1>0, <1>11, <2>1, NothingSet
<1>13. ASSUME NEW k \in 1..n, k - 1 \in T
       PROVE  k \in T
  <2>1. kept[k] = Keep(k, kept[k - 1]) /\ k \in 0..n
    BY <1>7, <1>11
  <2>2. /\ kept[k - 1] \in V
        /\ \A t : last_value(kept[k - 1], t) =
             IF t = ty THEN Err ELSE last_value(SubSeq(d, 1, k - 1), t)
    BY <1>13
  <2>3. /\ SubSeq(d, 1, k - 1) \in Seq(TlvEntry) /\ d[k] \in TlvEntry
        /\ SubSeq(d, 1, k) = Append(SubSeq(d, 1, k - 1), d[k])
    BY UpTo DEF n
  <2>4. \A t : last_value(SubSeq(d, 1, k), t) =
                 IF d[k].ty = t THEN Ok(d[k].value) ELSE last_value(SubSeq(d, 1, k - 1), t)
    <3> DEFINE p == SubSeq(d, 1, k - 1)
               e == d[k]
    <3>1. p \in Seq(TlvEntry) /\ e \in TlvEntry /\ SubSeq(d, 1, k) = Append(p, e)
      BY <2>3
    <3> HIDE DEF p, e
    <3>2. \A t : last_value(Append(p, e), t) =
                   IF e.ty = t THEN Ok(e.value) ELSE last_value(p, t)
      BY <3>1, LastPushed
    <3> QED
      BY <3>1, <3>2 DEF p, e
  <2>5. CASE d[k].ty = ty
    <3>1. kept[k] = kept[k - 1]
      BY <2>1, <2>5
    <3>2. Right(k)
      BY <2>2, <2>4, <2>5, <3>1
    <3> QED
      BY <2>1, <3>2
  <2>6. CASE d[k].ty # ty
    <3>1. kept[k] = Append(kept[k - 1], d[k])
      BY <2>1, <2>6
    <3>2. \A t : last_value(kept[k], t) =
                   IF d[k].ty = t THEN Ok(d[k].value) ELSE last_value(kept[k - 1], t)
      BY <2>2, <2>3, <3>1, LastPushed DEF V
    <3>3. kept[k] \in V
      BY <2>2, <2>3, <3>1 DEF V
    <3>4. Right(k)
      BY <2>2, <2>4, <2>6, <3>2, <3>3
    <3> QED
      BY <2>1, <3>4
  <2> QED
    BY <2>5, <2>6
<1>14. n \in T
  <2>1. \A k \in 1..n : k - 1 \in T => k \in T
    BY <1>13
  <2>2. n \in 0..n
    BY <1>0
  <2> HIDE DEF T
  <2> QED
    BY <1>0, <1>12, <2>1, <2>2, CountingUp
<1>15. Right(n)
  BY <1>14
<1>16. SubSeq(d, 1, n) = d
  BY DEF n
<1> QED
  BY <1>1, <1>15, <1>16 DEF V

(* set_raw leaves one TLV of its type, and every other type as it was.       *)
LEMMA SetLast ==
    ASSUME NEW d \in Seq(TlvEntry), NEW ty \in Byte, NEW value \in Seq(Byte)
    PROVE  /\ set_raw(d, ty, value) \in Seq(TlvEntry)
           /\ \A t : last_value(set_raw(d, ty, value), t) =
                       IF t = ty THEN Ok(value) ELSE last_value(d, t)
<1> DEFINE r == remove_all(d, ty)
           e == Tlv(ty, value)
<1>1. e \in TlvEntry /\ e.ty = ty /\ e.value = value
  BY DEF Tlv, TlvEntry
<1>2. /\ r \in Seq(TlvEntry)
      /\ \A t : last_value(r, t) = IF t = ty THEN Err ELSE last_value(d, t)
  BY Removed
<1>3. set_raw(d, ty, value) = Append(r, e)
  BY DEF set_raw
<1> HIDE DEF r, e
<1>4. Append(r, e) \in Seq(TlvEntry)
  BY <1>1, <1>2
<1>5. \A t : last_value(Append(r, e), t) = IF e.ty = t THEN Ok(e.value) ELSE last_value(r, t)
  BY <1>1, <1>2, LastPushed
<1> QED
  BY <1>1, <1>2, <1>3, <1>4, <1>5

-----------------------------------------------------------------------------
(* One TLV written and read.                                                 *)

(* What follows the first bytes.                                             *)
LEMMA AfterHeader ==
    ASSUME NEW h \in Seq(Byte), NEW t \in Seq(Byte)
    PROVE  /\ Drop(h \o t, Len(h)) = t
           /\ SubSeq(h \o t, 1, Len(h)) = h
<1> DEFINE b == h \o t
           m == Len(h)
           k == Len(t)
<1>1. m \in Nat /\ k \in Nat
  OBVIOUS
<1>2. /\ b \in Seq(Byte) /\ Len(b) = m + k
      /\ \A i \in 1..(m + k) : b[i] = IF i <= m THEN h[i] ELSE t[i - m]
  BY ConcatProperties
<1> HIDE DEF b, m, k
<1> DEFINE d == SubSeq(b, m + 1, m + k)
           p == SubSeq(b, 1, m)
<1>3. \A i \in 1..(m + k) : b[i] \in Byte
  BY <1>2, ElementOfSeq
<1>4. d \in Seq(Byte) /\ Len(d) = k /\ \A i \in 1..k : d[i] = b[m + i]
  <2>1. \A i \in (m + 1)..(m + k) : b[i] \in Byte
    BY <1>1, <1>3
  <2>2. m + 1 \in Int /\ m + k \in Int /\ (m + k) - (m + 1) + 1 = k
    BY <1>1
  <2>3. d \in Seq(Byte) /\ Len(d) = (IF m + 1 <= m + k THEN (m + k) - (m + 1) + 1 ELSE 0)
    BY <2>1, <2>2, SubSeqProperties
  <2>4. \A i \in 1..((m + k) - (m + 1) + 1) : d[i] = b[(m + 1) + i - 1]
    BY <2>1, <2>2, SubSeqProperties
  <2> HIDE DEF d
  <2>5. Len(d) = k
    BY <1>1, <2>3
  <2>6. \A i \in 1..k : d[i] = b[(m + 1) + i - 1]
    BY <2>2, <2>4
  <2>7. \A i \in 1..k : (m + 1) + i - 1 = m + i
    BY <1>1
  <2> QED
    BY <2>3, <2>5, <2>6, <2>7
<1>5. p \in Seq(Byte) /\ Len(p) = m /\ \A i \in 1..m : p[i] = b[i]
  <2>1. \A i \in 1..m : b[i] \in Byte
    BY <1>1, <1>3
  <2>2. 1 \in Int /\ m \in Int
    BY <1>1
  <2>3. p \in Seq(Byte) /\ Len(p) = (IF 1 <= m THEN m - 1 + 1 ELSE 0)
    BY <2>1, <2>2, SubSeqProperties
  <2>4. \A i \in 1..(m - 1 + 1) : p[i] = b[1 + i - 1]
    BY <2>1, <2>2, SubSeqProperties
  <2> HIDE DEF p
  <2>5. Len(p) = m
    BY <1>1, <2>3
  <2>6. m - 1 + 1 = m /\ \A i \in 1..m : 1 + i - 1 = i
    BY <1>1
  <2> QED
    BY <2>3, <2>4, <2>5, <2>6
<1> HIDE DEF d, p
<1>6. d = t
  <2>1. \A i \in 1..k : d[i] = t[i]
    BY <1>1, <1>2, <1>4
  <2> QED
    BY <1>4, <2>1, SeqEqual DEF k
<1>7. p = h
  <2>1. \A i \in 1..m : p[i] = h[i]
    BY <1>1, <1>2, <1>5
  <2> QED
    BY <1>5, <2>1, SeqEqual DEF m
<1>8. Drop(b, m) = d
  BY <1>2 DEF Drop, d
<1> QED
  BY <1>6, <1>7, <1>8 DEF b, p, m

(* A header and what follows it.                                             *)
LEMMA Headed ==
    ASSUME NEW h \in Seq(Byte), NEW w \in Seq(Byte), NEW b, b = h \o w
    PROVE  /\ b \in Seq(Byte) /\ Len(b) >= Len(h)
           /\ \A i \in 1..Len(h) : b[i] = h[i]
           /\ Drop(b, Len(h)) = w
<1>1. b \in Seq(Byte) /\ Len(b) = Len(h) + Len(w)
  BY ConcatProperties
<1>2. \A i \in 1..(Len(h) + Len(w)) : b[i] = IF i <= Len(h) THEN h[i] ELSE w[i - Len(h)]
  BY ConcatProperties
<1>3. Len(h) \in Nat /\ Len(w) \in Nat
  BY LenProperties
<1>4. Len(b) >= Len(h)
  BY <1>1, <1>3
<1>5. \A i \in 1..Len(h) : b[i] = h[i]
  BY <1>2, <1>3
<1>6. Drop(b, Len(h)) = w
  BY AfterHeader
<1> QED
  BY <1>1, <1>4, <1>5, <1>6

(* A header, a value and what follows them.                                  *)
LEMMA Framed ==
    ASSUME NEW h \in Seq(Byte), NEW v \in Seq(Byte), NEW t \in Seq(Byte), h # <<>>
    PROVE  /\ h \o v \in Seq(Byte) /\ h \o v # <<>>
           /\ (h \o v) \o t = h \o (v \o t) /\ v \o t \in Seq(Byte)
<1>1. h \o v \in Seq(Byte) /\ v \o t \in Seq(Byte)
  BY ConcatProperties
<1>2. h \o v # <<>>
  BY ConcatEqualIffEmpty
<1>3. (h \o v) \o t = h \o (v \o t)
  BY ConcatAssociative
<1> QED
  BY <1>1, <1>2, <1>3

(* What a read returns.                                                      *)
LEMMA GotAndRest ==
    ASSUME NEW v, NEW t
    PROVE  /\ Ok([got |-> v, rest |-> t]) # Err
           /\ Ok([got |-> v, rest |-> t])[1].got = v
           /\ Ok([got |-> v, rest |-> t])[1].rest = t
BY DEF Ok, Err

(* A value of known length is read, and what follows it is left.             *)
LEMMA ReadExact ==
    ASSUME NEW v \in Seq(Byte), NEW t \in Seq(Byte)
    PROVE  read_exact(Len(v), v \o t) = Ok([got |-> v, rest |-> t])
<1>1. ~(Len(v \o t) < Len(v))
  <2>1. Len(v \o t) = Len(v) + Len(t) /\ Len(v) \in Nat /\ Len(t) \in Nat
    BY ConcatProperties, LenProperties
  <2> QED
    BY <2>1
<1>2. Drop(v \o t, Len(v)) = t /\ SubSeq(v \o t, 1, Len(v)) = v
  BY AfterHeader
<1> QED
  BY <1>1, <1>2 DEF read_exact

(* The two forms that parse_one reads.                                       *)
LEMMA ShortForm ==
    ASSUME NEW b, ~(Len(b) >= 2 /\ b[2] = EXTENDED_TLV_MARKER), ~(Len(b) < 2)
    PROVE  parse_one(b) =
             IF read_exact(b[2], Drop(b, 2)) = Err THEN Err
             ELSE Ok([got |-> Tlv(b[1], read_exact(b[2], Drop(b, 2))[1].got),
                      rest |-> read_exact(b[2], Drop(b, 2))[1].rest])
BY DEF parse_one, Then

LEMMA LongForm ==
    ASSUME NEW b, Len(b) >= 2 /\ b[2] = EXTENDED_TLV_MARKER, ~(Len(b) < 4)
    PROVE  parse_one(b) =
             IF read_exact(from16(Drop(b, 2)), Drop(b, 4)) = Err THEN Err
             ELSE Ok([got |-> Tlv(b[1], read_exact(from16(Drop(b, 2)), Drop(b, 4))[1].got),
                      rest |-> read_exact(from16(Drop(b, 2)), Drop(b, 4))[1].rest])
BY DEF parse_one, Then

LEMMA TooShort ==
    ASSUME NEW b, IF Len(b) >= 2 /\ b[2] = EXTENDED_TLV_MARKER THEN Len(b) < 4 ELSE Len(b) < 2
    PROVE  parse_one(b) = Err
BY DEF parse_one

(* The third and fourth bytes.                                               *)
LEMMA ThirdAndFourth ==
    ASSUME NEW b \in Seq(Byte), Len(b) >= 4
    PROVE  /\ Drop(b, 2)[1] = b[3] /\ Drop(b, 2)[2] = b[4]
           /\ b[1] \in Byte /\ b[2] \in Byte /\ b[3] \in Byte /\ b[4] \in Byte
<1> DEFINE n == Len(b)
           d == SubSeq(b, 3, n)
<1>1. n \in Nat /\ n >= 4
  OBVIOUS
<1>2. \A i \in 1..n : b[i] \in Byte
  BY ElementOfSeq
<1> HIDE DEF n
<1>3. \A i \in 3..n : b[i] \in Byte
  BY <1>1, <1>2
<1>4. \A i \in 1..(n - 3 + 1) : d[i] = b[3 + i - 1]
  <2>1. 3 \in Int /\ n \in Int
    BY <1>1
  <2> QED
    BY <1>3, <2>1, SubSeqProperties
<1> HIDE DEF d
<1>5. d[1] = b[3] /\ d[2] = b[4]
  <2>1. 1 \in 1..(n - 3 + 1) /\ 2 \in 1..(n - 3 + 1) /\ 3 + 1 - 1 = 3 /\ 3 + 2 - 1 = 4
    BY <1>1
  <2> QED
    BY <1>4, <2>1
<1>6. Drop(b, 2) = d
  BY DEF Drop, d, n
<1>7. 1 \in 1..n /\ 2 \in 1..n /\ 3 \in 1..n /\ 4 \in 1..n
  BY <1>1
<1> QED
  BY <1>2, <1>5, <1>6, <1>7

(* parse_one reads the TLV that was written, and leaves what follows it.     *)
LEMMA ParseWritten ==
    ASSUME NEW e \in TlvEntry, NEW t \in Seq(Byte), TlvEncode(e) # Err
    PROVE  /\ TlvEncode(e)[1] \in Seq(Byte) /\ TlvEncode(e)[1] # <<>>
           /\ parse_one(TlvEncode(e)[1] \o t) = Ok([got |-> e, rest |-> t])
<1> DEFINE v == e.value
           n == Len(v)
           ty == e.ty
           H == encode_header(ty, n)
<1>1. ty \in Byte /\ v \in Seq(Byte) /\ Tlv(ty, v) = e
  BY DEF TlvEntry, Tlv
<1>2. H # Err /\ TlvEncode(e) = Ok(H[1] \o v)
  BY DEF TlvEncode, Then
<1> HIDE DEF v, ty
<1>3. n \in Nat
  BY <1>1
<1>4. \A h : Ok(h)[1] = h
  BY DEF Ok
<1>5. /\ read_exact(n, v \o t) = Ok([got |-> v, rest |-> t])
      /\ Ok([got |-> v, rest |-> t]) # Err
      /\ Ok([got |-> v, rest |-> t])[1].got = v
      /\ Ok([got |-> v, rest |-> t])[1].rest = t
  BY <1>1, ReadExact, GotAndRest
<1>6. \/ n \in Byte /\ n # EXTENDED_TLV_MARKER /\ H = Ok(<<ty, n>>)
      \/ n \in Word /\ H = Ok(<<ty, EXTENDED_TLV_MARKER>> \o be16(n))
      \/ H = Err
  BY <1>1, <1>3, Header
<1> HIDE DEF n, H
<1>7. CASE n \in Byte /\ n # EXTENDED_TLV_MARKER /\ H = Ok(<<ty, n>>)
  <2> DEFINE h == <<ty, n>>
             b == h \o (v \o t)
  <2>1. h \in Seq(Byte) /\ Len(h) = 2 /\ h[1] = ty /\ h[2] = n /\ h # <<>>
    BY <1>1, <1>7
  <2>2. TlvEncode(e)[1] = h \o v
    BY <1>2, <1>4, <1>7
  <2> HIDE DEF h
  <2>b. b = h \o (v \o t)
    OBVIOUS
  <2>f. /\ h \o v \in Seq(Byte) /\ h \o v # <<>>
        /\ (h \o v) \o t = b /\ v \o t \in Seq(Byte)
    BY <1>1, <2>1, Framed
  <2> HIDE DEF b
  <2>3. /\ b \in Seq(Byte) /\ Len(b) >= Len(h)
        /\ \A i \in 1..Len(h) : b[i] = h[i]
        /\ Drop(b, Len(h)) = v \o t
    BY <2>1, <2>b, <2>f, Headed
  <2>4. b[1] = ty /\ b[2] = n /\ Drop(b, 2) = v \o t /\ ~(Len(b) < 2)
    <3>1. 1 \in 1..2 /\ 2 \in 1..2
      OBVIOUS
    <3>2. b[1] = ty /\ b[2] = n /\ Drop(b, 2) = v \o t /\ Len(b) >= 2
      BY <2>1, <2>3, <3>1
    <3>3. Len(b) \in Nat
      BY <2>3, LenProperties
    <3> QED
      BY <3>2, <3>3
  <2>5. parse_one(b) = Ok([got |-> e, rest |-> t])
    <3>1. ~(Len(b) >= 2 /\ b[2] = EXTENDED_TLV_MARKER)
      BY <1>7, <2>4
    <3> QED
      BY <1>1, <1>5, <2>4, <3>1, ShortForm
  <2> QED
    BY <2>2, <2>f, <2>5
<1>8. CASE n \in Word /\ H = Ok(<<ty, EXTENDED_TLV_MARKER>> \o be16(n))
  <2> DEFINE w == be16(n)
             m == <<ty, EXTENDED_TLV_MARKER>>
             h == m \o w
             b == h \o (v \o t)
  <2>1. w \in Seq(Byte) /\ Len(w) = 2 /\ from16(w) = n
    BY <1>8, WordRead
  <2>2. TlvEncode(e)[1] = h \o v
    BY <1>2, <1>4, <1>8
  <2>3. m \in Seq(Byte) /\ Len(m) = 2 /\ m[1] = ty /\ m[2] = EXTENDED_TLV_MARKER
    BY <1>1, MarkerByte
  <2> HIDE DEF w, m
  <2>4. /\ h \in Seq(Byte) /\ Len(h) = 4 /\ h # <<>>
        /\ h[1] = ty /\ h[2] = EXTENDED_TLV_MARKER /\ h[3] = w[1] /\ h[4] = w[2]
    <3>0. h \in Seq(Byte) /\ Len(h) = 2 + 2
      BY <2>1, <2>3, ConcatProperties
    <3>1. \A i \in 1..(2 + 2) : h[i] = IF i <= 2 THEN m[i] ELSE w[i - 2]
      <4>1. \A i \in 1..(Len(m) + Len(w)) : h[i] = IF i <= Len(m) THEN m[i] ELSE w[i - Len(m)]
        BY <2>1, <2>3, ConcatProperties
      <4> HIDE DEF h
      <4> QED
        BY <2>1, <2>3, <4>1
    <3> HIDE DEF h
    <3>2. /\ 1 <= 2 /\ 2 <= 2 /\ ~(3 <= 2) /\ ~(4 <= 2) /\ 3 - 2 = 1 /\ 4 - 2 = 2 /\ 2 + 2 = 4
          /\ 1 \in 1..(2 + 2) /\ 2 \in 1..(2 + 2) /\ 3 \in 1..(2 + 2) /\ 4 \in 1..(2 + 2)
      OBVIOUS
    <3>3. h[1] = m[1] /\ h[2] = m[2] /\ h[3] = w[3 - 2] /\ h[4] = w[4 - 2]
      BY <3>1, <3>2
    <3>4. Len(h) = 4 /\ h # <<>>
      <4>1. Len(<<>>) = 0 /\ 2 + 2 = 4 /\ 4 # 0
        OBVIOUS
      <4> QED
        BY <3>0, <4>1
    <3> QED
      BY <2>3, <3>0, <3>2, <3>3, <3>4
  <2> HIDE DEF h
  <2>b. b = h \o (v \o t)
    OBVIOUS
  <2>f. /\ h \o v \in Seq(Byte) /\ h \o v # <<>>
        /\ (h \o v) \o t = b /\ v \o t \in Seq(Byte)
    BY <1>1, <2>4, Framed
  <2> HIDE DEF b
  <2>5. /\ b \in Seq(Byte) /\ Len(b) >= Len(h)
        /\ \A i \in 1..Len(h) : b[i] = h[i]
        /\ Drop(b, Len(h)) = v \o t
    BY <2>4, <2>b, <2>f, Headed
  <2>6. /\ b[1] = ty /\ b[2] = EXTENDED_TLV_MARKER /\ b[3] = w[1] /\ b[4] = w[2]
        /\ Drop(b, 4) = v \o t /\ Len(b) >= 4
    <3>1. 1 \in 1..4 /\ 2 \in 1..4 /\ 3 \in 1..4 /\ 4 \in 1..4
      OBVIOUS
    <3> QED
      BY <2>4, <2>5, <3>1
  <2>7. from16(Drop(b, 2)) = n
    <3>1. Drop(b, 2)[1] = w[1] /\ Drop(b, 2)[2] = w[2]
      BY <2>5, <2>6, ThirdAndFourth
    <3> QED
      BY <2>1, <3>1, WordOf
  <2>8. Len(b) >= 2 /\ ~(Len(b) < 4)
    <3>1. Len(b) \in Nat
      BY <2>5
    <3> QED
      BY <2>6, <3>1
  <2>9. parse_one(b) = Ok([got |-> e, rest |-> t])
    BY <1>1, <1>5, <2>6, <2>7, <2>8, LongForm
  <2> QED
    BY <2>2, <2>f, <2>9
<1> QED
  BY <1>2, <1>6, <1>7, <1>8

(* A read takes no more than there is.                                       *)
LEMMA ReadType ==
    ASSUME NEW l \in Nat, NEW d \in Seq(Byte), read_exact(l, d) # Err
    PROVE  /\ read_exact(l, d)[1].got \in Seq(Byte)
           /\ read_exact(l, d)[1].rest \in Seq(Byte)
           /\ Len(read_exact(l, d)[1].rest) <= Len(d)
<1> DEFINE n == Len(d)
           g == SubSeq(d, 1, l)
           r == Drop(d, l)
<1>1. n \in Nat /\ \A i \in 1..n : d[i] \in Byte
  BY ElementOfSeq
<1>2. ~(n < l) /\ read_exact(l, d) = Ok([got |-> g, rest |-> r])
  BY DEF read_exact
<1>3. r = SubSeq(d, l + 1, n)
  BY DEF Drop
<1> HIDE DEF n, r
<1>4. g \in Seq(Byte)
  <2>1. (\A i \in 1..l : d[i] \in Byte) /\ 1 \in Int /\ l \in Int
    BY <1>1, <1>2
  <2> QED
    BY <2>1, SubSeqProperties
<1>5. r \in Seq(Byte) /\ Len(r) = IF l + 1 <= n THEN n - (l + 1) + 1 ELSE 0
  <2>1. (\A i \in (l + 1)..n : d[i] \in Byte) /\ l + 1 \in Int /\ n \in Int
    BY <1>1
  <2> QED
    BY <1>3, <2>1, SubSeqProperties
<1> HIDE DEF g
<1>6. Len(r) <= n
  BY <1>1, <1>5
<1> QED
  BY <1>2, <1>4, <1>5, <1>6, GotAndRest DEF n

(* What parse_one returns is a TLV and fewer bytes than it was given.        *)
LEMMA ParseOne ==
    ASSUME NEW b \in Seq(Byte), parse_one(b) # Err
    PROVE  /\ parse_one(b)[1].got \in TlvEntry
           /\ parse_one(b)[1].rest \in Seq(Byte)
           /\ Len(parse_one(b)[1].rest) < Len(b)
<1> DEFINE n == Len(b)
<1>1. n \in Nat /\ \A i \in 1..n : b[i] \in Byte
  BY ElementOfSeq
<1>2. ASSUME NEW k \in {2, 4}, n >= k, NEW l \in Nat,
             parse_one(b) = IF read_exact(l, Drop(b, k)) = Err THEN Err
                            ELSE Ok([got |-> Tlv(b[1], read_exact(l, Drop(b, k))[1].got),
                                     rest |-> read_exact(l, Drop(b, k))[1].rest])
      PROVE  /\ parse_one(b)[1].got \in TlvEntry
             /\ parse_one(b)[1].rest \in Seq(Byte)
             /\ Len(parse_one(b)[1].rest) < n
  <2> DEFINE d == Drop(b, k)
             r == read_exact(l, d)
             g == Tlv(b[1], r[1].got)
             s == r[1].rest
  <2>1. d \in Seq(Byte) /\ Len(d) < n
    <3>1. d = SubSeq(b, k + 1, n)
      BY DEF Drop
    <3> HIDE DEF n, d
    <3>2. (\A i \in (k + 1)..n : b[i] \in Byte) /\ k + 1 \in Int /\ n \in Int
      BY <1>1
    <3>3. d \in Seq(Byte) /\ Len(d) = IF k + 1 <= n THEN n - (k + 1) + 1 ELSE 0
      BY <3>1, <3>2, SubSeqProperties
    <3> QED
      BY <1>1, <1>2, <3>3
  <2>2. r # Err /\ parse_one(b) = Ok([got |-> g, rest |-> s])
    BY <1>2
  <2> HIDE DEF d
  <2>3. r[1].got \in Seq(Byte) /\ s \in Seq(Byte) /\ Len(s) <= Len(d)
    BY <2>1, <2>2, ReadType
  <2>4. b[1] \in Byte
    <3> HIDE DEF n
    <3>1. 1 \in 1..n
      BY <1>1, <1>2
    <3> QED
      BY <1>1, <3>1
  <2>5. g \in TlvEntry
    <3> HIDE DEF r
    <3> QED
      BY <2>3, <2>4 DEF Tlv, TlvEntry
  <2> HIDE DEF r, g, s
  <2>6. Len(s) < n
    <3>1. Len(s) \in Nat /\ Len(d) \in Nat
      BY <2>1, <2>3
    <3> HIDE DEF n
    <3> QED
      BY <1>1, <2>1, <2>3, <3>1
  <2> QED
    BY <2>2, <2>3, <2>5, <2>6, GotAndRest
<1>3. CASE n >= 2 /\ b[2] = EXTENDED_TLV_MARKER
  <2>1. ~(n < 4)
    BY <1>3, TooShort
  <2>2. n >= 4
    BY <1>1, <2>1
  <2>3. from16(Drop(b, 2)) \in Nat
    BY <2>2, ThirdAndFourth, WordType, WordIsNat
  <2> QED
    BY <1>2, <1>3, <2>1, <2>2, <2>3, LongForm
<1>4. CASE ~(n >= 2 /\ b[2] = EXTENDED_TLV_MARKER)
  <2>1. ~(n < 2)
    BY <1>4, TooShort
  <2>2. n >= 2 /\ 2 \in 1..n
    BY <1>1, <2>1
  <2>3. b[2] \in Nat
    BY <1>1, <2>2, ByteIsNat
  <2> QED
    BY <1>2, <1>4, <2>1, <2>2, <2>3, ShortForm
<1> QED
  BY <1>3, <1>4

-----------------------------------------------------------------------------
(* A dataset written and read.                                               *)

(* A result is an error or a value.                                          *)
LEMMA Results ==
    ASSUME NEW S
    PROVE  /\ Err \in Seq(S)
           /\ \A v \in S : Ok(v) \in Seq(S) /\ Ok(v) # Err /\ Ok(v)[1] = v
           /\ \A r \in Seq(S) : r # Err => r[1] \in S
BY DEF Err, Ok

(* The encodings of the first TLVs of a dataset.                             *)
LEMMA Encoding ==
    ASSUME NEW s \in Seq(TlvEntry)
    PROVE  \E out \in [0..Len(s) -> Seq(Seq(Byte))] :
             /\ TlvSetEncode(s) = out[Len(s)]
             /\ out[0] = Ok(<<>>)
             /\ \A k \in 1..Len(s) :
                  out[k] = IF out[k - 1] = Err THEN Err
                           ELSE IF TlvEncode(s[k]) = Err THEN Err
                           ELSE Ok(out[k - 1][1] \o TlvEncode(s[k])[1])
<1> DEFINE n == Len(s)
           Add(k, r) == IF r = Err THEN Err ELSE IF TlvEncode(s[k]) = Err THEN Err
                        ELSE Ok(r[1] \o TlvEncode(s[k])[1])
           out == CHOOSE f : f = [k \in 0..n |-> IF k = 0 THEN Ok(<<>>)
                                    ELSE IF f[k - 1] = Err THEN Err
                                    ELSE IF TlvEncode(s[k]) = Err THEN Err
                                    ELSE Ok(f[k - 1][1] \o TlvEncode(s[k])[1])]
           V == Seq(Seq(Byte))
           G == [p \in (1..n) \X V |-> Add(p[1], p[2])]
<1>0. n \in Nat /\ <<>> \in Seq(Byte) /\ \A k \in 1..n : s[k] \in TlvEntry
  OBVIOUS
<1>1. TlvSetEncode(s) = out[n]
  BY DEF TlvSetEncode, EncodeAll, Then
<1>r. /\ Err \in V
      /\ \A v \in Seq(Byte) : Ok(v) \in V /\ Ok(v) # Err /\ Ok(v)[1] = v
      /\ \A r \in V : r # Err => r[1] \in Seq(Byte)
  BY Results
<1>2. ASSUME NEW k \in 1..n, NEW r \in V
      PROVE  Add(k, r) \in V
  <2>1. CASE r # Err /\ TlvEncode(s[k]) # Err
    <3>1. TlvEncode(s[k])[1] \in Seq(Byte)
      BY <1>0, <2>1, ParseWritten
    <3>2. r[1] \in Seq(Byte)
      BY <1>r, <2>1
    <3>3. r[1] \o TlvEncode(s[k])[1] \in Seq(Byte)
      BY <3>1, <3>2
    <3> HIDE DEF V
    <3> QED
      BY <1>r, <2>1, <3>3
  <2> HIDE DEF V
  <2> QED
    BY <1>r, <2>1
<1>3. Stepping(n, V, G)
  <2>1. \A k \in 1..n, r \in V : Add(k, r) \in V
    BY <1>2
  <2> HIDE DEF V, Add
  <2> QED
    BY <2>1 DEF Stepping
<1>4. \A k \in 1..n, r \in V : G[<<k, r>>] = Add(k, r)
  <2> HIDE DEF V, Add
  <2> QED
    OBVIOUS
<1> HIDE DEF G, V, n
<1>5. PICK f : Iterated(n, V, Ok(<<>>), G, f)
  BY <1>0, <1>r, <1>3, Iterates
<1>6. f \in [0..n -> V] /\ f[0] = Ok(<<>>) /\ \A k \in 1..n : f[k] = G[<<k, f[k - 1]>>]
  BY <1>5 DEF Iterated
<1>7. \A k \in 1..n : k - 1 \in 0..n /\ k \in 0..n /\ k # 0
  BY <1>0
<1>8. \A k \in 1..n : f[k] = Add(k, f[k - 1])
  <2> HIDE DEF Add
  <2> QED
    BY <1>4, <1>6, <1>7
<1> DEFINE Made(g, k) == IF k = 0 THEN Ok(<<>>)
                         ELSE IF g[k - 1] = Err THEN Err
                         ELSE IF TlvEncode(s[k]) = Err THEN Err
                         ELSE Ok(g[k - 1][1] \o TlvEncode(s[k])[1])
<1>9. f = [k \in 0..n |-> Made(f, k)]
  <2>1. ASSUME NEW k \in 0..n
        PROVE  f[k] = Made(f, k)
    <3>1. k = 0 \/ k \in 1..n
      BY <1>0
    <3>2. CASE k = 0
      BY <1>6, <3>2
    <3>3. CASE k \in 1..n
      <4>1. f[k] = Add(k, f[k - 1]) /\ k # 0
        BY <1>7, <1>8, <3>3
      <4> QED
        BY <4>1
    <3> QED
      BY <3>1, <3>2, <3>3
  <2> HIDE DEF Made
  <2>2. f = [k \in 0..n |-> f[k]]
    BY <1>6
  <2> QED
    BY <2>1, <2>2
<1>10. out = [k \in 0..n |-> Made(out, k)]
  BY <1>9
<1>11. f = out
  <2>1. f = [k \in 0..n |-> Made(f, k)] /\ out = [k \in 0..n |-> Made(out, k)]
    BY <1>9, <1>10
  <2> DEFINE T == {k \in 0..n : f[k] = out[k]}
  <2> HIDE DEF out
  <2>2. 0 \in T
    BY <1>0, <1>10, <1>6
  <2>3. ASSUME NEW k \in 1..n, k - 1 \in T
        PROVE  k \in T
    <3>1. f[k - 1] = out[k - 1] /\ k \in 0..n
      BY <1>7, <2>3
    <3>2. Made(f, k) = Made(out, k)
      BY <3>1
    <3> HIDE DEF Made
    <3>3. f[k] = Made(f, k) /\ out[k] = Made(out, k)
      BY <2>1, <3>1
    <3> QED
      BY <3>1, <3>2, <3>3
  <2>4. \A k \in 0..n : k \in T
    <3>1. \A k \in 1..n : k - 1 \in T => k \in T
      BY <2>3
    <3> HIDE DEF T
    <3> QED
      BY <1>0, <2>2, <3>1, CountingUp
  <2>5. \A k \in 0..n : f[k] = out[k]
    BY <2>4
  <2> HIDE DEF Made
  <2>6. f = [k \in 0..n |-> f[k]] /\ out = [k \in 0..n |-> out[k]]
    BY <1>6, <2>1
  <2> QED
    BY <2>5, <2>6
<1> HIDE DEF out
<1> QED
  <2>1. /\ f \in [0..Len(s) -> Seq(Seq(Byte))]
        /\ TlvSetEncode(s) = f[Len(s)]
        /\ f[0] = Ok(<<>>)
    BY <1>1, <1>6, <1>11 DEF n, V
  <2>2. \A k \in 1..Len(s) :
          f[k] = IF f[k - 1] = Err THEN Err
                 ELSE IF TlvEncode(s[k]) = Err THEN Err
                 ELSE Ok(f[k - 1][1] \o TlvEncode(s[k])[1])
    BY <1>8 DEF n
  <2> QED
    BY <2>1, <2>2

(* The last bytes of a buffer.                                               *)
LEMMA LastBytes ==
    ASSUME NEW b \in Seq(Byte), NEW k \in 0..Len(b)
    PROVE  Drop(b, Len(b) - k) \in Seq(Byte) /\ Len(Drop(b, Len(b) - k)) = k
<1>1. Len(b) \in Nat /\ Len(b) - k \in Nat /\ (Len(b) - k) + 1 \in 1..(Len(b) + 1)
  OBVIOUS
<1> QED
  BY <1>1, SMT DEF Drop

(* What is read of the last bytes of a buffer.                               *)
LEMMA Parsing ==
    ASSUME NEW b \in Seq(Byte)
    PROVE  \E parse \in [0..Len(b) -> Seq(Seq(TlvEntry))] :
             /\ TlvSetParse(b) = parse[Len(b)]
             /\ parse[0] = Ok(<<>>)
             /\ \A k \in 1..Len(b) : \A e, t :
                  /\ parse_one(Drop(b, Len(b) - k)) = Ok([got |-> e, rest |-> t])
                  /\ parse[Len(t)] # Err
                  => parse[k] = Ok(<<e>> \o parse[Len(t)][1])
<1> DEFINE n == Len(b)
           P(k) == parse_one(Drop(b, n - k))
           L(k) == Len(P(k)[1].rest)
           Made(f, k) == IF k = 0 THEN Ok(<<>>)
                         ELSE IF P(k) = Err THEN Err
                         ELSE IF f[L(k)] = Err THEN Err
                         ELSE Ok(<<P(k)[1].got>> \o f[L(k)][1])
           parse == CHOOSE f : f = [k \in 0..n |-> Made(f, k)]
           V == Seq(Seq(TlvEntry))
           W == [0..n -> V]
           G == [f \in W |-> [k \in 0..n |-> Made(f, k)]]
<1>0. n \in Nat /\ <<>> \in Seq(TlvEntry)
  OBVIOUS
<1>1. TlvSetParse(b) = parse[n]
  BY DEF TlvSetParse, ParseAll, Then
<1>r. /\ Err \in V
      /\ \A v \in Seq(TlvEntry) : Ok(v) \in V /\ Ok(v) # Err /\ Ok(v)[1] = v
      /\ \A r \in V : r # Err => r[1] \in Seq(TlvEntry)
  BY Results
<1>2. ASSUME NEW k \in 1..n, P(k) # Err
      PROVE  P(k)[1].got \in TlvEntry /\ L(k) \in 0..n /\ L(k) < k
  <2> DEFINE d == Drop(b, n - k)
  <2>1. d \in Seq(Byte) /\ Len(d) = k
    BY <1>0, LastBytes
  <2> HIDE DEF d
  <2>2. /\ parse_one(d)[1].got \in TlvEntry
        /\ parse_one(d)[1].rest \in Seq(Byte)
        /\ Len(parse_one(d)[1].rest) < k
    <3>1. parse_one(d) # Err
      BY <1>2 DEF d
    <3> QED
      BY <2>1, <3>1, ParseOne
  <2>3. L(k) = Len(parse_one(d)[1].rest) /\ P(k) = parse_one(d)
    BY DEF d
  <2> DEFINE l == Len(parse_one(d)[1].rest)
  <2>4. l \in Nat /\ l < k
    BY <2>2
  <2> HIDE DEF P, L, l
  <2>5. l \in 0..n
    BY <1>0, <2>4
  <2> QED
    BY <2>2, <2>3, <2>4, <2>5 DEF l
<1>3. ASSUME NEW f \in W, NEW k \in 0..n
      PROVE  Made(f, k) \in V
  <2>1. CASE k # 0 /\ P(k) # Err /\ f[L(k)] # Err
    <3>1. k \in 1..n
      BY <1>0, <2>1
    <3>2. P(k)[1].got \in TlvEntry /\ L(k) \in 0..n
      <4> HIDE DEF P, L
      <4> QED
        BY <1>2, <2>1, <3>1
    <3> HIDE DEF P, L
    <3>3. f[L(k)] \in V
      <4> HIDE DEF V
      <4> QED
        BY <3>2
    <3>4. f[L(k)][1] \in Seq(TlvEntry)
      <4> HIDE DEF V
      <4> QED
        BY <1>r, <2>1, <3>3
    <3> DEFINE g == P(k)[1].got
               m == f[L(k)][1]
    <3> HIDE DEF g, m
    <3>5. g \in TlvEntry /\ m \in Seq(TlvEntry)
      BY <3>2, <3>4 DEF g, m
    <3>6. <<g>> \o m \in Seq(TlvEntry)
      BY <3>5
    <3> HIDE DEF V
    <3>7. Made(f, k) = Ok(<<g>> \o m)
      BY <2>1 DEF g, m
    <3> QED
      BY <1>r, <3>6, <3>7
  <2>2. CASE k = 0 \/ P(k) = Err \/ f[L(k)] = Err
    <3> HIDE DEF V, P, L
    <3> QED
      BY <1>0, <1>r, <2>2
  <2> QED
    BY <2>1, <2>2
<1>4. ASSUME NEW f \in W, NEW g \in W, NEW k \in 0..n, \A i \in 0..n : i < k => f[i] = g[i]
      PROVE  Made(f, k) = Made(g, k)
  <2>1. CASE k = 0 \/ P(k) = Err
    <3> HIDE DEF P, L
    <3> QED
      BY <2>1
  <2>2. CASE k # 0 /\ P(k) # Err
    <3>1. k \in 1..n
      BY <1>0, <2>2
    <3> HIDE DEF P, L
    <3>2. L(k) \in 0..n /\ L(k) < k
      BY <1>2, <2>2, <3>1
    <3>3. f[L(k)] = g[L(k)]
      BY <1>4, <3>2
    <3> QED
      BY <3>3
  <2> QED
    BY <2>1, <2>2
<1>5. Causal(n, V, G)
  <2>1. \A f \in W, k \in 0..n : Made(f, k) \in V
    BY <1>3
  <2>2. \A f, g \in W, k \in 0..n :
           (\A i \in 0..n : i < k => f[i] = g[i]) => Made(f, k) = Made(g, k)
    BY <1>4
  <2> HIDE DEF Made, V
  <2>3. \A f \in W : [k \in 0..n |-> Made(f, k)] \in W
    BY <2>1
  <2>4. G \in [W -> W]
    <3> HIDE DEF W
    <3> QED
      BY <2>3
  <2>5. \A f \in W, k \in 0..n : G[f][k] = Made(f, k)
    <3> HIDE DEF W
    <3> QED
      OBVIOUS
  <2> HIDE DEF G, n
  <2> QED
    BY <2>2, <2>4, <2>5 DEF Causal
<1>6. PICK f \in W : f = G[f]
  <2> HIDE DEF G, V, n, Made
  <2> QED
    BY <1>0, <1>5, <1>r, FixedPoint
<1>7. f = [k \in 0..n |-> Made(f, k)]
  <2> HIDE DEF W, Made, n
  <2> QED
    BY <1>6
<1>8. parse = [k \in 0..n |-> Made(parse, k)]
  <2> HIDE DEF Made, n
  <2> QED
    BY <1>7
<1> HIDE DEF parse
<1>9. parse \in W
  <2> SUFFICES ASSUME NEW j \in 0..n, ~(parse[j] = f[j]) PROVE FALSE
    <3>1. \A j \in 0..n : parse[j] = f[j]
      OBVIOUS
    <3>2. parse = [k \in 0..n |-> parse[k]] /\ f = [k \in 0..n |-> f[k]]
      <4> HIDE DEF Made, n
      <4> QED
        BY <1>7, <1>8
    <3> HIDE DEF Made, n, W
    <3>3. parse = f
      BY <3>1, <3>2
    <3> QED
      BY <1>6, <3>3
  <2> DEFINE C == {k \in 0..n : parse[k] # f[k]}
  <2>1. C \in SUBSET Nat /\ C # {}
    BY <1>0
  <2>2. PICK k \in C : \A i \in C : k <= i
    <3> HIDE DEF C
    <3> QED
      BY <2>1, LeastNatural
  <2>3. k \in 0..n /\ parse[k] # f[k] /\ \A i \in 0..n : i < k => parse[i] = f[i]
    <3>1. k \in 0..n /\ parse[k] # f[k]
      OBVIOUS
    <3>2. ASSUME NEW i \in 0..n, i < k, parse[i] # f[i]
          PROVE  FALSE
      <4>1. i \in C
        BY <3>2
      <4>2. k <= i
        BY <2>2, <4>1
      <4> QED
        BY <1>0, <3>1, <3>2, <4>2
    <3> QED
      BY <3>1, <3>2
  <2>4. Made(parse, k) = Made(f, k)
    <3>1. CASE k = 0 \/ P(k) = Err
      <4> HIDE DEF P, L
      <4> QED
        BY <3>1
    <3>2. CASE k # 0 /\ P(k) # Err
      <4>1. k \in 1..n
        BY <1>0, <2>3, <3>2
      <4> HIDE DEF P, L, C
      <4>2. L(k) \in 0..n /\ L(k) < k
        BY <1>2, <3>2, <4>1
      <4>3. parse[L(k)] = f[L(k)]
        BY <2>3, <4>2
      <4> QED
        BY <4>3
    <3> QED
      BY <3>1, <3>2
  <2> HIDE DEF Made, n, C
  <2>5. parse[k] = Made(parse, k) /\ f[k] = Made(f, k)
    BY <1>7, <1>8, <2>3
  <2> QED
    BY <2>3, <2>4, <2>5
<1>10. parse[0] = Ok(<<>>)
  <2>1. 0 \in 0..n
    BY <1>0
  <2>2. parse[0] = Made(parse, 0)
    <3> HIDE DEF Made, n
    <3> QED
      BY <1>8, <2>1
  <2> QED
    BY <2>2
<1>11. ASSUME NEW k \in 1..n, NEW e, NEW t,
              parse_one(Drop(b, n - k)) = Ok([got |-> e, rest |-> t]), parse[Len(t)] # Err
       PROVE  parse[k] = Ok(<<e>> \o parse[Len(t)][1])
  <2>1. P(k) # Err /\ P(k)[1].got = e /\ L(k) = Len(t)
    BY <1>11, GotAndRest
  <2>2. k \in 0..n /\ k # 0
    BY <1>0
  <2>3. parse[k] = Made(parse, k)
    <3> HIDE DEF Made, n
    <3> QED
      BY <1>8, <2>2
  <2> HIDE DEF P, L
  <2> QED
    BY <1>11, <2>1, <2>2, <2>3
<1> HIDE DEF P, L, Made, G, V
<1>12. \A k \in 1..n : \A e, t :
         /\ parse_one(Drop(b, n - k)) = Ok([got |-> e, rest |-> t])
         /\ parse[Len(t)] # Err
         => parse[k] = Ok(<<e>> \o parse[Len(t)][1])
  BY <1>11
<1> HIDE DEF n
<1> QED
  BY <1>1, <1>9, <1>10, <1>12 DEF n, V

(* A TLV and those after it.                                                 *)
LEMMA Consed ==
    ASSUME NEW s \in Seq(TlvEntry), NEW k \in 1..Len(s)
    PROVE  /\ SubSeq(s, k + 1, Len(s)) \in Seq(TlvEntry)
           /\ <<s[k]>> \o SubSeq(s, k + 1, Len(s)) = SubSeq(s, k, Len(s))
<1> DEFINE n == Len(s)
<1>1. n \in Nat /\ k \in k..n /\ n \in k..n /\ k + 1 \in Int /\ n \in Int
  OBVIOUS
<1>2. \A i \in (k + 1)..n : s[i] \in TlvEntry
  <2>1. \A i \in 1..n : s[i] \in TlvEntry
    BY ElementOfSeq
  <2>2. \A i \in (k + 1)..n : i \in 1..n
    BY <1>1
  <2> QED
    BY <2>1, <2>2
<1> HIDE DEF n
<1>3. SubSeq(s, k + 1, n) \in Seq(TlvEntry)
  BY <1>1, <1>2, SubSeqProperties
<1>4. SubSeq(s, k, n) = <<s[k]>> \o SubSeq(s, k + 1, n)
  BY <1>1, SubSeqRecursiveFirst DEF n
<1> QED
  BY <1>3, <1>4 DEF n

(* A dataset that can be encoded is parsed back, TLV for TLV: what encode    *)
(* writes (tlv.rs, the short form up to 254 bytes and the extended form up   *)
(* to 65535) is what parse reads.                                            *)
THEOREM TlvRoundTrip ==
    ASSUME NEW s \in Seq(TlvEntry), TlvSetEncode(s) # Err
    PROVE  TlvSetEncode(s)[1] \in Seq(Byte) /\ TlvSetParse(TlvSetEncode(s)[1]) = Ok(s)
<1> DEFINE n == Len(s)
           B == TlvSetEncode(s)[1]
<1>0. n \in Nat /\ \A k \in 1..n : s[k] \in TlvEntry
  OBVIOUS
<1>1. PICK out \in [0..n -> Seq(Seq(Byte))] :
        /\ TlvSetEncode(s) = out[n]
        /\ out[0] = Ok(<<>>)
        /\ \A k \in 1..n :
             out[k] = IF out[k - 1] = Err THEN Err
                      ELSE IF TlvEncode(s[k]) = Err THEN Err
                      ELSE Ok(out[k - 1][1] \o TlvEncode(s[k])[1])
  BY Encoding
<1>r. \A v \in Seq(Byte) : Ok(v) # Err /\ Ok(v)[1] = v
  BY Results
<1>2. \A k \in 0..n : out[k] # Err => out[k][1] \in Seq(Byte)
  <2>1. \A r \in Seq(Seq(Byte)) : r # Err => r[1] \in Seq(Byte)
    BY Results
  <2>2. \A k \in 0..n : out[k] \in Seq(Seq(Byte))
    OBVIOUS
  <2> QED
    BY <2>1, <2>2
<1>3. B \in Seq(Byte) /\ B = out[n][1] /\ out[n] # Err
  <2>1. n \in 0..n
    BY <1>0
  <2> HIDE DEF n
  <2> QED
    BY <1>1, <1>2, <2>1
<1> HIDE DEF n, B
<1>4. PICK parse \in [0..Len(B) -> Seq(Seq(TlvEntry))] :
        /\ TlvSetParse(B) = parse[Len(B)]
        /\ parse[0] = Ok(<<>>)
        /\ \A k \in 1..Len(B) : \A e, t :
             /\ parse_one(Drop(B, Len(B) - k)) = Ok([got |-> e, rest |-> t])
             /\ parse[Len(t)] # Err
             => parse[k] = Ok(<<e>> \o parse[Len(t)][1])
  BY <1>3, Parsing
<1> DEFINE Rest(j, t) == B = out[n - j][1] \o t /\ parse[Len(t)] = Ok(SubSeq(s, n - j + 1, n))
           T == {j \in 0..n : out[n - j] # Err /\ \E t \in Seq(Byte) : Rest(j, t)}
<1>5. 0 \in T
  <2>1. n - 0 = n /\ n - 0 + 1 = n + 1 /\ 0 \in 0..n /\ Len(<<>>) = 0 /\ <<>> \in Seq(Byte)
    BY <1>0
  <2>2. SubSeq(s, n + 1, n) = <<>>
    BY <1>0
  <2>3. B = out[n][1] \o <<>>
    BY <1>3
  <2>4. Rest(0, <<>>)
    BY <1>4, <2>1, <2>2, <2>3
  <2> HIDE DEF Rest
  <2> QED
    BY <1>3, <2>1, <2>4
<1>6. ASSUME NEW j \in 1..n, j - 1 \in T
      PROVE  j \in T
  <2> DEFINE k == n - j + 1
  <2>1. /\ k \in 1..n /\ n - (j - 1) = k /\ n - (j - 1) + 1 = k + 1 /\ n - j = k - 1
        /\ n - j + 1 = k /\ k - 1 \in 0..n /\ j \in 0..n
    BY <1>0
  <2> HIDE DEF k
  <2>2. PICK t \in Seq(Byte) : Rest(j - 1, t)
    BY <1>6
  <2>3. out[k] # Err /\ B = out[k][1] \o t /\ parse[Len(t)] = Ok(SubSeq(s, k + 1, n))
    BY <1>6, <2>1, <2>2
  <2> HIDE DEF T, Rest
  <2>4. /\ out[k - 1] # Err /\ TlvEncode(s[k]) # Err
        /\ out[k] = Ok(out[k - 1][1] \o TlvEncode(s[k])[1])
    BY <1>1, <2>1, <2>3
  <2> DEFINE h == out[k - 1][1]
             e == s[k]
             w == TlvEncode(e)[1]
             u == w \o t
             q == SubSeq(s, k + 1, n)
  <2>5. h \in Seq(Byte)
    BY <1>2, <2>1, <2>4
  <2>6. e \in TlvEntry /\ TlvEncode(e) # Err
    BY <1>0, <2>1, <2>4
  <2>7. out[k] = Ok(h \o w)
    BY <2>4
  <2> HIDE DEF h, e
  <2>8. w \in Seq(Byte) /\ w # <<>> /\ parse_one(u) = Ok([got |-> e, rest |-> t])
    BY <2>6, ParseWritten
  <2> HIDE DEF w
  <2>9. h \o w \in Seq(Byte) /\ u \in Seq(Byte)
    BY <2>5, <2>8
  <2>10. B = (h \o w) \o t
    BY <1>r, <2>3, <2>7, <2>9
  <2>11. (h \o w) \o t = h \o u
    BY <2>5, <2>8, ConcatAssociative
  <2>12. Len(u) \in 1..Len(B) /\ Len(B) - Len(u) = Len(h)
    <3>1. Len(B) = Len(h) + Len(u) /\ Len(u) = Len(w) + Len(t)
      BY <2>5, <2>8, <2>9, <2>10, <2>11
    <3>2. Len(w) \in Nat /\ Len(t) \in Nat /\ Len(h) \in Nat /\ Len(w) # 0
      BY <2>5, <2>8
    <3> HIDE DEF u
    <3> QED
      BY <3>1, <3>2
  <2>13. B = h \o u
    BY <2>10, <2>11
  <2> HIDE DEF u
  <2>14. Drop(B, Len(B) - Len(u)) = u
    <3>1. Drop(h \o u, Len(h)) = u
      BY <2>5, <2>9, AfterHeader
    <3> QED
      BY <2>12, <2>13, <3>1
  <2>15. q \in Seq(TlvEntry) /\ <<e>> \o q = SubSeq(s, k, n)
    BY <1>0, <2>1, Consed DEF n, e
  <2> HIDE DEF q
  <2>16. parse[Len(t)] # Err /\ parse[Len(t)][1] = q
    <3>1. Ok(q) # Err /\ Ok(q)[1] = q
      BY <2>15, Results
    <3> QED
      BY <2>3, <3>1 DEF q
  <2>17. parse[Len(u)] = Ok(<<e>> \o q)
    <3>1. parse_one(Drop(B, Len(B) - Len(u))) = Ok([got |-> e, rest |-> t])
      BY <2>8, <2>14 DEF u
    <3> QED
      BY <1>4, <2>12, <2>16, <3>1
  <2>18. Rest(j, u)
    BY <2>1, <2>13, <2>15, <2>17 DEF Rest, h
  <2> QED
    BY <2>1, <2>4, <2>9, <2>18 DEF T
<1>7. n \in T
  <2>1. \A j \in 1..n : j - 1 \in T => j \in T
    BY <1>6
  <2>2. n \in 0..n
    BY <1>0
  <2> HIDE DEF T
  <2> QED
    BY <1>0, <1>5, <2>1, <2>2, CountingUp
<1>8. PICK t \in Seq(Byte) : B = out[0][1] \o t /\ parse[Len(t)] = Ok(SubSeq(s, 1, n))
  <2>1. n - n = 0 /\ n - n + 1 = 1
    BY <1>0
  <2>2. PICK t \in Seq(Byte) : Rest(n, t)
    <3> HIDE DEF Rest
    <3> QED
      BY <1>7
  <2>3. B = out[n - n][1] \o t /\ parse[Len(t)] = Ok(SubSeq(s, n - n + 1, n))
    BY <2>2
  <2> HIDE DEF T, Rest
  <2>4. B = out[0][1] \o t /\ parse[Len(t)] = Ok(SubSeq(s, 1, n))
    BY <2>1, <2>3
  <2> QED
    BY <2>4
<1>9. out[0][1] = <<>>
  <2>1. <<>> \in Seq(Byte) /\ out[0] = Ok(<<>>)
    BY <1>1
  <2>2. Ok(<<>>)[1] = <<>>
    BY <1>r, <2>1
  <2> QED
    BY <2>1, <2>2
<1>10. B = t /\ SubSeq(s, 1, n) = s
  BY <1>8, <1>9 DEF n
<1> QED
  BY <1>3, <1>4, <1>8, <1>10 DEF B

-----------------------------------------------------------------------------
(* A dataset edited, saved and loaded.                                       *)

(* A security policy of four bytes is read as two words.                     *)
LEMMA PolicyRead ==
    ASSUME NEW v \in Seq(Byte), Len(v) = 4
    PROVE  /\ from16(v) \in Word /\ from16(Drop(v, 2)) \in Word
           /\ PolicyParse(v) = Ok([rotation_time |-> from16(v), flags |-> from16(Drop(v, 2))])
           /\ Policy(v) = [rotation_time |-> from16(v),
                           version |-> version_threshold_for_routing(from16(Drop(v, 2))),
                           other |-> OtherFlags(from16(Drop(v, 2)))]
<1> DEFINE r == from16(v)
           f == from16(Drop(v, 2))
           p == [rotation_time |-> r, flags |-> f]
<1>1. Len(v) >= 4
  OBVIOUS
<1>2. r \in Word /\ f \in Word
  BY <1>1, ThirdAndFourth, WordType
<1>3. read_array(4, v) = Ok(v)
  BY DEF read_array
<1>4. \A x : Ok(x) # Err /\ Ok(x)[1] = x
  BY DEF Ok, Err
<1>5. PolicyParse(v) = Ok(p)
  BY <1>3, <1>4 DEF PolicyParse, Then
<1>6. p.rotation_time = r /\ p.flags = f
  OBVIOUS
<1>7. PolicyParse(v) # Err /\ PolicyParse(v)[1] = p
  BY <1>4, <1>5
<1> HIDE DEF r, f, p
<1>8. Policy(v) = [rotation_time |-> r, version |-> version_threshold_for_routing(f),
                   other |-> OtherFlags(f)]
  BY <1>6, <1>7 DEF Policy
<1> QED
  BY <1>2, <1>5, <1>8 DEF r, f, p

(* A security policy is read as it was written.                              *)
LEMMA PolicyWritten ==
    ASSUME NEW r \in Word, NEW f \in Word
    PROVE  /\ PolicyToValue([rotation_time |-> r, flags |-> f]) \in Seq(Byte)
           /\ Policy(PolicyToValue([rotation_time |-> r, flags |-> f])) =
                [rotation_time |-> r, version |-> version_threshold_for_routing(f),
                 other |-> OtherFlags(f)]
<1> DEFINE x == be16(r)
           y == be16(f)
           v == x \o y
<1>1. x \in Seq(Byte) /\ Len(x) = 2 /\ from16(x) = r
  BY WordRead
<1>2. y \in Seq(Byte) /\ Len(y) = 2 /\ from16(y) = f
  BY WordRead
<1>3. PolicyToValue([rotation_time |-> r, flags |-> f]) = v
  BY DEF PolicyToValue
<1> HIDE DEF x, y
<1>4. v \in Seq(Byte) /\ Len(v) = 4 /\ Drop(v, 2) = y /\ v[1] = x[1] /\ v[2] = x[2]
  <2>1. Len(v) = Len(x) + Len(y)
    BY <1>1, <1>2, ConcatProperties
  <2>2. v = x \o y
    OBVIOUS
  <2> HIDE DEF v
  <2>3. /\ v \in Seq(Byte) /\ Len(v) >= Len(x)
        /\ \A i \in 1..Len(x) : v[i] = x[i]
        /\ Drop(v, Len(x)) = y
    <3>1. x \in Seq(Byte) /\ y \in Seq(Byte)
      BY <1>1, <1>2
    <3> QED
      BY <2>2, <3>1, Headed
  <2>4. 2 + 2 = 4 /\ 1 \in 1..2 /\ 2 \in 1..2
    OBVIOUS
  <2> QED
    BY <1>1, <1>2, <2>1, <2>3, <2>4
<1> HIDE DEF v
<1>5. from16(v) = r /\ from16(Drop(v, 2)) = f
  BY <1>1, <1>2, <1>4, WordOf
<1>6. Policy(v) = [rotation_time |-> r, version |-> version_threshold_for_routing(f),
                   other |-> OtherFlags(f)]
  BY <1>4, <1>5, PolicyRead
<1> QED
  BY <1>3, <1>4, <1>6

(* What a value says, and that no value says nothing.                        *)
LEMMA SaidOf ==
    ASSUME NEW ty
    PROVE  /\ Says(ty, Err) = Err
           /\ \A v : Says(ty, Ok(v)) = Ok(IF ty = TLV_SECURITY_POLICY THEN Policy(v) ELSE v)
<1>1. \A v : Ok(v) # Err /\ Ok(v)[1] = v
  BY DEF Ok, Err
<1> QED
  BY <1>1 DEF Says, Then

(* The last value of a type is a value of one of its TLVs.                   *)
LEMMA LastType ==
    ASSUME NEW s \in Seq(TlvEntry), NEW ty, last_value(s, ty) # Err
    PROVE  \E v \in Seq(Byte) : last_value(s, ty) = Ok(v)
<1> DEFINE S == {i \in DOMAIN s : s[i].ty = ty}
<1>1. S # {} /\ last_value(s, ty) = Ok(s[Greatest(S)].value)
  BY DEF last_value, Greatest
<1>2. S \in SUBSET (1..Len(s)) /\ Len(s) \in Nat
  OBVIOUS
<1> HIDE DEF S
<1>3. Greatest(S) \in 1..Len(s)
  BY <1>1, <1>2, LastPosition
<1>4. s[Greatest(S)].value \in Seq(Byte)
  <2>1. s[Greatest(S)] \in TlvEntry
    BY <1>3
  <2> QED
    BY <2>1 DEF TlvEntry
<1> QED
  BY <1>1, <1>4

Reads(s) ==
    /\ s \in Seq(TlvEntry)
    /\ \A ty \in EditTypes : Says(ty, last_value(s, ty)) = meant[ty]
DatasetInv ==
    /\ part = "dataset"
    /\ meant = [ty \in EditTypes |-> meant[ty]]
    /\ \E s : /\ Reads(s)
              /\ \/ held = InMemory(s)
                 \/ \E b : held = Saved(b) /\ TlvSetParse(b) = Ok(s)

(* The two forms of a dataset.                                               *)
LEMMA Forms ==
    /\ \A s : InMemory(s).form = "tlvs" /\ InMemory(s).tlvs = s
    /\ \A b : Saved(b).form = "bytes" /\ Saved(b).bytes = b
BY DEF InMemory, Saved

(* A dataset in memory says what is meant.                                   *)
LEMMA HeldInMemory ==
    ASSUME DatasetInv, held.form = "tlvs"
    PROVE  Reads(held.tlvs)
<1>1. PICK s : Reads(s) /\ (held = InMemory(s) \/ \E b : held = Saved(b))
  BY DEF DatasetInv
<1>2. held = InMemory(s)
  BY <1>1, Forms
<1> QED
  BY <1>1, <1>2, Forms

(* The next state is right when the next dataset reads as what is meant.     *)
LEMMA NextInv ==
    ASSUME DatasetInv, part' = part, meant' = [ty \in EditTypes |-> meant'[ty]],
           NEW x \in Seq(TlvEntry),
           \A ty \in EditTypes : Says(ty, last_value(x, ty)) = meant'[ty],
           \/ held' = InMemory(x)
           \/ \E b : held' = Saved(b) /\ TlvSetParse(b) = Ok(x)
    PROVE  DatasetInv'
<1>1. part' = "dataset"
  BY DEF DatasetInv
<1>2. Reads(x)'
  BY DEF Reads
<1> QED
  BY <1>1, <1>2 DEF DatasetInv

(* A write of one type that says v keeps the other type as it is.            *)
LEMMA RawKeeps ==
    ASSUME DatasetInv, held.form = "tlvs", NEW ty \in EditTypes, NEW value \in Seq(Byte), NEW v,
           Says(ty, Ok(value)) = v,
           held' = InMemory(set_raw(held.tlvs, ty, value)),
           meant' = [meant EXCEPT ![ty] = v], UNCHANGED part
    PROVE  DatasetInv'
<1> DEFINE d == held.tlvs
           s == set_raw(d, ty, value)
<1>1. Reads(d) /\ ty \in Byte
  BY HeldInMemory DEF EditTypes, TLV_PAN_ID, TLV_SECURITY_POLICY, Byte
<1>2. d \in Seq(TlvEntry) /\ \A t \in EditTypes : Says(t, last_value(d, t)) = meant[t]
  BY <1>1 DEF Reads
<1> HIDE DEF d
<1>3. /\ s \in Seq(TlvEntry)
      /\ \A t : last_value(s, t) = IF t = ty THEN Ok(value) ELSE last_value(d, t)
  BY <1>1, <1>2, SetLast
<1>4. held' = InMemory(s)
  BY DEF d
<1>5. meant' = [t \in EditTypes |-> IF t = ty THEN v ELSE meant[t]]
  BY DEF DatasetInv
<1> HIDE DEF s
<1>6. \A t \in EditTypes : Says(t, last_value(s, t)) = meant'[t]
  BY <1>2, <1>3, <1>5
<1>7. meant' = [t \in EditTypes |-> meant'[t]]
  BY <1>5
<1> QED
  BY <1>3, <1>4, <1>6, <1>7, NextInv

(* SetThreshold writes what it says.                                         *)
LEMMA ThresholdKeeps ==
    ASSUME DatasetInv, NEW version \in Versions, SetThreshold(version)
    PROVE  DatasetInv'
<1> DEFINE ty == TLV_SECURITY_POLICY
           d == held.tlvs
           raw == last_value(d, ty)
           stored == accessor(d, ty)
           policy == PolicyParse(stored.value)[1]
           said == meant[ty][1]
           next == [rotation_time |-> policy.rotation_time,
                    flags |-> set_version_threshold_for_routing(policy.flags, version)]
           v == Ok([rotation_time |-> said.rotation_time, version |-> version,
                    other |-> said.other])
<1>1. /\ held.form = "tlvs" /\ stored.st = "present"
      /\ held' = InMemory(set_raw(d, ty, PolicyToValue(next)))
      /\ meant' = [meant EXCEPT ![ty] = v] /\ UNCHANGED part
  BY DEF SetThreshold
<1>2. ty \in EditTypes
  BY DEF EditTypes
<1>3. d \in Seq(TlvEntry) /\ Says(ty, raw) = meant[ty]
  BY <1>1, <1>2, HeldInMemory DEF Reads
<1> HIDE DEF d
<1>4. raw # Err /\ Len(raw[1]) = 4 /\ stored.value = raw[1]
  <2>1. ty \in DOMAIN FixedLength /\ FixedLength[ty] = 4
    BY DEF FixedLength, TLV_CHANNEL, TLV_PAN_ID, TLV_EXTENDED_PAN_ID, TLV_NETWORK_KEY,
           TLV_MESH_LOCAL_PREFIX, TLV_SECURITY_POLICY, TLV_ACTIVE_TIMESTAMP,
           TLV_PENDING_TIMESTAMP, TLV_DELAY_TIMER
  <2> DEFINE wrong == \/ ty \in DOMAIN FixedLength /\ Len(raw[1]) # FixedLength[ty]
                      \/ ty = TLV_CHANNEL_MASK /\ parse_all(raw[1]) = Err
  <2>2. stored = IF raw = Err THEN [st |-> "absent", value |-> <<>>]
                 ELSE IF wrong THEN [st |-> "invalid", value |-> <<>>]
                 ELSE [st |-> "present", value |-> raw[1]]
    BY DEF accessor
  <2> HIDE DEF stored, wrong, raw
  <2>3. raw # Err /\ ~wrong /\ stored.value = raw[1]
    BY <1>1, <2>2
  <2> HIDE DEF ty
  <2> QED
    BY <2>1, <2>3 DEF wrong
<1>5. PICK w \in Seq(Byte) : raw = Ok(w)
  BY <1>3, <1>4, LastType
<1>6. Len(w) = 4 /\ stored.value = w
  <2>1. Ok(w)[1] = w
    BY DEF Ok
  <2> QED
    BY <1>4, <1>5, <2>1
<1> HIDE DEF stored
<1> DEFINE r == from16(w)
           f == from16(Drop(w, 2))
<1>7. /\ r \in Word /\ f \in Word
        /\ PolicyParse(w) = Ok([rotation_time |-> r, flags |-> f])
        /\ Policy(w) = [rotation_time |-> r, version |-> version_threshold_for_routing(f),
                        other |-> OtherFlags(f)]
  BY <1>6, PolicyRead
<1> HIDE DEF r, f
<1>8. policy = [rotation_time |-> r, flags |-> f]
  BY <1>6, <1>7 DEF Ok
<1>9. said = Policy(w)
  <2>1. meant[ty] = Ok(Policy(w))
    BY <1>3, <1>5, SaidOf
  <2> HIDE DEF ty
  <2> QED
    BY <2>1 DEF Ok
<1>10. v = Ok([rotation_time |-> r, version |-> version, other |-> OtherFlags(f)])
  <2> HIDE DEF said
  <2>1. said.rotation_time = r /\ said.other = OtherFlags(f)
    BY <1>7, <1>9
  <2> QED
    BY <2>1
<1> HIDE DEF policy, said, v
<1> DEFINE g == set_version_threshold_for_routing(f, version)
<1>11. next = [rotation_time |-> r, flags |-> g]
  BY <1>8
<1>12. g \in Word /\ version_threshold_for_routing(g) = version
       /\ OtherFlags(g) = OtherFlags(f)
  BY <1>7, ThresholdSet
<1> HIDE DEF g, next
<1> DEFINE x == PolicyToValue(next)
<1>13. /\ x \in Seq(Byte)
       /\ Policy(x) = [rotation_time |-> r, version |-> version_threshold_for_routing(g),
                       other |-> OtherFlags(g)]
  BY <1>7, <1>11, <1>12, PolicyWritten
<1> HIDE DEF x
<1>14. Says(ty, Ok(x)) = v
  <2>1. Says(ty, Ok(x)) = Ok(Policy(x))
    BY SaidOf
  <2> QED
    BY <1>10, <1>12, <1>13, <2>1
<1>15. held' = InMemory(set_raw(held.tlvs, ty, x))
  BY <1>1 DEF x, d
<1> HIDE DEF ty
<1> QED
  BY <1>1, <1>2, <1>13, <1>14, <1>15, RawKeeps

(* remove_all leaves nothing of its type, and the other type as it is.       *)
LEMMA RemoveKeeps ==
    ASSUME DatasetInv, NEW ty \in EditTypes, RemoveAll(ty)
    PROVE  DatasetInv'
<1> DEFINE d == held.tlvs
           s == remove_all(d, ty)
<1>1. /\ held.form = "tlvs" /\ held' = InMemory(s)
      /\ meant' = [meant EXCEPT ![ty] = Err] /\ part' = part
  BY DEF RemoveAll
<1>2. d \in Seq(TlvEntry) /\ \A t \in EditTypes : Says(t, last_value(d, t)) = meant[t]
  BY <1>1, HeldInMemory DEF Reads
<1> HIDE DEF d
<1>3. /\ s \in Seq(TlvEntry)
      /\ \A t : last_value(s, t) = IF t = ty THEN Err ELSE last_value(d, t)
  BY <1>2, Removed
<1>4. meant' = [t \in EditTypes |-> IF t = ty THEN Err ELSE meant[t]]
  BY <1>1 DEF DatasetInv
<1> HIDE DEF s
<1>5. \A t \in EditTypes : Says(t, last_value(s, t)) = meant'[t]
  BY <1>2, <1>3, <1>4, SaidOf
<1>6. meant' = [t \in EditTypes |-> meant'[t]]
  BY <1>4
<1> QED
  BY <1>1, <1>3, <1>5, <1>6, NextInv

(* Save and Load go through the wire form and back.                          *)
LEMMA SavedAndLoaded ==
    ASSUME DatasetInv, Save \/ Load
    PROVE  DatasetInv'
<1>1. part' = part /\ meant' = meant
  BY DEF Save, Load
<1>2. CASE Save
  <2> DEFINE s == held.tlvs
             b == TlvSetEncode(s)[1]
  <2>1. held.form = "tlvs" /\ TlvSetEncode(s) # Err /\ held' = Saved(b)
    BY <1>2 DEF Save
  <2>2. Reads(s)
    BY <2>1, HeldInMemory
  <2>3. TlvSetParse(b) = Ok(s)
    BY <2>1, <2>2, TlvRoundTrip DEF Reads
  <2> HIDE DEF s, b
  <2>4. s \in Seq(TlvEntry) /\ \A ty \in EditTypes : Says(ty, last_value(s, ty)) = meant'[ty]
    BY <1>1, <2>2 DEF Reads
  <2>5. meant' = [ty \in EditTypes |-> meant'[ty]]
    BY <1>1 DEF DatasetInv
  <2> QED
    BY <1>1, <2>1, <2>3, <2>4, <2>5, NextInv
<1>3. CASE Load
  <2>1. held.form = "bytes" /\ held' = InMemory(TlvSetParse(held.bytes)[1])
    BY <1>3 DEF Load
  <2>2. PICK s, b : Reads(s) /\ held = Saved(b) /\ TlvSetParse(b) = Ok(s)
    <3>1. \A s : held # InMemory(s)
      BY <2>1, Forms
    <3> QED
      BY <3>1 DEF DatasetInv
  <2>3. held' = InMemory(s)
    <3>1. held.bytes = b
      BY <2>2, Forms
    <3>2. Ok(s)[1] = s
      BY DEF Ok
    <3> QED
      BY <2>1, <2>2, <3>1, <3>2
  <2>4. s \in Seq(TlvEntry) /\ \A ty \in EditTypes : Says(ty, last_value(s, ty)) = meant'[ty]
    BY <1>1, <2>2 DEF Reads
  <2>5. meant' = [ty \in EditTypes |-> meant'[ty]]
    BY <1>1 DEF DatasetInv
  <2> QED
    BY <1>1, <2>3, <2>4, <2>5, NextInv
<1> QED
  BY <1>2, <1>3

(* Whatever sequence of edits, threshold changes, saves and loads a dataset  *)
(* goes through (dataset.rs, tlv.rs), the PAN ID and the security policy     *)
(* read back as last written, and a threshold change touches no other flag:  *)
(* for datasets of any length with values of any length.                     *)
THEOREM DatasetReadsBackAlways == DatasetSpec => []DatasetReadsBack
<1>1. InitDataset => DatasetInv
  <2> SUFFICES ASSUME InitDataset PROVE DatasetInv
    OBVIOUS
  <2>1. PICK d \in Datasets : /\ meant = [ty \in EditTypes |-> Says(ty, last_value(d, ty))]
                              /\ held = InMemory(d)
    BY DEF InitDataset
  <2>2. Reads(d)
    BY <2>1, DatasetAssumption DEF Reads
  <2>3. meant = [ty \in EditTypes |-> meant[ty]]
    BY <2>1
  <2> QED
    BY <2>1, <2>2, <2>3 DEF InitDataset, DatasetInv
<1>2. DatasetInv /\ [EditDataset]_vars => DatasetInv'
  <2> SUFFICES ASSUME DatasetInv, [EditDataset]_vars PROVE DatasetInv'
    OBVIOUS
  <2>1. CASE UNCHANGED vars
    <3>1. part' = part /\ meant' = meant /\ held' = held
      BY <2>1 DEF vars
    <3> QED
      BY <3>1 DEF DatasetInv, Reads
  <2>2. ASSUME NEW e \in Edits, SetRaw(e)
        PROVE  DatasetInv'
    <3>1. e.ty \in EditTypes /\ e.value \in Seq(Byte)
      BY EditAssumption
    <3>2. /\ held.form = "tlvs" /\ held' = InMemory(set_raw(held.tlvs, e.ty, e.value))
          /\ meant' = [meant EXCEPT ![e.ty] = Says(e.ty, Ok(e.value))] /\ UNCHANGED part
      BY <2>2 DEF SetRaw
    <3> QED
      BY <3>1, <3>2, RawKeeps
  <2>3. ASSUME NEW ty \in EditTypes, RemoveAll(ty)
        PROVE  DatasetInv'
    BY <2>3, RemoveKeeps
  <2>4. ASSUME NEW version \in Versions, SetThreshold(version)
        PROVE  DatasetInv'
    BY <2>4, ThresholdKeeps
  <2>5. CASE Save \/ Load
    BY <2>5, SavedAndLoaded
  <2> QED
    BY <2>1, <2>2, <2>3, <2>4, <2>5 DEF EditDataset
<1>3. DatasetInv => DatasetReadsBack
  BY HeldInMemory DEF DatasetReadsBack, Reads
<1> QED
  BY <1>1, <1>2, <1>3, PTL DEF DatasetSpec

=============================================================================
