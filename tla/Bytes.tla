-------------------------------- MODULE Bytes --------------------------------
(***************************************************************************)
(* What the codecs share: results, big-endian integers, length-checked     *)
(* reads and the loop that parses a buffer to its end.                     *)
(*                                                                         *)
(* A fallible operation returns Err or Ok(v).  A u64 or u48 is a sequence  *)
(* of 16-bit words, most significant first, since it exceeds what the      *)
(* model checker can count to.                                             *)
(***************************************************************************)
EXTENDS Integers, Sequences

Err == <<>>
Ok(v) == <<v>>

\* The value of r mapped by F, or the error r is.
Then(r, F(_)) == IF r = Err THEN Err ELSE F(r[1])

Byte == 0..255
Drop(bytes, n) == SubSeq(bytes, n + 1, Len(bytes))
Repeat(b, n) == [i \in 1..n |-> b]

\* u16::to_be_bytes, write_u24 and the two reads.
be16(n) == <<(n \div 256) % 256, n % 256>>
be24(n) == <<(n \div 65536) % 256>> \o be16(n)
from16(b) == 256 * b[1] + b[2]
from24(b) == 65536 * b[1] + 256 * b[2] + b[3]

\* Bitwise operations on u16: the bits, the least significant first.
Weight == <<1, 2, 4, 8, 16, 32, 64, 128, 256, 512, 1024, 2048, 4096, 8192, 16384, 32768>>
BitOf(n, i) == (n \div Weight[i]) % 2
Number(b) ==
    b[1] + 2 * b[2] + 4 * b[3] + 8 * b[4] + 16 * b[5] + 32 * b[6] + 64 * b[7] + 128 * b[8]
    + 256 * b[9] + 512 * b[10] + 1024 * b[11] + 2048 * b[12] + 4096 * b[13] + 8192 * b[14]
    + 16384 * b[15] + 32768 * b[16]
Xor[p \in Nat \X Nat] ==
    Number([i \in 1..16 |-> (BitOf(p[1], i) + BitOf(p[2], i)) % 2])
Or(m, n) == Number([i \in 1..16 |-> IF BitOf(m, i) = 1 THEN 1 ELSE BitOf(n, i)])

\* The words of a wide integer as bytes and back.
BytesOfWords(words) ==
    [i \in 1..(2 * Len(words)) |-> be16(words[(i + 1) \div 2])[2 - (i % 2)]]
WordsOf(bytes) ==
    [i \in 1..(Len(bytes) \div 2) |-> 256 * bytes[2 * i - 1] + bytes[2 * i]]

\* <[T; N]>::try_from: a value of exactly n bytes.
read_array(n, value) == IF Len(value) = n THEN Ok(value) ELSE Err

\* Cursor::read_exact: the next n bytes and the rest.
read_exact(n, bytes) ==
    IF Len(bytes) < n THEN Err
    ELSE Ok([got |-> SubSeq(bytes, 1, n), rest |-> Drop(bytes, n)])

\* A one-byte or a two-byte length, then that many bytes.
read_vec_u8(bytes) ==
    Then(read_exact(1, bytes), LAMBDA l : read_exact(l.got[1], l.rest))
read_vec_u16(bytes) ==
    Then(read_exact(2, bytes), LAMBDA l : read_exact(from16(l.got), l.rest))

\* while !bytes.is_empty() { push(One(bytes)?); bytes = rest }, with the number
\* of bytes that are left
ParseAll(One(_), bytes) ==
    LET parse[left \in 0..Len(bytes)] ==
            IF left = 0 THEN Ok(<<>>)
            ELSE Then(One(Drop(bytes, Len(bytes) - left)), LAMBDA one :
                   Then(parse[Len(one.rest)], LAMBDA more : Ok(<<one.got>> \o more)))
    IN  parse[Len(bytes)]

\* for one in seq { out.extend(One(one)?) }
EncodeAll(One(_), seq) ==
    LET out[n \in 0..Len(seq)] ==
            IF n = 0 THEN Ok(<<>>)
            ELSE Then(out[n - 1], LAMBDA done :
                   Then(One(seq[n]), LAMBDA one : Ok(done \o one)))
    IN  out[Len(seq)]

===============================================================================
