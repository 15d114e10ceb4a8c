------------------------------ MODULE TealOps ------------------------------
(***************************************************************************)
(* The opcodes of packages/runtime/src/interpreter/opcode-list.ts that only  *)
(* look at the values they pop.  prev was pushed before last.  An operator   *)
(* is the set of what the opcode may push, a sequence of words or one byte   *)
(* string: empty when it throws, of one element when it succeeds.            *)
(*                                                                           *)
(* Words are JavaScript bigints: unbounded, and negative once ~ was used.    *)
(* WordBytes bytes of ByteBits bits make a word (8 and 8 in the code).       *)
(***************************************************************************)
EXTENDS Integers, Sequences

CONSTANTS ByteBits, WordBytes, MAX_CONCAT_SIZE, Hash(_, _)

ASSUME WidthAssumption ==
    /\ ByteBits \in Nat \ {0}
    /\ WordBytes \in Nat \ {0}
    /\ MAX_CONCAT_SIZE \in Nat

WordBits == ByteBits * WordBytes
MAX_UINT8 == 2^ByteBits - 1
MAX_UINT64 == 2^WordBits - 1
MAX_UINT6 == WordBits - 1
Bytes == Seq(0..MAX_UINT8)

Only(cond, pushed) == IF cond THEN {pushed} ELSE {}
Truth(cond) == {<<IF cond THEN 1 ELSE 0>>}
Abs(n) == IF n < 0 THEN -n ELSE n

-----------------------------------------------------------------------------
(* Arithmetic *)

\* Faulty variant of Add: no check of the sum.
AddUnchecked(prev, last) == {<<prev + last>>}
Add(prev, last) == Only(prev + last <= MAX_UINT64, <<prev + last>>)
Sub(prev, last) == Only(prev - last >= 0, <<prev - last>>)
Mul(prev, last) == Only(prev * last <= MAX_UINT64, <<prev * last>>)

\* Division of bigints rounds to zero.
Quotient(a, b) == (IF (a < 0) = (b < 0) THEN 1 ELSE -1) * (Abs(a) \div Abs(b))
Div(prev, last) == IF last = 0 THEN {} ELSE {<<Quotient(prev, last)>>}
Mod(prev, last) == IF last = 0 THEN {} ELSE {<<prev - last * Quotient(prev, last)>>}

BitAt(n, i) == (n \div 2^i) % 2
Digits(n) == CHOOSE d \in 1..(Abs(n) + 1) : 2^d > Abs(n) /\ (d = 1 \/ 2^(d-1) <= Abs(n))

\* Bits of two's complement integers without a width: the sign goes on before the digits.
BitsAnd(a, b) ==
    LET width == IF Digits(a) < Digits(b) THEN Digits(b) ELSE Digits(a)
        upTo[i \in 0..width] ==
            IF i = 0 THEN (IF a < 0 /\ b < 0 THEN -1 ELSE 0)
            ELSE upTo[i - 1] * 2 + BitAt(a, width - i) * BitAt(b, width - i)
    IN  upTo[width]

BitwiseAnd(prev, last) == {<<BitsAnd(prev, last)>>}
BitwiseOr(prev, last) == {<<prev + last - BitsAnd(prev, last)>>}
BitwiseXor(prev, last) == {<<prev + last - 2 * BitsAnd(prev, last)>>}
BitwiseNot(last) == {<<-last - 1>>}

\* Carry or high word first, the low word on top.
Addw(prev, last) ==
    LET sum == prev + last
    IN  IF sum > MAX_UINT64 THEN {<<1, sum - MAX_UINT64 - 1>>} ELSE {<<0, sum>>}
Mulw(prev, last) ==
    LET high == (prev * last) \div 2^WordBits
        low  == (prev * last) % 2^WordBits
    IN  Only(high <= MAX_UINT64, <<high, low>>)

LessThan(prev, last) == Truth(prev < last)
GreaterThan(prev, last) == Truth(prev > last)
LessThanEqualTo(prev, last) == Truth(prev <= last)
GreaterThanEqualTo(prev, last) == Truth(prev >= last)
And(prev, last) == Truth(prev # 0 /\ last # 0)
Or(prev, last) == Truth(prev # 0 \/ last # 0)
Not(last) == Truth(last = 0)

\* Of two words, or of two byte strings.
EqualTo(prev, last) == Truth(prev = last)
NotEqualTo(prev, last) == Truth(prev # last)

-----------------------------------------------------------------------------
(* Words and byte strings *)

Encode(n) == [i \in 1..WordBytes |->
                (n \div 2^(ByteBits * (WordBytes - i))) % 2^ByteBits]
Decode(b) ==
    LET upTo[i \in 0..Len(b)] ==
            IF i = 0 THEN 0 ELSE upTo[i - 1] * 2^ByteBits + b[i]
    IN  upTo[Len(b)]

Itob(last) == Only(last \in 0..MAX_UINT64, Encode(last))
Btoi(last) == Only(Len(last) \in 1..WordBytes, <<Decode(last)>>)

BytesLen(last) == {<<Len(last)>>}
Concat(prev, last) == Only(Len(prev) + Len(last) <= MAX_CONCAT_SIZE, prev \o last)

\* Uint8Array.slice counts a negative position from the end.
Position(n, b) == IF n >= 0 THEN n ELSE IF Len(b) + n > 0 THEN Len(b) + n ELSE 0
Slice(b, start, end) == SubSeq(b, Position(start, b) + 1, Position(end, b))
InRangeOf(b, start, end) == start <= end /\ start <= Len(b) /\ end <= Len(b)

Substring3(b, start, end) == Only(InRangeOf(b, start, end), Slice(b, start, end))
Substring(b, start, end) ==
    Only({start, end} \subseteq 0..MAX_UINT8 /\ InRangeOf(b, start, end),
         Slice(b, start, end))

Sha256(b) == {Hash("sha256", b)}
Sha512_256(b) == {Hash("sha512_256", b)}
Keccak256(b) == {Hash("keccak256", b)}

-----------------------------------------------------------------------------
(* Bits and bytes.  Bit 0 of a byte string is the highest of its first byte. *)

WithBit(n, i, bit) == n + (bit - BitAt(n, i)) * 2^i
ByteOf(index) == index \div ByteBits
InByte(index) == ByteBits - 1 - (index % ByteBits)
BitValue(bit) == IF bit = 0 THEN 0 ELSE 1

\* The digits of |n|; a negative index appends digits.
SetBitOfWord(n, index, bit) ==
    Only(bit <= 1 /\ index <= MAX_UINT6,
         <<IF index >= 0 THEN WithBit(Abs(n), index, BitValue(bit))
           ELSE Abs(n) * 2^(-index) + BitValue(bit)>>)

\* toString(2) is not padded: a digit beyond the highest set bit throws.
GetBitOfWord(n, index) ==
    Only(index <= MAX_UINT6 /\ index \in 0..(Digits(n) - 1), <<BitAt(Abs(n), index)>>)

\* An assignment at a negative index of a Uint8Array has no effect.
SetBitOfBytes(b, index, bit) ==
    Only(bit <= 1 /\ ByteOf(index) < Len(b),
         IF index < 0 THEN b
         ELSE [b EXCEPT ![ByteOf(index) + 1] = WithBit(@, InByte(index), IF bit = 1 THEN 1 ELSE 0)])
GetBitOfBytes(b, index) ==
    IF index \in 0..(Len(b) * ByteBits - 1)
    THEN {<<BitAt(b[ByteOf(index) + 1], InByte(index))>>} ELSE {}

SetByte(b, index, value) ==
    Only(value \in 0..MAX_UINT8 /\ index < Len(b),
         IF index < 0 THEN b ELSE [b EXCEPT ![index + 1] = value])
GetByte(b, index) == IF index \in 0..(Len(b) - 1) THEN {<<b[index + 1]>>} ELSE {}
=============================================================================
