--------------------------------- MODULE Tlv ---------------------------------
(***************************************************************************)
(* read_tlv (der.rs): the value at the start of a buffer of bytes.         *)
(***************************************************************************)
EXTENDS Integers, SequencesExt

CONSTANT TagBits   \* the width of a tag number; 32 in the code

ASSUME TagBitsAssumption == TagBits \in Nat \ {0}

\* No value can be read.
None == [total |-> 0]

\* The position of the last byte of the tag; 0 when it does not end.
TagEnd(input) ==
    LET ends == {i \in 2..Len(input) : input[i] < 128}
    IN  IF input = << >> THEN 0
        ELSE IF input[1] % 32 # 31 THEN 1
        ELSE IF ends = {} THEN 0 ELSE Min(ends)

\* Mutant of TagAt: the continuation bit is taken for a part of the number.
TagAtWithBit(input) ==
    IF input[1] % 32 # 31 THEN input[1] % 32
    ELSE FoldLeft(LAMBDA t, b : (t * 128 + b) % (2^TagBits), 0,
                  SubSeq(input, 2, TagEnd(input)))

\* A high tag number is shifted in seven bits at a time; what does not fit is lost.
TagAt(input) ==
    IF input[1] % 32 # 31 THEN input[1] % 32
    ELSE FoldLeft(LAMBDA t, b : (t * 128 + (b % 128)) % (2^TagBits), 0,
                  SubSeq(input, 2, TagEnd(input)))

\* The bytes the length takes when its first one is b: the long form gives their number.
LengthBytes(b) == IF b < 128 THEN 0 ELSE b - 128
BigEndian(bytes) == FoldLeft(LAMBDA l, b : l * 256 + b, 0, bytes)

\* Lengths of no or more than four bytes are refused, and so is what does not fit in
\* the buffer.
ReadTlv(input) ==
    LET at     == TagEnd(input) + 1
        n      == LengthBytes(input[at])
        start  == at + n
        length == IF input[at] < 128 THEN input[at] ELSE BigEndian(SubSeq(input, at + 1, start))
    IN  IF \/ TagEnd(input) = 0 \/ at > Len(input)
           \/ input[at] >= 128 /\ n \notin 1..4
           \/ start > Len(input) \/ start + length > Len(input)
        THEN None
        ELSE [class |-> input[1] \div 64, constructed |-> (input[1] \div 32) % 2 = 1,
              tag |-> TagAt(input), content |-> SubSeq(input, start + 1, start + length),
              total |-> start + length]
=============================================================================
