----------------------------- MODULE Encodings -----------------------------
(***************************************************************************)
(* Numbers of variable length: read_uleb of mod.rs (DEX), compressed_uint  *)
(* of dotnet.rs and read_uint of lua.rs, beside their encoders.            *)
(*                                                                         *)
(* A byte has Bits + 1 bits here (8 in the code) and a word WordBits (32);  *)
(* a ULEB128 number may take MaxBytes of them.  `out' is the value so far. *)
(***************************************************************************)
EXTENDS Integers, SequencesExt

CONSTANTS Bits, WordBits, MaxBytes,
          Numbers    \* [format, value, bytes]: what is written, with at least so many bytes

VARIABLES input, pos, stack, out, status

vars == <<input, pos, stack, out, status>>

Byte == 2 ^ (Bits + 1)
Half == 2 ^ Bits          \* 0x80, the flag that more follows
Word == 2 ^ WordBits
Middle  == Half + (Half \div 2)     \* 0xc0
Lengths == Middle + (Half \div 4)   \* 0xe0

-----------------------------------------------------------------------------
(***************************************************************************)
(* The formats.                                                            *)
(***************************************************************************)
\* ULEB128: low digits first, all but the last one flagged; zeros may pad it.
Uleb(v, n) == [i \in 1 .. n |-> ((v \div (Half ^ (i - 1))) % Half) + IF i < n THEN Half ELSE 0]

\* ECMA-335 II.23.2: one byte below 0x80, two below 0x4000, else four, big-endian,
\* the length in the high bits of the first.
Compressed(v, n) ==
  CASE n = 0 -> <<Lengths + v>>     \* reserved: begins no number
    [] n = 1 -> <<v>>
    [] n = 2 -> <<Half + (v \div Byte), v % Byte>>
    [] n = 4 -> <<Middle + (v \div (Byte ^ 3)), (v \div (Byte ^ 2)) % Byte, (v \div Byte) % Byte, v % Byte>>

Fixed(v, n) == [i \in 1 .. n |-> (v \div (Byte ^ (i - 1))) % Byte]

Encode(w) == CASE w.format = "uleb"       -> Uleb(w.value, w.bytes)
               [] w.format = "compressed" -> Compressed(w.value, w.bytes)
               [] w.format = "little"     -> Fixed(w.value, w.bytes)
               [] w.format = "big"        -> Reverse(Fixed(w.value, w.bytes))

-----------------------------------------------------------------------------
Init ==
  /\ \E w \in Numbers :
       input = [written |-> w, bytes |-> SubSeq(Encode(w), 1, Len(Encode(w)) - w.cut)]
  /\ pos = 1 /\ stack = <<>> /\ out = 0
  /\ status = "reading"

Format  == input.written.format
Next1   == input.bytes[pos]
HasByte == pos <= Len(input.bytes)

\* Mutant: each digit of a ULEB128 number has a whole byte's bits.
WholeByte(byte, n) == (byte % Half) * (Byte ^ n)

\* `u32::from(byte & 0x7f) << shift': the bits of the last digit past the word are lost.
Digit(byte, n) == ((byte % Half) * (Half ^ n)) % Word

ReadUlebByte ==
  /\ status = "reading"
  /\ Format = "uleb" /\ HasByte /\ pos <= MaxBytes
  /\ out' = out + Digit(Next1, pos - 1)
  /\ pos' = pos + 1
  /\ status' = IF Next1 < Half THEN "done" ELSE "reading"
  /\ UNCHANGED <<input, stack>>

UlebTooLarge ==
  /\ status = "reading"
  /\ Format = "uleb" /\ pos > MaxBytes
  /\ status' = "too large"
  /\ UNCHANGED <<input, pos, stack, out>>

Unflagged(first) == IF first < Middle THEN first % (Half \div 2) ELSE first % (Half \div 4)

\* The number of bytes that the first one announces.
Announced(first) == CASE first < Half -> 1
                      [] Half <= first /\ first < Middle -> 2
                      [] OTHER -> 4

ReadCompressed ==
  /\ status = "reading"
  /\ Format = "compressed" /\ HasByte
  /\ Next1 < Lengths
  /\ LET n == Announced(Next1)
     IN  /\ n <= Len(input.bytes)
         /\ out' = FoldLeft(LAMBDA v, i : v * Byte + input.bytes[i],
                            IF n = 1 THEN Next1 ELSE Unflagged(Next1), [i \in 1 .. n - 1 |-> i + 1])
         /\ pos' = pos + n
  /\ status' = "done"
  /\ UNCHANGED <<input, stack>>

\* 0xe0 and above begins no number.
BadCompressed ==
  /\ status = "reading"
  /\ Format = "compressed" /\ HasByte
  /\ Next1 >= Lengths
  /\ status' = "invalid"
  /\ UNCHANGED <<input, pos, stack, out>>

\* Lua's numbers, of the sizes and in the order its header gives.
ReadFixed ==
  /\ status = "reading"
  /\ Format \in {"little", "big"}
  /\ Len(input.bytes) >= input.written.bytes
  /\ LET byBig == IF Format = "big" THEN input.bytes ELSE Reverse(input.bytes)
     IN  out' = FoldLeft(LAMBDA v, b : v * Byte + b, 0, byBig)
  /\ pos' = pos + input.written.bytes
  /\ status' = "done"
  /\ UNCHANGED <<input, stack>>

Truncated ==
  /\ status = "reading"
  /\ \/ Format = "uleb" /\ ~HasByte /\ pos <= MaxBytes
     \/ Format = "compressed" /\ ~HasByte
     \/ /\ Format = "compressed" /\ HasByte
        /\ Next1 < Lengths /\ Announced(Next1) > Len(input.bytes)
     \/ Format \in {"little", "big"} /\ Len(input.bytes) < input.written.bytes
  /\ status' = "end"
  /\ UNCHANGED <<input, pos, stack, out>>

Next == \/ ReadUlebByte \/ UlebTooLarge
        \/ ReadCompressed \/ BadCompressed
        \/ ReadFixed \/ Truncated

Spec == Init /\ [][Next]_vars

-----------------------------------------------------------------------------
\* What was written is read, and all of it is consumed: a number of whatever length,
\* shortest or padded, that fits a word comes back as it was; one that is cut off, has
\* too many bytes or begins like none is refused; nothing read exceeds a word.  (Of a
\* ULEB128 number that is wider than a word the high bits are lost.)
NumbersReadBack ==
  status # "reading" =>
    LET w == input.written
    IN  /\ status = "done" => out < Word /\ pos = Len(input.bytes) + 1 /\ w.cut = 0
        /\ status = "done" /\ w.value < Word => out = w.value
        /\ w.cut = 0 => (status = "done" <=>
             w.bytes > 0 /\ (w.format = "uleb" => w.bytes <= MaxBytes))
=============================================================================
