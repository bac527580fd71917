----------------------------- MODULE Conditions -----------------------------
(***************************************************************************)
(* Conditions of branches: the comparison that enhance_function remembers  *)
(* along a block, and the expression condition_expression makes of it       *)
(* (src/src/engines/native_v050/lift.rs), beside the flags of the processor. *)
(*                                                                         *)
(* A behaviour is a block: each step is one instruction, printed and run.  *)
(* Any conditional branch may end the block in any state.                  *)
(***************************************************************************)
EXTENDS SymbolicState

CONSTANTS
  Half,             \* half the numbers of a register: the least with the sign bit
  Sources,          \* second operands: registers, and numbers of Word
  MaxLength         \* instructions in the block

Modulus == 2 * Half
Word    == 0 .. Modulus - 1

ASSUME WidthAssumption == Half \in Nat \ {0} /\ MaxLength \in Nat

ASSUME SourceAssumption ==
  \A src \in Sources : \/ src.kind = "register" /\ src.of \in Registers
                       \/ src.kind = "value" /\ src.of \in {Value(n) : n \in Word}

VARIABLES
  entry, regs,      \* the registers when the function was entered, and now
  flags,            \* zf, sf, of and cf
  state,            \* SymbolicState at the instruction
  comparison,       \* Option<Comparison>, as a sequence
  length,           \* instructions so far
  setter, held      \* history: who set the flags last, the values last compared

vars == <<entry, regs, flags, state, comparison, length, setter, held>>

-----------------------------------------------------------------------------
(***************************************************************************)
(* The processor.                                                          *)
(***************************************************************************)
Signed(v) == IF v >= Half THEN v - Modulus ELSE v

Negative(v) == Signed(v) < 0

\* The bits that v and w share.
And[v \in Word] == [w \in Word |->
  IF v = 0 \/ w = 0 THEN 0 ELSE 2 * And[v \div 2][w \div 2] + (v % 2) * (w % 2)]

ResultFlags(v, of, cf) == [zf |-> v = 0, sf |-> Negative(v), of |-> of, cf |-> cf]

CmpFlags(v, w) ==
  LET r == (v - w) % Modulus
  IN  ResultFlags(r, Signed(v) - Signed(w) # Signed(r), v < w)

TestFlags(v, w) == ResultFlags(And[v][w], FALSE, FALSE)

AddFlags(v, w) ==
  LET r == (v + w) % Modulus
  IN  ResultFlags(r, Signed(v) + Signed(w) # Signed(r), v + w >= Modulus)

\* Whether the branch is taken, as the processor decides it.
Taken(m) ==
  CASE m = "je"  -> flags.zf
    [] m = "jne" -> ~flags.zf
    [] m = "jl"  -> flags.sf # flags.of
    [] m = "jle" -> flags.zf \/ flags.sf # flags.of
    [] m = "jg"  -> ~flags.zf /\ flags.sf = flags.of
    [] m = "jge" -> flags.sf = flags.of
    [] m = "jb"  -> flags.cf
    [] m = "jbe" -> flags.cf \/ flags.zf
    [] m = "ja"  -> ~flags.cf /\ ~flags.zf
    [] m = "jae" -> ~flags.cf

\* One of each set of synonyms that condition_expression matches.
Mnemonics == {"je", "jne", "jl", "jle", "jg", "jge", "jb", "jbe", "ja", "jae"}

Number(src) == IF src.kind = "register" THEN regs[src.of] ELSE src.of[1][2]

-----------------------------------------------------------------------------
(***************************************************************************)
(* The comparison and its expression.                                      *)
(***************************************************************************)

\* Mutant: a test against itself is no special case.
NeverZero(c) == FALSE

ZeroTest(c) == c.kind = "test" /\ c.left = c.right

\* condition_expression: the relation printed, and its right-hand side.
Relation(m) ==
  CASE m = "je"  -> "=="
    [] m = "jne" -> "!="
    [] m = "jl"  -> "signed <"
    [] m = "jle" -> "signed <="
    [] m = "jg"  -> "signed >"
    [] m = "jge" -> "signed >="
    [] m = "jb"  -> "<"
    [] m = "jbe" -> "<="
    [] m = "ja"  -> ">"
    [] m = "jae" -> ">="

RightHand(c, m) == IF ZeroTest(c) /\ m \in {"je", "jne"} THEN Value(0) ELSE c.right

Says(e) == Meaning(e, entry, regs, Modulus)

\* What a reader takes the printed condition to be.
Reads(c, m) ==
  LET v == Says(c.left)
      w == Says(RightHand(c, m))
      r == Relation(m)
  IN  CASE r = "=="        -> v = w
        [] r = "!="        -> v # w
        [] r = "signed <"  -> Signed(v) < Signed(w)
        [] r = "signed <=" -> Signed(v) <= Signed(w)
        [] r = "signed >"  -> Signed(v) > Signed(w)
        [] r = "signed >=" -> Signed(v) >= Signed(w)
        [] r = "<"         -> v < w
        [] r = "<="        -> v <= w
        [] r = ">"         -> v > w
        [] r = ">="        -> v >= w

-----------------------------------------------------------------------------
\* The first instruction of a function's first block.
Init ==
  /\ entry \in [Registers -> Word]
  /\ regs = entry
  /\ flags = [zf |-> FALSE, sf |-> FALSE, of |-> FALSE, cf |-> FALSE]
  /\ state = InitialState
  /\ comparison = <<>>
  /\ length = 0
  /\ setter = "none" /\ held = <<0, 0>>

Step == length < MaxLength /\ length' = length + 1 /\ UNCHANGED entry

\* cmp and test: the operands are resolved in the state before the instruction,
\* which they leave as it is.
Compare(kind, r, src) ==
  /\ Step
  /\ comparison' = <<[kind |-> kind, left |-> ValueIn(state, r), right |-> Resolve(state, src)]>>
  /\ flags' = IF kind = "cmp" THEN CmpFlags(regs[r], Number(src))
                              ELSE TestFlags(regs[r], Number(src))
  /\ setter' = kind
  /\ held' = <<regs[r], Number(src)>>
  /\ UNCHANGED <<regs, state>>

\* mov leaves the flags alone.
Move(r, src) ==
  /\ Step
  /\ state' = Apply(state, [op |-> "mov", dst |-> r, src |-> src])
  /\ regs' = [regs EXCEPT ![r] = Number(src)]
  /\ UNCHANGED <<flags, comparison, setter, held>>

\* add sets them, and the comparison stays.
Add(r, src) ==
  /\ Step
  /\ state' = Apply(state, [op |-> "operate", dst |-> r, src |-> src])
  /\ regs' = [regs EXCEPT ![r] = (@ + Number(src)) % Modulus]
  /\ flags' = AddFlags(regs[r], Number(src))
  /\ setter' = "add"
  /\ UNCHANGED <<comparison, held>>

Next ==
  \E r \in Registers, src \in Sources :
    \/ Compare("cmp", r, src)
    \/ Compare("test", r, src)
    \/ Move(r, src)
    \/ Add(r, src)

Spec == Init /\ [][Next]_vars

-----------------------------------------------------------------------------
C == comparison[1]

\* A comparison was recorded, and its operands, read at the branch, mean what was
\* compared (which is for NativeLift to say).
Readable ==
  /\ comparison # <<>>
  /\ Plain(C.left) /\ Says(C.left) = held[1]
  /\ Plain(C.right) /\ Says(C.right) = held[2]

Holds(m) == Reads(C, m) = Taken(m)

\* A printed condition reads as the processor decides, unless another instruction
\* set the flags since: for cmp, whatever the branch and the operands, signed and
\* unsigned, at the edges of the width; for a register tested against itself, je
\* and jne.
ConditionsHold ==
  Readable /\ setter = C.kind =>
    /\ C.kind = "cmp" => \A m \in Mnemonics : Holds(m)
    /\ C.kind = "test" /\ C.left = C.right => Holds("je") /\ Holds("jne")

\* README.md says that test, like cmp, is combined with the branches that follow.
TestsHold == Readable /\ setter = "test" => \A m \in Mnemonics : Holds(m)
=============================================================================
