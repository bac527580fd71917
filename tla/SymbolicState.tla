--------------------------- MODULE SymbolicState ---------------------------
(***************************************************************************)
(* Symbolic register states: what apply_state, merge_state and the helpers  *)
(* of src/src/engines/native_v050/lift.rs do to them.                       *)
(*                                                                         *)
(* A state binds registers to expressions; a register without a binding is *)
(* printed by its name.  Instructions are abstracted to what apply_state    *)
(* tells apart of them (the sets of mnemonics in its match), and expressions *)
(* to sequences of symbols, the operator before its operands, whose length   *)
(* bounded_expression measures.                                             *)
(***************************************************************************)
EXTENDS Integers, Sequences, FiniteSets

CONSTANTS
  Registers,        \* the canonical registers
  ResultRegister,   \* "rax"
  ArgRegisters,     \* abi.args
  Volatile,         \* abi.volatile
  LowFamilies,      \* registers whose partial names state_set knows
  MaxExpression     \* MAX_EXPRESSION_LEN

Operations == {"mov", "operate", "clobber", "low_mov", "low_operate", "widen", "call", "none"}

ASSUME RegisterAssumption ==
  /\ IsFiniteSet(Registers)
  /\ ResultRegister \in Registers
  /\ ArgRegisters \subseteq Registers
  /\ Volatile \subseteq Registers
  /\ LowFamilies \subseteq Registers

ASSUME ExpressionAssumption == MaxExpression \in Nat \ {0}

-----------------------------------------------------------------------------
Symbols == {<<"op">>, <<"result">>, <<"complex">>}
             \cup {"reg", "arg"} \X Registers \cup {"value"} \X Int

NameOf(r)   == << <<"reg", r>> >>
Argument(r) == << <<"arg", r>> >>
CallResult  == << <<"result">> >>
Complex     == << <<"complex">> >>
Value(n)    == << <<"value", n>> >>

\* Mutant: expressions are stored as they are.
Unbounded(e) == e

Bounded(e) == IF Len(e) <= MaxExpression THEN e ELSE Complex

Combined(e, f) == << <<"op">> >> \o e \o f

Unbound == [r \in {} |-> Complex]

InitialState == [r \in ArgRegisters |-> Argument(r)]

Bind(s, r, e) == [q \in DOMAIN s \cup {r} |-> IF q = r THEN e ELSE s[q]]
Remove(s, R)  == [q \in DOMAIN s \ R |-> s[q]]

ValueIn(s, r) == IF r \in DOMAIN s THEN s[r] ELSE NameOf(r)

Resolve(s, src) == IF src.kind = "register" THEN ValueIn(s, src.of) ELSE src.of

\* apply_state.  "mov" stands for mov, movzx, movsx, movsxd, lea and the xor of a
\* register with itself; "operate" for add, sub, and, or, xor, shl, shr, imul, inc
\* and dec; "clobber" for pop and whatever the match does not name; the "low_"
\* operations have a partial register as destination, which canonical_register
\* does not know; "widen" is such an unnamed one that writes other registers than
\* its operand, dst (mul, div); "none" is cmp, test, push, nop and the transfers.
Apply(s, i) ==
  CASE i.op = "mov"         -> Bind(s, i.dst, Bounded(Resolve(s, i.src)))
    [] i.op = "operate"     -> Bind(s, i.dst, Bounded(Combined(ValueIn(s, i.dst), Resolve(s, i.src))))
    [] i.op = "clobber"     -> Remove(s, {i.dst})
    [] i.op = "low_mov"     -> IF i.dst \in LowFamilies THEN Remove(s, {i.dst}) ELSE s
    [] i.op = "widen"       -> Remove(s, {i.dst})
    [] i.op = "call"        -> Bind(Remove(s, Volatile), ResultRegister, CallResult)
    [] i.op \in {"low_operate", "none"} -> s

\* Mutant: the state that came first is kept.
FirstWins(s, t) == s

\* Mutant: the state that came last replaces it.
LatestWins(s, t) == t

\* merge_state: `retain' the bindings that the incoming state shares.
Meet(s, t) == [r \in {q \in DOMAIN s \cap DOMAIN t : s[q] = t[q]} |-> s[r]]

Below(s, t) == DOMAIN s \subseteq DOMAIN t /\ \A r \in DOMAIN s : s[r] = t[r]

IsExpression(e) == e \in Seq(Symbols) /\ Len(e) \in 1 .. MaxExpression

IsState(s) == DOMAIN s \subseteq Registers /\ \A r \in DOMAIN s : IsExpression(s[r])

-----------------------------------------------------------------------------
(***************************************************************************)
(* What an expression says, when the one operation of the instances is     *)
(* addition modulo m: the sum of its symbols.                              *)
(***************************************************************************)
Worth(symbol, args, regs) ==
  CASE symbol[1] = "value" -> symbol[2]
    [] symbol[1] = "arg"   -> args[symbol[2]]
    [] symbol[1] = "reg"   -> regs[symbol[2]]
    [] symbol[1] = "op"    -> 0

Meaning(e, args, regs, m) ==
  LET sum[n \in 0 .. Len(e)] ==
        IF n = 0 THEN 0 ELSE (sum[n - 1] + Worth(e[n], args, regs)) % m
  IN  sum[Len(e)]

\* Symbols that mean the same wherever they are printed, and at the place they are.
Fixed(e) == \A n \in 1 .. Len(e) : e[n][1] \in {"op", "value", "arg"}
Plain(e) == \A n \in 1 .. Len(e) : e[n][1] \in {"op", "value", "arg", "reg"}
=============================================================================
