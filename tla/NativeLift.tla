----------------------------- MODULE NativeLift -----------------------------
(***************************************************************************)
(* Recovery of a graph and propagation of values over it, composed as      *)
(* native_v050 composes them, and beside them the machine whose code it is. *)
(*                                                                         *)
(* decode_x86_cfg builds the graph (NativeCfg), compute_states finds the   *)
(* state of each block (Lift), and enhance_function prints each instruction *)
(* with the state the block has there.  The machine then runs the code, and *)
(* what is printed for a register is compared with what the register holds. *)
(***************************************************************************)
EXTENDS NativeCfg

CONSTANTS
  Registers, ResultRegister, ArgRegisters, Volatile, LowFamilies, MaxExpression, MaxSteps,
  Modulus,           \* registers hold 0 .. Modulus - 1,
  Narrow,            \* and their low halves 0 .. Narrow - 1
  Spoiled            \* the registers a called function may leave changed

ASSUME RegisterFileAssumption ==
  /\ IsFiniteSet(Registers)
  /\ ResultRegister \in Registers
  /\ ArgRegisters \subseteq Registers
  /\ Volatile \subseteq Registers
  /\ LowFamilies \subseteq Registers
  /\ Spoiled \subseteq Registers

ASSUME MachineAssumption ==
  /\ IsFiniteSet(FunctionSizes)
  /\ MaxExpression \in Nat \ {0}
  /\ MaxSteps \in Nat
  /\ Modulus \in Nat \ {0} /\ Narrow \in Nat \ {0}
  /\ \E k \in 1 .. Modulus : Modulus = k * Narrow

VARIABLES
  states, work, waiting, steps, lift, address, index, state, left, from, out,   \* of Lift
  entry, regs, at    \* the machine: registers at entry and now, the next instruction

L == INSTANCE Lift WITH
       Addresses <- UNION {FunctionStart .. FunctionStart + n : n \in FunctionSizes},
       Effects   <- {i.effect : i \in Instructions},
       Functions <- {},
       effect    <- [a \in DOMAIN code |-> code[a].effect],
       queue     <- work,
       queued    <- waiting

cfgVars  == vars
liftVars == <<states, work, waiting, steps, lift, address, index, state, left, from, out>>
machine  == <<entry, regs, at>>
allVars  == <<cfgVars, liftVars, machine>>

Word == 0 .. Modulus - 1

\* What an instruction writes: a whole register; its low half, with zeros above
\* (every write to a 32-bit register in 64-bit code); or that with its sign above
\* (movsxd).  canonical_register gives a register and its low half one name.
Widths == {"whole", "low", "signed"}

\* Second operands are registers, immediates, and whatever else is printed as it is
\* spelled (memory, lea, the bytes and words that movzx and movsx read).
ASSUME OperandAssumption ==
  \A i \in Instructions :
    /\ i.effect.op \in L!Operations
    /\ i.effect.dst \in Registers
    /\ i.effect.width \in Widths
    /\ \/ i.effect.src.kind = "register" /\ i.effect.src.of \in Registers
       \/ i.effect.src.kind = "value" /\ i.effect.src.of \in {L!Value(n) : n \in Word} \cup {L!Complex}

NotCalled == 0 - 2
Nowhere   == 0 - 3   \* the function has returned, or left its bytes

LiftInit ==
  /\ Init
  /\ L!Idle
  /\ entry = [r \in Registers |-> 0]
  /\ regs = entry
  /\ at = NotCalled

\* analyze() has the graph before enhance_function asks for the states.
Recover == Next /\ UNCHANGED <<liftVars, machine>>

Propagate ==
  /\ pc = "done"
  /\ UNCHANGED <<cfgVars, machine>>
  /\ L!Next

Finished == lift \in {"done", "limit"}

-----------------------------------------------------------------------------
(***************************************************************************)
(* The machine.                                                            *)
(***************************************************************************)
SourceValues(src) ==
  IF src.kind = "register" THEN {regs[src.of]}
  ELSE {v \in Word : src.of \in {L!Value(v), L!Complex}}

\* What the register holds when v is written to it.
Written(v, width) ==
  LET low == v % Narrow
  IN  CASE width = "whole"  -> v
        [] width = "low"    -> low
        [] width = "signed" -> low + (IF 2 * low >= Narrow THEN Modulus - Narrow ELSE 0)

\* The values an instruction may leave in the registers: one it computes, or any
\* where the model does not say which.
Results(i) ==
  CASE i.op = "mov"     -> {[regs EXCEPT ![i.dst] = Written(v, i.width)] : v \in SourceValues(i.src)}
    [] i.op = "operate" -> {[regs EXCEPT ![i.dst] = Written((regs[i.dst] + v) % Modulus, i.width)] :
                              v \in SourceValues(i.src)}
    [] i.op = "call"    -> {f \in [Registers -> Word] :
                              \A r \in Registers \ (Spoiled \cup {ResultRegister}) : f[r] = regs[r]}
    [] i.op = "none"    -> {regs}
    [] i.op = "widen"   -> [Registers -> Word]
    [] OTHER            -> {[regs EXCEPT ![i.dst] = v] : v \in Word}

\* The machine calls the function, its registers as they may be.
Call ==
  /\ Finished
  /\ at = NotCalled
  /\ entry' \in [Registers -> Word]
  /\ regs' = entry'
  /\ at' = FunctionStart
  /\ UNCHANGED <<cfgVars, liftVars>>

Execute ==
  /\ Finished
  /\ at \in Addresses
  /\ regs' \in Results(code[at].effect)
  /\ at' \in IF Flow(at) = {} THEN {Nowhere} ELSE Flow(at)
  /\ UNCHANGED <<cfgVars, liftVars, entry>>

LiftNext == Recover \/ Propagate \/ Call \/ Execute

LiftSpec == LiftInit /\ [][LiftNext]_allVars

-----------------------------------------------------------------------------
(***************************************************************************)
(* What is printed.                                                        *)
(***************************************************************************)

\* enhance_function: the state of the block, run through apply_state up to the
\* i-th instruction.
StateBefore(b, i) == L!RunTo(b, IF b \in DOMAIN states THEN states[b] ELSE L!Unbound, i)

\* Where the instruction at a is printed, and in which states.
Places(a) == {p \in (DOMAIN blocks) \X (1 .. size) :
                p[2] <= Len(blocks[p[1]].instructions) /\ blocks[p[1]].instructions[p[2]] = a}

Printed(a) == {StateBefore(p[1], p[2]) : p \in Places(a)}

-----------------------------------------------------------------------------
\* apply_state unbinds or replaces whatever the instruction writes.
Follows(i) == \/ i.op \in {"mov", "operate", "clobber", "none"}
              \/ i.op = "call" /\ Spoiled \subseteq Volatile \cup {ResultRegister}
              \/ i.op = "low_mov" /\ i.dst \in LowFamilies

Followed == \A a \in decoded : Follows(code[a].effect)

\* As far as an expression can be right that is printed for a register and for its
\* low half alike: to the last bit in code that writes whole registers only, and in
\* their low halves elsewhere.
Precision == IF \A a \in decoded : code[a].effect.width = "whole" THEN Modulus ELSE Narrow

\* README.md says that values are propagated along the edges of the graph: a number
\* or an argument that is printed for a register is what the register holds.
\* (It need not be after a branch into the middle of a block.)
ValuesHold ==
  Finished /\ at \in Addresses =>
    \A s \in Printed(at) : \A r \in DOMAIN s :
      L!Fixed(s[r]) => L!Meaning(s[r], entry, regs, Precision) = regs[r] % Precision

\* Where no branch enters a block in the middle and every write is one that
\* apply_state follows, a number or an argument that is printed for a register is
\* what the register holds, or its low half in code that writes low halves, on
\* whatever path the machine came: merge_state, the order of the work list, the
\* calls and the states of loops never let the value of one path through.
SplitValuesHold == Split /\ Whole /\ Followed => ValuesHold
=============================================================================
