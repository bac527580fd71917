----------------------------- MODULE ClassFile -----------------------------
(***************************************************************************)
(* Reading a JVM class: parse_constant_pool, skip_attributes and           *)
(* decompile_class of src/src/engines/jvm.rs, beside the format as a       *)
(* compiler writes it.                                                     *)
(*                                                                         *)
(* The file is its constant pool and the numbers that follow it; lengths   *)
(* count numbers.  `stack' holds, for the loops of decompile_class that are *)
(* open, what is read and how many are left.                               *)
(***************************************************************************)
EXTENDS Integers, SequencesExt

CONSTANT Classes   \* [pool, this, interfaces, fields, methods, cut, torn]

VARIABLES input, pos, stack, out, status

vars == <<input, pos, stack, out, status>>

Handler == 4   \* the numbers of an entry of the exception table

-----------------------------------------------------------------------------
(***************************************************************************)
(* The format.  A pool entry is [kind, text], of kind "class" with the text *)
(* of the name it refers to.  An attribute is [name, code, handlers, inner, *)
(* slack, short]: code and what belongs to it for the Code attribute, numbers *)
(* after it, and whether the length it states is one short.  `torn' is how *)
(* many slots of a last long constant the count leaves out, `cut' how much  *)
(* of the file is missing.                                                 *)
(***************************************************************************)
SlotsOf(e)   == IF e.kind = "wide" THEN 2 ELSE 1
\* The number of each entry, and of what would come next.
NumbersOf(pool) ==
  LET slot[k \in 1 .. Len(pool) + 1] == IF k = 1 THEN 1 ELSE slot[k - 1] + SlotsOf(pool[k - 1])
  IN  slot
NumberOf(kind, text, pool) ==
  NumbersOf(pool)[CHOOSE k \in DOMAIN pool : pool[k].kind = kind /\ pool[k].text = text]

Zeros(n) == [i \in 1 .. n |-> 0]

\* An attribute that is skipped: its name and n numbers.
Plain(n) == <<0, n>> \o Zeros(n)

Attribute(a, pool) ==
  LET inside == (IF a.name = "Code"
                 THEN <<1, 2, Len(a.code)>> \o a.code \o <<a.handlers>> \o Zeros(Handler * a.handlers)
                      \o <<a.inner>> \o FlattenSeq([i \in 1 .. a.inner |-> Plain(i)])
                 ELSE <<>>) \o Zeros(a.slack)
  IN  <<NumberOf("utf8", a.name, pool), Len(inside) - IF a.short THEN 1 ELSE 0>> \o inside

Member(m, pool) ==
  <<0, NumberOf("utf8", m.name, pool), 0, Len(m.attributes)>>
    \o FlattenSeq([i \in DOMAIN m.attributes |-> Attribute(m.attributes[i], pool)])

Members(ms, pool) == <<Len(ms)>> \o FlattenSeq([i \in DOMAIN ms |-> Member(ms[i], pool)])

\* access, this, super, the interfaces, fields, methods and one attribute.
Written(c) ==
  <<0, NumberOf(c.this.kind, c.this.text, c.pool), 0, Len(c.interfaces)>>
    \o [i \in DOMAIN c.interfaces |-> NumberOf("class", c.interfaces[i], c.pool)]
    \o Members(c.fields, c.pool) \o Members(c.methods, c.pool) \o <<1>> \o Plain(1)

Stored(c) == [k \in DOMAIN c.pool |->
                IF c.pool[k].kind = "class"
                THEN [kind |-> "class", text |-> "", name |-> NumberOf("utf8", c.pool[k].text, c.pool)]
                ELSE [kind |-> c.pool[k].kind, text |-> c.pool[k].text, name |-> 0]]

-----------------------------------------------------------------------------
Rest == input.rest
Pool == out.pool

Empty == [kind |-> "empty", text |-> "", name |-> 0]

\* cp_utf8 with a default, and cp_class; index 0 is Cp::Empty.
Entry(index) == IF index + 1 \in DOMAIN Pool THEN Pool[index + 1] ELSE Empty
Utf8(index, default) == IF Entry(index).kind = "utf8" THEN Entry(index).text ELSE default
IsClass(index) == Entry(index).kind = "class" /\ Entry(Entry(index).name).kind = "utf8"

\* Reader: positions past the end are errors, and so is seeking past it.
Beyond == Len(Rest) + 2
Readable(p) == p <= Len(Rest)
Sought(p) == IF p > Len(Rest) + 1 THEN Beyond ELSE p

\* skip_attributes: where the attributes whose count is at p end.
SkipAttributes(p) ==
  IF ~Readable(p) THEN Beyond
  ELSE LET after[i \in 0 .. Rest[p]] ==
             IF i = 0 THEN p + 1
             ELSE LET at == after[i - 1]
                  IN  IF ~Readable(at + 1) THEN Beyond ELSE Sought(at + 2 + Rest[at + 1])
       IN  after[Rest[p]]

\* The names of the first n interfaces; what is none is left out.
Interfaces(n) ==
  LET named[i \in 0 .. n] ==
        IF i = 0 THEN <<>>
        ELSE IF IsClass(Rest[4 + i]) THEN Append(named[i - 1], Utf8(Entry(Rest[4 + i]).name, "")) ELSE named[i - 1]
  IN  named[n]

Init ==
  /\ \E c \in Classes :
       LET left == Len(Written(c)) - c.cut
       IN  input = [class |-> c, count |-> NumbersOf(c.pool)[Len(c.pool) + 1] - c.torn,
                    pool |-> SubSeq(Stored(c), 1, Len(c.pool) + IF left < 0 THEN left ELSE 0),
                    rest |-> SubSeq(Written(c), 1, IF left < 0 THEN 0 ELSE left)]
  /\ pos = 1 /\ stack = <<>>
  /\ out = [pool |-> <<Empty>>, interfaces |-> <<>>, fields |-> <<>>, methods |-> <<>>]
  /\ status = "pool"

Fail(error) == status' = error /\ UNCHANGED <<input, pos, stack, out>>

-----------------------------------------------------------------------------
\* Mutant: every entry has one slot.
OneSlot(e) == <<e>>

\* What an entry pushes: long and double have an empty slot after them, and of
\* method handles, dynamic constants and modules only the place is kept.
Pushed(e) == CASE e.kind = "wide"  -> <<[e EXCEPT !.kind = "number"], Empty>>
               [] e.kind = "other" -> <<Empty>>
               [] OTHER            -> <<e>>

ReadEntry ==
  /\ status = "pool"
  /\ Len(Pool) < input.count /\ pos <= Len(input.pool)
  /\ input.pool[pos].kind # "unknown"
  /\ out' = [out EXCEPT !.pool = @ \o Pushed(input.pool[pos])]
  /\ pos' = pos + 1
  /\ UNCHANGED <<input, stack, status>>

UnknownTag ==
  /\ status = "pool"
  /\ Len(Pool) < input.count /\ pos <= Len(input.pool)
  /\ input.pool[pos].kind = "unknown"
  /\ Fail("tag")

\* `cp.len() != count': the last entry has taken a slot too many.
PoolTooLong ==
  /\ status = "pool"
  /\ Len(Pool) > input.count
  /\ Fail("count")

\* The header and the interfaces.  `stack' opens with the loop over the fields.
ReadHeader ==
  /\ status = "pool"
  /\ Len(Pool) = input.count
  /\ LET fields == 5 + Rest[4]
     IN  /\ Readable(4) /\ Readable(fields) /\ IsClass(Rest[2])
         /\ out' = [out EXCEPT !.interfaces = Interfaces(Rest[4])]
         /\ stack' = <<[in |-> "fields", left |-> Rest[fields]]>>
         /\ pos' = fields + 1
  /\ status' = "members"
  /\ UNCHANGED input

NotAClass ==
  /\ status = "pool"
  /\ Len(Pool) = input.count
  /\ Readable(3) /\ ~IsClass(Rest[2])
  /\ Fail("class name")

Top      == Last(stack)
In(loop) == status = "members" /\ Top.in = loop /\ Top.left > 0
Left     == Append(Front(stack), [Top EXCEPT !.left = @ - 1])
Done(loop) == status = "members" /\ Top.in = loop /\ Top.left = 0

ReadField ==
  /\ In("fields")
  /\ SkipAttributes(pos + 3) # Beyond
  /\ out' = [out EXCEPT !.fields = Append(@, Utf8(Rest[pos + 1], "field"))]
  /\ pos' = SkipAttributes(pos + 3)
  /\ stack' = Left
  /\ UNCHANGED <<input, status>>

EndOfFields ==
  /\ Done("fields")
  /\ Readable(pos)
  /\ stack' = <<[in |-> "methods", left |-> Rest[pos]]>>
  /\ pos' = pos + 1
  /\ UNCHANGED <<input, out, status>>

ReadMethod ==
  /\ In("methods")
  /\ Readable(pos + 3)
  /\ out' = [out EXCEPT !.methods = Append(@, [name |-> Utf8(Rest[pos + 1], "method"), code |-> <<>>])]
  /\ stack' = Append(Left, [in |-> "attributes", left |-> Rest[pos + 3]])
  /\ pos' = pos + 4
  /\ UNCHANGED <<input, status>>

IsCode == Utf8(Rest[pos], "") = "Code"

SkipAttribute ==
  /\ In("attributes")
  /\ Readable(pos + 1) /\ ~IsCode
  /\ Sought(pos + 2 + Rest[pos + 1]) # Beyond
  /\ pos' = pos + 2 + Rest[pos + 1]
  /\ stack' = Left
  /\ UNCHANGED <<input, out, status>>

\* `if used < length { reader.skip(length - used)? }'
CodeEnd(used, length) == IF used < length THEN length ELSE used

\* The Code attribute at pos: its first number, and where its parts begin.
CodeStart == pos + 2
CodeSize  == Rest[pos + 4]
Table     == pos + 5 + CodeSize
InnerAt   == Sought(Table + 1 + Handler * Rest[Table])
Used      == SkipAttributes(InnerAt) - CodeStart
CodeFits  == /\ In("attributes") /\ Readable(pos + 1) /\ IsCode
             /\ Readable(pos + 4) /\ Readable(Table) /\ InnerAt # Beyond
             /\ SkipAttributes(InnerAt) # Beyond

ReadCode ==
  /\ CodeFits
  /\ Used <= Rest[pos + 1]
  /\ Sought(CodeStart + CodeEnd(Used, Rest[pos + 1])) # Beyond
  /\ out' = [out EXCEPT !.methods[Len(out.methods)].code = SubSeq(Rest, pos + 5, Table - 1)]
  /\ pos' = CodeStart + CodeEnd(Used, Rest[pos + 1])
  /\ stack' = Left
  /\ UNCHANGED <<input, status>>

LengthMismatch ==
  /\ CodeFits
  /\ Used > Rest[pos + 1]
  /\ Fail("length")

EndOfMethod ==
  /\ Done("attributes")
  /\ stack' = Front(stack)
  /\ UNCHANGED <<input, pos, out, status>>

EndOfClass ==
  /\ Done("methods")
  /\ SkipAttributes(pos) # Beyond
  /\ status' = "done"
  /\ UNCHANGED <<input, pos, stack, out>>

\* Any of the reads above past the end of the file.
Truncated ==
  /\ \/ status = "pool" /\ Len(Pool) < input.count /\ pos > Len(input.pool)
     \/ status = "pool" /\ Len(Pool) = input.count /\
          \/ ~Readable(3)
          \/ Readable(3) /\ IsClass(Rest[2]) /\ (Readable(4) => ~Readable(5 + Rest[4]))
     \/ status = "members" /\
          \/ In("fields") /\ SkipAttributes(pos + 3) = Beyond
          \/ Done("fields") /\ ~Readable(pos)
          \/ In("methods") /\ ~Readable(pos + 3)
          \/ In("attributes") /\ ~Readable(pos + 1)
          \/ In("attributes") /\ Readable(pos + 1) /\ ~IsCode /\ Sought(pos + 2 + Rest[pos + 1]) = Beyond
          \/ In("attributes") /\ Readable(pos + 1) /\ IsCode /\ ~CodeFits
          \/ CodeFits /\ Used <= Rest[pos + 1] /\ Sought(CodeStart + Rest[pos + 1]) = Beyond
          \/ Done("methods") /\ SkipAttributes(pos) = Beyond
  /\ Fail("end")

Next ==
  \/ ReadEntry \/ UnknownTag \/ PoolTooLong
  \/ ReadHeader \/ NotAClass
  \/ ReadField \/ EndOfFields
  \/ ReadMethod \/ SkipAttribute \/ ReadCode \/ LengthMismatch \/ EndOfMethod
  \/ EndOfClass \/ Truncated

Spec == Init /\ [][Next]_vars

-----------------------------------------------------------------------------
\* Classes as a compiler writes them: what is named is in the pool, a method has at most
\* one Code attribute, only that of a method may state a length that is one short, and
\* only a long constant at the end is torn.
AttributeTypes == [name : STRING, code : Seq(Nat), handlers : Nat, inner : Nat, slack : Nat, short : BOOLEAN]
MemberTypes    == [name : STRING, attributes : Seq(AttributeTypes)]

Named(kind, text, pool) == \E k \in DOMAIN pool : pool[k].kind = kind /\ pool[k].text = text

NamesKnown(ms, pool) ==
  \A i \in DOMAIN ms : /\ Named("utf8", ms[i].name, pool)
                       /\ \A j \in DOMAIN ms[i].attributes : Named("utf8", ms[i].attributes[j].name, pool)

Compiled(c) ==
  /\ c.pool \in Seq([kind : STRING, text : STRING])
  /\ \A k \in DOMAIN c.pool : c.pool[k].kind = "class" => Named("utf8", c.pool[k].text, c.pool)
  /\ Named(c.this.kind, c.this.text, c.pool)
  /\ c.interfaces \in Seq(STRING) /\ \A i \in DOMAIN c.interfaces : Named("class", c.interfaces[i], c.pool)
  /\ c.fields \in Seq(MemberTypes) /\ NamesKnown(c.fields, c.pool)
  /\ \A i \in DOMAIN c.fields : \A j \in DOMAIN c.fields[i].attributes : ~c.fields[i].attributes[j].short
  /\ c.methods \in Seq(MemberTypes) /\ NamesKnown(c.methods, c.pool)
  /\ \A i \in DOMAIN c.methods : LET as == c.methods[i].attributes IN
       /\ \A j \in DOMAIN as : as[j].short => as[j].name = "Code" /\ as[j].slack = 0
       /\ \A j, k \in DOMAIN as : as[j].name = "Code" /\ as[k].name = "Code" => j = k
  /\ c.torn \in {0, 1} /\ (c.torn = 1 => c.pool[Len(c.pool)].kind = "wide")
  /\ c.cut \in 0 .. Len(Written(c)) + Len(c.pool)

ClassesAssumption == \A c \in Classes : Compiled(c)

-----------------------------------------------------------------------------
Ended == status \notin {"pool", "members"}

Sound(c) ==
  /\ c.cut = 0 /\ c.torn = 0 /\ c.this.kind = "class"
  /\ \A k \in DOMAIN c.pool : c.pool[k].kind # "unknown"
  /\ \A i \in DOMAIN c.methods : \A j \in DOMAIN c.methods[i].attributes :
       ~c.methods[i].attributes[j].short

NamesIn(members) == [i \in DOMAIN members |-> members[i].name]

\* The body of a method is its Code attribute's.
BodyOf(m) == LET codes == {j \in DOMAIN m.attributes : m.attributes[j].name = "Code"}
             IN  IF codes = {} THEN <<>> ELSE m.attributes[CHOOSE j \in codes : TRUE].code

\* A class is read as it was compiled, each name and each body found under the number
\* the format gives it, whatever long constants stand before them in the pool and
\* whatever handlers and attributes stand around them; a class that is cut off, or
\* whose lengths contradict each other, is refused.
ClassReadsBack ==
  Ended =>
    IF Sound(input.class)
    THEN /\ status = "done"
         /\ out.interfaces = input.class.interfaces
         /\ out.fields = NamesIn(input.class.fields)
         /\ NamesIn(out.methods) = NamesIn(input.class.methods)
         /\ \A i \in DOMAIN out.methods : out.methods[i].code = BodyOf(input.class.methods[i])
    ELSE status # "done"
=============================================================================
