------------------------------ MODULE Marshal ------------------------------
(***************************************************************************)
(* Reading a marshalled code object: MarshalReader of                      *)
(* src/src/engines/pyc.rs, beside the format as CPython writes it.         *)
(*                                                                         *)
(* `parse' calls itself for the parts of an object; the open calls are     *)
(* `stack'.  An object with the flag is kept for later references when it  *)
(* is complete.  CPython numbers the flagged objects as it begins them.    *)
(*                                                                         *)
(* An object is [tag, flag, name, parts]: its name stands for the bytes of *)
(* a number, a string or the header words of a code object.                *)
(***************************************************************************)
EXTENDS Integers, SequencesExt

CONSTANTS
  Objects,     \* what is marshalled: [modern, root, whole], the end cut off unless whole
  MaxNesting   \* the depth limit, 200

VARIABLES input, pos, stack, out, status

vars == <<input, pos, stack, out, status>>

Leaves     == {"number", "string", "bytes", "null"}
Containers == {"tuple", "dict", "code"}

\* The fields of a code object that are objects, and what parse_code expects there.
ModernFields == <<"bytes", "tuple", "tuple", "tuple", "any",
                  "string", "string", "string", "any", "any">>

OlderFields  == <<"bytes", "tuple", "tuple", "tuple", "any", "any", "string", "string", "any">>

Fields == IF input.modern THEN ModernFields ELSE OlderFields

\* obj_bytes, obj_tuple, obj_string.
Fits(tag, field) == CASE field = "any"    -> TRUE
                      [] field = "string" -> tag \in {"string", "bytes"}
                      [] OTHER            -> tag = field

-----------------------------------------------------------------------------
(***************************************************************************)
(* The format, as CPython's w_object writes it.                            *)
(***************************************************************************)
Null == [tag |-> "null", flag |-> FALSE, name |-> "null", parts |-> <<>>]

\* Objects, nested as deep as CPython writes them: ten times the limit of the reader.
Nested ==
  LET within[n \in Nat] == [tag : STRING, flag : BOOLEAN, name : STRING,
                            parts : Seq(IF n = 0 THEN {} ELSE within[n - 1])]
  IN  within[10 * MaxNesting]

\* An object and all inside it.
Inside[o \in Nested] == <<o>> \o FlattenSeq([i \in DOMAIN o.parts |-> Inside[o.parts[i]]])

\* w_ref: the flagged objects have their numbers in the order they are begun, and
\* an object met again is written as a reference to its number.
Flags(objects)  == SelectSeq(objects, LAMBDA o : o.flag)
NumberOf(name, flags) == CHOOSE n \in DOMAIN flags : flags[n].name = name
Token(o, flags) == [tag |-> o.tag, flag |-> o.flag, name |-> o.name,
             count |-> IF o.tag = "ref" THEN NumberOf(o.name, flags) - 1 ELSE Len(o.parts)]

Written(root, flags) ==
  LET written[o \in Nested] ==
        <<Token(o, flags)>> \o FlattenSeq([i \in DOMAIN o.parts |-> written[o.parts[i]]])
                            \o IF o.tag = "dict" THEN <<Token(Null, flags)>> ELSE <<>>
  IN  written[root]

\* The object that is meant.
Meant(root, flags) ==
  LET meant[o \in Nested] ==
        IF o.tag = "ref" THEN meant[flags[NumberOf(o.name, flags)]]
        ELSE [tag |-> o.tag, name |-> o.name, parts |-> [i \in DOMAIN o.parts |-> meant[o.parts[i]]]]
  IN  meant[root]

Nesting[o \in Nested] ==
  IF o.parts = <<>> /\ o.tag # "dict" THEN 0
  ELSE 1 + Max({0} \cup {Nesting[o.parts[i]] : i \in DOMAIN o.parts})

FlagsNest(o) == \E i \in DOMAIN Inside[o] : Inside[o][i].flag /\ Len(Flags(Inside[Inside[o][i]])) > 1
Readable(o)  ==
  /\ o.tag = "code"
  /\ Nesting[o] <= MaxNesting
  /\ \A i \in DOMAIN Inside[o] : Inside[o][i].tag \in Leaves \cup Containers \cup {"ref"}

-----------------------------------------------------------------------------
Stream  == input.stream
Meaning == Meant(input.root, Flags(Inside[input.root]))
Top    == Last(stack)

Init ==
  /\ \E o \in Objects :
       LET written == Written(o.root, Flags(Inside[o.root]))
       IN  input = [modern |-> o.modern, root |-> o.root, whole |-> o.whole,
                    stream |-> IF o.whole THEN written ELSE Front(written)]
  /\ pos = 1
  /\ stack = <<>>
  /\ out = <<>>                      \* `refs'
  /\ status = "reading"

Fail(error) == status' = error /\ UNCHANGED <<input, pos, stack, out>>

\* Mutant: only the parts of other objects are kept for references.
KeepLeaves(kept, flag, value) == IF flag /\ value.parts = <<>> THEN Append(kept, value) ELSE kept

\* `if flag_ref { self.refs.push(value.clone()) }'
Keep(kept, flag, value) == IF flag THEN Append(kept, value) ELSE kept

\* parse() returns `value' to the call below it; the calls open are then `open'.
Return(open, flag, value) ==
  /\ out' = Keep(out, flag, value)
  /\ UNCHANGED input
  /\ IF open = <<>>
     THEN stack' = <<value>> /\ status' = IF value.tag = "code" THEN "done" ELSE "no code"
     ELSE LET top == Last(open)
          IN  IF top.tag = "code" /\ ~Fits(value.tag, Fields[Len(top.parts) + 1])
              THEN stack' = open /\ status' = "field"
              ELSE /\ stack' = Append(Front(open), [top EXCEPT !.parts = Append(@, value)])
                   /\ UNCHANGED status

\* All parts are there; the null that ends a dictionary stands for a key.
Complete(frame) ==
  CASE frame.tag = "tuple" -> Len(frame.parts) = frame.count
    [] frame.tag = "code"  -> Len(frame.parts) = Len(Fields)
    [] frame.tag = "dict"  -> Len(frame.parts) % 2 = 1 /\ Last(frame.parts).tag = "null"

Due     == stack # <<>> /\ Complete(Top)
Reading == status = "reading" /\ ~Due
TooDeep == Len(stack) > MaxNesting

NestedTooDeep == Reading /\ TooDeep /\ Fail("nesting")

Truncated == Reading /\ ~TooDeep /\ pos > Len(Stream) /\ Fail("end")

Unsupported ==
  /\ Reading /\ ~TooDeep /\ pos <= Len(Stream)
  /\ Stream[pos].tag \notin Leaves \cup Containers \cup {"ref"}
  /\ Fail("unsupported")

ReadLeaf ==
  /\ Reading /\ ~TooDeep /\ pos <= Len(Stream)
  /\ Stream[pos].tag \in Leaves
  /\ pos' = pos + 1
  /\ Return(stack, Stream[pos].flag,
            [tag |-> Stream[pos].tag, name |-> Stream[pos].name, parts |-> <<>>])

ReadReference ==
  /\ Reading /\ ~TooDeep /\ pos <= Len(Stream)
  /\ Stream[pos].tag = "ref"
  /\ IF Stream[pos].count < Len(out)
     THEN pos' = pos + 1 /\ Return(stack, Stream[pos].flag, out[Stream[pos].count + 1])
     ELSE Fail("reference")

OpenObject ==
  /\ Reading /\ ~TooDeep /\ pos <= Len(Stream)
  /\ Stream[pos].tag \in Containers
  /\ pos' = pos + 1
  /\ stack' = Append(stack, [tag |-> Stream[pos].tag, flag |-> Stream[pos].flag,
                             name |-> Stream[pos].name, count |-> Stream[pos].count,
                             parts |-> <<>>])
  /\ UNCHANGED <<input, out, status>>

CloseObject ==
  /\ status = "reading" /\ Due
  /\ Return(Front(stack), Top.flag,
            [tag |-> Top.tag, name |-> Top.name,
             parts |-> IF Top.tag = "dict" THEN Front(Top.parts) ELSE Top.parts])
  /\ UNCHANGED pos

Next ==
  \/ NestedTooDeep
  \/ Truncated
  \/ Unsupported
  \/ ReadLeaf
  \/ ReadReference
  \/ OpenObject
  \/ CloseObject

Spec == Init /\ [][Next]_vars

-----------------------------------------------------------------------------
\* What CPython wrote comes back: an object within the limit whose types the reader
\* knows is read as the object it was, references resolved, fields in their places,
\* and everything else is refused and so falls back to the structural listing.
\* (As long as no flagged object holds another one.)
ReadsBack ==
  status # "reading" /\ ~FlagsNest(input.root) =>
    IF input.whole /\ Readable(input.root)
    THEN status = "done" /\ stack = <<Meaning>>
    ELSE status # "done"

\* README.md, "marshal/code-object reader": a reference is read as the object that
\* the writer numbered so, in files whose code objects have the flag, too.
ReferencesResolve ==
  status = "done" => stack = <<Meaning>>
=============================================================================
