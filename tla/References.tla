----------------------------- MODULE References -----------------------------
(***************************************************************************)
(* What an operand in memory is printed as: collect_addressed_strings,     *)
(* addressed_ascii, addressed_utf16, collect_symbols and                   *)
(* reference_for_instruction of src/src/engines/native_v050/lift.rs, beside *)
(* the data of an image as a compiler lays it out.                         *)
(*                                                                         *)
(* A byte is a letter or a mark (both printable), zero, or "one" for every *)
(* other; letters and marks are of the item they belong to.  `stack' is the *)
(* section that is scanned and the run of text that is open.               *)
(***************************************************************************)
EXTENDS Integers, SequencesExt

CONSTANTS
  Layouts,      \* [sections, symbols]: a section is [text, base, items]
  MaxStrings    \* MAX_ADDRESSED_STRINGS

VARIABLES input, pos, stack, out, status

vars == <<input, pos, stack, out, status>>

Byte(class, of) == [class |-> class, of |-> of]
Zero == Byte("zero", "")

-----------------------------------------------------------------------------
(***************************************************************************)
(* The data.  An item is [kind, name, chars]: a text, a wide text (each    *)
(* ends with a zero), the slot of an import, or a number, of those bytes.  *)
(***************************************************************************)
Stored(item) ==
  LET chars == [i \in DOMAIN item.chars |->
                  IF item.chars[i] = "zero" THEN Zero ELSE Byte(item.chars[i], item.name)]
  IN  CASE item.kind = "text" -> Append(chars, Zero)
        [] item.kind = "wide" -> FlattenSeq([i \in DOMAIN chars |-> <<chars[i], Zero>>]) \o <<Zero, Zero>>
        [] OTHER              -> chars

Data(section)     == FlattenSeq([i \in DOMAIN section.items |-> Stored(section.items[i])])
AddressOf(section, k) == section.base + Len(Data([section EXCEPT !.items = SubSeq(section.items, 1, k - 1)]))

\* The slots that pe::imports found (Imports).
Slots ==
  UNION {{[address |-> AddressOf(s, k), name |-> s.items[k].name] :
            k \in {j \in DOMAIN s.items : s.items[j].kind = "slot"}} : s \in ToSet(input.sections)}

-----------------------------------------------------------------------------
Section == input.sections[stack.section]
Bytes   == Data(Section)
NoRun   == -1

Fresh(n) == [section |-> n, start |-> NoRun, current |-> <<>>]

Init ==
  /\ input \in Layouts
  /\ pos = 0 /\ stack = Fresh(1)
  /\ out = [strings |-> << >>, references |-> << >>]
  /\ status = "section"

\* `entry(..).or_insert(..)': what an address has it keeps.
Keep(strings, address, text) ==
  IF address \in DOMAIN strings THEN strings ELSE (address :> text) @@ strings

Count(strings) == Cardinality(DOMAIN strings)

\* looks_human, of four characters or more; a wide one with a high byte is a letter.
IsLetter(char)    == char.class = "letter"
IsWideLetter(word) == word[2] # Zero \/ IsLetter(word[1])
LooksHuman(letters) == Len(letters) >= 2

\* Text sections are not scanned, nor is anything once there are enough strings.
BeginSection ==
  /\ status = "section"
  /\ stack.section <= Len(input.sections)
  /\ IF Section.text
     THEN stack' = Fresh(stack.section + 1) /\ UNCHANGED status
     ELSE status' = "ascii" /\ UNCHANGED stack
  /\ pos' = 0
  /\ UNCHANGED <<input, out>>

Printable(byte) == byte.class \in {"letter", "mark"}

AsciiPrintable ==
  /\ status = "ascii" /\ pos < Len(Bytes)
  /\ Printable(Bytes[pos + 1])
  /\ stack' = [stack EXCEPT !.start = IF @ = NoRun THEN pos ELSE @]
  /\ pos' = pos + 1
  /\ UNCHANGED <<input, out, status>>

Run == SubSeq(Bytes, stack.start + 1, pos)

\* Fewer than four printable bytes are no text.
AsciiBreak ==
  /\ status = "ascii" /\ pos < Len(Bytes)
  /\ ~Printable(Bytes[pos + 1])
  /\ stack.start = NoRun \/ pos - stack.start < 4
  /\ stack' = Fresh(stack.section)
  /\ pos' = pos + 1
  /\ UNCHANGED <<input, out, status>>

AsciiText ==
  /\ status = "ascii" /\ pos < Len(Bytes)
  /\ ~Printable(Bytes[pos + 1])
  /\ stack.start # NoRun /\ pos - stack.start >= 4
  /\ LET strings == IF LooksHuman(SelectSeq(Run, IsLetter))
                    THEN Keep(out.strings, Section.base + stack.start, Run) ELSE out.strings
         enough  == Count(strings) >= MaxStrings
     IN  /\ out' = [out EXCEPT !.strings = strings]
         /\ status' = IF enough THEN "wide" ELSE "ascii"
         /\ pos' = IF enough THEN 0 ELSE pos + 1
  /\ stack' = Fresh(stack.section)
  /\ UNCHANGED input

\* A run that reaches the end of its section is dropped.
AsciiEnd ==
  /\ status = "ascii" /\ pos >= Len(Bytes)
  /\ status' = "wide"
  /\ pos' = 0 /\ stack' = Fresh(stack.section)
  /\ UNCHANGED <<input, out>>

\* `as_chunks::<2>': words from the start of the section; here pos counts words.
HasWord   == 2 * pos + 2 <= Len(Bytes)
WordHere  == <<Bytes[2 * pos + 1], Bytes[2 * pos + 2]>>
IsChar(w) == w[2].class # "zero" \/ Printable(w[1])

\* Mutant: a word counts for one.
ByteAddress(start) == Section.base + start

WordAddress(start) == Section.base + 2 * start

\* The limit is looked at after every word.
NextWord(strings) ==
  /\ out' = [out EXCEPT !.strings = strings]
  /\ status' = IF Count(strings) >= MaxStrings THEN "scanned" ELSE "wide"
  /\ pos' = pos + 1
  /\ UNCHANGED input

WideChar ==
  /\ status = "wide" /\ HasWord
  /\ IsChar(WordHere)
  /\ stack' = [stack EXCEPT !.start = IF stack.current = <<>> THEN pos ELSE @,
                            !.current = Append(@, WordHere)]
  /\ NextWord(out.strings)

\* A zero ends a text, of four characters or more.
WideZero ==
  /\ status = "wide" /\ HasWord
  /\ WordHere = <<Zero, Zero>>
  /\ NextWord(IF Len(stack.current) >= 4 /\ LooksHuman(SelectSeq(stack.current, IsWideLetter))
              THEN Keep(out.strings, WordAddress(stack.start), stack.current) ELSE out.strings)
  /\ stack' = Fresh(stack.section)

WideOther ==
  /\ status = "wide" /\ HasWord
  /\ ~IsChar(WordHere) /\ WordHere # <<Zero, Zero>>
  /\ NextWord(out.strings)
  /\ stack' = Fresh(stack.section)

WideEnd ==
  /\ status = "wide" /\ ~HasWord
  /\ status' = "scanned"
  /\ UNCHANGED <<input, pos, stack, out>>

EndSection ==
  /\ status = "scanned"
  /\ stack' = Fresh(IF Count(out.strings) >= MaxStrings THEN Len(input.sections) + 1 ELSE stack.section + 1)
  /\ status' = "section"
  /\ UNCHANGED <<input, pos, out>>

-----------------------------------------------------------------------------
\* collect_symbols: the first name of an address.
SymbolsAt(a) == SelectSeq(input.symbols, LAMBDA s : s.address # 0 /\ s.name # "" /\ s.address = a)
SlotsAt(a)   == {s \in Slots : s.address = a}

\* reference_for_instruction: what the operand at a, and a call through it, are named.
Reference(a) ==
  LET slot == CHOOSE s \in SlotsAt(a) : TRUE
  IN  CASE SlotsAt(a) # {} -> [memory |-> <<"import", slot.name>>, call |-> slot.name]
        [] SlotsAt(a) = {} /\ a \in DOMAIN out.strings -> [memory |-> <<"string", out.strings[a]>>, call |-> "none"]
        [] SlotsAt(a) = {} /\ a \notin DOMAIN out.strings /\ SymbolsAt(a) # <<>> ->
             [memory |-> <<"symbol", Head(SymbolsAt(a)).name>>, call |-> "none"]
        [] OTHER -> [memory |-> <<"global", a>>, call |-> "none"]

\* The operands of the code: every address that something is laid out at.
Operands == UNION {{AddressOf(s, k) : k \in DOMAIN s.items} : s \in ToSet(input.sections)}

BuildReferences ==
  /\ status = "section"
  /\ stack.section > Len(input.sections)
  /\ out' = [out EXCEPT !.references = [a \in Operands |-> Reference(a)]]
  /\ status' = "done"
  /\ UNCHANGED <<input, pos, stack>>

Next == \/ BeginSection \/ AsciiPrintable \/ AsciiBreak \/ AsciiText \/ AsciiEnd
        \/ WideChar \/ WideZero \/ WideOther \/ WideEnd \/ EndSection \/ BuildReferences

Spec == Init /\ [][Next]_vars

-----------------------------------------------------------------------------
\* The text of an item, as the scan that is meant for it finds it.
Spelt(item) ==
  LET bytes == Stored(item)
  IN  IF item.kind = "text" THEN Front(bytes)
      ELSE [i \in DOMAIN item.chars |-> <<bytes[2 * i - 1], bytes[2 * i]>>]

Legible(item) == Len(item.chars) >= 4 /\ Len(SelectSeq(item.chars, LAMBDA c : c = "letter")) >= 2

\* Nothing printable stands right before a text; a wide one is aligned, after a zero word.
SetApart(section, k) ==
  LET before == Data([section EXCEPT !.items = SubSeq(section.items, 1, k - 1)])
      n      == Len(before)
  IN  IF section.items[k].kind = "text" THEN n = 0 \/ ~Printable(before[n])
      ELSE n % 2 = 0 /\ (n = 0 \/ SubSeq(before, n - 1, n) = <<Zero, Zero>>)

\* An operand is named for what is laid out at its address: an import for its slot, so
\* that a call through it calls the import, though the bytes of the slot may spell
\* something; a text or a wide text for itself, though each scan also reads what is
\* meant for the other one.  (Below the limit, and of data that is set apart.)
OperandsNamed ==
  status = "done" =>
    /\ Count(out.strings) <= MaxStrings
    /\ \A s \in ToSet(input.sections) : ~s.text => \A k \in DOMAIN s.items :
         LET item == s.items[k]
             name == out.references[AddressOf(s, k)]
         IN  /\ item.kind = "slot" => name = [memory |-> <<"import", item.name>>, call |-> item.name]
             /\ /\ item.kind \in {"text", "wide"} /\ Legible(item) /\ SetApart(s, k)
                /\ Count(out.strings) < MaxStrings
                => name.memory = <<"string", Spelt(item)>>
=============================================================================
