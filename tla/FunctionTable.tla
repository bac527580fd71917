--------------------------- MODULE FunctionTable ---------------------------
(***************************************************************************)
(* Which functions a native image has: collect_functions of                *)
(* src/src/engines/native.rs.                                              *)
(*                                                                         *)
(* Symbols, the records of .pdata and the entry point seed a table keyed by *)
(* address; the direct calls of each function, decoded as far as its size   *)
(* is known, add more; the sizes still unknown are then inferred from what  *)
(* follows in the section.                                                  *)
(*                                                                         *)
(* Code is abstracted to what discovery reads of it: at each address a call, *)
(* a return or neither, run in a straight line (NativeCfg has the branches). *)
(***************************************************************************)
EXTENDS Integers, Sequences, FiniteSets, Functions

CONSTANTS
  SectionStart, SectionEnd,   \* of each section: addresses, disjoint ranges
  TextSections,               \* sections of kind Text
  Images,                     \* what may be analysed
  SymbolNames,                \* the names of its symbols; "sub" if there is none
  UnknownLimit,               \* UNKNOWN_FUNCTION_LIMIT
  MaxSeeds,                   \* 512
  MaxDiscovered,              \* MAX_DISCOVERED_FUNCTIONS
  MaxRecord                   \* of a function in .pdata: 16 MiB

Sections == DOMAIN SectionStart

ASSUME SectionAssumption ==
  /\ DOMAIN SectionEnd = Sections /\ TextSections \subseteq Sections
  /\ \A s \in Sections : SectionStart[s] \in Nat \ {0} /\ SectionEnd[s] \in Nat
  /\ \A s, t \in Sections : s # t => \/ SectionEnd[s] <= SectionStart[t]
                                     \/ SectionEnd[t] <= SectionStart[s]

\* Every name that begins with "sub_" is the same one here, that of a generated name.
Generated == "sub_"
AllNames  == SymbolNames \cup {Generated, "entry_"}

\* A symbol names its section; code is what each address of a section decodes to.
ASSUME ImageAssumption ==
  \A i \in Images :
    /\ i.symbols \in Seq([address : Nat, size : Nat, name : SymbolNames])
    /\ \A k \in DOMAIN i.symbols :
         \/ i.symbols[k].address = 0
         \/ \E s \in Sections : i.symbols[k].address \in SectionStart[s] .. SectionEnd[s] - 1
    /\ i.pdata \in Seq([begin : Nat, end : Nat])
    /\ i.entry \in Nat
    /\ \A s \in Sections : \A a \in SectionStart[s] .. SectionEnd[s] - 1 :
         i.code[a].target \in Nat

ASSUME BoundAssumption == {UnknownLimit, MaxSeeds, MaxDiscovered, MaxRecord} \subseteq Nat \ {0}

VARIABLES
  image,       \* symbols, pdata, entry and code
  symbols, pdata,  \* those not inserted yet
  table,       \* the map of insert_function: address -> size, name, origin
  functions,   \* the Vec, of addresses; the records are in table
  known, queue,    \* of discover_x86_functions
  phase

vars == <<image, symbols, pdata, table, functions, known, queue, phase>>

-----------------------------------------------------------------------------
InSection(a, s) == SectionStart[s] <= a /\ a < SectionEnd[s]
HasSection(a) == \E s \in Sections : InSection(a, s)
SectionOf(a)  == CHOOSE s \in Sections : InSection(a, s)
Executable(a) == \E s \in TextSections : InSection(a, s)

Lesser(m, n) == IF m <= n THEN m ELSE n

Put(t, a, f) == [b \in DOMAIN t \cup {a} |-> IF b = a THEN f ELSE t[b]]

\* Mutant: whoever comes last stays.
PutLast(t, a, f) == Put(t, a, f)

Named(f) == f.name # Generated

\* Size and, if it is a name, name of f for a function of unknown size.
Filled(g, f) ==
  [size   |-> f.size,
   name   |-> IF Named(f) THEN f.name ELSE g.name,
   origin |-> IF Named(f) THEN f.origin ELSE g.origin]

\* insert_function: a name replaces a generated one and all that came with it; a size
\* fills in an unknown one, and brings its name along.
Insert(t, a, f) ==
  CASE a \notin DOMAIN t -> Put(t, a, f)
    [] a \in DOMAIN t /\ Named(f) /\ ~Named(t[a]) -> Put(t, a, f)
    [] a \in DOMAIN t /\ ~(Named(f) /\ ~Named(t[a])) /\ t[a].size = 0 /\ f.size # 0 ->
         Put(t, a, Filled(t[a], f))
    [] OTHER -> t

\* Mutant: a function of unknown size has no bytes yet.
KnownBytes(a, size) == size

\* function_bytes: an unknown size reads to the end of the section, or the limit.
BytesOf(a, size) ==
  LET rest == SectionEnd[SectionOf(a)] - a
  IN  Lesser(IF size = 0 THEN UnknownLimit ELSE size, rest)

\* The direct calls decode_x86_cfg finds in n bytes at a.
CallTargets(a, n) ==
  {image.code[b].target : b \in {x \in a .. a + n - 1 :
      image.code[x].kind = "call" /\ \A y \in a .. x - 1 : image.code[y].kind # "return"}}

\* Mutant: a call to a function that is known is news.
AllCalls(a) == {t \in CallTargets(a, BytesOf(a, table[a].size)) : Executable(t)}

\* `!address_is_executable(file, target) || !known.insert(target)': not these.
NewCalls(a) ==
  {t \in CallTargets(a, BytesOf(a, table[a].size)) : Executable(t) /\ t \notin known}

\* The members of S by rank: as a BTreeSet or a BTreeMap gives them.
InOrder(S) == [i \in 1 .. Cardinality(S) |->
                 CHOOSE a \in S : Cardinality({b \in S : b < a}) = i - 1]

\* Mutant: any function that follows, whatever its section, and not its own calls.
FollowingSeed(a) == {b \in DOMAIN table : table[b].origin # "recursive-call" /\ b > a}

Following(a) == {b \in DOMAIN table : SectionOf(b) = SectionOf(a) /\ b > a}

InferredSize(a) ==
  LET end == IF Following(a) = {} THEN SectionEnd[SectionOf(a)]
             ELSE CHOOSE b \in Following(a) : \A c \in Following(a) : b <= c
  IN  Lesser(end - a, UnknownLimit)

-----------------------------------------------------------------------------
Init ==
  /\ image \in Images
  /\ symbols = image.symbols /\ pdata = image.pdata
  /\ table = << >> /\ functions = <<>>
  /\ known = {} /\ queue = <<>>
  /\ phase = "symbols"

OfSymbol(s) == [size |-> s.size, name |-> s.name, origin |-> "symbol"]
OfRecord(p) == [size |-> p.end - p.begin, name |-> Generated, origin |-> "pe-pdata"]
OfEntry     == [size |-> 0, name |-> "entry_", origin |-> "entry-point"]
OfCall      == [size |-> 0, name |-> Generated, origin |-> "recursive-call"]

\* One turn of the loop over the symbols; those of kind Text alone are listed.
AddSymbol ==
  /\ phase = "symbols"
  /\ symbols # <<>>
  /\ symbols' = Tail(symbols)
  /\ LET s == Head(symbols)
     IN  table' = IF s.address = 0 THEN table ELSE Insert(table, s.address, OfSymbol(s))
  /\ UNCHANGED <<image, pdata, functions, known, queue, phase>>

\* A record of .pdata is left out if it is empty, too large or outside all sections.
Skipped(p) == p.end <= p.begin \/ p.end - p.begin > MaxRecord \/ ~HasSection(p.begin)

AddPdata ==
  /\ phase = "symbols"
  /\ symbols = <<>>
  /\ pdata # <<>>
  /\ pdata' = Tail(pdata)
  /\ LET p == Head(pdata)
     IN  table' = IF Skipped(p) THEN table ELSE Insert(table, p.begin, OfRecord(p))
  /\ UNCHANGED <<image, symbols, functions, known, queue, phase>>

\* `entry_' is no generated name, so the renaming never happens.
WithEntry ==
  IF image.entry = 0 \/ ~HasSection(image.entry) THEN table
  ELSE Insert(table, image.entry, OfEntry)

\* A file with MaxSeeds functions or more is taken to be complete.
AddEntry ==
  /\ phase = "symbols"
  /\ symbols = <<>>
  /\ pdata = <<>>
  /\ table' = WithEntry
  /\ functions' = InOrder(DOMAIN WithEntry)
  /\ IF Cardinality(DOMAIN WithEntry) >= MaxSeeds
     THEN phase' = "sizes" /\ UNCHANGED <<known, queue>>
     ELSE /\ phase' = "discover"
          /\ known' = DOMAIN WithEntry
          /\ queue' = InOrder(DOMAIN WithEntry)
  /\ UNCHANGED <<image, symbols, pdata>>

EndDiscovery ==
  /\ phase = "discover"
  /\ queue = <<>> \/ Cardinality(known) >= MaxDiscovered
  /\ phase' = "sizes"
  /\ queue' = IF queue = <<>> THEN <<>> ELSE Tail(queue)
  /\ UNCHANGED <<image, symbols, pdata, table, functions, known>>

\* The limit is looked at once per function, not once per call.
DiscoverCalls ==
  /\ phase = "discover"
  /\ queue # <<>>
  /\ Cardinality(known) < MaxDiscovered
  /\ LET a   == Head(queue)
         new == NewCalls(a)
     IN  /\ known' = known \cup new
         /\ table' = [b \in DOMAIN table \cup new |->
                        IF b \in new THEN OfCall ELSE table[b]]
         /\ functions' = functions \o InOrder(new)
         /\ queue' = Tail(queue) \o InOrder(new)
  /\ UNCHANGED <<image, symbols, pdata, phase>>

\* infer_unknown_sizes, and the order of the result: the entry point first.
InferSizes ==
  /\ phase = "sizes"
  /\ table' = [a \in DOMAIN table |->
                 IF table[a].size # 0 THEN table[a]
                 ELSE [table[a] EXCEPT !.size = InferredSize(a)]]
  /\ functions' = LET rest == DOMAIN table \ {image.entry}
                  IN  InOrder(DOMAIN table \cap {image.entry}) \o InOrder(rest)
  /\ phase' = "done"
  /\ UNCHANGED <<image, symbols, pdata, known, queue>>

Next ==
  \/ AddSymbol
  \/ AddPdata
  \/ AddEntry
  \/ EndDiscovery
  \/ DiscoverCalls
  \/ InferSizes

Spec == Init /\ [][Next]_vars

-----------------------------------------------------------------------------
\* The type invariant of the table and the lists of collect_functions; the list
\* names each address of the table once, so dedup_by_key finds nothing.
TypeOK ==
  /\ phase \in {"symbols", "discover", "sizes", "done"}
  /\ \A a \in DOMAIN table : /\ HasSection(a)
                            /\ table[a].size \in Nat
                            /\ table[a].name \in AllNames
                            /\ table[a].origin \in {"symbol", "pe-pdata", "entry-point", "recursive-call"}
  /\ phase # "symbols" => /\ Range(functions) = DOMAIN table
                          /\ Len(functions) = Cardinality(DOMAIN table)
  /\ phase = "discover" => /\ known = DOMAIN table
                           /\ IsInjective(queue) /\ Range(queue) \subseteq known

\* The direct calls of the functions that are printed lead to functions that are
\* printed, though discovery decoded with other sizes than those printed: unless
\* a limit kept discovery from running to its end.
CallsListed ==
  phase = "done" /\ known # {} /\ Cardinality(known) < MaxDiscovered =>
    \A a \in DOMAIN table : \A t \in CallTargets(a, BytesOf(a, table[a].size)) :
      Executable(t) => t \in DOMAIN table

\* An inferred size is not 0, and stays within the section and clear of whatever
\* function follows, those that the calls found included.
InferredSizesFit ==
  [][phase = "sizes" =>
       \A a \in DOMAIN table : table[a].size = 0 =>
         /\ table'[a].size > 0
         /\ a + table'[a].size <= SectionEnd[SectionOf(a)]
         /\ \A b \in DOMAIN table : b > a => a + table'[a].size <= b]_vars

\* A function with a name and a size is settled: no later symbol, record, entry point,
\* call or inference changes it.  One with a name alone keeps it, and where it came
\* from, until it has a size; only a symbol of the same address may bring another name
\* with the size.
NamesStick ==
  [][\A a \in DOMAIN table : Named(table[a]) =>
       \/ table'[a] = table[a]
       \/ /\ table[a].size = 0 /\ table'[a].size # 0
          /\ \/ table'[a] = [table[a] EXCEPT !.size = table'[a].size]
             \/ /\ symbols # <<>> /\ Head(symbols).address = a
                /\ table'[a] = OfSymbol(Head(symbols)) /\ Named(table'[a])]_vars
=============================================================================
