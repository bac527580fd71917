------------------------------ MODULE Archive ------------------------------
(***************************************************************************)
(* The archives: decompile_jar and safe_name of src/src/engines/jvm.rs,    *)
(* decompile_apk of src/src/engines/dex.rs.                                *)
(*                                                                         *)
(* A member has the parts of its name before the last one (`name'), the    *)
(* last one without the suffixes at its end (`stem', `ext'), whether it can *)
(* be unpacked (`intact'), and `files': what its engine makes of it,       *)
(* nothing if the engine rejects it.                                       *)
(***************************************************************************)
EXTENDS Integers, Sequences, FiniteSets, Functions

CONSTANTS
  Archives,     \* [kind, members]; a member is [name, stem, ext, dir, size, intact, files]
  MaxMembers, MaxMember, MaxTotal   \* MAX_ARCHIVE_ENTRIES, _MEMBER, _TOTAL

VARIABLES input, pos, stack, out, status

vars == <<input, pos, stack, out, status>>

\* `stack' holds the dex files read so far; a JAR keeps none.
Init ==
  /\ input \in Archives
  /\ pos = 1 /\ stack = <<>> /\ out = <<>>
  /\ status = "opening"

Fail(error) == status' = error /\ UNCHANGED <<input, pos, stack, out>>

Open ==
  /\ status = "opening"
  /\ Len(input.members) <= MaxMembers
  /\ status' = "reading"
  /\ UNCHANGED <<input, pos, stack, out>>

TooManyMembers ==
  /\ status = "opening"
  /\ Len(input.members) > MaxMembers
  /\ Fail("entries")

Member == input.members[pos]
Reading == status = "reading" /\ pos <= Len(input.members)

\* safe_name: empty parts, "." and ".." are left out.
Climbing == {"", ".", ".."}

SafeName(name) ==
  LET kept[n \in 0 .. Len(name)] ==
        IF n = 0 THEN <<>>
        ELSE IF name[n] \in Climbing THEN kept[n - 1] ELSE Append(kept[n - 1], name[n])
  IN  kept[Len(name)]

\* Mutant: the classes of all packages in one directory.
BaseName(m) == <<m.stem>>

\* The file of a class, whose name loses every ".class" at its end.
OutputName(m) == Append(SafeName(m.name), m.stem)

\* A JAR takes every class, an APK every classes*.dex in any directory.
Selected(m) ==
  IF input.kind = "jar" THEN ~m.dir /\ m.ext # <<>> /\ m.ext[Len(m.ext)] = ".class"
  ELSE m.stem \in {"classes", "classes2"} /\ m.ext # <<>> /\ m.ext[Len(m.ext)] = ".dex"

\* What the members up to each one expand to.
Sizes ==
  LET total[n \in 0 .. Len(input.members)] ==
        IF n = 0 THEN 0
        ELSE total[n - 1] + (IF Selected(input.members[n]) THEN input.members[n].size ELSE 0)
  IN  total

OverTotal == Sizes[pos] > MaxTotal

Skip ==
  /\ Reading
  /\ ~Selected(Member)
  /\ pos' = pos + 1
  /\ UNCHANGED <<input, stack, out, status>>

MemberTooLarge ==
  /\ Reading
  /\ Selected(Member)
  /\ Member.size > MaxMember
  /\ Fail("member")

TotalTooLarge ==
  /\ Reading
  /\ Selected(Member)
  /\ Member.size <= MaxMember
  /\ OverTotal
  /\ Fail("total")

Taken == Reading /\ Selected(Member) /\ Member.size <= MaxMember /\ ~OverTotal

\* read_to_end: what the library cannot unpack is an error of the whole archive.
Damaged == Taken /\ ~Member.intact /\ Fail("damaged")

\* A class that cannot be parsed becomes a file that says so.
ReadClass ==
  /\ Taken /\ Member.intact
  /\ input.kind = "jar"
  /\ out' = Append(out, [path |-> OutputName(Member),
                         text |-> IF Member.files = <<>> THEN "parse failed" ELSE Member.files[1]])
  /\ pos' = pos + 1
  /\ UNCHANGED <<input, stack, status>>

ReadDex ==
  /\ Taken /\ Member.intact
  /\ input.kind = "apk"
  /\ stack' = Append(stack, Member)
  /\ pos' = pos + 1
  /\ UNCHANGED <<input, out, status>>

\* The files of a dex, under its base name; one that cannot be parsed is one file.
FilesOf(m) ==
  IF m.files = <<>> THEN <<[path |-> <<m.stem>>, text |-> "error"]>>
  ELSE [i \in DOMAIN m.files |-> [path |-> <<m.stem, m.files[i]>>, text |-> m.files[i]]]

RenderDex ==
  /\ status = "reading" /\ pos > Len(input.members)
  /\ stack # <<>>
  /\ out' = out \o FilesOf(Head(stack))
  /\ stack' = Tail(stack)
  /\ UNCHANGED <<input, pos, status>>

Finish ==
  /\ status = "reading" /\ pos > Len(input.members)
  /\ stack = <<>>
  /\ status' = IF out = <<>> THEN "nothing" ELSE "done"
  /\ UNCHANGED <<input, pos, stack, out>>

Next == \/ Open \/ TooManyMembers
        \/ Skip \/ MemberTooLarge \/ TotalTooLarge \/ Damaged
        \/ ReadClass \/ ReadDex \/ RenderDex \/ Finish

Spec == Init /\ [][Next]_vars

-----------------------------------------------------------------------------
\* Archives as a tool writes them.  A part of a name stands for itself with its
\* suffix, so the last one is never empty.  The files of a dex are named after its
\* classes and do not pass safe_name: the dots of a class name become slashes (dex.rs
\* 613), so that no part is "." or "..", and dx writes no empty part.
Part == STRING \ Climbing
Members ==
  [name : Seq(STRING), stem : Part, ext : Seq(STRING), dir : BOOLEAN, size : Nat, intact : BOOLEAN, files : Seq(Part)]

ArchivesAssumption ==
  /\ MaxTotal \in Nat /\ MaxMember \in Nat /\ MaxMembers \in Nat
  /\ \A a \in Archives : a.kind \in {"jar", "apk"} /\ a.members \in Seq(Members)

\* The members that are to be read, and which file of a JAR's output a class becomes.
Chosen   == {i \in DOMAIN input.members : Selected(input.members[i])}
Place(i) == Cardinality({j \in Chosen : j <= i})
Expanded == Sizes[Len(input.members)]

\* No class is written over another of a different name.  (Names with parts that
\* safe_name takes away, or more than one suffix, may be, and are left out.)
Plain(m) == Len(m.ext) = 1 /\ SafeName(m.name) = m.name

ClassesApart ==
  \A i, j \in Chosen :
    LET m == input.members[i]  n == input.members[j]
    IN  Plain(m) /\ Plain(n) /\ <<m.name, m.stem>> # <<n.name, n.stem>> => out[Place(i)].path # out[Place(j)].path

\* An archive is decompiled as a whole or refused as a whole: refused exactly when
\* it holds too much, a member that cannot be unpacked, or nothing to decompile,
\* never because of a class or a dex that cannot be parsed.  Otherwise every class,
\* or every dex, has its place in the output, and no name in it climbs, so that
\* write_tree rejects none.
WholeOrRefused ==
  /\ status = "done" =>
       /\ Len(input.members) <= MaxMembers /\ Expanded <= MaxTotal
       /\ \A i \in Chosen : input.members[i].size <= MaxMember /\ input.members[i].intact
       /\ \A i \in Chosen : \E f \in Range(out) : input.members[i].stem \in Range(f.path)
       /\ \A f \in Range(out) : Range(f.path) \cap Climbing = {}
       /\ input.kind = "jar" => Len(out) = Cardinality(Chosen) /\ ClassesApart
  /\ status = "nothing" => Chosen = {}
  /\ status \in {"entries", "member", "total", "damaged"} =>
       \/ Len(input.members) > MaxMembers \/ Expanded > MaxTotal
       \/ \E i \in Chosen : input.members[i].size > MaxMember \/ ~input.members[i].intact
=============================================================================
