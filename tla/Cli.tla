-------------------------------- MODULE Cli --------------------------------
(***************************************************************************)
(* Command lines: `polydecomp decompile INPUT [-o OUTPUT] [--format F]     *)
(* [--force]' (run_cli of src/src/main.rs), any number of them at once over *)
(* one disk, while the user edits the input files.                         *)
(***************************************************************************)
EXTENDS Decompile

vars == <<disk, runs>>

Init ==
  /\ disk \in Disks
  /\ RunInit

\* run_cli detects the input for the default output, and then calls
\* decompile(), which detects it again.
CliDecompile(r) ==
  \E input \in Inputs, format \in Formats, force \in BOOLEAN :
    /\ IsFile(disk, input)
    /\ \E output \in Outputs \cup {DefaultOutput(input, KindOf(disk[input]), format)} :
         Start(r, input, output, force, format)
    /\ UNCHANGED disk

User ==
  /\ \E p \in Inputs : UserDeletes(p) \/ \E i \in Images : UserWrites(p, i)
  /\ UNCHANGED runs

Next == \/ \E r \in Runs : CliDecompile(r) \/ RunStep(r)
        \/ User

Spec == Init /\ [][Next]_vars

-----------------------------------------------------------------------------
\* "Archive traversal is rejected": whatever names an archive holds, a run
\* changes nothing outside its output but to create the directories above it.
Confined ==
  [][\A r \in Runs : runs'[r] # runs[r] =>
       \A p \in Paths : disk'[p] # disk[p] =>
         \/ Under(p, runs'[r].output)
         \/ Under(runs'[r].output, p) /\ disk[p] = Absent /\ disk'[p] = Dir]_vars

\* A run that reports success has written exactly what its engine recovered from
\* the bytes it read: no file is missing, torn, or left over from earlier output.
OutputExact ==
  \A r \in Runs :
    At(r, "ok") /\ Alone(r) /\ ClearOfInputs(r) =>
      /\ FilesUnder(runs[r].output) = DOMAIN Produced(r)
      /\ \A p \in DOMAIN Produced(r) : disk[p] = Produced(r)[p]

\* A run that fails leaves no mix of its output and an earlier one.  If its engine
\* rejects the data (tests/native_malformed.rs) there is no output, neither a part of
\* its own nor the stale one of an earlier run; if it fails while it writes, exactly
\* the files it had written are there, and at most the next one, torn.
FailureLeavesPrefix ==
  \A r \in Runs :
    At(r, "err") /\ Alone(r) /\ ClearOfInputs(r) =>
      /\ runs[r].error = "engine" => ~Exists(disk, runs[r].output)
      /\ runs[r].error \in {"write", "path"} =>
           FilesUnder(runs[r].output) =
             Written(r) \cup {p \in FilesUnder(runs[r].output) :
                               disk[p] = Torn /\ MoreFiles(r) /\ p = NextPath(r)}

\* "output already exists: ... (use --force)": without --force a run overwrites
\* and removes no file but the ones it wrote itself.  (Of a run whose output no other
\* run writes, nor the user once it is checked: two that name one output may both find
\* it absent, and the later one overwrites the earlier one.)
KeepsWithoutForce ==
  [][\A r \in Runs : runs'[r] # runs[r] /\ ~At(r, "idle") /\ ~runs[r].force /\ Alone(r)
                    /\ (At(r, "write") => ClearOfInputs(r)) =>
       \A p \in Paths : IsFile(disk, p) /\ disk'[p] # disk[p] =>
         At(r, "write") /\ p \in Written(r)]_vars
=============================================================================
