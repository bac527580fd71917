----------------------------- MODULE CliProofs -----------------------------
(***************************************************************************)
(* Proofs about command lines, for any number of them at once, from the    *)
(* lemmas about the steps of an invocation.                                *)
(***************************************************************************)
EXTENDS Cli, PipelineProofs

LEMMA Started ==
  ASSUME Typed, NEW r \in Runs, CliDecompile(r)
  PROVE  /\ Typed' /\ UNCHANGED disk /\ runs[r] = Idle /\ runs'[r].stage = "detect"
         /\ \A q \in Runs \ {r} : runs'[q] = runs[q]
<1>1. PICK i \in Inputs, f \in Formats, force \in BOOLEAN :
        /\ IsFile(disk, i)
        /\ \E o \in Outputs \cup {DefaultOutput(i, KindOf(disk[i]), f)} : Start(r, i, o, force, f)
        /\ UNCHANGED disk
  BY DEF CliDecompile
<1>2. PICK o \in Outputs \cup {DefaultOutput(i, KindOf(disk[i]), f)} : Start(r, i, o, force, f)
  BY <1>1
<1>3. o \in AllOutputs
  BY <1>1, <1>2, DefaultIsOutput DEF AllOutputs
<1>4. /\ Typed' /\ runs[r] = Idle
      /\ runs'[r] = NewRun(i, o, force, f) /\ \A q \in Runs \ {r} : runs'[q] = runs[q]
  BY <1>1, <1>2, <1>3, StartTyped
<1> QED
  BY <1>1, <1>4 DEF NewRun

LEMMA UserTyped ==
  ASSUME Typed, User
  PROVE  /\ Typed' /\ UNCHANGED runs
         /\ \E p \in Inputs : \A q \in Paths \ {p} : disk'[q] = disk[q]
<1>1. PICK p \in Inputs : UserDeletes(p) \/ \E i \in Images : UserWrites(p, i)
  BY DEF User
<1>2. UNCHANGED runs
  BY DEF User
<1> QED
  BY <1>1, <1>2, EditTyped

LEMMA NextTyped == Typed /\ [Next]_vars => Typed'
<1> SUFFICES ASSUME Typed, [Next]_vars PROVE Typed'
  OBVIOUS
<1>1. CASE \E r \in Runs : CliDecompile(r)
  BY <1>1, Started
<1>2. CASE \E r \in Runs : RunStep(r)
  BY <1>2, StepTyped
<1>3. CASE User
  BY <1>3, UserTyped
<1>4. CASE UNCHANGED vars
  BY <1>4 DEF vars, Typed
<1> QED
  BY <1>1, <1>2, <1>3, <1>4 DEF Next

LEMMA AlwaysTyped == Spec => []Typed
<1>1. Init => Typed
  BY InitTyped DEF Init
<1> QED
  BY <1>1, NextTyped, PTL DEF Spec

\* The disk stays a tree, however many runs and the user work on it at once, and the
\* records of the runs keep their form.
THEOREM TypeCorrect == Spec => []TypeOK
<1>1. Typed => TypeOK
  BY DEF Typed, TypeOK, GoodDisk, GoodRun
<1> QED
  BY <1>1, AlwaysTyped, PTL

-----------------------------------------------------------------------------
\* "Archive traversal is rejected": for any names an archive may hold, whatever else
\* goes on, a run changes nothing outside its output.
THEOREM RunsAreConfined == Spec => Confined
<1> DEFINE Kept == \A r \in Runs : runs'[r] # runs[r] =>
                     \A p \in Paths : disk'[p] # disk[p] =>
                       \/ Under(p, runs'[r].output)
                       \/ Under(runs'[r].output, p) /\ disk[p] = Absent /\ disk'[p] = Dir
<1>1. ASSUME Typed, [Next]_vars PROVE [Kept]_vars
  <2>1. CASE \E r \in Runs : CliDecompile(r)
    BY <1>1, <2>1, Started
  <2>2. CASE \E r \in Runs : RunStep(r)
    BY <1>1, <2>2, RunSteps DEF StepIsGood, Footprint
  <2>3. CASE User
    BY <2>3 DEF User
  <2>4. CASE UNCHANGED vars
    BY <2>4
  <2> QED
    BY <1>1, <2>1, <2>2, <2>3, <2>4 DEF Next
<1>2. Spec => [][Kept]_vars
  BY <1>1, AlwaysTyped, PTL DEF Spec
<1> QED
  BY <1>2 DEF Confined

-----------------------------------------------------------------------------
\* The output of a run that nobody else works on.
Undisturbed(r) == Alone(r) /\ ClearOfInputs(r)

Progress == \A r \in Runs : ~At(r, "idle") /\ Undisturbed(r) => Output(runs[r], disk)

IInv == Typed /\ Progress

\* Who works alone on an output did so before.
LEMMA AloneBefore ==
  ASSUME Typed, NEW r \in Runs, ~At(r, "idle"), runs'[r].output = runs[r].output,
         \A q \in Runs : ~At(q, "idle") => runs'[q].stage # "idle" /\ runs'[q].output = runs[q].output
  PROVE  Undisturbed(r)' => Undisturbed(r)
<1>1. ClearOfInputs(r)' => ClearOfInputs(r)
  BY DEF ClearOfInputs
<1>2. ASSUME Alone(r)', NEW q \in Runs \ {r} PROVE At(q, "idle") \/ ~Overlap(runs[q].output, runs[r].output)
  BY <1>2 DEF Alone, At
<1> QED
  BY <1>1, <1>2 DEF Undisturbed, Alone

\* A step of another run leaves the output alone.
LEMMA OthersKeep ==
  ASSUME Typed, NEW r \in Runs, ~At(r, "idle"), NEW q \in Runs \ {r}, ~At(q, "idle"),
         Alone(r), Footprint(q), NEW p \in Paths, Under(p, runs[r].output)
  PROVE  disk'[p] = disk[p]
<1>1. runs[r].output \in Paths /\ runs[q].output \in Paths
  BY NotIdle DEF GoodRun, RunRecord
<1>2. runs[r].output \in Seq(Names) /\ runs[q].output \in Seq(Names) /\ p \in Seq(Names)
  BY <1>1, PathsAreSequences
<1>3. ~Overlap(runs[q].output, runs[r].output)
  BY DEF Alone
<1>4. ~Under(p, runs[q].output)
  BY <1>2, <1>3, UnderIsAnOrder
<1>5. ~Under(runs[q].output, p)
  BY <1>2, <1>3, UnderIsAnOrder DEF Overlap
<1> QED
  BY <1>4, <1>5 DEF Footprint

\* A step keeps the outputs of all the other runs.
LEMMA StepProgress ==
  ASSUME IInv, NEW q \in Runs, RunStep(q)
  PROVE  Progress'
<1>1. Typed /\ StepIsGood(q) /\ GoodRun(runs[q]) /\ ~At(q, "idle")
  <2>1. GoodRun(runs[q]) /\ StepIsGood(q)
    BY RunSteps DEF IInv
  <2> QED
    BY <2>1 DEF IInv, At, GoodRun, RunRecord
<1>2. \A r \in Runs : ~At(r, "idle") =>
        runs'[r].stage # "idle" /\ runs'[r].output = runs[r].output
  BY <1>1 DEF StepIsGood, At, GoodRun, RunRecord
<1>3. ASSUME NEW r \in Runs, ~At(r, "idle")', Undisturbed(r)'
      PROVE  Output(runs[r], disk)' /\ GoodRun(runs[r])
  <2>1. ~At(r, "idle")
    BY <1>1, <1>3 DEF StepIsGood, At
  <2>2. Undisturbed(r) /\ GoodRun(runs[r]) /\ Output(runs[r], disk)
    BY <1>1, <1>2, <1>3, <2>1, AloneBefore, NotIdle DEF IInv, Progress
  <2>3. CASE r = q
    BY <1>1, <2>2, <2>3, OwnStep
  <2>4. CASE r # q
    <3>1. runs'[r] = runs[r]
      BY <1>1, <2>4 DEF StepIsGood
    <3>2. \A p \in Paths : Under(p, runs[r].output) => disk'[p] = disk[p]
      BY <1>1, <2>1, <2>2, <2>4, OthersKeep DEF StepIsGood, Undisturbed
    <3>3. Output(runs[r], disk')
      BY <2>2, <3>2, OutputLocal
    <3> QED
      BY <2>2, <3>1, <3>3
  <2> QED
    BY <2>3, <2>4
<1> QED
  BY <1>3 DEF Progress

LEMMA StartProgress ==
  ASSUME IInv, NEW q \in Runs, CliDecompile(q)
  PROVE  Progress'
<1>1. /\ Typed /\ Typed' /\ UNCHANGED disk /\ runs[q] = Idle /\ runs'[q].stage = "detect"
      /\ \A r \in Runs \ {q} : runs'[r] = runs[r]
  BY Started DEF IInv
<1>2. \A r \in Runs : ~At(r, "idle") =>
        runs'[r].stage # "idle" /\ runs'[r].output = runs[r].output
  BY <1>1 DEF At, Idle
<1>3. ASSUME NEW r \in Runs, ~At(r, "idle")', Undisturbed(r)'
      PROVE  Output(runs[r], disk)'
  <2>1. CASE r = q
    <3>1. runs'[r].stage = "detect" /\ runs'[r].error = "none"
      BY <1>1, <2>1 DEF Typed, Idle, GoodRun, RunRecord
    <3> QED
      BY <3>1 DEF Output
  <2>2. CASE r # q
    <3>1. runs'[r] = runs[r] /\ ~At(r, "idle")
      BY <1>1, <1>3, <2>2 DEF At
    <3>2. Undisturbed(r)
      BY <1>1, <1>2, <1>3, <3>1, AloneBefore
    <3>3. Output(runs[r], disk)
      BY <3>1, <3>2 DEF IInv, Progress
    <3> QED
      BY <1>1, <3>1, <3>3
  <2> QED
    BY <2>1, <2>2
<1> QED
  BY <1>3 DEF Progress

LEMMA UserProgress ==
  ASSUME IInv, User
  PROVE  Progress'
<1>1. Typed /\ UNCHANGED runs
  BY UserTyped DEF IInv
<1>2. PICK i \in Inputs : \A p \in Paths \ {i} : disk'[p] = disk[p]
  BY UserTyped DEF IInv
<1>3. ASSUME NEW r \in Runs, ~At(r, "idle")', Undisturbed(r)'
      PROVE  Output(runs[r], disk)'
  <2>1. ~At(r, "idle") /\ Undisturbed(r) /\ runs'[r] = runs[r]
    BY <1>1, <1>3 DEF At, Undisturbed, Alone, ClearOfInputs
  <2>2. GoodRun(runs[r]) /\ Output(runs[r], disk)
    BY <1>1, <2>1, NotIdle DEF IInv, Progress
  <2>3. \A p \in Paths : Under(p, runs[r].output) => disk'[p] = disk[p]
    BY <1>2, <2>1 DEF Undisturbed, ClearOfInputs, Overlap
  <2>4. Output(runs[r], disk')
    BY <2>2, <2>3, OutputLocal
  <2> QED
    BY <2>1, <2>4
<1> QED
  BY <1>3 DEF Progress

LEMMA InitInv == Init => IInv
<1>1. Init => Progress
  BY DEF Init, RunInit, Progress, At, Idle
<1> QED
  BY <1>1, InitTyped DEF IInv, Init

LEMMA NextInv == IInv /\ [Next]_vars => IInv'
<1> SUFFICES ASSUME IInv, [Next]_vars PROVE IInv'
  OBVIOUS
<1>1. Typed'
  BY NextTyped DEF IInv
<1>2. CASE UNCHANGED vars
  BY <1>2 DEF vars, IInv, Typed, Progress, At, Undisturbed, Alone, ClearOfInputs
<1>3. Progress'
  BY <1>2, StepProgress, StartProgress, UserProgress DEF Next, IInv
<1> QED
  BY <1>1, <1>3 DEF IInv

LEMMA AlwaysIInv == Spec => []IInv
BY InitInv, NextInv, PTL DEF Spec

-----------------------------------------------------------------------------
\* What a successful run reports is on the disk, all of it and nothing else, for any
\* data, any names in an archive, and whatever other runs do elsewhere.
THEOREM SuccessIsExact == Spec => []OutputExact
<1>1. ASSUME IInv, NEW r \in Runs, At(r, "ok"), Alone(r), ClearOfInputs(r)
      PROVE  /\ FilesUnder(runs[r].output) = DOMAIN Produced(r)
             /\ \A p \in DOMAIN Produced(r) : disk[p] = Produced(r)[p]
  <2>1. GoodRun(runs[r]) /\ Output(runs[r], disk)
    BY <1>1, NotIdle DEF IInv, Progress, Undisturbed, At
  <2> QED
    BY <1>1, <2>1, ExactOutput
<1>2. IInv => OutputExact
  BY <1>1 DEF OutputExact
<1> QED
  BY <1>2, AlwaysIInv, PTL

\* A run that fails leaves nothing of an earlier output, and of its own the files it
\* had finished, wherever in the run the failure is.
THEOREM FailureIsClean == Spec => []FailureLeavesPrefix
<1>1. ASSUME IInv, NEW r \in Runs, At(r, "err"), Alone(r), ClearOfInputs(r)
      PROVE  /\ runs[r].error = "engine" => ~Exists(disk, runs[r].output)
             /\ runs[r].error \in {"write", "path"} =>
                  FilesUnder(runs[r].output) =
                    Written(r) \cup {p \in FilesUnder(runs[r].output) :
                                      disk[p] = Torn /\ MoreFiles(r) /\ p = NextPath(r)}
  <2>1. GoodRun(runs[r]) /\ Output(runs[r], disk)
    BY <1>1, NotIdle DEF IInv, Progress, Undisturbed, At
  <2>2. runs[r].output \in Paths /\ Under(runs[r].output, runs[r].output)
    BY <2>1, PathsAreSequences, UnderIsAnOrder DEF GoodRun, RunRecord
  <2>3. ASSUME runs[r].error \in {"write", "path"}
        PROVE  FilesUnder(runs[r].output) =
                 Written(r) \cup {p \in FilesUnder(runs[r].output) :
                                   disk[p] = Torn /\ MoreFiles(r) /\ p = NextPath(r)}
    <3>1. HoldsTorn(runs[r], disk)
      BY <2>1, <2>3 DEF Output
    <3>2. Written(r) = WrittenBy(runs[r])
      BY DEF Written, WrittenBy, FileAt, InTree, Files
    <3>3. NextPath(r) = FileAt(runs[r], runs[r].written + 1)
      BY DEF NextPath, NextName, FileAt, InTree, Files
    <3>4. \A p \in WrittenBy(runs[r]) : p \in Paths /\ Under(p, runs[r].output)
      <4>1. /\ EngineAccepts(runs[r].kind, runs[r].data)
            /\ runs[r].written \in 0 .. Len(Files(runs[r]))
            /\ \A n \in 1 .. runs[r].written : SafeAt(runs[r], n)
        BY <2>1, <2>3 DEF GoodRun, Writes
      <4>2. \A n \in 1 .. runs[r].written : n \in 1 .. Len(Files(runs[r]))
        BY <2>1, <4>1, FilesOf
      <4> QED
        BY <2>1, <4>1, <4>2, FilesOf DEF WrittenBy
    <3> QED
      BY <3>1, <3>2, <3>3, <3>4 DEF HoldsTorn, FilesUnder, MoreFiles, Files
  <2> QED
    BY <2>1, <2>2, <2>3 DEF Output
<1>2. IInv => FailureLeavesPrefix
  BY <1>1 DEF FailureLeavesPrefix
<1> QED
  BY <1>2, AlwaysIInv, PTL

\* Without --force a run whose output is absent when it looks changes no file that
\* was there, at whatever step it ends.
THEOREM KeepsFiles == Spec => KeepsWithoutForce
<1> DEFINE Kept == \A r \in Runs :
                     runs'[r] # runs[r] /\ ~At(r, "idle") /\ ~runs[r].force /\ Alone(r)
                       /\ (At(r, "write") => ClearOfInputs(r)) =>
                     \A p \in Paths : IsFile(disk, p) /\ disk'[p] # disk[p] =>
                       At(r, "write") /\ p \in Written(r)
<1>1. ASSUME IInv, NEW r \in Runs, RunStep(r), ~runs[r].force, Alone(r),
             At(r, "write") => ClearOfInputs(r),
             NEW p \in Paths, IsFile(disk, p), disk'[p] # disk[p]
      PROVE  At(r, "write") /\ p \in Written(r)
  <2>1. GoodRun(runs[r]) /\ Footprint(r) /\ Typed
    BY <1>1, RunSteps DEF StepIsGood, IInv
  <2>2. Under(p, runs[r].output)
    BY <1>1, <2>1 DEF Footprint, IsFile, Exists, Absent
  <2>3. CASE At(r, "write")
    <3>1. Output(runs[r], disk)
      BY <1>1, <2>3 DEF IInv, Progress, Undisturbed, At
    <3>2. p \in WrittenBy(runs[r])
      BY <1>1, <2>2, <2>3, <3>1 DEF Output, Holds, At
    <3> QED
      BY <2>3, <3>2 DEF Written, WrittenBy, FileAt, InTree, Files
  <2>4. CASE PrepareOutput(r) \/ PrepareFault(r)
    <3>1. ~Exists(disk, runs[r].output) /\ runs[r].output \in Paths
      BY <1>1, <2>1, <2>4 DEF PrepareOutput, PrepareFault, Refuses, GoodRun, RunRecord
    <3>2. CASE p = runs[r].output
      BY <1>1, <3>1, <3>2 DEF IsFile
    <3>3. CASE p # runs[r].output
      <4>1. disk[runs[r].output].type = "dir"
        BY <1>1, <2>1, <2>2, <3>1, <3>3, NothingBelow DEF Typed, IsFile
      <4> QED
        BY <3>1, <4>1 DEF Exists
    <3> QED
      BY <3>2, <3>3
  <2>5. CASE RunEngine(r)
    BY <1>1, <2>1, <2>5, EngineReturns DEF IsFile, Exists, Absent
  <2>6. CASE UNCHANGED disk
    BY <1>1, <2>6
  <2> QED
    BY <1>1, <2>3, <2>4, <2>5, <2>6
    DEF RunStep, Detect, ReadInput, OutputExists, EngineFails, WriteFile, WriteFails, WriteFault,
        RejectName, Finish
<1>2. ASSUME IInv, [Next]_vars PROVE [Kept]_vars
  <2>1. CASE \E r \in Runs : CliDecompile(r)
    BY <1>2, <2>1, Started DEF IInv
  <2>2. ASSUME NEW q \in Runs, RunStep(q) PROVE Kept
    <3>1. \A r \in Runs : runs'[r] # runs[r] => r = q
      BY <1>2, <2>2, RunSteps DEF StepIsGood, IInv
    <3> QED
      BY <1>1, <1>2, <2>2, <3>1
  <2>3. CASE User
    BY <2>3 DEF User
  <2>4. CASE UNCHANGED vars
    BY <2>4
  <2> QED
    BY <1>2, <2>1, <2>2, <2>3, <2>4 DEF Next
<1>3. Spec => [][Kept]_vars
  BY <1>2, AlwaysIInv, PTL DEF Spec
<1> QED
  BY <1>3 DEF KeepsWithoutForce
=============================================================================
