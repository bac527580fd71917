----------------------------- MODULE GuiProofs -----------------------------
(***************************************************************************)
(* Proofs about the window, for any number of clicks, any inputs, formats  *)
(* and disks, and whatever the file system refuses, from the lemmas about  *)
(* the steps of an invocation.                                             *)
(***************************************************************************)
EXTENDS Gui, PipelineProofs

FieldInv == input \in Inputs \cup {NoPath} /\ native_format \in Formats

\* The output of every job is the automatic one of the file it reads, in its own format.
OutputsInv ==
  \A r \in Runs : ~At(r, "idle") =>
    \E k \in FileKinds : runs[r].output = DefaultOutput(runs[r].input, k, runs[r].format)

\* What the window put in the output field agrees with the other fields.
FreshInv ==
  /\ DOMAIN origin = {"by", "path", "kind", "typed"}
  /\ origin.by = "window" =>
       /\ output = DefaultOutput(origin.path, origin.kind, native_format)
       /\ detection \in {NoKind, origin.kind}
       /\ origin.path = input \/ origin.typed \/ detection = NoKind

\* Nobody but the job that the window waits for writes, so its output is as it left it.
JobInv ==
  worker # NoRun => /\ worker \in Runs /\ ~At(worker, "idle")
                    /\ ClearOfInputs(worker) => Output(runs[worker], disk)

\* The text or the names of what a run has written.
TextOf(run, text) ==
  /\ DOMAIN text = WrittenBy(run)
  /\ run.kind \notin TreeKinds => text = [p \in {run.output} |-> TextAt(run, 1)]

ResultInv ==
  shown # NoRun => /\ shown \in Runs /\ At(shown, "ok")
                   /\ ClearOfInputs(shown) => TextOf(runs[shown], preview)

IInv ==
  /\ Typed /\ FieldInv /\ OutputsInv /\ JobInv /\ ResultInv
  /\ OneJob /\ FreshInv

-----------------------------------------------------------------------------
LEMMA Initial == Init => IInv
<1> SUFFICES ASSUME Init PROVE IInv
  OBVIOUS
<1>1. Typed
  BY InitTyped DEF Init
<1>2. runs = [r \in Runs |-> Idle] /\ \A r \in Runs : ~Running(r) /\ At(r, "idle")
  BY DEF Init, RunInit, Running, Idle, At
<1>3. FieldInv /\ OneJob /\ FreshInv
  BY <1>2, GuiAssumption DEF Init, FieldInv, OneJob, FreshInv, ChosenOutput
<1>4. OutputsInv /\ JobInv /\ ResultInv
  BY <1>2 DEF Init, OutputsInv, JobInv, ResultInv
<1> QED
  BY <1>1, <1>3, <1>4 DEF IInv

\* What detection leaves in the fields.
LEMMA Detection ==
  ASSUME Typed, FreshInv, NEW p \in Inputs, ApplyDetection(p), native_format' = native_format,
         input' = p
  PROVE  FreshInv'
<1>1. CASE IsFile(disk, p)
  <2>1. detection' = KindOf(disk[p]) /\ output' = DefaultOutput(p, detection', native_format)
    BY <1>1 DEF ApplyDetection, DetectedOutput
  <2>2. origin' = MadeOutput(p, detection')
    BY <1>1 DEF ApplyDetection
  <2> QED
    BY <2>1, <2>2 DEF FreshInv, MadeOutput
<1>2. CASE ~IsFile(disk, p)
  BY <1>2 DEF ApplyDetection, FreshInv
<1> QED
  BY <1>1, <1>2

\* The fields do not touch the job, nor detection the disk.
LEMMA FieldsOnly ==
  ASSUME IInv, UNCHANGED <<disk, runs, results>>, FieldInv', FreshInv'
  PROVE  IInv'
<1>1. /\ disk' = disk /\ runs' = runs /\ worker' = worker /\ busy' = busy /\ channel' = channel
      /\ preview' = preview /\ shown' = shown
  BY DEF results
<1>2. \A r \in Runs : (Running(r)' <=> Running(r)) /\ (Ended(r)' <=> Ended(r))
  BY <1>1 DEF Running, Ended
<1>3. worker # NoRun => (Ended(worker)' <=> Ended(worker))
  BY <1>1 DEF Ended
<1>4. OneJob'
  BY <1>1, <1>2, <1>3 DEF IInv, OneJob
<1>5. Typed'
  BY <1>1 DEF IInv, Typed
<1>6. OutputsInv' /\ JobInv' /\ ResultInv'
  BY <1>1 DEF IInv, OutputsInv, JobInv, ResultInv, At, ClearOfInputs
<1> QED
  BY <1>4, <1>5, <1>6 DEF IInv

LEMMA FieldEdited ==
  ASSUME IInv, \/ \E p \in Inputs : SetInput(p)
               \/ \E p \in Inputs \cup {NoPath} : TypeInput(p)
               \/ \E p \in ChosenOutputs \cup {NoPath} : ChooseOutput(p)
               \/ ResetOutput
               \/ \E f \in Formats : SelectFormat(f)
               \/ DetectNow
               \/ StartRefused
  PROVE  IInv'
<1>1. CASE \E p \in Inputs : SetInput(p)
  <2>1. PICK p \in Inputs : SetInput(p)
    BY <1>1
  <2>2. /\ ApplyDetection(p) /\ input' = p /\ native_format' = native_format
        /\ UNCHANGED <<disk, runs, results>>
    BY <2>1 DEF SetInput
  <2>3. FreshInv' /\ FieldInv'
    BY <2>2, Detection DEF IInv, FieldInv
  <2> QED
    BY <2>2, <2>3, FieldsOnly
<1>2. CASE \E p \in Inputs \cup {NoPath} : TypeInput(p)
  <2>1. PICK p \in Inputs \cup {NoPath} : TypeInput(p)
    BY <1>2
  <2>2. FreshInv' /\ FieldInv'
    BY <2>1 DEF TypeInput, IInv, FreshInv, FieldInv
  <2> QED
    BY <2>1, <2>2, FieldsOnly DEF TypeInput
<1>3. CASE \E p \in ChosenOutputs \cup {NoPath} : ChooseOutput(p)
  <2>1. PICK p \in ChosenOutputs \cup {NoPath} : ChooseOutput(p)
    BY <1>3
  <2>2. FreshInv' /\ FieldInv'
    BY <2>1 DEF ChooseOutput, ChosenOutput, IInv, FreshInv, FieldInv
  <2> QED
    BY <2>1, <2>2, FieldsOnly DEF ChooseOutput
<1>4. CASE ResetOutput
  <2>1. FreshInv' /\ FieldInv'
    BY <1>4 DEF ResetOutput, MadeOutput, IInv, FreshInv, FieldInv
  <2> QED
    BY <1>4, <2>1, FieldsOnly DEF ResetOutput
<1>5. CASE \E f \in Formats : SelectFormat(f)
  <2>1. PICK f \in Formats : SelectFormat(f)
    BY <1>5
  <2>2. FreshInv' /\ FieldInv'
    BY <2>1 DEF SelectFormat, FormatOutput, MadeOutput, IInv, FreshInv, FieldInv
  <2> QED
    BY <2>1, <2>2, FieldsOnly DEF SelectFormat
<1>6. CASE DetectNow \/ StartRefused
  <2>1. /\ input \in Inputs /\ ApplyDetection(input) /\ input' = input
        /\ native_format' = native_format /\ UNCHANGED <<disk, runs, results>>
    BY <1>6 DEF DetectNow, StartRefused, Ready, IInv, FieldInv
  <2>2. FreshInv' /\ FieldInv'
    BY <2>1, Detection DEF IInv, FieldInv
  <2> QED
    BY <2>1, <2>2, FieldsOnly
<1> QED
  BY <1>1, <1>2, <1>3, <1>4, <1>5, <1>6

\* The automatic output of a name is never the name itself.
LEMMA AnotherName ==
  ASSUME NEW i \in Inputs, NEW k \in FileKinds, NEW f
  PROVE  /\ DefaultOutput(i, k, f) # NoPath
         /\ DefaultOutput(i, k, f) \in Paths => ~Overlap(i, DefaultOutput(i, k, f))
<1> DEFINE name   == Last(i)
           suffix == Suffix(k, f)
           out    == DefaultOutput(i, k, f)
           new    == FileStem(name) \o suffix
<1>1. i \in Paths /\ i # <<>> /\ i \in Seq(Names) /\ Len(i) \in Nat \ {0}
  BY PathAssumption, GuiAssumption, PathsAreSequences, EmptySeq DEF NoPath
<1>2. out = Append(Front(i), new)
  BY <1>1 DEF DefaultOutput
<1>3. Front(i) \in Seq(Names) /\ Len(Front(i)) = Len(i) - 1
  BY <1>1, FrontFacts
<1>4. Len(out) = Len(i) /\ out[Len(i)] = new
  BY <1>1, <1>2, <1>3
<1>5. name \in Seq(ToSet(name))
  <2>1. name \in ToSet(i)
    BY <1>1 DEF Last, ToSet
  <2> QED
    BY <1>1, <2>1, PathAssumption
<1>6. PICK a, b : suffix = <<a, b>> \/ suffix = <<"-decompiled">>
  <2>1. CASE k \in TreeKinds
    BY <2>1 DEF Suffix
  <2>2. CASE k \notin TreeKinds
    <3>1. suffix = << suffix[1], suffix[2] >>
      BY <2>2 DEF Suffix, FileKinds, TotalKinds
    <3> QED
      BY <3>1
  <2> QED
    BY <2>1, <2>2
<1> HIDE DEF suffix
<1> DEFINE S == ToSet(name) \cup {a, b, "-decompiled"}
<1>7. new # name
  <2>1. name \in Seq(S) /\ Len(name) \in Nat
    BY <1>5, SeqMonotonic
  <2>2. /\ suffix \in Seq(S) /\ Len(suffix) \in {1, 2}
        /\ Len(suffix) = 2 \/ suffix = <<"-decompiled">>
    <3>1. CASE suffix = <<a, b>>
      <4>1. a \in S /\ b \in S
        OBVIOUS
      <4> HIDE DEF S
      <4> QED
        BY <3>1, <4>1
    <3>2. CASE suffix = <<"-decompiled">>
      <4>1. "-decompiled" \in S
        OBVIOUS
      <4> HIDE DEF S
      <4> QED
        BY <3>2, <4>1
    <3> QED
      BY <1>6, <3>1, <3>2
  <2> HIDE DEF S
  <2>3. CASE Len(name) > 1 /\ Last(name) # "-decompiled"
    <3>1. FileStem(name) = Front(name) /\ name # <<>>
      BY <2>1, <2>3 DEF FileStem
    <3>2. Front(name) \in Seq(S) /\ Len(Front(name)) = Len(name) - 1
      BY <2>1, <3>1, FrontFacts
    <3>3. Len(Front(name) \o suffix) = Len(Front(name)) + Len(suffix)
      BY <2>2, <3>2, ConcatProperties
    <3>4. CASE Len(suffix) = 2
      BY <2>1, <3>1, <3>2, <3>3, <3>4
    <3>5. CASE suffix = <<"-decompiled">>
      <4>1. Len(suffix) = 1 /\ suffix[1] = "-decompiled"
        BY <3>5
      <4>2. new[Len(name)] = "-decompiled"
        BY <2>1, <2>2, <2>3, <3>1, <3>2, <4>1, ConcatProperties
      <4> QED
        BY <2>3, <4>2 DEF Last
    <3> QED
      BY <2>2, <3>4, <3>5
  <2>4. CASE ~(Len(name) > 1 /\ Last(name) # "-decompiled")
    <3>1. FileStem(name) = name
      BY <2>4 DEF FileStem
    <3>2. Len(new) = Len(name) + Len(suffix)
      BY <2>1, <2>2, <3>1, ConcatProperties
    <3> QED
      BY <2>1, <2>2, <3>2
  <2> QED
    BY <2>3, <2>4
<1>8. out # NoPath
  BY <1>1, <1>4 DEF NoPath
<1>9. ASSUME out \in Paths PROVE ~Overlap(i, out)
  <2>1. out \in Seq(Names)
    BY <1>9, PathsAreSequences
  <2>2. i[Len(i)] # out[Len(i)]
    BY <1>4, <1>7 DEF Last
  <2> QED
    BY <1>1, <1>4, <2>1, <2>2, UnderPointwise DEF Overlap
<1> QED
  BY <1>8, <1>9

\* The output of a run stays as long as the run is not started again.
LEMMA OutputsKept ==
  ASSUME IInv, NEW r \in Runs, ~At(r, "idle"), \A q \in Runs \ {r} : runs'[q] = runs[q],
         runs'[r].output = runs[r].output, runs'[r].input = runs[r].input,
         runs'[r].format = runs[r].format
  PROVE  OutputsInv'
<1>1. ASSUME NEW q \in Runs, ~At(q, "idle")'
      PROVE  /\ ~At(q, "idle")
             /\ runs'[q].output = runs[q].output /\ runs'[q].input = runs[q].input
             /\ runs'[q].format = runs[q].format
  BY <1>1 DEF At
<1> QED
  BY <1>1 DEF IInv, OutputsInv

\* What is shown stays, when the run it is of does.
LEMMA ResultKept ==
  ASSUME IInv, shown' = shown, preview' = preview, shown # NoRun => runs'[shown] = runs[shown]
  PROVE  ResultInv'
BY DEF IInv, ResultInv, At, ClearOfInputs

\* A click begins a job only when there is none, and always on an automatic output.
LEMMA JobStarted ==
  ASSUME IInv, NEW r \in Runs, StartDecompile(r)
  PROVE  IInv'
<1> DEFINE out == IF output' = NoPath
                  THEN DefaultOutput(input, detection', native_format) ELSE output'
<1>1. /\ ~busy /\ input # NoPath /\ ApplyDetection(input) /\ detection' # NoKind
      /\ Start(r, input, out, TRUE, native_format)
      /\ worker' = r /\ busy' = TRUE /\ channel' = "open" /\ shown' = NoRun
      /\ disk' = disk /\ input' = input /\ native_format' = native_format
  BY DEF StartDecompile, Ready
<1>2. input \in Inputs /\ r # NoRun /\ native_format \in Formats /\ Typed
  BY <1>1, GuiAssumption DEF IInv, FieldInv
<1>3. /\ IsFile(disk, input) /\ detection' = KindOf(disk[input])
      /\ output' = DefaultOutput(input, KindOf(disk[input]), native_format)
  BY <1>1 DEF ApplyDetection, DetectedOutput
<1>4. /\ KindOf(disk[input]) \in FileKinds
      /\ DefaultOutput(input, KindOf(disk[input]), native_format) \in AllOutputs
  BY <1>2, <1>3, DefaultIsOutput
<1>5. out = DefaultOutput(input, KindOf(disk[input]), native_format) /\ out \in AllOutputs
  BY <1>3, <1>4
<1> HIDE DEF out
<1>6. /\ Typed' /\ runs'[r] = NewRun(input, out, TRUE, native_format)
      /\ \A q \in Runs \ {r} : runs'[q] = runs[q]
  BY <1>1, <1>2, <1>5, StartTyped
<1>7. worker = NoRun /\ \A q \in Runs : ~Running(q)
  BY <1>1, GuiAssumption DEF IInv, OneJob
<1>8. OneJob'
  <2>1. \A q \in Runs \ {r} : ~Running(q)'
    BY <1>6, <1>7 DEF Running
  <2> QED
    BY <1>1, <1>2, <2>1 DEF OneJob
<1>9. FreshInv' /\ FieldInv'
  BY <1>1, <1>2, Detection DEF IInv, FieldInv
<1>10. OutputsInv'
  <2>1. runs'[r].output = out /\ runs'[r].input = input /\ runs'[r].format = native_format
    BY <1>6 DEF NewRun
  <2>2. \A q \in Runs \ {r} : At(q, "idle")' <=> At(q, "idle")
    BY <1>6 DEF At
  <2> QED
    BY <1>2, <1>4, <1>5, <1>6, <2>1, <2>2 DEF IInv, OutputsInv
<1>11. JobInv'
  <2>1. runs'[r].stage = "detect" /\ runs'[r].error = "none"
    BY <1>6 DEF NewRun
  <2>2. Output(runs'[r], disk')
    BY <2>1 DEF Output
  <2> QED
    BY <1>1, <2>1, <2>2 DEF JobInv, At
<1>12. ResultInv'
  BY <1>1 DEF ResultInv
<1> QED
  BY <1>6, <1>8, <1>9, <1>10, <1>11, <1>12 DEF IInv

\* The window takes the result of a job that has ended.
LEMMA JobPolled == IInv /\ PollWorker => IInv'
<1> SUFFICES ASSUME IInv, PollWorker PROVE IInv'
  OBVIOUS
<1>1. /\ worker # NoRun /\ channel = "sent" /\ worker' = NoRun /\ busy' = FALSE /\ channel' = "open"
      /\ disk' = disk /\ runs' = runs /\ input' = input /\ output' = output /\ origin' = origin
      /\ detection' = detection /\ native_format' = native_format
  BY DEF PollWorker, BusyAfter, fields
<1>2. \A r \in Runs : ~Running(r)
  BY <1>1 DEF IInv, OneJob, Running, Ended
<1>3. OneJob'
  BY <1>1, <1>2 DEF OneJob, Running
<1>4. Typed' /\ OutputsInv' /\ JobInv' /\ FieldInv' /\ FreshInv'
  BY <1>1 DEF IInv, Typed, OutputsInv, JobInv, FieldInv, FreshInv, At
<1>5. CASE At(worker, "ok")
  <2>1. /\ shown' = worker /\ worker \in Runs /\ GoodRun(runs[worker])
        /\ preview' = [q \in FilesUnder(runs[worker].output) |->
                         IF q = runs[worker].output THEN disk[q] ELSE Absent]
    BY <1>1, <1>5, NotIdle DEF PollWorker, Preview, ResultPath, IInv, JobInv, At
  <2>2. ASSUME ClearOfInputs(worker) PROVE TextOf(runs[worker], preview')
    <3>1. Output(runs[worker], disk)
      BY <1>1, <2>2 DEF IInv, JobInv
    <3>2. /\ FilesUnder(runs[worker].output) = WrittenBy(runs[worker])
          /\ \A p \in DOMAIN Produced(worker) : disk[p] = Produced(worker)[p]
      BY <1>5, <2>1, <3>1, ExactOutput, ProducedFiles
    <3>3. ASSUME runs[worker].kind \notin TreeKinds
          PROVE  preview' = [p \in {runs[worker].output} |-> TextAt(runs[worker], 1)]
      <4>1. runs[worker].written = 1
        BY <1>5, <2>1, <3>3 DEF GoodRun, At, Files, EngineFiles
      <4>2. WrittenBy(runs[worker]) = {runs[worker].output}
        BY <3>3, <4>1 DEF WrittenBy, FileAt
      <4>3. disk[runs[worker].output] = TextAt(runs[worker], 1)
        BY <1>5, <2>1, <3>2, <4>1, <4>2, ProducedFiles
      <4> QED
        BY <2>1, <3>2, <4>2, <4>3
    <3> QED
      BY <2>1, <3>2, <3>3 DEF TextOf
  <2> QED
    BY <1>1, <1>3, <1>4, <1>5, <2>1, <2>2 DEF IInv, ResultInv, At, ClearOfInputs
<1>6. CASE ~At(worker, "ok")
  BY <1>1, <1>3, <1>4, <1>6, ResultKept DEF IInv, PollWorker
<1> QED
  BY <1>5, <1>6

LEMMA JobMoved ==
  ASSUME IInv, NEW r \in Runs, WorkerStep(r)
  PROVE  /\ IInv' /\ r = worker /\ GoodRun(runs[r]) /\ StepIsGood(r)
<1>1. GoodRun(runs[r]) /\ StepIsGood(r) /\ Running(r) /\ Typed'
  <2>1. RunStep(r) /\ Typed
    BY DEF WorkerStep, IInv
  <2>2. Running(r)
    BY <2>1 DEF RunStep, Detect, ReadInput, OutputExists, PrepareOutput, PrepareFault, EngineFails,
                RunEngine, WriteFile, WriteFails, WriteFault, RejectName, Finish, At, Running
  <2> QED
    BY <2>1, <2>2, RunSteps, StepTyped
<1>2. /\ input' = input /\ output' = output /\ origin' = origin /\ detection' = detection
      /\ native_format' = native_format /\ worker' = worker /\ busy' = busy /\ channel' = channel
      /\ preview' = preview /\ shown' = shown
  BY DEF WorkerStep, fields, results
<1>3. r = worker /\ channel # "sent"
  BY <1>1 DEF IInv, OneJob, Running, Ended
<1>4. \A q \in Runs \ {r} : Running(q)' <=> Running(q)
  BY <1>1 DEF StepIsGood, Running
<1>5. OneJob'
  BY <1>2, <1>3, <1>4 DEF IInv, OneJob
<1>6. OutputsInv'
  BY <1>1, OutputsKept DEF StepIsGood, Running, At
<1>7. JobInv'
  <2>1. ~At(r, "idle")'
    BY <1>1 DEF StepIsGood, GoodRun, RunRecord, At
  <2>2. ASSUME ClearOfInputs(r)' PROVE Output(runs'[r], disk')
    <3>1. ClearOfInputs(r)
      BY <1>1, <2>2 DEF StepIsGood, ClearOfInputs
    <3>2. Output(runs[r], disk) /\ RunStep(r) /\ Typed
      BY <1>3, <3>1, GuiAssumption DEF IInv, JobInv, WorkerStep
    <3> QED
      BY <3>2, OwnStep
  <2> QED
    BY <1>2, <1>3, <2>1, <2>2 DEF JobInv, ClearOfInputs, At
<1>8. ResultInv'
  <2>1. shown # NoRun => shown \in Runs /\ shown # r
    BY <1>1 DEF IInv, ResultInv, Running, At
  <2> QED
    BY <1>1, <1>2, <2>1, ResultKept DEF StepIsGood
<1> QED
  BY <1>1, <1>2, <1>3, <1>5, <1>6, <1>7, <1>8 DEF IInv, FieldInv, FreshInv

LEMMA JobEnded ==
  ASSUME IInv, NEW r \in Runs, WorkerPanics(r) \/ WorkerSends(r)
  PROVE  IInv'
<1>1. CASE WorkerPanics(r)
  <2>1. /\ Running(r) /\ At(r, "engine") /\ Goto(r, "panic") /\ channel' = "hungup" /\ disk' = disk
        /\ input' = input /\ output' = output /\ origin' = origin /\ detection' = detection
        /\ native_format' = native_format /\ worker' = worker /\ busy' = busy
        /\ preview' = preview /\ shown' = shown
    BY <1>1 DEF WorkerPanics, At, Running, fields
  <2>2. Typed /\ GoodRun(runs[r])
    BY <2>1, NotIdle DEF IInv, Running, At
  <2>3. Becomes(r, "panic", runs[r].error, runs[r].kind, runs[r].data, runs[r].written)
    BY <2>1, <2>2, Moves
  <2>4. Typed'
    <3>1. GoodRun(runs'[r])
      BY <2>1, <2>2, <2>3 DEF At, Becomes, GoodRun, RunRecord, HasRead, Writes
    <3>2. GoodDisk(disk') /\ DOMAIN runs' = Runs
      BY <2>1, <2>2, <2>3 DEF Typed, Becomes
    <3> QED
      BY <2>2, <2>3, <3>1, <3>2 DEF Typed, Becomes
  <2>5. \A q \in Runs \ {r} : Running(q)' <=> Running(q)
    BY <2>3 DEF Becomes, Running
  <2>6. r = worker
    BY <2>1 DEF IInv, OneJob
  <2>7. OneJob'
    BY <2>1, <2>5, <2>6 DEF IInv, OneJob
  <2>8. OutputsInv'
    BY <2>1, <2>3, OutputsKept DEF Becomes, Running, At
  <2>9. JobInv'
    <3>1. runs'[r].stage = "panic" /\ runs'[r].error = "none"
      BY <2>1, <2>2, <2>3 DEF Becomes, At, GoodRun, RunRecord
    <3>2. Output(runs'[r], disk')
      BY <3>1 DEF Output
    <3> QED
      BY <2>1, <2>6, <3>1, <3>2 DEF JobInv, At
  <2>10. ResultInv'
    <3>1. shown # NoRun => shown \in Runs /\ shown # r
      BY <2>1 DEF IInv, ResultInv, Running, At
    <3> QED
      BY <2>1, <2>3, <3>1, ResultKept DEF Becomes
  <2> QED
    BY <2>1, <2>4, <2>7, <2>8, <2>9, <2>10 DEF IInv, FieldInv, FreshInv
<1>2. CASE WorkerSends(r)
  <2>1. /\ worker = r /\ Ended(r) /\ channel' = "sent" /\ disk' = disk /\ runs' = runs
        /\ input' = input /\ output' = output /\ origin' = origin /\ detection' = detection
        /\ native_format' = native_format /\ worker' = worker /\ busy' = busy
        /\ preview' = preview /\ shown' = shown
    BY <1>2 DEF WorkerSends, fields
  <2>2. r # NoRun
    BY GuiAssumption
  <2>3. OneJob'
    BY <2>1, <2>2 DEF IInv, OneJob, Running, Ended
  <2>4. Typed' /\ OutputsInv' /\ JobInv' /\ FieldInv' /\ FreshInv'
    BY <2>1 DEF IInv, Typed, OutputsInv, JobInv, FieldInv, FreshInv, At, ClearOfInputs
  <2>5. ResultInv'
    BY <2>1, ResultKept
  <2> QED
    BY <2>3, <2>4, <2>5 DEF IInv
<1> QED
  BY <1>1, <1>2

LEMMA UserEdited == IInv /\ UserEdits => IInv'
<1> SUFFICES ASSUME IInv, UserEdits PROVE IInv'
  OBVIOUS
<1>1. /\ runs' = runs /\ input' = input /\ output' = output /\ origin' = origin
      /\ detection' = detection /\ native_format' = native_format
      /\ worker' = worker /\ busy' = busy /\ channel' = channel
      /\ preview' = preview /\ shown' = shown
  BY DEF UserEdits, fields, results
<1>2. PICK i \in Inputs : UserDeletes(i) \/ \E x \in Images : UserWrites(i, x)
  BY DEF UserEdits
<1>3. Typed' /\ \A q \in Paths \ {i} : disk'[q] = disk[q]
  BY <1>1, <1>2, EditTyped DEF IInv
<1>4. OneJob'
  BY <1>1 DEF IInv, OneJob, Running, Ended
<1>5. FieldInv' /\ FreshInv' /\ OutputsInv' /\ ResultInv'
  BY <1>1, ResultKept DEF IInv, FieldInv, FreshInv, OutputsInv, At
<1>6. JobInv'
  <2>1. ASSUME worker # NoRun, ClearOfInputs(worker) PROVE Output(runs[worker], disk')
    <3>1. GoodRun(runs[worker]) /\ Output(runs[worker], disk)
      BY <2>1, NotIdle DEF IInv, JobInv
    <3>2. \A p \in Paths : Under(p, runs[worker].output) => disk'[p] = disk[p]
      BY <1>3, <2>1 DEF ClearOfInputs, Overlap
    <3> QED
      BY <3>1, <3>2, OutputLocal
  <2> QED
    BY <1>1, <2>1 DEF IInv, JobInv, At, ClearOfInputs
<1> QED
  BY <1>3, <1>4, <1>5, <1>6 DEF IInv

LEMMA Stuttering == IInv /\ UNCHANGED vars => IInv'
<1> SUFFICES ASSUME IInv, UNCHANGED vars PROVE IInv'
  OBVIOUS
<1>1. UNCHANGED <<disk, runs, results>> /\ UNCHANGED fields
  BY DEF vars
<1>2. FieldInv' /\ FreshInv'
  BY <1>1 DEF fields, IInv, FieldInv, FreshInv
<1> QED
  BY <1>1, <1>2, FieldsOnly

-----------------------------------------------------------------------------
\* The window keeps its invariant, whatever the user, the thread and the disk do.
THEOREM Inductive == Spec => []IInv
<1>1. ASSUME IInv, [Next]_vars PROVE IInv'
  <2>1. CASE Window
    BY <1>1, <2>1, FieldEdited, JobStarted, JobPolled DEF Window
  <2>2. CASE Worker
    BY <1>1, <2>2, JobMoved, JobEnded DEF Worker
  <2>3. CASE UserEdits
    BY <1>1, <2>3, UserEdited
  <2>4. CASE UNCHANGED vars
    BY <1>1, <2>4, Stuttering
  <2> QED
    BY <1>1, <2>1, <2>2, <2>3, <2>4 DEF Next
<1> QED
  BY Initial, <1>1, PTL DEF Spec

\* However many clicks and edits, at most one thread decompiles, and the window
\* waits for it and for no other (start_decompile, poll_worker).
THEOREM OneJobAtATime == Spec => []OneJob
<1>1. IInv => OneJob
  BY DEF IInv
<1> QED
  BY Inductive, <1>1, PTL

\* In whatever order input, output, kind and format change, an output that the window
\* made is the automatic one, in the format on the screen, of the file and the kind it
\* was made for, and no job is given another than that of its own input and format
\* (apply_detection, reset_output, start_decompile and the format box).
THEOREM OutputIsFresh == Spec => []AutoOutputFresh
<1>1. IInv => AutoOutputFresh
  BY DEF IInv, OutputsInv, FreshInv, AutoOutputFresh, Running, At
<1> QED
  BY Inductive, <1>1, PTL

\* The window shows what the job it names has written, whatever its user does to the
\* fields, to the input or with other clicks meanwhile (poll_worker, preview_output).
THEOREM PreviewIsTrue == Spec => []PreviewIsOfResult
<1>1. ASSUME IInv, shown # NoRun, ClearOfInputs(shown)
      PROVE  /\ DOMAIN preview = DOMAIN Produced(shown)
             /\ ~InTree(shown) => preview = Produced(shown)
  <2>1. /\ shown \in Runs /\ At(shown, "ok") /\ GoodRun(runs[shown])
        /\ TextOf(runs[shown], preview)
    BY <1>1, NotIdle DEF IInv, ResultInv, At
  <2>2. DOMAIN Produced(shown) = WrittenBy(runs[shown])
    BY <2>1, ProducedFiles
  <2>3. ASSUME ~InTree(shown) PROVE preview = Produced(shown)
    <3>1. runs[shown].kind \notin TreeKinds /\ runs[shown].written = 1
      BY <2>1, <2>3 DEF InTree, GoodRun, At, Files, EngineFiles
    <3>2. WrittenBy(runs[shown]) = {runs[shown].output}
      BY <3>1 DEF WrittenBy, FileAt
    <3>3. Produced(shown)[runs[shown].output] = TextAt(runs[shown], 1)
      BY <2>1, <2>2, <3>1, <3>2, ProducedFiles
    <3>4. Produced(shown) = [p \in DOMAIN Produced(shown) |-> Produced(shown)[p]]
      BY DEF Produced
    <3>5. Produced(shown) = [p \in {runs[shown].output} |-> TextAt(runs[shown], 1)]
      BY <2>2, <3>2, <3>3, <3>4
    <3> QED
      BY <2>1, <3>1, <3>5 DEF TextOf
  <2> QED
    BY <2>1, <2>2, <2>3 DEF TextOf
<1>2. IInv => PreviewIsOfResult
  BY <1>1 DEF PreviewIsOfResult
<1> QED
  BY Inductive, <1>2, PTL

\* Every job runs with force and removes its output before the engine has read the
\* data, and yet none touches its input: for no name is the automatic output the name
\* itself, above it or below it.
THEOREM InputIsKept == Spec => OwnInputSafe
<1> DEFINE Kept == \A r \in Runs : Running(r) /\ runs'[r] # runs[r] =>
                     disk'[runs[r].input] = disk[runs[r].input]
<1>1. ASSUME IInv, NEW r \in Runs, WorkerStep(r)
      PROVE  disk'[runs[r].input] = disk[runs[r].input]
  <2>1. GoodRun(runs[r]) /\ Footprint(r) /\ ~At(r, "idle")
    BY <1>1, JobMoved DEF StepIsGood, At, GoodRun, RunRecord
  <2>2. runs[r].input \in Inputs /\ runs[r].output \in Paths
    BY <2>1 DEF GoodRun, RunRecord
  <2>3. PICK k \in FileKinds : runs[r].output = DefaultOutput(runs[r].input, k, runs[r].format)
    BY <1>1, <2>1 DEF IInv, OutputsInv
  <2>4. ~Overlap(runs[r].input, runs[r].output)
    BY <2>2, <2>3, AnotherName
  <2> QED
    BY <2>1, <2>2, <2>4, PathAssumption DEF Footprint, Overlap
<1>2. ASSUME IInv, [Next]_vars PROVE [Kept]_vars
  <2>1. ASSUME NEW q \in Runs, WorkerStep(q) PROVE Kept
    <3>1. \A r \in Runs : runs'[r] # runs[r] => r = q
      BY <1>2, <2>1, JobMoved DEF StepIsGood
    <3> QED
      BY <1>1, <1>2, <2>1, <3>1
  <2>2. CASE UNCHANGED disk
    BY <2>2
  <2>3. CASE UNCHANGED runs
    BY <2>3
  <2>4. CASE UNCHANGED vars
    BY <2>4
  <2> QED
    BY <1>2, <2>1, <2>2, <2>3, <2>4
    DEF Next, Window, Worker, UserEdits, SetInput, TypeInput, ChooseOutput, ResetOutput,
        SelectFormat, DetectNow, StartDecompile, StartRefused, PollWorker, WorkerPanics, WorkerSends
<1>3. Spec => [][Kept]_vars
  BY <1>2, Inductive, PTL DEF Spec
<1> QED
  BY <1>3 DEF OwnInputSafe
=============================================================================
