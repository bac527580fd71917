-------------------------------- MODULE Gui --------------------------------
(***************************************************************************)
(* The window: PolyDecompApp of src/src/gui.rs.                            *)
(*                                                                         *)
(* The user edits the fields at any time, also while the worker thread of  *)
(* an earlier click runs decompile() (the runs of module Decompile).  The  *)
(* thread hands its result over a channel that the window polls once per   *)
(* frame.                                                                  *)
(***************************************************************************)
EXTENDS Decompile

CONSTANTS
  ChosenOutputs,  \* the paths a user may pick or type as an output
  PanicStrategy   \* "abort" in the release profile, "unwind" elsewhere

NoPath == <<>>           \* an empty text field
NoKind == "none"         \* detection is None
NoRun  == 0              \* worker is None; no result is shown

ASSUME GuiAssumption ==
  /\ Runs \subseteq Nat \ {NoRun}
  /\ NoPath \notin Inputs /\ "c" \in Formats
  /\ PanicStrategy \in {"abort", "unwind"}

VARIABLES
  input, output,    \* the text fields
  detection,        \* the kind detected last, or NoKind
  native_format,
  worker,           \* the run whose receiver the window holds
  busy,
  channel,          \* "open", "sent" or "hungup": what the thread did to it
  preview,          \* what preview_output returned
  shown,            \* history: the run whose result the log names
  origin            \* history: whose the text in `output' is, and what it was made from

fields  == <<input, output, detection, native_format, origin>>
results == <<worker, busy, channel, preview, shown>>
vars    == <<disk, runs, fields, results>>

\* preview_output: the text of a file, the names in a directory.
Preview(p) == [q \in FilesUnder(p) |-> IF q = p THEN disk[q] ELSE Absent]
Empty      == <<>>

\* An output the user chose (or nobody: an empty field), and one the window made;
\* `typed': the user has typed another input over its own.
ChosenOutput           == [by |-> "user", path |-> NoPath, kind |-> NoKind, typed |-> FALSE]
MadeOutput(path, kind) == [by |-> "window", path |-> path, kind |-> kind, typed |-> FALSE]

Alive == ~(PanicStrategy = "abort" /\ \E r \in Runs : At(r, "panic"))

Init ==
  /\ disk \in Disks
  /\ RunInit
  /\ input = NoPath /\ output = NoPath
  /\ detection = NoKind
  /\ native_format = "c"
  /\ worker = NoRun /\ busy = FALSE /\ channel = "open"
  /\ preview = Empty
  /\ shown = NoRun
  /\ origin = ChosenOutput

-----------------------------------------------------------------------------
(***************************************************************************)
(* The fields.                                                             *)
(***************************************************************************)

\* Mutant: the output the user chose is kept.
KeptOutput(path, kind) ==
  IF origin.by = "user" /\ output # NoPath THEN output
  ELSE DefaultOutput(path, kind, native_format)

\* The output that a detection puts in the field.
DetectedOutput(path, kind) == DefaultOutput(path, kind, native_format)

\* apply_detection: success replaces the output, failure keeps it.
ApplyDetection(path) ==
  IF IsFile(disk, path)
  THEN /\ detection' = KindOf(disk[path])
       /\ output' = DetectedOutput(path, detection')
       /\ origin' = MadeOutput(path, detection')
  ELSE /\ detection' = NoKind
       /\ UNCHANGED <<output, origin>>

\* A file is dropped on the window or picked in the dialog (set_input).
SetInput(path) ==
  /\ input' = path
  /\ ApplyDetection(path)
  /\ UNCHANGED <<disk, runs, results, native_format>>

\* The user types over the input: nothing is detected, and the output stays.
TypeInput(path) ==
  /\ input' = path
  /\ origin' = [origin EXCEPT !.typed = origin.by = "window" /\ path # origin.path]
  /\ UNCHANGED <<disk, runs, results, output, detection, native_format>>

\* The user types over the output or picks one (choose_output).
ChooseOutput(path) ==
  /\ output' = path
  /\ origin' = ChosenOutput
  /\ UNCHANGED <<disk, runs, results, input, detection, native_format>>

\* The "Auto output" button (reset_output).
ResetOutput ==
  /\ detection # NoKind
  /\ output' = DefaultOutput(input, detection, native_format)
  /\ origin' = MadeOutput(input, detection)
  /\ UNCHANGED <<disk, runs, results, input, detection, native_format>>

\* Mutant: the output of the format that is being left.
OldFormatOutput(format) == DefaultOutput(input, detection, native_format)

FormatOutput(format) == DefaultOutput(input, detection, format)

\* The format box is shown for native binaries only, and resets the output.
SelectFormat(format) ==
  /\ detection = "native"
  /\ format # native_format
  /\ native_format' = format
  /\ output' = FormatOutput(format)
  /\ origin' = MadeOutput(input, detection)
  /\ UNCHANGED <<disk, runs, results, input, detection>>

\* The "Detect" button; an empty input is only logged.
DetectNow ==
  /\ ~busy
  /\ input # NoPath
  /\ ApplyDetection(input)
  /\ UNCHANGED <<disk, runs, results, input, native_format>>

-----------------------------------------------------------------------------
(***************************************************************************)
(* The job.                                                                *)
(***************************************************************************)

\* Mutant: a second click is not refused.
ReadyWhileBusy == input # NoPath

\* `if self.busy || self.input.trim().is_empty() { return; }'
Ready == ~busy /\ input # NoPath

\* start_decompile detects again, which sets the output again; the thread
\* takes copies of the fields and always runs with force.  (The runs are taken
\* in order; |Runs| bounds the clicks.)
StartDecompile(r) ==
  /\ Ready
  /\ \A q \in Runs : q < r => ~At(q, "idle")
  /\ ApplyDetection(input)
  /\ detection' # NoKind
  /\ LET out == IF output' = NoPath
                THEN DefaultOutput(input, detection', native_format) ELSE output'
     IN  Start(r, input, out, TRUE, native_format)
  /\ worker' = r /\ busy' = TRUE /\ channel' = "open"
  /\ preview' = Empty /\ shown' = NoRun
  /\ UNCHANGED <<disk, input, native_format>>

\* The input is no file any more: the click only clears the detection.
StartRefused ==
  /\ Ready
  /\ ~IsFile(disk, input)
  /\ ApplyDetection(input)
  /\ UNCHANGED <<disk, runs, results, input, native_format>>

WorkerStep(r) == RunStep(r) /\ UNCHANGED <<fields, results>>

\* An engine panics: the process aborts, or the thread unwinds and its sender
\* is dropped.
WorkerPanics(r) ==
  /\ At(r, "engine")
  /\ Goto(r, "panic")
  /\ channel' = "hungup"
  /\ UNCHANGED <<disk, fields, worker, busy, preview, shown>>

\* `sender.send(WorkerResult(result))', the last act of the thread.
WorkerSends(r) ==
  /\ worker = r
  /\ Ended(r)
  /\ channel = "open"
  /\ channel' = "sent"
  /\ UNCHANGED <<disk, runs, fields, worker, busy, preview, shown>>

\* Mutant: the error branch forgets to clear the flag.
BusyAfterError(r) == At(r, "err")

\* `self.busy' once the result of r is here.
BusyAfter(r) == FALSE

\* Mutant: the preview follows the field.
FieldPath(r) == output

\* The path the log names and the preview opens.
ResultPath(r) == runs[r].output

\* poll_worker, when try_recv has a message; a receiver whose sender hung up
\* reads like one whose message is still to come.
PollWorker ==
  /\ worker # NoRun
  /\ channel = "sent"
  /\ busy' = BusyAfter(worker) /\ worker' = NoRun /\ channel' = "open"
  /\ IF At(worker, "ok")
     THEN preview' = Preview(ResultPath(worker)) /\ shown' = worker
     ELSE UNCHANGED <<preview, shown>>
  /\ UNCHANGED <<disk, runs, fields>>

\* The user edits the input files behind the window.
UserEdits ==
  /\ \E p \in Inputs : UserDeletes(p) \/ \E i \in Images : UserWrites(p, i)
  /\ UNCHANGED <<runs, fields, results>>

-----------------------------------------------------------------------------
Window ==
  \/ \E p \in Inputs : SetInput(p)
  \/ \E p \in Inputs \cup {NoPath} : TypeInput(p)
  \/ \E p \in ChosenOutputs \cup {NoPath} : ChooseOutput(p)
  \/ ResetOutput
  \/ \E f \in Formats : SelectFormat(f)
  \/ DetectNow
  \/ \E r \in Runs : StartDecompile(r)
  \/ StartRefused
  \/ PollWorker

Worker == \E r \in Runs : WorkerStep(r) \/ WorkerPanics(r) \/ WorkerSends(r)

Next == (Alive /\ (Window \/ Worker)) \/ UserEdits

\* The thread runs on its own and does not wait for the window; the window
\* polls in every frame and asks for another frame while it is busy.
Fairness == /\ WF_vars(Alive /\ \E r \in Runs : WorkerStep(r) \/ WorkerSends(r))
            /\ WF_vars(Alive /\ PollWorker)

Spec     == Init /\ [][Next]_vars
FairSpec == Spec /\ Fairness

-----------------------------------------------------------------------------
\* Whatever the user clicks, at most one thread decompiles, and it is the one
\* whose result the window waits for: no result is lost or taken for another's, and
\* the Decompile button is off exactly as long as there is one.
OneJob ==
  /\ busy <=> worker # NoRun
  /\ \A r \in Runs : Running(r) => r = worker
  /\ channel = "sent" => worker # NoRun /\ Ended(worker)

\* "The native format also determines the automatic output extension": whatever was
\* typed, dropped, chosen, detected or failed to be detected before, an output that the
\* window made is the automatic one of the file it was made for in the format on the
\* screen; the kind on the screen is the one it was made with; and the file is the input
\* on the screen unless the user typed over that or nothing was detected since.  And no
\* job is given an output of another file or format than its own.
AutoOutputFresh ==
  /\ origin.by = "window" =>
       /\ output = DefaultOutput(origin.path, origin.kind, native_format)
       /\ detection \in {NoKind, origin.kind}
       /\ origin.path = input \/ origin.typed \/ detection = NoKind
  /\ \A r \in Runs : Running(r) =>
       \E k \in FileKinds :
         runs[r].output = DefaultOutput(runs[r].input, k, runs[r].format)

\* The preview is of the file or tree the finished job wrote, even when the
\* fields were edited, or the input replaced, while the job ran.
PreviewIsOfResult ==
  shown # NoRun /\ ClearOfInputs(shown) =>
    /\ DOMAIN preview = DOMAIN Produced(shown)
    /\ ~InTree(shown) => preview = Produced(shown)

\* The window runs every job with force, and yet no job removes or overwrites
\* the file it reads: the automatic output is never the input itself.
OwnInputSafe ==
  [][\A r \in Runs : Running(r) /\ runs'[r] # runs[r] =>
       disk'[runs[r].input] = disk[runs[r].input]]_vars

\* The window leaves the busy state again, unless the thread panicked: only
\* then is there no result, and the Decompile button stays off for good.
BusyEnds == busy ~> (~busy \/ \E r \in Runs : At(r, "panic"))
=============================================================================
