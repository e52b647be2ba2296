-------------------------- MODULE PreprocessPipeline --------------------------
(***************************************************************************)
(* The preprocessing pipeline of a vehicle watcher (PipelineBuilder), the  *)
(* file it is loaded from and saved to (PipelineDirector) and the steps    *)
(* themselves: what a step reports as its parameters, which is what is     *)
(* saved, and what it applies to a frame are kept in different places.     *)
(*                                                                         *)
(* A parameter named here stands for all of its step that are treated      *)
(* alike. A parameter is a number; kernelSize is one side of the square.   *)
(***************************************************************************)
EXTENDS Integers, Sequences, FiniteSets

CONSTANTS
  StepType,                (* the types in use                             *)
  KernelSize, Level,       (* the values a kernel size, another parameter, *)
                           (* is given by a caller                         *)
  DefaultKernelSize, DefaultLevel,
  HandWritten,             (* contents of the file someone may write       *)
  Malformed,               (* a parameter that cannot be read as a number  *)
  MaxSteps                 (* bound: steps of a pipeline                   *)

KnownStepType == {"Grayscale", "GaussianBlur", "MOG2BackgroundSubtraction",
                  "Threshold", "Dilation", "Erosion"}
Morphology == {"Dilation", "Erosion"}

VARIABLES
  state,    (* "unborn", "idle", "loading" or "dead", of the process       *)
  steps,    (* the pipeline: what each step reports and what it applies    *)
  file,     (* whether it has a pipeline_config section, and its entries   *)
  saved,    (* whether savePipelineConfig has written it (history)         *)
  entry     (* where the loop of loadPipelineConfig is, 0 outside of it    *)

vars == <<state, steps, file, saved, entry>>

ParameterOf(type) ==
  CASE type = "Grayscale"                 -> {}
    [] type = "GaussianBlur"              -> {"kernelSize", "sigma"}
    [] type = "MOG2BackgroundSubtraction" -> {"history", "varThreshold"}
    [] type = "Threshold"                 -> {"thresholdValue"}
    [] type \in Morphology                -> {"kernelSize", "iterations"}

Default(id) == IF id = "kernelSize" THEN DefaultKernelSize ELSE DefaultLevel
ValueOf(id) == IF id = "kernelSize" THEN KernelSize ELSE Level

(* Every setting of the parameters of a type a caller may ask for.         *)
ParamsOf(type) ==
  {values \in [ParameterOf(type) -> KernelSize \cup Level] :
     \A id \in DOMAIN values : values[id] \in ValueOf(id)}

(* checkGaussianKernelValidity and its two siblings for morphology.        *)
CheckParityOnly(type, size) ==
  IF type = "GaussianBlur" /\ size % 2 = 0 THEN size + 1 ELSE size
CheckKernel(type, size) ==
  CASE type = "GaussianBlur" /\ size < 0                   -> 1
    [] type = "GaussianBlur" /\ size >= 0 /\ size % 2 = 0  -> size + 1
    [] type \in Morphology /\ size < 1                     -> 1
    [] OTHER                                               -> size

Checked(type, values) ==
  [id \in DOMAIN values |->
     IF id = "kernelSize" THEN CheckKernel(type, values[id]) ELSE values[id]]

(* The constructors. A morphology step corrects its member and builds its  *)
(* kernel from the argument that hides it: OpenCV throws on a size below 1.*)
Throws(type, values) == type \in Morphology /\ values["kernelSize"] < 1

CreateStep(type, values) ==
  [type    |-> type,
   params  |-> Checked(type, values),
   applied |-> IF type \in Morphology THEN values ELSE Checked(type, values)]

(* What a file says of the parameters, defaults for what it leaves out.    *)
Deserialize(type, written) ==
  [id \in ParameterOf(type) |-> IF id \in DOMAIN written THEN written[id] ELSE Default(id)]

ParametersParse(written) ==
  \A id \in ParameterOf(written.type) \cap DOMAIN written.params : written.params[id] # Malformed

NoSection == [section |-> FALSE, entries |-> <<>>]
Section(entries) == [section |-> TRUE, entries |-> entries]

(* getCurrentParameters, which is also what is written to a file.          *)
Serialize(step) == [type |-> step.type, params |-> step.params]
Reported == [i \in DOMAIN steps |-> Serialize(steps[i])]

Init ==
  /\ state = "unborn"
  /\ steps = <<>>
  /\ file = NoSection
  /\ saved = FALSE
  /\ entry = 0

-----------------------------------------------------------------------------
(* A step is created and appended, or its constructor's exception ends the *)
(* process: nothing catches it.                                            *)
AppendStep(type, values) ==
  IF Throws(type, values)
  THEN state' = "dead" /\ UNCHANGED steps
  ELSE steps' = Append(steps, CreateStep(type, values)) /\ UNCHANGED state

AddStep(type, values) ==
  /\ state = "idle"
  /\ Len(steps) < MaxSteps
  /\ AppendStep(type, values)
  /\ UNCHANGED <<file, saved, entry>>

(* The background subtractor is handed the new parameters, but the members *)
(* that are reported keep the old ones. A Grayscale step has none.         *)
SetStepParameters(i, values) ==
  /\ state = "idle"
  /\ DOMAIN values = ParameterOf(steps[i].type)
  /\ LET checked == Checked(steps[i].type, values) IN
     steps' = IF steps[i].type = "MOG2BackgroundSubtraction"
              THEN [steps EXCEPT ![i].applied = values]
              ELSE [steps EXCEPT ![i].params = checked, ![i].applied = checked]
  /\ UNCHANGED <<state, file, saved, entry>>

(* One parameter of one step, as a trackbar does it.                       *)
Changed(i, values, id, value) == Checked(steps[i].type, [values EXCEPT ![id] = value])

UpdateReportedOnly(i, id, value) ==
  /\ state = "idle"
  /\ id \in ParameterOf(steps[i].type)
  /\ steps' = [steps EXCEPT ![i].params = Changed(i, steps[i].params, id, value)]
  /\ UNCHANGED <<state, file, saved, entry>>

UpdateStepParameterById(i, id, value) ==
  /\ state = "idle"
  /\ id \in ParameterOf(steps[i].type)
  /\ steps' = [steps EXCEPT
       ![i].params = Changed(i, steps[i].params, id, value),
       ![i].applied = Changed(i, steps[i].applied, id, value)]
  /\ UNCHANGED <<state, file, saved, entry>>

ClearAllSteps ==
  /\ state = "idle"
  /\ steps' = <<>>
  /\ UNCHANGED <<state, file, saved, entry>>

(* The keys of the file beside the section are read and written back. If   *)
(* the file cannot be read the section is all there is afterwards (nor     *)
(* could a watcher read its calibration); if it cannot be opened for       *)
(* writing, nothing changes.                                               *)
SavePipelineConfig ==
  /\ state = "idle"
  /\ file' = Section(Reported)
  /\ saved' = TRUE
  /\ UNCHANGED <<state, steps, entry>>

(* loadPipelineConfig up to its loop: without a readable section the       *)
(* pipeline stays what it was.                                             *)
BeginLoad(content, before) ==
  IF content.section
  THEN state' = "loading" /\ steps' = before /\ entry' = 1
  ELSE state' = "idle" /\ UNCHANGED <<steps, entry>>

Initialize(content) ==
  /\ state = "unborn"
  /\ file' = content
  /\ BeginLoad(content, <<>>)
  /\ saved' = (saved /\ content = file)

LoadWithoutClearing ==
  /\ state = "idle"
  /\ BeginLoad(file, steps)
  /\ UNCHANGED <<file, saved>>

LoadPipelineConfig ==
  /\ state = "idle"
  /\ BeginLoad(file, <<>>)
  /\ UNCHANGED <<file, saved>>

(* One round of the loop: an entry without a type is skipped, an unknown   *)
(* type throws, as does a parameter of its type that is not a number.      *)
LoadEntry ==
  /\ state = "loading"
  /\ entry <= Len(file.entries)
  /\ file.entries[entry].type \in StepType
  /\ ParametersParse(file.entries[entry])
  /\ AppendStep(file.entries[entry].type, Deserialize(file.entries[entry].type, file.entries[entry].params))
  /\ entry' = IF state' = "dead" THEN entry ELSE entry + 1
  /\ UNCHANGED <<file, saved>>

SkipEntry ==
  /\ state = "loading"
  /\ entry <= Len(file.entries)
  /\ file.entries[entry].type = "missing"
  /\ entry' = entry + 1
  /\ UNCHANGED <<state, steps, file, saved>>

UnknownTypeSkipped ==
  /\ state = "loading"
  /\ entry <= Len(file.entries)
  /\ file.entries[entry].type \notin StepType \cup {"missing"}
  /\ entry' = entry + 1
  /\ UNCHANGED <<state, steps, file, saved>>
UnknownType ==
  /\ state = "loading"
  /\ entry <= Len(file.entries)
  /\ file.entries[entry].type \notin StepType \cup {"missing"}
  /\ state' = "dead"
  /\ UNCHANGED <<steps, file, saved, entry>>

MalformedParameter ==
  /\ state = "loading"
  /\ entry <= Len(file.entries)
  /\ file.entries[entry].type \in StepType
  /\ ~ ParametersParse(file.entries[entry])
  /\ state' = "dead"
  /\ UNCHANGED <<steps, file, saved, entry>>

(* The loop has visited every entry, and is left.                          *)
EndLoad ==
  /\ state = "loading"
  /\ entry > Len(file.entries)
  /\ state' = "idle"
  /\ entry' = 0
  /\ UNCHANGED <<steps, file, saved>>

Next ==
  \/ \E content \in HandWritten : Initialize(content)
  \/ \E type \in StepType : \E values \in ParamsOf(type) : AddStep(type, values)
  \/ \E i \in DOMAIN steps : \E values \in ParamsOf(steps[i].type) :
       SetStepParameters(i, values)
  \/ \E i \in DOMAIN steps : \E id \in ParameterOf(steps[i].type) : \E value \in ValueOf(id) :
       UpdateStepParameterById(i, id, value)
  \/ ClearAllSteps
  \/ SavePipelineConfig
  \/ LoadPipelineConfig
  \/ LoadEntry
  \/ SkipEntry
  \/ UnknownType
  \/ MalformedParameter
  \/ EndLoad

Spec == Init /\ [][Next]_vars

-----------------------------------------------------------------------------
(* The type of every variable. However often a file is loaded, a pipeline  *)
(* does not outgrow what a caller or a file may make it.                   *)
TypeOK ==
  /\ state \in {"unborn", "idle", "loading", "dead"}
  /\ Len(steps) <= MaxSteps
  /\ \A i \in DOMAIN steps :
       /\ steps[i].type \in StepType
       /\ steps[i].params \in [ParameterOf(steps[i].type) -> Int]
       /\ steps[i].applied \in [ParameterOf(steps[i].type) -> Int]
  /\ saved \in BOOLEAN
  /\ entry \in 0 .. Len(file.entries) + 1

(* However a kernel size came into the pipeline, by a constructor, a file, *)
(* a trackbar or setStepParameters, the kernel a step applies is one       *)
(* OpenCV accepts: positive, and odd for the blur.                         *)
KernelsUsable ==
  \A i \in DOMAIN steps :
    "kernelSize" \in DOMAIN steps[i].applied =>
      /\ steps[i].applied["kernelSize"] >= 1
      /\ steps[i].type = "GaussianBlur" => steps[i].applied["kernelSize"] % 2 = 1

(* What a step reports, and what is saved of it, is what it does to a      *)
(* frame, except for background subtraction (setStepParameters).           *)
ReportsWhatIsApplied ==
  \A i \in DOMAIN steps :
    steps[i].type # "MOG2BackgroundSubtraction" => steps[i].params = steps[i].applied

(* Loading a file that was saved gives back, entry by entry, the pipeline  *)
(* that was reported when it was saved, and never ends the process: no     *)
(* step reports parameters its own constructor changes or rejects.         *)
SavedFileReloads ==
  saved /\ entry > 0 => state = "loading" /\ Reported = SubSeq(file.entries, 1, entry - 1)

(* What the first n entries of the file ask for: one step for each entry   *)
(* with a type, in their order, with the parameters written and defaults.  *)
Typed(n) == {i \in 1 .. n : file.entries[i].type # "missing"}
StepOf(written) == CreateStep(written.type, Deserialize(written.type, written.params))

LoadedUpTo(n) ==
  /\ Len(steps) = Cardinality(Typed(n))
  /\ \A i \in Typed(n) : steps[Cardinality(Typed(i))] = StepOf(file.entries[i])
=============================================================================
