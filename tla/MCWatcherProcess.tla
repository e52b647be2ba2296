--------------------------- MODULE MCWatcherProcess ---------------------------
(* One lane that keeps its green for two phases and its red for three.     *)
EXTENDS WatcherProcess, TLC

MCColumn == 0 :> "RED_PHASE" @@ 1 :> "GREEN_PHASE" @@ 2 :> "GREEN_PHASE" @@ 3 :> "RED_PHASE" @@
            4 :> "RED_PHASE"
MCPhases == [p \in 0 .. 4 |-> 0 :> MCColumn[p]]

(* A square, and a point to the right of it.                               *)
MCPoint == [x : {0, 1}, y : {0, 1}] \cup [x : {2}, y : {1}]

(* Three, four and five points; two dimensions; and no model.              *)
ByHand(points, dimensions, model) ==
  [by |-> "hand", points |-> points, dimensions |-> dimensions, model |-> model]
MCHandWrittenCalibration ==
  {ByHand(3, 1, TRUE), ByHand(4, 1, TRUE), ByHand(5, 1, TRUE), ByHand(4, 2, TRUE), ByHand(4, 1, FALSE)}

Written(type, params) == [type |-> type, params |-> params]
Nothing == [id \in {} |-> 0]

(* An entry without a type, a misspelled one, an even and a negative       *)
(* kernel with the other parameter left out, no parameters at all, and one *)
(* that is not a number.                                                   *)
MCEntry ==
  {Written("missing", Nothing),
   Written("Grayscal", Nothing),
   Written("GaussianBlur", [id \in {"kernelSize"} |-> 2]),
   Written("Dilation", [id \in {"kernelSize"} |-> -1]),
   Written("MOG2BackgroundSubtraction", Nothing),
   Written("MOG2BackgroundSubtraction", [id \in {"history"} |-> Malformed])}

MCHandWritten ==
  [section : {FALSE}, entries : {<<>>}] \cup
  [section : {TRUE}, entries : UNION {[1 .. n -> MCEntry] : n \in 0 .. 2}]

MCKernelSize == {-1, 2}
=============================================================================
