----------------------------- MODULE RawTensors -----------------------------
(***************************************************************************)
(* The raw tensor task of the local ONNX provider: which file it loads,    *)
(* whether its graph takes batches, the checks of the inputs, and the way  *)
(* of a batch into one stacked tensor per input and out again.             *)
(*                                                                         *)
(* A tensor is [dtype, shape, rows]: rows are its slices along the leading *)
(* dimension; of what lies below only a label is kept.  A batch item maps  *)
(* input names to tensors.  A spec is [name, dtype, shape]; Dynamic in the  *)
(* shape is a dimension without a size.  The graph is external.            *)
(***************************************************************************)
EXTENDS Integers, Sequences, SequencesExt, FiniteSets

Dynamic == -1

Ok(value) == [error |-> "none", value |-> value]
Error(why) == [error |-> why, value |-> <<>>]

(***************************************************************************)
(* Loading.  A name is [form, exists]: form "absolute", "dotted" or        *)
(* "plain", exists: whether the path it resolves to is there.              *)
(***************************************************************************)
LocalSource(name) == name.form \in {"absolute", "dotted"} \/ name.exists

SelectArtifact(files, onnx, explicit) ==
  LET candidates == ToSet(files) \cap onnx
  IN  CASE explicit # "" /\ explicit \in ToSet(files) -> Ok(explicit)
        [] explicit # "" /\ explicit \notin ToSet(files) -> Error("artifact")
        [] explicit = "" /\ Cardinality(candidates) = 1 -> Ok(CHOOSE f \in candidates : TRUE)
        [] OTHER -> Error("artifact")

\* The repository is reached, it lists its files, the whole snapshot is
\* fetched, then the chosen file must be in it.
ResolveHf(repo, onnx, explicit) ==
  IF ~repo.reached THEN Error("download")
  ELSE IF ~repo.listed THEN Error("artifact")
  ELSE LET chosen == SelectArtifact(repo.files, onnx, explicit) IN
       IF chosen.error # "none" THEN chosen
       ELSE IF ~repo.fetched THEN Error("download")
       ELSE IF chosen.value \in repo.snapshot THEN chosen ELSE Error("artifact")

ResolveModelPath(name, repo, onnx, explicit) ==
  IF ~LocalSource(name) THEN ResolveHf(repo, onnx, explicit)
  ELSE IF name.exists THEN Ok("local") ELSE Error("not found")

\* Only the first input says whether the graph takes batches.
BatchSupport(inputs, ceiling) ==
  IF inputs = <<>> \/ Len(inputs[1].shape) <= 1 THEN [kind |-> "none", size |-> 1]
  ELSE IF inputs[1].shape[1] # Dynamic THEN [kind |-> "static", size |-> inputs[1].shape[1]]
  ELSE [kind |-> "dynamic", size |-> ceiling]

\* A dtype that the crate has no tensor for refuses the graph.
Signatures(inputs, outputs, dtypes) ==
  IF \E spec \in ToSet(inputs \o outputs) : spec.dtype \notin dtypes THEN Error("signature")
  ELSE Ok([inputs |-> inputs, outputs |-> outputs])

\* load_raw: an alias that was loaded keeps its session.
LoadRaw(sessions, alias, path, signatures, ceiling) ==
  IF alias \in DOMAIN sessions THEN Ok(sessions[alias])
  ELSE IF path.error # "none" THEN path
  ELSE IF signatures.error # "none" THEN signatures
  ELSE Ok([inputs |-> signatures.value.inputs, outputs |-> signatures.value.outputs,
           support |-> BatchSupport(signatures.value.inputs, ceiling)])

(***************************************************************************)
(* One item.                                                               *)
(***************************************************************************)
Fits(shape, expected) ==
  /\ Len(shape) = Len(expected)
  /\ \A d \in DOMAIN shape : expected[d] \in {Dynamic, shape[d]}

\* What is wrong with an input of a spec, against the shape expected of it.
InputError(item, spec, expected) ==
  CASE spec.name \notin DOMAIN item -> "missing"
    [] spec.name \in DOMAIN item /\ item[spec.name].dtype # spec.dtype -> "type"
    [] spec.name \in DOMAIN item /\ item[spec.name].dtype = spec.dtype
         /\ ~Fits(item[spec.name].shape, expected) -> "shape"
    [] OTHER -> "none"

Unexpected(item, signature) == DOMAIN item \ {signature[i].name : i \in DOMAIN signature}

FirstError(errors) ==
  LET bad == {i \in DOMAIN errors : errors[i] # "none"}
  IN  IF bad = {} THEN "none" ELSE errors[CHOOSE i \in bad : \A j \in bad : i <= j]

ValidateSingle(item, signature) ==
  FirstError([i \in DOMAIN signature |-> InputError(item, signature[i], signature[i].shape)]
             \o <<IF Unexpected(item, signature) # {} THEN "unexpected" ELSE "none">>)

PackOutputs(outputs, signature) ==
  IF \E i \in DOMAIN signature : signature[i].name \notin DOMAIN outputs THEN Error("invocation")
  ELSE Ok([n \in {signature[i].name : i \in DOMAIN signature} |-> outputs[n]])

\* graph: the runs of the session, an error or its outputs.
RunOne(model, item, graph) ==
  LET error == ValidateSingle(item, model.inputs) IN
  IF error # "none" THEN Error(error)
  ELSE LET ran == graph[item] IN
       IF ran.error # "none" THEN ran ELSE PackOutputs(ran.value, model.outputs)

(***************************************************************************)
(* A batch.                                                                *)
(***************************************************************************)
\* The items' tensors of one input, one behind the other; they must have
\* one shape.
StackTensors(items, name) ==
  IF \E i \in DOMAIN items : items[i][name].shape # items[1][name].shape THEN Error("stacking")
  ELSE Ok([dtype |-> items[1][name].dtype, shape |-> <<Len(items)>> \o items[1][name].shape,
           rows |-> [i \in DOMAIN items |-> items[i][name].rows]])

\* An item's tensor has the spec's shape without the leading dimension.
StackBatches(items, signature) ==
  LET tail(spec) == IF spec.shape = <<>> THEN <<>> ELSE Tail(spec.shape)
      perInput(spec) ==
        FirstError([i \in DOMAIN items |-> InputError(items[i], spec, tail(spec))])
      stackError(spec) ==
        IF perInput(spec) # "none" THEN perInput(spec) ELSE StackTensors(items, spec.name).error
      error == IF \E i \in DOMAIN items : Unexpected(items[i], signature) # {} THEN "unexpected"
               ELSE FirstError([s \in DOMAIN signature |-> stackError(signature[s])])
  IN  IF error # "none" THEN Error(error)
      ELSE Ok([n \in {signature[s].name : s \in DOMAIN signature} |-> StackTensors(items, n).value])

\* Variant: a tensor is split whatever its leading dimension is.
SplitsUnchecked(tensor, count) == TRUE

Splits(tensor, count) == tensor.shape # <<>> /\ tensor.shape[1] = count

\* As many results as the first output has rows.
SplitBatch(outputs, signature) ==
  IF signature = <<>> THEN Ok(<<>>)
  ELSE LET first == outputs[signature[1].name]
           count == first.shape[1]
           names == {signature[i].name : i \in DOMAIN signature}
           row(n, i) == [dtype |-> outputs[n].dtype, shape |-> Tail(outputs[n].shape),
                         rows |-> outputs[n].rows[i]]
       IN  IF first.shape = <<>> \/ \E n \in names : ~Splits(outputs[n], count) THEN Error("stacking")
           ELSE Ok([i \in 1..count |-> [n \in {m \in names : i <= outputs[m].shape[1]} |-> row(n, i)]])

RunBatched(model, items, graph) ==
  LET stacked == StackBatches(items, model.inputs) IN
  IF stacked.error # "none" THEN stacked
  ELSE LET ran == graph[stacked.value] IN
       IF ran.error # "none" THEN ran
       ELSE LET packed == PackOutputs(ran.value, model.outputs) IN
            IF packed.error # "none" THEN packed ELSE SplitBatch(packed.value, model.outputs)

\* One by one: the first error ends the batch.
RunSequence(model, items, graph) ==
  LET runs == [i \in DOMAIN items |-> RunOne(model, items[i], graph)]
      error == FirstError([i \in DOMAIN runs |-> runs[i].error])
  IN  IF error # "none" THEN Error(error) ELSE Ok([i \in DOMAIN runs |-> runs[i].value])

RunBatch(model, items, graph) ==
  LET support == model.support IN
  CASE items = <<>> -> Ok(<<>>)
    [] items # <<>> /\ support.kind = "none" -> RunSequence(model, items, graph)
    [] items # <<>> /\ support.kind = "static" /\ Len(items) # support.size -> Error("stacking")
    [] items # <<>> /\ support.kind = "dynamic" /\ Len(items) > support.size -> Error("stacking")
    [] OTHER -> RunBatched(model, items, graph)

-----------------------------------------------------------------------------
(* Properties *)

Names(signature) == {signature[i].name : i \in DOMAIN signature}

(* A batch that a graph takes whole and that succeeds: every item has each *)
(* input and no other, row i of what the graph was given of an input is    *)
(* the tensor of item i, and answer i has each output and holds row i of   *)
(* what the graph gave for it, as many answers as rows (raw.rs).           *)
BatchKeepsRows(model, items, graph) ==
  LET given  == StackBatches(items, model.inputs).value
      got    == graph[given].value
      answer == RunBatch(model, items, graph).value
  IN  /\ \A i \in DOMAIN items : DOMAIN items[i] = Names(model.inputs)
      /\ \A n \in Names(model.inputs) : given[n].rows = [i \in DOMAIN items |-> items[i][n].rows]
      /\ \A n \in Names(model.outputs) : DOMAIN answer = 1 .. got[n].shape[1]
      /\ \A i \in DOMAIN answer :
           /\ DOMAIN answer[i] = Names(model.outputs)
           /\ \A n \in Names(model.outputs) : answer[i][n].rows = got[n].rows[i]

=============================================================================
