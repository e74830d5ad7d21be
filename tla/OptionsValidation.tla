-------------------------- MODULE OptionsValidation --------------------------
(***************************************************************************)
(* The options of a catalog entry: what validate_provider_options accepts  *)
(* when the runtime is built or a spec is registered, and what the loaders *)
(* of the local ONNX provider make of the same options later.              *)
(*                                                                         *)
(* A JSON value is a record: its kind ("string", "int", "real" in tenths,  *)
(* "bool", "array", "null"), its text, number or items.  The map of an     *)
(* options object is a function from keys to values.                       *)
(***************************************************************************)
EXTENDS Integers, Sequences, FiniteSets, TLC

CONSTANTS
  Values,    \* the JSON values that a catalog may hold
  Urls,      \* the texts that are absolute http(s) URLs
  Width      \* of u32: the loaders narrow sizes to it

ASSUME WidthType == Width \in Nat \ {0}

(***************************************************************************)
(* The values that a check lets pass.                                      *)
(***************************************************************************)
Text == {v \in Values : v.kind = "string"}
OneOf(texts) == {v \in Text : v.text \in texts}
Url == OneOf(Urls)
NonNegative == {v \in Values : v.kind = "int" /\ v.num >= 0}
Positive == {v \in NonNegative : v.num > 0}
Numbers == {v \in Values : v.kind \in {"int", "real"}}
Tenths(v) == IF v.kind = "int" THEN 10 * v.num ELSE v.num
UnitInterval == {v \in Numbers : Tenths(v) \in 1..9}
PositiveReal == {v \in Numbers : Tenths(v) > 0}
Flag == {v \in Values : v.kind = "bool"}
ProviderArray ==
  {v \in Values : v.kind = "array" /\ \A i \in DOMAIN v.items : v.items[i] \in {"cpu", "cuda", "coreml", "directml"}}
Unchecked == Values

Each(keys, accepted) == [k \in keys |-> accepted]

(***************************************************************************)
(* What is accepted for each key: a key that is not listed is unknown.     *)
(***************************************************************************)
Common ==
  Each({"artifact", "cache_dir"}, Text)
  @@ Each({"max_batch_size", "inter_op_num_threads", "intra_op_num_threads"}, Positive)
  @@ ("graph_optimization_level" :> OneOf({"disable", "basic", "extended", "all"}))
  @@ ("execution_providers" :> ProviderArray)

DocStyles == {"granite-docling", "mineru", "olmocr"}
DetectorTexts == {"det_onnx_path", "det_model_id", "det_input_name", "det_output_name"}
DetectorKeys ==
  DetectorTexts \cup {"det_limit_side", "det_min_box_size", "det_bin_threshold",
                      "det_box_score_threshold", "det_unclip_ratio"}

\* The detection stage is looked at only when it is enabled.
DetectorChecks(o) ==
  IF "det_onnx_path" \notin DOMAIN o THEN Each(DetectorKeys, Unchecked)
  ELSE Each(DetectorTexts, Text) @@ Each({"det_limit_side", "det_min_box_size"}, Positive)
       @@ Each({"det_bin_threshold", "det_box_score_threshold"}, UnitInterval)
       @@ ("det_unclip_ratio" :> PositiveReal)

\* Variant: any text is a pooling.
PoolsAnyText == Text

Pools == OneOf({"cls", "mean", "max", "last-token"})

EmbedChecks ==
  Each({"tokenizer_path", "output_name"}, Text) @@ ("pooling" :> Pools)
  @@ Each({"dimensions", "max_seq_len"}, Positive) @@ Each({"normalize", "token_type_ids"}, Flag)

RerankChecks ==
  ("max_seq_len" :> Unchecked) @@ ("instruction" :> Text) @@ ("style" :> OneOf({"cross-encoder", "generative"}))
NlpChecks ==
  Each({"tokenizer_path", "generation", "onnx_path", "label_maps_path", "variant", "calibration_path",
        "label_bank_path"}, Text) @@ ("max_seq_len" :> Positive)
ImageChecks ==
  Each({"onnx_path", "output_name"}, Text) @@ Each({"image_size", "dimensions"}, Positive)
  @@ ("normalization" :> OneOf({"siglip", "imagenet"})) @@ ("pool" :> OneOf({"none", "mean"}))
  @@ ("normalize" :> Flag)
OcrChecks(o) ==
  Each({"onnx_path", "char_dict_path", "output_name"}, Text) @@ Each({"image_height", "image_width"}, Positive)
  @@ ("normalization" :> OneOf({"siglip", "imagenet"})) @@ ("blank_class" :> Unchecked) @@ DetectorChecks(o)
DocumentChecks ==
  Each({"onnx_path", "tokenizer_path"}, Text) @@ ("style" :> OneOf(DocStyles)) @@ ("max_seq_len" :> Positive)
SparseChecks ==
  Each({"tokenizer_path", "output_name"}, Text) @@ ("sparse_method" :> OneOf({"mlm", "lexical"}))
  @@ Each({"max_seq_len", "top_k"}, Positive) @@ ("output_index" :> NonNegative) @@ ("token_type_ids" :> Flag)
MultiVectorChecks ==
  Each({"tokenizer_path", "output_name"}, Text) @@ Each({"dimensions", "max_seq_len"}, Positive)
  @@ ("output_index" :> NonNegative) @@ Each({"normalize", "drop_special_tokens", "token_type_ids"}, Flag)
HybridChecks == Each({"tokenizer_path", "max_seq_len", "token_type_ids", "top_k"}, Unchecked)

OnnxChecks(task, o) ==
  Common @@ CASE task = "embed" -> EmbedChecks
              [] task = "rerank" -> RerankChecks
              [] task = "nlp" -> NlpChecks
              [] task = "embed_image" -> ImageChecks
              [] task = "ocr" -> OcrChecks(o)
              [] task = "document_extract" -> DocumentChecks
              [] task = "embed_sparse" -> SparseChecks
              [] task = "embed_multi_vector" -> MultiVectorChecks
              [] task = "embed_hybrid" -> HybridChecks
              [] OTHER -> <<>>

\* The two generations of the NLP models take different files.
V1Only == {"onnx_path", "label_maps_path", "max_seq_len"}
V7Only == {"variant", "calibration_path", "label_bank_path"}
GenerationFits(o) ==
  LET v1 == V1Only \cap DOMAIN o # {}
      v7 == V7Only \cap DOMAIN o # {}
      declared == IF "generation" \in DOMAIN o THEN o["generation"].text ELSE "none"
  IN  /\ declared \in {"none", "v1", "v7"}
      /\ ~(v1 /\ v7) /\ ~(v1 /\ declared = "v7") /\ ~(v7 /\ declared = "v1")

LlamaChecks(task) ==
  ("base_url" :> Url) @@ ("api_key_env" :> Text) @@ ("request_timeout_secs" :> Positive)
  @@ (IF task = "embed"
      THEN ("tokenizer_base_url" :> Url) @@ ("embedding_dimensions" :> Positive)
           @@ ("max_input_tokens" :> {v \in Positive : v.num >= 3})
      ELSE IF task = "document_extract" THEN ("style" :> OneOf(DocStyles)) ELSE <<>>)
LlamaRequired(task) ==
  {"base_url"} \cup (IF task = "embed" THEN {"max_input_tokens", "embedding_dimensions"} ELSE {})

WithDimensions(task, texts) ==
  Each(texts, Text) @@ ("embedding_dimensions" :> IF task = "embed" THEN Positive ELSE {})

OpenAIChecks(task) == ("base_url" :> Url) @@ WithDimensions(task, {"api_key_env"})
AzureChecks(task) == WithDimensions(task, {"api_key_env", "resource_name", "api_version"})
VertexChecks(task) == WithDimensions(task, {"api_token_env", "project_id", "location", "publisher"})
WhisperChecks == Each({"model_path", "default_language", "cache_dir"}, Text)

Checks(provider, task, o) ==
  CASE provider = "remote/openai" -> OpenAIChecks(task)
    [] provider \in {"remote/mistral", "remote/voyageai"} -> WithDimensions(task, {"api_key_env"})
    [] provider = "remote/gemini" -> WithDimensions(task, {"api_key_env", "api_version"})
    [] provider = "remote/anthropic" -> Each({"api_key_env", "anthropic_version"}, Text)
    [] provider = "remote/cohere" -> WithDimensions(task, {"api_key_env", "input_type"})
    [] provider = "remote/azure-openai" -> AzureChecks(task)
    [] provider = "remote/vertexai" -> VertexChecks(task)
    [] provider = "remote/llamacpp" -> LlamaChecks(task)
    [] provider = "local/candle" -> Each({"cache_dir"}, Text)
    [] provider = "local/onnx" -> OnnxChecks(task, o)
    [] provider = "local/whisper-cpp" -> WhisperChecks

Providers ==
  {"remote/openai", "remote/mistral", "remote/voyageai", "remote/gemini", "remote/anthropic",
   "remote/cohere", "remote/azure-openai", "remote/vertexai", "remote/llamacpp", "local/candle",
   "local/onnx", "local/whisper-cpp"}

\* Tasks past the first four need a pair that is listed.
PlainTasks == {"embed", "rerank", "generate", "raw"}
OnnxTasks ==
  {"nlp", "embed_image", "ocr", "document_extract", "embed_sparse", "embed_multi_vector", "embed_hybrid"}
Supported(provider, task) ==
  \/ task \in PlainTasks
  \/ provider = "local/onnx" /\ task \in OnnxTasks
  \/ <<provider, task>> \in {<<"remote/cohere", "embed_multimodal">>, <<"remote/gemini", "embed_multimodal">>,
                             <<"local/whisper-cpp", "transcribe">>, <<"remote/llamacpp", "document_extract">>}

\* An entry: its provider, its task, whether a preset is known for its
\* model, and its options, "null" for none.
Accepted(e) ==
  IF e.provider \notin Providers THEN TRUE
  ELSE LET o == e.options
           checks == Checks(e.provider, e.task, o)
       IN  /\ Supported(e.provider, e.task)
           /\ e.provider = "remote/llamacpp" =>
                /\ e.task \in {"embed", "generate", "rerank", "document_extract"}
                /\ LlamaRequired(e.task) \subseteq DOMAIN o
           /\ DOMAIN o \subseteq DOMAIN checks
           /\ \A k \in DOMAIN o : o[k] \in checks[k]
           /\ e.provider = "local/onnx" /\ e.task = "nlp" => GenerationFits(o)

(***************************************************************************)
(* The loaders.  A reader takes the values of one JSON type and passes     *)
(* over the others, as `get(key).and_then(as_...)` does; of those it takes *)
(* it may know only some, and an unknown one is an error.                  *)
(***************************************************************************)
Reads(takes) == [takes |-> takes, knows |-> takes, narrow |-> FALSE]
Narrows(takes) == [takes |-> takes, knows |-> takes, narrow |-> TRUE]
Knows(texts) == [takes |-> Text, knows |-> OneOf(texts), narrow |-> FALSE]
ReadEach(keys, reader) == [k \in keys |-> reader]

Default == [kind |-> "none", text |-> "", num |-> 0, items |-> <<>>]
ReadOption(o, k, r) ==
  IF k \notin DOMAIN o \/ o[k] \notin r.takes THEN Default
  ELSE IF r.narrow THEN [o[k] EXCEPT !.num = @ % Width] ELSE o[k]

\* parse_execution_providers_option takes an array or a single text; then
\* build_execution_providers wants one EP of the list, if there is one, that
\* the crate is built with.
KnownProviders ==
  {"cpu", "cuda", "coreml", "rocm", "directml", "openvino", "qnn", "tensorrt", "webgpu"}
Listed(v) == IF v.kind = "string" THEN {v.text} ELSE {v.items[i] : i \in DOMAIN v.items}
EpReader(built) ==
  [takes |-> Values, narrow |-> FALSE,
   knows |-> {v \in Values : /\ v.kind \in {"string", "array"} /\ Listed(v) \subseteq KnownProviders
                             /\ Listed(v) # {} => Listed(v) \cap (built \cup {"cpu"}) # {}}]

Paths == ReadEach({"artifact", "tokenizer_path", "output_name", "cache_dir"}, Reads(Text))
EmbedReaders ==
  Paths @@ ("pooling" :> Knows({"cls", "mean", "max", "last-token"})) @@ ("dimensions" :> Narrows(NonNegative))
  @@ ("max_seq_len" :> Reads(NonNegative)) @@ ReadEach({"normalize", "token_type_ids"}, Reads(Flag))
SparseReaders ==
  Paths @@ ("sparse_method" :> Knows({"mlm", "lexical"}))
  @@ ReadEach({"max_seq_len", "output_index", "top_k"}, Reads(NonNegative))
MultiVectorReaders ==
  Paths @@ ("dimensions" :> Narrows(NonNegative)) @@ ReadEach({"max_seq_len", "output_index"}, Reads(NonNegative))
  @@ ReadEach({"normalize", "drop_special_tokens"}, Reads(Flag))
HybridReaders ==
  ReadEach({"artifact", "tokenizer_path", "cache_dir"}, Reads(Text))
  @@ ReadEach({"max_seq_len", "top_k"}, Reads(NonNegative))
ImageReaders ==
  ReadEach({"onnx_path", "output_name", "cache_dir"}, Reads(Text))
  @@ ReadEach({"image_size", "dimensions"}, Narrows(NonNegative))
  @@ ("normalization" :> Knows({"siglip", "imagenet"})) @@ ("pool" :> Knows({"none", "mean"}))
  @@ ("normalize" :> Reads(Flag))
OcrReaders(o) ==
  ReadEach({"onnx_path", "char_dict_path", "output_name", "cache_dir"}, Reads(Text))
  @@ ReadEach({"image_height", "image_width"}, Narrows(NonNegative))
  @@ ("normalization" :> Knows({"siglip", "imagenet"})) @@ ("blank_class" :> Reads(NonNegative))
  @@ (IF ReadOption(o, "det_onnx_path", Reads(Text)) = Default THEN <<>>
      ELSE ReadEach(DetectorTexts, Reads(Text))
           @@ ReadEach({"det_limit_side", "det_min_box_size"}, Narrows(NonNegative))
           @@ ReadEach({"det_bin_threshold", "det_box_score_threshold", "det_unclip_ratio"}, Reads(Numbers)))
NlpV1Readers ==
  ReadEach({"onnx_path", "tokenizer_path", "label_maps_path", "cache_dir"}, Reads(Text))
  @@ ("max_seq_len" :> Reads(NonNegative))
NlpV7Readers ==
  ReadEach({"tokenizer_path", "cache_dir", "graph_optimization_level"} \cup V7Only, Reads(Text))
  @@ ReadEach({"inter_op_num_threads", "intra_op_num_threads"}, Reads(NonNegative))

\* The generation that is loaded: what the options name or give away, or what
\* the repository holds.
Generation(o, holds) ==
  IF ReadOption(o, "generation", Reads(Text)) # Default THEN o["generation"].text
  ELSE IF V7Only \cap DOMAIN o # {} THEN "v7" ELSE holds

\* The v7 loader gives up over an option of v1.
NlpReaders(o, holds) ==
  ("generation" :> Knows({"v1", "v7"}))
  @@ (IF Generation(o, holds) # "v7" THEN NlpV1Readers
      ELSE NlpV7Readers @@ ReadEach(V1Only, [takes |-> Values, knows |-> {}, narrow |-> FALSE]))
CrossEncoderReaders == ("max_seq_len" :> Reads(NonNegative)) @@ ("cache_dir" :> Reads(Text))
GenerativeReaders == CrossEncoderReaders @@ ReadEach({"artifact", "instruction"}, Reads(Text))
RerankReaders(o) ==
  ("style" :> Knows({"cross-encoder", "generative"}))
  @@ (IF ReadOption(o, "style", Reads(Text)).text = "generative" THEN GenerativeReaders ELSE CrossEncoderReaders)
RawReaders ==
  ReadEach({"artifact", "graph_optimization_level", "cache_dir"}, Reads(Text))
  @@ ReadEach({"max_batch_size", "inter_op_num_threads", "intra_op_num_threads"}, Reads(NonNegative))

Readers(task, o, holds, built) ==
  LET own == CASE task = "embed" -> EmbedReaders
               [] task = "embed_sparse" -> SparseReaders
               [] task = "embed_multi_vector" -> MultiVectorReaders
               [] task = "embed_hybrid" -> HybridReaders
               [] task = "embed_image" -> ImageReaders
               [] task = "ocr" -> OcrReaders(o)
               [] task = "nlp" -> NlpReaders(o, holds)
               [] task = "rerank" -> RerankReaders(o)
               [] task = "raw" -> RawReaders
               [] OTHER -> ("style" :> Knows(DocStyles))
  IN  IF task = "document_extract" THEN own ELSE own @@ ("execution_providers" :> EpReader(built))

\* Without a preset the loader cannot do without these.
Needs(task, preset) ==
  CASE task = "embed_image" -> {"onnx_path", "image_size", "dimensions"}
    [] task = "ocr" -> {"onnx_path", "char_dict_path"}
    [] task = "embed" /\ ~preset -> {"artifact", "pooling", "dimensions"}
    [] task = "embed_sparse" /\ ~preset -> {"artifact", "sparse_method"}
    [] task = "embed_multi_vector" /\ ~preset -> {"artifact", "dimensions"}
    [] OTHER -> {}

\* What a loader makes of the options: its configuration, and the keys for
\* which it gives up with RuntimeError::Config.  holds is the generation of
\* an NLP repository, built the EPs that the crate is built with.
Resolve(task, preset, o, holds, built) ==
  LET readers == Readers(task, o, holds, built)
      config == [k \in DOMAIN readers |-> ReadOption(o, k, readers[k])]
  IN  [config |-> config,
       refused |-> {k \in DOMAIN readers \cap DOMAIN o :
                      o[k] \in readers[k].takes /\ o[k] \notin readers[k].knows},
       missing |-> {k \in Needs(task, preset) : config[k] = Default}
                   \cup (IF task = "embed_hybrid" /\ ~preset THEN {"preset"} ELSE {})]

=============================================================================
