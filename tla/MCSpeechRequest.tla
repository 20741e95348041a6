--------------------------- MODULE MCSpeechRequest ---------------------------
(* Instances of SpeechRequest for TLC. *)
EXTENDS SpeechRequest

CONSTANTS mine, unsafe, theirs

\* Sentences of one to six characters, with and without blanks.
T == TRUE
F == FALSE
MCShapes == {<<T>>, <<T, F, T>>, <<T, T, T, T>>, <<T, F, F, F, F, T>>}

Request(endpoint, headers, stream, trailers, language, temperature) ==
  [endpoint |-> endpoint, headers |-> headers, stream |-> stream, trailers |-> trailers,
   language |-> language, temperature |-> temperature]

\* The adapter takes no language and no temperature; a preset may pin them.
MCRequests ==
  {Request("synthesize", <<mine>>, FALSE, FALSE, Blank, "hot"),
   Request("synthesize", <<unsafe, mine>>, TRUE, TRUE, "fr", None),
   Request("speech", << >>, FALSE, TRUE, None, None),
   Request("speech", <<mine, theirs>>, TRUE, TRUE, None, "hot"),
   Request("other", << >>, FALSE, FALSE, None, None)}

MCRecords ==
  {[id |-> "alloy", transcript |-> "words", language |-> "it", temperature |-> "mild",
    topP |-> "p"]}

Model(provider, signature, accepts, rejects, lazy, yields) ==
  [provider |-> provider, signature |-> signature, accepts |-> accepts, rejects |-> rejects,
   lazy |-> lazy, yields |-> yields]

\* Signatures that declare all, some or none of the aliases, a transcript and
\* no audio, or no text; one that cannot be inspected; models that assert
\* against a way of naming the voice.
MCModels ==
  LET cloning == {"text", "reference_audio", "reference_text", "language", "temperature", "top_p"}
      fixed == {"text", "ref_audio", "ref_text", "lang_code"}
      named == {"text", "speaker", "voice", "lang"}
      opaque == {"text", "voice", "ref_audio", "ref_text"}
      transcribed == {"text", "ref_text", "voice"}
      textless == {"voice", "kwargs"}
  IN {Model("mlx_audio", cloning, cloning, {}, FALSE, {0, 2}),
      Model("mlx_audio", named, named, {"named"}, FALSE, {1}),
      Model("mlx_audio", Opaque, opaque, {}, FALSE, {1}),
      Model("mlx_audio", {"text", "lang"}, {"text", "lang"}, {}, FALSE, {1}),
      Model("mlx_audio", transcribed, transcribed, {}, FALSE, {1}),
      Model("vllm_omni", textless, textless \cup {"text"}, {}, FALSE, {0, 1}),
      Model("voxtral", fixed, fixed, {}, TRUE, {1}),
      Model("voxtral", fixed, fixed, {"clone"}, TRUE, {1}),
      Model("vllm_omni", named, named, {"named"}, FALSE, {1}),
      Model("vllm_omni", cloning, cloning, {"clone"}, FALSE, {1}),
      Model("vllm_omni", {"text", "topP"}, {"text", "topP"}, {}, FALSE, {1})}
=============================================================================
