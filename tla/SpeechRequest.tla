---------------------------- MODULE SpeechRequest ----------------------------
(***************************************************************************)
(* One request to POST /v1/tts/synthesize or /v1/audio/speech, from the    *)
(* headers that reach the middleware to the last byte that leaves it:      *)
(* its identity, the refusals, the split of its text, a call of the        *)
(* provider for each chunk, the audio put together or streamed, and the    *)
(* answer to whatever is raised on the way.                                *)
(*                                                                         *)
(* A request has its task and its context, so one is enough here: what     *)
(* requests do to each other is the matter of Admission.                   *)
(***************************************************************************)
EXTENDS TextSplit, VoiceArguments, ErrorEnvelope

CONSTANTS
  Requests,  \* [endpoint, headers, stream, trailers, language, temperature];
             \* trailers: the client takes them and the server can send them
  Records,   \* voice records: [id, transcript, language, temperature, topP]
  Models,    \* as VoiceArguments describes them
  FreshIds,  \* what uuid4 gives
  VoiceFile, \* the temporary file with the reference audio
  None,      \* left out by the request and by its preset
  Blank      \* a string of spaces, or the empty one

\* A model comes with one of the providers and yields a number of results; its
\* signature may be any.
ASSUME RequestAssumption ==
  /\ FreshIds # {} /\ NoId \notin FreshIds
  /\ SafeIds \cap FreshIds = {}  \* uuid4 repeats no client's id
  /\ None # Blank
  /\ \A r \in Requests : r.headers # << >> => 1 \in DOMAIN r.headers  \* a sequence
  /\ \A m \in Models : m.provider \in {"mlx_audio", "voxtral", "vllm_omni"}
  /\ \A m \in Models : m.yields \subseteq Nat

VARIABLES
  request, record, model,  \* constant
  stage,
  id,       \* what the middleware stamps on the response
  context,  \* request_id_var, as the code inside sees it
  error,    \* the exception on its way, or None
  calls,    \* of generate(), with their outcomes
  audio,    \* the pieces of audio so far, each <<chunk, result>>
  answer    \* as the client has it

vars == <<splitVars, request, record, model, stage, id, context, error, calls, audio, answer>>
given == <<request, record, model>>

NoAnswer == [status |-> 0, header |-> NoId, envelope |-> None, count |-> None, ended |-> FALSE]

Init ==
  /\ SplitInit
  /\ request \in Requests /\ record \in Records /\ model \in Models
  /\ stage = "arrived" /\ id = NoId /\ context = NoId
  /\ error = None /\ calls = << >> /\ audio = << >> /\ answer = NoAnswer

Raise(exc) == error' = exc /\ stage' = "raised"
-----------------------------------------------------------------------------
(* Into the handler *)

\* (faulty: the id is resolved again for the response)
ReceiveTwoIds ==
  /\ stage = "arrived" /\ stage' = "handling"
  /\ \E fresh, other \in FreshIds :
       /\ id' = ResolveRequestId(request.headers, fresh)
       /\ context' = ResolveRequestId(request.headers, other)
  /\ UNCHANGED <<splitVars, given, error, calls, audio, answer>>

\* RequestIDMiddleware.__call__
Receive ==
  /\ stage = "arrived" /\ stage' = "handling"
  /\ \E fresh \in FreshIds : id' = ResolveRequestId(request.headers, fresh)
  /\ context' = id'
  /\ UNCHANGED <<splitVars, given, error, calls, audio, answer>>

Adapter == request.endpoint = "speech"

\* What keeps a request from synthesis: the routing and the schema, the
\* translation of the adapter (which has no preset field), synthesize_core
\* up to the voice and the model - where a repository can fail in a way
\* nobody expects.
Refusals ==
  IF request.endpoint = "other" THEN {Bare(404), Bare(405), NotImplemented}
  ELSE {Validation, Unexpected, VoiceNotFound, VoiceBlobMissing}
       \cup {InvalidRequest(code) : code \in {"voice_required", "invalid_parameter",
                                              "input_too_long", "unknown_model"}}
       \cup (IF Adapter THEN {} ELSE {InvalidRequest("preset_unknown")})

Refuse ==
  /\ stage = "handling"
  /\ \E exc \in Refusals : Raise(exc)
  /\ UNCHANGED <<splitVars, given, id, context, calls, audio, answer>>

Accept ==
  /\ stage = "handling" /\ request.endpoint # "other"
  /\ stage' = "splitting"
  /\ UNCHANGED <<splitVars, given, id, context, error, calls, audio, answer>>

Split ==
  /\ stage = "splitting" /\ SplitNext
  /\ UNCHANGED <<given, stage, id, context, error, calls, audio, answer>>

\* Writing the file, spelling out numbers, building the response.
BreakDown ==
  /\ stage = "splitting" /\ Raise(InternalError)
  /\ UNCHANGED <<splitVars, given, id, context, calls, audio, answer>>

TurnAway ==
  /\ stage = "splitting" /\ returned /\ Raise(QueueFull)
  /\ UNCHANGED <<splitVars, given, id, context, calls, audio, answer>>

\* Admitted; a stream is answered before its first call, with the id that
\* the code inside sees (_synthesis_headers, _openai_response).
Started == [NoAnswer EXCEPT !.status = 200, !.header = context]

Start ==
  /\ stage = "splitting" /\ returned /\ chunks # << >>
  /\ stage' = "speaking"
  /\ answer' = IF request.stream THEN Started ELSE answer
  /\ UNCHANGED <<splitVars, given, id, context, error, calls, audio>>
-----------------------------------------------------------------------------
(* The calls, one for each chunk *)

\* A field of the request or its preset before that of the voice.
Option(option, default) == IF option \in {None, Blank} THEN default ELSE option

\* _build_voice_config, _build_synthesis_request
VoiceConfig ==
  [name |-> record.id, audio |-> VoiceFile, transcript |-> record.transcript,
   language |-> Option(request.language, record.language),
   temperature |-> Option(request.temperature, record.temperature),
   topP |-> record.topP]

Call == ProviderCall(model, VoiceConfig)
Chunk == Len(calls) + 1
InChunks == stage = "speaking" /\ Chunk <= Len(chunks)

\* (faulty: the results of a chunk take the place of the earlier ones)
SpeakOverwriting ==
  /\ InChunks /\ ~request.stream /\ Call.result = "speaks"
  /\ \E n \in model.yields : audio' = [i \in 1..n |-> <<Chunk, i>>]
  /\ calls' = Append(calls, Call)
  /\ UNCHANGED <<splitVars, given, stage, id, context, error, answer>>

\* _run_synthesis: every result is kept.
Speak ==
  /\ InChunks /\ ~request.stream /\ Call.result = "speaks"
  /\ \E n \in model.yields : audio' = audio \o [i \in 1..n |-> <<Chunk, i>>]
  /\ calls' = Append(calls, Call)
  /\ UNCHANGED <<splitVars, given, stage, id, context, error, answer>>

\* _stream_synthesis_chunks: the first one is sent, and there has to be one.
SpeakStreamed ==
  /\ InChunks /\ request.stream /\ Call.result = "speaks"
  /\ \E n \in model.yields : n > 0
  /\ audio' = Append(audio, <<Chunk, 1>>)
  /\ calls' = Append(calls, Call)
  /\ UNCHANGED <<splitVars, given, stage, id, context, error, answer>>

\* The model does not load, the provider refuses, or the call fails.
Fail ==
  /\ InChunks /\ ~request.stream
  /\ calls' = Append(calls, Call)
  /\ \/ Raise(InvalidRequest("invalid_parameter"))
     \/ Call.result # "invalid_request" /\ Raise(InternalError)
  /\ UNCHANGED <<splitVars, given, id, context, audio, answer>>

\* The same in a stream, where it is too late for another answer: whatever
\* is raised, the outer layers let the connection break off.
BreakOff ==
  /\ InChunks /\ request.stream
  /\ calls' = Append(calls, Call)
  /\ context' = NoId /\ stage' = "done"
  /\ UNCHANGED <<splitVars, given, id, error, audio, answer>>

\* The client goes, and with it whoever would get the answer.
Disconnect ==
  /\ stage = "speaking"
  /\ context' = NoId /\ stage' = "done"
  /\ UNCHANGED <<splitVars, given, id, error, calls, audio, answer>>

AllSpoken == stage = "speaking" /\ Chunk > Len(chunks)

\* Normalised, concatenated, counted; the adapter takes the count away.
Assemble ==
  /\ AllSpoken /\ ~request.stream
  /\ answer' = [Started EXCEPT !.count = IF Adapter THEN None ELSE Len(audio), !.ended = TRUE]
  /\ stage' = "answered"
  /\ UNCHANGED <<splitVars, given, id, context, error, calls, audio>>

\* Audio that is not PCM, or of two formats.
CannotAssemble ==
  /\ AllSpoken /\ ~request.stream /\ audio # << >>
  /\ Raise(InternalError)
  /\ UNCHANGED <<splitVars, given, id, context, calls, audio, answer>>

\* The last body message, and the trailers for who asked; the adapter's
\* response has none.
EndStream ==
  /\ AllSpoken /\ request.stream
  /\ answer' = [answer EXCEPT !.count = IF request.trailers /\ ~Adapter THEN Len(audio) ELSE None,
                              !.ended = TRUE]
  /\ stage' = "answered"
  /\ UNCHANGED <<splitVars, given, id, context, error, calls, audio>>
-----------------------------------------------------------------------------
(* Out of the handler *)

Failed(exc, header) ==
  [NoAnswer EXCEPT !.status = ErrorResponse(exc, context).status, !.header = header,
                   !.envelope = ErrorResponse(exc, context), !.ended = TRUE]

\* ExceptionMiddleware, inside RequestIDMiddleware.
RenderInside ==
  /\ stage = "raised" /\ HandledInside(error)
  /\ answer' = Failed(error, id) /\ stage' = "answered"
  /\ UNCHANGED <<splitVars, given, id, context, error, calls, audio>>

Escape ==
  /\ stage = "raised" /\ ~HandledInside(error)
  /\ context' = NoId /\ stage' = "escaped"
  /\ UNCHANGED <<splitVars, given, id, error, calls, audio, answer>>

\* ServerErrorMiddleware, outside of it.
RenderOutside ==
  /\ stage = "escaped"
  /\ answer' = Failed(error, NoId) /\ stage' = "done"
  /\ UNCHANGED <<splitVars, given, id, context, error, calls, audio>>

Leave ==
  /\ stage = "answered"
  /\ context' = NoId /\ stage' = "done"
  /\ UNCHANGED <<splitVars, given, id, error, calls, audio, answer>>

Next ==
  \/ Receive \/ Refuse \/ Accept \/ Split \/ BreakDown \/ TurnAway \/ Start
  \/ Speak \/ SpeakStreamed \/ Fail \/ BreakOff \/ Disconnect
  \/ Assemble \/ CannotAssemble \/ EndStream
  \/ RenderInside \/ Escape \/ RenderOutside \/ Leave

Spec == Init /\ [][Next]_vars
-----------------------------------------------------------------------------
(* Properties *)

Whole == answer.status = 200 /\ answer.ended

\* What an answer that ends as a success has of the text.  From a model that
\* gives one result for a chunk: exactly one piece for each, in the order of
\* the text, and X-Chunks is "number of chunks synthesized" (README).  Other
\* models are third-party code too, and then less is promised: the chunks that
\* are heard keep the order of the text and none comes twice; a stream has the
\* beginning of each and counts the chunks; a buffered answer keeps the results
\* of a chunk together.  It does not say that a stream has the later results of
\* a chunk (it drops them, against BR-4), nor that a buffered answer has a chunk
\* without results (its text is left out of a 200), nor what X-Chunks counts there.
AnswerFollowsText ==
  LET \* what is heard of the text, with the first piece of each chunk
      heard == [i \in DOMAIN audio |-> IF audio[i][2] = 1 THEN chunks[audio[i][1]] ELSE << >>]
      Together(k, n) ==
        \E start \in 0..(Len(audio) - n) : \A i \in DOMAIN audio :
          IF i \in (start + 1)..(start + n) THEN audio[i] = <<k, i - start>> ELSE audio[i][1] # k
  IN Whole =>
       /\ model.yields = {1} => audio = [k \in DOMAIN chunks |-> <<k, 1>>]
       /\ request.stream \/ model.yields = {1} => answer.count \in {None, Len(chunks)}
       /\ InOrder(heard)
       /\ request.stream \/ 0 \notin model.yields => Letters(heard) = Letters(text)
       /\ ~request.stream => \A k \in DOMAIN chunks : \E n \in model.yields : Together(k, n)

\* For any signature that a model's generate() may have: apart from the text,
\* it is given no parameter that it does not declare (voxtral's are fixed); no
\* speech is in another voice than the one asked for, except from a model that
\* takes a transcript and no audio (it gets the transcript, and no name even
\* if it takes one: voice_args.py prefers whatever a clone would be given), and
\* from vllm_omni's where it has no way to take the voice or asserts against
\* it; reference audio comes with its transcript where the model takes one; and
\* a blank language is never the request's.
VoiceHonoured ==
  \A k \in DOMAIN calls :
    LET kwargs == calls[k].kwargs
        params == SignatureParams(model)
        Given(aliases, value) == \E p \in DOMAIN kwargs \cap ToSet(aliases) : kwargs[p] = value
        Takes(aliases) == params \cap ToSet(aliases) # {}
        cloned == Given(RefAudioAliases, VoiceFile)
    IN /\ model.provider # "voxtral" => DOMAIN kwargs \ {"text"} \subseteq params
       /\ calls[k].result = "speaks" =>
            \/ cloned
            \/ Given(VoiceNameAliases, record.id)
            \/ ~Takes(RefAudioAliases) /\ Takes(RefTextAliases)
            \/ /\ model.provider = "vllm_omni" /\ ~Takes(RefAudioAliases)
               /\ Takes(VoiceNameAliases) => "named" \in model.rejects
       /\ cloned /\ Takes(RefTextAliases) => Given(RefTextAliases, record.transcript)
       /\ Given(LanguageAliases, Blank) => record.language = Blank

\* The answer, error or not, carries the id under which the code inside
\* logged it, in its header and in its envelope; it is the client's own if
\* that is safe to repeat.  Only an exception that nothing expects makes an
\* exception (unhandled_exception_handler runs outside of the middleware).
ErrorsIdentified ==
  /\ (answer # NoAnswer /\ error # Unexpected) => answer.header = id
  /\ (answer.envelope # None /\ error # Unexpected) => answer.envelope.requestId = id
  /\ stage # "arrived" => id \in SafeIds \cup FreshIds
  /\ (stage # "arrived" /\ id \in SafeIds) => id \in ToSet(request.headers)

\* docs/specs/analyst-frs.md, FR-ER-03: every error path sets X-Request-ID.
EveryErrorIdentified == answer.envelope # None => answer.header # NoId
=============================================================================
