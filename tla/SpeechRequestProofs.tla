------------------------ MODULE SpeechRequestProofs ------------------------
(***************************************************************************)
(* A request's identity, the voice that it is spoken in, the chunks of its *)
(* text and the audio put together of them, for any headers, texts, limits, *)
(* models and records.                                                     *)
(***************************************************************************)
EXTENDS SpeechRequest, SequenceLemmas, FiniteSetTheorems, TLAPS

Inside == {"handling", "splitting", "speaking", "raised", "answered"}

\* The code inside the middleware sees the id that the middleware stamps.
SameId == stage \in Inside => context = id

\* Where the id is from.
IdFrom ==
  stage # "arrived" =>
    /\ id \in SafeIds \cup FreshIds
    /\ id \in SafeIds => id \in ToSet(request.headers)

\* Nothing is answered before there is an id, and with an envelope only when
\* an exception is handled; what no inner handler takes is Unexpected.
AnswersInOrder ==
  /\ request \in Requests
  /\ stage \in Inside \cup {"arrived", "escaped", "done"}
  /\ DOMAIN answer = DOMAIN NoAnswer
  /\ stage \in {"arrived", "handling", "splitting"} => answer = NoAnswer
  /\ stage \in {"speaking", "raised", "escaped"} =>
       answer.envelope = None /\ (answer # NoAnswer => answer.header = id)
  /\ stage = "speaking" /\ request.stream => answer.header = id
  /\ stage = "raised" => HandledInside(error) \/ error = Unexpected
  /\ stage = "escaped" => error = Unexpected

IdInv == SameId /\ IdFrom /\ AnswersInOrder /\ ErrorsIdentified

-----------------------------------------------------------------------------
\* The handlers put the id of the context into the envelope.
LEMMA EnvelopeHasContext ==
  ASSUME NEW exc, NEW ctx
  PROVE  ErrorResponse(exc, ctx).requestId = ctx
BY DEF ErrorResponse, Envelope

\* The first header, or a fresh id.
LEMMA ResolvedId ==
  ASSUME NEW r \in Requests, NEW fresh \in FreshIds
  PROVE  LET resolved == ResolveRequestId(r.headers, fresh)
         IN  /\ resolved \in SafeIds \cup FreshIds
             /\ resolved \in SafeIds => resolved \in ToSet(r.headers)
BY RequestAssumption DEF RequestAssumption, ResolveRequestId, ToSet

\* Everything that the code raises on purpose has a handler.
LEMMA RaisedAreKnown ==
  /\ \A exc \in Refusals : HandledInside(exc) \/ exc = Unexpected
  /\ HandledInside(InternalError) /\ HandledInside(QueueFull)
  /\ \A code : HandledInside(InvalidRequest(code))
BY DEF Refusals, HandledInside, InvalidRequest, InternalError, QueueFull, VoiceNotFound,
   VoiceBlobMissing, NotImplemented, Typed, Bare, Validation, Unexpected

\* A step that leaves the exception, the answer and the id alone.
LEMMA QuietStep ==
  ASSUME IdInv, UNCHANGED <<request, error, answer, id>>, stage # "arrived",
         \/ /\ stage' \in {"handling", "splitting", "speaking"} /\ context' = context
            /\ \/ stage' = stage
               \/ /\ stage \in {"handling", "splitting"} /\ answer = NoAnswer
                  /\ stage' = "speaking" => ~request.stream
         \/ stage' = "done"
         \/ stage' = "escaped" /\ stage = "raised" /\ ~HandledInside(error)
  PROVE  IdInv'
<1> USE DEF IdInv
<1>1. stage' \in Inside => stage \in Inside /\ context' = context
  BY DEF Inside, AnswersInOrder
<1>2. SameId' /\ IdFrom' /\ ErrorsIdentified'
  BY <1>1 DEF SameId, IdFrom, ErrorsIdentified
<1>3. AnswersInOrder'
  BY DEF AnswersInOrder, Inside, NoAnswer
<1> QED
  BY <1>2, <1>3

\* Raise, in the handler and before anything but the start of a stream is
\* answered.
LEMMA RaisingStep ==
  ASSUME IdInv, stage \in {"handling", "splitting", "speaking"},
         NEW exc, Raise(exc), HandledInside(exc) \/ exc = Unexpected,
         UNCHANGED <<request, answer, id, context>>
  PROVE  IdInv'
<1> USE DEF IdInv
<1>1. SameId' /\ IdFrom'
  BY DEF SameId, IdFrom, Raise, Inside
<1>2. answer.envelope = None /\ (answer # NoAnswer => answer.header = id)
  BY DEF AnswersInOrder, NoAnswer
<1>3. AnswersInOrder' /\ ErrorsIdentified'
  BY <1>1, <1>2 DEF AnswersInOrder, ErrorsIdentified, IdFrom, Raise, Inside
<1> QED
  BY <1>1, <1>3

\* An answer given inside the middleware, with or without an envelope.
LEMMA AnsweringStep ==
  ASSUME IdInv, stage \in Inside, stage' \in {"speaking", "answered"},
         UNCHANGED <<request, error, id, context>>,
         DOMAIN answer' = DOMAIN NoAnswer, answer'.header = id,
         \/ answer'.envelope = None
         \/ stage' = "answered" /\ answer'.envelope.requestId = id
  PROVE  IdInv'
<1> USE DEF IdInv
<1>1. SameId' /\ IdFrom'
  BY DEF SameId, IdFrom, Inside
<1>2. AnswersInOrder' /\ ErrorsIdentified'
  BY <1>1 DEF AnswersInOrder, ErrorsIdentified, IdFrom, Inside
<1> QED
  BY <1>1, <1>2

LEMMA StepsKeepIdInv ==
  ASSUME IdInv, Next
  PROVE  IdInv'
<1>1. CASE Receive
  <2>1. PICK fresh \in FreshIds : id' = ResolveRequestId(request.headers, fresh)
    BY <1>1 DEF Receive
  <2>2. IdFrom'
    BY <1>1, <2>1, ResolvedId DEF Receive, IdFrom, IdInv, AnswersInOrder, given
  <2>3. SameId' /\ AnswersInOrder' /\ ErrorsIdentified'
    BY <1>1, <2>2 DEF Receive, SameId, AnswersInOrder, ErrorsIdentified, IdFrom, IdInv, Inside,
       NoAnswer, given
  <2> QED
    BY <2>2, <2>3 DEF IdInv
<1>2. CASE Refuse \/ BreakDown \/ TurnAway \/ Fail \/ CannotAssemble
  BY <1>2, RaisedAreKnown, RaisingStep
     DEF Refuse, BreakDown, TurnAway, Fail, CannotAssemble, InChunks, AllSpoken, given
<1>3. CASE Accept \/ Split
  <2>1. stage \in {"handling", "splitting"} /\ stage' \in {"handling", "splitting"}
    BY <1>3 DEF Accept, Split
  <2>2. answer = NoAnswer
    BY <2>1 DEF IdInv, AnswersInOrder
  <2>3. UNCHANGED <<request, error, answer, id, context>>
    BY <1>3 DEF Accept, Split, given
  <2> QED
    BY <2>1, <2>2, <2>3, QuietStep
<1>4. CASE Speak \/ SpeakStreamed
  BY <1>4, QuietStep DEF Speak, SpeakStreamed, InChunks, given
<1>5. CASE BreakOff \/ Disconnect \/ Escape \/ Leave
  BY <1>5, QuietStep DEF BreakOff, Disconnect, Escape, Leave, InChunks, given
<1>6. CASE Start
  <2>1. /\ stage = "splitting" /\ stage' = "speaking"
        /\ answer' = IF request.stream THEN Started ELSE answer
        /\ UNCHANGED <<request, error, id, context>>
    BY <1>6 DEF Start, given
  <2>2. answer = NoAnswer /\ context = id
    BY <2>1 DEF IdInv, AnswersInOrder, SameId, Inside
  <2>3. Started.header = id /\ Started.envelope = None /\ DOMAIN Started = DOMAIN NoAnswer
    BY <2>2 DEF Started, NoAnswer
  <2>4. CASE request.stream
    BY <2>1, <2>3, <2>4, AnsweringStep DEF Inside
  <2>5. CASE ~request.stream
    BY <2>1, <2>2, <2>5, QuietStep
  <2> QED
    BY <2>4, <2>5
<1>7. CASE Assemble \/ EndStream
  <2>1. stage = "speaking" /\ stage' = "answered" /\ UNCHANGED <<request, error, id, context>>
    BY <1>7 DEF Assemble, EndStream, AllSpoken, given
  <2>2. context = id
    BY <2>1 DEF IdInv, SameId, Inside
  <2>3. CASE Assemble
    <3>1. answer'.header = id /\ answer'.envelope = None /\ DOMAIN answer' = DOMAIN NoAnswer
      BY <2>2, <2>3 DEF Assemble, Started, NoAnswer
    <3> QED
      BY <2>1, <3>1, AnsweringStep DEF Inside
  <2>4. CASE EndStream
    <3>1. answer.envelope = None /\ DOMAIN answer = DOMAIN NoAnswer
          /\ answer.header = id
      BY <2>1, <2>4 DEF IdInv, AnswersInOrder, EndStream
    <3>2. answer'.header = id /\ answer'.envelope = None /\ DOMAIN answer' = DOMAIN NoAnswer
      BY <2>4, <3>1 DEF EndStream, NoAnswer
    <3> QED
      BY <2>1, <3>2, AnsweringStep DEF Inside
  <2> QED
    BY <1>7, <2>3, <2>4
<1>8. CASE RenderInside
  <2>1. stage = "raised" /\ stage' = "answered" /\ answer' = Failed(error, id)
        /\ UNCHANGED <<request, error, id, context>>
    BY <1>8 DEF RenderInside, given
  <2>2. context = id
    BY <2>1 DEF IdInv, SameId, Inside
  <2>3. /\ DOMAIN answer' = DOMAIN NoAnswer /\ answer'.header = id
        /\ answer'.envelope = ErrorResponse(error, context)
    BY <2>1 DEF Failed, NoAnswer
  <2>4. answer'.envelope.requestId = id
    BY <2>2, <2>3, EnvelopeHasContext
  <2> QED
    BY <2>1, <2>3, <2>4, AnsweringStep DEF Inside
<1>9. CASE RenderOutside
  <2>1. stage = "escaped" /\ stage' = "done" /\ answer' = Failed(error, NoId)
        /\ UNCHANGED <<request, error, id, context>>
    BY <1>9 DEF RenderOutside, given
  <2>2. error = Unexpected
    BY <2>1 DEF IdInv, AnswersInOrder
  <2>3. DOMAIN answer' = DOMAIN NoAnswer
    BY <2>1 DEF Failed, NoAnswer
  <2> QED
    BY <2>1, <2>2, <2>3 DEF IdInv, SameId, IdFrom, AnswersInOrder, ErrorsIdentified, Inside
<1> QED
  BY <1>1, <1>2, <1>3, <1>4, <1>5, <1>6, <1>7, <1>8, <1>9 DEF Next

\* FR-ER-03, for every way through the code: the header and the envelope of an
\* answer have the id under which the code inside logged the request, except
\* where unhandled_exception_handler answers for it.
THEOREM AnswersIdentified == Spec => []ErrorsIdentified
<1>1. Init => IdInv
  BY DEF Init, IdInv, SameId, IdFrom, AnswersInOrder, ErrorsIdentified, Inside, NoAnswer
<1>2. IdInv /\ [Next]_vars => IdInv'
  <2>1. IdInv /\ UNCHANGED vars => IdInv'
    BY DEF IdInv, SameId, IdFrom, AnswersInOrder, ErrorsIdentified, vars, given
  <2> QED
    BY <2>1, StepsKeepIdInv
<1>3. IdInv => ErrorsIdentified
  BY DEF IdInv
<1> QED
  BY <1>1, <1>2, <1>3, PTL DEF Spec
-----------------------------------------------------------------------------
(* The arguments of a call                                                 *)

Names == ToSet(VoiceNameAliases)
Audios == ToSet(RefAudioAliases)
Transcripts == ToSet(RefTextAliases)
Languages == ToSet(LanguageAliases)
Tunings == ToSet(TemperatureAliases) \cup ToSet(TopPAliases)

LEMMA Aliases ==
  /\ Names = {"voice", "voice_id", "speaker"}
  /\ Audios = {"ref_audio", "reference_audio"}
  /\ Transcripts = {"ref_text", "reference_text"}
  /\ Languages = {"lang_code", "language", "lang"}
  /\ Tunings = {"temperature", "top_p", "topP"}
BY DEF Names, Audios, Transcripts, Languages, Tunings, ToSet, VoiceNameAliases,
   RefAudioAliases, RefTextAliases, LanguageAliases, TemperatureAliases, TopPAliases

\* _first_supported_name gives a name that is in both ...
LEMMA FirstIsKnown ==
  ASSUME NEW candidates, NEW params
  PROVE  FirstSupportedName(candidates, params) \subseteq params \cap ToSet(candidates)
BY DEF FirstSupportedName, ToSet

\* ... and gives one where there is one.
LEMMA FirstIsFound ==
  ASSUME NEW params
  PROVE  /\ params \cap Names # {} => FirstSupportedName(VoiceNameAliases, params) # {}
         /\ params \cap Audios # {} => FirstSupportedName(RefAudioAliases, params) # {}
         /\ params \cap Transcripts # {} => FirstSupportedName(RefTextAliases, params) # {}
BY DEF FirstSupportedName, Names, Audios, Transcripts, ToSet, VoiceNameAliases,
   RefAudioAliases, RefTextAliases

\* The arguments that do not name the voice.
LEMMA RestArgs ==
  ASSUME NEW voice, NEW params
  PROVE  LET rest == Rest(voice, params)
         IN /\ DOMAIN rest \subseteq {"text"} \cup (params \cap (Languages \cup Tunings))
            /\ \A p \in DOMAIN rest \cap Languages : rest[p] = voice.language
<1> DEFINE first(candidates) == FirstSupportedName(candidates, params)
           tuning == Update(Args(TemperatureAliases, voice.temperature, params),
                            Args(TopPAliases, voice.topP, params))
           options == GenerationArgs(voice, params)
<1>1. /\ first(LanguageAliases) \subseteq params \cap Languages
      /\ first(TemperatureAliases) \subseteq params \cap Tunings
      /\ first(TopPAliases) \subseteq params \cap Tunings
  BY FirstIsKnown DEF Languages, Tunings
<1>2. DOMAIN tuning \subseteq params \cap Tunings
  BY <1>1 DEF Update, Args
<1>3. /\ DOMAIN options \subseteq params \cap (Languages \cup Tunings)
      /\ \A p \in DOMAIN options \cap Languages : options[p] = voice.language
  <2>1. options = Update(Args(LanguageAliases, voice.language, params), tuning)
    BY DEF GenerationArgs
  <2>2. Languages \cap Tunings = {}
    BY Aliases
  <2> HIDE DEF tuning, options
  <2> QED
    BY <1>1, <1>2, <2>1, <2>2 DEF Update, Args
<1>4. "text" \notin Languages
  BY Aliases
<1> HIDE DEF options
<1>5. Rest(voice, params) = Update(TextArgs, options)
  BY DEF Rest, options
<1> QED
  BY <1>3, <1>4, <1>5 DEF Update, TextArgs

\* Arguments that clone the voice: its audio, with its transcript if that
\* is taken.
Clones(kwargs, voice, params) ==
  /\ \E p \in DOMAIN kwargs \cap Audios : kwargs[p] = voice.audio
  /\ params \cap Transcripts # {} =>
       \E p \in DOMAIN kwargs \cap Transcripts : kwargs[p] = voice.transcript

\* Arguments that name it and do not clone.
NamesOnly(kwargs, voice) ==
  /\ DOMAIN kwargs \cap Audios = {}
  /\ \E p \in DOMAIN kwargs \cap Names : kwargs[p] = voice.name

SpeaksLanguage(kwargs, voice) ==
  \A p \in DOMAIN kwargs \cap Languages : kwargs[p] = voice.language

\* What the three ways of naming a voice make of the rest of the arguments.
LEMMA CloneArgs ==
  ASSUME NEW voice, NEW params
  PROVE  LET clone == CloneVoiceArgs(voice, params)
         IN /\ DOMAIN clone \subseteq params \cap (Audios \cup Transcripts)
            /\ params \cap Audios # {} => Clones(clone, voice, params)
            /\ clone = NoArgs => params \cap Audios = {}
            /\ clone # NoArgs => params \cap (Audios \cup Transcripts) # {}
<1> DEFINE audioNames == FirstSupportedName(RefAudioAliases, params)
           textNames == FirstSupportedName(RefTextAliases, params)
           clone == CloneVoiceArgs(voice, params)
<1>1. audioNames \subseteq params \cap Audios /\ textNames \subseteq params \cap Transcripts
  BY FirstIsKnown DEF Audios, Transcripts
<1>2. /\ params \cap Audios # {} => audioNames # {}
      /\ params \cap Transcripts # {} => textNames # {}
  BY FirstIsFound
<1>3. Audios \cap Transcripts = {}
  BY Aliases
<1> HIDE DEF audioNames, textNames
<1>4. /\ DOMAIN clone = audioNames \cup textNames
      /\ \A p \in textNames : clone[p] = voice.transcript
      /\ \A p \in audioNames \ textNames : clone[p] = voice.audio
  BY DEF CloneVoiceArgs, Update, Args, audioNames, textNames
<1>5. clone = [p \in DOMAIN clone |-> clone[p]]
  BY DEF CloneVoiceArgs, Update
<1>6. DOMAIN NoArgs = {}
  BY DEF NoArgs
<1>7. ASSUME DOMAIN clone = {}
      PROVE  clone = NoArgs
  BY <1>5, <1>7 DEF NoArgs
<1> HIDE DEF clone
<1>8. clone # NoArgs => params \cap (Audios \cup Transcripts) # {}
  BY <1>1, <1>4, <1>7
<1>9. params \cap Audios # {} => Clones(clone, voice, params)
  BY <1>1, <1>2, <1>3, <1>4 DEF Clones
<1> QED
  BY <1>1, <1>2, <1>4, <1>6, <1>8, <1>9 DEF clone

LEMMA NameArgs ==
  ASSUME NEW voice, NEW params
  PROVE  LET named == NamedVoiceArgs(voice, params)
         IN /\ DOMAIN named \subseteq params \cap Names
            /\ named # NoArgs => NamesOnly(named, voice)
            /\ named = NoArgs => params \cap Names = {}
<1> DEFINE voiceNames == FirstSupportedName(VoiceNameAliases, params)
           named == NamedVoiceArgs(voice, params)
<1>1. voiceNames \subseteq params \cap Names
  BY FirstIsKnown DEF Names
<1>2. params \cap Names # {} => voiceNames # {}
  BY FirstIsFound
<1>3. Names \cap Audios = {}
  BY Aliases
<1> HIDE DEF voiceNames
<1>4. named = [p \in voiceNames |-> voice.name]
  BY DEF NamedVoiceArgs, Args, voiceNames
<1>5. DOMAIN NoArgs = {}
  BY DEF NoArgs
<1>6. named # NoArgs => voiceNames # {}
  BY <1>4 DEF NoArgs
<1> HIDE DEF named
<1> QED
  BY <1>1, <1>2, <1>3, <1>4, <1>5, <1>6 DEF NamesOnly, named

\* ... and together with the rest.
LEMMA CloneCall ==
  ASSUME NEW voice, NEW params, NEW clone,
         DOMAIN clone \subseteq params \cap (Audios \cup Transcripts)
  PROVE  LET kwargs == Update(Rest(voice, params), clone)
         IN /\ DOMAIN kwargs \ {"text"} \subseteq params
            /\ Clones(clone, voice, params) => Clones(kwargs, voice, params)
            /\ SpeaksLanguage(kwargs, voice)
<1>1. (Audios \cup Transcripts) \cap Languages = {}
  BY Aliases
<1> QED
  BY <1>1, RestArgs DEF Update, Clones, SpeaksLanguage

LEMMA NamedCall ==
  ASSUME NEW voice, NEW params, NEW named,
         DOMAIN named \subseteq params \cap Names, NamesOnly(named, voice)
  PROVE  LET kwargs == Update(Rest(voice, params), named)
         IN /\ DOMAIN kwargs \ {"text"} \subseteq params
            /\ NamesOnly(kwargs, voice) /\ SpeaksLanguage(kwargs, voice)
            /\ Style(kwargs) = "named"
<1> DEFINE kwargs == Update(Rest(voice, params), named)
<1>1. Names \cap Languages = {} /\ ({"text"} \cup Languages \cup Tunings) \cap Audios = {}
  BY Aliases
<1>2. /\ DOMAIN kwargs \ {"text"} \subseteq params
      /\ NamesOnly(kwargs, voice) /\ SpeaksLanguage(kwargs, voice)
  BY <1>1, RestArgs DEF Update, NamesOnly, SpeaksLanguage
<1> HIDE DEF kwargs
<1>3. Style(kwargs) = "named"
  BY <1>2 DEF Style, NamesOnly, Names, Audios
<1> QED
  BY <1>2, <1>3 DEF kwargs

LEMMA PlainCall ==
  ASSUME NEW voice, NEW params
  PROVE  /\ DOMAIN Rest(voice, params) \ {"text"} \subseteq params
         /\ DOMAIN Rest(voice, params) \cap (Audios \cup Names) = {}
         /\ SpeaksLanguage(Rest(voice, params), voice)
<1>1. ({"text"} \cup Languages \cup Tunings) \cap (Audios \cup Names) = {}
  BY Aliases
<1> QED
  BY <1>1, RestArgs DEF SpeaksLanguage

-----------------------------------------------------------------------------
(* The providers *)

\* A call that does what VoiceHonoured asks of it.
Honours(m, voice, call) ==
  LET kwargs == call.kwargs
      params == SignatureParams(m)
  IN /\ m.provider # "voxtral" => DOMAIN kwargs \ {"text"} \subseteq params
     /\ SpeaksLanguage(kwargs, voice)
     /\ \/ Clones(kwargs, voice, params)
        \/ /\ DOMAIN kwargs \cap Audios = {}
           /\ call.result = "speaks" =>
                \/ NamesOnly(kwargs, voice)
                \/ params \cap Audios = {} /\ params \cap Transcripts # {}
                \/ /\ m.provider = "vllm_omni" /\ params \cap Audios = {}
                   /\ params \cap Names # {} => "named" \in m.rejects

LEMMA RejectedHonours ==
  ASSUME NEW m, NEW voice
  PROVE  Honours(m, voice, Rejected)
BY DEF Honours, Rejected, NoArgs, SpeaksLanguage

\* What a caught exception does to an outcome.
LEMMA UnguardedOutcome ==
  ASSUME NEW m, NEW kwargs
  PROVE  /\ Outcome(m, kwargs).kwargs = kwargs /\ Unguarded(m, kwargs).kwargs = kwargs
         /\ Outcome(m, kwargs).result = "asserts" => Style(kwargs) \in m.rejects
BY DEF Outcome, Unguarded, Generate

\* voxtral always clones.
LEMMA VoxtralHonours ==
  ASSUME NEW m, NEW voice, m.provider = "voxtral"
  PROVE  Honours(m, voice, VoxtralCall(m, voice))
<1> DEFINE params == SignatureParams(m)
           rest == Rest(voice, params)
           fixed == [p \in {"ref_audio", "ref_text"} |->
                      IF p = "ref_audio" THEN voice.audio ELSE voice.transcript]
           kwargs == Update(fixed, rest)
<1>1. /\ DOMAIN rest \subseteq {"text"} \cup Languages \cup Tunings
      /\ \A p \in DOMAIN rest \cap Languages : rest[p] = voice.language
  BY RestArgs
<1>2. /\ "ref_audio" \in Audios /\ "ref_text" \in Transcripts
      /\ {"ref_audio", "ref_text"} \cap ({"text"} \cup Languages \cup Tunings) = {}
  BY Aliases
<1> HIDE DEF rest, params
<1>3. Clones(kwargs, voice, params) /\ SpeaksLanguage(kwargs, voice)
  BY <1>1, <1>2 DEF Update, Clones, SpeaksLanguage
<1>4. VoxtralCall(m, voice) = Unguarded(m, kwargs)
  BY DEF VoxtralCall, rest, params
<1> HIDE DEF kwargs
<1>5. VoxtralCall(m, voice).kwargs = kwargs
  BY <1>4, UnguardedOutcome
<1> QED
  BY <1>3, <1>5 DEF Honours, params

\* The other two select a way of naming the voice, and differ in what they do
\* when there is none or when it is rejected.
LEMMA SelectingProvidersHonour ==
  ASSUME NEW m \in Models, NEW voice, m.provider # "voxtral"
  PROVE  Honours(m, voice, ProviderCall(m, voice))
<1> DEFINE params == SignatureParams(m)
           rest == Rest(voice, params)
           clone == CloneVoiceArgs(voice, params)
           named == NamedVoiceArgs(voice, params)
           selection == SelectVoiceArgs(voice, params)
           call == ProviderCall(m, voice)
<1> SUFFICES Honours(m, voice, call)
  OBVIOUS
<1>1. m.provider \in {"mlx_audio", "vllm_omni"}
  BY RequestAssumption
<1>2. call = IF m.provider = "mlx_audio" THEN MlxAudioCall(m, voice) ELSE VllmOmniCall(m, voice)
  BY DEF ProviderCall
<1>3. CASE clone # NoArgs
  <2>1. /\ DOMAIN clone \subseteq params \cap (Audios \cup Transcripts)
        /\ params \cap Audios # {} => Clones(clone, voice, params)
        /\ params \cap Audios = {} => params \cap Transcripts # {}
    BY <1>3, CloneArgs
  <2>2. selection.primary = clone /\ selection.fallback = clone
    BY <1>3 DEF SelectVoiceArgs
  <2>3. call \in {Outcome(m, Update(rest, clone)), Unguarded(m, Update(rest, clone)), Rejected}
    <3> HIDE DEF clone, selection, rest
    <3>1. MlxAudioCall(m, voice) \in
            {Outcome(m, Update(rest, clone)), Unguarded(m, Update(rest, clone)), Rejected}
      BY <2>2 DEF MlxAudioCall, selection, rest
    <3>2. VllmOmniCall(m, voice) \in
            {Outcome(m, Update(rest, clone)), Unguarded(m, Update(rest, clone)), Rejected}
      BY <1>3, <2>2 DEF VllmOmniCall, selection, rest
    <3> QED
      BY <1>2, <3>1, <3>2
  <2>4. call = Rejected \/ call.kwargs = Update(rest, clone)
    BY <2>3, UnguardedOutcome
  <2>5. LET kwargs == Update(rest, clone)
        IN /\ DOMAIN kwargs \ {"text"} \subseteq params /\ SpeaksLanguage(kwargs, voice)
           /\ params \cap Audios # {} => Clones(kwargs, voice, params)
    BY <2>1, CloneCall
  <2> HIDE DEF call, rest, clone
  <2>6. CASE call.kwargs = Update(rest, clone)
    <3>1. "text" \notin Audios
      BY Aliases
    <3>2. CASE params \cap Audios # {}
      BY <2>5, <2>6, <3>2 DEF Honours
    <3>3. CASE params \cap Audios = {}
      <4>1. DOMAIN call.kwargs \cap Audios = {} /\ params \cap Transcripts # {}
        BY <2>1, <2>5, <2>6, <3>1, <3>3
      <4> QED
        BY <2>5, <2>6, <3>3, <4>1 DEF Honours
    <3> QED
      BY <3>2, <3>3
  <2>7. CASE call = Rejected
    BY <2>7, RejectedHonours
  <2> QED
    BY <2>4, <2>6, <2>7
<1>4. CASE clone = NoArgs /\ named # NoArgs
  <2>1. /\ DOMAIN named \subseteq params \cap Names /\ NamesOnly(named, voice)
        /\ params \cap Audios = {}
    BY <1>4, NameArgs, CloneArgs
  <2>2. selection.primary = named /\ selection.fallback = NoArgs
    BY <1>4 DEF SelectVoiceArgs
  <2>3. LET kwargs == Update(rest, named)
        IN /\ DOMAIN kwargs \ {"text"} \subseteq params
           /\ NamesOnly(kwargs, voice) /\ SpeaksLanguage(kwargs, voice)
           /\ Style(kwargs) = "named"
    BY <2>1, NamedCall
  <2>4. \/ call \in {Outcome(m, Update(rest, named)), Rejected}
        \/ /\ m.provider = "vllm_omni" /\ call = Unguarded(m, rest)
           /\ Outcome(m, Update(rest, named)).result = "asserts"
    <3> HIDE DEF clone, named, selection, rest
    <3>1. MlxAudioCall(m, voice) \in {Outcome(m, Update(rest, named)), Rejected}
      BY <2>2 DEF MlxAudioCall, selection, rest
    <3>2. \/ VllmOmniCall(m, voice) \in {Outcome(m, Update(rest, named)), Rejected}
          \/ /\ VllmOmniCall(m, voice) = Unguarded(m, rest)
             /\ Outcome(m, Update(rest, named)).result = "asserts"
      BY <2>2 DEF VllmOmniCall, selection, rest
    <3> QED
      BY <1>1, <1>2, <3>1, <3>2
  <2> HIDE DEF call, rest, named
  <2>5. CASE call = Outcome(m, Update(rest, named))
    <3>1. call.kwargs = Update(rest, named)
      BY <2>5, UnguardedOutcome
    <3> QED
      BY <2>3, <3>1 DEF Honours, NamesOnly
  <2>6. CASE call = Rejected
    BY <2>6, RejectedHonours
  <2>7. CASE /\ m.provider = "vllm_omni" /\ call = Unguarded(m, rest)
             /\ Outcome(m, Update(rest, named)).result = "asserts"
    <3>1. call.kwargs = rest /\ "named" \in m.rejects
      BY <2>3, <2>7, UnguardedOutcome
    <3>2. /\ DOMAIN rest \ {"text"} \subseteq params /\ DOMAIN rest \cap Audios = {}
          /\ SpeaksLanguage(rest, voice)
      BY PlainCall DEF rest
    <3> QED
      BY <2>1, <2>7, <3>1, <3>2 DEF Honours
  <2> QED
    BY <2>4, <2>5, <2>6, <2>7
<1>5. CASE clone = NoArgs /\ named = NoArgs
  <2>1. params \cap Audios = {} /\ params \cap Names = {}
    BY <1>5, NameArgs, CloneArgs
  <2>2. selection.primary = NoArgs /\ ~selection.usedNamed
    BY <1>5 DEF SelectVoiceArgs
  <2>3. Update(rest, NoArgs) = rest
    BY DEF Update, NoArgs, Rest
  <2>4. call = Rejected \/ (m.provider = "vllm_omni" /\ call = Outcome(m, rest))
    <3> HIDE DEF clone, named, selection, rest
    <3>1. MlxAudioCall(m, voice) = Rejected
      BY <2>2 DEF MlxAudioCall, selection, rest
    <3>2. VllmOmniCall(m, voice) \in {Outcome(m, rest), Rejected}
      BY <2>2, <2>3 DEF VllmOmniCall, selection, rest
    <3> QED
      BY <1>1, <1>2, <3>1, <3>2
  <2>5. /\ DOMAIN rest \ {"text"} \subseteq params /\ DOMAIN rest \cap Audios = {}
        /\ SpeaksLanguage(rest, voice)
    BY PlainCall
  <2> HIDE DEF call, rest
  <2>6. CASE call = Rejected
    BY <2>6, RejectedHonours
  <2>7. CASE m.provider = "vllm_omni" /\ call = Outcome(m, rest)
    <3>1. call.kwargs = rest
      BY <2>7, UnguardedOutcome
    <3> QED
      BY <2>1, <2>5, <2>7, <3>1 DEF Honours
  <2> QED
    BY <2>4, <2>6, <2>7
<1> QED
  BY <1>3, <1>4, <1>5

-----------------------------------------------------------------------------
(* The calls of a request *)

\* Every call of a request is made in the same way.
CallsAlike == request \in Requests /\ model \in Models /\ calls \in Seq({Call})

LEMMA CallsAlikeHolds == Spec => []CallsAlike
<1>1. Init => CallsAlike
  BY DEF Init, CallsAlike
<1>2. CallsAlike /\ [Next]_vars => CallsAlike'
  <2> SUFFICES ASSUME CallsAlike, [Next]_vars
               PROVE  CallsAlike'
    OBVIOUS
  <2>1. UNCHANGED <<request, record, model>> /\ calls' \in {calls, Append(calls, Call)}
    <3>1. CASE Receive \/ Refuse \/ Accept \/ Split \/ BreakDown \/ TurnAway \/ Start
      BY <3>1 DEF Receive, Refuse, Accept, Split, BreakDown, TurnAway, Start, given
    <3>2. CASE Speak \/ SpeakStreamed \/ Fail \/ BreakOff \/ Disconnect
      BY <3>2 DEF Speak, SpeakStreamed, Fail, BreakOff, Disconnect, given
    <3>3. CASE Assemble \/ CannotAssemble \/ EndStream
      BY <3>3 DEF Assemble, CannotAssemble, EndStream, given
    <3>4. CASE RenderInside \/ Escape \/ RenderOutside \/ Leave \/ UNCHANGED vars
      BY <3>4 DEF RenderInside, Escape, RenderOutside, Leave, vars, given
    <3> QED
      BY <3>1, <3>2, <3>3, <3>4 DEF Next
  <2>2. Call' = Call
    BY <2>1 DEF Call, VoiceConfig
  <2> QED
    BY <2>1, <2>2 DEF CallsAlike
<1> QED
  BY <1>1, <1>2, PTL DEF Spec

\* The merge of _build_voice_config keeps the voice, and a blank language of
\* the request counts as none.
LEMMA HonouredCall ==
  ASSUME model \in Models, request \in Requests, NEW call, Honours(model, VoiceConfig, call)
  PROVE  LET kwargs == call.kwargs
             params == SignatureParams(model)
             Given(aliases, value) ==
               \E p \in DOMAIN kwargs \cap ToSet(aliases) : kwargs[p] = value
             Takes(aliases) == params \cap ToSet(aliases) # {}
             cloned == Given(RefAudioAliases, VoiceFile)
         IN /\ model.provider # "voxtral" => DOMAIN kwargs \ {"text"} \subseteq params
            /\ call.result = "speaks" =>
                 \/ cloned
                 \/ Given(VoiceNameAliases, record.id)
                 \/ ~Takes(RefAudioAliases) /\ Takes(RefTextAliases)
                 \/ /\ model.provider = "vllm_omni" /\ ~Takes(RefAudioAliases)
                    /\ Takes(VoiceNameAliases) => "named" \in model.rejects
            /\ cloned /\ Takes(RefTextAliases) => Given(RefTextAliases, record.transcript)
            /\ Given(LanguageAliases, Blank) => record.language = Blank
<1>1. /\ VoiceConfig.audio = VoiceFile /\ VoiceConfig.name = record.id
      /\ VoiceConfig.transcript = record.transcript
      /\ VoiceConfig.language = Blank => record.language = Blank
  BY DEF VoiceConfig, Option
<1> QED
  BY <1>1 DEF Honours, Clones, NamesOnly, SpeaksLanguage, Names, Audios, Transcripts, Languages

\* voice_args.py and the providers, for every signature, whatever it declares
\* and whatever it leaves out: the voice that was asked for is the one a model is
\* told to speak with, or nothing is spoken, except from the models that
\* VoiceHonoured names.
THEOREM VoicesHonoured == Spec => []VoiceHonoured
<1>1. CallsAlike => VoiceHonoured
  <2> SUFFICES ASSUME CallsAlike, NEW k \in DOMAIN calls
               PROVE  calls[k] = Call /\ Honours(model, VoiceConfig, Call)
    BY HonouredCall DEF VoiceHonoured, CallsAlike
  <2>1. calls[k] = Call
    BY DEF CallsAlike
  <2>2. Honours(model, VoiceConfig, Call)
    <3>1. CASE model.provider = "voxtral"
      BY <3>1, VoxtralHonours DEF Call, ProviderCall
    <3>2. CASE model.provider # "voxtral"
      BY <3>2, SelectingProvidersHonour DEF Call, CallsAlike
    <3> QED
      BY <3>1, <3>2
  <2> QED
    BY <2>1, <2>2
<1> QED
  BY <1>1, CallsAlikeHolds, PTL

-----------------------------------------------------------------------------
(* " ".join and str.strip                                                  *)

Chars == Nat \X Nat

LEMMA JoinOne ==
  ASSUME NEW s \in Seq(Chars)
  PROVE  Join(<<s>>) = s
<1>1. [i \in DOMAIN <<s>> |-> IF i = 1 THEN <<s>>[i] ELSE <<Space>> \o <<s>>[i]] = <<s>>
  OBVIOUS
<1> QED
  BY <1>1, FlattenOne DEF Join

LEMMA JoinAppend ==
  ASSUME NEW strings \in Seq(Seq(Chars)), strings # << >>, NEW s \in Seq(Chars)
  PROVE  /\ Join(strings) \in Seq(Chars)
         /\ Join(Append(strings, s)) = (Join(strings) \o <<Space>>) \o s
<1> DEFINE Blanked(ss) == [i \in DOMAIN ss |-> IF i = 1 THEN ss[i] ELSE <<Space>> \o ss[i]]
           t == <<Space>> \o s
<1>1. Space \in Chars
  BY DEF Space, Chars
<1>2. t \in Seq(Chars)
  BY <1>1
<1>3. Blanked(strings) \in Seq(Seq(Chars)) /\ Blanked(strings) # << >>
      /\ Len(Blanked(strings)) = Len(strings)
  <2>1. /\ Len(strings) \in Nat /\ Len(strings) > 0 /\ DOMAIN strings = 1..Len(strings)
        /\ \A i \in 1..Len(strings) : strings[i] \in Seq(Chars)
    OBVIOUS
  <2>2. \A i \in 1..Len(strings) :
          (IF i = 1 THEN strings[i] ELSE <<Space>> \o strings[i]) \in Seq(Chars)
    BY <1>1, <2>1
  <2>3. Blanked(strings) =
          [i \in 1..Len(strings) |-> IF i = 1 THEN strings[i] ELSE <<Space>> \o strings[i]]
    BY <2>1
  <2> HIDE DEF Blanked
  <2>4. Blanked(strings) \in Seq(Seq(Chars)) /\ Len(Blanked(strings)) = Len(strings)
    BY <2>1, <2>2, <2>3
  <2> QED
    BY <2>1, <2>4
<1>4. Blanked(Append(strings, s)) = Append(Blanked(strings), t)
  <2> DEFINE a == Blanked(Append(strings, s))
             b == Append(Blanked(strings), t)
  <2>1. DOMAIN a = 1..(Len(strings) + 1) /\ DOMAIN b = 1..(Len(strings) + 1)
    BY <1>2, <1>3
  <2>2. ASSUME NEW i \in 1..(Len(strings) + 1)
        PROVE  a[i] = b[i]
    <3>1. CASE i <= Len(strings)
      BY <1>3, <3>1
    <3>2. CASE i = Len(strings) + 1
      <4>1. i # 1 /\ a[i] = <<Space>> \o s
        BY <3>2
      <4>2. b[i] = t
        BY <1>2, <1>3, <3>2
      <4> QED
        BY <4>1, <4>2
    <3> QED
      BY <3>1, <3>2
  <2>3. a = [i \in DOMAIN a |-> a[i]] /\ b = [i \in DOMAIN b |-> b[i]]
    BY <1>2, <1>3
  <2> QED
    BY <2>1, <2>2, <2>3
<1> HIDE DEF Blanked
<1>5. /\ FlattenSeq(Append(Blanked(strings), t)) = FlattenSeq(Blanked(strings)) \o t
      /\ FlattenSeq(Blanked(strings)) \in Seq(Chars)
  BY <1>2, <1>3, FlattenAppend
<1>6. Join(strings) = FlattenSeq(Blanked(strings))
      /\ Join(Append(strings, s)) = FlattenSeq(Blanked(Append(strings, s)))
  BY DEF Join, Blanked
<1>7. Join(strings) \o t = (Join(strings) \o <<Space>>) \o s
  BY <1>1, <1>5, <1>6
<1> QED
  BY <1>4, <1>5, <1>6, <1>7

\* Stripping takes a stretch out of a string that has all of its letters.
LEMMA StripStretch ==
  ASSUME NEW s \in Seq(Chars)
  PROVE  /\ Strip(s) \in Seq(Chars) /\ Len(Strip(s)) <= Len(s)
         /\ ToSet(Strip(s)) \ {Space} = ToSet(s) \ {Space}
         /\ \E a \in 0..Len(s) : \A p \in DOMAIN Strip(s) :
              a + p \in DOMAIN s /\ Strip(s)[p] = s[a + p]
<1> DEFINE letters == {j \in DOMAIN s : s[j] # Space}
           first == CHOOSE j \in letters : \A k \in letters : j <= k
           last == CHOOSE j \in letters : \A k \in letters : k <= j
<1>1. CASE letters = {}
  <2>1. Strip(s) = << >>
    BY <1>1 DEF Strip
  <2>2. ToSet(s) \ {Space} = {} /\ ToSet(<< >>) = {}
    BY <1>1 DEF ToSet
  <2> QED
    BY <2>1, <2>2
<1>2. CASE letters # {}
  <2>1. first \in letters /\ \A k \in letters : first <= k
    <3>1. letters \subseteq Nat
      OBVIOUS
    <3> HIDE DEF letters
    <3>2. \E j \in letters : \A k \in letters : j <= k
      BY <1>2, <3>1, LeastNat
    <3> QED
      BY <3>2
  <2>2. last \in letters /\ \A k \in letters : k <= last
    <3> DEFINE behind == {Len(s) - j : j \in letters}
    <3>1. behind \subseteq Nat /\ behind # {}
      BY <1>2
    <3>2. PICK d \in behind : \A e \in behind : d <= e
      <4> HIDE DEF behind
      <4> QED
        BY <3>1, LeastNat
    <3>3. PICK j \in letters : d = Len(s) - j
      BY <3>2
    <3>4. ASSUME NEW k \in letters
          PROVE  k <= j
      <4>1. Len(s) - k \in behind /\ j \in Nat /\ k \in Nat /\ Len(s) \in Nat
        OBVIOUS
      <4>2. d <= Len(s) - k
        BY <3>2, <4>1
      <4> QED
        BY <3>3, <4>1, <4>2
    <3> HIDE DEF letters, behind
    <3>5. \E i \in letters : \A k \in letters : k <= i
      BY <3>4
    <3> QED
      BY <3>5
  <2> HIDE DEF first, last
  <2>3. 1 <= first /\ first <= last /\ last <= Len(s) /\ first \in Nat /\ last \in Nat
    BY <2>1, <2>2
  <2>4. Strip(s) = SubSeq(s, first, last)
    BY <1>2 DEF Strip, first, last
  <2>5. /\ SubSeq(s, first, last) \in Seq(Chars)
        /\ Len(SubSeq(s, first, last)) = last - first + 1
        /\ \A p \in 1..(last - first + 1) : SubSeq(s, first, last)[p] = s[(first - 1) + p]
    BY <2>3
  <2>6. ASSUME NEW j \in letters
        PROVE  s[j] \in ToSet(Strip(s))
    <3>1. j - (first - 1) \in 1..(last - first + 1) /\ (first - 1) + (j - (first - 1)) = j
      BY <2>1, <2>2, <2>3
    <3>2. Strip(s)[j - (first - 1)] = s[j]
      BY <2>4, <2>5, <3>1
    <3> QED
      BY <2>3, <2>4, <2>5, <3>1, <3>2 DEF ToSet
  <2>7. \A p \in DOMAIN Strip(s) : (first - 1) + p \in DOMAIN s /\ Strip(s)[p] = s[(first - 1) + p]
    BY <2>3, <2>4, <2>5
  <2>8. ToSet(Strip(s)) \subseteq ToSet(s)
    BY <2>7 DEF ToSet
  <2>9. \A c \in ToSet(s) \ {Space} : c \in ToSet(Strip(s))
    BY <2>6 DEF ToSet
  <2>10. first - 1 \in 0..Len(s) /\ Len(Strip(s)) <= Len(s)
    BY <2>3, <2>4, <2>5
  <2> HIDE DEF letters
  <2> QED
    BY <2>4, <2>5, <2>7, <2>8, <2>9, <2>10
<1> QED
  BY <1>1, <1>2

\* Nothing is stripped off a string that begins and ends with a letter.
LEMMA StripNothing ==
  ASSUME NEW s \in Seq(Chars), s # << >>, s[1] # Space, s[Len(s)] # Space
  PROVE  Strip(s) = s
<1> DEFINE letters == {j \in DOMAIN s : s[j] # Space}
           first == CHOOSE j \in letters : \A k \in letters : j <= k
           last == CHOOSE j \in letters : \A k \in letters : k <= j
<1>1. 1 \in letters /\ Len(s) \in letters
  OBVIOUS
<1>2. \A k \in letters : k \in Nat /\ 1 <= k /\ k <= Len(s)
  OBVIOUS
<1>3. first = 1 /\ last = Len(s)
  <2> HIDE DEF letters
  <2>1. first \in letters /\ \A k \in letters : first <= k
    BY <1>1, <1>2
  <2>2. last \in letters /\ \A k \in letters : k <= last
    BY <1>1, <1>2
  <2> HIDE DEF first, last
  <2> QED
    BY <1>1, <1>2, <2>1, <2>2
<1>4. Strip(s) = SubSeq(s, 1, Len(s))
  BY <1>1, <1>3 DEF Strip
<1> QED
  BY <1>4

-----------------------------------------------------------------------------
(* Strings of letters in order                                             *)

LettersOf(s) == ToSet(s) \ {Space}
Increasing(s) ==
  \A p, q \in DOMAIN s : p < q /\ Space \notin {s[p], s[q]} => Earlier(s[p], s[q])
AllEarlier(A, B) == \A c \in A, d \in B : Earlier(c, d)

LEMMA InOrderAppend ==
  ASSUME NEW strings \in Seq(Seq(Chars)), InOrder(strings), NEW s \in Seq(Chars), Increasing(s),
         AllEarlier(Letters(strings), LettersOf(s))
  PROVE  /\ InOrder(Append(strings, s))
         /\ Letters(Append(strings, s)) = Letters(strings) \cup LettersOf(s)
<1> DEFINE more == Append(strings, s)
           n == Len(strings)
<1>1. /\ n \in Nat /\ DOMAIN strings = 1..n /\ DOMAIN more = 1..(n + 1)
      /\ \A k \in 1..n : more[k] = strings[k] /\ strings[k] \in Seq(Chars)
      /\ more[n + 1] = s
  OBVIOUS
<1> HIDE DEF more, n
<1>2. Letters(more) = Letters(strings) \cup LettersOf(s)
  <2>1. \A k \in 1..n : ToSet(more[k]) = ToSet(strings[k])
    BY <1>1
  <2>2. UNION {ToSet(more[k]) : k \in 1..(n + 1)} =
          (UNION {ToSet(strings[k]) : k \in 1..n}) \cup ToSet(s)
    <3>1. 1..(n + 1) = (1..n) \cup {n + 1}
      BY <1>1
    <3> QED
      BY <1>1, <2>1, <3>1
  <2> QED
    BY <1>1, <2>2 DEF Letters, LettersOf
<1>3. ASSUME NEW k \in 1..(n + 1), NEW l \in 1..(n + 1),
             NEW p \in DOMAIN more[k], NEW q \in DOMAIN more[l],
             Earlier(<<k, p>>, <<l, q>>), more[k][p] # Space, more[l][q] # Space
      PROVE  Earlier(more[k][p], more[l][q])
  <2>0. k < l \/ (k = l /\ p < q)
    BY <1>3 DEF Earlier
  <2>1. CASE l \in 1..n
    <3>1. k \in 1..n
      BY <1>1, <2>0, <2>1
    <3> QED
      BY <1>1, <1>3, <2>1, <3>1 DEF InOrder
  <2>2. CASE l = n + 1 /\ k = n + 1
    BY <1>1, <1>3, <2>0, <2>2 DEF Increasing
  <2>3. CASE l = n + 1 /\ k \in 1..n
    <3>1. more[k][p] \in Letters(strings) /\ more[l][q] \in LettersOf(s)
      BY <1>1, <1>3, <2>3 DEF Letters, LettersOf, ToSet
    <3> QED
      BY <3>1 DEF AllEarlier
  <2>4. k \in 1..n \/ k = n + 1
    BY <1>1
  <2>5. l \in 1..n \/ l = n + 1
    BY <1>1
  <2> QED
    BY <2>1, <2>2, <2>3, <2>4, <2>5
<1>4. InOrder(more)
  BY <1>1, <1>3 DEF InOrder
<1> QED
  BY <1>2, <1>4 DEF more

LEMMA JoinedInOrder ==
  ASSUME NEW s \in Seq(Chars), s # << >>, NEW t \in Seq(Chars), t # << >>,
         Increasing(s), Increasing(t), AllEarlier(LettersOf(s), LettersOf(t))
  PROVE  LET joined == (s \o <<Space>>) \o t
         IN /\ joined \in Seq(Chars) /\ joined # << >> /\ Len(joined) = Len(s) + 1 + Len(t)
            /\ Increasing(joined)
            /\ ToSet(joined) = (ToSet(s) \cup {Space}) \cup ToSet(t)
            /\ joined[1] = s[1] /\ joined[Len(joined)] = t[Len(t)]
<1> DEFINE joined == (s \o <<Space>>) \o t
           m == Len(s)
           n == Len(t)
<1>1. /\ joined \in Seq(Chars) /\ m \in Nat \ {0} /\ n \in Nat \ {0}
      /\ DOMAIN s = 1..m /\ DOMAIN t = 1..n
      /\ Len(joined) = m + 1 + n /\ DOMAIN joined = 1..(m + 1 + n)
      /\ \A p \in 1..m : joined[p] = s[p]
      /\ joined[m + 1] = Space
      /\ \A p \in (m + 2)..(m + 1 + n) : joined[p] = t[p - (m + 1)] /\ p - (m + 1) \in 1..n
  BY DEF Space, Chars
<1> HIDE DEF joined, m, n
<1>2. \A p \in 1..(m + 1 + n) : p \in 1..m \/ p = m + 1 \/ p \in (m + 2)..(m + 1 + n)
  BY <1>1
<1>3. ASSUME NEW p \in 1..(m + 1 + n), NEW q \in 1..(m + 1 + n), p < q,
             joined[p] # Space, joined[q] # Space
      PROVE  Earlier(joined[p], joined[q])
  <2>1. CASE q \in 1..m
    <3>1. p \in 1..m
      BY <1>1, <1>3, <2>1
    <3> QED
      BY <1>1, <1>3, <2>1, <3>1 DEF Increasing
  <2>2. CASE p \in (m + 2)..(m + 1 + n)
    <3>1. q \in (m + 2)..(m + 1 + n) /\ p - (m + 1) < q - (m + 1)
      BY <1>1, <1>3, <2>2
    <3> QED
      BY <1>1, <1>3, <2>2, <3>1 DEF Increasing
  <2>3. CASE p \in 1..m /\ q \in (m + 2)..(m + 1 + n)
    <3>1. joined[p] \in LettersOf(s) /\ joined[q] \in LettersOf(t)
      BY <1>1, <1>3, <2>3 DEF LettersOf, ToSet
    <3> QED
      BY <3>1 DEF AllEarlier
  <2> QED
    BY <1>1, <1>2, <1>3, <2>1, <2>2, <2>3
<1>4. Increasing(joined)
  BY <1>1, <1>3 DEF Increasing
<1>5. ToSet(joined) = (ToSet(s) \cup {Space}) \cup ToSet(t)
  <2>1. ASSUME NEW c \in ToSet(joined) PROVE c \in (ToSet(s) \cup {Space}) \cup ToSet(t)
    BY <1>1, <1>2 DEF ToSet
  <2>2. ToSet(s) \cup {Space} \subseteq ToSet(joined)
    <3>1. \A p \in 1..(m + 1) : joined[p] \in ToSet(joined)
      BY <1>1 DEF ToSet
    <3>2. m + 1 \in 1..(m + 1) /\ \A p \in 1..m : p \in 1..(m + 1)
      BY <1>1
    <3> QED
      BY <1>1, <3>1, <3>2 DEF ToSet
  <2>3. ToSet(t) \subseteq ToSet(joined)
    <3>1. ASSUME NEW i \in 1..n PROVE t[i] \in ToSet(joined)
      <4>1. i + (m + 1) \in (m + 2)..(m + 1 + n) /\ (i + (m + 1)) - (m + 1) = i
            /\ i + (m + 1) \in 1..(m + 1 + n)
        BY <1>1
      <4>2. joined[i + (m + 1)] = t[i]
        BY <1>1, <4>1
      <4> QED
        BY <1>1, <4>1, <4>2 DEF ToSet
    <3> QED
      BY <1>1, <3>1 DEF ToSet
  <2> QED
    BY <2>1, <2>2, <2>3
<1>6. joined[1] = s[1] /\ joined[Len(joined)] = t[n] /\ joined # << >>
  <2>1. 1 \in 1..m /\ m + 1 + n \in (m + 2)..(m + 1 + n) /\ (m + 1 + n) - (m + 1) = n
    BY <1>1
  <2> QED
    BY <1>1, <2>1
<1> QED
  BY <1>1, <1>4, <1>5, <1>6 DEF joined, m, n

-----------------------------------------------------------------------------
(* The state of the loop                                                   *)

\* Each letter says where it is in the text; sentences have been stripped.
TextGiven ==
  /\ text \in Seq(Seq(Chars))
  /\ \A i \in DOMAIN text :
       /\ text[i] # << >> /\ text[i][1] # Space /\ text[i][Len(text[i])] # Space
       /\ \A j \in DOMAIN text[i] : text[i][j] \in {<<i, j>>, Space}
  /\ limit \in Nat \ {0} /\ group \in Nat

\* The letters up to a place.
Before(i, j) == {c \in Letters(text) : Earlier(c, <<i, j>>)}
Of(a, b) == {c \in Letters(text) : c[1] \in a..b}

\* What is gathered are the sentences before n, which fit into a chunk.
Gathered(strings, n) ==
  LET first == n - Len(strings)
      joined == Join(strings)
  IN /\ strings \in Seq(Seq(Chars)) /\ Len(strings) < n
     /\ Len(strings) <= 1 \/ Len(strings) <= group
     /\ joined \in Seq(Chars) /\ Len(joined) <= limit /\ Increasing(joined)
     /\ LettersOf(joined) = Of(first, n - 1)
     /\ \A i \in first..(n - 1) : Len(text[i]) <= limit /\ ToSet(text[i]) \subseteq ToSet(joined)
     /\ IF strings = << >> THEN joined = << >>
        ELSE joined # << >> /\ joined[1] # Space /\ joined[Len(joined)] # Space

\* A chunk is of one long sentence or of whole sentences in a row.
Sized(chunk) ==
  /\ Len(chunk) \in 1..limit
  /\ \/ \E i \in DOMAIN text : Len(text[i]) > limit /\ \A c \in LettersOf(chunk) : c[1] = i
     \/ \E a, b \in DOMAIN text :
          /\ a <= b /\ (b - a + 1 <= 1 \/ b - a + 1 <= group)
          /\ LettersOf(chunk) \subseteq Of(a, b)
          /\ \A i \in a..b : ToSet(text[i]) \subseteq ToSet(chunk)

\* Chunks that have all of the text before a place.
Spoken(strings, i, j) ==
  /\ strings \in Seq(Seq(Chars))
  /\ InOrder(strings) /\ Letters(strings) = Before(i, j)
  /\ \A k \in DOMAIN strings : Sized(strings[k])

SplitInv ==
  /\ TextGiven
  /\ next \in 1..(Len(text) + 1) /\ cut \in Nat /\ returned \in BOOLEAN
  /\ cut > 0 => next <= Len(text) /\ cut < Len(text[next]) /\ limit < Len(text[next])
                /\ current = << >> /\ ~returned
  /\ IF returned THEN next = Len(text) + 1 /\ Spoken(chunks, next, 1)
     ELSE Gathered(current, next) /\ Spoken(chunks, next - Len(current), cut + 1)

-----------------------------------------------------------------------------
LEMMA TextLetters ==
  ASSUME TextGiven
  PROVE  \A c : c \in Letters(text) <=>
           \E i \in DOMAIN text : \E j \in DOMAIN text[i] : text[i][j] = c /\ c = <<i, j>>
<1>1. ASSUME NEW i \in DOMAIN text, NEW j \in DOMAIN text[i]
      PROVE  /\ <<i, j>> # Space /\ i \in Nat /\ j \in Nat
             /\ text[i][j] # Space => text[i][j] = <<i, j>>
  <2>1. i \in Nat \ {0} /\ text[i] \in Seq(Chars) /\ j \in Nat
    BY DEF TextGiven
  <2> QED
    BY <2>1 DEF TextGiven, Space
<1> QED
  BY <1>1 DEF Letters, ToSet

LEMMA OneSentence ==
  ASSUME TextGiven, NEW i \in DOMAIN text
  PROVE  /\ text[i] \in Seq(Chars) /\ Len(text[i]) \in Nat \ {0}
         /\ Increasing(text[i]) /\ LettersOf(text[i]) = Of(i, i)
<1>1. i \in Nat /\ text[i] \in Seq(Chars) /\ text[i] # << >>
  BY DEF TextGiven
<1>2. \A j \in DOMAIN text[i] : text[i][j] \in {<<i, j>>, Space}
  BY DEF TextGiven
<1>3. Increasing(text[i])
  BY <1>1, <1>2 DEF Increasing, Earlier
<1>4. ASSUME NEW c
      PROVE  c \in LettersOf(text[i]) <=> c \in Of(i, i)
  <2>1. c \in LettersOf(text[i]) => c \in Letters(text) /\ c[1] = i
    BY <1>2 DEF LettersOf, Letters, ToSet
  <2>2. c \in Letters(text) /\ c[1] = i => c \in LettersOf(text[i])
    BY TextLetters DEF LettersOf, Letters, ToSet
  <2>3. c \in Of(i, i) <=> c \in Letters(text) /\ c[1] = i
    BY <1>1 DEF Of
  <2> QED
    BY <2>1, <2>2, <2>3
<1> QED
  BY <1>1, <1>3, <1>4

\* The places of two letters, and what is before the next sentence.
LEMMA Places ==
  ASSUME TextGiven
  PROVE  /\ \A c \in Letters(text) :
              c[1] \in 1..Len(text) /\ c[2] \in Nat \ {0} /\ c = <<c[1], c[2]>>
         /\ \A a \in Nat, n \in Nat : a <= n => Before(a, 1) \cup Of(a, n - 1) = Before(n, 1)
         /\ \A a \in Nat, n \in Nat : AllEarlier(Before(a, 1), Of(a, n))
<1>1. \A c \in Letters(text) : c[1] \in 1..Len(text) /\ c[2] \in Nat \ {0} /\ c = <<c[1], c[2]>>
  <2> SUFFICES ASSUME NEW c \in Letters(text)
               PROVE  c[1] \in 1..Len(text) /\ c[2] \in Nat \ {0} /\ c = <<c[1], c[2]>>
    OBVIOUS
  <2>1. PICK i \in DOMAIN text : \E j \in DOMAIN text[i] : c = <<i, j>>
    BY TextLetters
  <2>2. PICK j \in DOMAIN text[i] : c = <<i, j>>
    BY <2>1
  <2>3. text[i] \in Seq(Chars) /\ DOMAIN text = 1..Len(text)
    BY DEF TextGiven
  <2>4. i \in 1..Len(text) /\ j \in Nat \ {0}
    BY <2>3
  <2> QED
    BY <2>2, <2>4
<1>2. ASSUME NEW a \in Nat, NEW n \in Nat, a <= n
      PROVE  Before(a, 1) \cup Of(a, n - 1) = Before(n, 1)
  <2>1. ASSUME NEW c \in Letters(text)
        PROVE  Earlier(c, <<n, 1>>) <=> Earlier(c, <<a, 1>>) \/ c[1] \in a..(n - 1)
    <3>1. c[1] \in Nat /\ c[2] \in Nat \ {0}
      BY <1>1
    <3> QED
      BY <1>2, <3>1 DEF Earlier
  <2> QED
    BY <2>1 DEF Before, Of
<1>3. ASSUME NEW a \in Nat, NEW n \in Nat, NEW c \in Before(a, 1), NEW d \in Of(a, n)
      PROVE  Earlier(c, d)
  <2>1. c \in Letters(text) /\ d \in Letters(text) /\ Earlier(c, <<a, 1>>) /\ d[1] \in a..n
    BY DEF Before, Of
  <2>2. c[1] \in Nat /\ c[2] \in Nat \ {0} /\ d[1] \in Nat
    BY <1>1, <2>1
  <2> QED
    BY <2>1, <2>2 DEF Earlier
<1> QED
  BY <1>1, <1>2, <1>3 DEF AllEarlier
-----------------------------------------------------------------------------
(* The steps of the loop                                                   *)

LEMMA EmptyJoin == Join(<< >>) = << >>
<1>1. [i \in DOMAIN << >> |-> IF i = 1 THEN << >>[i] ELSE <<Space>> \o << >>[i]] = << >>
  OBVIOUS
<1> QED
  BY <1>1 DEF Join, FlattenSeq

LEMMA NothingGathered ==
  ASSUME TextGiven, NEW n \in Nat \ {0}
  PROVE  Gathered(<< >>, n)
<1>1. /\ limit \in Nat /\ Len(<< >>) = 0 /\ << >> \in Seq(Seq(Chars)) /\ << >> \in Seq(Chars)
      /\ n - Len(<< >>) = n /\ Len(<< >>) < n /\ Len(<< >>) <= limit
  BY DEF TextGiven
<1>2. \A i \in n..(n - 1) : FALSE
  OBVIOUS
<1>3. Increasing(<< >>) /\ LettersOf(<< >>) = {} /\ Of(n, n - 1) = {}
  <2>1. Of(n, n - 1) = {}
    BY <1>2 DEF Of
  <2> QED
    BY <2>1 DEF Increasing, LettersOf, ToSet
<1>4. Join(<< >>) = << >>
  BY EmptyJoin
<1>5. \A i \in (n - Len(<< >>))..(n - 1) : FALSE
  BY <1>1, <1>2
<1>6. LettersOf(Join(<< >>)) = Of(n - Len(<< >>), n - 1)
  BY <1>1, <1>3, <1>4
<1>7. Join(<< >>) \in Seq(Chars) /\ Len(Join(<< >>)) <= limit /\ Increasing(Join(<< >>))
  BY <1>1, <1>3, <1>4
<1> QED
  BY <1>1, <1>4, <1>5, <1>6, <1>7 DEF Gathered

LEMMA AppendSpoken ==
  ASSUME NEW strings, NEW i, NEW j, Spoken(strings, i, j),
         NEW s \in Seq(Chars), Increasing(s), Sized(s), AllEarlier(Before(i, j), LettersOf(s)),
         NEW k, NEW l, Before(k, l) = Before(i, j) \cup LettersOf(s)
  PROVE  Spoken(Append(strings, s), k, l)
<1>1. strings \in Seq(Seq(Chars)) /\ InOrder(strings) /\ Letters(strings) = Before(i, j)
  BY DEF Spoken
<1>2. InOrder(Append(strings, s)) /\ Letters(Append(strings, s)) = Before(k, l)
  BY <1>1, InOrderAppend
<1>3. Append(strings, s) \in Seq(Seq(Chars))
  BY <1>1
<1>4. \A n \in DOMAIN Append(strings, s) : Sized(Append(strings, s)[n])
  <2>1. \A n \in DOMAIN Append(strings, s) :
          (n \in DOMAIN strings /\ Append(strings, s)[n] = strings[n]) \/ Append(strings, s)[n] = s
    BY <1>1
  <2> QED
    BY <2>1 DEF Spoken
<1> QED
  BY <1>2, <1>3, <1>4 DEF Spoken

\* What was gathered becomes a chunk.
LEMMA FlushedSpoken ==
  ASSUME SplitInv, ~returned
  PROVE  Spoken(Flushed, next, cut + 1)
<1>1. /\ TextGiven /\ next \in 1..(Len(text) + 1) /\ Len(text) \in Nat /\ cut \in Nat
      /\ Gathered(current, next) /\ Spoken(chunks, next - Len(current), cut + 1)
  BY DEF SplitInv, TextGiven
<1>2. CASE current = << >>
  BY <1>1, <1>2 DEF Flushed
<1>3. CASE current # << >>
  <2> DEFINE first == next - Len(current)
             s == Join(current)
  <2>1. cut = 0
    BY <1>1, <1>3 DEF SplitInv
  <2>2. /\ current \in Seq(Seq(Chars)) /\ Len(current) \in Nat \ {0} /\ Len(current) < next
        /\ Len(current) <= 1 \/ Len(current) <= group
    BY <1>1, <1>3 DEF Gathered
  <2>3. /\ s \in Seq(Chars) /\ Len(s) <= limit /\ Increasing(s)
        /\ LettersOf(s) = Of(first, next - 1)
        /\ \A i \in first..(next - 1) : ToSet(text[i]) \subseteq ToSet(s)
        /\ s # << >> /\ s[1] # Space /\ s[Len(s)] # Space
    BY <1>1, <1>3 DEF Gathered
  <2> HIDE DEF s
  <2>4. Strip(s) = s
    BY <2>3, StripNothing
  <2>5. first \in Nat /\ first <= next /\ next \in Nat /\ next - 1 \in Nat
        /\ first \in DOMAIN text /\ next - 1 \in DOMAIN text /\ first <= next - 1
        /\ (next - 1) - first + 1 = Len(current)
    BY <1>1, <2>2 DEF TextGiven
  <2> HIDE DEF first
  <2>6. /\ AllEarlier(Before(first, 1), LettersOf(s))
        /\ Before(next, 1) = Before(first, 1) \cup LettersOf(s)
    BY <1>1, <2>3, <2>5, Places
  <2>7. Sized(s)
    <3>1. Len(s) \in 1..limit
      BY <1>1, <2>3 DEF TextGiven
    <3> QED
      BY <2>2, <2>3, <2>5, <3>1 DEF Sized
  <2>8. Spoken(chunks, first, 1)
    BY <1>1, <2>1 DEF first
  <2>9. Spoken(Append(chunks, s), next, 1)
    BY <2>3, <2>6, <2>7, <2>8, AppendSpoken
  <2> QED
    BY <1>3, <2>1, <2>4, <2>9 DEF Flushed, s
<1> QED
  BY <1>2, <1>3

\* The loop's state after a step, with the arguments as they were.
LEMMA AfterStep ==
  ASSUME TextGiven, UNCHANGED <<text, limit, group>>, next' \in 1..(Len(text) + 1), cut' \in Nat,
         returned' \in BOOLEAN,
         cut' > 0 => next' <= Len(text) /\ cut' < Len(text[next']) /\ limit < Len(text[next'])
                     /\ current' = << >> /\ ~returned',
         IF returned' THEN next' = Len(text) + 1 /\ Spoken(chunks', next', 1)
         ELSE Gathered(current', next') /\ Spoken(chunks', next' - Len(current'), cut' + 1)
  PROVE  SplitInv'
<1>1. TextGiven'
  BY DEF TextGiven
<1>2. \A a, b : Of(a, b)' = Of(a, b) /\ Before(a, b)' = Before(a, b)
  BY DEF Of, Before, Letters
<1>3. \A s : Sized(s)' <=> Sized(s)
  BY <1>2 DEF Sized
<1>4. ASSUME NEW s, NEW i, NEW j
      PROVE  Spoken(s, i, j)' <=> Spoken(s, i, j)
  BY <1>2, <1>3 DEF Spoken
<1>5. ASSUME NEW s, NEW n
      PROVE  Gathered(s, n)' <=> Gathered(s, n)
  BY <1>2 DEF Gathered
<1>6. /\ Spoken(chunks', next', 1) => Spoken(chunks, next, 1)'
      /\ Gathered(current', next') => Gathered(current, next)'
      /\ Spoken(chunks', next' - Len(current'), cut' + 1)
           => Spoken(chunks, next - Len(current), cut + 1)'
  BY <1>4, <1>5
<1> QED
  BY <1>1, <1>6 DEF SplitInv
\* What is cut off a long sentence, and what is then left of it.
LEMMA PieceCut ==
  ASSUME TextGiven, next \in DOMAIN text, cut \in Nat, cut < Len(text[next]),
         limit < Len(text[next])
  PROVE  LET end == IF LastCut THEN Len(text[next]) ELSE cut + limit
         IN /\ end \in Nat /\ cut < end /\ end <= Len(text[next])
            /\ Piece \in Seq(Chars) /\ Increasing(Piece)
            /\ LettersOf(Piece) = {c \in Letters(text) : c[1] = next /\ c[2] \in (cut + 1)..end}
            /\ Piece # << >> => Sized(Piece)
<1> DEFINE line == text[next]
           end == IF LastCut THEN Len(line) ELSE cut + limit
           slice == SubSeq(line, cut + 1, end)
<1>1. /\ line \in Seq(Chars) /\ Len(line) \in Nat /\ Increasing(line)
      /\ LettersOf(line) = Of(next, next)
      /\ limit \in Nat \ {0} /\ next \in Nat
      /\ \A j \in DOMAIN line : line[j] \in {<<next, j>>, Space}
  BY OneSentence DEF TextGiven
<1>2. end \in Nat /\ cut < end /\ end <= Len(line) /\ end - cut <= limit
  BY <1>1 DEF LastCut
<1> HIDE DEF line, end
<1>3. /\ slice \in Seq(Chars) /\ Len(slice) = end - cut
      /\ \A p \in 1..(end - cut) : slice[p] = line[cut + p] /\ cut + p \in 1..Len(line)
  <2>1. \A p \in 1..(end - cut) : cut + 1 + p - 1 = cut + p /\ cut + p \in 1..Len(line)
    BY <1>1, <1>2
  <2> QED
    BY <1>1, <1>2, <2>1
<1>4. ASSUME NEW c
      PROVE  c \in ToSet(slice) \ {Space} <=>
               c \in Letters(text) /\ c[1] = next /\ c[2] \in (cut + 1)..end
  <2>1. ASSUME c \in ToSet(slice) \ {Space}
        PROVE  c \in Letters(text) /\ c[1] = next /\ c[2] \in (cut + 1)..end
    <3>1. PICK p \in 1..(end - cut) : slice[p] = c
      BY <1>2, <1>3, <2>1 DEF ToSet
    <3>2. line[cut + p] = c /\ cut + p \in 1..Len(line) /\ cut + p \in (cut + 1)..end
      BY <1>2, <1>3, <3>1
    <3>3. c = <<next, cut + p>>
      BY <1>1, <2>1, <3>2
    <3>4. c \in LettersOf(line)
      BY <1>1, <2>1, <3>2 DEF LettersOf, ToSet
    <3>5. c \in Letters(text)
      BY <1>1, <3>4 DEF Of
    <3> QED
      BY <3>2, <3>3, <3>5
  <2>2. ASSUME c \in Letters(text), c[1] = next, c[2] \in (cut + 1)..end
        PROVE  c \in ToSet(slice) \ {Space}
    <3>1. PICK i \in DOMAIN text : \E j \in DOMAIN text[i] : text[i][j] = c /\ c = <<i, j>>
      BY <2>2, TextLetters
    <3>2. c[2] \in DOMAIN line /\ line[c[2]] = c
      BY <2>2, <3>1 DEF line
    <3>3. c[2] - cut \in 1..(end - cut) /\ cut + (c[2] - cut) = c[2]
      BY <1>2, <2>2
    <3>4. slice[c[2] - cut] = c
      BY <1>3, <3>2, <3>3
    <3>5. c # Space
      BY <2>2 DEF Letters
    <3> QED
      BY <1>2, <1>3, <3>3, <3>4, <3>5 DEF ToSet
  <2> QED
    BY <2>1, <2>2
<1>5. Piece = Strip(slice)
  BY DEF Piece, line, end
<1> HIDE DEF slice
<1>6. /\ Piece \in Seq(Chars) /\ Len(Piece) <= limit
      /\ LettersOf(Piece) = ToSet(slice) \ {Space}
  <2>1. Len(slice) \in Nat /\ Len(Strip(slice)) <= Len(slice) /\ Strip(slice) \in Seq(Chars)
    BY <1>3, StripStretch
  <2> QED
    BY <1>1, <1>2, <1>3, <1>5, <2>1, StripStretch DEF LettersOf
<1>7. Increasing(Piece)
  <2>1. PICK a \in 0..Len(slice) : \A p \in DOMAIN Piece :
          a + p \in DOMAIN slice /\ Piece[p] = slice[a + p]
    BY <1>3, <1>5, StripStretch
  <2>2. ASSUME NEW p \in DOMAIN Piece, NEW q \in DOMAIN Piece, p < q,
               Piece[p] # Space, Piece[q] # Space
        PROVE  Earlier(Piece[p], Piece[q])
    <3>1. p \in Nat /\ q \in Nat /\ a \in Nat
      BY <1>6, <2>1
    <3>2. a + p \in DOMAIN slice /\ a + q \in DOMAIN slice
          /\ Piece[p] = slice[a + p] /\ Piece[q] = slice[a + q]
      BY <2>1
    <3>3. DOMAIN slice = 1..(end - cut)
      BY <1>3
    <3>4. /\ cut + (a + p) \in 1..Len(line) /\ cut + (a + q) \in 1..Len(line)
          /\ slice[a + p] = line[cut + (a + p)] /\ slice[a + q] = line[cut + (a + q)]
      BY <1>3, <3>2, <3>3
    <3>5. cut + (a + p) < cut + (a + q) /\ DOMAIN line = 1..Len(line)
      BY <1>1, <2>2, <3>1
    <3> QED
      BY <1>1, <2>2, <3>2, <3>4, <3>5 DEF Increasing
  <2> QED
    BY <2>2 DEF Increasing
<1>8. ASSUME Piece # << >>
      PROVE  Sized(Piece)
  <2>1. Len(Piece) \in 1..limit
    BY <1>1, <1>6, <1>8
  <2>2. \A c \in LettersOf(Piece) : c[1] = next
    BY <1>4, <1>6
  <2> QED
    BY <2>1, <2>2 DEF Sized
<1>9. LettersOf(Piece) = {c \in Letters(text) : c[1] = next /\ c[2] \in (cut + 1)..end}
  BY <1>4, <1>6
<1> QED
  BY <1>2, <1>6, <1>7, <1>8, <1>9 DEF line, end

LEMMA CutLongStep ==
  ASSUME SplitInv, CutLong
  PROVE  SplitInv'
<1> DEFINE end == IF LastCut THEN Len(text[next]) ELSE cut + limit
<1>1. /\ ~returned /\ next \in DOMAIN text /\ next \in Nat /\ Len(text) \in Nat /\ cut \in Nat
      /\ TextGiven /\ cut < Len(text[next]) /\ limit < Len(text[next])
      /\ Len(text[next]) \in Nat /\ limit \in Nat \ {0}
  <2>1. TextGiven /\ next \in 1..(Len(text) + 1) /\ ~returned /\ next <= Len(text) /\ cut \in Nat
    BY DEF SplitInv, CutLong, InLoop
  <2>2. next \in DOMAIN text /\ limit \in Nat \ {0} /\ Len(text) \in Nat
    BY <2>1 DEF TextGiven
  <2>3. Len(text[next]) \in Nat /\ limit < Len(text[next])
    BY <2>1, <2>2, OneSentence DEF CutLong, TooLong
  <2>4. cut < Len(text[next])
    BY <2>1, <2>2, <2>3 DEF SplitInv
  <2> QED
    BY <2>1, <2>2, <2>3, <2>4
<1>2. /\ end \in Nat /\ cut < end /\ end <= Len(text[next])
      /\ Piece \in Seq(Chars) /\ Increasing(Piece)
      /\ LettersOf(Piece) = {c \in Letters(text) : c[1] = next /\ c[2] \in (cut + 1)..end}
      /\ Piece # << >> => Sized(Piece)
  BY <1>1, PieceCut
<1>3. Spoken(Flushed, next, cut + 1)
  BY <1>1, FlushedSpoken
<1>4. \/ LastCut /\ cut' = 0 /\ next' = next + 1
      \/ ~LastCut /\ cut' = cut + limit /\ next' = next /\ cut + limit < Len(text[next])
  BY <1>1 DEF CutLong, MoveOn, LastCut
<1>5. Before(next', cut' + 1) = Before(next, cut + 1) \cup LettersOf(Piece)
  <2> SUFFICES ASSUME NEW c \in Letters(text)
               PROVE  Earlier(c, <<next', cut' + 1>>) <=>
                        (Earlier(c, <<next, cut + 1>>)) \/ (c[1] = next /\ c[2] \in (cut + 1)..end)
    BY <1>2 DEF Before
  <2>1. c[1] \in DOMAIN text /\ c[2] \in DOMAIN text[c[1]] /\ c[1] \in Nat /\ c[2] \in Nat \ {0}
    <3>1. PICK i \in DOMAIN text : \E j \in DOMAIN text[i] : text[i][j] = c /\ c = <<i, j>>
      BY <1>1, TextLetters
    <3> QED
      BY <1>1, <3>1, Places
  <2>2. c[1] = next => c[2] <= Len(text[next])
    BY <1>1, <2>1, OneSentence
  <2>3. CASE LastCut
    <3>1. end = Len(text[next]) /\ cut' = 0 /\ next' = next + 1
      BY <1>4, <2>3
    <3> HIDE DEF end
    <3> QED
      BY <1>1, <2>1, <2>2, <3>1 DEF Earlier
  <2>4. CASE ~LastCut
    <3>1. end = cut + limit /\ cut' = cut + limit /\ next' = next
      BY <1>4, <2>4
    <3> HIDE DEF end
    <3> QED
      BY <1>1, <2>1, <2>2, <3>1 DEF Earlier
  <2> QED
    BY <2>3, <2>4
<1>6. AllEarlier(Before(next, cut + 1), LettersOf(Piece))
  <2> SUFFICES ASSUME NEW c \in Letters(text), Earlier(c, <<next, cut + 1>>),
                      NEW d, d[1] = next, d[2] \in (cut + 1)..end
               PROVE  Earlier(c, d)
    BY <1>2 DEF AllEarlier, Before
  <2>1. c[1] \in Nat /\ c[2] \in Nat
    BY <1>1, Places
  <2> QED
    BY <1>1, <1>2, <2>1 DEF Earlier
<1>7. Spoken(chunks', next', cut' + 1)
  <2>1. CASE Piece = << >>
    <3>1. LettersOf(Piece) = {}
      BY <2>1 DEF LettersOf, ToSet
    <3>2. Before(next', cut' + 1) = Before(next, cut + 1)
      BY <1>5, <3>1
    <3>3. chunks' = Flushed
      BY <2>1 DEF CutLong, WithPiece
    <3> QED
      BY <1>3, <3>2, <3>3 DEF Spoken
  <2>2. CASE Piece # << >>
    <3>1. chunks' = Append(Flushed, Piece)
      BY <2>2 DEF CutLong, WithPiece
    <3> QED
      BY <1>2, <1>3, <1>5, <1>6, <2>2, <3>1, AppendSpoken
  <2> QED
    BY <2>1, <2>2
<1>8. next' \in 1..(Len(text) + 1) /\ cut' \in Nat
  BY <1>1, <1>4
<1>9. Gathered(<< >>, next')
  BY <1>1, <1>8, NothingGathered
<1>10. current' = << >> /\ returned' = FALSE /\ UNCHANGED <<text, limit, group>>
  BY <1>1 DEF CutLong, SplitInv
<1>11. next' - Len(current') = next'
  <2>1. Len(current') = 0 /\ Len(current') \in Nat /\ next' \in Nat
    BY <1>1, <1>8, <1>10
  <2>2. \A m, n \in Nat : m = 0 => n - m = n
    OBVIOUS
  <2> QED
    BY <2>1, <2>2, Zenon
<1>12. cut' > 0 => next' <= Len(text) /\ cut' < Len(text[next']) /\ limit < Len(text[next'])
  BY <1>1, <1>4
<1> QED
  BY <1>1, <1>7, <1>8, <1>9, <1>10, <1>11, <1>12, AfterStep

LEMMA GatherOne ==
  ASSUME TextGiven, NEW i \in DOMAIN text, Len(text[i]) <= limit
  PROVE  Gathered(<<text[i]>>, i + 1)
<1> DEFINE s == text[i]
<1>1. /\ s \in Seq(Chars) /\ s # << >> /\ s[1] # Space /\ s[Len(s)] # Space
      /\ Increasing(s) /\ LettersOf(s) = Of(i, i) /\ i \in Nat \ {0}
  BY OneSentence DEF TextGiven
<1> HIDE DEF s
<1>2. Join(<<s>>) = s
  BY <1>1, JoinOne
<1>3. /\ <<s>> \in Seq(Seq(Chars)) /\ Len(<<s>>) = 1 /\ <<s>> # << >>
      /\ (i + 1) - Len(<<s>>) = i /\ (i + 1) - 1 = i
  BY <1>1
<1>4. \A k \in i..i : k = i
  BY <1>1
<1> QED
  BY <1>1, <1>2, <1>3, <1>4 DEF Gathered, s

LEMMA GatherMore ==
  ASSUME TextGiven, NEW i \in DOMAIN text, Len(text[i]) <= limit,
         NEW strings, Gathered(strings, i), strings # << >>, Len(strings) < group,
         Len(Strip(Join(Append(strings, text[i])))) <= limit
  PROVE  Gathered(Append(strings, text[i]), i + 1)
<1> DEFINE t == text[i]
           s == Join(strings)
           first == i - Len(strings)
           more == Append(strings, t)
           joined == (s \o <<Space>>) \o t
<1>1. /\ t \in Seq(Chars) /\ t # << >> /\ t[1] # Space /\ t[Len(t)] # Space
      /\ Increasing(t) /\ LettersOf(t) = Of(i, i) /\ i \in Nat \ {0} /\ group \in Nat
  BY OneSentence DEF TextGiven
<1>2. /\ strings \in Seq(Seq(Chars)) /\ Len(strings) \in Nat \ {0} /\ Len(strings) < i
      /\ s \in Seq(Chars) /\ Increasing(s) /\ LettersOf(s) = Of(first, i - 1)
      /\ \A k \in first..(i - 1) : Len(text[k]) <= limit /\ ToSet(text[k]) \subseteq ToSet(s)
      /\ s # << >> /\ s[1] # Space /\ s[Len(s)] # Space
  BY DEF Gathered
<1>3. Len(t) <= limit /\ Len(Strip(Join(more))) <= limit
  OBVIOUS
<1> HIDE DEF t, s
<1>4. Join(more) = joined
  BY <1>1, <1>2, JoinAppend DEF s
<1>5. /\ more \in Seq(Seq(Chars)) /\ Len(more) = Len(strings) + 1 /\ more # << >>
      /\ (i + 1) - Len(more) = first /\ (i + 1) - 1 = i /\ Len(more) < i + 1
      /\ first \in Nat /\ first <= i - 1 /\ Len(more) <= group
  <2>1. t \in Seq(Chars) /\ strings \in Seq(Seq(Chars))
    BY <1>1, <1>2
  <2>2. more \in Seq(Seq(Chars)) /\ Len(more) = Len(strings) + 1 /\ Len(more) \in Nat
    BY <2>1
  <2> HIDE DEF more
  <2>3. more # << >>
    BY <1>2, <2>2
  <2>4. \A m, n \in Nat : m = n + 1 /\ n # 0 /\ n < i /\ n < group =>
          /\ (i + 1) - m = i - n /\ (i + 1) - 1 = i /\ m < i + 1
          /\ i - n \in Nat /\ i - n <= i - 1 /\ m <= group
    BY <1>1
  <2>5. Len(strings) \in Nat /\ Len(strings) # 0 /\ Len(strings) < i /\ Len(strings) < group
    BY <1>2
  <2> QED
    BY <2>2, <2>3, <2>4, <2>5, Zenon
<1> HIDE DEF first
<1>6. AllEarlier(LettersOf(s), LettersOf(t))
  <2> SUFFICES ASSUME NEW c \in Of(first, i - 1), NEW d \in Of(i, i)
               PROVE  Earlier(c, d)
    BY <1>1, <1>2 DEF AllEarlier
  <2>1. c[1] \in first..(i - 1) /\ d[1] \in i..i
    BY DEF Of
  <2> QED
    BY <1>1, <1>5, <2>1 DEF Earlier
<1>7. /\ joined \in Seq(Chars) /\ joined # << >> /\ Increasing(joined)
      /\ ToSet(joined) = (ToSet(s) \cup {Space}) \cup ToSet(t)
      /\ joined[1] # Space /\ joined[Len(joined)] # Space
  BY <1>1, <1>2, <1>6, JoinedInOrder
<1> HIDE DEF joined, more
<1>8. Len(joined) <= limit
  BY <1>3, <1>4, <1>7, StripNothing
<1>9. LettersOf(joined) = Of(first, i)
  <2>1. LettersOf(joined) = Of(first, i - 1) \cup Of(i, i)
    BY <1>1, <1>2, <1>7 DEF LettersOf
  <2>2. ASSUME NEW c \in Letters(text)
        PROVE  c[1] \in first..i <=> c[1] \in first..(i - 1) \/ c[1] \in i..i
    BY <1>1, <1>5
  <2> QED
    BY <2>1, <2>2 DEF Of
<1>10. \A k \in first..i : Len(text[k]) <= limit /\ ToSet(text[k]) \subseteq ToSet(joined)
  <2> SUFFICES ASSUME NEW k \in first..i
               PROVE  Len(text[k]) <= limit /\ ToSet(text[k]) \subseteq ToSet(joined)
    OBVIOUS
  <2>1. k \in first..(i - 1) \/ k = i
    BY <1>1, <1>5
  <2> QED
    BY <1>2, <1>3, <1>7, <2>1 DEF t
<1> QED
  BY <1>4, <1>5, <1>7, <1>8, <1>9, <1>10 DEF Gathered, more, t

\* A step that does not cut begins at the beginning of a sentence.
LEMMA AtSentence ==
  ASSUME SplitInv, ~returned, InLoop => ~TooLong
  PROVE  /\ TextGiven /\ next \in 1..(Len(text) + 1) /\ Len(text) \in Nat /\ cut = 0
         /\ limit \in Nat /\ group \in Nat
         /\ Gathered(current, next) /\ Spoken(chunks, next - Len(current), 1)
         /\ InLoop => next \in DOMAIN text /\ Len(text[next]) \in Nat /\ Len(text[next]) <= limit
<1>1. /\ TextGiven /\ next \in 1..(Len(text) + 1) /\ Len(text) \in Nat /\ cut \in Nat
      /\ limit \in Nat /\ group \in Nat
      /\ Gathered(current, next) /\ Spoken(chunks, next - Len(current), cut + 1)
  BY DEF SplitInv, TextGiven
<1>2. InLoop => next \in DOMAIN text /\ Len(text[next]) \in Nat /\ Len(text[next]) <= limit
  <2> SUFFICES ASSUME InLoop
               PROVE  next \in DOMAIN text /\ Len(text[next]) \in Nat /\ Len(text[next]) <= limit
    OBVIOUS
  <2>1. next \in DOMAIN text
    BY <1>1 DEF InLoop, TextGiven
  <2> QED
    BY <1>1, <2>1, OneSentence DEF TooLong
<1>3. cut = 0
  <2> SUFFICES ASSUME cut > 0 PROVE FALSE
    BY <1>1
  <2>1. next <= Len(text) /\ limit < Len(text[next])
    BY <1>1 DEF SplitInv
  <2> QED
    BY <1>1, <1>2, <2>1 DEF InLoop
<1> QED
  BY <1>1, <1>2, <1>3

LEMMA StartNewStep ==
  ASSUME SplitInv, StartNew
  PROVE  SplitInv'
<1>1. /\ TextGiven /\ next \in DOMAIN text /\ next \in Nat /\ Len(text) \in Nat /\ cut = 0
      /\ next <= Len(text) /\ Len(text[next]) <= limit /\ ~returned
  BY AtSentence DEF StartNew, InLoop, TextGiven
<1>2. /\ chunks' = Flushed /\ current' = <<text[next]>> /\ next' = next + 1
      /\ UNCHANGED <<text, limit, group>> /\ cut' = 0 /\ returned' = FALSE
  BY <1>1 DEF StartNew, SplitInv
<1>3. Spoken(Flushed, next, 1)
  BY <1>1, FlushedSpoken
<1>4. Gathered(<<text[next]>>, next + 1)
  BY <1>1, GatherOne
<1>5. next + 1 \in 1..(Len(text) + 1) /\ (next + 1) - Len(<<text[next]>>) = next
  BY <1>1
<1>6. Gathered(current', next') /\ Spoken(chunks', next' - Len(current'), cut' + 1)
  <2>1. next' - Len(current') = next /\ cut' + 1 = 1
    BY <1>2, <1>5
  <2> QED
    BY <1>2, <1>3, <1>4, <2>1, Zenon
<1>7. next' \in 1..(Len(text) + 1)
  BY <1>2, <1>5, Zenon
<1>8. cut' \in Nat /\ ~(cut' > 0)
  BY <1>2
<1> QED
  BY <1>1, <1>2, <1>6, <1>7, <1>8, AfterStep, Zenon

LEMMA ExtendStep ==
  ASSUME SplitInv, Extend
  PROVE  SplitInv'
<1>1. /\ TextGiven /\ next \in DOMAIN text /\ next \in Nat /\ Len(text) \in Nat /\ cut = 0
      /\ next <= Len(text) /\ Len(text[next]) <= limit /\ ~returned
      /\ Gathered(current, next) /\ Spoken(chunks, next - Len(current), 1)
      /\ limit \in Nat /\ group \in Nat
  BY AtSentence DEF Extend, InLoop, TextGiven
<1>2. /\ chunks' = chunks /\ current' = Append(current, text[next]) /\ next' = next + 1
      /\ UNCHANGED <<text, limit, group>> /\ cut' = 0 /\ returned' = FALSE
  BY <1>1 DEF Extend, SplitInv
<1>3. current \in Seq(Seq(Chars)) /\ text[next] \in Seq(Chars)
  BY <1>1, OneSentence DEF Gathered
<1>4. Gathered(Append(current, text[next]), next + 1)
  <2>1. CASE current = << >>
    <3>1. Append(current, text[next]) = <<text[next]>>
      BY <2>1
    <3> QED
      BY <1>1, <3>1, GatherOne
  <2>2. CASE current # << >>
    <3>1. Len(current) < group
      BY <1>1, <1>3, <2>2 DEF Extend, Full
    <3>2. Len(Candidate) <= limit
      <4>1. Candidate \in Seq(Chars)
        <5>1. Join(Append(current, text[next])) = (Join(current) \o <<Space>>) \o text[next]
              /\ Join(current) \in Seq(Chars) /\ Space \in Chars
          BY <1>3, <2>2, JoinAppend DEF Space, Chars
        <5>2. Join(Append(current, text[next])) \in Seq(Chars)
          BY <1>3, <5>1
        <5> QED
          BY <5>2, StripStretch DEF Candidate
      <4>2. Len(Candidate) \in Nat
        BY <4>1
      <4> QED
        BY <1>1, <2>2, <4>2 DEF Extend, Full
    <3> QED
      BY <1>1, <2>2, <3>1, <3>2, GatherMore DEF Candidate
  <2> QED
    BY <2>1, <2>2
<1>5. /\ next + 1 \in 1..(Len(text) + 1)
      /\ (next + 1) - Len(Append(current, text[next])) = next - Len(current)
  BY <1>1, <1>3
<1>6. Gathered(current', next') /\ Spoken(chunks', next' - Len(current'), cut' + 1)
  <2>1. next' - Len(current') = next - Len(current) /\ cut' + 1 = 1
    BY <1>2, <1>5
  <2> QED
    BY <1>1, <1>2, <1>4, <2>1, Zenon
<1>7. next' \in 1..(Len(text) + 1)
  BY <1>2, <1>5, Zenon
<1>8. cut' \in Nat /\ ~(cut' > 0)
  BY <1>2
<1> QED
  BY <1>1, <1>2, <1>6, <1>7, <1>8, AfterStep, Zenon

LEMMA ReturnStep ==
  ASSUME SplitInv, Return
  PROVE  SplitInv'
<1>1. /\ TextGiven /\ next = Len(text) + 1 /\ Len(text) \in Nat /\ cut = 0 /\ ~returned
  <2>1. ~returned /\ next > Len(text) /\ (InLoop => ~TooLong)
    <3>1. next \in Nat /\ Len(text) \in Nat /\ next > Len(text)
      BY DEF Return, SplitInv, TextGiven
    <3> QED
      BY <3>1 DEF Return, InLoop
  <2>2. TextGiven /\ next \in 1..(Len(text) + 1) /\ Len(text) \in Nat /\ cut = 0
    BY <2>1, AtSentence
  <2> QED
    BY <2>1, <2>2
<1>2. /\ chunks' = Flushed /\ next' = next
      /\ UNCHANGED <<text, limit, group>> /\ cut' = 0 /\ returned' = TRUE
  BY <1>1 DEF Return
<1>3. Spoken(Flushed, next, 1)
  BY <1>1, FlushedSpoken
<1> QED
  BY <1>1, <1>2, <1>3, AfterStep

LEMMA SplitStarts ==
  ASSUME SplitInit
  PROVE  SplitInv
<1>1. PICK t \in Texts : text = [i \in DOMAIN t |-> Sentence(i, t[i])]
  BY DEF SplitInit
<1>2. PICK k \in 1..MaxText : t \in [1..k -> Shapes]
  BY <1>1 DEF Texts
<1>3. k \in Nat \ {0} /\ MaxText \in Nat
  BY SplitAssumption DEF SplitAssumption
<1>4. ASSUME NEW i \in 1..k
      PROVE  /\ text[i] \in Seq(Chars) /\ text[i] # << >>
             /\ text[i][1] # Space /\ text[i][Len(text[i])] # Space
             /\ \A j \in DOMAIN text[i] : text[i][j] \in {<<i, j>>, Space}
  <2> DEFINE shape == t[i]
  <2>1. shape \in Seq(BOOLEAN) /\ Len(shape) > 0 /\ shape[1] /\ shape[Len(shape)]
    BY <1>2, SplitAssumption DEF SplitAssumption
  <2>2. text[i] = Sentence(i, shape)
    BY <1>1, <1>2
  <2> HIDE DEF shape
  <2>3. text[i] = [j \in 1..Len(shape) |-> IF shape[j] THEN <<i, j>> ELSE Space]
    BY <2>1, <2>2 DEF Sentence
  <2>4. \A j \in 1..Len(shape) : (IF shape[j] THEN <<i, j>> ELSE Space) \in Chars
    BY <1>3, <2>1 DEF Chars, Space
  <2>5. text[i] \in Seq(Chars) /\ Len(text[i]) = Len(shape) /\ DOMAIN text[i] = 1..Len(shape)
    BY <2>1, <2>3, <2>4
  <2>6. 1 \in 1..Len(shape) /\ Len(shape) \in 1..Len(shape)
    BY <2>1
  <2>7. i # 0
    BY <1>3
  <2> QED
    BY <2>1, <2>3, <2>5, <2>6, <2>7 DEF Space
<1>5. text \in Seq(Seq(Chars)) /\ Len(text) = k /\ DOMAIN text = 1..k
  <2>1. text = [i \in 1..k |-> text[i]]
    BY <1>1, <1>2
  <2> QED
    BY <1>3, <1>4, <2>1
<1>6. TextGiven
  BY <1>4, <1>5, SplitAssumption DEF TextGiven, SplitInit, SplitAssumption
<1>7. /\ next = 1 /\ cut = 0 /\ current = << >> /\ chunks = << >> /\ returned = FALSE
  BY DEF SplitInit
<1>8. Gathered(<< >>, 1)
  BY <1>6, NothingGathered
<1>9. Spoken(<< >>, 1, 1)
  <2>1. Before(1, 1) = {}
    <3> SUFFICES ASSUME NEW c \in Letters(text), Earlier(c, <<1, 1>>) PROVE FALSE
      BY DEF Before
    <3>1. c[1] \in 1..Len(text) /\ c[2] \in Nat \ {0}
      BY <1>6, Places
    <3> QED
      BY <1>3, <1>5, <3>1 DEF Earlier
  <2>2. << >> \in Seq(Seq(Chars)) /\ DOMAIN << >> = {}
    OBVIOUS
  <2>3. Letters(<< >>) = {} /\ InOrder(<< >>)
    BY <2>2 DEF Letters, InOrder
  <2> QED
    BY <2>1, <2>2, <2>3 DEF Spoken
<1>10. 1 - Len(current) = 1 /\ cut + 1 = 1 /\ 1 \in 1..(Len(text) + 1) /\ ~(cut > 0)
  BY <1>3, <1>5, <1>7
<1> QED
  BY <1>6, <1>7, <1>8, <1>9, <1>10 DEF SplitInv

LEMMA SplitInvUnchanged ==
  ASSUME SplitInv, UNCHANGED splitVars
  PROVE  SplitInv'
<1>1. TextGiven /\ UNCHANGED <<text, limit, group, next, cut, current, chunks, returned>>
  BY DEF SplitInv, splitVars
<1> QED
  BY <1>1, AfterStep DEF SplitInv

LEMMA SplitKeepsInv ==
  ASSUME SplitInv, SplitNext
  PROVE  SplitInv'
BY CutLongStep, StartNewStep, ExtendStep, ReturnStep DEF SplitNext

LEMMA InvLosesNothing ==
  ASSUME SplitInv
  PROVE  NothingLost
<1>1. CASE returned
  <2>1. cut = 0 /\ next = Len(text) + 1 /\ Spoken(chunks, next, 1)
    BY <1>1 DEF SplitInv
  <2>2. cut + 1 = 1
    BY <2>1
  <2> QED
    BY <1>1, <2>1, <2>2 DEF NothingLost, Spoken, Before
<1>2. CASE ~returned
  <2> DEFINE first == next - Len(current)
             s == Join(current)
             upto == IF current = << >> THEN cut + 1 ELSE 1
  <2>1. /\ TextGiven /\ next \in Nat \ {0} /\ cut \in Nat
        /\ Gathered(current, next) /\ Spoken(chunks, first, cut + 1)
        /\ current # << >> => cut = 0
    BY <1>2 DEF SplitInv, TextGiven
  <2>2. /\ Len(current) \in Nat /\ Len(current) < next /\ s \in Seq(Chars) /\ Increasing(s)
        /\ LettersOf(s) = Of(first, next - 1)
    BY <2>1 DEF Gathered
  <2>3. /\ chunks \in Seq(Seq(Chars)) /\ InOrder(chunks) /\ Letters(chunks) = Before(first, cut + 1)
    BY <2>1 DEF Spoken
  <2>4. /\ AllEarlier(Before(first, cut + 1), LettersOf(s))
        /\ Before(next, cut + 1) = Before(first, cut + 1) \cup LettersOf(s)
    <3>1. CASE current = << >>
      <4>1. first = next
        BY <2>1, <3>1
      <4>2. LettersOf(s) = {}
        BY <3>1, EmptyJoin DEF LettersOf, ToSet
      <4> QED
        BY <4>1, <4>2 DEF AllEarlier
    <3>2. CASE current # << >>
      <4>1. first \in Nat /\ next - 1 \in Nat /\ first <= next /\ cut + 1 = 1
        BY <2>1, <2>2, <3>2
      <4> HIDE DEF first
      <4> QED
        BY <2>1, <2>2, <4>1, Places
    <3> QED
      BY <3>1, <3>2
  <2> HIDE DEF s, first
  <2>5. /\ InOrder(Append(chunks, s))
        /\ Letters(Append(chunks, s)) = Before(next, cut + 1)
    BY <2>2, <2>3, <2>4, InOrderAppend
  <2> QED
    BY <1>2, <2>5 DEF NothingLost, Before, s
<1> QED
  BY <1>1, <1>2 DEF SplitInv

LEMMA SizedFits ==
  ASSUME TextGiven, NEW chunk \in Seq(Chars), Sized(chunk)
  PROVE  LET whole == {i \in Within(chunk) : Fits(i)}
         IN /\ Len(chunk) \in 1..limit
            /\ Cardinality(whole) <= 1 \/ Cardinality(whole) <= group
            /\ \A i \in whole : ToSet(text[i]) \subseteq ToSet(chunk)
<1> DEFINE whole == {i \in Within(chunk) : Fits(i)}
<1>1. ASSUME NEW i \in Within(chunk)
      PROVE  i \in DOMAIN text /\ \E c \in LettersOf(chunk) : c \in Letters(text) /\ c[1] = i
  <2>1. i \in DOMAIN text /\ (ToSet(text[i]) \cap ToSet(chunk)) \ {Space} # {}
    BY DEF Within
  <2>2. PICK c : c \in ToSet(text[i]) /\ c \in ToSet(chunk) /\ c # Space
    BY <2>1
  <2>3. c \in LettersOf(text[i]) /\ c \in LettersOf(chunk)
    BY <2>2 DEF LettersOf
  <2>4. c \in Letters(text) /\ c[1] \in i..i
    BY <2>1, <2>3, OneSentence DEF Of
  <2> QED
    BY <2>1, <2>3, <2>4 DEF TextGiven
<1>2. \A i \in DOMAIN text : Len(text[i]) \in Nat /\ i \in Nat
  BY OneSentence DEF TextGiven
<1>3. limit \in Nat /\ group \in Nat
  BY DEF TextGiven
<1>4. ASSUME NEW i0 \in DOMAIN text, Len(text[i0]) > limit, \A c \in LettersOf(chunk) : c[1] = i0
      PROVE  whole = {}
  <2> SUFFICES ASSUME NEW i \in Within(chunk), Fits(i) PROVE FALSE
    OBVIOUS
  <2>1. i = i0
    BY <1>1, <1>4
  <2> QED
    BY <1>2, <1>3, <1>4, <2>1 DEF Fits
<1>5. ASSUME NEW a \in DOMAIN text, NEW b \in DOMAIN text, a <= b,
             b - a + 1 <= 1 \/ b - a + 1 <= group,
             LettersOf(chunk) \subseteq Of(a, b),
             \A i \in a..b : ToSet(text[i]) \subseteq ToSet(chunk)
      PROVE  /\ Cardinality(whole) <= 1 \/ Cardinality(whole) <= group
             /\ \A i \in whole : ToSet(text[i]) \subseteq ToSet(chunk)
  <2>1. whole \subseteq a..b
    BY <1>1, <1>5 DEF Of
  <2>2. a \in Nat /\ b \in Nat
    BY <1>2
  <2>3. IsFiniteSet(a..b) /\ Cardinality(a..b) = b - a + 1
    BY <1>5, <2>2, FS_Interval
  <2> HIDE DEF whole
  <2>4. Cardinality(whole) <= Cardinality(a..b) /\ Cardinality(whole) \in Nat
    BY <2>1, <2>3, FS_Subset, FS_CardinalityType
  <2>5. Cardinality(whole) <= b - a + 1
    BY <2>3, <2>4
  <2> QED
    BY <1>3, <1>5, <2>1, <2>2, <2>4, <2>5
<1>6. Cardinality({}) = 0
  BY FS_EmptySet
<1> HIDE DEF whole
<1>7. /\ Cardinality(whole) <= 1 \/ Cardinality(whole) <= group
      /\ \A i \in whole : ToSet(text[i]) \subseteq ToSet(chunk)
  <2>1. CASE \E i \in DOMAIN text : Len(text[i]) > limit /\ \A c \in LettersOf(chunk) : c[1] = i
    <3>1. whole = {}
      BY <1>4, <2>1
    <3>2. Cardinality(whole) <= 1
      BY <1>6, <3>1
    <3> QED
      BY <3>1, <3>2
  <2>2. CASE \E a, b \in DOMAIN text :
               /\ a <= b /\ (b - a + 1 <= 1 \/ b - a + 1 <= group)
               /\ LettersOf(chunk) \subseteq Of(a, b)
               /\ \A i \in a..b : ToSet(text[i]) \subseteq ToSet(chunk)
    BY <1>5, <2>2
  <2> QED
    BY <2>1, <2>2 DEF Sized
<1> QED
  BY <1>7 DEF Sized, whole

LEMMA InvFits ==
  ASSUME SplitInv
  PROVE  ChunksFit
<1>1. TextGiven /\ chunks \in Seq(Seq(Chars)) /\ \A k \in DOMAIN chunks : Sized(chunks[k])
  BY DEF SplitInv, Spoken
<1>2. ASSUME NEW k \in DOMAIN chunks
      PROVE  chunks[k] \in Seq(Chars) /\ Sized(chunks[k])
  BY <1>1
<1> QED
  BY <1>1, <1>2, SizedFits DEF ChunksFit

-----------------------------------------------------------------------------
(* The text of a request *)

LEMMA SplitInvHolds == Spec => []SplitInv
<1>1. Init => SplitInv
  BY SplitStarts DEF Init
<1>2. SplitInv /\ [Next]_vars => SplitInv'
  <2> SUFFICES ASSUME SplitInv, [Next]_vars
               PROVE  SplitInv'
    OBVIOUS
  <2>1. CASE Split
    BY <2>1, SplitKeepsInv DEF Split
  <2>2. CASE ~Split
    <3>1. UNCHANGED splitVars
      BY <2>2 DEF Next, Receive, Refuse, Accept, BreakDown, TurnAway, Start, Speak, SpeakStreamed,
         Fail, BreakOff, Disconnect, Assemble, CannotAssemble, EndStream, RenderInside, Escape,
         RenderOutside, Leave, vars
    <3> QED
      BY <3>1, SplitInvUnchanged
  <2> QED
    BY <2>1, <2>2
<1> QED
  BY <1>1, <1>2, PTL DEF Spec

\* split_text_semantic, for every text and both limits: at no time is a letter
\* lost, said twice or out of its place.
THEOREM NothingIsLost == Spec => []NothingLost
BY SplitInvHolds, InvLosesNothing, PTL

\* split_text_semantic's docstring, for every text: a chunk is within its
\* limits and no sentence is divided that fits.
THEOREM ChunksAlwaysFit == Spec => []ChunksFit
BY SplitInvHolds, InvFits, PTL
-----------------------------------------------------------------------------
(* The audio of a request                                                  *)

\* The pieces of a chunk, one behind the other, as AnswerFollowsText has them.
Block(pieces, k, m) ==
  \E start \in 0..(Len(pieces) - m) : \A i \in DOMAIN pieces :
    IF i \in (start + 1)..(start + m) THEN pieces[i] = <<k, i - start>> ELSE pieces[i][1] # k

\* What the first n chunks have given.
AudioOf(pieces, n) ==
  /\ pieces \in Seq((1..n) \X (Nat \ {0}))
  /\ \A i, j \in DOMAIN pieces : i < j => Earlier(pieces[i], pieces[j])
  /\ request.stream \/ model.yields = {1} => pieces = [k \in 1..n |-> <<k, 1>>]
  /\ ~request.stream => \A k \in 1..n : \E m \in model.yields : Block(pieces, k, m)

Complete == returned /\ Len(calls) = Len(chunks) /\ AudioOf(audio, Len(calls))

SpeechInv ==
  /\ DOMAIN answer = DOMAIN NoAnswer
  /\ stage \in {"arrived", "handling", "splitting"} => calls = << >> /\ audio = << >>
  /\ stage = "speaking" => returned /\ Len(calls) <= Len(chunks) /\ AudioOf(audio, Len(calls))
  /\ stage \notin {"answered", "done"} => ~answer.ended
  /\ stage \in {"raised", "escaped"} => \A c : ErrorResponse(error, c).status # 200
  /\ Whole => Complete /\ answer.count \in {None, Len(audio)}

LEMMA NoAudioYet == AudioOf(<< >>, 0)
BY DEF AudioOf

LEMMA ConcatSeq ==
  ASSUME NEW T, NEW s \in Seq(T), NEW t \in Seq(T)
  PROVE  /\ s \o t \in Seq(T) /\ Len(s \o t) = Len(s) + Len(t)
         /\ \A i \in 1..(Len(s) + Len(t)) :
              (s \o t)[i] = IF i <= Len(s) THEN s[i] ELSE t[i - Len(s)]
OBVIOUS

LEMMA AppendIsConcat ==
  ASSUME NEW T, NEW s \in Seq(T), NEW e
  PROVE  Append(s, e) = s \o <<e>>
<1> DEFINE S == T \cup {e}
<1>1. s \in Seq(S) /\ e \in S /\ <<e>> \in Seq(S)
  OBVIOUS
<1> HIDE DEF S
<1> QED
  BY <1>1

LEMMA MoreAudio ==
  ASSUME NEW pieces, NEW n \in Nat, AudioOf(pieces, n), NEW m \in Nat
  PROVE  LET more == pieces \o [i \in 1..m |-> <<n + 1, i>>]
             l == Len(pieces)
         IN /\ more \in Seq((1..(n + 1)) \X (Nat \ {0}))
            /\ l \in Nat /\ DOMAIN pieces = 1..l /\ DOMAIN more = 1..(l + m)
            /\ \A i \in 1..l : more[i] = pieces[i] /\ i \in 1..(l + m)
                              /\ pieces[i][1] \in 1..n /\ pieces[i][2] \in Nat
            /\ \A i \in (l + 1)..(l + m) : /\ more[i] = <<n + 1, i - l>> /\ i - l \in 1..m
                                          /\ more[i][1] = n + 1 /\ more[i][2] = i - l
            /\ \A i \in 1..(l + m) : i \in 1..l \/ i \in (l + 1)..(l + m)
            /\ Len(more) = l + m
<1> DEFINE old == (1..n) \X (Nat \ {0})
           new == (1..(n + 1)) \X (Nat \ {0})
           block == [i \in 1..m |-> <<n + 1, i>>]
           l == Len(pieces)
           more == pieces \o block
<1>1. /\ pieces \in Seq(old) /\ l \in Nat /\ DOMAIN pieces = 1..l
      /\ \A i \in 1..l : pieces[i] \in old /\ pieces[i][1] \in 1..n /\ pieces[i][2] \in Nat
  <2>1. pieces \in Seq(old)
    BY DEF AudioOf
  <2>2. l \in Nat /\ DOMAIN pieces = 1..l /\ \A i \in 1..l : pieces[i] \in old
    <3> HIDE DEF old
    <3> QED
      BY <2>1
  <2>3. \A i \in 1..l : pieces[i][1] \in 1..n /\ pieces[i][2] \in Nat
    BY <2>2
  <2> HIDE DEF l
  <2> QED
    BY <2>1, <2>2, <2>3 DEF AudioOf
<1>2. pieces \in Seq(new) /\ block \in Seq(new) /\ Len(block) = m
  <2>1. old \subseteq new
    OBVIOUS
  <2>2. pieces \in Seq(new)
    <3> HIDE DEF old, new
    <3> QED
      BY <1>1, <2>1
  <2>3. \A i \in 1..m : <<n + 1, i>> \in new
    OBVIOUS
  <2> HIDE DEF old, new
  <2> QED
    BY <2>2, <2>3
<1>3. /\ more \in Seq(new) /\ Len(more) = l + m /\ DOMAIN more = 1..(l + m)
      /\ \A i \in 1..l : more[i] = pieces[i] /\ i \in 1..(l + m)
      /\ \A i \in (l + 1)..(l + m) : more[i] = <<n + 1, i - l>> /\ i - l \in 1..m
      /\ \A i \in 1..(l + m) : i \in 1..l \/ i \in (l + 1)..(l + m)
  <2>1. more = pieces \o block
    OBVIOUS
  <2>2. pieces \in Seq(new) /\ block \in Seq(new) /\ Len(pieces) = l /\ Len(block) = m
        /\ l \in Nat
    BY <1>1, <1>2
  <2>3. /\ more \in Seq(new) /\ Len(more) = l + m
        /\ \A i \in 1..l : more[i] = pieces[i] /\ i \in 1..(l + m)
        /\ \A i \in (l + 1)..(l + m) : more[i] = block[i - l] /\ i - l \in 1..m
    <3> HIDE DEF new, block, l
    <3>1. /\ pieces \o block \in Seq(new) /\ Len(pieces \o block) = l + m
          /\ \A i \in 1..(l + m) :
               (pieces \o block)[i] = IF i <= l THEN pieces[i] ELSE block[i - l]
      BY <2>2, ConcatSeq
    <3>2. /\ \A i \in 1..l : i \in 1..(l + m) /\ i <= l
          /\ \A i \in (l + 1)..(l + m) : i \in 1..(l + m) /\ ~(i <= l) /\ i - l \in 1..m
      BY <2>2
    <3> QED
      BY <2>1, <3>1, <3>2
  <2>4. \A i \in (l + 1)..(l + m) : block[i - l] = <<n + 1, i - l>>
    BY <2>3
  <2>5. \A i \in 1..(l + m) : i \in 1..l \/ i \in (l + 1)..(l + m)
    BY <1>1
  <2> HIDE DEF new, block, l
  <2>6. DOMAIN more = 1..(l + m)
    BY <2>2, <2>3
  <2> QED
    BY <2>3, <2>4, <2>5, <2>6
<1>4. \A i \in (l + 1)..(l + m) : more[i][1] = n + 1 /\ more[i][2] = i - l
  <2> HIDE DEF more, l
  <2> SUFFICES ASSUME NEW i \in (l + 1)..(l + m) PROVE more[i][1] = n + 1 /\ more[i][2] = i - l
    OBVIOUS
  <2>1. more[i] = <<n + 1, i - l>>
    BY <1>3
  <2> QED
    BY <2>1
<1> HIDE DEF more, l, new
<1> QED
  BY <1>1, <1>3, <1>4 DEF more, l, new

LEMMA AudioGrows ==
  ASSUME NEW pieces, NEW n \in Nat, AudioOf(pieces, n), model \in Models, NEW m \in Nat,
         request.stream => m = 1, ~request.stream => m \in model.yields
  PROVE  AudioOf(pieces \o [i \in 1..m |-> <<n + 1, i>>], n + 1)
<1> DEFINE more == pieces \o [i \in 1..m |-> <<n + 1, i>>]
           l == Len(pieces)
<1>1. /\ l \in Nat /\ DOMAIN pieces = 1..l
      /\ \A i \in 1..l : pieces[i][1] \in 1..n /\ pieces[i][2] \in Nat
  BY MoreAudio
<1>2. \A i, j \in 1..l : i < j => Earlier(pieces[i], pieces[j])
  BY <1>1 DEF AudioOf
<1>3. /\ more \in Seq((1..(n + 1)) \X (Nat \ {0})) /\ DOMAIN more = 1..(l + m)
      /\ \A i \in 1..l : more[i] = pieces[i] /\ i \in 1..(l + m)
      /\ \A i \in (l + 1)..(l + m) : /\ more[i] = <<n + 1, i - l>> /\ i - l \in 1..m
                                    /\ more[i][1] = n + 1 /\ more[i][2] = i - l
      /\ \A i \in 1..(l + m) : i \in 1..l \/ i \in (l + 1)..(l + m)
      /\ Len(more) = l + m
  BY MoreAudio
<1> HIDE DEF more, l
<1>4. ASSUME NEW i \in 1..(l + m), NEW j \in 1..(l + m), i < j
      PROVE  Earlier(more[i], more[j])
  <2>1. CASE j \in 1..l
    <3>1. i \in 1..l
      BY <1>1, <1>4, <2>1
    <3> QED
      BY <1>2, <1>3, <1>4, <2>1, <3>1
  <2>2. CASE j \in (l + 1)..(l + m) /\ i \in 1..l
    <3>1. more[i][1] \in 1..n /\ more[j][1] = n + 1
      BY <1>1, <1>3, <2>2
    <3> QED
      BY <3>1 DEF Earlier
  <2>3. CASE j \in (l + 1)..(l + m) /\ i \in (l + 1)..(l + m)
    BY <1>1, <1>3, <1>4, <2>3 DEF Earlier
  <2> QED
    BY <1>3, <2>1, <2>2, <2>3
<1>5. ASSUME request.stream \/ model.yields = {1}
      PROVE  more = [k \in 1..(n + 1) |-> <<k, 1>>]
  <2>1. pieces = [k \in 1..n |-> <<k, 1>>]
    BY <1>5 DEF AudioOf
  <2>2. l = n
    <3>1. 1..l = 1..n
      BY <1>1, <2>1
    <3> QED
      BY <1>1, <3>1
  <2>3. m = 1
    BY <1>5
  <2>4. more = [i \in 1..(n + 1) |-> more[i]]
    <3>1. more = [i \in DOMAIN more |-> more[i]]
      BY <1>3
    <3> QED
      BY <1>3, <2>2, <2>3, <3>1
  <2>5. ASSUME NEW i \in 1..(n + 1)
        PROVE  more[i] = <<i, 1>>
    <3>1. CASE i \in 1..n
      BY <1>3, <2>1, <2>2, <3>1
    <3>2. CASE i = n + 1
      <4>1. i \in (l + 1)..(l + m) /\ i - l = 1
        BY <2>2, <2>3, <3>2
      <4> QED
        BY <1>3, <3>2, <4>1
    <3> QED
      BY <3>1, <3>2
  <2> QED
    BY <2>4, <2>5
<1>6. ASSUME ~request.stream, NEW k \in 1..(n + 1)
      PROVE  \E y \in model.yields : Block(more, k, y)
  <2>1. CASE k \in 1..n
    <3>1. PICK y \in model.yields : Block(pieces, k, y)
      BY <1>6, <2>1 DEF AudioOf
    <3>2. PICK start \in 0..(l - y) : \A i \in 1..l :
            IF i \in (start + 1)..(start + y) THEN pieces[i] = <<k, i - start>>
            ELSE pieces[i][1] # k
      BY <1>1, <3>1 DEF Block, l
    <3>3. y \in Nat
      BY RequestAssumption DEF RequestAssumption
    <3>4. start \in 0..((l + m) - y)
      BY <1>1, <3>2, <3>3
    <3>5. ASSUME NEW i \in 1..(l + m)
          PROVE  IF i \in (start + 1)..(start + y) THEN more[i] = <<k, i - start>>
                 ELSE more[i][1] # k
      <4>1. CASE i \in 1..l
        BY <1>1, <1>3, <3>2, <4>1
      <4>2. CASE i \in (l + 1)..(l + m)
        <5>1. i \notin (start + 1)..(start + y)
          BY <1>1, <3>2, <3>3, <4>2
        <5>2. more[i][1] = n + 1
          BY <1>3, <4>2
        <5>3. k # n + 1
          BY <2>1
        <5> QED
          BY <5>1, <5>2, <5>3
      <4> QED
        BY <1>3, <4>1, <4>2
    <3>6. Block(more, k, y)
      BY <1>3, <3>4, <3>5 DEF Block
    <3> QED
      BY <3>6
  <2>2. CASE k = n + 1
    <3>1. l \in 0..((l + m) - m)
      BY <1>1
    <3>2. ASSUME NEW i \in 1..(l + m)
          PROVE  IF i \in (l + 1)..(l + m) THEN more[i] = <<k, i - l>> ELSE more[i][1] # k
      <4>1. CASE i \in 1..l
        <5>1. i \notin (l + 1)..(l + m) /\ more[i][1] \in 1..n
          BY <1>1, <1>3, <4>1
        <5> QED
          BY <2>2, <5>1
      <4>2. CASE i \in (l + 1)..(l + m)
        BY <1>1, <1>3, <2>2, <4>2
      <4> QED
        BY <1>3, <4>1, <4>2
    <3>3. Block(more, k, m)
      BY <1>3, <3>1, <3>2 DEF Block
    <3> QED
      BY <1>6, <3>3
  <2> QED
    BY <2>1, <2>2
<1> QED
  BY <1>3, <1>4, <1>5, <1>6 DEF AudioOf, more

\* Nothing that is raised is answered as a success.
LEMMA RaisedAreErrors ==
  /\ \A exc \in Refusals : \A c : ErrorResponse(exc, c).status # 200
  /\ \A c : ErrorResponse(InternalError, c).status # 200 /\ ErrorResponse(QueueFull, c).status # 200
  /\ \A code, c : ErrorResponse(InvalidRequest(code), c).status # 200
BY DEF Refusals, ErrorResponse, Envelope, InvalidRequest, InternalError, QueueFull, VoiceNotFound,
   VoiceBlobMissing, NotImplemented, Typed, Bare, Validation, Unexpected

LEMMA SameRequest ==
  ASSUME UNCHANGED <<request, model>>, AudioOf(audio', Len(calls'))
  PROVE  AudioOf(audio, Len(calls))'
BY DEF AudioOf, Block

\* What the handler has not answered to the end is no success.
LEMMA StillInside ==
  ASSUME SpeechInv, stage' \notin {"answered", "done"}, DOMAIN answer' = DOMAIN NoAnswer,
         ~answer'.ended,
         \/ stage' \in {"handling", "splitting"} /\ calls' = << >> /\ audio' = << >>
         \/ stage' = "speaking" /\ returned' /\ Len(calls') <= Len(chunks')
            /\ AudioOf(audio', Len(calls')) /\ UNCHANGED <<request, model>>
         \/ stage' \in {"raised", "escaped"} /\ \A c : ErrorResponse(error', c).status # 200
  PROVE  SpeechInv'
<1>1. ~Whole'
  BY DEF Whole
<1>2. stage' = "speaking" => AudioOf(audio, Len(calls))'
  BY SameRequest
<1> QED
  BY <1>1, <1>2 DEF SpeechInv, NoAnswer

\* An answer to the end, which is one of all the audio or no success.
LEMMA AtTheEnd ==
  ASSUME SpeechInv, stage' \in {"answered", "done"}, DOMAIN answer' = DOMAIN NoAnswer,
         UNCHANGED <<request, model, calls, audio, chunks, returned>>,
         Whole' => Complete /\ answer'.count \in {None, Len(audio)}
  PROVE  SpeechInv'
<1>1. AudioOf(audio, Len(calls)) => AudioOf(audio, Len(calls))'
  <2>1. AudioOf(audio, Len(calls)) => AudioOf(audio', Len(calls'))
    OBVIOUS
  <2> QED
    BY <2>1, SameRequest
<1>2. Complete => Complete'
  BY <1>1 DEF Complete
<1> QED
  BY <1>2 DEF SpeechInv, NoAnswer

LEMMA StepsKeepSpeechInv ==
  ASSUME SpeechInv, CallsAlike, SplitInv, Next
  PROVE  SpeechInv'
<1>1. CASE Receive \/ Accept \/ Split
  <2>1. /\ stage \in {"arrived", "handling", "splitting"} /\ stage' \in {"handling", "splitting"}
        /\ UNCHANGED <<answer, calls, audio>>
    BY <1>1 DEF Receive, Accept, Split
  <2> QED
    BY <2>1, StillInside DEF SpeechInv
<1>2. CASE Refuse \/ BreakDown \/ TurnAway \/ Fail \/ CannotAssemble
  <2>1. /\ stage \in {"handling", "splitting", "speaking"} /\ stage' = "raised"
        /\ UNCHANGED answer /\ \A c : ErrorResponse(error', c).status # 200
    BY <1>2, RaisedAreErrors DEF Refuse, BreakDown, TurnAway, Fail, CannotAssemble, InChunks,
       AllSpoken, Raise
  <2> QED
    BY <2>1, StillInside DEF SpeechInv
<1>3. CASE Escape
  <2>1. stage = "raised" /\ stage' = "escaped" /\ UNCHANGED <<answer, error>>
    BY <1>3 DEF Escape
  <2> QED
    BY <2>1, StillInside DEF SpeechInv
<1>4. CASE Start
  <2>1. /\ stage = "splitting" /\ stage' = "speaking" /\ returned
        /\ answer' \in {answer, Started}
        /\ UNCHANGED <<request, model, calls, audio, chunks, returned>>
    BY <1>4 DEF Start, given, splitVars
  <2>2. calls = << >> /\ audio = << >> /\ ~answer.ended /\ DOMAIN answer = DOMAIN NoAnswer
    BY <2>1 DEF SpeechInv
  <2>3. ~Started.ended /\ DOMAIN Started = DOMAIN NoAnswer
    BY DEF Started, NoAnswer
  <2>4. Len(calls) = 0 /\ Len(chunks) \in Nat
    <3>1. chunks \in Seq(Seq(Chars))
      BY DEF SplitInv, Spoken
    <3> QED
      BY <2>2, <3>1
  <2>5. AudioOf(audio', Len(calls')) /\ Len(calls') <= Len(chunks')
    BY <2>1, <2>2, <2>4, NoAudioYet
  <2> QED
    BY <2>1, <2>2, <2>3, <2>5, StillInside
<1>5. CASE Speak \/ SpeakStreamed
  <2>1. /\ stage = "speaking" /\ stage' = "speaking" /\ Chunk <= Len(chunks)
        /\ calls' = Append(calls, Call)
        /\ UNCHANGED <<request, model, answer, chunks, returned>>
    BY <1>5 DEF Speak, SpeakStreamed, InChunks, given, splitVars
  <2>2. calls \in Seq({Call}) /\ Len(calls) \in Nat /\ model \in Models
    BY DEF CallsAlike
  <2>3. Len(calls') = Chunk /\ Chunk = Len(calls) + 1
    BY <2>1, <2>2 DEF Chunk
  <2>4. returned /\ AudioOf(audio, Len(calls)) /\ ~answer.ended /\ DOMAIN answer = DOMAIN NoAnswer
    BY <2>1 DEF SpeechInv
  <2>5. AudioOf(audio', Chunk)
    <3>1. CASE Speak
      <4>1. PICK m \in model.yields : audio' = audio \o [i \in 1..m |-> <<Chunk, i>>]
        BY <3>1 DEF Speak
      <4>2. m \in Nat /\ ~request.stream
        BY <2>2, <3>1, RequestAssumption DEF RequestAssumption, Speak
      <4> QED
        BY <2>2, <2>3, <2>4, <4>1, <4>2, AudioGrows
    <3>2. CASE SpeakStreamed
      <4>1. audio' = Append(audio, <<Chunk, 1>>) /\ request.stream
        BY <3>2 DEF SpeakStreamed
      <4>2. audio \in Seq((1..Len(calls)) \X (Nat \ {0}))
        BY <2>4 DEF AudioOf
      <4>3. audio' = audio \o [i \in 1..1 |-> <<Chunk, i>>]
        <5>1. [i \in 1..1 |-> <<Chunk, i>>] = <<<<Chunk, 1>>>>
          OBVIOUS
        <5>2. Append(audio, <<Chunk, 1>>) = audio \o <<<<Chunk, 1>>>>
          BY <4>2, AppendIsConcat
        <5> QED
          BY <4>1, <5>1, <5>2
      <4> QED
        BY <2>2, <2>3, <2>4, <4>1, <4>3, AudioGrows
    <3> QED
      BY <1>5, <3>1, <3>2
  <2> QED
    BY <2>1, <2>3, <2>4, <2>5, StillInside
<1>6. CASE Assemble \/ EndStream
  <2>1. /\ stage = "speaking" /\ stage' = "answered" /\ Chunk > Len(chunks)
        /\ UNCHANGED <<request, model, calls, audio, chunks, returned>>
    BY <1>6 DEF Assemble, EndStream, AllSpoken, given, splitVars
  <2>2. /\ DOMAIN answer' = DOMAIN NoAnswer /\ answer'.count \in {None, Len(audio)}
    BY <1>6 DEF Assemble, EndStream, Started, NoAnswer, SpeechInv
  <2>3. returned /\ Len(calls) = Len(chunks) /\ AudioOf(audio, Len(calls))
    <3>1. returned /\ Len(calls) <= Len(chunks) /\ AudioOf(audio, Len(calls))
      BY <2>1 DEF SpeechInv
    <3>2. Len(calls) \in Nat /\ Len(chunks) \in Nat
      BY DEF CallsAlike, SplitInv, Spoken
    <3> QED
      BY <2>1, <3>1, <3>2 DEF Chunk
  <2> QED
    BY <2>1, <2>2, <2>3, AtTheEnd DEF Complete
<1>7. CASE BreakOff \/ Disconnect
  <2>1. stage = "speaking" /\ stage' = "done" /\ UNCHANGED answer
    BY <1>7 DEF BreakOff, Disconnect, InChunks
  <2>2. ~Whole' /\ DOMAIN answer' = DOMAIN NoAnswer
    BY <2>1 DEF SpeechInv, Whole
  <2> QED
    BY <2>1, <2>2 DEF SpeechInv, NoAnswer
<1>8. CASE Leave
  <2>1. /\ stage = "answered" /\ stage' = "done"
        /\ UNCHANGED <<request, model, answer, calls, audio, chunks, returned>>
    BY <1>8 DEF Leave, given, splitVars
  <2> QED
    BY <2>1, AtTheEnd DEF SpeechInv, Whole, Complete
<1>9. CASE RenderInside \/ RenderOutside
  <2>1. /\ stage \in {"raised", "escaped"} /\ stage' \in {"answered", "done"}
        /\ \E header : answer' = Failed(error, header)
        /\ UNCHANGED <<request, model, calls, audio, chunks, returned>>
    BY <1>9 DEF RenderInside, RenderOutside, given, splitVars
  <2>2. DOMAIN answer' = DOMAIN NoAnswer /\ answer'.status # 200
    BY <2>1 DEF Failed, NoAnswer, SpeechInv
  <2> QED
    BY <2>1, <2>2, AtTheEnd DEF Whole
<1> QED
  BY <1>1, <1>2, <1>3, <1>4, <1>5, <1>6, <1>7, <1>8, <1>9 DEF Next

LEMMA SpeechInvHolds == Spec => []SpeechInv
<1>1. Init => SpeechInv
  BY DEF Init, SpeechInv, Whole, NoAnswer
<1>2. SpeechInv /\ CallsAlike /\ SplitInv /\ [Next]_vars => SpeechInv'
  <2>1. ASSUME SpeechInv, UNCHANGED vars
        PROVE  SpeechInv'
    BY <2>1 DEF vars, given, splitVars, SpeechInv, Whole, Complete, AudioOf, Block, NoAnswer
  <2> QED
    BY <2>1, StepsKeepSpeechInv
<1> QED
  BY <1>1, <1>2, CallsAlikeHolds, SplitInvHolds, PTL DEF Spec

\* At the end of the text all of it is spoken.
LEMMA AllOfTheText ==
  ASSUME SplitInv, returned
  PROVE  chunks \in Seq(Seq(Chars)) /\ InOrder(chunks) /\ Letters(chunks) = Letters(text)
<1>1. /\ TextGiven /\ next = Len(text) + 1 /\ Len(text) \in Nat
      /\ chunks \in Seq(Seq(Chars)) /\ InOrder(chunks) /\ Letters(chunks) = Before(next, 1)
  BY DEF SplitInv, Spoken, TextGiven
<1>2. Before(next, 1) = Letters(text)
  <2> SUFFICES ASSUME NEW c \in Letters(text) PROVE Earlier(c, <<next, 1>>)
    BY DEF Before
  <2>1. c[1] \in 1..Len(text)
    BY <1>1, Places
  <2> QED
    BY <1>1, <2>1 DEF Earlier
<1> QED
  BY <1>1, <1>2

LEMMA CompleteIsAll ==
  ASSUME SplitInv, CallsAlike, Complete
  PROVE  LET heard == [i \in DOMAIN audio |->
                         IF audio[i][2] = 1 THEN chunks[audio[i][1]] ELSE << >>]
         IN /\ request.stream \/ model.yields = {1} =>
                 audio = [k \in DOMAIN chunks |-> <<k, 1>>] /\ Len(audio) = Len(chunks)
            /\ InOrder(heard)
            /\ request.stream \/ 0 \notin model.yields => Letters(heard) = Letters(text)
            /\ ~request.stream =>
                 \A k \in DOMAIN chunks : \E n \in model.yields : Block(audio, k, n)
<1> DEFINE heard == [i \in DOMAIN audio |->
                       IF audio[i][2] = 1 THEN chunks[audio[i][1]] ELSE << >>]
           n == Len(chunks)
<1>1. /\ chunks \in Seq(Seq(Chars)) /\ InOrder(chunks) /\ Letters(chunks) = Letters(text)
      /\ n \in Nat /\ DOMAIN chunks = 1..n /\ AudioOf(audio, n)
  BY AllOfTheText DEF Complete
<1> HIDE DEF n
<1>2. /\ \A i \in DOMAIN audio : audio[i][1] \in 1..n /\ audio[i][2] \in Nat \ {0}
      /\ DOMAIN audio = 1..Len(audio) /\ Len(audio) \in Nat
      /\ \A i, j \in DOMAIN audio : i < j => Earlier(audio[i], audio[j])
  BY <1>1 DEF AudioOf
<1>3. InOrder(heard)
  <2> SUFFICES ASSUME NEW k \in DOMAIN audio, NEW l \in DOMAIN audio,
                      NEW p \in DOMAIN heard[k], NEW q \in DOMAIN heard[l],
                      Earlier(<<k, p>>, <<l, q>>), Space \notin {heard[k][p], heard[l][q]}
               PROVE  Earlier(heard[k][p], heard[l][q])
    BY DEF InOrder
  <2> DEFINE a == audio[k][1]
             b == audio[l][1]
  <2>1. audio[k][2] = 1 /\ audio[l][2] = 1 /\ heard[k] = chunks[a] /\ heard[l] = chunks[b]
    OBVIOUS
  <2>2. k \in Nat /\ l \in Nat /\ (k < l \/ (k = l /\ p < q))
    BY <1>2 DEF Earlier
  <2>3. CASE k < l
    <3>1. a < b
      BY <1>2, <2>1, <2>3 DEF Earlier
    <3>2. Earlier(<<a, p>>, <<b, q>>) /\ a \in DOMAIN chunks /\ b \in DOMAIN chunks
      BY <1>1, <1>2, <3>1 DEF Earlier
    <3> QED
      BY <1>1, <2>1, <3>2 DEF InOrder
  <2>4. CASE k = l /\ p < q
    <3>1. Earlier(<<a, p>>, <<a, q>>) /\ a \in DOMAIN chunks
      BY <1>1, <1>2, <2>4 DEF Earlier
    <3> QED
      BY <1>1, <2>1, <2>4, <3>1 DEF InOrder
  <2> QED
    BY <2>2, <2>3, <2>4
<1>4. ASSUME ~request.stream, NEW k \in DOMAIN chunks
      PROVE  \E m \in model.yields : Block(audio, k, m)
  BY <1>1, <1>4 DEF AudioOf
<1>5. ASSUME request.stream \/ 0 \notin model.yields, NEW k \in DOMAIN chunks
      PROVE  \E i \in DOMAIN audio : audio[i] = <<k, 1>>
  <2>1. CASE request.stream
    <3>1. audio = [i \in 1..n |-> <<i, 1>>]
      BY <1>1, <2>1 DEF AudioOf
    <3> QED
      BY <1>1, <3>1
  <2>2. CASE ~request.stream
    <3>1. PICK m \in model.yields : Block(audio, k, m)
      BY <1>4, <2>2
    <3>2. m \in Nat \ {0}
      BY <1>5, <2>2, RequestAssumption DEF RequestAssumption, CallsAlike
    <3>3. PICK start \in 0..(Len(audio) - m) : \A i \in DOMAIN audio :
            IF i \in (start + 1)..(start + m) THEN audio[i] = <<k, i - start>>
            ELSE audio[i][1] # k
      BY <3>1 DEF Block
    <3>4. /\ start + 1 \in DOMAIN audio /\ start + 1 \in (start + 1)..(start + m)
          /\ (start + 1) - start = 1
      BY <1>2, <3>2, <3>3
    <3>5. audio[start + 1] = <<k, (start + 1) - start>>
      BY <3>3, <3>4
    <3> QED
      BY <3>4, <3>5
  <2> QED
    BY <2>1, <2>2
<1>6. ASSUME request.stream \/ 0 \notin model.yields
      PROVE  Letters(heard) = Letters(chunks)
  <2>1. ASSUME NEW c \in Letters(heard)
        PROVE  c \in Letters(chunks)
    <3>1. PICK i \in DOMAIN audio : c \in ToSet(heard[i]) /\ c # Space
      BY DEF Letters
    <3>2. CASE audio[i][2] = 1
      <4>1. heard[i] = chunks[audio[i][1]] /\ audio[i][1] \in DOMAIN chunks
        BY <1>1, <1>2, <3>2
      <4> QED
        BY <3>1, <4>1 DEF Letters
    <3>3. CASE audio[i][2] # 1
      <4>1. heard[i] = << >>
        BY <3>3
      <4> QED
        BY <3>1, <4>1 DEF ToSet
    <3> QED
      BY <3>2, <3>3
  <2>2. ASSUME NEW c \in Letters(chunks)
        PROVE  c \in Letters(heard)
    <3>1. PICK k \in DOMAIN chunks : c \in ToSet(chunks[k]) /\ c # Space
      BY DEF Letters
    <3>2. PICK i \in DOMAIN audio : audio[i] = <<k, 1>>
      BY <1>5, <1>6
    <3>3. heard[i] = chunks[k]
      BY <3>2
    <3> QED
      BY <3>1, <3>3 DEF Letters
  <2> QED
    BY <2>1, <2>2
<1>7. ASSUME request.stream \/ model.yields = {1}
      PROVE  audio = [k \in DOMAIN chunks |-> <<k, 1>>] /\ Len(audio) = n
  <2>1. audio = [k \in 1..n |-> <<k, 1>>]
    BY <1>1, <1>7 DEF AudioOf
  <2>2. 1..Len(audio) = 1..n
    BY <1>2, <2>1
  <2> QED
    BY <1>1, <1>2, <2>1, <2>2
<1> QED
  BY <1>1, <1>3, <1>4, <1>6, <1>7 DEF n

\* _run_synthesis and _stream_synthesis_chunks, for every text, model and
\* request: what an answer that ends as a success has of the text; from a model
\* of one result for a chunk, one piece for each, in order, and their number.
THEOREM AnswersFollowText == Spec => []AnswerFollowsText
<1>1. SplitInv /\ CallsAlike /\ SpeechInv => AnswerFollowsText
  BY CompleteIsAll DEF SpeechInv, AnswerFollowsText, Block
<1> QED
  BY <1>1, SplitInvHolds, CallsAlikeHolds, SpeechInvHolds, PTL
=============================================================================
