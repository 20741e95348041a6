--------------------------- MODULE VoiceArguments ---------------------------
(***************************************************************************)
(* How the three providers call a model: which of its parameters carry the *)
(* voice (voice_args.py), and what happens when the model rejects them     *)
(* (synthesize_chunks of each provider).                                   *)
(*                                                                         *)
(* A call of generate() is a function from parameter names to values.  A   *)
(* model is third-party code, described by a record:                       *)
(*   provider  - the provider that loaded it                               *)
(*   signature - the parameters inspect.signature reports, or Opaque       *)
(*   accepts   - those a call may give without a TypeError                 *)
(*   rejects   - the ways of naming a voice that it asserts against ...    *)
(*   lazy      - ... and whether only once its results are iterated        *)
(*   yields    - how many results a call may give                          *)
(***************************************************************************)
EXTENDS Naturals, SequencesExt

Opaque == {}
Styles == {"named", "clone", "plain"}

VoiceNameAliases == <<"voice", "voice_id", "speaker">>
RefAudioAliases == <<"ref_audio", "reference_audio">>
RefTextAliases == <<"ref_text", "reference_text">>
LanguageAliases == <<"lang_code", "language", "lang">>
TemperatureAliases == <<"temperature">>
TopPAliases == <<"top_p", "topP">>

\* What each provider takes for the signature when it cannot be inspected.
DefaultParams ==
  [mlx_audio |-> {"text", "voice", "ref_audio", "ref_text"},
   voxtral |-> {"text", "ref_audio", "ref_text"},
   vllm_omni |-> {"text"} \cup ToSet(VoiceNameAliases)
                 \cup ToSet(RefAudioAliases) \cup ToSet(RefTextAliases)]

SignatureParams(model) ==
  IF model.signature = Opaque THEN DefaultParams[model.provider] ELSE model.signature

\* (faulty: the first alias, whether or not the model knows it)
FirstName(candidates, params) == {candidates[1]}

\* The set of the first supported name of an alias list, empty if there is
\* none.
FirstSupportedName(candidates, params) ==
  {candidates[i] : i \in {j \in DOMAIN candidates :
     candidates[j] \in params /\ \A k \in 1..(j - 1) : candidates[k] \notin params}}

Args(candidates, value, params) == [p \in FirstSupportedName(candidates, params) |-> value]
NoArgs == << >>

\* {**kwargs, **more}
Update(kwargs, more) ==
  [p \in DOMAIN kwargs \cup DOMAIN more |-> IF p \in DOMAIN more THEN more[p] ELSE kwargs[p]]

\* A voice in a request: its id, the temporary file with its reference
\* audio, its transcript; and what generation options it comes with.
NamedVoiceArgs(voice, params) == Args(VoiceNameAliases, voice.name, params)

CloneVoiceArgs(voice, params) ==
  Update(Args(RefAudioAliases, voice.audio, params),
         Args(RefTextAliases, voice.transcript, params))

\* select_voice_args, which every caller tells to prefer cloning.
SelectVoiceArgs(voice, params) ==
  LET clone == CloneVoiceArgs(voice, params)
      named == NamedVoiceArgs(voice, params)
      selected == IF clone # NoArgs THEN clone ELSE named
  IN [primary |-> selected, fallback |-> clone,
      usedNamed |-> selected # NoArgs /\ selected = named]

GenerationArgs(voice, params) ==
  Update(Args(LanguageAliases, voice.language, params),
         Update(Args(TemperatureAliases, voice.temperature, params),
                Args(TopPAliases, voice.topP, params)))

TextArgs == [p \in {"text"} |-> "chunk"]

\* The arguments of a call whose way of naming the voice is still open.
Rest(voice, params) == Update(TextArgs, GenerationArgs(voice, params))
-----------------------------------------------------------------------------
(* One call, and what a provider makes of its outcome *)

\* How a call tells the model whose voice to speak with.
Style(kwargs) ==
  IF DOMAIN kwargs \cap ToSet(RefAudioAliases) # {} THEN "clone"
  ELSE IF DOMAIN kwargs \cap ToSet(VoiceNameAliases) # {} THEN "named"
  ELSE "plain"

\* model.generate(**kwargs); the body of a generator runs at the first
\* iteration, outside the provider's except clause.
Generate(model, kwargs) ==
  IF ~(DOMAIN kwargs \subseteq model.accepts) THEN "raises"
  ELSE IF Style(kwargs) \notin model.rejects THEN "speaks"
  ELSE IF model.lazy THEN "raises" ELSE "asserts"

Outcome(model, kwargs) == [kwargs |-> kwargs, result |-> Generate(model, kwargs)]
Rejected == [kwargs |-> NoArgs, result |-> "invalid_request"]

\* The same where nothing catches an AssertionError.
Unguarded(model, kwargs) ==
  LET call == Outcome(model, kwargs)
  IN IF call.result = "asserts" THEN [call EXCEPT !.result = "raises"] ELSE call

\* MlxAudioTTSProvider: a voice is required; a named one that is rejected
\* is tried again as a clone.
MlxAudioCall(model, voice) ==
  LET params == SignatureParams(model)
      rest == Rest(voice, params)
      selection == SelectVoiceArgs(voice, params)
      first == Outcome(model, Update(rest, selection.primary))
  IN IF selection.primary = NoArgs THEN Rejected
     ELSE IF first.result # "asserts" THEN first
     ELSE IF selection.usedNamed /\ selection.fallback # NoArgs
     THEN Unguarded(model, Update(rest, selection.fallback))
     ELSE Rejected

\* VoxtralTTSProvider: cloning only, under fixed names; an assertion is an
\* exception like any other.
VoxtralCall(model, voice) ==
  LET fixed == [p \in {"ref_audio", "ref_text"} |->
                 IF p = "ref_audio" THEN voice.audio ELSE voice.transcript]
  IN Unguarded(model, Update(fixed, Rest(voice, SignatureParams(model))))

\* VllmOmniTTSProvider: as mlx_audio, but a voice is not required, and a
\* named one that is rejected is given up.
VllmOmniCall(model, voice) ==
  LET params == SignatureParams(model)
      rest == Rest(voice, params)
      selection == SelectVoiceArgs(voice, params)
      first == Outcome(model, Update(rest, selection.primary))
  IN IF first.result # "asserts" THEN first
     ELSE IF ~selection.usedNamed THEN Rejected
     ELSE IF selection.fallback # NoArgs
     THEN Unguarded(model, Update(rest, selection.fallback))
     ELSE Unguarded(model, rest)

ProviderCall(model, voice) ==
  IF model.provider = "mlx_audio" THEN MlxAudioCall(model, voice)
  ELSE IF model.provider = "voxtral" THEN VoxtralCall(model, voice)
  ELSE VllmOmniCall(model, voice)
=============================================================================
