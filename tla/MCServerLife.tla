---------------------------- MODULE MCServerLife ----------------------------
(* Instances of ServerLife for TLC: two presets, a and b, of which a is the *)
(* default one; m is allowed everywhere, n for voxtral only.                *)
EXTENDS ServerLife, TLC

CONSTANTS a, b, m, n, r1, r2

MCDefault == [p \in Providers |-> m]
MCConfigured == [p \in Providers |-> IF p = "voxtral" THEN {n} ELSE {}]

Pin(p, x) == [provider |-> p, model |-> x]
Plain == Pin(None, None)

\* Two good files with the same names, one with fewer; one without the
\* default preset, and one with a pin that validation must refuse.
Pinned == (a :> Plain) @@ (b :> Pin("voxtral", n))
Repinned == (a :> Pin("mlx_audio", None)) @@ (b :> Pin("mlx_audio", m))
OnlyDefault == a :> Pin(None, n)
NoDefault == b :> Plain
WrongModel == (a :> Plain) @@ (b :> Pin("mlx_audio", n))

Call(preset, p, x) == [preset |-> preset, provider |-> p, model |-> x]

MCDocuments == {Pinned, Repinned, OnlyDefault, NoDefault, WrongModel, Malformed}
MCCalls == (r1 :> {Call(b, None, None)}) @@ (r2 :> {})

Speech(p, x, wav) == [provider |-> p, model |-> x, wav |-> wav]
MCSpeechCalls ==
  (r1 :> {}) @@ (r2 :> {Speech(Blank, Blank, TRUE), Speech(None, n, FALSE)})

\* Apple and NVIDIA machines, with preloads that a cache of one cannot all
\* keep and a cap of concurrent requests that is raised to one, and those
\* that must not start.
Knob == [chars |-> None, concurrent |-> 2, queue |-> 0, cache |-> None, drain |-> 2,
         floor |-> Blank, upload |-> None, timeout |-> 5, metadata |-> Blank, dsn |-> None,
         blob |-> None, bucket |-> None]
Bare == [torch |-> FALSE, mps |-> FALSE, cuda |-> FALSE, apple |-> FALSE]
Env(d, host, p, safe, preload) ==
  [device |-> d, host |-> host, provider |-> p, safe |-> safe, preload |-> preload,
   knobs |-> Knob]
Set(field, raw) == [Env("mps", Bare, "auto", TRUE, << >>) EXCEPT !.knobs[field] = raw]
Pair(p, x) == [provider |-> p, model |-> x]
MCEnvironments ==
  {Env("auto", [Bare EXCEPT !.apple = TRUE], "auto", TRUE,
       <<Pair("voxtral", n), Pair("voxtral", m)>>),
   Env(Blank, [Bare EXCEPT !.torch = TRUE, !.cuda = TRUE], "voxtral", TRUE, << >>),
   [Env("cuda", Bare, "auto", TRUE, <<Pair("vllm-omni", m), Pair("voxtral", n)>>) EXCEPT
      !.knobs = [Knob EXCEPT !.concurrent = 0, !.cache = 2, !.drain = 0, !.metadata = "postgres",
                             !.dsn = "dsn", !.blob = "s3", !.bucket = "bucket"]],
   Env("auto", Bare, Blank, TRUE, << >>),
   Env("mps", Bare, "vllm-omni", TRUE, << >>),
   Env("mps", Bare, "voxtral", FALSE, << >>),
   Env("mps", Bare, "auto", TRUE, <<Pair("mlx_audio", n)>>),
   Env(Unknown, Bare, "auto", TRUE, << >>), Set("chars", Blank), Set("chars", 255),
   Set("concurrent", Junk), Set("queue", -1), Set("cache", 0), Set("timeout", 0),
   Set("metadata", "postgres"), Set("blob", "s3"), Set("upload", Junk)}
=============================================================================
