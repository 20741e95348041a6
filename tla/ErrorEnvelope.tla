---------------------------- MODULE ErrorEnvelope ----------------------------
(***************************************************************************)
(* The identity of a request (observability/request_id.py) and the answer  *)
(* to one that fails (errors.py): pure operators.                          *)
(*                                                                         *)
(* Starlette (external) nests, from the outside in: ServerErrorMiddleware, *)
(* with the handler registered for Exception; RequestIDMiddleware;         *)
(* ExceptionMiddleware, with the other handlers; the routes.               *)
(***************************************************************************)
EXTENDS Naturals, Sequences

CONSTANTS
  SafeIds,  \* the clients' X-Request-ID values that _SAFE_REQUEST_ID_RE matches
  NoId      \* the empty string: outside a request

ASSUME EnvelopeAssumption == NoId \notin SafeIds

\* _resolve_request_id, given the values of the X-Request-ID headers in
\* their order: the first one decides.
ResolveRequestId(headers, fresh) ==
  IF headers # << >> /\ headers[1] \in SafeIds THEN headers[1] ELSE fresh

\* An exception: an OpenAIHTTPException with its status, category and code;
\* a bare HTTPException with its status; or of one of the other two kinds.
Typed(status, category, code) ==
  [kind |-> "typed", status |-> status, category |-> category, code |-> code]
Bare(status) == [kind |-> "http", status |-> status]
Validation == [kind |-> "validation"]
Unexpected == [kind |-> "other"]

\* The factories of errors.py, at the status their callers use.
InvalidRequest(code) == Typed(400, "validation_error", code)
InternalError == Typed(500, "internal_error", "unexpected_error")
QueueFull == Typed(429, "capacity_error", "queue_full")
VoiceNotFound == Typed(404, "voice_error", "voice_not_found")
VoiceBlobMissing == Typed(422, "voice_error", "voice_blob_missing")
NotImplemented == Typed(501, "validation_error", "not_implemented")

\* http_exception_handler
HttpCategory(status) ==
  CASE status = 404 -> <<"validation_error", "not_found">>
    [] status = 405 -> <<"validation_error", "method_not_allowed">>
    [] status \in {502, 503, 504} -> <<"capacity_error", "service_unavailable">>
    [] status \in {400, 422} -> <<"validation_error", "invalid_parameter">>
    [] OTHER -> <<"internal_error", "unexpected_error">>

\* _envelope_response: status, category and code of the body (the code also
\* in X-Error-Code), and the request id as the handler sees it.
Envelope(status, category, code, context) ==
  [status |-> status, type |-> category, code |-> code, requestId |-> context]

\* The handler of the exception's class.
ErrorResponse(exc, context) ==
  IF exc.kind = "typed" THEN Envelope(exc.status, exc.category, exc.code, context)
  ELSE IF exc.kind = "http"
  THEN Envelope(exc.status, HttpCategory(exc.status)[1], HttpCategory(exc.status)[2], context)
  ELSE IF exc.kind = "validation"
  THEN Envelope(422, "validation_error", "invalid_parameter", context)
  ELSE Envelope(500, "internal_error", "unexpected_error", context)

\* ExceptionMiddleware has a handler for it.
HandledInside(exc) == exc.kind # "other"
=============================================================================
