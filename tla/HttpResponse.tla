---------------------------- MODULE HttpResponse ----------------------------
(***************************************************************************)
(* How the device reads an HTTP answer (src/src/internal/http_client.cpp,  *)
(* Handle_response).  A response is represented by its status code; the    *)
(* code TransportError stands for a response whose error flag is set, one  *)
(* that carries no HTTP status at all (connection refused, deadline        *)
(* exceeded, ...).                                                         *)
(***************************************************************************)
EXTENDS Naturals

TransportError == 0

QdmiErrors == {"FATAL", "PERMISSIONDENIED", "NOTFOUND", "TIMEOUT",
               "INVALIDARGUMENT", "BADSTATE", "NOTSUPPORTED", "OUTOFRANGE"}

QdmiCodes == {"SUCCESS"} \cup QdmiErrors

Is2xx(code) == code \in 200..299

\* The QDMI status a request with this answer is reported as.
Handle_response(code) ==
  CASE code = TransportError                        -> "FATAL"
    [] Is2xx(code)                                  -> "SUCCESS"
    [] code \in {401, 403}                          -> "PERMISSIONDENIED"
    [] code = 404                                   -> "NOTFOUND"
    [] code \in {408, 504}                          -> "TIMEOUT"
    [] code \in {400, 402} \cup 405..407 \cup 409..499 -> "INVALIDARGUMENT"
    [] OTHER                                        -> "FATAL"

=============================================================================
