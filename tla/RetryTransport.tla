--------------------------- MODULE RetryTransport ---------------------------
(***************************************************************************)
(* The decisions of retry.Transport (internal/retry/transport.go), which   *)
(* every provider's HTTP client is wrapped in: one request is sent up to   *)
(* 1 + MaxRetries times. The callers' modules take the steps.              *)
(***************************************************************************)
EXTENDS Integers

CONSTANT MaxRetries     \* 3 in the code (defaultMaxRetries)

ASSUME RetryAssumption == MaxRetries \in Nat

\* What comes back for one attempt: 2xx, 429, 502 to 504, another status, an error
\* of the connection or of a name server, an error of another kind.
Answer == {"ok", "rateLimited", "unavailable", "refused", "connection", "error"}

Idempotent == {"GET", "HEAD", "PUT", "DELETE", "OPTIONS"}

\* The request's body can be sent again, and its context is not done.
ShouldRetry(method, answer, attempt) ==
    /\ attempt < MaxRetries
    /\ \/ answer \in {"connection", "rateLimited"}
       \/ answer = "unavailable" /\ method \in Idempotent

\* What the server may do with a request that is answered so: apply it, not apply it,
\* or apply it after the caller has given it up.
Effects(answer) ==
    CASE answer = "ok"                          -> {"applied"}
      [] answer \in {"rateLimited", "refused"}  -> {"ignored"}
      [] OTHER                                  -> {"applied", "ignored", "late"}
===============================================================================
