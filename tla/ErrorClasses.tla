----------------------------- MODULE ErrorClasses -----------------------------
(***************************************************************************)
(* What an error of the model call is taken for, and what is done about    *)
(* it: engine/error_classifier.py.                                         *)
(*                                                                         *)
(* An error is the set of the phrases, among those that the classifier     *)
(* looks for, that its text contains in lower case; capitalized ones are   *)
(* found in the name of its type.                                          *)
(***************************************************************************)
EXTENDS Naturals, FiniteSetsExt

Rule(reason, any) == [reason |-> reason, any |-> any]

\* Each of the phrases alone.
AnyOf(phrases) == {{phrase} : phrase \in phrases}

\* One of the phrases, and one of the others.
Both(phrases, others) == {{a, b} : a \in phrases, b \in others}

Late == {"timeout", "timed out"}

\* The branches of classify, in their order: the first that applies decides.
Rules == <<
  Rule("ssl_cert_verification", Both({"ssl"}, {"cert", "verify"})),
  Rule("sandbox_timeout", Both(Late, {"sandbox", "subprocess"})),
  Rule("tool_timeout", Both(Late, {"tool"})),
  Rule("api_timeout", AnyOf(Late)),
  Rule("api_rate_limit", AnyOf({"rate limit", "429"})),
  Rule("api_overloaded", AnyOf({"overloaded", "529"})),
  Rule("api_content_policy", AnyOf({"content_policy", "content policy", "content filter"})),
  Rule("api_auth_error", AnyOf({"auth", "401", "403", "api key"})),
  Rule("api_not_found", {{"404"}, {"model", "not found"}}),
  Rule("api_bad_request", AnyOf({"400", "bad request", "invalid_request"})),
  Rule("api_server_error",
       AnyOf({"500", "502", "503", "internal server error", "InternalServerError"})),
  Rule("api_connection_error", AnyOf({"connection", "ConnectionError", "ConnectionReset"})),
  Rule("max_tokens_exceeded", AnyOf({"max_tokens", "max output", "output too long"})),
  Rule("context_window_exceeded",
       AnyOf({"context length", "context window", "too long", "maximum context"})),
  Rule("permission_denied", AnyOf({"permission", "PermissionError"})),
  Rule("sandbox_unavailable", Both({"sandbox"}, {"unavailable", "not running"})),
  Rule("tool_not_found", {{"tool", "not found"}}),
  Rule("tool_validation_error", AnyOf({"validation", "invalid argument", "ValidationError"})),
  Rule("tool_execution_error", Both({"tool"}, {"error", "failed"})),
  Rule("json_decode_error", Both({"json"}, {"decode", "parse"})),
  Rule("format_error", AnyOf({"format", "FormatError"})),
  Rule("database_error", AnyOf({"sqlite", "database", "DatabaseError"})),
  Rule("cost_limit_exceeded", {{"cost", "limit"}}) >>

Applies(rule, error) == \E phrases \in rule.any : phrases \subseteq error

Classify(error) ==
  LET hits == {i \in DOMAIN Rules : Applies(Rules[i], error)} IN
  IF hits = {} THEN "unknown" ELSE Rules[Min(hits)].reason

\* The members of FailoverReason that classify gives, and "none" for no error.
Reasons == {"none", "unknown"} \cup {Rules[i].reason : i \in DOMAIN Rules}

-----------------------------------------------------------------------------
(* _STRATEGY_MAP; what it does not say is CONTINUE.                          *)

\* Mutant: a refused key is tried again.
Strategy_AuthRetried(reason) ==
  CASE reason \in {"api_timeout", "api_rate_limit", "api_connection_error", "api_server_error",
                   "api_overloaded", "sandbox_timeout", "database_error", "api_auth_error"} -> "retry"
    [] reason \in {"api_bad_request", "tool_validation_error", "max_tokens_exceeded",
                   "format_error", "json_decode_error"} -> "requery"
    [] reason = "context_window_exceeded" -> "compact"
    [] reason \in {"api_content_policy", "api_not_found",
                   "ssl_cert_verification", "permission_denied", "sandbox_unavailable",
                   "cost_limit_exceeded"} -> "abort"
    [] OTHER -> "continue"

Strategy(reason) ==
  CASE reason \in {"api_timeout", "api_rate_limit", "api_connection_error", "api_server_error",
                   "api_overloaded", "sandbox_timeout", "database_error"} -> "retry"
    [] reason \in {"api_bad_request", "tool_validation_error", "max_tokens_exceeded",
                   "format_error", "json_decode_error"} -> "requery"
    [] reason = "context_window_exceeded" -> "compact"
    [] reason \in {"api_content_policy", "api_auth_error", "api_not_found",
                   "ssl_cert_verification", "permission_denied", "sandbox_unavailable",
                   "cost_limit_exceeded"} -> "abort"
    [] OTHER -> "continue"

\* _RETRYABLE_REASONS, of which retryable and max_retries are made
Retryable ==
  {"api_timeout", "api_rate_limit", "api_connection_error", "api_server_error",
   "api_overloaded", "sandbox_timeout", "database_error"}

\* _NEVER_RETRY_REASONS
NeverRetry ==
  {"api_content_policy", "api_auth_error", "api_not_found", "ssl_cert_verification",
   "permission_denied", "sandbox_unavailable", "cost_limit_exceeded"}

=============================================================================
