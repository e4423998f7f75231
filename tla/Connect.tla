------------------------------- MODULE Connect -------------------------------
(***************************************************************************)
(* From NewClient to a session or an error: the options and defaults of    *)
(* client.go and options.go, the URL and the headers of the handshake, the *)
(* one dial of Connect, and the error it returns.  Durations and sizes are *)
(* small integers.  A string is a sequence of words, "sp" the blank ones;  *)
(* a base URL is Nil when it is blank, Bad when it does not parse.         *)
(***************************************************************************)
EXTENDS Policy, Sequences, FiniteSetsExt

CONSTANTS
  Nil, Bad,
  Keys,            \* arguments of NewClient
  Options,         \* its options: the fields each sets
  MaxOptions,      \* bound: options of a client
  Models,          \* config.Model of Connect, Nil when it is blank
  DefaultURL, DefaultModel, DefaultConnectTimeout, DefaultWriteTimeout,
  DefaultReadLimit, DefaultAttempts,
  Statuses         \* HTTP statuses of a refused handshake

(* The fields of clientConfig that are numbers *)
Numbers ==
  {"connectTimeout", "writeTimeout", "readTimeout", "readLimit", "attempts", "base", "max"}

ASSUME ConnectAssumption ==
  /\ DefaultBase \in Nat \ {0} /\ DefaultMax \in Nat /\ DefaultBase <= DefaultMax
  /\ DefaultConnectTimeout \in Nat /\ DefaultAttempts \in Nat
  /\ DefaultWriteTimeout \in Nat \ {0} /\ DefaultReadLimit \in Nat \ {0}
  /\ \A option \in Options : \A f \in DOMAIN option \cap Numbers : option[f] \in Int
  /\ \A option \in Options : "key" \notin DOMAIN option
  /\ Keys \subseteq Seq(STRING)
  /\ Statuses \subseteq Nat

VARIABLES
  config,     \* clientConfig
  stage,      \* "options", then what Connect is at, then "connected" or "failed"
  options,    \* how many options have been applied
  model,      \* the session's model
  url,        \* what buildRealtimeURL made, or Nil
  transport,  \* the transport's Config: the numbers, the headers, or Nil
  dialErr,    \* what transportws.Dial returned, or Nil
  result,     \* the error Connect returned, or Nil
  wanted      \* history: clientConfig as the options left it

connectVars == <<config, stage, options, model, url, transport, dialErr, result, wanted>>

(* strings.TrimSpace *)
Trim(s) ==
  LET words == {i \in DOMAIN s : s[i] # "sp"}
  IN  IF words = {} THEN <<>> ELSE SubSeq(s, Min(words), Max(words))

-----------------------------------------------------------------------------
(* NewClient *)

Defaults(key) ==
  [key |-> Trim(key), workspace |-> <<>>, baseURL |-> DefaultURL,
   connectTimeout |-> DefaultConnectTimeout, writeTimeout |-> DefaultWriteTimeout,
   readTimeout |-> 0, readLimit |-> DefaultReadLimit, attempts |-> DefaultAttempts,
   base |-> DefaultBase, max |-> DefaultMax]

ConnectInit ==
  /\ \E key \in Keys : config = Defaults(key)
  /\ stage = "options" /\ options = 0 /\ model = Nil
  /\ url = Nil /\ transport = Nil /\ dialErr = Nil /\ result = Nil /\ wanted = Nil

(* An Option overwrites its fields, whatever an earlier one has set. *)
Apply(option) ==
  /\ stage = "options" /\ options < MaxOptions
  /\ options' = options + 1
  /\ config' = [f \in DOMAIN config |-> IF f \in DOMAIN option THEN option[f] ELSE config[f]]
  /\ UNCHANGED <<stage, model, url, transport, dialErr, result, wanted>>

\* Mutant: the end of the backoff window is not compared with its start.
CorrectedWindowOpen(c) ==
  [c EXCEPT !.connectTimeout = IF @ < 0 THEN DefaultConnectTimeout ELSE @,
            !.writeTimeout = IF @ <= 0 THEN DefaultWriteTimeout ELSE @,
            !.readTimeout = IF @ < 0 THEN 0 ELSE @,
            !.readLimit = IF @ <= 0 THEN DefaultReadLimit ELSE @,
            !.attempts = IF @ < 0 THEN 0 ELSE @,
            !.base = IF @ <= 0 THEN DefaultBase ELSE @]

\* Mutant: no attempts are taken for the default.
CorrectedAttempts(c) ==
  LET d == CorrectedWindowOpen(c)
  IN  [d EXCEPT !.attempts = IF @ <= 0 THEN DefaultAttempts ELSE @,
                !.max = IF @ < d.base THEN d.base ELSE @]

\* Mutant: a negative connect timeout is left to the transport.
CorrectedTimeoutLate(c) ==
  LET d == CorrectedWindowOpen(c)
  IN  [d EXCEPT !.connectTimeout = c.connectTimeout,
                !.max = IF @ < d.base THEN d.base ELSE @]

(* The corrections at the end of NewClient *)
Corrected(c) ==
  LET base == IF c.base <= 0 THEN DefaultBase ELSE c.base
  IN  [c EXCEPT !.connectTimeout = IF @ < 0 THEN DefaultConnectTimeout ELSE @,
                !.writeTimeout = IF @ <= 0 THEN DefaultWriteTimeout ELSE @,
                !.readTimeout = IF @ < 0 THEN 0 ELSE @,
                !.readLimit = IF @ <= 0 THEN DefaultReadLimit ELSE @,
                !.attempts = IF @ < 0 THEN 0 ELSE @,
                !.base = base,
                !.max = IF @ < base THEN base ELSE @]

NewClient ==
  /\ stage = "options"
  /\ wanted' = config
  /\ config' = Corrected(config)
  /\ stage' = "client"
  /\ UNCHANGED <<options, model, url, transport, dialErr, result>>

-----------------------------------------------------------------------------
(* errors.go *)

ApiError(code, status) == [code |-> code, status |-> status]

\* Mutant: a status without a code of its own is the caller's fault.
CodeDefaultsToParameter(status) ==
  CASE status = 401 -> "InvalidApiKey" [] status = 403 -> "AccessDenied"
    [] status = 404 -> "ModelNotFound" [] status = 429 -> "RateLimitExceeded"
    [] status = 500 -> "InternalError" [] status \in {502, 503, 504} -> "ServiceBusy"
    [] OTHER -> "InvalidParameter"

MapHTTPStatusToErrorCode(status) ==
  CASE status = 400 -> "InvalidParameter"
    [] status = 401 -> "InvalidApiKey"
    [] status = 403 -> "AccessDenied"
    [] status = 404 -> "ModelNotFound"
    [] status = 429 -> "RateLimitExceeded"
    [] status = 500 -> "InternalError"
    [] status \in {502, 503, 504} -> "ServiceBusy"
    [] OTHER -> "ConnectionFailed"

IsRateLimit(e) == e.code \in {"RateLimitExceeded", "QuotaExceeded"}
IsServerError(e) == e.code \in {"InternalError", "ServiceBusy"}
Retryable(e) == IsRateLimit(e) \/ IsServerError(e) \/ e.code = "ConnectionFailed"

(* IsRetryable of the transport, for the errors a dial has *)
IsRetryable(e) ==
  /\ e.cause \notin {"canceled", "deadline"}
  /\ e.status \notin 400 .. 499 \ {429}

(* A dial that got no answer has no status, which counts as 503.  Dial
   returns nothing but ConnectErrors. *)
MapConnectError(e) ==
  IF e.type # "ConnectError" THEN ApiError("ConnectionFailed", 503)
  ELSE LET status == IF e.status <= 0 THEN 503 ELSE e.status
       IN  ApiError(MapHTTPStatusToErrorCode(status), status)

-----------------------------------------------------------------------------
(* Connect *)

Failed(e) == stage' = "failed" /\ result' = e

StartConnect(m) ==
  /\ stage = "client"
  /\ model' = IF m = Nil THEN DefaultModel ELSE m
  /\ stage' = "url"
  /\ UNCHANGED <<config, options, url, transport, dialErr, result, wanted>>

(* query.Set keeps the other parameters of the base URL. *)
BuildRealtimeURL ==
  /\ stage = "url"
  /\ IF config.baseURL \in {Nil, Bad} \/ config.baseURL.scheme \notin {"ws", "wss"}
     THEN Failed(ApiError("InvalidParameter", 400)) /\ UNCHANGED url
     ELSE /\ url' = [config.baseURL EXCEPT
                       !.query = [p \in DOMAIN @ \cup {"model"} |->
                                    IF p = "model" THEN model ELSE @[p]]]
          /\ stage' = "headers"
          /\ UNCHANGED result
  /\ UNCHANGED <<config, options, model, transport, dialErr, wanted>>

HasScheme(key) == Len(key) > 1 /\ key[1] \in {"bearer", "Bearer"} /\ key[2] = "sp"

Authorization(key) ==
  IF HasScheme(Trim(key)) THEN Trim(key) ELSE <<"bearer", "sp">> \o Trim(key)

(* normalizeConfig of the transport *)
NormalizeConfig(c) ==
  [c EXCEPT !.handshakeTimeout = IF @ < 0 THEN 0 ELSE @,
            !.writeTimeout = IF @ < 0 THEN 0 ELSE @,
            !.readTimeout = IF @ < 0 THEN 0 ELSE @,
            !.readLimit = IF @ <= 0 THEN DefaultReadLimit ELSE @,
            !.attempts = IF @ < 0 THEN 0 ELSE @,
            !.backoff = Normalized(@)]

(* The transport's Config that Connect fills in *)
TransportConfig ==
  [authorization |-> Authorization(config.key), workspace |-> Trim(config.workspace),
   handshakeTimeout |-> config.connectTimeout, writeTimeout |-> config.writeTimeout,
   readTimeout |-> config.readTimeout, readLimit |-> config.readLimit,
   attempts |-> config.attempts,
   backoff |-> [base |-> config.base, max |-> config.max, factor |-> 2]]

(* BuildHeaders, and the beginning of Dial *)
BuildHeaders ==
  /\ stage = "headers"
  /\ IF Trim(config.key) = <<>>
     THEN Failed(ApiError("InvalidApiKey", 401)) /\ UNCHANGED transport
     ELSE /\ transport' = NormalizeConfig(TransportConfig)
          /\ stage' = "dial"
          /\ UNCHANGED result
  /\ UNCHANGED <<config, options, model, url, dialErr, wanted>>

DialSucceeds ==
  /\ stage = "dial"
  /\ stage' = "connected"
  /\ UNCHANGED <<config, options, model, url, transport, dialErr, result, wanted>>

\* Mutant: an error that comes without a response is passed on as it is.
DialErrorBare(cause, status) ==
  [type |-> IF status = 0 THEN "error" ELSE "ConnectError", cause |-> cause, status |-> status]

DialError(cause, status) == [type |-> "ConnectError", cause |-> cause, status |-> status]

DialFails(cause, status) ==
  /\ stage = "dial"
  /\ dialErr' = DialError(cause, status)
  /\ Failed(MapConnectError(dialErr'))
  /\ UNCHANGED <<config, options, model, url, transport, wanted>>

(* The server refuses the handshake, or answers it wrongly. *)
Refused == \E status \in Statuses : DialFails("handshake", status)

(* The network is in the way, or the caller's context ends. *)
NoAnswer == \E cause \in {"network", "canceled", "deadline"} : DialFails(cause, 0)

(* dialCtx ends: withTimeout sets a timer for a positive timeout only. *)
HandshakeTimesOut ==
  /\ stage = "dial" /\ transport.handshakeTimeout > 0
  /\ DialFails("deadline", 0)

Over == stage \in {"connected", "failed"} /\ UNCHANGED connectVars

ConnectNext ==
  \/ \E option \in Options : Apply(option)
  \/ NewClient
  \/ \E m \in Models : StartConnect(m)
  \/ BuildRealtimeURL \/ BuildHeaders
  \/ DialSucceeds \/ Refused \/ NoAnswer \/ HandshakeTimesOut
  \/ Over

(* Connect runs, and a timer that is set fires; the server owes nothing. *)
ConnectSpec ==
  /\ ConnectInit /\ [][ConnectNext]_connectVars
  /\ WF_connectVars(BuildRealtimeURL \/ BuildHeaders)
  /\ WF_connectVars(HandshakeTimesOut)

-----------------------------------------------------------------------------
(* Three layers correct the settings: NewClient, normalizeConfig (conn.go:258)
   and BackoffPolicy.normalized.  The lower two find nothing to correct, so
   what a Client's configuration says is what its sessions use. *)
ConfigSettled ==
  transport # Nil =>
    /\ transport = TransportConfig
    /\ 0 < transport.backoff.base /\ transport.backoff.base <= transport.backoff.max
    /\ transport.writeTimeout > 0 /\ transport.readLimit > 0

(* What comes after the scheme *)
Secret(s) == IF HasScheme(s) THEN SubSeq(s, 3, Len(s)) ELSE s

(* A setting in its range reaches the transport as the application wants it
   (options.go:75-113): attempts of 0 stay 0 and disable reconnect, timeouts
   of 0 stay unset but for the write timeout, a window is kept, and the server
   sees the scheme of the key once, whether the key has it or not
   (signer.go:26-29). *)
SettingsHonoured ==
  transport # Nil =>
    /\ HasScheme(transport.authorization)
    /\ Secret(transport.authorization) = Secret(config.key)
    /\ wanted.attempts >= 0 => transport.attempts = wanted.attempts
    /\ wanted.connectTimeout >= 0 => transport.handshakeTimeout = wanted.connectTimeout
    /\ wanted.readTimeout >= 0 => transport.readTimeout = wanted.readTimeout
    /\ wanted.writeTimeout > 0 => transport.writeTimeout = wanted.writeTimeout
    /\ wanted.base > 0 => transport.backoff.base = wanted.base
    /\ wanted.base > 0 /\ wanted.max >= wanted.base => transport.backoff.max = wanted.max

(* An Error is made in four places (session.go:66-76, errors.go:96,
   session.go:410-435): in each its code is the one errors.go:104 gives its
   status, so an application may go by either. *)
CodeMatchesStatus == result # Nil => result.code = MapHTTPStatusToErrorCode(result.status)

(* Retryable of the Error and IsRetryable of the transport's error, which
   know nothing of each other (errors.go:79, conn.go:212): what the transport
   takes for transient the application is told to retry.  The converse fails
   for a 4xx status without a code of its own and for a context that ended. *)
RetryAdvice ==
  dialErr # Nil =>
    /\ IsRetryable(dialErr) => Retryable(result)
    /\ Retryable(result) /\ ~IsRetryable(dialErr) =>
         \/ dialErr.cause \in {"canceled", "deadline"}
         \/ dialErr.status \in 400 .. 499 \ {400, 401, 403, 404, 429}

(* Connect returns whatever the server does, unless the application has asked
   for no connect timeout (conn.go:308-313; a negative one is not that). *)
ConnectReturns ==
  stage \in {"url", "headers", "dial"} /\ wanted.connectTimeout # 0
    ~> stage \in {"connected", "failed"}
=============================================================================
