---------------------------- MODULE ConnectProofs ----------------------------
(***************************************************************************)
(* The settings and the errors of Connect, for any options in any number,  *)
(* any defaults and any statuses a server may answer with.                 *)
(***************************************************************************)
EXTENDS Connect, SequenceTheorems, Induction, TLAPS

Stages == {"options", "client", "url", "headers", "dial", "connected", "failed"}

Typed(c) == \A f \in Numbers : f \in DOMAIN c /\ c[f] \in Int

(* In range, as NewClient leaves the configuration *)
Settled(c) ==
  /\ c.connectTimeout >= 0 /\ c.readTimeout >= 0 /\ c.attempts >= 0
  /\ c.writeTimeout > 0 /\ c.readLimit > 0
  /\ c.base > 0 /\ c.base <= c.max

ConfigInv ==
  /\ stage \in Stages
  /\ Typed(config)
  /\ stage = "options" => transport = Nil
  /\ stage # "options" => Settled(config)
  /\ transport # Nil => transport = NormalizeConfig(TransportConfig)

LEMMA CorrectedSettles == ASSUME NEW c, Typed(c) PROVE Typed(Corrected(c)) /\ Settled(Corrected(c))
  BY ConnectAssumption DEF Typed, Settled, Corrected, Numbers

LEMMA ConfigInvInit == ConnectInit => ConfigInv
  BY ConnectAssumption DEF ConnectInit, ConfigInv, Stages, Typed, Defaults, Numbers

LEMMA ApplyTyped ==
  ASSUME Typed(config), NEW option \in Options, Apply(option)
  PROVE  Typed(config')
  BY ConnectAssumption DEF Typed, Apply

LEMMA ConfigInvStep == ConfigInv /\ [ConnectNext]_connectVars => ConfigInv'
<1> SUFFICES ASSUME ConfigInv, [ConnectNext]_connectVars PROVE ConfigInv'
  OBVIOUS
<1> USE DEF ConfigInv, Stages
<1>1. ASSUME NEW option \in Options, Apply(option) PROVE ConfigInv'
  BY <1>1, ApplyTyped DEF Apply
<1>2. CASE NewClient
  BY <1>2, CorrectedSettles DEF NewClient
<1>3. ASSUME NEW m \in Models, StartConnect(m) PROVE ConfigInv'
  BY <1>3 DEF StartConnect, TransportConfig
<1>4. CASE BuildRealtimeURL
  BY <1>4 DEF BuildRealtimeURL, Failed, TransportConfig
<1>5. CASE BuildHeaders
  BY <1>5 DEF BuildHeaders, Failed, TransportConfig
<1>6. CASE DialSucceeds
  BY <1>6 DEF DialSucceeds, TransportConfig
<1>7. ASSUME NEW cause, NEW status, DialFails(cause, status) PROVE ConfigInv'
  BY <1>7 DEF DialFails, Failed, TransportConfig
<1>8. CASE Over \/ UNCHANGED connectVars
  BY <1>8 DEF Over, connectVars, TransportConfig
<1>9. QED
  BY <1>1, <1>2, <1>3, <1>4, <1>5, <1>6, <1>7, <1>8 DEF ConnectNext, Refused, NoAnswer, HandshakeTimesOut

(* A configuration in range passes normalizeConfig unchanged. *)
LEMMA NothingToCorrect ==
  ASSUME Typed(config), Settled(config)
  PROVE  NormalizeConfig(TransportConfig) = TransportConfig
<1>1. /\ config.connectTimeout \in Int /\ config.writeTimeout \in Int /\ config.readTimeout \in Int
      /\ config.readLimit \in Int /\ config.attempts \in Int /\ config.base \in Int /\ config.max \in Int
  BY DEF Typed, Numbers
<1>2. Normalized([base |-> config.base, max |-> config.max, factor |-> 2])
        = [base |-> config.base, max |-> config.max, factor |-> 2]
  BY <1>1 DEF Normalized, Settled
<1> DEFINE c == TransportConfig
<1>3. /\ (IF c.handshakeTimeout < 0 THEN 0 ELSE c.handshakeTimeout) = c.handshakeTimeout
      /\ (IF c.writeTimeout < 0 THEN 0 ELSE c.writeTimeout) = c.writeTimeout
      /\ (IF c.readTimeout < 0 THEN 0 ELSE c.readTimeout) = c.readTimeout
      /\ (IF c.readLimit <= 0 THEN DefaultReadLimit ELSE c.readLimit) = c.readLimit
      /\ (IF c.attempts < 0 THEN 0 ELSE c.attempts) = c.attempts
      /\ Normalized(c.backoff) = c.backoff
  BY <1>1, <1>2 DEF TransportConfig, Settled
<1>4. NormalizeConfig(c) =
        [c EXCEPT !.handshakeTimeout = c.handshakeTimeout, !.writeTimeout = c.writeTimeout,
                  !.readTimeout = c.readTimeout, !.readLimit = c.readLimit,
                  !.attempts = c.attempts, !.backoff = c.backoff]
  <2> HIDE DEF c
  <2>1. QED
    BY <1>3 DEF NormalizeConfig
<1>5. QED
  BY <1>4 DEF TransportConfig

(* The two lower layers find nothing to correct in what NewClient made. *)
THEOREM SettingsSettled == ConnectSpec => []ConfigSettled
<1>1. ConfigInv => ConfigSettled
  <2> SUFFICES ASSUME ConfigInv, transport # Nil
               PROVE  /\ transport = TransportConfig
                      /\ 0 < transport.backoff.base /\ transport.backoff.base <= transport.backoff.max
                      /\ transport.writeTimeout > 0 /\ transport.readLimit > 0
    BY DEF ConfigSettled
  <2>1. Typed(config) /\ Settled(config)
    BY DEF ConfigInv
  <2>2. transport = TransportConfig
    BY <2>1, NothingToCorrect DEF ConfigInv
  <2>3. QED
    BY <2>1, <2>2 DEF TransportConfig, Settled
<1>2. QED
  BY <1>1, ConfigInvInit, ConfigInvStep, PTL DEF ConnectSpec

-----------------------------------------------------------------------------
(* What the result says about the dial's error *)
ResultInv ==
  /\ result # Nil => result.code = MapHTTPStatusToErrorCode(result.status)
  /\ dialErr # Nil =>
       /\ \E cause \in {"handshake", "network", "canceled", "deadline"}, status \in Nat :
            dialErr = DialError(cause, status)
       /\ result = MapConnectError(dialErr)
  /\ stage \notin {"connected", "failed"} => dialErr = Nil

LEMMA MappedCode ==
  ASSUME NEW cause, NEW status \in Nat
  PROVE  LET e == MapConnectError(DialError(cause, status))
         IN  e.code = MapHTTPStatusToErrorCode(e.status)
  BY DEF MapConnectError, DialError, ApiError

LEMMA ResultInvStep == ConfigInv /\ ResultInv /\ [ConnectNext]_connectVars => ResultInv'
<1> SUFFICES ASSUME ConfigInv, ResultInv, [ConnectNext]_connectVars PROVE ResultInv'
  OBVIOUS
<1> USE DEF ResultInv
<1>1. ASSUME NEW option \in Options, Apply(option) PROVE ResultInv'
  BY <1>1 DEF Apply
<1>2. CASE NewClient
  BY <1>2 DEF NewClient
<1>3. ASSUME NEW m \in Models, StartConnect(m) PROVE ResultInv'
  BY <1>3 DEF StartConnect
<1>4. CASE BuildRealtimeURL
  BY <1>4 DEF BuildRealtimeURL, Failed, ApiError, MapHTTPStatusToErrorCode
<1>5. CASE BuildHeaders
  BY <1>5 DEF BuildHeaders, Failed, ApiError, MapHTTPStatusToErrorCode
<1>6. CASE DialSucceeds
  BY <1>6 DEF DialSucceeds
<1>7. ASSUME NEW cause \in {"handshake", "network", "canceled", "deadline"}, NEW status \in Nat,
             DialFails(cause, status)
      PROVE  ResultInv'
  BY <1>7, MappedCode DEF DialFails, Failed
<1>8. CASE Over \/ UNCHANGED connectVars
  BY <1>8 DEF Over, connectVars
<1>9. QED
  BY <1>1, <1>2, <1>3, <1>4, <1>5, <1>6, <1>7, <1>8, ConnectAssumption
  DEF ConnectNext, Refused, NoAnswer, HandshakeTimesOut

LEMMA ResultInvHolds == ConnectSpec => []ResultInv
<1>1. ConnectInit => ResultInv
  BY DEF ConnectInit, ResultInv
<1>2. QED
  BY <1>1, ConfigInvInit, ConfigInvStep, ResultInvStep, PTL DEF ConnectSpec

(* Wherever an Error is made, its code and its status agree. *)
THEOREM CodesMatch == ConnectSpec => []CodeMatchesStatus
<1>1. ResultInv => CodeMatchesStatus
  BY DEF ResultInv, CodeMatchesStatus
<1>2. QED
  BY <1>1, ResultInvHolds, PTL

(* What the transport takes for transient, the application is told to retry,
   and the other way round but for the two cases RetryAdvice names. *)
THEOREM AdviceAgrees == ConnectSpec => []RetryAdvice
<1>1. ResultInv => RetryAdvice
  <2> SUFFICES ASSUME NEW cause \in {"handshake", "network", "canceled", "deadline"},
                      NEW status \in Nat,
                      dialErr = DialError(cause, status), result = MapConnectError(dialErr)
               PROVE  /\ IsRetryable(dialErr) => Retryable(result)
                      /\ Retryable(result) /\ ~IsRetryable(dialErr) =>
                           \/ dialErr.cause \in {"canceled", "deadline"}
                           \/ dialErr.status \in 400 .. 499 \ {400, 401, 403, 404, 429}
    BY DEF ResultInv, RetryAdvice
  <2>1. dialErr.cause = cause /\ dialErr.status = status
    BY DEF DialError
  <2>2. result.code = MapHTTPStatusToErrorCode(IF status = 0 THEN 503 ELSE status)
    BY DEF DialError, MapConnectError, ApiError
  <2>3. Retryable(result) <=> status \notin {400, 401, 403, 404}
    BY <2>2 DEF Retryable, IsRateLimit, IsServerError, MapHTTPStatusToErrorCode
  <2>4. IsRetryable(dialErr) <=>
          cause \notin {"canceled", "deadline"} /\ status \notin 400 .. 499 \ {429}
    BY <2>1 DEF IsRetryable
  <2>5. QED
    BY <2>1, <2>3, <2>4
<1>2. QED
  BY <1>1, ResultInvHolds, PTL

-----------------------------------------------------------------------------
(* Min and Max are what they are called on indices. *)
LEMMA EndsOfIndices ==
  ASSUME NEW n \in Nat, NEW S \in SUBSET (1 .. n), S # {}
  PROVE  /\ Min(S) \in S /\ \A i \in S : Min(S) <= i
         /\ Max(S) \in S /\ \A i \in S : i <= Max(S)
<1>1. \E i \in S : \A j \in S : i <= j
  <2>1. S \in SUBSET Nat
    OBVIOUS
  <2>2. QED
    BY <2>1, LeastNat
<1>2. \E i \in S : \A j \in S : j <= i
  <2> DEFINE Above == {n - i : i \in S}
  <2>1. Above \in SUBSET Nat /\ Above # {}
    <3>1. \A i \in S : n - i \in Nat
      OBVIOUS
    <3>2. QED
      BY <3>1
  <2>2. PICK a \in Above : \A b \in Above : a <= b
    <3> HIDE DEF Above
    <3>1. QED
      BY <2>1, LeastNat
  <2>3. PICK i \in S : a = n - i
    OBVIOUS
  <2>4. ASSUME NEW j \in S PROVE j <= i
    <3>1. n - j \in Above
      OBVIOUS
    <3>2. QED
      BY <3>1, <2>2, <2>3
  <2>5. QED
    BY <2>4
<1>3. QED
  BY <1>1, <1>2 DEF Min, Max

(* What TrimSpace leaves neither begins nor ends with a blank. *)
LEMMA TrimmedEnds ==
  ASSUME NEW s \in Seq(STRING)
  PROVE  /\ Trim(s) \in Seq(STRING)
         /\ Trim(s) # <<>> =>
              Trim(s)[1] # "sp" /\ Trim(s)[Len(Trim(s))] # "sp" /\ Len(Trim(s)) \in Nat \ {0}
<1> DEFINE words == {i \in DOMAIN s : s[i] # "sp"}
<1>1. CASE words = {}
  BY <1>1 DEF Trim
<1>2. CASE words # {}
  <2> DEFINE a == Min(words)  b == Max(words)
  <2>1. Len(s) \in Nat /\ words \in SUBSET (1 .. Len(s))
    OBVIOUS
  <2>2. a \in words /\ b \in words /\ a <= b
    <3> HIDE DEF words
    <3>1. QED
      BY <1>2, <2>1, EndsOfIndices
  <2>3. a \in 1 .. Len(s) /\ b \in 1 .. Len(s) /\ a <= b /\ s[a] # "sp" /\ s[b] # "sp"
    BY <2>2
  <2> HIDE DEF a, b
  <2>4. \A i \in a .. b : s[i] \in STRING
    BY <2>3, ElementOfSeq
  <2>5. /\ SubSeq(s, a, b) \in Seq(STRING)
        /\ Len(SubSeq(s, a, b)) = b - a + 1
        /\ \A i \in 1 .. b - a + 1 : SubSeq(s, a, b)[i] = s[a + i - 1]
    BY <2>3, <2>4, SubSeqProperties
  <2>6. Trim(s) = SubSeq(s, a, b)
    BY <1>2 DEF Trim, a, b
  <2>7. QED
    BY <2>3, <2>5, <2>6
<1>3. QED
  BY <1>1, <1>2

(* and TrimSpace finds nothing more to cut in it. *)
LEMMA TrimmedTwice == ASSUME NEW s \in Seq(STRING) PROVE Trim(Trim(s)) = Trim(s)
<1> DEFINE t == Trim(s)
           words == {i \in DOMAIN t : t[i] # "sp"}
<1>1. t \in Seq(STRING)
  BY TrimmedEnds
<1>2. CASE t = <<>>
  <2>1. Trim(<<>>) = <<>>
    BY DEF Trim
  <2>2. QED
    BY <1>2, <2>1
<1>3. CASE t # <<>>
  <2>1. Len(t) \in Nat \ {0} /\ 1 \in words /\ Len(t) \in words /\ words \in SUBSET (1 .. Len(t))
    <3>1. Len(t) \in Nat \ {0} /\ t[1] # "sp" /\ t[Len(t)] # "sp"
      BY <1>3, TrimmedEnds
    <3> HIDE DEF t
    <3>2. QED
      BY <1>1, <3>1
  <2>2. Min(words) = 1 /\ Max(words) = Len(t)
    <3> HIDE DEF words, t
    <3>1. Min(words) \in words /\ Max(words) \in words /\ Min(words) <= 1 /\ Len(t) <= Max(words)
      BY <2>1, EndsOfIndices
    <3>2. Min(words) \in 1 .. Len(t) /\ Max(words) \in 1 .. Len(t)
      BY <2>1, <3>1
    <3>3. QED
      BY <2>1, <3>1, <3>2
  <2>3. Trim(t) = SubSeq(t, 1, Len(t))
    <3> HIDE DEF t
    <3>1. QED
      BY <2>1, <2>2 DEF Trim
  <2>4. QED
    BY <1>1, <2>3, SubSeqFull
<1>4. QED
  BY <1>2, <1>3

(* The server sees the scheme, and the secret of the key after it. *)
LEMMA SchemeOnce ==
  ASSUME NEW S, NEW key \in Seq(S), Trim(key) = key
  PROVE  HasScheme(Authorization(key)) /\ Secret(Authorization(key)) = Secret(key)
<1> DEFINE W == S \cup {"bearer", "sp"}
<1>0. key \in Seq(W)
  BY SeqMonotonic
<1>1. CASE HasScheme(key)
  BY <1>1 DEF Authorization
<1>2. CASE ~HasScheme(key)
  <2> DEFINE p == <<"bearer", "sp">>
  <2>1. p \in Seq(W) /\ Len(p) = 2 /\ p[1] = "bearer" /\ p[2] = "sp"
    <3>1. p \in Seq(W)
      <4>1. "bearer" \in W /\ "sp" \in W
        OBVIOUS
      <4> HIDE DEF W
      <4>2. QED
        BY <4>1
    <3>2. Len(p) = 2
      OBVIOUS
    <3>3. p[1] = "bearer" /\ p[2] = "sp"
      OBVIOUS
    <3>4. QED
      BY <3>1, <3>2, <3>3
  <2>2. Authorization(key) = p \o key
    BY <1>2 DEF Authorization
  <2>3. /\ p \o key \in Seq(W) /\ Len(p \o key) = 2 + Len(key) /\ Len(key) \in Nat
        /\ (p \o key)[1] = "bearer" /\ (p \o key)[2] = "sp"
    <3> HIDE DEF p
    <3>1. /\ p \o key \in Seq(W) /\ Len(p \o key) = Len(p) + Len(key)
          /\ \A i \in 1 .. Len(p) + Len(key) :
               (p \o key)[i] = IF i <= Len(p) THEN p[i] ELSE key[i - Len(p)]
      BY <1>0, <2>1, ConcatProperties
    <3>2. Len(key) \in Nat
      BY <1>0, LenProperties
    <3>3. QED
      BY <2>1, <3>1, <3>2
  <2>4. HasScheme(p \o key)
    BY <2>3 DEF HasScheme
  <2>5. SubSeq(p \o key, 3, 2 + Len(key)) = key
    <3> HIDE DEF p
    <3>1. CASE Len(key) = 0
      <4>1. key = <<>>
        BY <1>0, <3>1
      <4>2. QED
        BY <3>1, <4>1, SubSeqEmpty
    <3>2. CASE Len(key) > 0
      <4>1. SubSeq(p \o key, 3, 2 + Len(key)) = SubSeq(key, 1, Len(key))
        BY <2>1, <2>3, <3>2, <1>0, SubSeqOfConcat2
      <4>2. QED
        BY <1>0, <4>1, SubSeqFull
    <3>3. QED
      BY <2>3, <3>1, <3>2
  <2>6. QED
    BY <1>2, <2>2, <2>3, <2>4, <2>5 DEF Secret
<1>3. QED
  BY <1>1, <1>2

(* What the options wanted is what NewClient keeps, where it is in range. *)
Kept ==
  /\ wanted.attempts >= 0 => config.attempts = wanted.attempts
  /\ wanted.connectTimeout >= 0 => config.connectTimeout = wanted.connectTimeout
  /\ wanted.readTimeout >= 0 => config.readTimeout = wanted.readTimeout
  /\ wanted.writeTimeout > 0 => config.writeTimeout = wanted.writeTimeout
  /\ wanted.base > 0 => config.base = wanted.base
  /\ wanted.base > 0 /\ wanted.max >= wanted.base => config.max = wanted.max

KeyTrimmed == "key" \in DOMAIN config /\ config.key \in Seq(STRING) /\ Trim(config.key) = config.key

LEMMA KeyTrimmedInit == ConnectInit => KeyTrimmed
<1> SUFFICES ASSUME NEW key \in Keys, config = Defaults(key) PROVE KeyTrimmed
  BY DEF ConnectInit
<1>1. key \in Seq(STRING)
  BY ConnectAssumption
<1>2. config.key = Trim(key) /\ "key" \in DOMAIN config
  BY DEF Defaults
<1>3. QED
  BY <1>1, <1>2, TrimmedEnds, TrimmedTwice DEF KeyTrimmed

LEMMA CorrectedKeeps ==
  ASSUME ConfigInv, NewClient
  PROVE  Kept' /\ config'.key = config.key /\ DOMAIN config' = DOMAIN config
  BY DEF ConfigInv, Typed, Numbers, NewClient, Corrected, Kept

SettingsInv == KeyTrimmed /\ (stage # "options" => Kept)

LEMMA SettingsInvStep == ConfigInv /\ SettingsInv /\ [ConnectNext]_connectVars => SettingsInv'
<1> SUFFICES ASSUME ConfigInv, SettingsInv, [ConnectNext]_connectVars PROVE SettingsInv'
  OBVIOUS
<1> USE DEF SettingsInv, KeyTrimmed, Kept
<1>1. ASSUME NEW option \in Options, Apply(option) PROVE SettingsInv'
  BY <1>1, ConnectAssumption DEF Apply
<1>2. CASE NewClient
  BY <1>2, CorrectedKeeps DEF NewClient
<1>3. ASSUME NEW m \in Models, StartConnect(m) PROVE SettingsInv'
  BY <1>3 DEF StartConnect
<1>4. CASE BuildRealtimeURL
  BY <1>4 DEF BuildRealtimeURL, Failed
<1>5. CASE BuildHeaders
  BY <1>5 DEF BuildHeaders, Failed
<1>6. CASE DialSucceeds
  BY <1>6 DEF DialSucceeds
<1>7. ASSUME NEW cause, NEW status, DialFails(cause, status) PROVE SettingsInv'
  BY <1>7 DEF DialFails, Failed
<1>8. CASE Over \/ UNCHANGED connectVars
  BY <1>8 DEF Over, connectVars
<1>9. QED
  BY <1>1, <1>2, <1>3, <1>4, <1>5, <1>6, <1>7, <1>8 DEF ConnectNext, Refused, NoAnswer, HandshakeTimesOut

(* Every setting in its range reaches the transport as the application wants
   it, and the server sees the scheme of the key once. *)
THEOREM SettingsReachTransport == ConnectSpec => []SettingsHonoured
<1>1. ConfigInv /\ SettingsInv => SettingsHonoured
  <2> SUFFICES ASSUME ConfigInv, SettingsInv, transport # Nil PROVE SettingsHonoured
    BY DEF SettingsHonoured
  <2>1. transport = TransportConfig /\ Kept /\ KeyTrimmed
    BY NothingToCorrect DEF ConfigInv, SettingsInv
  <2>2. /\ HasScheme(transport.authorization)
        /\ Secret(transport.authorization) = Secret(config.key)
    BY <2>1, SchemeOnce DEF KeyTrimmed, TransportConfig
  <2>3. QED
    BY <2>1, <2>2 DEF SettingsHonoured, Kept, TransportConfig
<1>2. ConnectInit => SettingsInv
  BY KeyTrimmedInit DEF ConnectInit, SettingsInv
<1>3. QED
  BY <1>1, <1>2, ConfigInvInit, ConfigInvStep, SettingsInvStep, PTL DEF ConnectSpec
=============================================================================
