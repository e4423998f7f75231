------------------------------ MODULE Examples ------------------------------
(***************************************************************************)
(* The applications under examples/: the goroutine of streamEvents that    *)
(* pumps a session's events into two channels, and main, which sends       *)
(* requests and collects the answers from the channels against timers.     *)
(* The session is module EventStream, which module Session implements; the *)
(* server is external, modelled from what the applications expect of it.   *)
(***************************************************************************)
EXTENDS Wire

CONSTANTS
  Programs,       \* the applications to run: records of an app, "text", "append" or
                  \* "audio", its probes, among "cancel", "pro", "history", "api" and
                  \* "image", its rounds, whether the server answers it with
                  \* choices, and how often the session may reconnect (a bound)
  Audio,          \* the bytes of the audio file
  ChunkSize,      \* chunkSize, 3200 in the code
  FrameSize,      \* what a probe sends of the file first, 320 in the code
  EventChCap,     \* the capacity of eventCh, 128 in the code
  Backlog,        \* the capacity of the session's own channel, 128 in the code
  Deltas,         \* bound: deltas of an answer
  MaxItems        \* bound: items the session receives

(* The configurations of the mains *)
Configs == {"text", "audio", "proText", "proAudio"}

(* The audio file is not empty (audio-stream:456, 467), and an answer has something
   in it. *)
ASSUME ExamplesAssumption ==
  /\ \A p \in Programs : p.app \in {"text", "append", "audio"} /\ p.rounds \in Nat
  /\ Nil \notin Configs \cup Nat
  /\ Audio \in Seq(Nat) \ {<<>>} /\ ChunkSize \in Nat \ {0}
  /\ FrameSize \in Nat \ {0}
  /\ Deltas \in Nat \ {0} /\ MaxItems \in Nat

(* A field with something in it is neither absent nor malformed, and an event
   is not the lack of one. *)
ASSUME FieldsAssumption ==
  LET strings == Seq([kind : {"text", "base64"}, data : Nat \X Nat])
      contents == Seq([text : strings, transcript : {<<>>}, audio : strings])
      choices == [finish : {"null", "stop"}, content : contents]
      usages == [answer : Nat]
      events == [type : {"choices"}, responseID : {<<>>}, itemID : {<<>>}, session : {Nil},
                 response : {Nil}, item : {Nil}, part : {Nil}, delta : strings,
                 transcript : {<<>>}, audio64 : strings, finish : {"null", "stop"},
                 usage : {Nil}, error : {Nil}]
  IN  \A v \in {Nil, Bad} :
        /\ v \notin Seq(choices) \cup choices \cup events
        /\ v \notin [id : {<<>>}, output : {<<>>}, usage : usages] \cup usages

VARIABLES
  program,     \* the application that runs, with its flags
  script,      \* its functions, made of steps
  server,      \* the server's session: configuration, audio buffer, messages to send
  asked,       \* the responses the server has been asked for, over all connections
  log, out, closed, ended,  \* the session's stream, as in EventStream
  pump,        \* where streamEvents' goroutine is
  hand,        \* the item it has been given
  eventCh,     \* its channels
  errCh,
  chClosed,    \* those of them it has closed
  main,        \* main's function and step in it
  status,      \* main's: "running", "done", or "exited" after log.Fatal
  acc,         \* what collect has gathered
  resending,   \* sendEvent's first attempt has failed
  (* histories *)
  answers,     \* what collect has returned, each time
  commits,     \* the audio the server was asked to commit
  refused,     \* the answers the server refused to give
  cancelled,   \* those that were cut short
  denied,      \* those whose cancellation the server refused
  reconnects,
  cleared,     \* reconnects when main last cleared the audio buffer, or Nil after a commit
  configured,  \* the configuration of the last session.update, or Nil when it failed
  disturbed,   \* a send failed, the session reconnected, or a collect ended by a timer, by the
               \* stream's end, or with an error after the server refused a cancellation
  errorTaken   \* main has taken an error from errCh

fixed == <<program, script>>
streamVars == <<log, out, closed, ended>>
pumpVars == <<pump, hand, eventCh, errCh, chClosed>>
requestVars == <<asked, refused, cancelled, denied>>
serverVars == <<server, requestVars, commits>>
mainVars == <<main, status, acc, resending, answers, cleared, configured, disturbed, errorTaken>>
examplesVars == <<fixed, serverVars, streamVars, pumpVars, mainVars, reconnects>>

(* An event by name: its kind, the answer it belongs to, its place there. *)
Name(kind, n, i) == [kind |-> kind, answer |-> n, part |-> i]
StreamError == Name("streamError", 0, 0)
Names == [kind : {"created", "updated", "refused", "denied", "text", "sound", "transcript", "part",
                  "done", "choice", "lastChoice", "streamError"},
          answer : Nat, part : Nat]

Stream == INSTANCE EventStream WITH Items <- Names, Errors <- {StreamError}

-----------------------------------------------------------------------------
(* The server *)

Whole(n) == FlattenSeq([i \in 1 .. Deltas |-> Text(<<n, i>>)])

(* The message behind a name.  The end of a content part repeats its text; an
   error does not say which request it refuses. *)
Payload(name) ==
  LET n == name.answer
      text == Text(<<n, name.part>>)
      sound == Base64(<<n, name.part>>)
      content == [NoPart EXCEPT !.text = text, !.audio = IF program.app = "audio" THEN sound ELSE <<>>]
  IN  CASE name.kind = "created" -> Message("session.created")
        [] name.kind = "updated" -> Message("session.updated")
        [] name.kind \in {"refused", "denied"} -> [Message("error") EXCEPT !.error = [code |-> Text(0)]]
        [] name.kind = "text" -> [Message("response.text.delta") EXCEPT !.delta = text]
        [] name.kind = "transcript" ->
             [Message("response.audio_transcript.delta") EXCEPT !.delta = text]
        [] name.kind = "sound" -> [Message("response.audio.delta") EXCEPT !.delta = sound]
        [] name.kind = "part" ->
             [Message("response.content_part.done") EXCEPT !.part = [NoPart EXCEPT !.text = Whole(n)]]
        [] name.kind = "done" ->
             [Message("response.done") EXCEPT
                !.response = [NoResponse EXCEPT !.usage = [answer |-> n]]]
        [] name.kind \in {"choice", "lastChoice"} ->
             [Message("") EXCEPT
                !.choices = <<[finish |-> IF name.kind = "choice" THEN "null" ELSE "stop",
                               content |-> <<content>>]>>]

(* The messages of an answer *)
Spoken(n) ==
  IF program.app = "audio"
  THEN [i \in 1 .. 2 * Deltas |->
          Name(IF i % 2 = 1 THEN "sound" ELSE "transcript", n, (i + 1) \div 2)]
  ELSE [i \in 1 .. Deltas |-> Name("text", n, i)]

Answer(n) ==
  IF program.compact
  THEN [i \in 1 .. Deltas |-> Name(IF i < Deltas THEN "choice" ELSE "lastChoice", n, i)]
  ELSE Spoken(n) \o <<Name("part", n, 0), Name("done", n, 0)>>

Refusal(n) == Name("refused", n, 0)
Denial == Name("denied", 0, 0)

NewServer == [config |-> Nil, buffer |-> <<>>, outbox |-> <<Name("created", 0, 0)>>]

Sends(names) == server' = [server EXCEPT !.outbox = @ \o names]

(* What is left to send of an answer once it is cancelled: its last message *)
Kept(name) == name.answer # asked \/ name.kind \in {"refused", "done", "lastChoice"}

Cut(outbox) ==
  LET cut[i \in 0 .. Len(outbox)] ==
        IF i = 0 THEN <<>>
        ELSE IF Kept(outbox[i]) THEN Append(cut[i - 1], outbox[i]) ELSE cut[i - 1]
  IN  cut[Len(outbox)]

(* The server takes a request in.  It may refuse to give an answer, and to
   cancel one: its error is all the application sees of that. *)
Handle(request) ==
  LET unasked == UNCHANGED requestVars
      uncommitted == UNCHANGED commits
  IN  CASE request.type = "session.update" ->
             /\ server' = [server EXCEPT !.config = request.session,
                                         !.outbox = Append(@, Name("updated", 0, 0))]
             /\ unasked /\ uncommitted
        [] request.type = "input_audio_buffer.append" ->
             /\ server' = [server EXCEPT !.buffer = @ \o Bytes(request.audio)]
             /\ unasked /\ uncommitted
        [] request.type = "input_audio_buffer.clear" ->
             /\ server' = [server EXCEPT !.buffer = <<>>]
             /\ unasked /\ uncommitted
        [] request.type = "input_audio_buffer.commit" ->
             /\ commits' = Append(commits, [audio |-> server.buffer, whole |-> cleared = reconnects])
             /\ server' = [server EXCEPT !.buffer = <<>>]
             /\ unasked
        [] request.type = "response.create" ->
             /\ asked' = asked + 1
             /\ \/ Sends(Answer(asked + 1)) /\ UNCHANGED refused
                \/ Sends(<<Refusal(asked + 1)>>) /\ refused' = refused \cup {asked + 1}
             /\ UNCHANGED <<cancelled, denied, commits>>
        [] request.type = "response.cancel" ->
             /\ \/ /\ server' = [server EXCEPT !.outbox = Cut(@)]
                   /\ cancelled' = cancelled \cup {asked} /\ UNCHANGED denied
                \/ Sends(<<Denial>>) /\ denied' = denied \cup {asked} /\ UNCHANGED cancelled
             /\ UNCHANGED <<asked, refused, commits>>
        [] OTHER -> UNCHANGED serverVars

(* A message arrives and readLoop queues its event.  One that arrives while
   Close runs is as good as lost. *)
Arrive ==
  /\ status = "running"
  /\ server.outbox # <<>>
  /\ Len(log) - Len(out) < Backlog
  /\ Stream!Receive(Head(server.outbox))
  /\ server' = [server EXCEPT !.outbox = Tail(@)]
  /\ UNCHANGED <<fixed, requestVars, commits, pumpVars, mainVars, reconnects>>

(* readLoop gives up: the peer has ended the session or cannot be redialled. *)
StreamFails ==
  /\ status = "running"
  /\ Len(log) - Len(out) < Backlog
  /\ Stream!Receive(StreamError)
  /\ UNCHANGED <<fixed, serverVars, pumpVars, mainVars, reconnects>>

(* sendEvent or readLoop reconnects: the server starts a new session. *)
Reconnect ==
  /\ status = "running"
  /\ reconnects < program.reconnects
  /\ reconnects' = reconnects + 1
  /\ server' = NewServer
  /\ resending' = FALSE
  /\ disturbed' = TRUE
  /\ UNCHANGED <<fixed, requestVars, commits, streamVars, pumpVars, main, status, acc,
                  answers, cleared, configured, errorTaken>>

-----------------------------------------------------------------------------
(* streamEvents *)

PumpTakes ==
  /\ pump = "range"
  /\ Stream!Deliver
  /\ hand' = log[Len(out) + 1]
  /\ pump' = IF hand' = StreamError THEN "error" ELSE "event"
  /\ UNCHANGED <<eventCh, errCh, chClosed>>

(* The channel of the session is closed: the loop over Events ends. *)
PumpEnds ==
  /\ pump = "range"
  /\ Stream!End
  /\ pump' = "closeErr"
  /\ UNCHANGED <<hand, eventCh, errCh, chClosed>>

PumpPushes ==
  /\ pump = "event"
  /\ Len(eventCh) < EventChCap
  /\ eventCh' = Append(eventCh, hand)
  /\ pump' = "range"
  /\ UNCHANGED <<streamVars, hand, errCh, chClosed>>

\* Mutant: the error ends the goroutine and is not passed on.
PumpFailsSilently ==
  /\ pump = "error"
  /\ pump' = "closeErr"
  /\ UNCHANGED <<streamVars, hand, eventCh, errCh, chClosed>>

\* Mutant: errCh has no buffer, and main must be there to receive.
PumpFailsUnbuffered ==
  /\ pump = "error"
  /\ status = "running"
  /\ errCh' = <<hand>>
  /\ pump' = "closeErr"
  /\ UNCHANGED <<streamVars, hand, eventCh, chClosed>>

(* errCh has room for the one error there is. *)
PumpFails ==
  /\ pump = "error"
  /\ errCh' = <<hand>>
  /\ pump' = "closeErr"
  /\ UNCHANGED <<streamVars, hand, eventCh, chClosed>>

(* The deferred calls: errCh is closed first, eventCh after it. *)
PumpCloses ==
  /\ \/ pump = "closeErr" /\ pump' = "closeEvents" /\ chClosed' = chClosed \cup {"errCh"}
     \/ pump = "closeEvents" /\ pump' = "end" /\ chClosed' = chClosed \cup {"eventCh"}
  /\ UNCHANGED <<streamVars, hand, eventCh, errCh>>

Pump ==
  /\ status # "exited"
  /\ PumpTakes \/ PumpEnds \/ PumpPushes \/ PumpFails \/ PumpCloses
  /\ UNCHANGED <<fixed, serverVars, mainVars, reconnects>>

-----------------------------------------------------------------------------
(* What the mains do, as functions made of steps.  `fail' says what a failed
   step leads to: "ignore" the next step, "leave" the end of the function,
   "close" the session's Close and the end, "fatal" log.Fatal. *)

Step(do, arg, fail) == [do |-> do, arg |-> arg, fail |-> fail]
Send(request, fail) == Step("send", request, fail)
Wait(type, fail) == Step("wait", type, fail)
Collect(fail) == Step("collect", "", fail)
Close == Step("close", "", "ignore")

\* Mutant: the error of UpdateSession is only logged.
ConnectUnchecked(config) ==
  << Wait("session.created", "close"), Send(UpdateSession(config), "ignore"),
     Wait("session.updated", "ignore") >>

Connect(config) ==
  << Wait("session.created", "close"), Send(UpdateSession(config), "close"),
     Wait("session.updated", "ignore") >>

(* The response is asked for by CreateResponse, or by SendRaw with a message. *)
Instruct == CreateResponse([messages |-> <<>>, instructions |-> Text(0)])
Rewritten == ResponseCreateEvent([messages |-> <<Text(0)>>, instructions |-> <<>>])

ProbeCancelPath == << Send(Instruct, "leave"), Send(ResponseCancelEvent, "leave"), Collect("ignore") >>
ApplyProSettings(config) ==
  << Send(UpdateSession(config), "leave"), Wait("session.updated", "ignore") >>
ProbeHistoryRewrite == << Send(Rewritten, "leave"), Collect("leave") >>
TextRound == << Send(Instruct, "fatal"), Collect("fatal") >>

\* Mutant: only whole chunks.
ChunksWhole(bytes) ==
  [k \in 1 .. Len(bytes) \div ChunkSize |-> SubSeq(bytes, (k - 1) * ChunkSize + 1, k * ChunkSize)]

Chunks(bytes) ==
  [k \in 1 .. (Len(bytes) + ChunkSize - 1) \div ChunkSize |->
     SubSeq(bytes, (k - 1) * ChunkSize + 1, Min({k * ChunkSize, Len(bytes)}))]

(* The first chunk goes as base64, the others as bytes. *)
SendAudioInChunks(bytes) ==
  [k \in DOMAIN Chunks(bytes) |->
     Send(IF k = 1 THEN AppendAudioBase64(Base64(Chunks(bytes)[k])) ELSE AppendAudio(Chunks(bytes)[k]),
          "fatal")]

Asked(flag, steps) == IF flag \in program.probes THEN steps ELSE <<>>
Optional(flag, function) == Asked(flag, << function >>)

(* runAPIMethodProbe: the first frame, if the file is long enough for one *)
Frame == << Send(AppendAudioBase64(Base64(SubSeq(Audio, 1, FrameSize))), "ignore") >>
ApiMethodProbe ==
  (IF Len(Audio) >= FrameSize THEN Frame ELSE <<>>)
  \o Asked("image", << Send(AppendImage(<<0>>), "ignore") >>)
  \o << Send(InputAudioCommitEvent, "leave"), Send(CreateResponse(Nil), "leave") >>
  \o Asked("cancel", << Send(ResponseCancelEvent, "ignore") >>)
  \o << Collect("ignore"), Send(InputAudioClearEvent, "ignore") >>

AudioRound(r) ==
  << << Send(InputAudioClearEvent, "fatal") >> >>
  \o (IF r = 2 THEN Optional("pro", ApplyProSettings("proAudio")) ELSE <<>>)
  \o << SendAudioInChunks(Audio)
         \o << Send(InputAudioCommitEvent, "fatal"), Send(CreateResponse(Nil), "fatal"),
               Collect("fatal") >> >>

(* The first round may be followed by the probe that rewrites the history. *)
Rounds(rounds) ==
  FlattenSeq([r \in DOMAIN rounds |->
    rounds[r] \o IF r = 1 THEN Optional("history", ProbeHistoryRewrite) ELSE <<>>])

Finish == << Send(SessionFinishEvent, "ignore"), Close >>

TextChat ==
  << Connect("text") >>
  \o Optional("cancel", ProbeCancelPath) \o Optional("pro", ApplyProSettings("proText"))
  \o Rounds([r \in 1 .. program.rounds |-> << TextRound >>])
  \o << Finish >>

(* probeAppendTextPathIsolated *)
AppendTextProbe ==
  << Connect("text"),
     << Send(AppendText(Text(0)), "leave"), Send(CreateResponse(Nil), "leave"), Collect("leave") >>,
     Finish >>

AudioStream ==
  << Connect("audio") >> \o Optional("api", ApiMethodProbe)
  \o Rounds([r \in 1 .. program.rounds |-> AudioRound(r)])
  \o << Finish >>

Functions ==
  CASE program.app = "text" -> TextChat
    [] program.app = "append" -> AppendTextProbe
    [] program.app = "audio" -> AudioStream

Here == script[main.f][main.i]
Doing(do) == status = "running" /\ Here.do = do

Succeed ==
  /\ main' = IF main.i < Len(script[main.f]) THEN [main EXCEPT !.i = @ + 1]
             ELSE [f |-> main.f + 1, i |-> 1]
  /\ UNCHANGED status

Fail ==
  CASE Here.fail = "ignore" -> Succeed
    [] Here.fail = "leave" -> main' = [f |-> main.f + 1, i |-> 1] /\ UNCHANGED status
    [] Here.fail = "close" ->
         LET last == Len(script)
         IN  main' = [f |-> last, i |-> Len(script[last])] /\ UNCHANGED status
    [] Here.fail = "fatal" -> status' = "exited" /\ UNCHANGED main

NoOutput == [text |-> <<>>, audio |-> <<>>, usage |-> Nil, output |-> FALSE]

(* What main knows of the server after a request has succeeded *)
Noted(request) ==
  /\ configured' = IF request.type = "session.update" THEN request.session ELSE configured
  /\ cleared' = CASE request.type = "input_audio_buffer.clear" -> reconnects
                  [] request.type = "input_audio_buffer.commit" -> Nil
                  [] OTHER -> cleared

SendSucceeds ==
  /\ Doing("send") /\ ~resending
  /\ Handle(Here.arg)
  /\ Succeed
  /\ Noted(Here.arg)
  /\ UNCHANGED <<acc, resending, answers, disturbed, errorTaken>>

(* The request reaches the server, but its write fails as transient. *)
SendBreaks ==
  /\ Doing("send") /\ ~resending
  /\ reconnects < program.reconnects
  /\ Handle(Here.arg)
  /\ resending' = TRUE
  /\ disturbed' = TRUE
  /\ UNCHANGED <<main, status, acc, answers, cleared, configured, errorTaken>>

(* The operation returns an error; the request may have reached the server. *)
SendFails ==
  /\ Doing("send")
  /\ UNCHANGED serverVars \/ (~resending /\ Handle(Here.arg))
  /\ Fail
  /\ resending' = FALSE
  /\ disturbed' = TRUE
  /\ configured' = IF Here.arg.type = "session.update" THEN Nil ELSE configured
  /\ cleared' = Nil
  /\ UNCHANGED <<acc, answers, errorTaken>>

(* collect returns, with an error or without; how says what made it return. *)
Return(gathered, how, err) ==
  /\ answers' = Append(answers, [of |-> asked, text |-> gathered.text, audio |-> gathered.audio,
                                 usage |-> gathered.usage, how |-> how,
                                 clean |-> ~disturbed])
  /\ acc' = NoOutput
  /\ disturbed' = (disturbed \/ how \notin {"done", "error"} \/ (how = "error" /\ denied # {}))
  /\ IF err THEN Fail ELSE Succeed

KeepCollecting(gathered) ==
  /\ acc' = gathered
  /\ UNCHANGED <<main, status, answers, disturbed>>

Gather(text, audio) ==
  [acc EXCEPT !.text = @ \o text, !.audio = @ \o audio,
              !.output = @ \/ text # <<>> \/ audio # <<>>]

\* Mutant: every event's Delta is text.
CollectAnyDelta(event) ==
  CASE event.type = "response.done" -> Return([acc EXCEPT !.usage = event.usage], "done", FALSE)
    [] event.type = "error" -> Return(acc, "error", TRUE)
    [] event.finish \notin {"", "null"} -> Return(Gather(event.delta, <<>>), "done", FALSE)
    [] OTHER -> KeepCollecting(Gather(event.delta, <<>>))

(* collectTextResponse and collectAudioResponse: one event from eventCh *)
CollectEvent(event) ==
  CASE event.type \in {"response.text.delta", "response.audio_transcript.delta"} ->
         KeepCollecting(Gather(event.delta, <<>>))
    [] event.type = "response.audio.delta" /\ program.app = "audio" ->
         KeepCollecting(Gather(<<>>, event.audio))
    [] event.type = "choices" ->
         LET gathered == Gather(event.delta, IF program.app = "audio" THEN event.audio ELSE <<>>)
         IN  IF event.finish \in {"", "null"} THEN KeepCollecting(gathered)
             ELSE Return(gathered, "done", FALSE)
    [] event.type = "response.done" ->
         Return([acc EXCEPT !.usage = IF event.usage = Nil THEN @ ELSE event.usage], "done", FALSE)
    [] event.type = "error" -> Return(acc, "error", TRUE)
    [] OTHER -> KeepCollecting(acc)

(* waitForEventType: one event from eventCh *)
WaitEvent(event) ==
  /\ CASE event.type = "error" -> Fail
       [] event.type = Here.arg -> Succeed
       [] OTHER -> UNCHANGED <<main, status>>
  /\ UNCHANGED <<acc, answers, disturbed>>

(* One of the other cases of the select: collect returns what it has, if
   anything, and fails otherwise; waitForEventType fails. *)
GiveUp(how) ==
  IF Here.do = "collect" THEN Return(acc, how, ~acc.output)
  ELSE Fail /\ UNCHANGED <<acc, answers, disturbed>>

Selecting == Doing("wait") \/ Doing("collect")

SelectEvent ==
  /\ Selecting
  /\ eventCh # <<>>
  /\ eventCh' = Tail(eventCh)
  /\ LET event == Event(Payload(Head(eventCh)))
     IN  IF Here.do = "collect" THEN CollectEvent(event) ELSE WaitEvent(event)
  /\ UNCHANGED <<errCh, errorTaken>>

SelectError ==
  /\ Selecting
  /\ errCh # <<>>
  /\ errCh' = <<>>
  /\ errorTaken' = TRUE
  /\ IF Here.do = "collect" THEN Return(acc, "streamError", TRUE)
     ELSE Fail /\ UNCHANGED <<acc, answers, disturbed>>
  /\ UNCHANGED eventCh

SelectClosed ==
  /\ Selecting
  /\ \/ "errCh" \in chClosed /\ errCh = <<>>
     \/ "eventCh" \in chClosed /\ eventCh = <<>>
  /\ GiveUp("closed")
  /\ UNCHANGED <<eventCh, errCh, errorTaken>>

\* Mutant: waitForEventType has no timer.
SelectTimerCollect ==
  /\ Doing("collect")
  /\ GiveUp("timer")
  /\ UNCHANGED <<eventCh, errCh, errorTaken>>

(* The timers idle and overall of collect, or the one of waitForEventType *)
SelectTimer ==
  /\ Selecting
  /\ GiveUp("timer")
  /\ UNCHANGED <<eventCh, errCh, errorTaken>>

Selected ==
  UNCHANGED <<fixed, serverVars, streamVars, pump, hand, chClosed, resending, cleared,
              configured, reconnects>>
Timer == SelectTimer /\ Selected
Select == (SelectEvent \/ SelectError \/ SelectClosed) /\ Selected

(* The deferred Close; then main returns. *)
CloseSession ==
  /\ Doing("close")
  /\ Stream!Close
  /\ status' = "done"
  /\ UNCHANGED <<fixed, serverVars, pumpVars, main, acc, resending, answers, cleared,
                 configured, disturbed, errorTaken, reconnects>>

SendReturns ==
  /\ SendSucceeds \/ SendFails
  /\ UNCHANGED <<fixed, streamVars, pumpVars, reconnects>>

SendBreaksOff ==
  /\ SendBreaks
  /\ UNCHANGED <<fixed, streamVars, pumpVars, reconnects>>

Main == SendReturns \/ SendBreaksOff \/ Select \/ Timer \/ CloseSession

-----------------------------------------------------------------------------
ExamplesInit ==
  /\ program \in Programs /\ script = Functions
  /\ server = NewServer /\ commits = <<>>
  /\ asked = 0 /\ refused = {} /\ cancelled = {} /\ denied = {}
  /\ Stream!StreamInit
  /\ pump = "range" /\ hand = StreamError /\ eventCh = <<>> /\ errCh = <<>> /\ chClosed = {}
  /\ main = [f |-> 1, i |-> 1] /\ status = "running" /\ acc = NoOutput /\ resending = FALSE
  /\ answers = <<>> /\ cleared = Nil /\ configured = Nil
  /\ disturbed = FALSE /\ errorTaken = FALSE /\ reconnects = 0

PumpStuck == status = "done" /\ pump = "event" /\ Len(eventCh) = EventChCap

Over ==
  /\ status # "running"
  /\ UNCHANGED examplesVars

ExamplesNext == Arrive \/ StreamFails \/ Reconnect \/ Pump \/ Main \/ Over

(* The goroutine of streamEvents runs, an operation of the session returns (as
   SendsReturn of module Session says), a timer fires in the end; the server
   and the network owe nothing. *)
ExamplesFairness ==
  /\ WF_examplesVars(Pump)
  /\ WF_examplesVars(SendReturns) /\ WF_examplesVars(Timer) /\ WF_examplesVars(CloseSession)

ExamplesSpec == ExamplesInit /\ [][ExamplesNext]_examplesVars /\ ExamplesFairness

-----------------------------------------------------------------------------
(* collectTextResponse and collectAudioResponse (text-chat:346-424, audio-stream:
   321-408).  A collect is clean as long as no collect before it was ended by a
   timer, by the error or the end of the stream, or by an error of the server's
   after the server had refused a cancellation, no send has failed and the
   session has not reconnected.  However a clean collect ends, it returns
   nothing but text of the answer to the request before it.  When the end of an
   answer ends it, that is all of this very answer, unless the answer was cut
   short, whichever of its messages repeat the text; when an error of the
   server's does, that error refuses this very answer, or the server has
   refused a cancellation, whose error a later collect may take for its own
   (text-chat:209, 399). *)
AnswerIsWhole ==
  \A k \in DOMAIN answers :
    LET a == answers[k]
        sounds == FlattenSeq([i \in 1 .. Deltas |-> <<a.of, i>>])
        complete ==
          /\ a.text = Whole(a.of)
          /\ a.audio = IF program.app = "audio" THEN sounds ELSE <<>>
          /\ program.compact \/ a.usage = [answer |-> a.of]
    IN  a.clean =>
          /\ ToSet(a.text) \subseteq ToSet(Whole(a.of))
          /\ a.how = "done" => a.of \in cancelled \/ complete
          /\ a.how = "error" => \/ a.of \in refused /\ a.text = <<>>
                               \/ \E n \in denied : n <= a.of

(* Whatever timers, reconnects and late answers do, no text is collected
   twice or out of order over all collects of a run. *)
TextInOrder ==
  LET text == FlattenSeq([k \in DOMAIN answers |-> answers[k].text]) \o acc.text
      Before(s, t) == s.data[1] < t.data[1] \/ (s.data[1] = t.data[1] /\ s.data[2] < t.data[2])
  IN  \A i, j \in DOMAIN text : i < j => Before(text[i], text[j])

(* The channels of streamEvents end without an error only when main has taken
   it before, in a probe that went on (text-chat:465-483, 194-211): a select
   never meets "closed unexpectedly" out of the blue, because the session's
   stream ends silently only after Close and errCh is written before it is
   closed. *)
ClosedOnlyAfterError ==
  Selecting /\ chClosed # {} => errCh # <<>> \/ errorTaken

(* audio-stream:83-105, sendAudioInChunks: the server is asked to commit the
   file, once and whole, whatever a probe left in the buffer, unless the
   session reconnected since the buffer was cleared (session.go:328); and a
   reconnect loses the chunks before it, but leaves no gap and repeats none. *)
CommittedAudio ==
  \A k \in DOMAIN commits :
    /\ commits[k].whole => commits[k].audio = Audio
    /\ \E first \in 1 .. Len(Audio) + 1, last \in 0 .. Len(Audio) :
         commits[k].audio = SubSeq(Audio, first, last)

(* text-chat:228, audio-stream:203 and session.go:326-328: every response is
   made by a server that has a configuration, the last one main has been told
   it has, until a reconnect gives the server a new session without it. *)
ServedAsConfigured ==
  [][asked' > asked /\ reconnects = 0 =>
       server.config # Nil /\ configured \in {Nil, server.config}]_examplesVars

(* Main ends, whatever the server does: every wait has a timer. *)
MainEnds == <>(status # "running")

(* After Close streamEvents' goroutine ends, unless nobody empties eventCh and
   the goroutine waits for room in it for ever (text-chat:472-478). *)
PumpEndsOrIsStuck == closed ~> pump = "end" \/ PumpStuck
=============================================================================
