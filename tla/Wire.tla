-------------------------------- MODULE Wire --------------------------------
(***************************************************************************)
(* The messages of the realtime protocol: how                              *)
(* internal/protocol/dashscope/decode.go and convertWireEvent of stream.go *)
(* turn a server's JSON object into the event an application sees, and     *)
(* what encode.go makes of the operations of session.go.                   *)
(*                                                                         *)
(* A string of the wire is a sequence of tokens: its contents do not       *)
(* matter, only what is joined to what and what is empty.  The string      *)
(* fields of a message that are absent, null or not strings at all leave   *)
(* the zero value, so they are <<>>.  An object field is Nil when it is    *)
(* absent, Bad when it is of another shape, and otherwise a record; null   *)
(* gives the record of zero values.                                        *)
(***************************************************************************)
EXTENDS Naturals, Sequences, SequencesExt

CONSTANTS Nil,  \* an absent field, a nil pointer
          Bad   \* a value the field's Go type refuses

(* Plain text and base64, as strings of one token *)
Text(x) == <<[kind |-> "text", data |-> x]>>
Base64(bytes) == <<[kind |-> "base64", data |-> bytes]>>

(* base64.StdEncoding.DecodeString, nil where it fails *)
Bytes(s) == IF Len(s) = 1 /\ s[1].kind = "base64" THEN s[1].data ELSE <<>>

(* if s == "" { s = t } *)
Or(s, t) == IF s = <<>> THEN t ELSE s

-----------------------------------------------------------------------------
(* The shapes: a content part, an output item, a response, a message.  Roles,
   statuses and indexes are copied without being looked at and are left out. *)

NoPart == [text |-> <<>>, transcript |-> <<>>, audio |-> <<>>]
NoItem == [id |-> <<>>, content |-> <<>>]
NoResponse == [id |-> <<>>, output |-> <<>>, usage |-> Nil]
NoChoice == [finish |-> "", content |-> <<>>]

(* A server's message with no field but its type *)
Message(type) ==
  [type |-> type, responseID |-> <<>>, itemID |-> <<>>, choices |-> Nil, session |-> Nil,
   response |-> Nil, item |-> Nil, part |-> Nil, delta |-> <<>>, transcript |-> <<>>,
   audio |-> <<>>, error |-> Nil]

(* &WireEvent{Type: type} *)
WireEvent(type) ==
  [type |-> type, responseID |-> <<>>, itemID |-> <<>>, session |-> Nil, response |-> Nil,
   item |-> Nil, part |-> Nil, delta |-> <<>>, transcript |-> <<>>, audio64 |-> <<>>,
   finish |-> "", usage |-> Nil, error |-> Nil]

(* json.Unmarshal of an object field: an error leaves the pointer nil. *)
Object(v) == IF v = Bad THEN Nil ELSE v

(* What stands in for a missing delta, transcript or audio *)
PartText(part) == IF part = Nil THEN <<>> ELSE Or(part.text, part.transcript)
PartAudio(part) == IF part = Nil THEN <<>> ELSE part.audio
ItemText(item) ==
  IF item = Nil THEN <<>>
  ELSE FlattenSeq([i \in DOMAIN item.content |-> item.content[i].text])

-----------------------------------------------------------------------------
(* decode.go *)

(* The first part of a choice that has audio *)
FirstAudio(content) ==
  LET audible == {i \in DOMAIN content : content[i].audio # <<>>}
  IN  IF audible = {} THEN <<>> ELSE content[Min(audible)].audio

(* Only the first choice counts; nothing else of the message is kept. *)
DecodeChoices(choices) ==
  IF choices \in {Nil, Bad, <<>>} THEN Nil
  ELSE [WireEvent("choices") EXCEPT
          !.finish = choices[1].finish,
          !.delta = ItemText(choices[1]),
          !.audio64 = FirstAudio(choices[1].content)]

(* The parts of a message that are objects *)
ResponseOf(m) == Object(m.response)
ItemOf(m) == Object(m.item)
PartOf(m) == Object(m.part)
ErrorOf(m) == Object(m.error)

(* The part and then the item stand in for a missing delta. *)
TextOf(m) == Or(Or(m.delta, PartText(PartOf(m))), ItemText(ItemOf(m)))

AudioOf(m) == Or(m.audio, PartAudio(PartOf(m)))

\* Mutant: audio is only looked for in its own field.
AudioNeverInDelta(m) == FALSE

(* A response.audio.delta that has no audio carries it in delta. *)
AudioInDelta(m) == m.type = "response.audio.delta" /\ AudioOf(m) = <<>>

\* Mutant: the audio is copied from Delta and not moved.
DeltaKept(m) == TextOf(m)

DeltaOf(m) == IF AudioInDelta(m) THEN <<>> ELSE TextOf(m)
Audio64Of(m) == IF AudioInDelta(m) THEN TextOf(m) ELSE AudioOf(m)

(* An error names the type when the message does not. *)
TypeOf(m) == IF m.type = "" /\ ErrorOf(m) # Nil THEN "error" ELSE m.type

(* A message without usable choices *)
DecodeFields(m) ==
  LET response == ResponseOf(m)
      item == ItemOf(m)
  IN  [type |-> TypeOf(m),
       responseID |-> IF response = Nil THEN m.responseID ELSE Or(m.responseID, response.id),
       itemID |-> IF item = Nil THEN m.itemID ELSE Or(m.itemID, item.id),
       session |-> Object(m.session),
       response |-> response,
       item |-> item,
       part |-> PartOf(m),
       delta |-> DeltaOf(m),
       transcript |-> m.transcript,
       audio64 |-> Audio64Of(m),
       finish |-> "",
       usage |-> IF response = Nil THEN Nil ELSE response.usage,
       error |-> ErrorOf(m)]

\* Mutant: an object of another shape ends the decoding.
DecodeStrict(m) ==
  LET choices == DecodeChoices(m.choices)
  IN  IF choices # Nil THEN choices
      ELSE IF Bad \in {m.response, m.item, m.part} THEN WireEvent(m.type)
      ELSE DecodeFields(m)

\* Mutant: the error is read only where the type asks for it.
DecodeErrorByType(m) ==
  LET choices == DecodeChoices(m.choices)
  IN  IF choices # Nil THEN choices
      ELSE IF m.type \in {"", "error"} THEN DecodeFields(m)
      ELSE [DecodeFields(m) EXCEPT !.error = Nil]

DecodeServerEvent(m) ==
  LET choices == DecodeChoices(m.choices)
  IN  IF choices = Nil THEN DecodeFields(m) ELSE choices

-----------------------------------------------------------------------------
(* convertWireEvent of stream.go: the same fallbacks once more, and the audio
   decoded. *)

\* Mutant: the event's part has the last word.
ConvertedDeltaPartFirst(w) == Or(PartText(w.part), w.delta)

ConvertedDelta(w) == Or(w.delta, PartText(w.part))
ConvertedAudio(w) == Or(w.audio64, PartAudio(w.part))

(* The message's response, with its item added *)
ConvertedResponse(w) ==
  IF w.item = Nil THEN w.response
  ELSE [(IF w.response = Nil THEN NoResponse ELSE w.response) EXCEPT
          !.output = Append(@, w.item)]

ConvertWireEvent(w) ==
  [type |-> w.type,
   responseID |-> IF w.response = Nil THEN w.responseID ELSE Or(w.responseID, w.response.id),
   itemID |-> IF w.item = Nil THEN w.itemID ELSE Or(w.itemID, w.item.id),
   session |-> w.session,
   response |-> ConvertedResponse(w),
   delta |-> ConvertedDelta(w),
   transcript |-> w.transcript,
   audio64 |-> ConvertedAudio(w),
   audio |-> Bytes(ConvertedAudio(w)),
   finish |-> w.finish,
   usage |-> IF w.usage = Nil /\ w.response # Nil THEN w.response.usage ELSE w.usage,
   error |-> w.error]

(* What readLoop makes of a message *)
Event(m) == ConvertWireEvent(DecodeServerEvent(m))

-----------------------------------------------------------------------------
(* encode.go and the operations of session.go that call it: the message an
   operation sends, or Nil when it refuses its argument.  Event ids are left
   out; an encoded message has the fields its constructor gives it. *)

SessionUpdateEvent(session) == [type |-> "session.update", session |-> session]
InputAudioAppendEvent(audio) == [type |-> "input_audio_buffer.append", audio |-> audio]
InputTextAppendEvent(text) == [type |-> "input_text_buffer.append", text |-> text]
InputImageAppendEvent(image) == [type |-> "input_image_buffer.append", image |-> image]
InputAudioCommitEvent == [type |-> "input_audio_buffer.commit"]
InputAudioClearEvent == [type |-> "input_audio_buffer.clear"]
ResponseCreateEvent(payload) == [payload |-> payload, type |-> "response.create"]
ResponseCancelEvent == [type |-> "response.cancel"]
SessionFinishEvent == [type |-> "session.finish"]

UpdateSession(config) == IF config = Nil THEN Nil ELSE SessionUpdateEvent(config)
AppendAudio(bytes) == IF bytes = <<>> THEN Nil ELSE InputAudioAppendEvent(Base64(bytes))
AppendAudioBase64(s) == IF s = <<>> THEN Nil ELSE InputAudioAppendEvent(s)
AppendText(s) == IF s = <<>> THEN Nil ELSE InputTextAppendEvent(s)
AppendImage(bytes) == IF bytes = <<>> THEN Nil ELSE InputImageAppendEvent(Base64(bytes))

(* Options are Nil or have messages and instructions; no messages and no
   instructions leave their fields out. *)
CreateResponse(options) ==
  IF options = Nil THEN ResponseCreateEvent([messages |-> <<>>, instructions |-> <<>>])
  ELSE IF \E i \in DOMAIN options.messages : options.messages[i] = <<>> THEN Nil
  ELSE ResponseCreateEvent(options)
=============================================================================
