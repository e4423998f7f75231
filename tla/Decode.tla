------------------------------- MODULE Decode -------------------------------
(***************************************************************************)
(* readLoop's treatment of one message (session.go:339-356), any of a set  *)
(* of messages: DecodeServerEvent, then convertWireEvent.  The properties  *)
(* say what an application may rely on in an event, whatever the message.  *)
(***************************************************************************)
EXTENDS Wire

CONSTANT Messages

(* A message is a JSON object; a string field that is no string is empty. *)
ASSUME DecodeAssumption ==
  \A m \in Messages :
    /\ DOMAIN m = DOMAIN Message("")
    /\ \A f \in {"type", "responseID", "itemID", "delta", "transcript", "audio"} : m[f] # Bad

VARIABLES message,  \* what stream.recv returned
          wire,     \* what DecodeServerEvent made of it, or Nil
          event     \* what convertWireEvent made of that, or Nil

decodeVars == <<message, wire, event>>

DecodeInit == message \in Messages /\ wire = Nil /\ event = Nil

Decode ==
  /\ wire = Nil
  /\ wire' = DecodeServerEvent(message)
  /\ UNCHANGED <<message, event>>

Convert ==
  /\ wire # Nil /\ event = Nil
  /\ event' = ConvertWireEvent(wire)
  /\ UNCHANGED <<message, wire>>

DecodeNext == Decode \/ Convert

DecodeSpec == DecodeInit /\ [][DecodeNext]_decodeVars

-----------------------------------------------------------------------------
UsableChoices == DecodeChoices(message.choices) # Nil

(* Where the Delta and the Audio of an event may come from *)
Sources(m) ==
  LET chosen == DecodeChoices(m.choices)
  IN  [delta |-> m.delta, audio |-> m.audio,
       partText |-> PartText(PartOf(m)), partAudio |-> PartAudio(PartOf(m)),
       itemText |-> ItemText(ItemOf(m)),
       choiceText |-> IF chosen = Nil THEN <<>> ELSE chosen.delta,
       choiceAudio |-> IF chosen = Nil THEN <<>> ELSE chosen.audio64]

StringsDiffer(m) ==
  \A f, g \in DOMAIN Sources(m) :
    f # g /\ Sources(m)[f] = Sources(m)[g] => Sources(m)[f] = <<>>

(* decode.go:94-97: of a message whose strings all differ, an application that
   appends Delta to the text and Audio to the sound uses none twice, unless a
   response.audio.delta comes with the text of a part but no delta or audio. *)
TextOrAudio ==
  event # Nil /\ StringsDiffer(message) /\ event.delta # <<>> /\ event.delta = event.audio64 =>
    /\ message.type = "response.audio.delta" /\ ~UsableChoices
    /\ message.delta = <<>> /\ AudioOf(message) = <<>>
    /\ PartText(PartOf(message)) # <<>>

(* convertWireEvent repeats the fallbacks of DecodeServerEvent
   (stream.go:104-134): on a decoded event they change nothing, except that a
   delta moved to the audio is replaced by the part's text. *)
FallbacksAgree ==
  event # Nil =>
    /\ event.responseID = wire.responseID /\ event.itemID = wire.itemID
    /\ event.audio64 = wire.audio64 /\ event.usage = wire.usage
    /\ event.delta # wire.delta =>
         message.type = "response.audio.delta" /\ wire.delta = <<>> /\ wire.audio64 # <<>>

(* decode.go:99-107 is the last step of a decoder that goes on after every
   failure: an error the server reports reaches the application, under the
   message's own type if it has one.  Only usable choices hide it. *)
ErrorNotHidden ==
  event # Nil /\ ErrorOf(message) # Nil /\ ~UsableChoices =>
    /\ event.error = message.error
    /\ event.type = IF message.type = "" THEN "error" ELSE message.type

(* A field of another shape is as good as an absent one: it spoils no other
   field and fails no message (decode.go:22-107 ignores every inner error). *)
BadIsAbsent ==
  LET cleared == [f \in DOMAIN message |-> IF message[f] = Bad THEN Nil ELSE message[f]]
  IN  event # Nil => event = Event(cleared)
=============================================================================
