---------------------------- MODULE DecodeProofs -----------------------------
(***************************************************************************)
(* What readLoop makes of a message, for every set of messages and         *)
(* whatever strings, parts, items, responses and errors they hold.         *)
(***************************************************************************)
EXTENDS Decode, TLAPS

(* Both results are the ones of this message. *)
ResultsInv ==
  /\ message \in Messages
  /\ wire # Nil => wire = DecodeServerEvent(message)
  /\ event # Nil => wire # Nil /\ event = ConvertWireEvent(wire)

LEMMA ResultsHold == DecodeSpec => []ResultsInv
<1>1. DecodeInit => ResultsInv
  BY DEF DecodeInit, ResultsInv
<1>2. ResultsInv /\ [DecodeNext]_decodeVars => ResultsInv'
  BY DEF ResultsInv, DecodeNext, Decode, Convert, decodeVars
<1> QED BY <1>1, <1>2, PTL DEF DecodeSpec

(* The second round of a fallback finds what the first one took. *)
LEMMA OrAgain ==
  ASSUME NEW s, NEW t
  PROVE  /\ Or(Or(s, t), t) = Or(s, t)
         /\ Or(s, t) = <<>> <=> s = <<>> /\ t = <<>>
         /\ Or(s, <<>>) = s
BY DEF Or

(* The event of usable choices has no response, item or part to fall back on. *)
LEMMA ChoicesEvent ==
  ASSUME NEW m, DecodeChoices(m.choices) # Nil
  PROVE  LET w == DecodeServerEvent(m)
         IN  w.responseID = <<>> /\ w.itemID = <<>> /\ w.response = Nil /\ w.item = Nil
             /\ w.part = Nil /\ w.usage = Nil
BY DEF DecodeServerEvent, DecodeChoices, WireEvent

LEMMA FieldsEvent ==
  ASSUME NEW m, DecodeChoices(m.choices) = Nil
  PROVE  DecodeServerEvent(m) = DecodeFields(m)
BY DEF DecodeServerEvent

LEMMA FieldsOf ==
  ASSUME NEW m
  PROVE  LET w == DecodeFields(m)
             r == ResponseOf(m)
         IN  /\ w.response = r /\ w.item = ItemOf(m) /\ w.part = PartOf(m)
             /\ w.responseID = IF r = Nil THEN m.responseID ELSE Or(m.responseID, r.id)
             /\ w.itemID = IF ItemOf(m) = Nil THEN m.itemID ELSE Or(m.itemID, ItemOf(m).id)
             /\ w.usage = IF r = Nil THEN Nil ELSE r.usage
             /\ w.audio64 = Audio64Of(m) /\ w.delta = DeltaOf(m)
BY DEF DecodeFields

LEMMA ConvertedOf ==
  ASSUME NEW w
  PROVE  LET e == ConvertWireEvent(w)
         IN  /\ e.responseID = IF w.response = Nil THEN w.responseID ELSE Or(w.responseID, w.response.id)
             /\ e.itemID = IF w.item = Nil THEN w.itemID ELSE Or(w.itemID, w.item.id)
             /\ e.usage = IF w.usage = Nil /\ w.response # Nil THEN w.response.usage ELSE w.usage
             /\ e.audio64 = Or(w.audio64, PartAudio(w.part))
             /\ e.delta = Or(w.delta, PartText(w.part))
BY DEF ConvertWireEvent, ConvertedAudio, ConvertedDelta

(* An error the server reports survives both steps, under its message's own
   type if there is one, unless usable choices hide it (decode.go:99-107). *)
THEOREM ErrorsComeThrough == DecodeSpec => []ErrorNotHidden
<1>1. ASSUME ResultsInv PROVE ErrorNotHidden
  <2> SUFFICES ASSUME event # Nil, ErrorOf(message) # Nil, ~UsableChoices
               PROVE  /\ event.error = message.error
                      /\ event.type = IF message.type = "" THEN "error" ELSE message.type
    BY DEF ErrorNotHidden
  <2>1. wire = DecodeFields(message) /\ event = ConvertWireEvent(wire)
    BY <1>1, FieldsEvent DEF ResultsInv, UsableChoices
  <2>2. event.error = ErrorOf(message) /\ event.type = TypeOf(message)
    BY <2>1 DEF ConvertWireEvent, DecodeFields
  <2> QED BY <2>2 DEF TypeOf, ErrorOf, Object
<1> QED BY <1>1, ResultsHold, PTL

(* On a decoded event the fallbacks of convertWireEvent change nothing, except
   that a delta the decoder moved to the audio is replaced by the part's text
   (stream.go:104-134 after decode.go:94). *)
THEOREM SecondFallbacksIdle == DecodeSpec => []FallbacksAgree
<1>1. ASSUME ResultsInv, event # Nil PROVE FallbacksAgree
  <2>1. wire = DecodeServerEvent(message) /\ event = ConvertWireEvent(wire)
    BY <1>1 DEF ResultsInv
  <2>2. CASE DecodeChoices(message.choices) # Nil
    <3>1. /\ wire.responseID = <<>> /\ wire.itemID = <<>> /\ wire.response = Nil
          /\ wire.item = Nil /\ wire.part = Nil /\ wire.usage = Nil
      BY <2>1, <2>2, ChoicesEvent
    <3>2. /\ event.responseID = wire.responseID /\ event.itemID = wire.itemID
          /\ event.delta = Or(wire.delta, PartText(wire.part))
          /\ event.audio64 = Or(wire.audio64, PartAudio(wire.part))
          /\ event.usage = wire.usage
      BY <2>1, <3>1 DEF ConvertWireEvent, ConvertedDelta, ConvertedAudio
    <3>3. PartText(wire.part) = <<>> /\ PartAudio(wire.part) = <<>>
      BY <3>1 DEF PartText, PartAudio
    <3> QED BY <3>2, <3>3, OrAgain DEF FallbacksAgree
  <2>3. CASE DecodeChoices(message.choices) = Nil
    <3> DEFINE m == message
               text == PartText(PartOf(m))
               sound == PartAudio(PartOf(m))
    <3>1. wire = DecodeFields(m)
      BY <2>1, <2>3, FieldsEvent
    <3>2. event.responseID = wire.responseID /\ event.itemID = wire.itemID
      <4>1. /\ wire.response # Nil => Or(wire.responseID, wire.response.id) = wire.responseID
            /\ wire.item # Nil => Or(wire.itemID, wire.item.id) = wire.itemID
        BY <3>1, FieldsOf, OrAgain
      <4> QED BY <2>1, <4>1, ConvertedOf
    <3>3. event.usage = wire.usage
      BY <2>1, <3>1, FieldsOf, ConvertedOf
    <3>4. event.audio64 = Or(wire.audio64, sound) /\ event.delta = Or(wire.delta, text)
      BY <2>1, <3>1, FieldsOf, ConvertedOf
    <3>5. wire.audio64 = Audio64Of(m) /\ wire.delta = DeltaOf(m)
      BY <3>1, FieldsOf
    <3>6. CASE AudioInDelta(m)
      <4>1. sound = <<>> /\ m.type = "response.audio.delta"
        BY <3>6, OrAgain DEF AudioInDelta, AudioOf
      <4>2. wire.audio64 = TextOf(m) /\ wire.delta = <<>>
        BY <3>5, <3>6 DEF Audio64Of, DeltaOf
      <4>3. text # <<>> => TextOf(m) # <<>>
        BY DEF TextOf, Or
      <4>4. event.delta = text
        BY <3>4, <4>2 DEF Or
      <4> QED BY <3>2, <3>3, <3>4, <4>1, <4>2, <4>3, <4>4, OrAgain DEF FallbacksAgree
    <3>7. CASE ~AudioInDelta(m)
      <4>1. wire.audio64 = Or(m.audio, sound) /\ wire.delta = TextOf(m)
        BY <3>5, <3>7 DEF Audio64Of, DeltaOf, AudioOf
      <4>2. event.audio64 = wire.audio64
        BY <3>4, <4>1, OrAgain
      <4>3. TextOf(m) = <<>> => text = <<>>
        BY DEF TextOf, Or
      <4>4. event.delta = wire.delta
        BY <3>4, <4>1, <4>3 DEF Or
      <4> QED BY <3>2, <3>3, <4>2, <4>4 DEF FallbacksAgree
    <3> QED BY <3>6, <3>7
  <2> QED BY <2>2, <2>3
<1>2. ResultsInv => FallbacksAgree
  BY <1>1 DEF FallbacksAgree
<1> QED BY <1>2, ResultsHold, PTL

(* A field of another shape is decoded as an absent one and disturbs no other
   (decode.go:22-107). *)
THEOREM BadFieldsAbsent == DecodeSpec => []BadIsAbsent
<1>1. ASSUME ResultsInv, event # Nil PROVE BadIsAbsent
  <2> DEFINE m == message
             c == [f \in DOMAIN m |-> IF m[f] = Bad THEN Nil ELSE m[f]]
  <2>1. event = Event(m)
    BY <1>1 DEF ResultsInv, Event
  <2>2. /\ c.type = m.type /\ c.responseID = m.responseID /\ c.itemID = m.itemID
        /\ c.delta = m.delta /\ c.transcript = m.transcript /\ c.audio = m.audio
    BY <1>1, DecodeAssumption DEF ResultsInv, Message
  <2>3. /\ Object(c.session) = Object(m.session) /\ Object(c.response) = Object(m.response)
        /\ Object(c.item) = Object(m.item) /\ Object(c.part) = Object(m.part)
        /\ Object(c.error) = Object(m.error)
    BY <1>1, DecodeAssumption DEF ResultsInv, Message, Object
  <2>4. DecodeChoices(c.choices) = DecodeChoices(m.choices)
    <3>1. c.choices = IF m.choices = Bad THEN Nil ELSE m.choices
      BY <1>1, DecodeAssumption DEF ResultsInv, Message
    <3>2. CASE m.choices = Bad
      <4>1. c.choices = Nil
        BY <3>1, <3>2
      <4> HIDE DEF c
      <4> QED BY <3>2, <4>1 DEF DecodeChoices
    <3>3. CASE m.choices # Bad
      <4>1. c.choices = m.choices
        BY <3>1, <3>3
      <4> HIDE DEF c
      <4> QED BY <4>1
    <3> QED BY <3>2, <3>3
  <2> HIDE DEF c
  <2>5. /\ ResponseOf(c) = ResponseOf(m) /\ ItemOf(c) = ItemOf(m)
        /\ PartOf(c) = PartOf(m) /\ ErrorOf(c) = ErrorOf(m)
    BY <2>3 DEF ResponseOf, ItemOf, PartOf, ErrorOf
  <2>6. /\ TextOf(c) = TextOf(m) /\ AudioOf(c) = AudioOf(m) /\ TypeOf(c) = TypeOf(m)
    BY <2>2, <2>5 DEF TextOf, AudioOf, TypeOf
  <2>7. AudioInDelta(c) = AudioInDelta(m)
    BY <2>2, <2>6 DEF AudioInDelta
  <2>8. DeltaOf(c) = DeltaOf(m) /\ Audio64Of(c) = Audio64Of(m)
    BY <2>6, <2>7 DEF DeltaOf, Audio64Of
  <2>9. DecodeFields(c) = DecodeFields(m)
    BY <2>2, <2>3, <2>5, <2>6, <2>8 DEF DecodeFields
  <2>10. DecodeServerEvent(c) = DecodeServerEvent(m)
    BY <2>4, <2>9 DEF DecodeServerEvent
  <2>11. Event(c) = Event(m)
    BY <2>10 DEF Event
  <2> QED BY <2>1, <2>11 DEF c, BadIsAbsent
<1>2. ResultsInv => BadIsAbsent
  BY <1>1 DEF BadIsAbsent
<1> QED BY <1>2, ResultsHold, PTL

(* The pairs of strings that Delta and Audio could share *)
LEMMA DifferentStrings ==
  ASSUME NEW m, StringsDiffer(m)
  PROVE  LET text == PartText(PartOf(m))
             sound == PartAudio(PartOf(m))
             item == ItemText(ItemOf(m))
             chosen == DecodeChoices(m.choices)
         IN  /\ m.delta = text \/ m.delta = m.audio \/ m.delta = sound => m.delta = <<>>
             /\ text = m.audio \/ text = sound => text = <<>>
             /\ item = m.audio \/ item = sound => item = <<>>
             /\ chosen # Nil /\ chosen.delta = chosen.audio64 => chosen.delta = <<>>
<1> DEFINE s == Sources(m)
<1>1. \A f, g \in DOMAIN s : f # g /\ s[f] = s[g] => s[f] = <<>>
  BY DEF StringsDiffer
<1>2. DOMAIN s = {"delta", "audio", "partText", "partAudio", "itemText", "choiceText", "choiceAudio"}
  BY DEF Sources
<1>3. /\ s["delta"] = m.delta /\ s["audio"] = m.audio /\ s["partText"] = PartText(PartOf(m))
      /\ s["partAudio"] = PartAudio(PartOf(m)) /\ s["itemText"] = ItemText(ItemOf(m))
      /\ DecodeChoices(m.choices) # Nil =>
           /\ s["choiceText"] = DecodeChoices(m.choices).delta
           /\ s["choiceAudio"] = DecodeChoices(m.choices).audio64
  BY DEF Sources
<1> HIDE DEF s
<1>4. QED
  BY <1>1, <1>2, <1>3

(* No string of a message is both text and sound to an application, but for
   the part's text of a response.audio.delta without delta and audio
   (decode.go:94-97). *)
THEOREM NothingUsedTwice == DecodeSpec => []TextOrAudio
<1>1. ASSUME ResultsInv, event # Nil, StringsDiffer(message),
             event.delta # <<>>, event.delta = event.audio64
      PROVE  /\ message.type = "response.audio.delta" /\ ~UsableChoices
             /\ message.delta = <<>> /\ AudioOf(message) = <<>>
             /\ PartText(PartOf(message)) # <<>>
  <2> DEFINE m == message
             text == PartText(PartOf(m))
             sound == PartAudio(PartOf(m))
  <2>1. wire = DecodeServerEvent(m) /\ event = ConvertWireEvent(wire)
    BY <1>1 DEF ResultsInv
  <2>2. event.delta = Or(wire.delta, PartText(wire.part)) /\ event.audio64 = Or(wire.audio64, PartAudio(wire.part))
    BY <2>1, ConvertedOf
  <2>3. CASE UsableChoices
    <3>1. wire = DecodeChoices(m.choices) /\ wire.part = Nil /\ wire # Nil
      BY <2>1, <2>3, ChoicesEvent DEF UsableChoices, DecodeServerEvent
    <3>2. PartText(wire.part) = <<>> /\ PartAudio(wire.part) = <<>>
      BY <3>1 DEF PartText, PartAudio
    <3>3. event.delta = wire.delta /\ event.audio64 = wire.audio64
      BY <2>2, <3>2, OrAgain
    <3>4. QED
      BY <1>1, <3>1, <3>3, DifferentStrings
  <2>4. CASE ~UsableChoices
    <3>1. wire.part = PartOf(m) /\ wire.audio64 = Audio64Of(m) /\ wire.delta = DeltaOf(m)
      BY <2>1, <2>4, FieldsEvent, FieldsOf DEF UsableChoices
    <3>2. CASE AudioInDelta(m)
      <4>1. wire.audio64 = TextOf(m) /\ wire.delta = <<>> /\ AudioOf(m) = <<>> /\ sound = <<>>
        BY <3>1, <3>2, OrAgain DEF Audio64Of, DeltaOf, AudioInDelta, AudioOf
      <4>2. event.delta = text /\ event.audio64 = TextOf(m)
        BY <2>2, <3>1, <4>1 DEF Or
      <4>3. m.delta = <<>>
        BY <1>1, <4>2, DifferentStrings DEF TextOf, Or
      <4>4. QED
        BY <1>1, <2>4, <3>2, <4>1, <4>2, <4>3 DEF AudioInDelta
    <3>3. CASE ~AudioInDelta(m)
      <4>1. wire.audio64 = Or(m.audio, sound) /\ wire.delta = TextOf(m)
        BY <3>1, <3>3 DEF Audio64Of, DeltaOf, AudioOf
      <4>2. event.audio64 \in {m.audio, sound}
        BY <2>2, <3>1, <4>1 DEF Or
      <4>3. event.delta \in {m.delta, text, ItemText(ItemOf(m))}
        BY <2>2, <3>1, <4>1 DEF TextOf, Or
      <4>4. QED
        BY <1>1, <4>2, <4>3, DifferentStrings
    <3>4. QED
      BY <3>2, <3>3
  <2>5. QED
    BY <2>3, <2>4
<1>2. ResultsInv => TextOrAudio
  BY <1>1 DEF TextOrAudio
<1> QED BY <1>2, ResultsHold, PTL
=============================================================================
