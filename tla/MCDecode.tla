------------------------------ MODULE MCDecode ------------------------------
EXTENDS Decode

(* Strings, objects and messages that differ in what the decoder looks at *)
Strings(x) == {<<>>, Text(x)}
Sounds(x) == {<<>>, Base64(x)}
Parts ==
  {Nil, Bad} \cup [text : Strings(<<1>>), transcript : Strings(<<2>>), audio : Sounds(<<3>>)]
Contents == {<<>>, <<[NoPart EXCEPT !.text = Text(<<4>>)], NoPart, [NoPart EXCEPT !.text = Text(<<5>>)]>>}
MCItems == {Nil, Bad} \cup [id : {Text(<<6>>)}, content : Contents]
MCResponses == {Nil, Bad,
                [id |-> Text(<<7>>), output |-> <<NoItem>>, usage |-> [total |-> 3]]}
MCChoices ==
  {Nil, Bad, <<>>, <<NoChoice>>,
   <<[finish |-> "stop",
      content |-> <<[text |-> Text(<<8>>), audio |-> <<>>],
                    [text |-> Text(<<9>>), audio |-> Base64(<<10>>)],
                    [text |-> <<>>, audio |-> Base64(<<11>>)]>>], NoChoice>>}

MCMessages ==
  [type : {"", "response.text.delta", "response.audio.delta"},
   choices : MCChoices, session : {Bad}, response : MCResponses, item : MCItems, part : Parts,
   delta : {<<>>, Text(<<12>>), Base64(<<12>>)}, transcript : {Text(<<15>>)},
   audio : Sounds(<<13>>), error : {Nil, Bad, [code |-> <<>>]},
   responseID : Strings(<<14>>), itemID : {<<>>}]
=============================================================================
