--------------------------- MODULE ExamplesProofs ----------------------------
(***************************************************************************)
(* The applications, for any of their programs, any audio and chunk size,  *)
(* any capacities and any number of deltas, reconnects and timers.         *)
(***************************************************************************)
EXTENDS Examples, Induction, SequenceTheorems

Handled == {"created", "updated", "refused", "denied", "text", "sound", "transcript", "part",
            "done", "choice", "lastChoice"}

(* What the server says *)
Said == {name \in Names : name.kind \in Handled}

LEMMA NameIsName ==
  ASSUME NEW kind \in Handled, NEW n \in Nat, NEW i \in Nat
  PROVE  /\ Name(kind, n, i) \in Said /\ Name(kind, n, i) \in Names
         /\ Name(kind, n, i).kind = kind /\ Name(kind, n, i).answer = n
         /\ Name(kind, n, i).part = i
  BY DEF Name, Names, Said, Handled

LEMMA ErrorIsName ==
  /\ StreamError \in Names /\ StreamError.kind = "streamError" /\ StreamError \notin Said
  BY DEF StreamError, Name, Names, Said, Handled

LEMMA SaidAreNames ==
  Said \subseteq Names /\ Seq(Said) \subseteq Seq(Names)
<1>1. Said \subseteq Names
  BY DEF Said
<1>2. QED
  BY <1>1, SeqMonotonic

(* What the server has to say of an answer *)
LEMMA SpokenNames ==
  ASSUME NEW n \in Nat
  PROVE  Spoken(n) \in Seq(Said)
<1>1. Deltas \in Nat \ {0}
  BY ExamplesAssumption
<1>2. CASE program.app = "audio"
  <2> DEFINE spoken == [i \in 1 .. 2 * Deltas |->
               Name(IF i % 2 = 1 THEN "sound" ELSE "transcript", n, (i + 1) \div 2)]
  <2>1. ASSUME NEW i \in 1 .. 2 * Deltas PROVE spoken[i] \in Said
    <3>1. (i + 1) \div 2 \in Nat
      BY <1>1
    <3>2. QED
      BY <3>1, NameIsName DEF Handled
  <2>2. spoken \in [1 .. 2 * Deltas -> Said]
    BY <2>1
  <2>3. spoken \in Seq(Said)
    BY <1>1, <2>2, SeqDef
  <2>4. QED
    BY <1>2, <2>3 DEF Spoken
<1>3. CASE program.app # "audio"
  <2> DEFINE spoken == [i \in 1 .. Deltas |-> Name("text", n, i)]
  <2>1. \A i \in 1 .. Deltas : spoken[i] \in Said
    BY <1>1, NameIsName DEF Handled
  <2>2. spoken \in [1 .. Deltas -> Said]
    BY <2>1
  <2>3. spoken \in Seq(Said)
    BY <1>1, <2>2, SeqDef
  <2>4. QED
    BY <1>3, <2>3 DEF Spoken
<1>4. QED
  BY <1>2, <1>3

LEMMA AnswerNames ==
  ASSUME NEW n \in Nat
  PROVE  Answer(n) \in Seq(Said)
<1>1. Deltas \in Nat \ {0}
  BY ExamplesAssumption
<1>2. CASE program.compact
  <2> DEFINE chosen == [i \in 1 .. Deltas |-> Name(IF i < Deltas THEN "choice" ELSE "lastChoice", n, i)]
  <2>1. \A i \in 1 .. Deltas : chosen[i] \in Said
    BY <1>1, NameIsName DEF Handled
  <2>2. chosen \in [1 .. Deltas -> Said]
    BY <2>1
  <2>3. chosen \in Seq(Said)
    BY <1>1, <2>2, SeqDef
  <2>4. QED
    BY <1>2, <2>3 DEF Answer
<1>3. CASE ~program.compact
  <2>1. Spoken(n) \in Seq(Said)
    BY SpokenNames
  <2>2. <<Name("part", n, 0), Name("done", n, 0)>> \in Seq(Said)
    BY NameIsName DEF Handled
  <2>3. QED
    BY <1>3, <2>1, <2>2, ConcatProperties DEF Answer
<1>4. QED
  BY <1>2, <1>3

(* What collect gathers of a text *)
Tokens == [kind : {"text"}, data : Nat \X Nat]

(* How Cut keeps what is left, message by message *)
LEMMA CutSteps ==
  ASSUME NEW s \in Seq(Said)
  PROVE  \E cut \in [0 .. Len(s) -> Seq(Said)] :
           /\ cut[0] = <<>>
           /\ \A i \in 1 .. Len(s) :
                cut[i] = IF Kept(s[i]) THEN Append(cut[i - 1], s[i]) ELSE cut[i - 1]
           /\ Cut(s) = cut[Len(s)]
<1> DEFINE V == Seq(Said)
           G(i, x) == IF i \in 1 .. Len(s) /\ Kept(s[i]) THEN Append(x, s[i]) ELSE x
           F == [i \in Nat |-> [x \in V |-> G(i, x)]]
           Cutting(g) == [i \in 0 .. Len(s) |->
                         IF i = 0 THEN <<>>
                         ELSE IF Kept(s[i]) THEN Append(g[i - 1], s[i]) ELSE g[i - 1]]
<1>1. F \in [Nat -> [V -> V]]
  <2>1. ASSUME NEW i \in Nat, NEW x \in V PROVE G(i, x) \in V
    OBVIOUS
  <2> HIDE DEF G, V
  <2>2. QED
    BY <2>1
<1>2. Len(s) \in Nat /\ <<>> \in V
  OBVIOUS
<1>3. PICK h \in Beginnings(V, <<>>, F, Len(s)) : TRUE
  <2> HIDE DEF V, F
  <2>1. QED
    BY <1>1, <1>2, BeginningsExist
<1>4. /\ h \in [0 .. Len(s) -> V] /\ h[0] = <<>>
      /\ \A i \in 1 .. Len(s) : h[i] = F[i][h[i - 1]]
  <2> HIDE DEF V, F
  <2>1. QED
    BY <1>3 DEF Beginnings
<1>5. ASSUME NEW i \in 1 .. Len(s)
      PROVE  h[i] = IF Kept(s[i]) THEN Append(h[i - 1], s[i]) ELSE h[i - 1]
  <2>1. h[i - 1] \in V
    <3>1. i - 1 \in 0 .. Len(s)
      BY <1>2
    <3> HIDE DEF V, F
    <3>2. QED
      BY <1>4, <3>1
  <2>2. h[i] = F[i][h[i - 1]]
    BY <1>4
  <2>3. F[i][h[i - 1]] = G(i, h[i - 1])
    BY <2>1
  <2>4. QED
    BY <2>2, <2>3
<1>6. h = Cutting(h)
  <2> HIDE DEF V, F
  <2>1. DOMAIN h = 0 .. Len(s)
    BY <1>4
  <2>2. h = [i \in 0 .. Len(s) |-> h[i]]
    BY <1>4
  <2>3. \A i \in 0 .. Len(s) : i # 0 => i \in 1 .. Len(s)
    BY <1>2
  <2>4. \A i \in 0 .. Len(s) : h[i] = Cutting(h)[i]
    BY <1>4, <1>5, <2>3
  <2>5. QED
    BY <2>2, <2>4
<1> DEFINE cut == CHOOSE g : g = Cutting(g)
<1>7. cut = Cutting(cut)
  <2> HIDE DEF Cutting
  <2>1. QED
    BY <1>6
<1>8. cut \in [0 .. Len(s) -> V]
  <2> DEFINE Odd == {i \in 0 .. Len(s) : cut[i] \notin V}
  <2>1. SUFFICES ASSUME Odd # {} PROVE FALSE
    <3> HIDE DEF cut
    <3>1. QED
      BY <1>7
  <2>2. PICK i \in Odd : \A j \in Odd : i <= j
    <3>1. Odd \in SUBSET Nat
      BY <1>2
    <3> HIDE DEF Odd
    <3>2. QED
      BY <2>1, <3>1, LeastNat
  <2> HIDE DEF cut
  <2>3. i # 0
    BY <1>2, <1>7
  <2>4. i - 1 \in 0 .. Len(s) /\ cut[i - 1] \in V /\ s[i] \in Said
    BY <1>2, <2>2, <2>3, ElementOfSeq
  <2>5. cut[i] = IF Kept(s[i]) THEN Append(cut[i - 1], s[i]) ELSE cut[i - 1]
    BY <1>2, <1>7, <2>3
  <2>6. cut[i] \in V
    <3>1. CASE Kept(s[i])
      BY <2>4, <2>5, <3>1
    <3>2. CASE ~Kept(s[i])
      BY <2>4, <2>5, <3>2
    <3>3. QED
      BY <3>1, <3>2
  <2>7. QED
    BY <2>2, <2>6
<1>9. Cut(s) = cut[Len(s)]
  BY DEF Cut
<1>10. cut[0] = <<>> /\ \A i \in 1 .. Len(s) :
         cut[i] = IF Kept(s[i]) THEN Append(cut[i - 1], s[i]) ELSE cut[i - 1]
  <2> HIDE DEF cut
  <2>1. \A i \in 1 .. Len(s) : i # 0 /\ i \in 0 .. Len(s)
    BY <1>2
  <2>2. 0 \in 0 .. Len(s)
    BY <1>2
  <2>3. QED
    BY <1>7, <2>1, <2>2
<1>11. QED
  <2> HIDE DEF cut
  <2>1. QED
    BY <1>8, <1>9, <1>10

(* Where a message stands in its answer: the sound of a part before its text,
   the end last *)
Place(name) ==
  IF name.kind = "done" THEN 2 * Deltas + 1
  ELSE IF name.kind = "sound" THEN 2 * name.part - 1 ELSE 2 * name.part

(* An earlier message of an earlier answer, or of the same one *)
Earlier(a, b) == a.answer < b.answer \/ (a.answer = b.answer /\ Place(a) < Place(b))

(* The messages whose text collect gathers; those it gathers anything from, or
   returns for as those of its answer; and that they come in order *)
Spoke == {"text", "transcript", "choice", "lastChoice"}
Counted == Spoke \cup {"sound", "done", "refused"}
InTurn(a, b) == a.kind \in Counted /\ b.kind \in Counted => Earlier(a, b)
Sorted(s) == \A i, j \in 1 .. Len(s) : i < j => InTurn(s[i], s[j])

(* Cutting an answer short leaves what there is in its order. *)
LEMMA CutSorted ==
  ASSUME NEW s \in Seq(Said), Sorted(s)
  PROVE  /\ Cut(s) \in Seq(Said) /\ Sorted(Cut(s))
         /\ \A i \in 1 .. Len(Cut(s)) : \E j \in 1 .. Len(s) : Cut(s)[i] = s[j]
<1>1. PICK cut \in [0 .. Len(s) -> Seq(Said)] :
           /\ cut[0] = <<>>
           /\ \A i \in 1 .. Len(s) :
                cut[i] = IF Kept(s[i]) THEN Append(cut[i - 1], s[i]) ELSE cut[i - 1]
           /\ Cut(s) = cut[Len(s)]
  BY CutSteps
<1> DEFINE Good(k) == /\ Sorted(cut[k])
                      /\ \A i \in 1 .. Len(cut[k]) : \E j \in 1 .. k : cut[k][i] = s[j]
           Wrong == {k \in 0 .. Len(s) : ~Good(k)}
<1>2. Len(s) \in Nat
  OBVIOUS
<1>3. SUFFICES Wrong = {}
  <2>1. Good(Len(s))
    BY <1>2, <1>3
  <2>2. QED
    BY <1>1, <1>2, <2>1
<1>4. SUFFICES ASSUME Wrong # {} PROVE FALSE
  OBVIOUS
<1>5. PICK k \in Wrong : \A j \in Wrong : k <= j
  <2>1. Wrong \in SUBSET Nat
    BY <1>2
  <2> HIDE DEF Wrong
  <2>2. QED
    BY <1>4, <2>1, LeastNat
<1>6. k # 0
  BY <1>1 DEF Sorted
<1>7. k \in 1 .. Len(s) /\ k - 1 \in 0 .. Len(s) /\ Good(k - 1)
  BY <1>2, <1>5, <1>6
<1>8. CASE ~Kept(s[k])
  <2>1. cut[k] = cut[k - 1]
    BY <1>1, <1>7, <1>8
  <2>2. Good(k)
    BY <1>7, <2>1
  <2>3. QED
    BY <1>5, <2>2
<1>9. CASE Kept(s[k])
  <2> DEFINE c == cut[k - 1]
  <2>1. cut[k] = Append(c, s[k]) /\ c \in Seq(Said) /\ s[k] \in Said
    BY <1>1, <1>7, <1>9, ElementOfSeq
  <2>2. /\ Sorted(c) /\ \A i \in 1 .. Len(c) : \E j \in 1 .. k - 1 : c[i] = s[j]
    BY <1>7
  <2> HIDE DEF c
  <2>3. /\ Len(cut[k]) = Len(c) + 1 /\ cut[k][Len(c) + 1] = s[k]
        /\ \A i \in 1 .. Len(c) : cut[k][i] = c[i]
    BY <2>1
  <2>4. ASSUME NEW i \in 1 .. Len(cut[k]) PROVE \E j \in 1 .. k : cut[k][i] = s[j]
    BY <1>7, <2>1, <2>2, <2>3
  <2>5. ASSUME NEW i \in 1 .. Len(cut[k]), NEW j \in 1 .. Len(cut[k]), i < j
        PROVE  InTurn(cut[k][i], cut[k][j])
    <3>1. CASE j = Len(c) + 1
      <4>1. i \in 1 .. Len(c)
        BY <2>1, <2>3, <2>5, <3>1
      <4>2. PICK l \in 1 .. k - 1 : c[i] = s[l]
        BY <2>2, <4>1
      <4>3. InTurn(s[l], s[k])
        BY <1>7, <4>2, SMTT(30) DEF Sorted
      <4>4. QED
        BY <2>3, <3>1, <4>1, <4>2, <4>3
    <3>2. CASE j # Len(c) + 1
      <4>1. i \in 1 .. Len(c) /\ j \in 1 .. Len(c)
        <5>1. Len(c) \in Nat
          BY <2>1
        <5>2. i \in 1 .. Len(c) + 1 /\ j \in 1 .. Len(c) + 1 /\ i < j
          BY <2>3, <2>5
        <5>3. QED
          BY <3>2, <5>1, <5>2
      <4>2. QED
        BY <2>2, <2>3, <2>5, <4>1 DEF Sorted
    <3>3. QED
      BY <3>1, <3>2
  <2>6. Good(k)
    BY <2>4, <2>5 DEF Sorted
  <2>7. QED
    BY <1>5, <2>6
<1>10. QED
  BY <1>8, <1>9

-----------------------------------------------------------------------------
(* The server's session: whatever it is asked, what it has to send is made of
   names, and an answer is sent only when it has been asked for. *)
ServerOK ==
  /\ server \in [config : {server.config}, buffer : {server.buffer}, outbox : Seq(Said)]
  /\ asked \in Nat

Notes == {<<Name(kind, 0, 0)>> : kind \in {"updated", "denied"}}
Replies(n) == {Answer(n), <<Refusal(n)>>}

(* What a request does to what the server has to send *)
Outbox(s) ==
  \/ /\ asked' = asked
     /\ s \in {server.outbox, Cut(server.outbox)} \cup {server.outbox \o note : note \in Notes}
  \/ /\ asked' = asked + 1
     /\ s \in {server.outbox \o reply : reply \in Replies(asked + 1)}

LEMMA RefusalIsName ==
  ASSUME NEW n \in Nat
  PROVE  /\ Refusal(n) \in Said /\ Refusal(n) \in Names /\ <<Refusal(n)>> \in Seq(Said)
         /\ Refusal(n).kind = "refused" /\ Refusal(n).answer = n
BY NameIsName DEF Refusal, Handled

LEMMA Requests ==
  ASSUME ServerOK, NEW request, Handle(request)
  PROVE  ServerOK' /\ Outbox(server'.outbox)
<1>1. /\ server.outbox \in Seq(Said) /\ asked \in Nat
      /\ server = [config |-> server.config, buffer |-> server.buffer, outbox |-> server.outbox]
  BY DEF ServerOK
<1>2. ASSUME NEW kind \in {"updated", "denied"}
      PROVE  /\ <<Name(kind, 0, 0)>> \in Notes
             /\ server.outbox \o <<Name(kind, 0, 0)>> \in Seq(Said)
             /\ Append(server.outbox, Name(kind, 0, 0)) = server.outbox \o <<Name(kind, 0, 0)>>
  <2>1. <<Name(kind, 0, 0)>> \in Notes
    BY DEF Notes
  <2>2. Name(kind, 0, 0) \in Said
    BY NameIsName DEF Handled
  <2>3. server.outbox \o <<Name(kind, 0, 0)>> \in Seq(Said)
    BY <1>1, <2>2, ConcatProperties
  <2>4. Append(server.outbox, Name(kind, 0, 0)) = server.outbox \o <<Name(kind, 0, 0)>>
    BY <1>1, <2>2, AppendIsConcat
  <2>5. QED
    BY <2>1, <2>3, <2>4
<1>3. \A reply \in Replies(asked + 1) : server.outbox \o reply \in Seq(Said)
  <2>1. Answer(asked + 1) \in Seq(Said) /\ <<Refusal(asked + 1)>> \in Seq(Said)
    BY <1>1, AnswerNames, RefusalIsName
  <2>2. QED
    BY <1>1, <2>1, ConcatProperties DEF Replies
<1>4. Cut(server.outbox) \in Seq(Said)
  BY <1>1, CutSteps
<1>5. SUFFICES /\ asked' \in Nat /\ server'.outbox \in Seq(Said) /\ Outbox(server'.outbox)
               /\ server' = [config |-> server'.config, buffer |-> server'.buffer,
                             outbox |-> server'.outbox]
  BY DEF ServerOK
<1>6. CASE request.type = "session.update"
  <2>1. server' = [server EXCEPT !.config = request.session,
                                 !.outbox = Append(@, Name("updated", 0, 0))]
        /\ asked' = asked
    BY <1>6 DEF Handle, requestVars
  <2>2. /\ server'.outbox = server.outbox \o <<Name("updated", 0, 0)>>
        /\ server' = [config |-> server'.config, buffer |-> server'.buffer,
                      outbox |-> server'.outbox]
    BY <1>1, <1>2, <2>1
  <2>3. QED
    BY <1>1, <1>2, <2>1, <2>2 DEF Outbox
<1>7. CASE request.type = "input_audio_buffer.append"
  BY <1>1, <1>7 DEF Handle, requestVars, Outbox
<1>8. CASE request.type \in {"input_audio_buffer.clear", "input_audio_buffer.commit"}
  BY <1>1, <1>8 DEF Handle, requestVars, Outbox
<1>9. CASE request.type = "response.create"
  <2>1. PICK reply \in Replies(asked + 1) : asked' = asked + 1 /\ Sends(reply)
    BY <1>9 DEF Handle, Replies
  <2>2. /\ server'.outbox = server.outbox \o reply
        /\ server' = [config |-> server'.config, buffer |-> server'.buffer,
                      outbox |-> server'.outbox]
    BY <1>1, <2>1 DEF Sends
  <2>3. server'.outbox \in Seq(Said)
    BY <1>3, <2>1, <2>2
  <2>4. Outbox(server'.outbox)
    BY <2>1, <2>2 DEF Outbox
  <2>5. QED
    BY <1>1, <2>1, <2>2, <2>3, <2>4
<1>10. CASE request.type = "response.cancel"
  <2>1. asked' = asked /\ (server' = [server EXCEPT !.outbox = Cut(@)]
                           \/ Sends(<<Name("denied", 0, 0)>>))
    BY <1>10 DEF Handle, Denial
  <2>2. CASE server' = [server EXCEPT !.outbox = Cut(@)]
    BY <1>1, <1>4, <2>1, <2>2 DEF Outbox
  <2>3. CASE Sends(<<Name("denied", 0, 0)>>)
    BY <1>1, <1>2, <2>1, <2>3 DEF Sends, Outbox
  <2>4. QED
    BY <2>1, <2>2, <2>3
<1>11. CASE request.type \notin {"session.update", "input_audio_buffer.append",
         "input_audio_buffer.clear", "input_audio_buffer.commit", "response.create",
         "response.cancel"}
  BY <1>1, <1>11 DEF Handle, Outbox, serverVars, requestVars
<1>12. QED
  BY <1>6, <1>7, <1>8, <1>9, <1>10, <1>11

-----------------------------------------------------------------------------
(* The pump: it stops at the session's error and passes it on, and is past its
   loop only then or after Close, which main calls last. *)
Past == {"closeErr", "closeEvents", "end"}

PumpInv ==
  /\ pump \in {"range", "event", "error"} \cup Past
  /\ hand \in Names /\ eventCh \in Seq(Said)
  /\ \A i \in 1 .. Len(log) : log[i] \in Said \cup {StreamError}
  /\ pump = "event" => hand \in Said
  /\ pump = "error" => hand = StreamError
  /\ pump \in {"range", "event"} => \A i \in 1 .. Len(out) : out[i] # StreamError
  /\ chClosed # {} => pump \in {"closeEvents", "end"}
  /\ pump \in Past => errCh # <<>> \/ errorTaken \/ closed
  /\ closed => status # "running"

PumpedInv == ServerOK /\ Stream!StreamInv /\ PumpInv

(* What main does without closing the session *)
LEMMA Working ==
  ASSUME PumpInv, SendReturns \/ SendBreaksOff \/ Select \/ Timer
  PROVE  /\ status = "running" /\ UNCHANGED <<streamVars, pump, hand, chClosed, reconnects, fixed>>
         /\ eventCh' \in Seq(Said)
         /\ errCh' # <<>> \/ errorTaken' \/ (errCh = <<>> /\ ~errorTaken)
<1>1. eventCh \in Seq(Said)
  BY DEF PumpInv
<1>2. CASE SendReturns
  BY <1>1, <1>2 DEF SendReturns, SendSucceeds, SendFails, Doing, pumpVars
<1>3. CASE SendBreaksOff
  BY <1>1, <1>3 DEF SendBreaksOff, SendBreaks, Doing, pumpVars
<1>4. CASE SelectEvent /\ Selected
  BY <1>1, <1>4 DEF SelectEvent, Selected, Selecting, Doing
<1>5. CASE SelectError /\ Selected
  BY <1>1, <1>5 DEF SelectError, Selected, Selecting, Doing
<1>6. CASE SelectClosed /\ Selected
  BY <1>1, <1>6 DEF SelectClosed, Selected, Selecting, Doing
<1>7. CASE Timer
  BY <1>1, <1>7 DEF Timer, SelectTimer, Selected, Selecting, Doing
<1>8. QED
  BY <1>2, <1>3, <1>4, <1>5, <1>6, <1>7 DEF Select

LEMMA PumpedInvInit == ExamplesInit => PumpedInv
<1> SUFFICES ASSUME ExamplesInit PROVE PumpedInv
  OBVIOUS
<1>1. StreamError \in Names /\ Name("created", 0, 0) \in Said
  BY NameIsName, ErrorIsName DEF Handled
<1>2. Stream!StreamInit /\ log = <<>> /\ out = <<>> /\ closed = FALSE
  BY DEF ExamplesInit, Stream!StreamInit
<1>3. Stream!StreamInv
  BY <1>2, ExamplesAssumption, Stream!StreamInvInit
<1>4. PumpInv
  BY <1>1, <1>2 DEF ExamplesInit, PumpInv, Past
<1>5. ServerOK
  BY <1>1 DEF ExamplesInit, ServerOK, NewServer
<1>6. QED
  BY <1>3, <1>4, <1>5 DEF PumpedInv

LEMMA PumpedInvStep == PumpedInv /\ [ExamplesNext]_examplesVars => PumpedInv'
<1> SUFFICES ASSUME PumpedInv, [ExamplesNext]_examplesVars PROVE PumpedInv'
  OBVIOUS
<1> USE DEF PumpedInv
<1>1. MaxItems \in Nat /\ StreamError \in Names /\ Name("created", 0, 0) \in Said
  BY ExamplesAssumption, NameIsName, ErrorIsName DEF Handled
<1>2. CASE Arrive
  <2>1. Head(server.outbox) \in Said /\ Tail(server.outbox) \in Seq(Said)
    BY <1>2, HeadTailProperties DEF Arrive, ServerOK
  <2>2. ServerOK'
    BY <1>2, <2>1 DEF Arrive, ServerOK, requestVars
  <2>3. Stream!StreamInv'
    BY <1>1, <1>2, <2>1, SaidAreNames, Stream!StreamInvStep DEF Arrive, Stream!StreamNext
  <2>4. PumpInv'
    <3>1. log \in Seq(Names) /\ log' = Append(log, Head(server.outbox))
      BY <1>2 DEF Arrive, Stream!Receive, Stream!StreamInv, Stream!StreamTypeOK
    <3>2. \A i \in 1 .. Len(log') : log'[i] \in Said \cup {StreamError}
      BY <2>1, <3>1, SaidAreNames, AppendProperties DEF PumpInv
    <3>3. QED
      BY <1>2, <3>2 DEF Arrive, Stream!Receive, PumpInv, pumpVars, mainVars
  <2>5. QED
    BY <2>2, <2>3, <2>4
<1>3. CASE StreamFails
  <2>1. ServerOK'
    BY <1>3 DEF StreamFails, ServerOK, serverVars, requestVars
  <2>2. Stream!StreamInv'
    BY <1>1, <1>3, Stream!StreamInvStep DEF StreamFails, Stream!StreamNext
  <2>3. PumpInv'
    BY <1>3 DEF StreamFails, Stream!Receive, PumpInv, pumpVars, mainVars
  <2>4. QED
    BY <2>1, <2>2, <2>3
<1>4. CASE Reconnect
  <2>1. ServerOK'
    BY <1>1, <1>4 DEF Reconnect, ServerOK, NewServer, requestVars
  <2>2. Stream!StreamInv'
    BY <1>1, <1>4, Stream!StreamInvStep DEF Reconnect, streamVars, Stream!streamVars
  <2>3. PumpInv'
    BY <1>4 DEF Reconnect, PumpInv, pumpVars, streamVars
  <2>4. QED
    BY <2>1, <2>2, <2>3
<1>5. CASE Pump
  <2>1. ServerOK' /\ UNCHANGED <<status, errorTaken>>
    BY <1>5 DEF Pump, ServerOK, serverVars, mainVars, requestVars
  <2>2. CASE PumpTakes
    <3>1. Stream!StreamInv'
      BY <1>1, <2>2, Stream!StreamInvStep DEF PumpTakes, Stream!StreamNext
    <3>2. /\ log \in Seq(Names) /\ out \in Seq(Names) /\ Len(out) + 1 \in 1 .. Len(log)
          /\ out' = Append(out, log[Len(out) + 1]) /\ hand' = log[Len(out) + 1]
      BY <2>2 DEF PumpTakes, Stream!Deliver, Stream!StreamInv, Stream!StreamTypeOK
    <3>3. /\ hand' \in Names /\ Len(out') = Len(out) + 1 /\ out'[Len(out) + 1] = hand'
          /\ \A i \in 1 .. Len(out) : out'[i] = out[i]
      BY <3>2
    <3>4. pump' \in {"error", "event"} /\ (pump' = "event" <=> hand' # StreamError)
      BY <2>2 DEF PumpTakes
    <3>5. pump' = "event" => \A i \in 1 .. Len(out') : out'[i] # StreamError
      BY <2>2, <3>2, <3>3, <3>4 DEF PumpTakes, PumpInv
    <3>6. PumpInv'
      BY <2>1, <2>2, <3>3, <3>4, <3>5 DEF PumpTakes, Stream!Deliver, PumpInv, Past
    <3>7. QED
      BY <2>1, <3>1, <3>6
  <2>3. CASE PumpEnds
    <3>1. Stream!StreamInv'
      BY <1>1, <2>3, Stream!StreamInvStep DEF PumpEnds, Stream!StreamNext
    <3>2. closed
      <4>1. CASE Stream!Failed /\ Len(out) = Len(log)
        <5>1. /\ Len(log) \in 1 .. Len(out) /\ out[Len(log)] = log[Len(log)]
              /\ log[Len(log)] = StreamError
          BY <4>1 DEF Stream!Failed, Stream!StreamInv, Stream!StreamTypeOK, Stream!InOrder
        <5>2. QED
          BY <2>3, <5>1 DEF PumpEnds, PumpInv
      <4>2. QED
        BY <2>3, <4>1 DEF PumpEnds, Stream!End
    <3>3. PumpInv'
      BY <2>1, <2>3, <3>2 DEF PumpEnds, Stream!End, PumpInv, Past
    <3>4. QED
      BY <2>1, <3>1, <3>3
  <2>4. CASE PumpPushes \/ PumpFails \/ PumpCloses
    <3>1. UNCHANGED streamVars
      BY <2>4 DEF PumpPushes, PumpFails, PumpCloses
    <3>2. Stream!StreamInv'
      BY <1>1, <3>1, Stream!StreamInvStep DEF streamVars, Stream!streamVars
    <3>3. UNCHANGED <<log, out, closed, status, errorTaken>>
      BY <2>1, <3>1 DEF streamVars
    <3>4. CASE PumpPushes
      <4>1. UNCHANGED <<hand, errCh, chClosed>> /\ pump = "event" /\ pump' = "range"
            /\ eventCh' \in Seq(Said)
        BY <3>4 DEF PumpPushes, PumpInv
      <4>2. QED
        BY <2>1, <3>2, <3>3, <4>1 DEF PumpInv, Past
    <3>5. CASE PumpFails
      <4>1. UNCHANGED <<hand, eventCh, chClosed>> /\ pump = "error" /\ pump' = "closeErr"
            /\ errCh' # <<>>
        BY <3>5 DEF PumpFails
      <4>2. QED
        BY <2>1, <3>2, <3>3, <4>1 DEF PumpInv, Past
    <3>6. CASE PumpCloses
      <4>1. UNCHANGED <<hand, eventCh, errCh>> /\ pump \in Past
            /\ pump' \in {"closeEvents", "end"}
        BY <3>6 DEF PumpCloses, Past
      <4>2. QED
        BY <2>1, <3>2, <3>3, <4>1 DEF PumpInv, Past
    <3>7. QED
      BY <2>1, <2>4, <3>2, <3>4, <3>5, <3>6
  <2>5. QED
    BY <1>5, <2>2, <2>3, <2>4 DEF Pump
<1>6. CASE SendReturns \/ SendBreaksOff \/ Select \/ Timer
  <2>1. /\ status = "running" /\ UNCHANGED <<streamVars, pump, hand, chClosed, reconnects, fixed>>
        /\ eventCh' \in Seq(Said)
        /\ errCh' # <<>> \/ errorTaken' \/ (errCh = <<>> /\ ~errorTaken)
    BY <1>6, Working
  <2>2. ServerOK'
    <3>1. (\E request : Handle(request)) \/ UNCHANGED serverVars
      BY <1>6 DEF SendReturns, SendSucceeds, SendFails, SendBreaksOff, SendBreaks, Select, Timer,
                  Selected
    <3>2. QED
      BY <3>1, Requests DEF ServerOK, serverVars, requestVars
  <2>3. Stream!StreamInv'
    BY <1>1, <2>1, Stream!StreamInvStep DEF streamVars, Stream!streamVars
  <2>4. PumpInv'
    BY <2>1 DEF PumpInv, streamVars
  <2>5. QED
    BY <2>2, <2>3, <2>4
<1>7. CASE CloseSession
  <2>1. ServerOK'
    BY <1>7 DEF CloseSession, ServerOK, serverVars, requestVars
  <2>2. Stream!StreamInv'
    BY <1>1, <1>7, Stream!StreamInvStep DEF CloseSession, Stream!StreamNext
  <2>3. PumpInv'
    BY <1>7 DEF CloseSession, Stream!Close, PumpInv, pumpVars
  <2>4. QED
    BY <2>1, <2>2, <2>3
<1>8. CASE UNCHANGED examplesVars
  <2>1. ServerOK' /\ PumpInv'
    BY <1>8 DEF examplesVars, serverVars, streamVars, pumpVars, mainVars, ServerOK, PumpInv, requestVars
  <2>2. Stream!StreamInv'
    BY <1>1, <1>8, Stream!StreamInvStep DEF examplesVars, streamVars, Stream!streamVars
  <2>3. QED
    BY <2>1, <2>2
<1>9. QED
  BY <1>2, <1>3, <1>4, <1>5, <1>6, <1>7, <1>8 DEF ExamplesNext, Main, Over

(* streamEvents (text-chat:465-483, audio-stream:477-495): in any application,
   with any capacities, a select meets closed channels only when errCh holds
   the session's error or main has taken it; the session's own stream, and so
   the goroutine's loop, ends silently only after Close. *)
THEOREM ChannelsCloseAfterError == ExamplesSpec => []ClosedOnlyAfterError
<1>1. ExamplesInit => PumpedInv
  BY PumpedInvInit
<1>2. PumpedInv /\ [ExamplesNext]_examplesVars => PumpedInv'
  BY PumpedInvStep
<1>3. PumpedInv => ClosedOnlyAfterError
  BY DEF PumpedInv, PumpInv, ClosedOnlyAfterError, Selecting, Doing, Past
<1>4. QED
  BY <1>1, <1>2, <1>3, PTL DEF ExamplesSpec

-----------------------------------------------------------------------------
(* Sequences that are put together.  FlattenSeq is defined by recursion, so
   what it does is said step by step. *)
LEMMA FlattenSteps ==
  ASSUME NEW S, NEW seqs \in Seq(Seq(S))
  PROVE  \E f \in [0 .. Len(seqs) -> Seq(S)] :
           /\ f[0] = <<>>
           /\ \A i \in 1 .. Len(seqs) : f[i] = f[i - 1] \o seqs[i]
           /\ FlattenSeq(seqs) = f[Len(seqs)]
<1>1. Len(seqs) \in Nat /\ <<>> \in Seq(S) /\ seqs \in [1 .. Len(seqs) -> Seq(S)]
  OBVIOUS
<1> DEFINE V == Seq(S)
           G(i, x) == IF i \in 1 .. Len(seqs) THEN x \o seqs[i] ELSE x
           F == [i \in Nat |-> [x \in V |-> G(i, x)]]
           Joined(g) == [i \in 1 .. Len(seqs) |-> IF i = 1 THEN seqs[i] ELSE g[i - 1] \o seqs[i]]
<1>2. ASSUME NEW i \in Nat, NEW x \in V PROVE G(i, x) \in V
  BY <1>1, ConcatProperties
<1>3. F \in [Nat -> [V -> V]]
  <2> HIDE DEF G, V
  <2>1. QED
    BY <1>2
<1>4. PICK h \in Beginnings(V, <<>>, F, Len(seqs)) : TRUE
  <2>1. <<>> \in V
    BY <1>1
  <2>2. Len(seqs) \in Nat
    BY <1>1
  <2> HIDE DEF F, V
  <2>3. Beginnings(V, <<>>, F, Len(seqs)) # {}
    BY <1>3, <2>1, <2>2, BeginningsExist
  <2>4. QED
    BY <2>3
<1>5. /\ h \in [0 .. Len(seqs) -> V] /\ h[0] = <<>>
      /\ \A i \in 1 .. Len(seqs) : h[i] = F[i][h[i - 1]]
  <2> HIDE DEF V, F
  <2>1. QED
    BY <1>4 DEF Beginnings
<1>6. ASSUME NEW i \in 1 .. Len(seqs)
      PROVE  h[i - 1] \in V /\ h[i] = h[i - 1] \o seqs[i]
  <2>1. i - 1 \in 0 .. Len(seqs) /\ i \in Nat
    BY <1>1
  <2>2. h[i - 1] \in V
    <3> HIDE DEF V, F
    <3>1. QED
      BY <1>5, <2>1
  <2>3. h[i] = F[i][h[i - 1]]
    BY <1>5
  <2>4. F[i][h[i - 1]] = G(i, h[i - 1])
    BY <2>1, <2>2
  <2>5. QED
    BY <2>2, <2>3, <2>4
<1>7. CASE Len(seqs) = 0
  <2>1. seqs = <<>> /\ FlattenSeq(seqs) = seqs
    BY <1>7, EmptySeq DEF FlattenSeq
  <2>2. h[Len(seqs)] = <<>>
    <3> HIDE DEF V, F
    <3>1. QED
      BY <1>5, <1>7
  <2>3. h \in [0 .. Len(seqs) -> Seq(S)]
    <3> HIDE DEF F
    <3>1. QED
      BY <1>5
  <2> HIDE DEF F, V
  <2>4. QED
    BY <1>5, <1>6, <2>1, <2>2, <2>3
<1>8. CASE Len(seqs) # 0
  <2> DEFINE flat == [i \in 1 .. Len(seqs) |-> h[i]]
             flatten == CHOOSE g : g = Joined(g)
  <2>1. ASSUME NEW i \in 1 .. Len(seqs)
        PROVE  flat[i] = IF i = 1 THEN seqs[i] ELSE flat[i - 1] \o seqs[i]
    <3>1. CASE i = 1
      <4>1. h[0] = <<>> /\ seqs[1] \in Seq(S)
        <5>1. seqs[1] \in Seq(S)
          BY <1>1, <3>1
        <5> HIDE DEF V, F
        <5>2. QED
          BY <1>5, <5>1
      <4>2. h[i] = h[i - 1] \o seqs[i] /\ i - 1 = 0
        <5>1. h[i] = h[i - 1] \o seqs[i]
          BY <1>6
        <5>2. QED
          BY <3>1, <5>1
      <4>3. h[i] = <<>> \o seqs[i]
        BY <4>1, <4>2
      <4>4. QED
        BY <3>1, <4>1, <4>2, <4>3, ConcatEmptySeq
    <3>2. CASE i # 1
      <4>1. i - 1 \in 1 .. Len(seqs)
        BY <1>1, <3>2
      <4>2. QED
        BY <1>6, <3>2, <4>1
    <3>3. QED
      BY <3>1, <3>2
  <2>2. flat = Joined(flat)
    <3> HIDE DEF F, V, G
    <3>1. QED
      BY <2>1
  <2>3. flatten = Joined(flatten)
    <3> HIDE DEF Joined, flat
    <3>1. QED
      BY <2>2
  <2>4. FlattenSeq(seqs) = flatten[Len(seqs)]
    BY <1>8 DEF FlattenSeq
  <2> DEFINE Unlike == {i \in 1 .. Len(seqs) : flatten[i] # h[i]}
  <2>5. Unlike = {}
    <3>1. SUFFICES ASSUME Unlike # {} PROVE FALSE
      <4> HIDE DEF Unlike
      <4>1. QED
        BY <3>1
    <3>2. PICK i \in Unlike : \A j \in Unlike : i <= j
      <4>1. Unlike \in SUBSET Nat
        BY <1>1
      <4> HIDE DEF Unlike
      <4>2. QED
        BY <3>1, <4>1, LeastNat
    <3>3. i \in 1 .. Len(seqs) /\ flatten[i] # h[i]
      OBVIOUS
    <3> HIDE DEF flatten
    <3>4. flatten[i] = IF i = 1 THEN seqs[i] ELSE flatten[i - 1] \o seqs[i]
      BY <2>3, <3>3
    <3>5. h[i] = IF i = 1 THEN seqs[i] ELSE h[i - 1] \o seqs[i]
      <4>1. i = 1 \/ i - 1 \in 1 .. Len(seqs)
        BY <1>1, <3>3
      <4>2. QED
        BY <2>1, <3>3, <4>1
    <3>6. i = 1 \/ (i - 1 \in 1 .. Len(seqs) /\ i - 1 \notin Unlike)
      BY <1>1, <3>2, <3>3
    <3>7. i = 1 \/ flatten[i - 1] = h[i - 1]
      BY <3>6
    <3>8. QED
      BY <3>3, <3>4, <3>5, <3>7
  <2>6. FlattenSeq(seqs) = h[Len(seqs)]
    <3>1. Len(seqs) \in 1 .. Len(seqs)
      BY <1>1, <1>8
    <3> HIDE DEF flatten
    <3>2. QED
      BY <2>4, <2>5, <3>1
  <2>7. h \in [0 .. Len(seqs) -> Seq(S)]
    <3> HIDE DEF F
    <3>1. QED
      BY <1>5
  <2> HIDE DEF F, V
  <2>8. QED
    BY <1>5, <1>6, <2>6, <2>7
<1>9. QED
  BY <1>7, <1>8

LEMMA FlattenInSeq ==
  ASSUME NEW S, NEW seqs \in Seq(Seq(S))
  PROVE  FlattenSeq(seqs) \in Seq(S)
<1>1. Len(seqs) \in 0 .. Len(seqs)
  OBVIOUS
<1>2. PICK f \in [0 .. Len(seqs) -> Seq(S)] : FlattenSeq(seqs) = f[Len(seqs)]
  BY FlattenSteps
<1>3. QED
  BY <1>1, <1>2

(* Sequences joined *)
LEMMA Joins ==
  ASSUME NEW S, NEW s \in Seq(S), NEW t \in Seq(S)
  PROVE  /\ s \o t \in Seq(S) /\ Len(s) \in Nat /\ Len(t) \in Nat /\ Len(s \o t) = Len(s) + Len(t)
         /\ \A i \in 1 .. Len(s) : (s \o t)[i] = s[i]
         /\ \A i \in 1 .. Len(t) : (s \o t)[Len(s) + i] = t[i]
         /\ \A i \in 1 .. Len(s \o t) : i \in 1 .. Len(s) \/ i - Len(s) \in 1 .. Len(t)
         /\ \A u \in Seq(S) : (s \o t) \o u = s \o (t \o u)
<1> DEFINE w == s \o t
<1>1. /\ w \in Seq(S) /\ Len(s) \in Nat /\ Len(t) \in Nat /\ Len(w) = Len(s) + Len(t)
      /\ \A i \in 1 .. Len(s) + Len(t) : w[i] = IF i <= Len(s) THEN s[i] ELSE t[i - Len(s)]
  BY ConcatProperties
<1> HIDE DEF w
<1>2. ASSUME NEW i \in 1 .. Len(t) PROVE w[Len(s) + i] = t[i]
  <2>1. PICK j \in 1 .. Len(s) + Len(t) : j = Len(s) + i /\ ~ (j <= Len(s)) /\ j - Len(s) = i
    BY <1>1
  <2>2. QED
    BY <1>1, <2>1
<1>3. \A i \in 1 .. Len(s) : w[i] = s[i]
  BY <1>1
<1>4. \A i \in 1 .. Len(w) : i \in 1 .. Len(s) \/ i - Len(s) \in 1 .. Len(t)
  BY <1>1
<1>5. \A u \in Seq(S) : (s \o t) \o u = s \o (t \o u)
  BY ConcatAssociative
<1>6. QED
  BY <1>1, <1>2, <1>3, <1>4, <1>5 DEF w

LEMMA Tuples ==
  ASSUME NEW a, NEW b, NEW c
  PROVE  /\ <<a>> \o <<b>> = <<a, b>> /\ <<a>> \o <<>> = <<a>>
         /\ <<a, b>> \o <<c>> = <<a, b, c>> /\ <<a>> \o <<b, c>> = <<a, b, c>>
         /\ \A d : <<a, b>> \o <<c, d>> = <<a, b, c, d>>
<1> DEFINE S == {a, b, c}
<1>1. <<a>> \in Seq(S) /\ <<b>> \in Seq(S) /\ <<c>> \in Seq(S) /\ <<a, b>> \in Seq(S)
      /\ <<a, b, c>> \in Seq(S)
  OBVIOUS
<1> HIDE DEF S
<1>2. <<a>> \o <<>> = <<a>>
  OBVIOUS
<1>3. <<a>> \o <<b>> = <<a, b>>
  <2> DEFINE w == <<a>> \o <<b>>
  <2>1. w \in Seq(S) /\ Len(w) = 2 /\ w[1] = a /\ w[2] = b
    <3>1. Len(<<a>>) = 1 /\ Len(<<b>>) = 1 /\ 1 \in 1 .. 1 /\ 1 + 1 = 2
          /\ <<a>>[1] = a /\ <<b>>[1] = b
      OBVIOUS
    <3>2. QED
      BY <1>1, <3>1, Joins
  <2> HIDE DEF w
  <2>2. w = <<a, b>>
    BY <2>1, <1>1, SeqEqual
  <2>3. QED
    BY <2>2 DEF w
<1>4. <<a, b>> \o <<c>> = <<a, b, c>>
  <2> DEFINE w == <<a, b>> \o <<c>>
  <2>1. w \in Seq(S) /\ Len(w) = 3 /\ w[1] = a /\ w[2] = b /\ w[3] = c
    <3>1. Len(<<a, b>>) = 2 /\ Len(<<c>>) = 1 /\ 1 \in 1 .. 1 /\ 2 + 1 = 3
          /\ 1 \in 1 .. 2 /\ 2 \in 1 .. 2 
          /\ <<a, b>>[1] = a /\ <<a, b>>[2] = b /\ <<c>>[1] = c
      OBVIOUS
    <3>2. QED
      BY <1>1, <3>1, Joins
  <2> HIDE DEF w
  <2>2. w = <<a, b, c>>
    BY <2>1, <1>1, SeqEqual
  <2>3. QED
    BY <2>2 DEF w
<1>5. <<a>> \o <<b, c>> = <<a, b, c>>
  <2> DEFINE w == <<a>> \o <<b, c>>
  <2>1. w \in Seq(S) /\ Len(w) = 3 /\ w[1] = a /\ w[2] = b /\ w[3] = c
    <3>1. <<b, c>> \in Seq(S)
      BY DEF S
    <3>2. Len(<<a>>) = 1 /\ Len(<<b, c>>) = 2 /\ 1 \in 1 .. 1 /\ 1 + 1 = 2 /\ 1 + 2 = 3
          /\ 1 \in 1 .. 2 /\ 2 \in 1 .. 2
          /\ <<a>>[1] = a /\ <<b, c>>[1] = b /\ <<b, c>>[2] = c
      OBVIOUS
    <3>3. QED
      BY <1>1, <3>1, <3>2, Joins
  <2> HIDE DEF w
  <2>2. w = <<a, b, c>>
    BY <2>1, <1>1, SeqEqual
  <2>3. QED
    BY <2>2 DEF w
<1>6. ASSUME NEW d PROVE <<a, b>> \o <<c, d>> = <<a, b, c, d>>
  <2> DEFINE w == <<a, b>> \o <<c, d>>
             T == {a, b, c, d}
  <2>1. w \in Seq(T) /\ Len(w) = 4 /\ w[1] = a /\ w[2] = b /\ w[3] = c /\ w[4] = d
    <3>1. <<a, b>> \in Seq(T) /\ <<c, d>> \in Seq(T)
      OBVIOUS
    <3>2. Len(<<a, b>>) = 2 /\ Len(<<c, d>>) = 2 /\ 2 + 1 = 3 /\ 2 + 2 = 4
          /\ 1 \in 1 .. 2 /\ 2 \in 1 .. 2
          /\ <<a, b>>[1] = a /\ <<a, b>>[2] = b /\ <<c, d>>[1] = c /\ <<c, d>>[2] = d
      OBVIOUS
    <3> HIDE DEF T
    <3>3. QED
      BY <3>1, <3>2, Joins
  <2>2. <<a, b, c, d>> \in Seq(T)
    OBVIOUS
  <2> HIDE DEF w, T
  <2>3. w = <<a, b, c, d>>
    BY <2>1, <2>2, SeqEqual
  <2>4. QED
    BY <2>3 DEF w
<1>7. QED
  BY <1>2, <1>3, <1>4, <1>5, <1>6

(* What holds of sequences and of two of them joined holds of all joined. *)
LEMMA FlattenCloses ==
  ASSUME NEW S, NEW C \in SUBSET Seq(S), <<>> \in C, \A x, y \in C : x \o y \in C,
         NEW seqs \in Seq(C)
  PROVE  FlattenSeq(seqs) \in C
<1>1. seqs \in Seq(Seq(S)) /\ Len(seqs) \in Nat
  BY SeqMonotonic
<1>2. PICK f \in [0 .. Len(seqs) -> Seq(S)] :
        /\ f[0] = <<>> /\ \A i \in 1 .. Len(seqs) : f[i] = f[i - 1] \o seqs[i]
        /\ FlattenSeq(seqs) = f[Len(seqs)]
  BY <1>1, FlattenSteps
<1> DEFINE Outside == {i \in 0 .. Len(seqs) : f[i] \notin C}
<1>3. Outside = {}
  <2>1. SUFFICES ASSUME Outside # {} PROVE FALSE
    OBVIOUS
  <2>2. PICK i \in Outside : \A j \in Outside : i <= j
    <3>1. Outside \in SUBSET Nat
      BY <1>1
    <3> HIDE DEF Outside
    <3>2. QED
      BY <2>1, <3>1, LeastNat
  <2>3. i \in 1 .. Len(seqs) /\ f[i] \notin C
    BY <1>1, <1>2, <2>2
  <2>4. i - 1 \in 0 .. Len(seqs) /\ i - 1 \notin Outside
    BY <1>1, <2>2, <2>3
  <2>5. f[i - 1] \in C /\ seqs[i] \in C
    BY <2>3, <2>4, ElementOfSeq
  <2>6. QED
    BY <1>2, <2>3, <2>5
<1>4. QED
  BY <1>1, <1>2, <1>3

(* One sequence more comes at the end. *)
LEMMA FlattenAppend ==
  ASSUME NEW S, NEW seqs \in Seq(Seq(S)), NEW s \in Seq(S)
  PROVE  FlattenSeq(Append(seqs, s)) = FlattenSeq(seqs) \o s
<1> DEFINE more == Append(seqs, s)
           n == Len(seqs)
<1>1. /\ more \in Seq(Seq(S)) /\ Len(more) = n + 1 /\ more[n + 1] = s /\ n \in Nat
      /\ \A i \in 1 .. n : more[i] = seqs[i]
  BY AppendProperties
<1>2. PICK f \in [0 .. n -> Seq(S)] :
        /\ f[0] = <<>> /\ \A i \in 1 .. n : f[i] = f[i - 1] \o seqs[i]
        /\ FlattenSeq(seqs) = f[n]
  BY FlattenSteps
<1> HIDE DEF more
<1>3. PICK g \in [0 .. n + 1 -> Seq(S)] :
        /\ g[0] = <<>> /\ \A i \in 1 .. n + 1 : g[i] = g[i - 1] \o more[i]
        /\ FlattenSeq(more) = g[n + 1]
  <2>1. more \in Seq(Seq(S)) /\ Len(more) = n + 1
    BY <1>1
  <2>2. \E g \in [0 .. Len(more) -> Seq(S)] :
          /\ g[0] = <<>> /\ \A i \in 1 .. Len(more) : g[i] = g[i - 1] \o more[i]
          /\ FlattenSeq(more) = g[Len(more)]
    BY <2>1, FlattenSteps
  <2> HIDE DEF n
  <2>3. QED
    BY <2>1, <2>2
<1> DEFINE Unlike == {i \in 0 .. n : f[i] # g[i]}
<1> HIDE DEF n
<1>4. Unlike = {}
  <2>1. SUFFICES ASSUME Unlike # {} PROVE FALSE
    OBVIOUS
  <2>2. PICK i \in Unlike : \A j \in Unlike : i <= j
    <3>1. Unlike \in SUBSET Nat
      BY <1>1
    <3> HIDE DEF Unlike
    <3>2. QED
      BY <2>1, <3>1, LeastNat
  <2>3. i \in 0 .. n /\ i # 0 /\ f[i] # g[i]
    BY <1>2, <1>3
  <2>4. i - 1 \in 0 .. n /\ i - 1 \notin Unlike /\ i \in 1 .. n /\ i \in 1 .. n + 1
    BY <1>1, <2>2, <2>3
  <2>5. f[i - 1] = g[i - 1]
    BY <2>4
  <2>6. f[i] = f[i - 1] \o seqs[i] /\ g[i] = g[i - 1] \o more[i] /\ more[i] = seqs[i]
    BY <1>1, <1>2, <1>3, <2>4
  <2>7. QED
    BY <2>3, <2>5, <2>6
<1>5. f[n] = g[n]
  <2>1. n \in 0 .. n
    BY <1>1
  <2>2. QED
    BY <1>4, <2>1
<1>6. g[n + 1] = g[n] \o s
  <2>1. PICK m \in 1 .. n + 1 : m = n + 1 /\ m - 1 = n
    BY <1>1
  <2>2. g[m] = g[m - 1] \o more[m]
    BY <1>3, <2>1
  <2>3. QED
    BY <1>1, <2>1, <2>2
<1>7. QED
  BY <1>2, <1>3, <1>5, <1>6 DEF more

-----------------------------------------------------------------------------
(* Texts in turn: everything of one sequence before everything of another,
   and no text of an answer that has not been asked for. *)
Cross(s, t) == \A i \in 1 .. Len(s), j \in 1 .. Len(t) : InTurn(s[i], t[j])
UpTo(s, n) == \A i \in 1 .. Len(s) : s[i].kind \in Counted => s[i].answer <= n

(* Messages that have nothing that is collected *)
Mute(s) == \A i \in 1 .. Len(s) : s[i].kind \notin Counted

LEMMA Joined ==
  ASSUME NEW s \in Seq(Names), NEW t \in Seq(Names)
  PROVE  /\ s \o t \in Seq(Names)
         /\ Sorted(s \o t) <=> Sorted(s) /\ Sorted(t) /\ Cross(s, t)
         /\ \A u \in Seq(Names) : Cross(s \o t, u) <=> Cross(s, u) /\ Cross(t, u)
         /\ \A u \in Seq(Names) : Cross(u, s \o t) <=> Cross(u, s) /\ Cross(u, t)
         /\ \A n \in Nat : UpTo(s \o t, n) <=> UpTo(s, n) /\ UpTo(t, n)
<1> DEFINE w == s \o t
           m == Len(s)
           k == Len(t)
<1>1. /\ w \in Seq(Names) /\ m \in Nat /\ k \in Nat /\ Len(w) = m + k
      /\ \A i \in 1 .. m : i \in 1 .. Len(w) /\ w[i] = s[i]
      /\ \A i \in 1 .. k : i + m \in 1 .. Len(w) /\ i + m > m /\ w[i + m] = t[i]
      /\ \A i \in 1 .. Len(w) : i \in 1 .. m \/ (i - m \in 1 .. k /\ w[i] = t[i - m])
  BY ConcatProperties
<1> HIDE DEF w
<1>2. Sorted(w) => Sorted(s) /\ Sorted(t) /\ Cross(s, t)
  <2> SUFFICES ASSUME Sorted(w) PROVE Sorted(s) /\ Sorted(t) /\ Cross(s, t)
    OBVIOUS
  <2>1. Sorted(s)
    BY <1>1 DEF Sorted
  <2>2. ASSUME NEW i \in 1 .. k, NEW j \in 1 .. k, i < j PROVE InTurn(t[i], t[j])
    <3>1. i + m \in 1 .. Len(w) /\ j + m \in 1 .. Len(w) /\ i + m < j + m
      BY <1>1, <2>2
    <3>2. InTurn(w[i + m], w[j + m])
      BY <3>1 DEF Sorted
    <3>3. QED
      BY <1>1, <3>2
  <2>3. ASSUME NEW i \in 1 .. m, NEW j \in 1 .. k PROVE InTurn(s[i], t[j])
    <3>1. i \in 1 .. Len(w) /\ j + m \in 1 .. Len(w) /\ i < j + m
      BY <1>1
    <3>2. InTurn(w[i], w[j + m])
      BY <3>1 DEF Sorted
    <3>3. QED
      BY <1>1, <3>2
  <2>4. QED
    BY <2>1, <2>2, <2>3 DEF Sorted, Cross
<1>3. Sorted(s) /\ Sorted(t) /\ Cross(s, t) => Sorted(w)
  <2> SUFFICES ASSUME Sorted(s), Sorted(t), Cross(s, t),
                      NEW i \in 1 .. Len(w), NEW j \in 1 .. Len(w), i < j
               PROVE  InTurn(w[i], w[j])
    BY DEF Sorted
  <2>1. CASE i \in 1 .. m /\ j \in 1 .. m
    BY <1>1, <2>1 DEF Sorted
  <2>2. CASE i \in 1 .. m /\ j \notin 1 .. m
    BY <1>1, <2>2 DEF Cross
  <2>3. CASE i \notin 1 .. m
    <3>1. i - m \in 1 .. k /\ j - m \in 1 .. k /\ i - m < j - m
          /\ w[i] = t[i - m] /\ w[j] = t[j - m]
      BY <1>1, <2>3
    <3>2. InTurn(t[i - m], t[j - m])
      BY <3>1 DEF Sorted
    <3>3. QED
      BY <3>1, <3>2
  <2>4. QED
    BY <2>1, <2>2, <2>3
<1>4. ASSUME NEW u \in Seq(Names)
      PROVE  Cross(w, u) <=> Cross(s, u) /\ Cross(t, u)
  <2>1. ASSUME Cross(w, u) PROVE Cross(s, u) /\ Cross(t, u)
    BY <1>1, <2>1 DEF Cross
  <2>2. ASSUME Cross(s, u), Cross(t, u) PROVE Cross(w, u)
    BY <1>1, <2>2 DEF Cross
  <2>3. QED
    BY <2>1, <2>2
<1>5. ASSUME NEW u \in Seq(Names)
      PROVE  Cross(u, w) <=> Cross(u, s) /\ Cross(u, t)
  <2>1. ASSUME Cross(u, w) PROVE Cross(u, s) /\ Cross(u, t)
    BY <1>1, <2>1 DEF Cross
  <2>2. ASSUME Cross(u, s), Cross(u, t) PROVE Cross(u, w)
    BY <1>1, <2>2 DEF Cross
  <2>3. QED
    BY <2>1, <2>2
<1>6. ASSUME NEW n \in Nat
      PROVE  UpTo(w, n) <=> UpTo(s, n) /\ UpTo(t, n)
  <2>1. ASSUME UpTo(w, n) PROVE UpTo(s, n) /\ UpTo(t, n)
    BY <1>1, <2>1 DEF UpTo
  <2>2. ASSUME UpTo(s, n), UpTo(t, n) PROVE UpTo(w, n)
    BY <1>1, <2>2 DEF UpTo
  <2>3. QED
    BY <2>1, <2>2
<1>7. QED
  BY <1>1, <1>2, <1>3, <1>4, <1>5, <1>6 DEF w

LEMMA MuteInTurn ==
  ASSUME NEW s \in Seq(Names), Mute(s)
  PROVE  /\ Sorted(s) /\ \A n \in Nat : UpTo(s, n)
         /\ \A u \in Seq(Names) : Cross(s, u) /\ Cross(u, s)
BY DEF Mute, Sorted, UpTo, Cross, InTurn

LEMMA OneInTurn ==
  ASSUME NEW name \in Names
  PROVE  <<name>> \in Seq(Names) /\ Sorted(<<name>>)
BY DEF Sorted

LEMMA NotesAreMute ==
  ASSUME NEW note \in Notes
  PROVE  note \in Seq(Names) /\ Mute(note)
<1>1. PICK kind \in {"updated", "denied"} : note = <<Name(kind, 0, 0)>>
  BY DEF Notes
<1>2. Name(kind, 0, 0) \in Names /\ Name(kind, 0, 0).kind = kind
  BY NameIsName DEF Handled
<1>3. QED
  BY <1>1, <1>2 DEF Mute, Counted, Spoke

(* A new answer, or its refusal, comes after everything that was asked for
   before. *)
LEMMA AnswerComesNext ==
  ASSUME NEW n \in Nat
  PROVE  /\ Answer(n) \in Seq(Names) /\ Sorted(Answer(n)) /\ UpTo(Answer(n), n)
         /\ \A s \in Seq(Names), m \in Nat : UpTo(s, m) /\ m < n => Cross(s, Answer(n))
<1>1. Deltas \in Nat \ {0} /\ Answer(n) \in Seq(Names)
  BY ExamplesAssumption, AnswerNames, SaidAreNames
<1>2. /\ Sorted(Answer(n))
      /\ \A i \in 1 .. Len(Answer(n)) : Answer(n)[i].answer = n
  <2>1. CASE program.compact
    <3> DEFINE Kind(i) == IF i < Deltas THEN "choice" ELSE "lastChoice"
               chosen == [i \in 1 .. Deltas |-> Name(Kind(i), n, i)]
    <3>1. Len(chosen) = Deltas
      BY <1>1
    <3>2. \A i \in 1 .. Deltas : chosen[i].answer = n /\ chosen[i].part = i
      BY DEF Name
    <3>3. Sorted(chosen)
      <4>1. \A i \in 1 .. Deltas : chosen[i].kind \in {"choice", "lastChoice"}
        BY DEF Name
      <4>2. \A i \in 1 .. Deltas : Place(chosen[i]) = 2 * i
        BY <3>2, <4>1 DEF Place
      <4> HIDE DEF chosen
      <4>3. QED
        BY <1>1, <3>1, <3>2, <4>2 DEF Sorted, InTurn, Earlier
    <3>4. Answer(n) = chosen
      BY <2>1 DEF Answer
    <3> HIDE DEF chosen
    <3>5. QED
      BY <3>1, <3>2, <3>3, <3>4
  <2>2. CASE ~program.compact
    <3> DEFINE tail == <<Name("part", n, 0), Name("done", n, 0)>>
    <3>1. /\ tail \in Seq(Names) /\ Sorted(tail)
          /\ \A i \in 1 .. Len(tail) :
               /\ tail[i].answer = n
               /\ tail[i].kind \in Counted => Place(tail[i]) = 2 * Deltas + 1
      <4>1. /\ Name("part", n, 0) \in Names /\ Name("done", n, 0) \in Names
            /\ Name("part", n, 0).kind = "part" /\ Name("done", n, 0).kind = "done"
            /\ Name("part", n, 0).answer = n /\ Name("done", n, 0).answer = n
        BY NameIsName DEF Handled
      <4>2. Len(tail) = 2 /\ tail[1].kind \notin Counted /\ tail[2].kind = "done"
        BY <4>1 DEF Counted, Spoke
      <4>3. Sorted(tail)
        BY <4>2 DEF Sorted, InTurn
      <4>4. QED
        BY <4>1, <4>2, <4>3 DEF Place
    <3>2. /\ Spoken(n) \in Seq(Names) /\ Sorted(Spoken(n))
          /\ \A i \in 1 .. Len(Spoken(n)) :
               Spoken(n)[i].answer = n /\ Place(Spoken(n)[i]) \in 1 .. 2 * Deltas
      <4>1. CASE program.app = "audio"
        <5> DEFINE Kind(i) == IF i % 2 = 1 THEN "sound" ELSE "transcript"
                   spoken == [i \in 1 .. 2 * Deltas |-> Name(Kind(i), n, (i + 1) \div 2)]
        <5>1. \A i \in 1 .. 2 * Deltas : (i + 1) \div 2 \in Nat
          BY <1>1
        <5>2. \A i \in 1 .. 2 * Deltas :
                /\ spoken[i] \in Names /\ spoken[i].kind = Kind(i)
                /\ spoken[i].answer = n /\ spoken[i].part = (i + 1) \div 2
          BY <5>1, NameIsName DEF Handled
        <5>3. Len(spoken) = 2 * Deltas /\ 2 * Deltas \in Nat /\ DOMAIN spoken = 1 .. 2 * Deltas
          BY <1>1
        <5>8. ASSUME NEW i \in 1 .. 2 * Deltas
              PROVE  Place(spoken[i]) = i
          <6>1. CASE i % 2 = 1
            <7>1. 2 * ((i + 1) \div 2) - 1 = i
              BY <1>1, <6>1
            <7>2. QED
              BY <5>2, <6>1, <7>1 DEF Place
          <6>2. CASE i % 2 # 1
            <7>1. 2 * ((i + 1) \div 2) = i
              BY <1>1, <6>2
            <7>2. QED
              BY <5>2, <6>2, <7>1 DEF Place
          <6>3. QED
            BY <6>1, <6>2
        <5>4. ASSUME NEW i \in 1 .. 2 * Deltas, NEW j \in 1 .. 2 * Deltas, i < j
              PROVE  InTurn(spoken[i], spoken[j])
          <6>1. Place(spoken[i]) = i /\ Place(spoken[j]) = j
            BY <5>8
          <6>2. QED
            BY <5>2, <5>4, <6>1 DEF InTurn, Earlier
        <5>5. Spoken(n) = spoken
          BY <4>1 DEF Spoken
        <5> HIDE DEF spoken
        <5>6. spoken \in Seq(Names)
          BY <1>1, <4>1, <5>5, SpokenNames, SaidAreNames
        <5>7. Sorted(spoken)
          BY <5>3, <5>4 DEF Sorted
        <5>9. \A i \in 1 .. Len(spoken) : Place(spoken[i]) \in 1 .. 2 * Deltas
          BY <5>3, <5>8
        <5>10. QED
          BY <5>2, <5>3, <5>5, <5>6, <5>7, <5>9
      <4>2. CASE program.app # "audio"
        <5> DEFINE spoken == [i \in 1 .. Deltas |-> Name("text", n, i)]
        <5>1. Len(spoken) = Deltas
          BY <1>1
        <5>2. \A i \in 1 .. Deltas :
                spoken[i].answer = n /\ spoken[i].part = i /\ spoken[i].kind = "text"
          BY DEF Name
        <5>6. \A i \in 1 .. Deltas : Place(spoken[i]) = 2 * i
          BY <5>2 DEF Place
        <5>3. Sorted(spoken)
          BY <1>1, <5>1, <5>2, <5>6 DEF Sorted, InTurn, Earlier
        <5>4. Spoken(n) = spoken
          BY <4>2 DEF Spoken
        <5> HIDE DEF spoken
        <5>5. \A i \in 1 .. Len(spoken) : Place(spoken[i]) \in 1 .. 2 * Deltas
          BY <1>1, <5>1, <5>6
        <5>7. QED
          BY <5>1, <5>2, <5>3, <5>4, <5>5, SpokenNames, SaidAreNames
      <4>3. QED
        BY <4>1, <4>2
    <3>3. Answer(n) = Spoken(n) \o tail
      BY <2>2 DEF Answer
    <3> HIDE DEF tail
    <3>4. Sorted(Answer(n))
      <4>1. Cross(Spoken(n), tail)
        <5>1. \A i \in 1 .. Len(Spoken(n)), j \in 1 .. Len(tail) :
                tail[j].kind \in Counted => Place(Spoken(n)[i]) < Place(tail[j])
          BY <1>1, <3>1, <3>2
        <5>2. QED
          BY <3>1, <3>2, <5>1 DEF Cross, InTurn, Earlier
      <4>2. QED
        BY <3>1, <3>2, <3>3, <4>1, Joined
    <3>5. \A i \in 1 .. Len(Answer(n)) : Answer(n)[i].answer = n
      <4>1. /\ Len(Answer(n)) = Len(Spoken(n)) + Len(tail)
            /\ \A i \in 1 .. Len(Spoken(n)) + Len(tail) :
                 Answer(n)[i] = IF i <= Len(Spoken(n)) THEN Spoken(n)[i]
                                ELSE tail[i - Len(Spoken(n))]
            /\ Len(Spoken(n)) \in Nat /\ Len(tail) \in Nat
        BY <3>1, <3>2, <3>3, ConcatProperties
      <4>2. ASSUME NEW i \in 1 .. Len(Spoken(n)) + Len(tail) PROVE Answer(n)[i].answer = n
        <5>1. CASE i <= Len(Spoken(n))
          BY <3>2, <4>1, <5>1
        <5>2. CASE i > Len(Spoken(n))
          <6>1. i - Len(Spoken(n)) \in 1 .. Len(tail)
            BY <4>1, <5>2
          <6>2. QED
            BY <3>1, <4>1, <5>2, <6>1
        <5>3. QED
          BY <4>1, <5>1, <5>2
      <4>3. QED
        BY <4>1, <4>2
    <3>6. QED
      BY <3>4, <3>5
  <2>3. QED
    BY <2>1, <2>2
<1>3. UpTo(Answer(n), n)
  BY <1>2 DEF UpTo
<1>4. ASSUME NEW s \in Seq(Names), NEW m \in Nat, UpTo(s, m), m < n
      PROVE  Cross(s, Answer(n))
  <2>1. ASSUME NEW i \in 1 .. Len(s), NEW j \in 1 .. Len(Answer(n)), s[i].kind \in Counted
        PROVE  s[i].answer < Answer(n)[j].answer
    <3>1. s[i] \in Names
      BY ElementOfSeq
    <3>2. s[i].answer \in Nat
      BY <3>1 DEF Names
    <3>3. s[i].answer <= m
      BY <1>4, <2>1 DEF UpTo
    <3>4. Answer(n)[j].answer = n
      BY <1>2
    <3>5. QED
      BY <1>4, <3>2, <3>3, <3>4
  <2>2. QED
    BY <2>1 DEF Cross, InTurn, Earlier
<1>5. QED
  BY <1>1, <1>2, <1>3, <1>4

LEMMA ReplyComesNext ==
  ASSUME NEW n \in Nat, NEW reply \in Replies(n)
  PROVE  /\ reply \in Seq(Names) /\ Sorted(reply) /\ UpTo(reply, n)
         /\ \A s \in Seq(Names), m \in Nat : UpTo(s, m) /\ m < n => Cross(s, reply)
<1>1. CASE reply = Answer(n)
  BY <1>1, AnswerComesNext
<1>2. CASE reply = <<Refusal(n)>>
  <2>1. /\ Refusal(n) \in Names /\ Refusal(n).answer = n
        /\ Len(reply) = 1 /\ reply[1] = Refusal(n)
    BY <1>2, RefusalIsName
  <2>2. reply \in Seq(Names) /\ Sorted(reply) /\ UpTo(reply, n)
    BY <1>2, <2>1, OneInTurn DEF UpTo
  <2>3. ASSUME NEW s \in Seq(Names), NEW m \in Nat, UpTo(s, m), m < n
        PROVE  Cross(s, reply)
    <3>1. ASSUME NEW i \in 1 .. Len(s), s[i].kind \in Counted
          PROVE  s[i].answer < n
      <4>1. s[i] \in Names
        BY ElementOfSeq
      <4>2. s[i].answer \in Nat
        BY <4>1 DEF Names
      <4>3. s[i].answer <= m
        BY <2>3, <3>1 DEF UpTo
      <4>4. QED
        BY <2>3, <4>2, <4>3
    <3>2. \A j \in 1 .. Len(reply) : reply[j].answer = n
      BY <2>1
    <3>3. QED
      BY <3>1, <3>2 DEF Cross, InTurn, Earlier
  <2>4. QED
    BY <2>2, <2>3
<1>3. QED
  BY <1>1, <1>2 DEF Replies

-----------------------------------------------------------------------------
(* What collect makes of the messages: the text of a message, if it is one
   whose text counts, as a token. *)
Token(name) == Text(<<name.answer, name.part>>)

LEMMA TokenIsText ==
  ASSUME NEW name \in Names
  PROVE  /\ Token(name) \in Seq(Tokens) /\ Token(name) # <<>> /\ Len(Token(name)) = 1
         /\ Token(name)[1].data = <<name.answer, name.part>>
<1>1. name.answer \in Nat /\ name.part \in Nat
  BY DEF Names
<1>2. [kind |-> "text", data |-> <<name.answer, name.part>>] \in Tokens
  BY <1>1 DEF Tokens
<1>3. QED
  BY <1>2 DEF Token, Text

LEMMA FlattenOne ==
  ASSUME NEW S, NEW s \in Seq(S)
  PROVE  FlattenSeq(<<s>>) = s
<1>1. <<>> \in Seq(Seq(S)) /\ FlattenSeq(<<>>) = <<>> /\ Append(<<>>, s) = <<s>>
  BY DEF FlattenSeq
<1>2. FlattenSeq(Append(<<>>, s)) = FlattenSeq(<<>>) \o s
  BY <1>1, FlattenAppend
<1>3. QED
  BY <1>1, <1>2, ConcatEmptySeq

(* A message with no choices keeps its type, unless that is empty. *)
LEMMA Unchosen ==
  ASSUME NEW m, m.choices = Nil, m.type # ""
  PROVE  /\ DecodeServerEvent(m) = DecodeFields(m)
         /\ Event(m).type = m.type
<1>1. DecodeServerEvent(m) = DecodeFields(m)
  BY DEF DecodeServerEvent, DecodeChoices
<1>2. DecodeFields(m).type = m.type
  BY DEF DecodeFields, TypeOf
<1>3. QED
  BY <1>1, <1>2 DEF Event, ConvertWireEvent

LEMMA HeardText ==
  ASSUME NEW name \in Said, name.kind \in {"text", "transcript"}
  PROVE  /\ Event(Payload(name)).type \in {"response.text.delta", "response.audio_transcript.delta"}
         /\ Event(Payload(name)).delta = Token(name)
<1> DEFINE m == Payload(name)
<1>1. /\ m.choices = Nil /\ m.delta = Token(name)
      /\ m.type \in {"response.text.delta", "response.audio_transcript.delta"}
  BY DEF Payload, Message, Token
<1> HIDE DEF m
<1>2. Token(name) # <<>>
  BY TokenIsText, SaidAreNames
<1>3. DecodeServerEvent(m) = DecodeFields(m) /\ Event(m).type = m.type
  BY <1>1, Unchosen
<1>4. DecodeFields(m).delta = m.delta
  BY <1>1, <1>2 DEF DecodeFields, DeltaOf, AudioInDelta, TextOf, Or
<1>5. Event(m).delta = m.delta
  BY <1>1, <1>2, <1>3, <1>4 DEF Event, ConvertWireEvent, ConvertedDelta, Or
<1>6. QED
  BY <1>1, <1>3, <1>5 DEF m

LEMMA NamesAreNamed ==
  ASSUME NEW x \in Names
  PROVE  /\ x = Name(x.kind, x.answer, x.part) /\ x.answer \in Nat /\ x.part \in Nat
         /\ \A k, n, i : /\ Name(k, n, i).kind = k /\ Name(k, n, i).answer = n
                         /\ Name(k, n, i).part = i
BY DEF Names, Name

(* The sound of a message, where it has one *)
Noise(name) == IF program.app = "audio" THEN <<name.answer, name.part>> ELSE <<>>

LEMMA HeardChoice ==
  ASSUME NEW name \in Said, name.kind \in {"choice", "lastChoice"}
  PROVE  /\ Event(Payload(name)).type = "choices"
         /\ Event(Payload(name)).delta = Token(name)
         /\ Event(Payload(name)).audio = Noise(name)
         /\ Event(Payload(name)).finish = IF name.kind = "choice" THEN "null" ELSE "stop"
<1> DEFINE m == Payload(name)
           bytes == <<name.answer, name.part>>
           sound == IF program.app = "audio" THEN Base64(bytes) ELSE <<>>
           content == [NoPart EXCEPT !.text = Token(name), !.audio = sound]
           finish == IF name.kind = "choice" THEN "null" ELSE "stop"
           choice == [finish |-> finish, content |-> <<content>>]
           strings == Seq([kind : {"text", "base64"}, data : Nat \X Nat])
<1>1. m = [Message("") EXCEPT !.choices = <<choice>>]
  BY DEF Payload, Token
<1>2. m.choices = <<choice>>
  BY <1>1 DEF Message
<1>3. /\ Token(name) \in Seq(Tokens) /\ Token(name) # <<>>
      /\ name.answer \in Nat /\ name.part \in Nat
  BY TokenIsText, SaidAreNames, NamesAreNamed
<1>4. /\ content = [text |-> Token(name), transcript |-> <<>>, audio |-> sound]
      /\ content.text = Token(name) /\ content.audio = sound
  <2>1. ASSUME NEW t, NEW s
        PROVE  /\ [NoPart EXCEPT !.text = t, !.audio = s] = [text |-> t, transcript |-> <<>>, audio |-> s]
               /\ [NoPart EXCEPT !.text = t, !.audio = s].text = t
               /\ [NoPart EXCEPT !.text = t, !.audio = s].audio = s
    <3>1. NoPart = [text |-> <<>>, transcript |-> <<>>, audio |-> <<>>]
      BY DEF NoPart
    <3> DEFINE c == [NoPart EXCEPT !.text = t, !.audio = s]
    <3>2. c = [[text |-> <<>>, transcript |-> <<>>, audio |-> <<>>] EXCEPT !.text = t, !.audio = s]
      BY <3>1
    <3> HIDE DEF c
    <3>3. c = [text |-> t, transcript |-> <<>>, audio |-> s]
      BY <3>2
    <3>4. c.text = t /\ c.audio = s
      BY <3>3
    <3>5. QED
      BY <3>3, <3>4 DEF c
  <2> HIDE DEF sound
  <2>2. QED
    BY <2>1
<1>5. Token(name) \in strings /\ sound \in strings /\ finish \in {"null", "stop"}
  <2>1. \A x \in [kind : {"text", "base64"}, data : Nat \X Nat] : <<x>> \in strings
    OBVIOUS
  <2>2. /\ [kind |-> "text", data |-> bytes] \in [kind : {"text", "base64"}, data : Nat \X Nat]
        /\ [kind |-> "base64", data |-> bytes] \in [kind : {"text", "base64"}, data : Nat \X Nat]
    BY <1>3
  <2>3. Token(name) \in strings /\ Base64(bytes) \in strings /\ <<>> \in strings
    BY <2>1, <2>2 DEF Token, Text, Base64
  <2>4. QED
    BY <2>3
<1>6. m.choices \notin {Nil, Bad, <<>>} /\ choice # Nil
  <2> DEFINE contents == Seq([text : strings, transcript : {<<>>}, audio : strings])
             choices == [finish : {"null", "stop"}, content : contents]
  <2>1. Nil \notin Seq(choices) /\ Bad \notin Seq(choices) /\ Nil \notin choices
    BY FieldsAssumption
  <2> HIDE DEF strings, sound
  <2>2. content \in [text : strings, transcript : {<<>>}, audio : strings]
    BY <1>4, <1>5
  <2> HIDE DEF content
  <2>3. <<content>> \in contents
    BY <2>2
  <2> HIDE DEF contents, finish
  <2>4. choice \in choices
    BY <1>5, <2>3
  <2> HIDE DEF choices, choice
  <2>5. <<choice>> \in Seq(choices) /\ <<choice>> # <<>>
    BY <2>4
  <2>6. QED
    BY <1>2, <2>1, <2>4, <2>5
<1>7. choice.finish = finish /\ choice.content = <<content>>
  OBVIOUS
<1>8. ItemText(choice) = Token(name)
  <2> DEFINE seq == choice.content
             piece == content
  <2>1. seq = <<piece>> /\ piece.text = Token(name)
    BY <1>4, <1>7
  <2> HIDE DEF seq, piece
  <2>2. [i \in DOMAIN seq |-> seq[i].text] = <<piece.text>>
    BY <2>1
  <2>3. FlattenSeq(<<piece.text>>) = Token(name)
    BY <1>3, <2>1, FlattenOne
  <2>4. FlattenSeq([i \in DOMAIN choice.content |-> choice.content[i].text]) = Token(name)
    BY <2>2, <2>3 DEF seq
  <2> HIDE DEF choice
  <2>5. QED
    BY <1>6, <2>4 DEF ItemText
<1>9. FirstAudio(choice.content) = sound
  <2> DEFINE seq == choice.content
             piece == content
             told == {i \in DOMAIN seq : seq[i].audio # <<>>}
  <2>1. seq = <<piece>> /\ piece.audio = sound
    BY <1>4, <1>7
  <2> HIDE DEF seq, piece, sound
  <2>2. told = (IF sound = <<>> THEN {} ELSE {1}) /\ seq[1].audio = sound
    BY <2>1
  <2>3. Min({1}) = 1
    BY DEF Min
  <2> HIDE DEF told
  <2>4. FirstAudio(seq) = IF told = {} THEN <<>> ELSE seq[Min(told)].audio
    BY DEF FirstAudio, told
  <2>5. FirstAudio(seq) = sound
    BY <2>2, <2>3, <2>4
  <2>6. QED
    BY <2>5 DEF seq
<1> DEFINE w == DecodeChoices(m.choices)
<1>10. w = [WireEvent("choices") EXCEPT !.finish = finish, !.delta = Token(name), !.audio64 = sound]
  <2> HIDE DEF m, choice, finish, sound
  <2>1. m.choices[1] = choice
    BY <1>2
  <2>2. w = [WireEvent("choices") EXCEPT
               !.finish = m.choices[1].finish, !.delta = ItemText(m.choices[1]),
               !.audio64 = FirstAudio(m.choices[1].content)]
    BY <1>6 DEF DecodeChoices
  <2> HIDE DEF w
  <2>3. QED
    BY <1>7, <1>8, <1>9, <2>1, <2>2
<1> HIDE DEF m, finish, sound, w
<1>11. /\ w.type = "choices" /\ w.finish = finish /\ w.delta = Token(name) /\ w.audio64 = sound
       /\ w.part = Nil /\ w # Nil
  <2> DEFINE delta == Token(name)
             events == [type : {"choices"}, responseID : {<<>>}, itemID : {<<>>}, session : {Nil},
                        response : {Nil}, item : {Nil}, part : {Nil}, delta : strings,
                        transcript : {<<>>}, audio64 : strings, finish : {"null", "stop"},
                        usage : {Nil}, error : {Nil}]
  <2>1. Nil \notin events
    BY FieldsAssumption
  <2>2. w = [WireEvent("choices") EXCEPT !.finish = finish, !.delta = delta, !.audio64 = sound]
    BY <1>10
  <2>3. delta \in strings /\ sound \in strings /\ finish \in {"null", "stop"}
    BY <1>5
  <2> HIDE DEF delta, strings
  <2>4. /\ w \in events /\ w.type = "choices" /\ w.finish = finish /\ w.delta = delta
        /\ w.audio64 = sound /\ w.part = Nil
    BY <2>2, <2>3 DEF WireEvent
  <2> HIDE DEF events
  <2>5. QED
    BY <2>1, <2>4 DEF delta
<1>12. Event(m) = ConvertWireEvent(w)
  <2>1. DecodeServerEvent(m) = w
    BY <1>11 DEF DecodeServerEvent, w
  <2>2. QED
    BY <2>1 DEF Event
<1>13. ConvertedDelta(w) = Token(name)
  BY <1>3, <1>11 DEF ConvertedDelta, Or
<1>14. Bytes(ConvertedAudio(w)) = Noise(name)
  <2>1. ConvertedAudio(w) = sound
    BY <1>11 DEF ConvertedAudio, Or, PartAudio
  <2>2. CASE program.app = "audio"
    <3>1. sound = Base64(bytes)
      BY <2>2 DEF sound
    <3>2. Bytes(Base64(bytes)) = bytes
      BY DEF Bytes, Base64
    <3>3. QED
      BY <2>1, <2>2, <3>1, <3>2 DEF Noise
  <2>3. CASE program.app # "audio"
    <3>1. sound = <<>> /\ Bytes(<<>>) = <<>>
      BY <2>3 DEF sound, Bytes
    <3>2. QED
      BY <2>1, <2>3, <3>1 DEF Noise
  <2>4. QED
    BY <2>2, <2>3
<1>15. /\ Event(m).type = "choices" /\ Event(m).delta = Token(name)
       /\ Event(m).audio = Noise(name) /\ Event(m).finish = finish
  BY <1>11, <1>12, <1>13, <1>14 DEF ConvertWireEvent
<1>16. QED
  BY <1>15 DEF m, finish

LEMMA HeardSound ==
  ASSUME NEW name \in Said, name.kind = "sound"
  PROVE  /\ Event(Payload(name)).type = "response.audio.delta"
         /\ Event(Payload(name)).audio = <<name.answer, name.part>>
<1> DEFINE m == Payload(name)
           bytes == <<name.answer, name.part>>
           sound == Base64(bytes)
<1>1. /\ m.choices = Nil /\ m.delta = sound /\ m.type = "response.audio.delta"
      /\ m.part = Nil /\ m.audio = <<>>
  BY DEF Payload, Message
<1>2. sound # <<>> /\ Bytes(sound) = bytes
  BY DEF Base64, Bytes
<1> HIDE DEF m, sound
<1>3. DecodeServerEvent(m) = DecodeFields(m) /\ Event(m).type = m.type
  BY <1>1, Unchosen
<1>4. PartOf(m) = Nil
  BY <1>1 DEF PartOf, Object
<1>5. AudioInDelta(m) /\ TextOf(m) = sound
  BY <1>1, <1>2, <1>4 DEF AudioInDelta, AudioOf, PartAudio, TextOf, Or
<1>6. DecodeFields(m).audio64 = sound
  BY <1>5 DEF DecodeFields, Audio64Of
<1>7. Event(m).audio = bytes
  BY <1>2, <1>3, <1>6 DEF Event, ConvertWireEvent, ConvertedAudio, Or
<1>8. QED
  BY <1>1, <1>3, <1>7 DEF m

LEMMA HeardDone ==
  ASSUME NEW name \in Said, name.kind = "done"
  PROVE  /\ Event(Payload(name)).type = "response.done"
         /\ Event(Payload(name)).usage = [answer |-> name.answer]
         /\ Event(Payload(name)).usage # Nil
<1> DEFINE m == Payload(name)
           usage == [answer |-> name.answer]
           response == [NoResponse EXCEPT !.usage = usage]
           usages == [answer : Nat]
<1>1. m.choices = Nil /\ m.type = "response.done" /\ m.response = response
  BY DEF Payload, Message
<1>2. usage \in usages
  BY SaidAreNames, NamesAreNamed
<1>3. /\ Nil \notin usages
      /\ \A v \in {Nil, Bad} : v \notin [id : {<<>>}, output : {<<>>}, usage : usages]
  BY FieldsAssumption
<1> HIDE DEF usages, usage
<1>4. response = [id |-> <<>>, output |-> <<>>, usage |-> usage] /\ response.usage = usage
  BY DEF NoResponse
<1>5. response \notin {Nil, Bad} /\ usage # Nil
  BY <1>2, <1>3, <1>4
<1> HIDE DEF m, response
<1>6. DecodeServerEvent(m) = DecodeFields(m) /\ Event(m).type = m.type
  BY <1>1, Unchosen
<1>7. ResponseOf(m) = response
  BY <1>1, <1>5 DEF ResponseOf, Object
<1>8. DecodeFields(m).usage = usage
  BY <1>4, <1>5, <1>7 DEF DecodeFields
<1>9. Event(m).usage = usage
  BY <1>5, <1>6, <1>8 DEF Event, ConvertWireEvent
<1>10. QED
  BY <1>1, <1>5, <1>6, <1>9 DEF m, usage

LEMMA HeardNote ==
  ASSUME NEW name \in Said, name.kind \in {"created", "updated", "refused", "denied", "part"}
  PROVE  /\ name.kind \in {"refused", "denied"} => Event(Payload(name)).type = "error"
         /\ name.kind \notin {"refused", "denied"} =>
              Event(Payload(name)).type \in {"session.created", "session.updated",
                                             "response.content_part.done"}
<1> DEFINE m == Payload(name)
<1>1. /\ m.choices = Nil
      /\ name.kind \in {"refused", "denied"} => m.type = "error"
      /\ name.kind \notin {"refused", "denied"} =>
           m.type \in {"session.created", "session.updated", "response.content_part.done"}
  BY DEF Payload, Message
<1>2. m.type # ""
  BY <1>1
<1>3. Event(m).type = m.type
  BY <1>1, <1>2, Unchosen
<1> HIDE DEF m
<1>4. QED
  BY <1>1, <1>3 DEF m

LEMMA HeardOther ==
  ASSUME NEW name \in Said, name.kind \notin Spoke
  PROVE  Event(Payload(name)).type \notin
           {"response.text.delta", "response.audio_transcript.delta", "choices"}
<1> DEFINE m == Payload(name)
<1>1. name.kind \in {"created", "updated", "refused", "denied", "sound", "part", "done"}
  BY DEF Said, Handled, Spoke
<1>2. /\ m.choices = Nil
      /\ m.type \in {"session.created", "session.updated", "error", "response.audio.delta",
                     "response.content_part.done", "response.done"}
  BY <1>1 DEF Payload, Message
<1>3. QED
  BY <1>2, Unchosen

-----------------------------------------------------------------------------
(* The text that has been collected, over all answers *)
Collected == FlattenSeq([k \in DOMAIN answers |-> answers[k].text]) \o acc.text

AccOK ==
  acc \in [text : Seq(Tokens), audio : {acc.audio}, usage : {acc.usage}, output : {acc.output}]

CollectOK ==
  /\ AccOK
  /\ answers \in Seq(Range(answers))
  /\ \A k \in 1 .. Len(answers) : answers[k].text \in Seq(Tokens)

(* A step collects d, and may return what has been collected. *)
Collects(d) ==
  \/ answers' = answers /\ acc'.text = acc.text \o d
  \/ acc'.text = <<>> /\ \E r : answers' = Append(answers, r) /\ r.text = acc.text \o d

LEMMA CollectedText ==
  ASSUME CollectOK
  PROVE  /\ [k \in DOMAIN answers |-> answers[k].text] \in Seq(Seq(Tokens))
         /\ Len([k \in DOMAIN answers |-> answers[k].text]) = Len(answers)
         /\ FlattenSeq([k \in DOMAIN answers |-> answers[k].text]) \in Seq(Tokens)
         /\ acc.text \in Seq(Tokens) /\ Collected \in Seq(Tokens)
<1> DEFINE texts == [k \in DOMAIN answers |-> answers[k].text]
<1>1. acc.text \in Seq(Tokens)
  BY DEF CollectOK, AccOK
<1>2. /\ Len(answers) \in Nat /\ DOMAIN answers = 1 .. Len(answers)
      /\ \A k \in 1 .. Len(answers) : answers[k].text \in Seq(Tokens)
  BY LenProperties DEF CollectOK
<1>3. texts \in [1 .. Len(answers) -> Seq(Tokens)]
  BY <1>2
<1>4. texts \in Seq(Seq(Tokens)) /\ Len(texts) = Len(answers)
  BY <1>2, <1>3, SeqDef
<1>5. FlattenSeq(texts) \in Seq(Tokens)
  <2> HIDE DEF texts
  <2>1. QED
    BY <1>4, FlattenInSeq
<1>6. Collected = FlattenSeq(texts) \o acc.text
  BY DEF Collected
<1>7. Collected \in Seq(Tokens)
  <2> HIDE DEF texts
  <2>1. QED
    BY <1>1, <1>5, <1>6, ConcatProperties
<1>8. QED
  BY <1>1, <1>4, <1>5, <1>7

LEMMA CollectsText ==
  ASSUME CollectOK, AccOK', NEW d \in Seq(Tokens), Collects(d)
  PROVE  CollectOK' /\ Collected' = Collected \o d
<1> DEFINE texts == [k \in DOMAIN answers |-> answers[k].text]
<1>1. /\ acc.text \in Seq(Tokens) /\ acc.text \o d \in Seq(Tokens) /\ acc'.text \in Seq(Tokens)
  BY ConcatProperties DEF CollectOK, AccOK
<1>2. /\ Len(answers) \in Nat /\ DOMAIN answers = 1 .. Len(answers)
      /\ \A k \in 1 .. Len(answers) : answers[k].text \in Seq(Tokens)
  BY LenProperties DEF CollectOK
<1>3. /\ texts \in Seq(Seq(Tokens)) /\ Len(texts) = Len(answers)
  BY CollectedText
<1>4. FlattenSeq(texts) \in Seq(Tokens)
  BY CollectedText
<1>5. Collected = FlattenSeq(texts) \o acc.text
  BY DEF Collected
<1>6. Collected \o d = FlattenSeq(texts) \o (acc.text \o d)
  <2> DEFINE a == FlattenSeq(texts)
             b == acc.text
  <2>1. a \in Seq(Tokens) /\ b \in Seq(Tokens) /\ Collected = a \o b
    BY <1>1, <1>4, <1>5
  <2> HIDE DEF a, b
  <2>2. (a \o b) \o d = a \o (b \o d)
    BY <2>1, ConcatAssociative
  <2>3. QED
    BY <2>1, <2>2 DEF a, b
<1>7. CASE answers' = answers /\ acc'.text = acc.text \o d
  <2>1. Collected' = FlattenSeq(texts) \o (acc.text \o d)
    BY <1>7 DEF Collected
  <2>2. CollectOK'
    BY <1>7 DEF CollectOK
  <2>3. QED
    <3> HIDE DEF texts
    <3>1. QED
      BY <1>6, <2>1, <2>2
<1>8. CASE acc'.text = <<>> /\ \E r : answers' = Append(answers, r) /\ r.text = acc.text \o d
  <2>1. PICK r : answers' = Append(answers, r) /\ r.text = acc.text \o d
    BY <1>8
  <2> DEFINE all == Range(answers) \cup {r}
  <2>2. answers \in Seq(all) /\ r \in all
    <3>1. Range(answers) \subseteq all
      OBVIOUS
    <3> HIDE DEF all
    <3>2. answers \in Seq(all)
      BY <3>1, SeqMonotonic DEF CollectOK
    <3>3. QED
      BY <3>2 DEF all
  <2> HIDE DEF all
  <2>3. /\ answers' \in Seq(all) /\ Len(answers') = Len(answers) + 1
        /\ \A k \in 1 .. Len(answers) : answers'[k] = answers[k]
        /\ answers'[Len(answers) + 1] = r
        /\ DOMAIN answers' = 1 .. Len(answers) + 1
    BY <2>1, <2>2, AppendProperties, LenProperties
  <2>4. answers' \in Seq(Range(answers'))
    BY <2>3, SeqOfRange
  <2>5. \A k \in 1 .. Len(answers') : answers'[k].text \in Seq(Tokens)
    <3>1. \A k \in 1 .. Len(answers') : k \in 1 .. Len(answers) \/ k = Len(answers) + 1
      BY <1>2, <2>3
    <3>2. QED
      BY <1>1, <1>2, <2>1, <2>3, <3>1
  <2>6. CollectOK'
    BY <2>4, <2>5 DEF CollectOK
  <2> DEFINE more == [k \in DOMAIN answers' |-> answers'[k].text]
             s == acc.text \o d
  <2>7. more = Append(texts, s)
    <3>1. Append(texts, s) \in Seq(Seq(Tokens)) /\ Len(Append(texts, s)) = Len(answers) + 1
          /\ \A k \in 1 .. Len(answers) : Append(texts, s)[k] = texts[k]
          /\ Append(texts, s)[Len(answers) + 1] = s
      <4> HIDE DEF texts, s
      <4>1. s \in Seq(Tokens)
        BY <1>1 DEF s
      <4>2. QED
        BY <1>3, <4>1, AppendProperties
    <3>2. more \in [1 .. Len(answers) + 1 -> Seq(Tokens)]
      BY <2>3, <2>5
    <3>3. more \in Seq(Seq(Tokens)) /\ Len(more) = Len(answers) + 1
      BY <1>2, <3>2, SeqDef
    <3>4. ASSUME NEW k \in 1 .. Len(answers) + 1 PROVE more[k] = Append(texts, s)[k]
      <4>1. CASE k = Len(answers) + 1
        <5>1. k \in DOMAIN answers' /\ answers'[k] = r
          BY <2>3, <4>1
        <5>2. more[k] = r.text
          BY <5>1
        <5>3. s = r.text
          BY <2>1
        <5> HIDE DEF more, texts, s
        <5>4. QED
          BY <3>1, <4>1, <5>2, <5>3
      <4>2. CASE k # Len(answers) + 1
        <5>1. k \in 1 .. Len(answers)
          BY <1>2, <4>2
        <5>2. more[k] = answers[k].text /\ texts[k] = answers[k].text
          BY <1>2, <2>3, <5>1
        <5>3. QED
          BY <3>1, <5>1, <5>2
      <4>3. QED
        BY <4>1, <4>2
    <3> HIDE DEF more, texts, s
    <3>5. QED
      BY <3>1, <3>3, <3>4, SeqEqual
  <2>8. Collected' = FlattenSeq(more) \o <<>>
    BY <1>8 DEF Collected
  <2>9. FlattenSeq(more) = FlattenSeq(texts) \o s
    <3>1. s \in Seq(Tokens)
      BY <1>1
    <3> HIDE DEF more, texts, s
    <3>2. QED
      BY <1>3, <2>7, <3>1, FlattenAppend
  <2>10. Collected' = FlattenSeq(texts) \o s
    <3>1. s \in Seq(Tokens)
      BY <1>1
    <3>2. FlattenSeq(more) \in Seq(Tokens)
      <4> HIDE DEF more, texts, s
      <4>1. QED
        BY <1>4, <2>9, <3>1, ConcatProperties
    <3> HIDE DEF more, texts, s
    <3>3. QED
      BY <2>8, <2>9, <3>2, ConcatEmptySeq
  <2>11. QED
    <3> HIDE DEF texts
    <3>1. QED
      BY <1>6, <2>6, <2>10
<1>9. QED
  BY <1>7, <1>8 DEF Collects

(* Everything collect and waitForEventType do with what they have *)
LEMMA Gathers ==
  ASSUME CollectOK, NEW d \in Seq(Tokens), NEW audio, acc' = Gather(d, audio), answers' = answers
  PROVE  AccOK' /\ Collects(d)
<1>1. acc.text \o d \in Seq(Tokens)
  BY ConcatProperties DEF CollectOK, AccOK
<1>2. acc' = [acc EXCEPT !.text = acc.text \o d, !.audio = acc.audio \o audio,
                         !.output = acc.output \/ d # <<>> \/ audio # <<>>]
  BY DEF Gather
<1>3. QED
  BY <1>1, <1>2 DEF CollectOK, AccOK, Collects

LEMMA Returns ==
  ASSUME CollectOK, NEW d \in Seq(Tokens), NEW gathered, gathered.text = acc.text \o d,
         NEW how, NEW err, Return(gathered, how, err)
  PROVE  AccOK' /\ Collects(d)
<1>1. AccOK'
  BY DEF Return, NoOutput, AccOK
<1>2. acc'.text = <<>>
  BY DEF Return, NoOutput
<1>3. \E r : answers' = Append(answers, r) /\ r.text = acc.text \o d
  <2> DEFINE r == [of |-> asked, text |-> gathered.text, audio |-> gathered.audio,
                   usage |-> gathered.usage, how |-> how, clean |-> ~disturbed]
  <2>1. answers' = Append(answers, r) /\ r.text = gathered.text
    BY DEF Return
  <2> HIDE DEF r
  <2>2. QED
    BY <2>1
<1>4. QED
  BY <1>1, <1>2, <1>3 DEF Collects

LEMMA CollectsNothing ==
  ASSUME CollectOK
  PROVE  /\ <<>> \in Seq(Tokens) /\ acc.text \o <<>> = acc.text
         /\ UNCHANGED <<acc, answers>> => AccOK' /\ Collects(<<>>)
<1>1. acc.text \o <<>> = acc.text
  BY ConcatEmptySeq DEF CollectOK, AccOK
<1>2. QED
  BY <1>1 DEF CollectOK, AccOK, Collects

LEMMA SelectsText ==
  ASSUME CollectOK, NEW name \in Said, CollectEvent(Event(Payload(name)))
  PROVE  /\ AccOK'
         /\ \E d \in {<<>>, Token(name)} : Collects(d) /\ (d # <<>> => name.kind \in Spoke)
<1> DEFINE event == Event(Payload(name))
<1>1. Token(name) \in Seq(Tokens) /\ <<>> \in Seq(Tokens) /\ acc.text \o <<>> = acc.text
  BY TokenIsText, SaidAreNames, CollectsNothing
<1>2. event.type \in {"response.text.delta", "response.audio_transcript.delta"}
        => event.delta = Token(name) /\ name.kind \in Spoke
  <2>1. CASE name.kind \in {"text", "transcript"}
    BY <2>1, HeardText DEF Spoke
  <2>2. CASE name.kind \in {"choice", "lastChoice"}
    BY <2>2, HeardChoice DEF Spoke
  <2>3. CASE name.kind \notin Spoke
    BY <2>3, HeardOther
  <2>4. QED
    BY <2>1, <2>2, <2>3 DEF Spoke
<1>3. event.type = "choices" => event.delta \in {<<>>, Token(name)} /\ name.kind \in Spoke
  <2>1. CASE name.kind \in {"text", "transcript"}
    BY <2>1, HeardText DEF Spoke
  <2>2. CASE name.kind \in {"choice", "lastChoice"}
    BY <2>2, HeardChoice DEF Spoke
  <2>3. CASE name.kind \notin Spoke
    BY <2>3, HeardOther
  <2>4. QED
    BY <2>1, <2>2, <2>3 DEF Spoke
<1>4. CollectEvent(event)
  OBVIOUS
<1> HIDE DEF event
<1>5. CASE event.type \in {"response.text.delta", "response.audio_transcript.delta"}
  <2>1. acc' = Gather(event.delta, <<>>) /\ answers' = answers
    BY <1>4, <1>5 DEF CollectEvent, KeepCollecting
  <2>2. AccOK' /\ Collects(Token(name))
    BY <1>1, <1>2, <1>5, <2>1, Gathers
  <2>3. QED
    BY <1>2, <1>5, <2>2
<1>6. CASE event.type = "choices"
  <2>1. PICK audio :
          \/ acc' = Gather(event.delta, audio) /\ answers' = answers
          \/ Return(Gather(event.delta, audio), "done", FALSE)
    BY <1>4, <1>6 DEF CollectEvent, KeepCollecting
  <2>2. event.delta \in Seq(Tokens)
    BY <1>1, <1>3, <1>6
  <2>3. Gather(event.delta, audio).text = acc.text \o event.delta
    BY DEF Gather, CollectOK, AccOK
  <2>4. AccOK' /\ Collects(event.delta)
    BY <2>1, <2>2, <2>3, Gathers, Returns
  <2>5. QED
    BY <1>3, <1>6, <2>4
<1>7. CASE event.type \notin {"response.text.delta", "response.audio_transcript.delta", "choices"}
  <2>1. AccOK' /\ Collects(<<>>)
    <3>1. CASE event.type = "response.audio.delta" /\ program.app = "audio"
      <4>1. acc' = Gather(<<>>, event.audio) /\ answers' = answers
        BY <1>4, <3>1 DEF CollectEvent, KeepCollecting
      <4>2. QED
        BY <1>1, <4>1, Gathers
    <3>2. CASE event.type = "response.done"
      <4> DEFINE usage == IF event.usage = Nil THEN acc.usage ELSE event.usage
      <4>1. Return([acc EXCEPT !.usage = usage], "done", FALSE)
        BY <1>4, <3>2 DEF CollectEvent
      <4> HIDE DEF usage
      <4>2. [acc EXCEPT !.usage = usage].text = acc.text
        BY DEF CollectOK, AccOK
      <4>3. QED
        BY <1>1, <4>1, <4>2, Returns
    <3>3. CASE event.type = "error"
      <4>1. Return(acc, "error", TRUE)
        BY <1>4, <3>3 DEF CollectEvent
      <4>2. QED
        BY <1>1, <4>1, Returns
    <3>4. CASE /\ event.type \notin {"response.done", "error"}
               /\ ~(event.type = "response.audio.delta" /\ program.app = "audio")
      <4>1. acc' = acc /\ answers' = answers
        BY <1>4, <1>7, <3>4 DEF CollectEvent, KeepCollecting
      <4>2. QED
        BY <4>1, CollectsNothing
    <3>5. QED
      BY <3>1, <3>2, <3>3, <3>4
  <2>2. QED
    BY <2>1
<1>8. QED
  BY <1>5, <1>6, <1>7

-----------------------------------------------------------------------------
(* Texts stand in line: those collected, those in eventCh, in the pump's hand,
   in the session's own channel and at the server come after each other and
   are in turn themselves, and all belong to what has been asked for. *)
Told(texts) ==
  [i \in 1 .. Len(texts) |-> Name("text", texts[i].data[1], texts[i].data[2])]

InHand == IF pump = "event" THEN <<hand>> ELSE <<>>
Queued == SubSeq(log, Len(out) + 1, Len(log))

Lined(told, channel, held, queued, outbox, n) ==
  /\ Sorted(told) /\ Sorted(channel) /\ Sorted(held) /\ Sorted(queued) /\ Sorted(outbox)
  /\ Cross(told, channel) /\ Cross(told, held) /\ Cross(told, queued) /\ Cross(told, outbox)
  /\ Cross(channel, held) /\ Cross(channel, queued) /\ Cross(channel, outbox)
  /\ Cross(held, queued) /\ Cross(held, outbox) /\ Cross(queued, outbox)
  /\ UpTo(told, n) /\ UpTo(channel, n) /\ UpTo(held, n) /\ UpTo(queued, n) /\ UpTo(outbox, n)

TextInv ==
  /\ CollectOK
  /\ Lined(Told(Collected), eventCh, InHand, Queued, server.outbox, asked)

LEMMA HeadThenTail ==
  ASSUME NEW S, NEW s \in Seq(S), s # <<>>
  PROVE  /\ Head(s) \in S /\ Tail(s) \in Seq(S) /\ s = <<Head(s)>> \o Tail(s)
<1>1. Head(s) \in S /\ Tail(s) \in Seq(S) /\ Len(s) \in Nat \ {0} /\ Head(s) = s[1]
  BY HeadTailProperties, EmptySeq
<1>2. s = SubSeq(s, 1, Len(s)) /\ Tail(s) = SubSeq(s, 2, Len(s))
  BY SubSeqFull, TailIsSubSeq
<1>3. SubSeq(s, 1, Len(s)) = <<s[1]>> \o SubSeq(s, 1 + 1, Len(s))
  <2>1. 1 \in 1 .. Len(s) /\ Len(s) \in 1 .. Len(s)
    BY <1>1
  <2>2. QED
    BY <2>1, SubSeqRecursiveFirst
<1>4. QED
  BY <1>1, <1>2, <1>3

LEMMA ToldAreNames ==
  ASSUME NEW texts \in Seq(Tokens)
  PROVE  /\ Told(texts) \in Seq(Names) /\ Len(Told(texts)) = Len(texts)
         /\ \A i \in 1 .. Len(texts) :
              /\ Told(texts)[i].kind = "text"
              /\ texts[i].data = <<Told(texts)[i].answer, Told(texts)[i].part>>
<1>1. Len(texts) \in Nat
  OBVIOUS
<1>2. ASSUME NEW i \in 1 .. Len(texts)
      PROVE  /\ texts[i].data[1] \in Nat /\ texts[i].data[2] \in Nat
             /\ texts[i].data = <<texts[i].data[1], texts[i].data[2]>>
  <2>1. texts[i] \in Tokens
    BY ElementOfSeq
  <2>2. texts[i].data \in Nat \X Nat
    BY <2>1 DEF Tokens
  <2>3. QED
    BY <2>2
<1>3. ASSUME NEW i \in 1 .. Len(texts)
      PROVE  LET name == Name("text", texts[i].data[1], texts[i].data[2])
             IN  /\ name \in Names /\ name.kind = "text"
                 /\ name.answer = texts[i].data[1] /\ name.part = texts[i].data[2]
  <2>1. PICK a \in Nat, b \in Nat : a = texts[i].data[1] /\ b = texts[i].data[2]
    BY <1>2
  <2>2. "text" \in Handled
    BY DEF Handled
  <2>3. /\ Name("text", a, b) \in Names /\ Name("text", a, b).kind = "text"
        /\ Name("text", a, b).answer = a /\ Name("text", a, b).part = b
    BY <2>2, NameIsName
  <2>4. QED
    BY <2>1, <2>3
<1>4. Told(texts) \in [1 .. Len(texts) -> Names]
  BY <1>3 DEF Told
<1>5. Told(texts) \in Seq(Names) /\ Len(Told(texts)) = Len(texts)
  BY <1>1, <1>4, SeqDef
<1>6. QED
  BY <1>2, <1>3, <1>5 DEF Told

(* The name of a text that has been told, in place of its message *)
AsTold(name) == Name("text", name.answer, name.part)

LEMMA AsToldInTurn ==
  ASSUME NEW name \in Names, name.kind \in Spoke
  PROVE  /\ AsTold(name) \in Names /\ <<AsTold(name)>> \in Seq(Names) /\ Sorted(<<AsTold(name)>>)
         /\ \A n \in Nat : UpTo(<<name>>, n) => UpTo(<<AsTold(name)>>, n)
         /\ \A s \in Seq(Names) : /\ Cross(s, <<name>>) => Cross(s, <<AsTold(name)>>)
                                  /\ Cross(<<name>>, s) => Cross(<<AsTold(name)>>, s)
<1>1. /\ name.answer \in Nat /\ name.part \in Nat
  BY DEF Names
<1>2. /\ AsTold(name) \in Names /\ AsTold(name).kind = "text"
      /\ AsTold(name).answer = name.answer /\ AsTold(name).part = name.part
  BY <1>1, NameIsName DEF Handled, AsTold
<1>3. Place(AsTold(name)) = Place(name) /\ name.kind \in Counted
  BY <1>2 DEF Place, Spoke, Counted
<1>4. \A n \in Nat : UpTo(<<name>>, n) => UpTo(<<AsTold(name)>>, n)
  BY <1>2, <1>3 DEF UpTo
<1>5. ASSUME NEW s \in Seq(Names)
      PROVE  /\ Cross(s, <<name>>) => Cross(s, <<AsTold(name)>>)
             /\ Cross(<<name>>, s) => Cross(<<AsTold(name)>>, s)
  BY <1>2, <1>3 DEF Cross, InTurn, Earlier
<1>6. QED
  BY <1>2, <1>4, <1>5, OneInTurn

LEMMA ToldMore ==
  ASSUME NEW texts \in Seq(Tokens), NEW name \in Names
  PROVE  Told(texts \o Token(name)) = Told(texts) \o <<AsTold(name)>>
<1> DEFINE more == texts \o Token(name)
           last == <<AsTold(name)>>
<1>1. /\ Token(name) \in Seq(Tokens) /\ Len(Token(name)) = 1
      /\ Token(name)[1].data = <<name.answer, name.part>>
  BY TokenIsText
<1>2. Len(texts) \in Nat
  OBVIOUS
<1>3. /\ more \in Seq(Tokens) /\ Len(more) = Len(texts) + 1
      /\ \A i \in 1 .. Len(texts) : more[i] = texts[i]
      /\ more[Len(texts) + 1] = Token(name)[1]
  BY <1>1, <1>2, ConcatProperties, SMTT(30)
<1>4. name.answer \in Nat /\ name.part \in Nat
  BY DEF Names
<1>5. AsTold(name) \in Names
  BY <1>4, NameIsName DEF AsTold, Handled
<1>6. /\ Told(texts) \in Seq(Names) /\ Len(Told(texts)) = Len(texts)
      /\ Told(more) \in Seq(Names) /\ Len(Told(more)) = Len(texts) + 1
  <2> HIDE DEF more
  <2>1. QED
    BY <1>3, ToldAreNames
<1>7. /\ Told(texts) \o last \in Seq(Names) /\ Len(Told(texts) \o last) = Len(texts) + 1
      /\ \A i \in 1 .. Len(texts) : (Told(texts) \o last)[i] = Told(texts)[i]
      /\ (Told(texts) \o last)[Len(texts) + 1] = AsTold(name)
  <2>1. last \in Seq(Names) /\ Len(last) = 1 /\ last[1] = AsTold(name)
    BY <1>5
  <2> DEFINE told == Told(texts)
  <2>2. told \in Seq(Names) /\ Len(told) = Len(texts)
    BY <1>6
  <2> HIDE DEF last, told
  <2>3. /\ told \o last \in Seq(Names) /\ Len(told \o last) = Len(told) + Len(last)
        /\ \A i \in 1 .. Len(told) + Len(last) :
             (told \o last)[i] = IF i <= Len(told) THEN told[i] ELSE last[i - Len(told)]
    BY <2>1, <2>2, ConcatProperties
  <2>4. QED
    BY <1>2, <2>1, <2>2, <2>3 DEF told
<1>8. ASSUME NEW i \in 1 .. Len(texts) + 1
      PROVE  Told(more)[i] = (Told(texts) \o last)[i]
  <2> HIDE DEF more, last
  <2>1. Told(more)[i] = Name("text", more[i].data[1], more[i].data[2])
    BY <1>3 DEF Told
  <2>2. CASE i = Len(texts) + 1
    BY <1>1, <1>3, <1>7, <2>1, <2>2 DEF AsTold
  <2>3. CASE i # Len(texts) + 1
    <3>1. i \in 1 .. Len(texts)
      BY <1>2, <2>3
    <3>2. Told(texts)[i] = Name("text", texts[i].data[1], texts[i].data[2])
      BY <3>1 DEF Told
    <3>3. QED
      BY <1>3, <1>7, <2>1, <3>1, <3>2
  <2>4. QED
    BY <2>2, <2>3
<1>9. QED
  <2> HIDE DEF more, last
  <2>1. Told(more) = Told(texts) \o last
    BY <1>6, <1>7, <1>8, SeqEqual
  <2>2. QED
    BY <2>1 DEF more, last

(* The line after each kind of move *)
LEMMA Moves ==
  ASSUME NEW t \in Seq(Names), NEW e \in Seq(Names), NEW h \in Seq(Names),
         NEW q \in Seq(Names), NEW o \in Seq(Names), NEW n \in Nat, NEW x \in Names
  PROVE  /\ Lined(t, e, h, q, <<x>> \o o, n) => Lined(t, e, h, q \o <<x>>, o, n)
         /\ Lined(t, e, h, <<x>> \o q, o, n) => Lined(t, e, h, q, o, n)
         /\ Lined(t, e, <<>>, <<x>> \o q, o, n) => Lined(t, e, <<x>>, q, o, n)
         /\ Lined(t, e, <<x>>, q, o, n) => Lined(t, e \o <<x>>, <<>>, q, o, n)
         /\ Lined(t, <<x>> \o e, h, q, o, n) =>
              /\ Lined(t, e, h, q, o, n)
              /\ x.kind \in Spoke => Lined(t \o <<AsTold(x)>>, e, h, q, o, n)
<1>1. <<x>> \in Seq(Names) /\ Sorted(<<x>>)
  BY OneInTurn
<1>2. <<>> \in Seq(Names) /\ Mute(<<>>)
  BY DEF Mute
<1>3. /\ Sorted(<<>>) /\ \A m \in Nat : UpTo(<<>>, m)
      /\ \A u \in Seq(Names) : Cross(<<>>, u) /\ Cross(u, <<>>)
  BY <1>2, MuteInTurn
<1> DEFINE w == <<x>>
<1>4. /\ w \in Seq(Names) /\ Sorted(w)
      /\ \A a, b \in Seq(Names) :
           /\ a \o b \in Seq(Names)
           /\ Sorted(a \o b) <=> Sorted(a) /\ Sorted(b) /\ Cross(a, b)
           /\ UpTo(a \o b, n) <=> UpTo(a, n) /\ UpTo(b, n)
      /\ \A a, b, u \in Seq(Names) :
           /\ Cross(a \o b, u) <=> Cross(a, u) /\ Cross(b, u)
           /\ Cross(u, a \o b) <=> Cross(u, a) /\ Cross(u, b)
  BY <1>1, Joined
<1>5. ASSUME Lined(t, e, h, q, w \o o, n) PROVE Lined(t, e, h, q \o w, o, n)
  <2> HIDE DEF w
  <2>1. /\ Sorted(o) /\ Cross(w, o) /\ UpTo(w, n) /\ UpTo(o, n)
        /\ Cross(t, w) /\ Cross(e, w) /\ Cross(h, w) /\ Cross(q, w)
        /\ Cross(t, o) /\ Cross(e, o) /\ Cross(h, o) /\ Cross(q, o)
    BY <1>4, <1>5 DEF Lined
  <2>2. /\ Sorted(q \o w) /\ UpTo(q \o w, n) /\ Cross(q \o w, o)
        /\ Cross(t, q \o w) /\ Cross(e, q \o w) /\ Cross(h, q \o w)
    BY <1>4, <1>5, <2>1 DEF Lined
  <2>3. QED
    BY <1>5, <2>1, <2>2 DEF Lined
<1>6. ASSUME NEW g \in Seq(Names), Lined(t, e, g, w \o q, o, n)
      PROVE  /\ Sorted(q) /\ Cross(w, q) /\ UpTo(w, n) /\ UpTo(q, n)
             /\ Cross(w, o) /\ Cross(q, o)
             /\ Cross(t, w) /\ Cross(e, w) /\ Cross(t, q) /\ Cross(e, q) /\ Cross(g, q)
  <2> HIDE DEF w
  <2>1. QED
    BY <1>4, <1>6 DEF Lined
<1>7. ASSUME Lined(t, e, h, w \o q, o, n) PROVE Lined(t, e, h, q, o, n)
  BY <1>6, <1>7 DEF Lined
<1>8. ASSUME Lined(t, e, <<>>, w \o q, o, n) PROVE Lined(t, e, w, q, o, n)
  <2> HIDE DEF w
  <2>1. QED
    BY <1>2, <1>4, <1>6, <1>8 DEF Lined
<1>10. ASSUME Lined(t, e, w, q, o, n) PROVE Lined(t, e \o w, <<>>, q, o, n)
  <2> HIDE DEF w
  <2>1. /\ Sorted(e \o w) /\ UpTo(e \o w, n) /\ Cross(t, e \o w)
        /\ Cross(e \o w, q) /\ Cross(e \o w, o)
    BY <1>4, <1>10 DEF Lined
  <2>2. /\ Sorted(<<>>) /\ UpTo(<<>>, n) /\ Cross(t, <<>>) /\ Cross(e \o w, <<>>)
        /\ Cross(<<>>, q) /\ Cross(<<>>, o)
    BY <1>3, <1>4
  <2>3. QED
    BY <1>10, <2>1, <2>2 DEF Lined
<1>9. ASSUME Lined(t, <<x>> \o e, h, q, o, n)
      PROVE  /\ Lined(t, e, h, q, o, n)
             /\ x.kind \in Spoke => Lined(t \o <<AsTold(x)>>, e, h, q, o, n)
  <2>1. /\ Sorted(e) /\ Cross(<<x>>, e) /\ UpTo(<<x>>, n) /\ UpTo(e, n)
        /\ Cross(t, <<x>>) /\ Cross(t, e)
        /\ \A u \in {h, q, o} : Cross(<<x>>, u) /\ Cross(e, u)
    BY <1>1, <1>9, Joined DEF Lined
  <2>2. Lined(t, e, h, q, o, n)
    BY <1>9, <2>1, ZenonT(40) DEF Lined
  <2>3. ASSUME x.kind \in Spoke PROVE Lined(t \o <<AsTold(x)>>, e, h, q, o, n)
    <3> DEFINE y == <<AsTold(x)>>
    <3>1. /\ y \in Seq(Names) /\ Sorted(y) /\ UpTo(y, n) /\ Cross(t, y)
          /\ \A u \in {e, h, q, o} : Cross(y, u)
      BY <2>1, <2>3, AsToldInTurn
    <3> HIDE DEF y
    <3>2. /\ Sorted(t \o y) /\ UpTo(t \o y, n) /\ \A u \in {e, h, q, o} : Cross(t \o y, u)
      BY <2>2, <3>1, Joined DEF Lined
    <3>3. Lined(t \o y, e, h, q, o, n)
      BY <2>2, <3>2 DEF Lined
    <3>4. QED
      BY <3>3 DEF y
  <2>4. QED
    BY <2>2, <2>3
<1>11. QED
  BY <1>5, <1>7, <1>8, <1>9, <1>10

(* The line when names without a text come, or the next reply, or the server
   starts anew or cuts an answer short *)
LEMMA Additions ==
  ASSUME NEW t \in Seq(Names), NEW e \in Seq(Names), NEW h \in Seq(Names),
         NEW q \in Seq(Names), NEW o \in Seq(Said), NEW n \in Nat, Lined(t, e, h, q, o, n)
  PROVE  /\ \A reply \in Replies(n + 1) : Lined(t, e, h, q, o \o reply, n + 1)
         /\ Lined(t, e, h, q, Cut(o), n)
         /\ \A m \in Seq(Names) : Mute(m) =>
              /\ Lined(t, e, h, q \o m, o, n) /\ Lined(t, e, h, q, m, n)
              /\ Lined(t, e, h, q, o \o m, n)
<1>1. o \in Seq(Names) /\ n + 1 \in Nat /\ n < n + 1
  BY SaidAreNames
<1>2. \A u \in {t, e, h, q, o} : UpTo(u, n + 1)
  <2>1. ASSUME NEW u \in Seq(Names), UpTo(u, n) PROVE UpTo(u, n + 1)
    <3>1. ASSUME NEW i \in 1 .. Len(u), u[i].kind \in Counted PROVE u[i].answer <= n + 1
      <4>1. u[i] \in Names
        BY ElementOfSeq
      <4>2. u[i].answer \in Nat /\ u[i].answer <= n
        BY <2>1, <3>1, <4>1 DEF UpTo, Names
      <4>3. QED
        BY <4>2
    <3>2. QED
      BY <3>1 DEF UpTo
  <2>2. QED
    BY <1>1, <2>1 DEF Lined
<1>3. ASSUME NEW a \in Replies(n + 1) PROVE Lined(t, e, h, q, o \o a, n + 1)
  <2>1. a \in Seq(Names) /\ Sorted(a) /\ UpTo(a, n + 1)
    BY <1>1, ReplyComesNext
  <2>2. \A u \in {t, e, h, q, o} : Cross(u, a)
    <3>1. \A u \in {t, e, h, q, o} : u \in Seq(Names) /\ UpTo(u, n)
      BY <1>1 DEF Lined
    <3>2. \A u \in Seq(Names) : UpTo(u, n) => Cross(u, a)
      BY <1>1, ReplyComesNext
    <3>3. QED
      BY <3>1, <3>2
  <2>3. /\ Sorted(o \o a) /\ UpTo(o \o a, n + 1)
        /\ \A u \in {t, e, h, q} : Cross(u, o \o a)
    BY <1>1, <1>2, <2>1, <2>2, Joined DEF Lined
  <2>4. QED
    BY <1>2, <2>3 DEF Lined
<1>4. Lined(t, e, h, q, Cut(o), n)
  <2>1. /\ Cut(o) \in Seq(Said) /\ Sorted(Cut(o))
        /\ \A i \in 1 .. Len(Cut(o)) : \E j \in 1 .. Len(o) : Cut(o)[i] = o[j]
    BY CutSorted DEF Lined
  <2>2. UpTo(Cut(o), n)
    BY <2>1 DEF UpTo, Lined
  <2>3. \A u \in {t, e, h, q} : Cross(u, Cut(o))
    <3>1. ASSUME NEW u \in Seq(Names), Cross(u, o) PROVE Cross(u, Cut(o))
      BY <2>1, <3>1 DEF Cross
    <3>2. QED
      BY <3>1 DEF Lined
  <2>4. QED
    BY <2>1, <2>2, <2>3 DEF Lined
<1>5. ASSUME NEW m \in Seq(Names), Mute(m)
      PROVE  /\ Lined(t, e, h, q \o m, o, n) /\ Lined(t, e, h, q, m, n)
             /\ Lined(t, e, h, q, o \o m, n)
  <2>1. /\ Sorted(m) /\ UpTo(m, n)
        /\ \A u \in {t, e, h, q, o} : Cross(m, u) /\ Cross(u, m)
    BY <1>1, <1>5, MuteInTurn
  <2>2. /\ Sorted(q \o m) /\ UpTo(q \o m, n) /\ Cross(q \o m, o)
        /\ \A u \in {t, e, h} : Cross(u, q \o m)
    BY <1>1, <2>1, Joined DEF Lined
  <2>3. /\ Sorted(o \o m) /\ UpTo(o \o m, n)
        /\ \A u \in {t, e, h, q} : Cross(u, o \o m)
    BY <1>1, <1>2, <2>1, Joined DEF Lined
  <2>4. QED
    BY <1>2, <2>1, <2>2, <2>3 DEF Lined
<1>6. QED
  BY <1>3, <1>4, <1>5

-----------------------------------------------------------------------------
ChannelsOK ==
  /\ eventCh \in Seq(Names) /\ InHand \in Seq(Names) /\ Queued \in Seq(Names)
  /\ server.outbox \in Seq(Names) /\ server.outbox \in Seq(Said) /\ asked \in Nat

LEMMA LogOfNames ==
  PumpedInv => /\ log \in Seq(Names) /\ Len(out) \in Nat /\ Len(log) \in Nat
               /\ Len(out) <= Len(log)
BY DEF PumpedInv, Stream!StreamInv, Stream!StreamTypeOK, Stream!InOrder

LEMMA ChannelsOfNames == PumpedInv => ChannelsOK
<1> SUFFICES ASSUME PumpedInv PROVE ChannelsOK
  OBVIOUS
<1>1. /\ log \in Seq(Names) /\ Len(out) \in Nat /\ Len(log) \in Nat /\ Len(out) <= Len(log)
  BY LogOfNames
<1>2. Queued \in Seq(Names)
  <2>1. \A i \in Len(out) + 1 .. Len(log) : log[i] \in Names
    BY <1>1
  <2>2. QED
    BY <1>1, <2>1, SubSeqProperties DEF Queued
<1>3. eventCh \in Seq(Said) /\ hand \in Names /\ server.outbox \in Seq(Said) /\ asked \in Nat
  BY DEF PumpedInv, PumpInv, ServerOK
<1>4. InHand \in Seq(Names)
  BY <1>3 DEF InHand
<1>5. QED
  BY <1>2, <1>3, <1>4, SaidAreNames DEF ChannelsOK

(* What is received is queued behind the rest. *)
LEMMA AppendQueued ==
  ASSUME NEW S, NEW s \in Seq(S), NEW x \in S, NEW m \in 1 .. Len(s) + 1
  PROVE  SubSeq(Append(s, x), m, Len(s) + 1) = SubSeq(s, m, Len(s)) \o <<x>>
<1> DEFINE w == Append(s, x)
           n == Len(s)
<1>1. /\ w \in Seq(S) /\ Len(w) = n + 1 /\ w[n + 1] = x /\ n \in Nat /\ m \in 1 .. n + 1
      /\ \A i \in 1 .. n : w[i] = s[i]
  BY AppendProperties
<1>2. \A i \in 1 .. n : s[i] \in S
  BY ElementOfSeq
<1> HIDE DEF w, n
<1>3. SubSeq(w, m, n + 1) = SubSeq(w, m, n) \o <<x>>
  <2>1. PICK k \in Nat : k = n + 1 /\ k - 1 = n
    BY <1>1
  <2>2. m \in 1 .. Len(w) /\ k \in m .. Len(w)
    BY <1>1, <2>1
  <2>3. SubSeq(w, m, k) = SubSeq(w, m, k - 1) \o <<w[k]>>
    BY <1>1, <2>2, SubSeqRecursiveSecond
  <2>4. QED
    BY <1>1, <2>1, <2>3
<1>4. SubSeq(w, m, n) = SubSeq(s, m, n)
  <2>1. \A i \in m .. n : i \in 1 .. n /\ s[i] \in S /\ w[i] \in S /\ w[i] = s[i]
    <3>1. \A i \in m .. n : i \in 1 .. n
      BY <1>1
    <3>2. QED
      BY <1>1, <1>2, <3>1
  <2>2. /\ SubSeq(w, m, n) \in Seq(S)
        /\ Len(SubSeq(w, m, n)) = IF m <= n THEN n - m + 1 ELSE 0
        /\ \A i \in 1 .. n - m + 1 : SubSeq(w, m, n)[i] = w[m + i - 1]
    BY <1>1, <2>1, SubSeqProperties
  <2>3. /\ SubSeq(s, m, n) \in Seq(S)
        /\ Len(SubSeq(s, m, n)) = IF m <= n THEN n - m + 1 ELSE 0
        /\ \A i \in 1 .. n - m + 1 : SubSeq(s, m, n)[i] = s[m + i - 1]
    BY <1>1, <2>1, SubSeqProperties
  <2>4. ASSUME NEW i \in 1 .. Len(SubSeq(w, m, n))
        PROVE  SubSeq(w, m, n)[i] = SubSeq(s, m, n)[i]
    <3>1. i \in 1 .. n - m + 1 /\ m + i - 1 \in m .. n
      BY <1>1, <2>2
    <3>2. QED
      BY <2>1, <2>2, <2>3, <3>1
  <2>5. QED
    BY <2>2, <2>3, <2>4, SeqEqual
<1>5. QED
  BY <1>3, <1>4 DEF w, n

LEMMA QueuedMore ==
  ASSUME PumpedInv, NEW x \in Names, log' = Append(log, x), out' = out
  PROVE  Queued' = Queued \o <<x>>
<1>1. log \in Seq(Names) /\ Len(out) + 1 \in 1 .. Len(log) + 1
  BY LogOfNames
<1>2. Len(Append(log, x)) = Len(log) + 1
  BY <1>1, AppendProperties
<1>3. SubSeq(Append(log, x), Len(out) + 1, Len(log) + 1)
        = SubSeq(log, Len(out) + 1, Len(log)) \o <<x>>
  BY <1>1, AppendQueued
<1>4. QED
  BY <1>2, <1>3 DEF Queued

(* The pump takes what is queued first. *)
LEMMA QueuedLess ==
  ASSUME PumpedInv, Stream!Deliver
  PROVE  log[Len(out) + 1] \in Names /\ Queued = <<log[Len(out) + 1]>> \o Queued'
<1>1. /\ log \in Seq(Names) /\ Len(out) + 1 \in 1 .. Len(log)
      /\ Len(log) \in Len(out) + 1 .. Len(log)
      /\ out' = Append(out, log[Len(out) + 1]) /\ log' = log
  BY LogOfNames DEF Stream!Deliver
<1>2. log[Len(out) + 1] \in Names
  BY <1>1, ElementOfSeq
<1>3. Len(out') = Len(out) + 1
  BY <1>1, <1>2 DEF PumpedInv, Stream!StreamInv, Stream!StreamTypeOK
<1>4. SubSeq(log, Len(out) + 1, Len(log))
        = <<log[Len(out) + 1]>> \o SubSeq(log, Len(out) + 1 + 1, Len(log))
  BY <1>1, SubSeqRecursiveFirst
<1>5. QED
  BY <1>1, <1>2, <1>3, <1>4 DEF Queued

LEMMA TextInvInit == ExamplesInit => TextInv
<1> SUFFICES ASSUME ExamplesInit PROVE TextInv
  OBVIOUS
<1>1. /\ answers = <<>> /\ acc.text = <<>> /\ acc = NoOutput /\ out = <<>> /\ log = <<>>
      /\ eventCh = <<>> /\ pump = "range" /\ asked = 0
      /\ server.outbox = <<Name("created", 0, 0)>>
  BY DEF ExamplesInit, NoOutput, NewServer, Stream!StreamInit
<1>2. CollectOK
  BY <1>1 DEF CollectOK, AccOK, NoOutput
<1>3. Collected = <<>>
  <2>1. [k \in DOMAIN answers |-> answers[k].text] = <<>>
    BY <1>1
  <2>2. FlattenSeq(<<>>) = <<>>
    BY DEF FlattenSeq
  <2>3. QED
    BY <1>1, <2>1, <2>2 DEF Collected
<1>4. Told(Collected) = <<>> /\ InHand = <<>> /\ Queued = <<>>
  BY <1>1, <1>3 DEF Told, InHand, Queued
<1>5. /\ <<>> \in Seq(Names) /\ Mute(<<>>)
      /\ server.outbox \in Seq(Names) /\ Mute(server.outbox)
  <2>1. Name("created", 0, 0) \in Names /\ Name("created", 0, 0).kind = "created"
    BY NameIsName DEF Handled
  <2>2. QED
    BY <1>1, <2>1 DEF Mute, Counted, Spoke
<1>6. /\ Sorted(<<>>) /\ UpTo(<<>>, 0) /\ Cross(<<>>, <<>>) /\ Sorted(server.outbox)
      /\ UpTo(server.outbox, 0) /\ Cross(<<>>, server.outbox)
  BY <1>5, MuteInTurn
<1>7. QED
  BY <1>1, <1>2, <1>4, <1>6 DEF TextInv, Lined

(* A step that collects nothing and moves names about leaves the text alone. *)
LEMMA NothingTold ==
  ASSUME CollectOK, UNCHANGED <<acc, answers>>
  PROVE  CollectOK' /\ Collected' = Collected /\ Told(Collected)' = Told(Collected)
BY DEF CollectOK, AccOK, Collected, Told

LEMMA TextInvStep ==
  PumpedInv /\ PumpedInv' /\ TextInv /\ [ExamplesNext]_examplesVars => TextInv'
<1> SUFFICES ASSUME PumpedInv, PumpedInv', TextInv, [ExamplesNext]_examplesVars PROVE TextInv'
  OBVIOUS
<1> DEFINE t == Told(Collected)
           e == eventCh
           h == InHand
           q == Queued
           o == server.outbox
           n == asked
<1>1. /\ e \in Seq(Names) /\ h \in Seq(Names) /\ q \in Seq(Names) /\ o \in Seq(Names)
      /\ o \in Seq(Said) /\ n \in Nat
  BY ChannelsOfNames DEF ChannelsOK
<1>2. /\ e' \in Seq(Names) /\ h' \in Seq(Names) /\ q' \in Seq(Names)
      /\ o' \in Seq(Names) /\ o' \in Seq(Said) /\ n' \in Nat
  <2>1. ChannelsOK'
    BY ChannelsOfNames, PTL
  <2>2. QED
    BY <2>1 DEF ChannelsOK
<1>3. CollectOK /\ Lined(t, e, h, q, o, n) /\ Collected \in Seq(Tokens) /\ t \in Seq(Names)
  <2>1. CollectOK /\ Lined(t, e, h, q, o, n)
    BY DEF TextInv
  <2>2. Collected \in Seq(Tokens)
    BY <2>1, CollectedText
  <2>3. QED
    BY <2>1, <2>2, ToldAreNames
<1>4. SUFFICES CollectOK' /\ Lined(t', e', h', q', o', n')
  BY DEF TextInv
<1>5. UNCHANGED <<acc, answers>> => CollectOK' /\ t' = t
  BY <1>3, NothingTold
<1> HIDE DEF t
<1>6. CASE Arrive
  <2>1. /\ UNCHANGED <<acc, answers, eventCh, pump, hand, asked>> /\ server.outbox # <<>>
        /\ log' = Append(log, Head(o)) /\ out' = out /\ o' = Tail(o)
    BY <1>6 DEF Arrive, Stream!Receive, pumpVars, mainVars, PumpedInv, ServerOK, requestVars
  <2>2. Head(o) \in Names /\ o = <<Head(o)>> \o o' /\ e' = e /\ h' = h /\ n' = n
    BY <1>1, <2>1, HeadThenTail DEF InHand
  <2>3. q' = q \o <<Head(o)>>
    BY <2>1, <2>2, QueuedMore
  <2>4. Lined(t, e, h, q \o <<Head(o)>>, o', n)
    <3>1. PICK x \in Names, rest \in Seq(Names) : x = Head(o) /\ rest = o' /\ o = <<x>> \o rest
      BY <1>2, <2>2
    <3>2. Lined(t, e, h, q, <<x>> \o rest, n)
      BY <1>3, <3>1
    <3> HIDE DEF e, h, q, o, n
    <3>3. Lined(t, e, h, q \o <<x>>, rest, n)
      BY <1>1, <1>3, <3>2, Moves
    <3>4. QED
      BY <3>1, <3>3
  <2>5. QED
    BY <1>5, <2>1, <2>2, <2>3, <2>4
<1>7. CASE StreamFails
  <2>1. /\ UNCHANGED <<acc, answers, eventCh, pump, hand, server, asked>>
        /\ log' = Append(log, StreamError) /\ out' = out
    BY <1>7 DEF StreamFails, Stream!Receive, pumpVars, mainVars, serverVars, requestVars
  <2>2. e' = e /\ h' = h /\ o' = o /\ n' = n
    BY <2>1 DEF InHand
  <2>3. q' = q \o <<StreamError>>
    BY <2>1, QueuedMore, ErrorIsName
  <2>4. <<StreamError>> \in Seq(Names) /\ Mute(<<StreamError>>)
    BY ErrorIsName DEF Mute, Counted, Spoke
  <2>5. Lined(t, e, h, q \o <<StreamError>>, o, n)
    <3> HIDE DEF e, h, q, o, n
    <3>1. QED
      BY <1>1, <1>3, <2>4, Additions
  <2>6. QED
    BY <1>5, <2>1, <2>2, <2>3, <2>5
<1>8. CASE Reconnect
  <2>1. /\ UNCHANGED <<acc, answers, eventCh, pump, hand, asked, log, out>>
        /\ o' = <<Name("created", 0, 0)>>
    BY <1>8 DEF Reconnect, pumpVars, streamVars, NewServer, requestVars
  <2>2. e' = e /\ h' = h /\ q' = q /\ n' = n
    BY <2>1 DEF InHand, Queued
  <2>3. <<Name("created", 0, 0)>> \in Seq(Names) /\ Mute(<<Name("created", 0, 0)>>)
    BY NameIsName DEF Mute, Counted, Spoke, Handled
  <2>4. Lined(t, e, h, q, <<Name("created", 0, 0)>>, n)
    <3>1. \A m \in Seq(Names) : Mute(m) => Lined(t, e, h, q, m, n)
      <4> HIDE DEF e, h, q, o, n
      <4>1. QED
        BY <1>1, <1>3, Additions
    <3>2. QED
      BY <2>3, <3>1
  <2>5. QED
    BY <1>5, <2>1, <2>2, <2>4
<1>9. CASE Pump
  <2>1. UNCHANGED <<acc, answers, asked, server>> /\ o' = o /\ n' = n
    BY <1>9 DEF Pump, mainVars, serverVars, requestVars
  <2>2. CASE PumpTakes
    <3> DEFINE x == log[Len(out) + 1]
    <3>1. /\ pump = "range" /\ Stream!Deliver /\ hand' = x /\ UNCHANGED eventCh
          /\ pump' = IF x = StreamError THEN "error" ELSE "event"
      BY <2>2 DEF PumpTakes
    <3>2. x \in Names /\ q = <<x>> \o q'
      BY <3>1, QueuedLess
    <3>3. h = <<>> /\ e' = e /\ h' \in {<<>>, <<x>>}
      BY <3>1 DEF InHand
    <3> HIDE DEF x
    <3>4. Lined(t, e, h', q', o, n)
      <4>1. PICK rest \in Seq(Names) : rest = q' /\ q = <<x>> \o rest
        BY <1>2, <3>2
      <4>2. Lined(t, e, <<>>, <<x>> \o rest, o, n) /\ <<>> \in Seq(Names)
        BY <1>3, <3>3, <4>1
      <4> HIDE DEF e, h, q, o, n
      <4>3. Lined(t, e, <<>>, rest, o, n) /\ Lined(t, e, <<x>>, rest, o, n)
        BY <1>1, <1>3, <3>2, <4>2, Moves
      <4>4. QED
        BY <3>3, <4>1, <4>3
    <3>5. QED
      BY <1>5, <2>1, <3>3, <3>4
  <2>3. CASE PumpPushes
    <3>1. /\ pump = "event" /\ pump' = "range" /\ eventCh' = Append(eventCh, hand)
          /\ UNCHANGED <<log, out, hand>> /\ hand \in Names
      BY <2>3 DEF PumpPushes, streamVars, PumpedInv, PumpInv
    <3>2. h = <<hand>> /\ h' = <<>> /\ q' = q /\ e' = e \o <<hand>>
      BY <1>1, <3>1, AppendIsConcat DEF InHand, Queued
    <3>3. Lined(t, e \o <<hand>>, <<>>, q, o, n)
      <4>1. Lined(t, e, <<hand>>, q, o, n)
        BY <1>3, <3>2
      <4> HIDE DEF e, h, q, o, n
      <4>2. QED
        BY <1>1, <1>3, <3>1, <4>1, Moves
    <3>4. QED
      BY <1>5, <2>1, <3>2, <3>3
  <2>4. CASE PumpEnds \/ PumpFails \/ PumpCloses
    <3>1. /\ UNCHANGED <<log, out, hand, eventCh>> /\ pump # "event" /\ pump' # "event"
      BY <2>4 DEF PumpEnds, PumpFails, PumpCloses, Stream!End, streamVars
    <3>2. e' = e /\ h' = h /\ q' = q
      BY <3>1 DEF InHand, Queued
    <3>3. QED
      BY <1>3, <1>5, <2>1, <3>2
  <2>5. QED
    BY <1>9, <2>2, <2>3, <2>4 DEF Pump
<1>10. CASE SendReturns \/ SendBreaksOff
  <2>1. /\ UNCHANGED <<acc, answers, log, out, pump, hand, eventCh>>
        /\ (\E request : Handle(request)) \/ UNCHANGED serverVars
    BY <1>10 DEF SendReturns, SendSucceeds, SendFails, SendBreaksOff, SendBreaks, streamVars,
                 pumpVars
  <2>2. e' = e /\ h' = h /\ q' = q
    BY <2>1 DEF InHand, Queued
  <2>3. Lined(t, e, h, q, o', n')
    <3>1. CASE \E request : Handle(request)
      <4>1. Outbox(server'.outbox)
        BY <3>1, Requests DEF PumpedInv
      <4>2. \A note \in Notes : note \in Seq(Names) /\ Mute(note)
        BY NotesAreMute
      <4>3. /\ \/ n' = n /\ (o' = o \/ o' = Cut(o) \/ \E note \in Notes : o' = o \o note)
               \/ n' = n + 1 /\ \E reply \in Replies(n + 1) : o' = o \o reply
        BY <4>1 DEF Outbox
      <4>4. /\ \A reply \in Replies(n + 1) : Lined(t, e, h, q, o \o reply, n + 1)
            /\ Lined(t, e, h, q, Cut(o), n)
            /\ \A m \in Seq(Names) : Mute(m) => Lined(t, e, h, q, o \o m, n)
        <5> HIDE DEF e, h, q, o, n
        <5>1. QED
          BY <1>1, <1>3, Additions
      <4> HIDE DEF e, h, q, o, n
      <4>5. QED
        BY <1>3, <4>2, <4>3, <4>4
    <3>2. CASE UNCHANGED serverVars
      BY <1>3, <3>2 DEF serverVars, requestVars
    <3>3. QED
      BY <2>1, <3>1, <3>2
  <2>4. QED
    BY <1>5, <2>1, <2>2, <2>3
<1>11. CASE Select \/ Timer
  <2>1. UNCHANGED <<log, out, pump, hand, server, asked>>
    BY <1>11 DEF Select, Timer, Selected, streamVars, serverVars, requestVars
  <2>2. h' = h /\ q' = q /\ o' = o /\ n' = n
    BY <2>1 DEF InHand, Queued
  <2>3. ASSUME AccOK', Collects(<<>>)
        PROVE  CollectOK' /\ t' = t
    <3>1. <<>> \in Seq(Tokens)
      OBVIOUS
    <3>2. CollectOK' /\ Collected' = Collected \o <<>>
      BY <1>3, <2>3, <3>1, CollectsText
    <3>3. Collected' = Collected
      BY <1>3, <3>2, ConcatEmptySeq
    <3>4. QED
      BY <3>2, <3>3 DEF t, Told
  <2>4. CASE SelectEvent
    <3> DEFINE x == Head(e)
    <3>1. e # <<>> /\ e' = Tail(e)
      BY <2>4 DEF SelectEvent
    <3>2. x \in Said /\ x \in Names /\ e = <<x>> \o e'
      <4>1. e \in Seq(Said)
        BY DEF PumpedInv, PumpInv
      <4>2. QED
        BY <3>1, <4>1, HeadThenTail, SaidAreNames
    <3>3. /\ Lined(t, e', h, q, o, n)
          /\ x.kind \in Spoke => Lined(t \o <<AsTold(x)>>, e', h, q, o, n)
      <4>1. PICK rest \in Seq(Names) : rest = e' /\ e = <<x>> \o rest
        BY <1>2, <3>2
      <4>2. Lined(t, <<x>> \o rest, h, q, o, n)
        BY <1>3, <4>1
      <4> HIDE DEF e, h, q, o, n, x
      <4>3. /\ Lined(t, rest, h, q, o, n)
            /\ x.kind \in Spoke => Lined(t \o <<AsTold(x)>>, rest, h, q, o, n)
        BY <1>1, <1>3, <3>2, <4>2, Moves
      <4>4. QED
        BY <4>1, <4>3
    <3>4. CASE Here.do = "collect"
      <4>1. CollectEvent(Event(Payload(x)))
        BY <2>4, <3>4 DEF SelectEvent
      <4> HIDE DEF x
      <4>2. PICK d \in {<<>>, Token(x)} :
              AccOK' /\ Collects(d) /\ (d # <<>> => x.kind \in Spoke)
        BY <1>3, <3>2, <4>1, SelectsText
      <4>3. CASE d = <<>>
        BY <2>2, <2>3, <3>3, <4>2, <4>3
      <4>4. CASE d # <<>>
        <5>1. Token(x) \in Seq(Tokens) /\ Collects(Token(x)) /\ AccOK'
          BY <3>2, <4>2, <4>4, TokenIsText
        <5>2. CollectOK' /\ Collected' = Collected \o Token(x)
          BY <1>3, <5>1, CollectsText
        <5>3. t' = t \o <<AsTold(x)>>
          <6>1. t' = Told(Collected')
            BY DEF t, Told
          <6>2. Told(Collected \o Token(x)) = t \o <<AsTold(x)>>
            BY <1>3, <3>2, ToldMore DEF t
          <6>3. QED
            BY <5>2, <6>1, <6>2
        <5>4. QED
          BY <2>2, <3>3, <4>2, <4>4, <5>2, <5>3
      <4>5. QED
        BY <4>3, <4>4
    <3>5. CASE Here.do # "collect"
      <4>1. UNCHANGED <<acc, answers>>
        BY <2>4, <3>5 DEF SelectEvent, WaitEvent
      <4>2. QED
        BY <1>5, <2>2, <3>3, <4>1
    <3>6. QED
      BY <3>4, <3>5
  <2>5. CASE SelectError \/ SelectClosed \/ SelectTimer
    <3>1. e' = e
      BY <2>5 DEF SelectError, SelectClosed, SelectTimer
    <3>2. AccOK' /\ Collects(<<>>)
      <4>1. (\E how, err : Return(acc, how, err)) \/ UNCHANGED <<acc, answers>>
        BY <2>5 DEF SelectError, SelectClosed, SelectTimer, GiveUp
      <4>2. <<>> \in Seq(Tokens) /\ acc.text \o <<>> = acc.text
        BY <1>3, CollectsNothing
      <4>3. QED
        BY <1>3, <4>1, <4>2, Returns, CollectsNothing
    <3>3. QED
      BY <1>3, <2>2, <2>3, <3>1, <3>2
  <2>6. QED
    BY <1>11, <2>4, <2>5 DEF Select, Timer
<1>12. CASE CloseSession
  <2>1. UNCHANGED <<acc, answers, eventCh, pump, hand, server, asked, log, out>>
    BY <1>12 DEF CloseSession, Stream!Close, pumpVars, serverVars, requestVars
  <2>2. e' = e /\ h' = h /\ q' = q /\ o' = o /\ n' = n
    BY <2>1 DEF InHand, Queued
  <2>3. QED
    BY <1>3, <1>5, <2>1, <2>2
<1>13. CASE UNCHANGED examplesVars
  <2>1. UNCHANGED <<acc, answers, eventCh, pump, hand, server, asked, log, out>>
    BY <1>13 DEF examplesVars, mainVars, pumpVars, serverVars, streamVars, requestVars
  <2>2. e' = e /\ h' = h /\ q' = q /\ o' = o /\ n' = n
    BY <2>1 DEF InHand, Queued
  <2>3. QED
    BY <1>3, <1>5, <2>1, <2>2
<1>14. QED
  BY <1>6, <1>7, <1>8, <1>9, <1>10, <1>11, <1>12, <1>13 DEF ExamplesNext, Main, Over

(* collectTextResponse and collectAudioResponse: in any application, whatever
   timers, reconnects, cancelled and late answers do, no text is collected
   twice or out of order.  The texts collected, in eventCh, in the pump's
   hand, in the session's channel and at the server always stand in line. *)
THEOREM TextCollectedInOrder == ExamplesSpec => []TextInOrder
<1>1. ExamplesInit => PumpedInv /\ TextInv
  BY PumpedInvInit, TextInvInit
<1>2. PumpedInv /\ TextInv /\ [ExamplesNext]_examplesVars => (PumpedInv /\ TextInv)'
  <2>1. PumpedInv /\ [ExamplesNext]_examplesVars => PumpedInv'
    BY PumpedInvStep
  <2>2. QED
    BY <2>1, TextInvStep
<1>3. TextInv => TextInOrder
  <2> SUFFICES ASSUME TextInv PROVE TextInOrder
    OBVIOUS
  <2> DEFINE text == Collected
  <2>1. text \in Seq(Tokens) /\ Sorted(Told(text))
    BY CollectedText DEF TextInv, Lined
  <2>2. /\ Len(Told(text)) = Len(text) /\ DOMAIN text = 1 .. Len(text)
        /\ \A i \in 1 .. Len(text) :
             /\ Told(text)[i].kind = "text"
             /\ text[i].data[1] = Told(text)[i].answer /\ text[i].data[2] = Told(text)[i].part
    <3> HIDE DEF text
    <3>1. QED
      BY <2>1, ToldAreNames
  <2>3. ASSUME NEW i \in DOMAIN text, NEW j \in DOMAIN text, i < j
        PROVE  \/ text[i].data[1] < text[j].data[1]
               \/ text[i].data[1] = text[j].data[1] /\ text[i].data[2] < text[j].data[2]
    <3> HIDE DEF text
    <3>1. Earlier(Told(text)[i], Told(text)[j])
      BY <2>1, <2>2, <2>3 DEF Sorted, InTurn, Counted, Spoke
    <3>2. Told(text)[i] \in Names /\ Told(text)[j] \in Names
      BY <2>1, <2>2, ToldAreNames, ElementOfSeq
    <3>3. Told(text)[i].part \in Nat /\ Told(text)[j].part \in Nat
      BY <3>2 DEF Names
    <3>4. QED
      BY <2>2, <2>3, <3>1, <3>3 DEF Earlier, Place
  <2>4. QED
    BY <2>3 DEF TextInOrder, Collected
<1>4. QED
  BY <1>1, <1>2, <1>3, PTL DEF ExamplesSpec

-----------------------------------------------------------------------------
(* What the mains are made of *)
Fails == {"ignore", "leave", "close", "fatal"}

Sendable ==
  {SessionUpdateEvent(c) : c \in Configs}
  \cup {InputAudioAppendEvent(Base64(b)) : b \in Seq(Nat) \ {<<>>}}
  \cup {CreateResponse(Nil), Instruct, Rewritten}
  \cup {InputAudioCommitEvent, InputAudioClearEvent, ResponseCancelEvent, SessionFinishEvent,
        InputImageAppendEvent(Base64(<<0>>)), InputTextAppendEvent(Text(0))}

Steps ==
  {Send(a, fail) : a \in Sendable, fail \in Fails}
  \cup {Wait(type, fail) : type \in {"session.created", "session.updated"}, fail \in Fails}
  \cup {Collect(fail) : fail \in Fails} \cup {Close}

Bodies == Seq(Steps) \ {<<>>}

LEMMA StepIsStep ==
  /\ \A a \in Sendable, fail \in Fails :
       /\ Send(a, fail) \in Steps
       /\ Send(a, fail).do = "send" /\ Send(a, fail).arg = a /\ Send(a, fail).fail = fail
  /\ \A type \in {"session.created", "session.updated"}, fail \in Fails :
       Wait(type, fail) \in Steps /\ Wait(type, fail).do = "wait" /\ Wait(type, fail).fail = fail
  /\ \A fail \in Fails :
       Collect(fail) \in Steps /\ Collect(fail).do = "collect" /\ Collect(fail).fail = fail
  /\ Close \in Steps /\ Close.do = "close"
  /\ \A s \in Steps : /\ s.do \in {"send", "wait", "collect", "close"}
                      /\ s.fail \in Fails
                      /\ s.do = "send" => s.arg \in Sendable
<1>1. \A a, fail : /\ Send(a, fail).do = "send" /\ Send(a, fail).arg = a
                   /\ Send(a, fail).fail = fail
                   /\ Wait(a, fail).do = "wait" /\ Wait(a, fail).fail = fail
                   /\ Collect(fail).do = "collect" /\ Collect(fail).fail = fail
  BY DEF Send, Wait, Collect, Step
<1>2. Close.do = "close" /\ Close.fail \in Fails
  BY DEF Close, Step, Fails
<1>3. QED
  BY <1>1, <1>2 DEF Steps

LEMMA Types ==
  /\ \A c : SessionUpdateEvent(c).type = "session.update" /\ SessionUpdateEvent(c).session = c
  /\ \A b : InputAudioAppendEvent(b).type = "input_audio_buffer.append"
            /\ InputAudioAppendEvent(b).audio = b
  /\ CreateResponse(Nil).type = "response.create" /\ Instruct.type = "response.create"
  /\ Rewritten.type = "response.create"
  /\ \A x \in {InputAudioCommitEvent, InputAudioClearEvent, ResponseCancelEvent,
               SessionFinishEvent, InputImageAppendEvent(Base64(<<0>>)),
               InputTextAppendEvent(Text(0))} :
       x.type \notin {"session.update", "input_audio_buffer.append", "response.create"}
<1>1. \A p : ResponseCreateEvent(p).type = "response.create"
  BY DEF ResponseCreateEvent
<1>2. CreateResponse(Nil).type = "response.create" /\ Rewritten.type = "response.create"
  BY <1>1 DEF CreateResponse, Rewritten
<1>3. Instruct.type = "response.create"
  <2> DEFINE options == [messages |-> <<>>, instructions |-> Text(0)]
  <2>1. ~ \E i \in DOMAIN options.messages : options.messages[i] = <<>>
    OBVIOUS
  <2>2. Instruct = CreateResponse(options)
    BY DEF Instruct
  <2> HIDE DEF options
  <2>3. QED
    BY <1>1, <2>1, <2>2 DEF CreateResponse
<1>4. QED
  BY <1>2, <1>3
     DEF SessionUpdateEvent, InputAudioAppendEvent, InputAudioCommitEvent, InputAudioClearEvent,
         ResponseCancelEvent, SessionFinishEvent, InputImageAppendEvent, InputTextAppendEvent

LEMMA UpdatesHaveConfigs ==
  ASSUME NEW a \in Sendable, a.type = "session.update"
  PROVE  a.session \in Configs /\ a.session # Nil
BY ExamplesAssumption, Types DEF Sendable

(* No chunk is empty. *)
LEMMA ChunksOfBytes ==
  ASSUME NEW bytes \in Seq(Nat)
  PROVE  /\ Chunks(bytes) \in Seq(Seq(Nat) \ {<<>>})
         /\ DOMAIN Chunks(bytes) = 1 .. (Len(bytes) + ChunkSize - 1) \div ChunkSize
<1> DEFINE size == ChunkSize
           len == Len(bytes)
           count == (len + size - 1) \div size
<1>1. size \in Nat \ {0} /\ len \in Nat
  BY ExamplesAssumption
<1> HIDE DEF size, len
<1>2. count \in Nat /\ count * size <= len + size - 1
  BY <1>1
<1>3. ASSUME NEW k \in 1 .. count
      PROVE  SubSeq(bytes, (k - 1) * size + 1, Min({k * size, len})) \in Seq(Nat) \ {<<>>}
  <2>1. k * size <= count * size
    BY <1>1, <1>2
  <2>2. (k - 1) * size = k * size - size /\ (k - 1) * size >= 0 /\ k * size \in Nat
    BY <1>1, <1>2
  <2> DEFINE first == (k - 1) * size + 1
             last == Min({k * size, len})
  <2>3. /\ first \in Nat \ {0} /\ first <= len /\ first <= k * size
    BY <1>1, <1>2, <2>1, <2>2
  <2>4. last \in {k * size, len} /\ last <= k * size /\ last <= len
    <3>1. \E x \in {k * size, len} : \A y \in {k * size, len} : x <= y
      BY <1>1, <2>2
    <3>2. QED
      BY <3>1 DEF Min
  <2> HIDE DEF first, last
  <2>5. first <= last /\ last \in Nat /\ last <= len
    BY <1>1, <2>2, <2>3, <2>4
  <2>6. \A i \in first .. last : bytes[i] \in Nat
    BY <2>3, <2>5, ElementOfSeq DEF len
  <2>7. /\ SubSeq(bytes, first, last) \in Seq(Nat)
        /\ Len(SubSeq(bytes, first, last)) = last - first + 1
    BY <2>3, <2>5, <2>6, SubSeqProperties
  <2>8. SubSeq(bytes, first, last) # <<>>
    <3>1. last - first + 1 # 0
      BY <2>3, <2>5
    <3> DEFINE sub == SubSeq(bytes, first, last)
    <3>2. Len(sub) # 0
      BY <2>7, <3>1
    <3> HIDE DEF sub
    <3>3. sub # <<>>
      BY <3>2
    <3>4. QED
      BY <3>3 DEF sub
  <2>9. QED
    BY <2>7, <2>8 DEF first, last
<1>4. Chunks(bytes) = [k \in 1 .. count |-> SubSeq(bytes, (k - 1) * size + 1, Min({k * size, len}))]
  BY DEF Chunks, size, len
<1> HIDE DEF count
<1>5. Chunks(bytes) \in [1 .. count -> Seq(Nat) \ {<<>>}]
  BY <1>3, <1>4
<1>6. QED
  BY <1>2, <1>5, SeqDef DEF count, size, len

LEMMA ArgsAreSendable ==
  /\ \A c \in Configs : UpdateSession(c) \in Sendable
  /\ {InputAudioCommitEvent, InputAudioClearEvent, ResponseCancelEvent, SessionFinishEvent,
      CreateResponse(Nil), Instruct, Rewritten, AppendImage(<<0>>), AppendText(Text(0))}
       \subseteq Sendable
  /\ \A b \in Seq(Nat) \ {<<>>} :
       AppendAudioBase64(Base64(b)) \in Sendable /\ AppendAudio(b) \in Sendable
<1>1. \A c \in Configs : UpdateSession(c) \in Sendable
  BY ExamplesAssumption DEF UpdateSession, Sendable
<1>2. AppendImage(<<0>>) = InputImageAppendEvent(Base64(<<0>>))
  <2>1. <<0>> # <<>>
    OBVIOUS
  <2>2. QED
    BY <2>1 DEF AppendImage
<1>3. AppendText(Text(0)) = InputTextAppendEvent(Text(0))
  <2>1. Text(0) # <<>>
    BY DEF Text
  <2>2. QED
    BY <2>1 DEF AppendText
<1>4. ASSUME NEW b \in Seq(Nat) \ {<<>>}
      PROVE  /\ AppendAudioBase64(Base64(b)) = InputAudioAppendEvent(Base64(b))
             /\ AppendAudio(b) = InputAudioAppendEvent(Base64(b))
  <2>1. Base64(b) # <<>>
    BY DEF Base64
  <2>2. QED
    BY <2>1 DEF AppendAudioBase64, AppendAudio
<1>5. QED
  BY <1>1, <1>2, <1>3, <1>4 DEF Sendable

LEMMA ConnectAndFinish ==
  /\ \A c \in Configs : Connect(c) \in Bodies
  /\ Finish \in Bodies
<1>1. ASSUME NEW c \in Configs PROVE Connect(c) \in Bodies
  <2>1. /\ Wait("session.created", "close") \in Steps /\ Wait("session.updated", "ignore") \in Steps
        /\ Send(UpdateSession(c), "close") \in Steps
    BY ArgsAreSendable, StepIsStep DEF Fails
  <2>2. QED
    BY <2>1 DEF Connect, Bodies
<1>2. Finish \in Bodies
  <2>1. Send(SessionFinishEvent, "ignore") \in Steps /\ Close \in Steps
    BY ArgsAreSendable, StepIsStep DEF Fails
  <2>2. QED
    BY <2>1 DEF Finish, Bodies
<1>3. QED
  BY <1>1, <1>2

LEMMA BodiesJoin ==
  /\ \A s, t \in Seq(Steps) : s \o t \in Seq(Steps)
  /\ \A s \in Seq(Steps), t \in Bodies : s \o t \in Bodies /\ t \o s \in Bodies
  /\ \A s, t \in Seq(Bodies) : s \o t \in Seq(Bodies)
  /\ \A flag : \A body \in Bodies : Optional(flag, body) \in Seq(Bodies)
  /\ \A flag : \A steps \in Seq(Steps) : Asked(flag, steps) \in Seq(Steps)
<1>1. \A s, t \in Seq(Steps) : s \o t \in Seq(Steps)
  BY ConcatProperties
<1>2. ASSUME NEW s \in Seq(Steps), NEW t \in Bodies
      PROVE  s \o t \in Bodies /\ t \o s \in Bodies
  <2>1. t \in Seq(Steps) /\ t # <<>>
    BY DEF Bodies
  <2>2. s \o t # <<>> /\ t \o s # <<>>
    BY <2>1, ConcatEqualIffEmpty
  <2>3. QED
    BY <1>1, <2>1, <2>2 DEF Bodies
<1>3. \A s, t \in Seq(Bodies) : s \o t \in Seq(Bodies)
  BY ConcatProperties
<1>4. \A flag : \A body \in Bodies : Optional(flag, body) \in Seq(Bodies)
  BY DEF Optional, Asked
<1>5. \A flag : \A steps \in Seq(Steps) : Asked(flag, steps) \in Seq(Steps)
  BY DEF Asked
<1>6. QED
  BY <1>1, <1>2, <1>3, <1>4, <1>5

(* What a probe sends of the file first, if the file is long enough *)
Long == Len(Audio) >= FrameSize
Opening == SubSeq(Audio, 1, IF Long THEN FrameSize ELSE 0)
OpeningStep == Send(InputAudioAppendEvent(Base64(Opening)), "ignore")

LEMMA OpeningIsBytes ==
  /\ Opening \in Seq(Nat)
  /\ Long => Frame = <<OpeningStep>> /\ OpeningStep \in Steps
<1>1. Audio \in Seq(Nat) /\ Len(Audio) \in Nat /\ FrameSize \in Nat \ {0}
  BY ExamplesAssumption
<1>2. CASE ~Long
  <2>1. Opening = <<>>
    BY <1>2, SubSeqEmpty DEF Opening
  <2>2. QED
    BY <1>2, <2>1
<1>3. CASE Long
  <2> DEFINE n == FrameSize
             frame == SubSeq(Audio, 1, n)
  <2>1. \A i \in 1 .. n : Audio[i] \in Nat
    BY <1>1, <1>3, ElementOfSeq DEF Long
  <2>2. frame \in Seq(Nat) /\ Len(frame) = n
    BY <1>1, <2>1, SubSeqProperties
  <2> HIDE DEF frame
  <2>3. frame # <<>>
    BY <1>1, <2>2
  <2>4. AppendAudioBase64(Base64(frame)) = InputAudioAppendEvent(Base64(frame))
    BY DEF AppendAudioBase64, Base64
  <2>5. Send(AppendAudioBase64(Base64(frame)), "ignore") \in Steps
    BY <2>2, <2>3, ArgsAreSendable, StepIsStep DEF Fails
  <2>6. Opening = frame
    BY <1>3 DEF Opening, frame
  <2>7. Frame = <<OpeningStep>> /\ OpeningStep \in Steps
    BY <2>4, <2>5, <2>6 DEF Frame, OpeningStep, frame
  <2>8. QED
    BY <2>2, <2>3, <2>6, <2>7
<1>4. QED
  BY <1>2, <1>3

LEMMA Probes ==
  /\ ProbeCancelPath \in Bodies /\ ProbeHistoryRewrite \in Bodies /\ TextRound \in Bodies
  /\ \A c \in Configs : ApplyProSettings(c) \in Bodies
  /\ ApiMethodProbe \in Bodies
  /\ << Send(AppendText(Text(0)), "leave"), Send(CreateResponse(Nil), "leave"),
        Collect("leave") >> \in Bodies
<1>1. /\ Send(Instruct, "leave") \in Steps /\ Send(Instruct, "fatal") \in Steps
      /\ Send(Rewritten, "leave") \in Steps /\ Send(CreateResponse(Nil), "leave") \in Steps
      /\ Send(ResponseCancelEvent, "leave") \in Steps
      /\ Send(ResponseCancelEvent, "ignore") \in Steps
      /\ Send(InputAudioCommitEvent, "leave") \in Steps
      /\ Send(InputAudioClearEvent, "ignore") \in Steps
      /\ Send(AppendText(Text(0)), "leave") \in Steps
      /\ Send(AppendImage(<<0>>), "ignore") \in Steps
      /\ Collect("ignore") \in Steps /\ Collect("leave") \in Steps /\ Collect("fatal") \in Steps
      /\ Wait("session.updated", "ignore") \in Steps
      /\ \A c \in Configs : Send(UpdateSession(c), "leave") \in Steps
  BY ArgsAreSendable, StepIsStep DEF Fails
<1>2. ProbeCancelPath \in Bodies /\ ProbeHistoryRewrite \in Bodies /\ TextRound \in Bodies
  BY <1>1 DEF ProbeCancelPath, ProbeHistoryRewrite, TextRound, Bodies
<1>3. \A c \in Configs : ApplyProSettings(c) \in Bodies
  BY <1>1 DEF ApplyProSettings, Bodies
<1>4. << Send(AppendText(Text(0)), "leave"), Send(CreateResponse(Nil), "leave"),
         Collect("leave") >> \in Bodies
  BY <1>1 DEF Bodies
<1>5. ApiMethodProbe \in Bodies
  <2> DEFINE first == IF Len(Audio) >= FrameSize THEN Frame ELSE <<>>
             image == Asked("image", << Send(AppendImage(<<0>>), "ignore") >>)
             create == << Send(InputAudioCommitEvent, "leave"), Send(CreateResponse(Nil), "leave") >>
             cancel == Asked("cancel", << Send(ResponseCancelEvent, "ignore") >>)
             last == << Collect("ignore"), Send(InputAudioClearEvent, "ignore") >>
  <2>1. first \in Seq(Steps)
    <3>1. first = <<>> \/ (first = <<OpeningStep>> /\ OpeningStep \in Steps)
      BY OpeningIsBytes DEF Long
    <3>2. <<>> \in Seq(Steps) /\ (OpeningStep \in Steps => <<OpeningStep>> \in Seq(Steps))
      OBVIOUS
    <3> HIDE DEF first
    <3>3. QED
      BY <3>1, <3>2, Zenon
  <2>2. /\ image \in Seq(Steps) /\ create \in Bodies /\ cancel \in Seq(Steps)
        /\ last \in Seq(Steps)
    <3>1. /\ << Send(AppendImage(<<0>>), "ignore") >> \in Seq(Steps)
          /\ << Send(ResponseCancelEvent, "ignore") >> \in Seq(Steps)
      BY <1>1
    <3>2. create \in Bodies /\ last \in Seq(Steps)
      BY <1>1 DEF Bodies
    <3>3. QED
      BY <3>1, <3>2, BodiesJoin
  <2>3. ApiMethodProbe = (((first \o image) \o create) \o cancel) \o last
    BY DEF ApiMethodProbe
  <2> HIDE DEF first, image, create, cancel, last
  <2>4. first \o image \in Seq(Steps)
    BY <2>1, <2>2, BodiesJoin
  <2>5. (first \o image) \o create \in Bodies
    BY <2>2, <2>4, BodiesJoin
  <2>6. ((first \o image) \o create) \o cancel \in Bodies
    BY <2>2, <2>5, BodiesJoin
  <2>7. QED
    BY <2>2, <2>3, <2>6, BodiesJoin
<1>6. QED
  BY <1>2, <1>3, <1>4, <1>5

(* The functions that fill the buffer and the one that empties it, the probe
   that does both, and those that do neither *)
Clearing == << Send(InputAudioClearEvent, "fatal") >>
Request ==
  << Send(InputAudioCommitEvent, "fatal"), Send(CreateResponse(Nil), "fatal"), Collect("fatal") >>
Asking == SendAudioInChunks(Audio) \o Request

Buffering ==
  {"input_audio_buffer.append", "input_audio_buffer.clear", "input_audio_buffer.commit"}
Quiet(body) == \A i \in 1 .. Len(body) : body[i].do = "send" => body[i].arg.type \notin Buffering

Count == (Len(Audio) + ChunkSize - 1) \div ChunkSize

LEMMA AudioIsBytes ==
  /\ Audio \in Seq(Nat) /\ Audio # <<>> /\ Len(Audio) \in Nat \ {0} /\ ChunkSize \in Nat \ {0}
  /\ Count \in Nat \ {0}
  /\ Chunks(Audio) \in Seq(Seq(Nat) \ {<<>>}) /\ DOMAIN Chunks(Audio) = 1 .. Count
<1>1. Audio \in Seq(Nat) /\ Audio # <<>> /\ ChunkSize \in Nat \ {0}
  BY ExamplesAssumption
<1>2. Len(Audio) \in Nat \ {0}
  BY <1>1, EmptySeq
<1>3. Chunks(Audio) \in Seq(Seq(Nat) \ {<<>>}) /\ DOMAIN Chunks(Audio) = 1 .. Count
  BY <1>1, ChunksOfBytes DEF Count
<1>4. Count \in Nat \ {0}
  <2> DEFINE len == Len(Audio)
  <2>1. len \in Nat \ {0}
    BY <1>2
  <2> HIDE DEF len
  <2>2. (len + ChunkSize - 1) \div ChunkSize \in Nat \ {0}
    BY <1>1, <2>1
  <2>3. QED
    BY <2>2 DEF Count, len
<1>5. QED
  BY <1>1, <1>2, <1>3, <1>4

(* How the file is sent *)
LEMMA FileSteps ==
  /\ SendAudioInChunks(Audio) \in Seq(Steps) /\ Len(SendAudioInChunks(Audio)) = Count
  /\ \A k \in 1 .. Count :
       SendAudioInChunks(Audio)[k] = Send(InputAudioAppendEvent(Base64(Chunks(Audio)[k])), "fatal")
<1> DEFINE chunks == Chunks(Audio)
           Arg(k) == IF k = 1 THEN AppendAudioBase64(Base64(chunks[k])) ELSE AppendAudio(chunks[k])
<1>1. chunks \in Seq(Seq(Nat) \ {<<>>}) /\ DOMAIN chunks = 1 .. Count /\ Count \in Nat
  BY AudioIsBytes
<1> HIDE DEF chunks
<1>2. ASSUME NEW k \in 1 .. Count
      PROVE  /\ Arg(k) = InputAudioAppendEvent(Base64(chunks[k]))
             /\ Arg(k) \in Sendable /\ Send(Arg(k), "fatal") \in Steps
  <2>1. chunks[k] \in Seq(Nat) \ {<<>>}
    BY <1>1
  <2>2. Arg(k) \in Sendable
    BY <2>1, ArgsAreSendable
  <2>3. Arg(k) = InputAudioAppendEvent(Base64(chunks[k]))
    BY <2>1 DEF AppendAudioBase64, AppendAudio, Base64
  <2> HIDE DEF Arg
  <2>4. QED
    BY <2>2, <2>3, StepIsStep DEF Fails
<1>3. SendAudioInChunks(Audio) = [k \in 1 .. Count |-> Send(Arg(k), "fatal")]
  BY <1>1 DEF SendAudioInChunks, chunks
<1> HIDE DEF Arg
<1>4. SendAudioInChunks(Audio) \in [1 .. Count -> Steps]
  BY <1>2, <1>3
<1>5. SendAudioInChunks(Audio) \in Seq(Steps) /\ Len(SendAudioInChunks(Audio)) = Count
  BY <1>1, <1>4, SeqDef
<1>6. QED
  BY <1>2, <1>3, <1>5 DEF chunks

LEMMA AskingSteps ==
  /\ Asking \in Bodies /\ Clearing \in Bodies
  /\ Count \in Nat \ {0} /\ Len(Asking) = Count + 3 /\ Len(Clearing) = 1
  /\ \A k \in 1 .. Count :
       Asking[k] = Send(InputAudioAppendEvent(Base64(Chunks(Audio)[k])), "fatal")
  /\ Asking[Count + 1] = Send(InputAudioCommitEvent, "fatal")
  /\ Asking[Count + 2] = Send(CreateResponse(Nil), "fatal")
  /\ Asking[Count + 3] = Collect("fatal")
  /\ Clearing[1] = Send(InputAudioClearEvent, "fatal")
<1>1. /\ Send(InputAudioClearEvent, "fatal") \in Steps /\ Send(InputAudioCommitEvent, "fatal") \in Steps
      /\ Send(CreateResponse(Nil), "fatal") \in Steps /\ Collect("fatal") \in Steps
  BY ArgsAreSendable, StepIsStep DEF Fails
<1>2. /\ Clearing \in Bodies /\ Len(Clearing) = 1
      /\ Clearing[1] = Send(InputAudioClearEvent, "fatal")
  BY <1>1 DEF Clearing, Bodies
<1>3. /\ Request \in Bodies /\ Len(Request) = 3
      /\ Request[1] = Send(InputAudioCommitEvent, "fatal")
      /\ Request[2] = Send(CreateResponse(Nil), "fatal") /\ Request[3] = Collect("fatal")
  BY <1>1 DEF Request, Bodies
<1> DEFINE file == SendAudioInChunks(Audio)
<1>4. file \in Seq(Steps) /\ Len(file) = Count /\ Count \in Nat \ {0}
  BY FileSteps, AudioIsBytes
<1>5. Asking \in Bodies
  BY <1>3, <1>4, BodiesJoin DEF Asking
<1>6. Request \in Seq(Steps) /\ Asking = file \o Request
  BY <1>3 DEF Bodies, Asking
<1> HIDE DEF file
<1>7. /\ Len(Asking) = Count + 3
      /\ Asking[Count + 1] = Request[1] /\ Asking[Count + 2] = Request[2]
      /\ Asking[Count + 3] = Request[3]
      /\ \A k \in 1 .. Count : Asking[k] = file[k]
  <2>1. /\ Len(file \o Request) = Len(file) + Len(Request)
        /\ \A i \in 1 .. Len(file) : (file \o Request)[i] = file[i]
        /\ \A i \in 1 .. Len(Request) : (file \o Request)[Len(file) + i] = Request[i]
    <3>1. file \in Seq(Steps) /\ Request \in Seq(Steps)
      BY <1>4, <1>6
    <3>2. QED
      BY <3>1, Joins
  <2>2. 1 \in 1 .. 3 /\ 2 \in 1 .. 3 /\ 3 \in 1 .. 3
    OBVIOUS
  <2>3. QED
    BY <1>3, <1>4, <1>6, <2>1, <2>2
<1>8. \A k \in 1 .. Count :
        file[k] = Send(InputAudioAppendEvent(Base64(Chunks(Audio)[k])), "fatal")
  BY FileSteps DEF file
<1>9. QED
  BY <1>2, <1>3, <1>4, <1>5, <1>6, <1>7, <1>8

LEMMA NotQuiet ==
  ~Quiet(Asking) /\ ~Quiet(Clearing) /\ Asking # Clearing
<1>1. /\ Count + 1 \in 1 .. Len(Asking) /\ 1 \in 1 .. Len(Clearing) /\ Len(Asking) # Len(Clearing)
  BY AskingSteps
<1>2. /\ Asking[Count + 1].do = "send" /\ Asking[Count + 1].arg.type \in Buffering
      /\ Clearing[1].do = "send" /\ Clearing[1].arg.type \in Buffering
  BY AskingSteps DEF Send, Step, InputAudioCommitEvent, InputAudioClearEvent, Buffering
<1>3. QED
  BY <1>1, <1>2 DEF Quiet

(* The probe sends a frame first, if any, and clears the buffer last. *)
LEMMA ApiSteps ==
  /\ Len(ApiMethodProbe) \in Nat /\ Len(ApiMethodProbe) >= 2
  /\ \A i \in 1 .. Len(ApiMethodProbe) :
       ApiMethodProbe[i].do = "send" =>
         /\ ApiMethodProbe[i].arg.type = "input_audio_buffer.append" =>
              i = 1 /\ ApiMethodProbe[i] = OpeningStep
         /\ ApiMethodProbe[i].arg.type = "input_audio_buffer.clear" => i = Len(ApiMethodProbe)
  /\ ~Quiet(ApiMethodProbe) /\ ApiMethodProbe # Asking /\ ApiMethodProbe # Clearing
<1> DEFINE Calm(x) == x.do = "send" => x.arg.type \notin {"input_audio_buffer.append",
                                                          "input_audio_buffer.clear"}
           Opened(s) == /\ s \in Seq(Steps) /\ Len(s) \in Nat
                        /\ \A i \in 1 .. Len(s) : Calm(s[i]) \/ (i = 1 /\ s[i] = OpeningStep)
           Calmed(s) == s \in Seq(Steps) /\ \A i \in 1 .. Len(s) : Calm(s[i])
<1>2. ASSUME NEW s, NEW t, Opened(s), Calmed(t) PROVE Opened(s \o t)
  <2>1. /\ s \o t \in Seq(Steps) /\ Len(s \o t) = Len(s) + Len(t) /\ Len(t) \in Nat
        /\ \A i \in 1 .. Len(s) + Len(t) : (s \o t)[i] = IF i <= Len(s) THEN s[i] ELSE t[i - Len(s)]
    BY <1>2, ConcatProperties
  <2>3. ASSUME NEW i \in 1 .. Len(s \o t)
        PROVE  Calm((s \o t)[i]) \/ (i = 1 /\ (s \o t)[i] = OpeningStep)
    <3>1. CASE i <= Len(s)
      BY <1>2, <2>1, <3>1
    <3>2. CASE ~ (i <= Len(s))
      <4>1. i - Len(s) \in 1 .. Len(t) /\ (s \o t)[i] = t[i - Len(s)]
        BY <1>2, <2>1, <3>2
      <4> HIDE DEF Calm
      <4>2. QED
        BY <1>2, <4>1
    <3>3. QED
      BY <3>1, <3>2
  <2> HIDE DEF Calm
  <2>4. QED
    BY <1>2, <2>1, <2>3
<1>3. /\ InputAudioCommitEvent.type = "input_audio_buffer.commit"
      /\ InputAudioClearEvent.type = "input_audio_buffer.clear"
      /\ ResponseCancelEvent.type = "response.cancel" /\ CreateResponse(Nil).type = "response.create"
      /\ AppendImage(<<0>>).type = "input_image_buffer.append"
  <2>1. <<0>> # <<>>
    OBVIOUS
  <2>2. QED
    BY <2>1, Types DEF InputAudioCommitEvent, InputAudioClearEvent, ResponseCancelEvent, AppendImage,
                       InputImageAppendEvent
<1>4. \A x, fail : Send(x, fail).do = "send" /\ Send(x, fail).arg = x /\ Send(x, fail).fail = fail
                   /\ Collect(fail).do = "collect"
  BY DEF Send, Collect, Step
<1>5. /\ Send(AppendImage(<<0>>), "ignore") \in Steps /\ Send(InputAudioCommitEvent, "leave") \in Steps
      /\ Send(CreateResponse(Nil), "leave") \in Steps /\ Send(ResponseCancelEvent, "ignore") \in Steps
      /\ Collect("ignore") \in Steps /\ Send(InputAudioClearEvent, "ignore") \in Steps
  BY ArgsAreSendable, StepIsStep DEF Fails
<1> DEFINE image == Asked("image", << Send(AppendImage(<<0>>), "ignore") >>)
           create == << Send(InputAudioCommitEvent, "leave"), Send(CreateResponse(Nil), "leave") >>
           cancel == Asked("cancel", << Send(ResponseCancelEvent, "ignore") >>)
           last == << Collect("ignore"), Send(InputAudioClearEvent, "ignore") >>
           first == IF Len(Audio) >= FrameSize THEN Frame ELSE <<>>
<1>6. Opened(first)
  <2>1. first = <<>> \/ (first = <<OpeningStep>> /\ OpeningStep \in Steps)
    BY OpeningIsBytes DEF Long
  <2>2. Opened(<<>>)
    OBVIOUS
  <2> HIDE DEF Calm
  <2>3. OpeningStep \in Steps => Opened(<<OpeningStep>>)
    <3> DEFINE x == OpeningStep
    <3> HIDE DEF x
    <3>1. x \in Steps => /\ <<x>> \in Seq(Steps) /\ Len(<<x>>) = 1
                        /\ \A i \in 1 .. 1 : i = 1 /\ <<x>>[i] = x
      OBVIOUS
    <3>2. QED
      BY <3>1 DEF x
  <2> HIDE DEF first, Opened
  <2>4. QED
    BY <2>1, <2>2, <2>3
<1> HIDE DEF first
<1>7. Calmed(<<>>) /\ Calmed(<< Send(AppendImage(<<0>>), "ignore") >>)
      /\ Calmed(<< Send(ResponseCancelEvent, "ignore") >>) /\ Calmed(create)
  BY <1>3, <1>4, <1>5
<1>8. Calmed(image) /\ Calmed(cancel)
  <2> HIDE DEF Calmed
  <2>1. QED
    BY <1>7 DEF Asked
<1>9. ApiMethodProbe = (((first \o image) \o create) \o cancel) \o last
  BY DEF ApiMethodProbe, first
<1> DEFINE before == ((first \o image) \o create) \o cancel
<1>10. Opened(before)
  <2> HIDE DEF Opened, Calmed, create, image, cancel
  <2>1. Opened((first \o image) \o create)
    BY <1>2, <1>6, <1>7, <1>8
  <2>2. QED
    BY <1>2, <1>8, <2>1
<1> HIDE DEF before
<1>11. /\ last \in Seq(Steps) /\ Len(last) = 2 /\ last[1].do = "collect"
       /\ last[2] = Send(InputAudioClearEvent, "ignore")
  BY <1>4, <1>5
<1>12. ApiMethodProbe = before \o last
  BY <1>9 DEF before
<1> HIDE DEF last
<1>13. /\ Len(ApiMethodProbe) = Len(before) + 2 /\ Len(before) \in Nat
       /\ \A i \in 1 .. Len(before) + 2 :
            ApiMethodProbe[i] = IF i <= Len(before) THEN before[i] ELSE last[i - Len(before)]
  <2>1. /\ before \in Seq(Steps) /\ Len(before) \in Nat
        /\ last \in Seq(Steps) /\ Len(last) = 2
    BY <1>10, <1>11
  <2> HIDE DEF Opened, Calmed, Calm, image, create, cancel
  <2>2. /\ Len(before \o last) = Len(before) + Len(last)
        /\ \A i \in 1 .. Len(before) + Len(last) :
             (before \o last)[i] = IF i <= Len(before) THEN before[i] ELSE last[i - Len(before)]
    BY <2>1, ConcatProperties, Zenon
  <2>3. QED
    BY <2>1, <2>2, <1>12, Zenon
<1>14. OpeningStep.arg.type = "input_audio_buffer.append"
  BY <1>4, Types DEF OpeningStep
<1>15. ASSUME NEW i \in 1 .. Len(ApiMethodProbe), ApiMethodProbe[i].do = "send"
       PROVE  /\ ApiMethodProbe[i].arg.type = "input_audio_buffer.append" =>
                   i = 1 /\ ApiMethodProbe[i] = OpeningStep
              /\ ApiMethodProbe[i].arg.type = "input_audio_buffer.clear" => i = Len(ApiMethodProbe)
  <2>1. CASE i <= Len(before)
    <3>1. i \in 1 .. Len(before) /\ ApiMethodProbe[i] = before[i]
      BY <1>13, <2>1
    <3>2. Calm(before[i]) \/ (i = 1 /\ before[i] = OpeningStep)
      BY <1>10, <3>1
    <3>3. QED
      BY <1>14, <1>15, <3>1, <3>2
  <2>2. CASE i = Len(before) + 1
    <3>1. ApiMethodProbe[i] = last[1]
      BY <1>13, <2>2
    <3>2. QED
      BY <1>11, <1>15, <3>1
  <2>3. CASE i = Len(before) + 2
    <3>1. ApiMethodProbe[i] = last[2] /\ i = Len(ApiMethodProbe)
      BY <1>13, <2>3
    <3>2. QED
      BY <1>3, <1>4, <1>11, <3>1
  <2>4. QED
    BY <1>13, <2>1, <2>2, <2>3
<1>16. /\ Len(ApiMethodProbe) \in 1 .. Len(ApiMethodProbe)
       /\ ApiMethodProbe[Len(ApiMethodProbe)] = Send(InputAudioClearEvent, "ignore")
  <2>1. ApiMethodProbe[Len(before) + 2] = last[2]
    BY <1>13
  <2>2. QED
    BY <1>11, <1>13, <2>1
<1>17. ~Quiet(ApiMethodProbe)
  BY <1>3, <1>4, <1>16 DEF Quiet, Buffering
<1>18. ApiMethodProbe # Asking /\ ApiMethodProbe # Clearing
  <2>1. /\ Len(Asking) = Count + 3 /\ Asking[Count + 3] = Collect("fatal")
        /\ Len(Clearing) = 1
    BY AskingSteps
  <2>2. Asking[Len(Asking)].do = "collect"
    BY <1>4, <2>1
  <2>3. ApiMethodProbe[Len(ApiMethodProbe)].do = "send"
    BY <1>4, <1>16
  <2>4. ApiMethodProbe # Asking
    BY <2>2, <2>3
  <2>5. Len(ApiMethodProbe) # 1
    BY <1>13
  <2>6. QED
    BY <2>1, <2>4, <2>5
<1>19. QED
  BY <1>13, <1>15, <1>17, <1>18

(* A function that asks for no response and collects none, and one that asks
   for one and collects it, with nothing but requests between *)
Asks(step) == step.do = "send" /\ step.arg.type = "response.create"
Plain(body) == \A i \in 1 .. Len(body) : ~Asks(body[i]) /\ body[i].do # "collect"
Orderly(body) ==
  \/ Plain(body)
  \/ \E c, e \in 1 .. Len(body) :
       /\ c < e
       /\ \A i \in 1 .. Len(body) :
            /\ (Asks(body[i]) <=> i = c)
            /\ (body[i].do = "collect" <=> i = e)
            /\ (c < i /\ i < e => body[i].do = "send")

LEMMA PlainFirst ==
  ASSUME NEW s \in Seq(Steps), NEW t \in Seq(Steps), Plain(s)
  PROVE  /\ Plain(t) => Plain(s \o t)
         /\ Orderly(t) => Orderly(s \o t)
<1> DEFINE w == s \o t
           m == Len(s)
<1>1. /\ m \in Nat /\ Len(t) \in Nat /\ Len(w) = m + Len(t)
      /\ \A i \in 1 .. m : w[i] = s[i]
      /\ \A i \in 1 .. Len(t) : w[m + i] = t[i]
      /\ \A i \in 1 .. Len(w) : i \in 1 .. m \/ i - m \in 1 .. Len(t)
  BY Joins
<1> HIDE DEF w, m
<1>2. \A i \in 1 .. m : ~Asks(w[i]) /\ w[i].do # "collect"
  BY <1>1 DEF Plain, m
<1>3. ASSUME NEW i \in 1 .. Len(w), i \notin 1 .. m
      PROVE  \E j \in 1 .. Len(t) : j = i - m /\ i = m + j /\ w[i] = t[j]
  <2>1. PICK j \in 1 .. Len(t) : j = i - m /\ i = m + j
    BY <1>1, <1>3
  <2>2. QED
    BY <1>1, <2>1
<1>4. ASSUME Plain(t) PROVE Plain(w)
  <2>1. ASSUME NEW i \in 1 .. Len(w) PROVE ~Asks(w[i]) /\ w[i].do # "collect"
    <3>1. CASE i \in 1 .. m
      BY <1>2, <3>1
    <3>2. CASE i \notin 1 .. m
      BY <1>3, <1>4, <3>2 DEF Plain
    <3>3. QED
      BY <3>1, <3>2
  <2>2. QED
    BY <2>1 DEF Plain
<1>5. ASSUME NEW c \in 1 .. Len(t), NEW e \in 1 .. Len(t), c < e,
             \A i \in 1 .. Len(t) : /\ (Asks(t[i]) <=> i = c)
                                   /\ (t[i].do = "collect" <=> i = e)
                                   /\ (c < i /\ i < e => t[i].do = "send")
      PROVE  Orderly(w)
  <2>1. PICK d \in 1 .. Len(w), f \in 1 .. Len(w) : d = m + c /\ f = m + e
    BY <1>1
  <2>2. ASSUME NEW i \in 1 .. Len(w)
        PROVE  /\ (Asks(w[i]) <=> i = d)
               /\ (w[i].do = "collect" <=> i = f)
               /\ (d < i /\ i < f => w[i].do = "send")
    <3>1. CASE i \in 1 .. m
      <4>1. i # d /\ i # f /\ ~ (d < i)
        BY <1>1, <2>1, <3>1
      <4>2. QED
        BY <1>2, <3>1, <4>1
    <3>2. CASE i \notin 1 .. m
      <4>1. PICK j \in 1 .. Len(t) : j = i - m /\ i = m + j /\ w[i] = t[j]
        BY <1>3, <3>2
      <4>2. (i = d <=> j = c) /\ (i = f <=> j = e) /\ (d < i <=> c < j) /\ (i < f <=> j < e)
        BY <1>1, <2>1, <4>1
      <4>3. /\ (Asks(t[j]) <=> j = c)
            /\ (t[j].do = "collect" <=> j = e)
            /\ (c < j /\ j < e => t[j].do = "send")
        BY <1>5
      <4>4. (Asks(w[i]) <=> Asks(t[j])) /\ w[i].do = t[j].do
        BY <4>1
      <4>5. QED
        BY <4>2, <4>3, <4>4
    <3>3. QED
      BY <3>1, <3>2
  <2>3. d < f
    BY <1>1, <1>5, <2>1
  <2>4. QED
    BY <2>2, <2>3 DEF Orderly
<1>6. ASSUME Orderly(t) PROVE Orderly(w)
  <2>1. CASE Plain(t)
    BY <1>4, <2>1 DEF Orderly
  <2>2. CASE ~Plain(t)
    <3>1. \E c, e \in 1 .. Len(t) :
            /\ c < e
            /\ \A i \in 1 .. Len(t) : /\ (Asks(t[i]) <=> i = c)
                                    /\ (t[i].do = "collect" <=> i = e)
                                    /\ (c < i /\ i < e => t[i].do = "send")
      BY <1>6, <2>2 DEF Orderly
    <3>2. QED
      BY <1>5, <3>1
  <2>3. QED
    BY <2>1, <2>2
<1>7. QED
  BY <1>4, <1>6 DEF w

(* Every function of the applications is one or the other. *)
LEMMA OrderlyBodies ==
  /\ Orderly(ProbeCancelPath) /\ Orderly(ProbeHistoryRewrite) /\ Orderly(TextRound)
  /\ Plain(Finish) /\ Orderly(Clearing) /\ Orderly(Asking) /\ Orderly(ApiMethodProbe)
  /\ \A c \in Configs : Orderly(ApplyProSettings(c)) /\ Orderly(Connect(c))
  /\ Orderly(<< Send(AppendText(Text(0)), "leave"), Send(CreateResponse(Nil), "leave"),
                Collect("leave") >>)
<1>1. /\ Instruct.type = "response.create" /\ Rewritten.type = "response.create"
      /\ CreateResponse(Nil).type = "response.create"
      /\ \A x \in {InputAudioCommitEvent, InputAudioClearEvent, ResponseCancelEvent,
                    SessionFinishEvent, AppendText(Text(0)), AppendImage(<<0>>)} :
           x.type # "response.create"
  <2>1. AppendText(Text(0)) = InputTextAppendEvent(Text(0))
    BY DEF AppendText, Text
  <2>2. AppendImage(<<0>>) = InputImageAppendEvent(Base64(<<0>>))
    BY DEF AppendImage
  <2>3. QED
    BY <2>1, <2>2, Types
<1>2. \A c \in Configs : UpdateSession(c).type # "response.create"
  BY Types, ExamplesAssumption DEF UpdateSession
<1>3. \A x, fail : /\ Send(x, fail).do = "send" /\ Send(x, fail).arg = x
                   /\ Wait(x, fail).do = "wait" /\ Collect(fail).do = "collect"
                   /\ (Asks(Send(x, fail)) <=> x.type = "response.create")
                   /\ ~Asks(Wait(x, fail)) /\ ~Asks(Collect(fail))
  BY DEF Send, Wait, Collect, Step, Asks
<1>4. Close.do = "close" /\ ~Asks(Close)
  BY DEF Close, Step, Asks
<1> DEFINE Neither(x) == ~Asks(x) /\ x.do # "collect"
<1>5. /\ \A a : Neither(a) => Plain(<<a>>)
      /\ \A a, b : Neither(a) /\ Neither(b) => Plain(<<a, b>>)
      /\ \A a, b, c : Neither(a) /\ Neither(b) /\ Neither(c) => Plain(<<a, b, c>>)
  BY DEF Plain
<1>6. ASSUME NEW a, NEW b, Asks(a), b.do = "collect" PROVE Orderly(<<a, b>>)
  <2> DEFINE body == <<a, b>>
  <2>1. /\ Len(body) = 2 /\ 1 \in 1 .. 2 /\ 2 \in 1 .. 2 /\ 1 < 2
        /\ \A i \in 1 .. Len(body) : (Asks(body[i]) <=> i = 1) /\ (body[i].do = "collect" <=> i = 2)
                                    /\ ~ (1 < i /\ i < 2)
    BY <1>6 DEF Asks
  <2> HIDE DEF body
  <2>2. Orderly(body)
    BY <2>1 DEF Orderly
  <2>3. QED
    BY <2>2 DEF body
<1>7. ASSUME NEW a, NEW b, NEW c, Asks(a), b.do = "send", ~Asks(b), c.do = "collect"
      PROVE  Orderly(<<a, b, c>>)
  <2> DEFINE body == <<a, b, c>>
  <2>1. /\ Len(body) = 3 /\ 1 \in 1 .. 3 /\ 3 \in 1 .. 3 /\ 1 < 3
        /\ \A i \in 1 .. Len(body) : (Asks(body[i]) <=> i = 1) /\ (body[i].do = "collect" <=> i = 3)
                                    /\ (1 < i /\ i < 3 => body[i].do = "send")
    BY <1>7 DEF Asks
  <2> HIDE DEF body
  <2>2. Orderly(body)
    BY <2>1 DEF Orderly
  <2>3. QED
    BY <2>2 DEF body
<1>8. /\ Orderly(ProbeCancelPath) /\ Orderly(ProbeHistoryRewrite) /\ Orderly(TextRound)
  BY <1>1, <1>3, <1>6, <1>7 DEF ProbeCancelPath, ProbeHistoryRewrite, TextRound
<1>9. /\ Plain(Finish) /\ Orderly(Clearing)
      /\ \A c \in Configs : Orderly(ApplyProSettings(c)) /\ Orderly(Connect(c))
  BY <1>1, <1>2, <1>3, <1>4, <1>5 DEF Finish, Clearing, ApplyProSettings, Connect, Orderly
<1>10. /\ \A x \in Sendable, fail \in Fails : Send(x, fail) \in Steps
       /\ \A fail \in Fails : Collect(fail) \in Steps
       /\ {CreateResponse(Nil), InputAudioCommitEvent, InputAudioClearEvent, ResponseCancelEvent,
           AppendText(Text(0)), AppendImage(<<0>>)} \subseteq Sendable
       /\ {"leave", "fatal", "ignore"} \subseteq Fails
  BY StepIsStep, ArgsAreSendable DEF Fails
<1>11. ASSUME NEW a \in Steps, NEW b \in Steps, NEW c \in Steps, Neither(a), Asks(b), c.do = "collect"
       PROVE  Orderly(<<a, b, c>>)
  <2>1. <<a>> \in Seq(Steps) /\ <<b, c>> \in Seq(Steps) /\ Plain(<<a>>) /\ Orderly(<<b, c>>)
    BY <1>5, <1>6, <1>11
  <2>2. <<a>> \o <<b, c>> = <<a, b, c>>
    BY Tuples
  <2>3. QED
    BY <2>1, <2>2, PlainFirst
<1>12. Orderly(<< Send(AppendText(Text(0)), "leave"), Send(CreateResponse(Nil), "leave"),
                  Collect("leave") >>)
  BY <1>1, <1>3, <1>10, <1>11
<1>13. Orderly(Asking)
  <2> DEFINE file == SendAudioInChunks(Audio)
  <2>1. Request \in Seq(Steps) /\ Orderly(Request)
    BY <1>1, <1>3, <1>10, <1>11 DEF Request
  <2>2. file \in Seq(Steps) /\ Plain(file)
    <3>1. /\ file \in Seq(Steps) /\ Len(file) = Count
          /\ \A k \in 1 .. Count :
               file[k] = Send(InputAudioAppendEvent(Base64(Chunks(Audio)[k])), "fatal")
      BY FileSteps
    <3>2. \A x : InputAudioAppendEvent(x).type # "response.create"
      BY Types
    <3>3. QED
      BY <1>3, <3>1, <3>2 DEF Plain
  <2> HIDE DEF file
  <2>3. QED
    BY <2>1, <2>2, PlainFirst DEF Asking, file
<1>14. Orderly(ApiMethodProbe)
  <2> DEFINE opening == IF Len(Audio) >= FrameSize THEN Frame ELSE <<>>
             picture == Send(AppendImage(<<0>>), "ignore")
             commit == Send(InputAudioCommitEvent, "leave")
             create == Send(CreateResponse(Nil), "leave")
             cancel == Send(ResponseCancelEvent, "ignore")
             collect == Collect("ignore")
             clear == Send(InputAudioClearEvent, "ignore")
             image == Asked("image", <<picture>>)
             cut == Asked("cancel", <<cancel>>)
  <2>1. ApiMethodProbe = (((opening \o image) \o <<commit, create>>) \o cut) \o <<collect, clear>>
    BY DEF ApiMethodProbe
  <2>2. /\ picture \in Steps /\ commit \in Steps /\ create \in Steps /\ cancel \in Steps
        /\ collect \in Steps /\ clear \in Steps
    BY <1>10
  <2>3. opening \in Seq(Steps) /\ Plain(opening)
    <3>1. opening = <<>> \/ (opening = <<OpeningStep>> /\ OpeningStep \in Steps)
      BY OpeningIsBytes DEF Long
    <3>2. Neither(OpeningStep)
      BY <1>3, Types DEF OpeningStep
    <3>3. Plain(<<>>) /\ Plain(<<OpeningStep>>)
      BY <1>5, <3>2 DEF Plain
    <3>4. <<>> \in Seq(Steps) /\ (OpeningStep \in Steps => <<OpeningStep>> \in Seq(Steps))
      OBVIOUS
    <3> HIDE DEF opening, Neither
    <3>5. QED
      BY <3>1, <3>3, <3>4, Zenon
  <2>4. /\ Neither(picture) /\ Neither(commit) /\ Neither(cancel) /\ Neither(clear)
        /\ cancel.do = "send" /\ Asks(create) /\ collect.do = "collect" /\ ~Asks(collect)
    BY <1>1, <1>3
  <2> HIDE DEF opening, picture, commit, create, cancel, collect, clear, Neither
  <2>5. /\ opening \in Seq(Steps) /\ <<picture>> \in Seq(Steps) /\ <<cancel>> \in Seq(Steps)
        /\ <<>> \in Seq(Steps) /\ <<commit>> \in Seq(Steps) /\ <<create>> \in Seq(Steps)
        /\ <<commit, create>> \in Seq(Steps) /\ <<collect, clear>> \in Seq(Steps)
    BY <2>2, <2>3
  <2>6. image \in Seq(Steps) /\ Plain(image) /\ (cut = <<>> \/ cut = <<cancel>>)
    <3>1. Plain(<<>>) /\ Plain(<<picture>>)
      BY <1>5, <2>4 DEF Plain
    <3>2. QED
      BY <2>5, <3>1 DEF Asked
  <2> HIDE DEF image, cut
  <2>7. opening \o image \in Seq(Steps) /\ Plain(opening \o image)
    BY <2>3, <2>6, PlainFirst, ConcatProperties
  <2> DEFINE before == opening \o image
             answer == (<<create>> \o cut) \o <<collect, clear>>
  <2>8. answer \in Seq(Steps) /\ Orderly(answer)
    <3>1. CASE cut = <<>>
      <4>1. answer = <<create, collect, clear>>
        <5>1. <<create>> \o <<>> = <<create>>
          BY Tuples
        <5>2. <<create>> \o <<collect, clear>> = <<create, collect, clear>>
          BY Tuples
        <5>3. QED
          BY <3>1, <5>1, <5>2
      <4> DEFINE body == <<create, collect, clear>>
      <4>2. /\ Len(body) = 3 /\ 1 \in 1 .. 3 /\ 2 \in 1 .. 3 /\ 1 < 2 /\ body \in Seq(Steps)
            /\ \A i \in 1 .. Len(body) : /\ (Asks(body[i]) <=> i = 1)
                                        /\ (body[i].do = "collect" <=> i = 2)
                                        /\ ~ (1 < i /\ i < 2)
        BY <2>2, <2>4 DEF Asks, Neither
      <4> HIDE DEF body
      <4>3. Orderly(body)
        <5>1. PICK c \in 1 .. Len(body), e \in 1 .. Len(body) : c = 1 /\ e = 2
          BY <4>2
        <5>2. QED
          BY <4>2, <5>1 DEF Orderly
      <4>4. QED
        BY <4>1, <4>2, <4>3 DEF body
    <3>2. CASE cut = <<cancel>>
      <4>1. answer = <<create, cancel, collect, clear>>
        <5>1. <<create>> \o <<cancel>> = <<create, cancel>>
          BY Tuples
        <5>2. <<create, cancel>> \o <<collect, clear>> = <<create, cancel, collect, clear>>
          <6>1. \A d : <<create, cancel>> \o <<collect, d>> = <<create, cancel, collect, d>>
            BY Tuples, Zenon
          <6>2. QED
            BY <6>1, Zenon
        <5>3. QED
          BY <3>2, <5>1, <5>2
      <4> DEFINE body == <<create, cancel, collect, clear>>
      <4>2. /\ Len(body) = 4 /\ 1 \in 1 .. 4 /\ 3 \in 1 .. 4 /\ 1 < 3 /\ body \in Seq(Steps)
            /\ \A i \in 1 .. Len(body) : /\ (Asks(body[i]) <=> i = 1)
                                        /\ (body[i].do = "collect" <=> i = 3)
                                        /\ (1 < i /\ i < 3 => body[i].do = "send")
        BY <2>2, <2>4 DEF Asks, Neither
      <4> HIDE DEF body
      <4>3. Orderly(body)
        <5>1. PICK c \in 1 .. Len(body), e \in 1 .. Len(body) : c = 1 /\ e = 3
          BY <4>2
        <5>2. QED
          BY <4>2, <5>1 DEF Orderly
      <4>4. QED
        BY <4>1, <4>2, <4>3 DEF body
    <3>3. QED
      BY <2>6, <3>1, <3>2
  <2>9. before \in Seq(Steps) /\ Plain(before)
    BY <2>7
  <2>10. cut \in Seq(Steps) /\ <<create>> \o cut \in Seq(Steps)
    BY <2>5, <2>6, ConcatProperties
  <2>11. ApiMethodProbe = (before \o <<commit>>) \o answer
    <3> DEFINE last == <<collect, clear>>
    <3>1. <<commit, create>> = <<commit>> \o <<create>> /\ last \in Seq(Steps)
      BY <2>5, Tuples
    <3> HIDE DEF before, answer, last
    <3>2. /\ before \o (<<commit>> \o <<create>>) = (before \o <<commit>>) \o <<create>>
          /\ before \o <<commit>> \in Seq(Steps)
      BY <2>5, <2>9, Joins
    <3>3. ((before \o <<commit>>) \o <<create>>) \o cut = (before \o <<commit>>) \o (<<create>> \o cut)
      BY <2>5, <2>10, <3>2, Joins
    <3>4. ((before \o <<commit>>) \o (<<create>> \o cut)) \o last
            = (before \o <<commit>>) \o ((<<create>> \o cut) \o last)
      BY <2>10, <3>1, <3>2, Joins
    <3>5. QED
      BY <2>1, <3>1, <3>2, <3>3, <3>4, SMTT(30) DEF before, answer, last
  <2>12. before \o <<commit>> \in Seq(Steps) /\ Plain(before \o <<commit>>)
    <3>1. Plain(<<commit>>)
      BY <1>5, <2>4
    <3> HIDE DEF before
    <3>2. QED
      BY <2>5, <2>9, <3>1, PlainFirst, ConcatProperties
  <2> HIDE DEF before, answer
  <2>13. QED
    BY <2>8, <2>11, <2>12, PlainFirst
<1>15. QED
  BY <1>8, <1>9, <1>12, <1>13, <1>14

(* The buffer is cleared right before the file is sent, but for one function
   that does not touch it. *)
Prepared(s) ==
  \A f \in 1 .. Len(s) :
    /\ Orderly(s[f])
    /\ s[f] = Clearing \/ s[f] = Asking \/ Quiet(s[f])
    /\ s[f] = Asking => \/ f >= 2 /\ s[f - 1] = Clearing
                        \/ f >= 3 /\ Quiet(s[f - 1]) /\ s[f - 2] = Clearing

Plots == {s \in Seq(Bodies) : Prepared(s)}

LEMMA PlotsJoin ==
  /\ Plots \in SUBSET Seq(Bodies) /\ <<>> \in Plots
  /\ \A s, t \in Plots : s \o t \in Plots
<1>1. <<>> \in Plots
  BY DEF Plots, Prepared
<1>2. ASSUME NEW s \in Plots, NEW t \in Plots PROVE s \o t \in Plots
  <2> DEFINE w == s \o t
             m == Len(s)
             k == Len(t)
  <2>1. s \in Seq(Bodies) /\ t \in Seq(Bodies) /\ Prepared(s) /\ Prepared(t)
    BY DEF Plots
  <2>2. /\ w \in Seq(Bodies) /\ m \in Nat /\ k \in Nat /\ Len(w) = m + k
        /\ \A i \in 1 .. m : w[i] = s[i]
        /\ \A i \in 1 .. k : i + m \in 1 .. Len(w) /\ w[i + m] = t[i]
        /\ \A i \in 1 .. Len(w) : i \in 1 .. m \/ (i - m \in 1 .. k /\ w[i] = t[i - m])
    BY <2>1, ConcatProperties
  <2> HIDE DEF w
  <2>3. ASSUME NEW f \in 1 .. Len(w)
        PROVE  /\ Orderly(w[f])
               /\ w[f] = Clearing \/ w[f] = Asking \/ Quiet(w[f])
               /\ w[f] = Asking => \/ f >= 2 /\ w[f - 1] = Clearing
                                   \/ f >= 3 /\ Quiet(w[f - 1]) /\ w[f - 2] = Clearing
    <3>1. CASE f \in 1 .. m
      <4>1. /\ Orderly(s[f])
            /\ s[f] = Clearing \/ s[f] = Asking \/ Quiet(s[f])
            /\ s[f] = Asking => \/ f >= 2 /\ s[f - 1] = Clearing
                                \/ f >= 3 /\ Quiet(s[f - 1]) /\ s[f - 2] = Clearing
        BY <2>1, <3>1 DEF Prepared
      <4>2. /\ w[f] = s[f]
            /\ f >= 2 => w[f - 1] = s[f - 1]
            /\ f >= 3 => w[f - 2] = s[f - 2]
        BY <2>2, <3>1
      <4>3. QED
        BY <4>1, <4>2
    <3>2. CASE f \notin 1 .. m
      <4>1. PICK g \in 1 .. k : g = f - m /\ f = g + m
        BY <2>2, <3>2
      <4>2. /\ Orderly(t[g])
            /\ t[g] = Clearing \/ t[g] = Asking \/ Quiet(t[g])
            /\ t[g] = Asking => \/ g >= 2 /\ t[g - 1] = Clearing
                                \/ g >= 3 /\ Quiet(t[g - 1]) /\ t[g - 2] = Clearing
        BY <2>1 DEF Prepared
      <4>3. w[f] = t[g]
        BY <2>2, <4>1
      <4>4. g >= 2 => f >= 2 /\ w[f - 1] = t[g - 1]
        <5>1. ASSUME g >= 2 PROVE g - 1 \in 1 .. k /\ (g - 1) + m = f - 1 /\ f >= 2
          BY <2>2, <4>1, <5>1
        <5>2. QED
          BY <2>2, <5>1
      <4>5. g >= 3 => f >= 3 /\ w[f - 2] = t[g - 2]
        <5>1. ASSUME g >= 3 PROVE g - 2 \in 1 .. k /\ (g - 2) + m = f - 2 /\ f >= 3
          BY <2>2, <4>1, <5>1
        <5>2. QED
          BY <2>2, <5>1
      <4>6. g >= 3 => g >= 2
        BY <2>2
      <4>7. QED
        BY <4>2, <4>3, <4>4, <4>5, <4>6
    <3>3. QED
      BY <3>1, <3>2
  <2>4. Prepared(w)
    BY <2>3 DEF Prepared
  <2>5. QED
    BY <2>2, <2>4 DEF Plots, w
<1>3. QED
  BY <1>1, <1>2 DEF Plots

LEMMA QuietPlots ==
  ASSUME NEW body \in Bodies, Quiet(body), Orderly(body)
  PROVE  <<body>> \in Plots /\ \A flag : Optional(flag, body) \in Plots
<1>1. body # Asking
  BY NotQuiet
<1>2. <<body>> \in Plots
  <2>1. <<body>> \in Seq(Bodies) /\ Len(<<body>>) = 1 /\ <<body>>[1] = body
    OBVIOUS
  <2>2. QED
    BY <1>1, <2>1 DEF Plots, Prepared
<1>3. QED
  BY <1>2, PlotsJoin DEF Optional, Asked

LEMMA QuietProbes ==
  /\ Quiet(ProbeCancelPath) /\ Quiet(ProbeHistoryRewrite) /\ Quiet(TextRound) /\ Quiet(Finish)
  /\ \A c \in Configs : Quiet(ApplyProSettings(c)) /\ Quiet(Connect(c))
  /\ Quiet(<< Send(AppendText(Text(0)), "leave"), Send(CreateResponse(Nil), "leave"),
              Collect("leave") >>)
<1>1. /\ Instruct.type = "response.create" /\ Rewritten.type = "response.create"
      /\ CreateResponse(Nil).type = "response.create" /\ ResponseCancelEvent.type \notin Buffering
      /\ SessionFinishEvent.type \notin Buffering
      /\ AppendText(Text(0)).type \notin Buffering
  BY Types DEF ResponseCancelEvent, SessionFinishEvent, AppendText, InputTextAppendEvent, Text,
               Buffering
<1>2. \A c \in Configs : UpdateSession(c).type = "session.update"
  BY Types, ExamplesAssumption DEF UpdateSession
<1>3. /\ "response.create" \notin Buffering /\ "session.update" \notin Buffering
  BY DEF Buffering
<1>4. \A x, fail : Send(x, fail).do = "send" /\ Send(x, fail).arg = x
                   /\ Wait(x, fail).do = "wait" /\ Collect(fail).do = "collect"
  BY DEF Send, Wait, Collect, Step
<1>5. Close.do = "close"
  BY DEF Close, Step
<1>6. ASSUME NEW a, NEW b, a.do = "send" => a.arg.type \notin Buffering,
             b.do = "send" => b.arg.type \notin Buffering
      PROVE  Quiet(<<a, b>>)
  BY <1>6 DEF Quiet
<1>7. ASSUME NEW a, NEW b, NEW c, a.do = "send" => a.arg.type \notin Buffering,
             b.do = "send" => b.arg.type \notin Buffering,
             c.do = "send" => c.arg.type \notin Buffering
      PROVE  Quiet(<<a, b, c>>)
  BY <1>7 DEF Quiet
<1>8. Quiet(ProbeCancelPath)
  BY <1>1, <1>3, <1>4, <1>7 DEF ProbeCancelPath
<1>9. Quiet(ProbeHistoryRewrite) /\ Quiet(TextRound) /\ Quiet(Finish)
  BY <1>1, <1>3, <1>4, <1>5, <1>6 DEF ProbeHistoryRewrite, TextRound, Finish
<1>10. \A c \in Configs : Quiet(ApplyProSettings(c)) /\ Quiet(Connect(c))
  BY <1>2, <1>3, <1>4, <1>6, <1>7 DEF ApplyProSettings, Connect
<1>11. Quiet(<< Send(AppendText(Text(0)), "leave"), Send(CreateResponse(Nil), "leave"),
                Collect("leave") >>)
  BY <1>1, <1>3, <1>4, <1>7
<1>12. QED
  BY <1>8, <1>9, <1>10, <1>11

LEMMA AudioRounds ==
  ASSUME NEW r \in Nat
  PROVE  AudioRound(r) \in Plots
<1> DEFINE pro == ApplyProSettings("proAudio")
<1>1. /\ pro \in Bodies /\ Quiet(pro) /\ Orderly(pro) /\ Orderly(Clearing) /\ Orderly(Asking)
  BY Probes, QuietProbes, OrderlyBodies DEF Configs
<1>2. AudioRound(r) = << Clearing, Asking >> \/ AudioRound(r) = << Clearing, pro, Asking >>
  <2>1. AudioRound(r) = (<< Clearing >> \o IF r = 2 THEN Optional("pro", pro) ELSE <<>>) \o << Asking >>
    BY DEF AudioRound, Clearing, Asking, Request
  <2> HIDE DEF pro
  <2>2. CASE r = 2 /\ "pro" \in program.probes
    <3>1. AudioRound(r) = (<< Clearing >> \o << pro >>) \o << Asking >>
      BY <2>1, <2>2 DEF Optional, Asked
    <3>2. QED
      BY <3>1, Tuples, ZenonT(40)
  <2>3. CASE ~ (r = 2 /\ "pro" \in program.probes)
    <3>1. AudioRound(r) = (<< Clearing >> \o << >>) \o << Asking >>
      BY <2>1, <2>3 DEF Optional, Asked
    <3>2. QED
      BY <3>1, Tuples
  <2>4. QED
    BY <2>2, <2>3
<1> HIDE DEF pro
<1>3. << Clearing, Asking >> \in Plots
  <2>1. << Clearing, Asking >> \in Seq(Bodies)
    BY AskingSteps
  <2>2. Prepared(<< Clearing, Asking >>)
    BY <1>1, NotQuiet DEF Prepared
  <2>3. QED
    BY <2>1, <2>2 DEF Plots
<1>4. << Clearing, pro, Asking >> \in Plots
  <2>1. << Clearing, pro, Asking >> \in Seq(Bodies)
    BY <1>1, AskingSteps
  <2>2. Prepared(<< Clearing, pro, Asking >>)
    BY <1>1, NotQuiet DEF Prepared
  <2>3. QED
    BY <2>1, <2>2 DEF Plots
<1>5. QED
  BY <1>2, <1>3, <1>4

LEMMA RoundsJoin ==
  ASSUME NEW n \in Nat, NEW rounds \in [1 .. n -> Plots]
  PROVE  Rounds(rounds) \in Plots
<1> DEFINE Extra(r) == IF r = 1 THEN Optional("history", ProbeHistoryRewrite) ELSE <<>>
           all == [r \in DOMAIN rounds |-> rounds[r] \o Extra(r)]
<1>1. ASSUME NEW r \in 1 .. n PROVE rounds[r] \o Extra(r) \in Plots
  <2>1. Extra(r) \in Plots
    BY Probes, QuietProbes, OrderlyBodies, QuietPlots, PlotsJoin
  <2>2. rounds[r] \in Plots
    OBVIOUS
  <2> HIDE DEF Extra
  <2>3. QED
    BY <2>1, <2>2, PlotsJoin
<1>2. Rounds(rounds) = FlattenSeq(all)
  BY DEF Rounds
<1> HIDE DEF Extra
<1>3. all \in [1 .. n -> Plots]
  BY <1>1
<1>4. all \in Seq(Plots)
  BY <1>3, SeqDef
<1> HIDE DEF all
<1>5. QED
  BY <1>2, <1>4, PlotsJoin, FlattenCloses

(* Every application connects first and finishes last. *)
LEMMA ScriptForm ==
  ASSUME program \in Programs
  PROVE  \E c \in Configs, rest \in Plots :
           \E first \in {<<Connect(c)>>, <<Connect(c), ApiMethodProbe>>} :
             Functions = (first \o rest) \o <<Finish>>
<1>1. /\ program.app \in {"text", "append", "audio"} /\ program.rounds \in Nat
      /\ {"text", "audio", "proText"} \subseteq Configs
  BY ExamplesAssumption DEF Configs
<1>2. /\ \A c \in Configs : Connect(c) \in Bodies
      /\ ApiMethodProbe \in Bodies
  BY ConnectAndFinish, Probes
<1>3. CASE program.app = "text"
  <2> DEFINE first == <<Connect("text")>>
             cancel == Optional("cancel", ProbeCancelPath)
             pro == Optional("pro", ApplyProSettings("proText"))
             rounds == [r \in 1 .. program.rounds |-> << TextRound >>]
             all == Rounds(rounds)
             rest == (cancel \o pro) \o all
  <2>1. /\ first \in Seq(Bodies) /\ cancel \in Plots /\ pro \in Plots /\ << TextRound >> \in Plots
    <3>1. "text" \in Configs /\ "proText" \in Configs
      BY DEF Configs
    <3>2. cancel \in Plots /\ << TextRound >> \in Plots
      BY Probes, QuietProbes, OrderlyBodies, QuietPlots
    <3>3. /\ ApplyProSettings("proText") \in Bodies /\ Quiet(ApplyProSettings("proText"))
          /\ Orderly(ApplyProSettings("proText"))
      BY <3>1, Probes, QuietProbes, OrderlyBodies
    <3>4. pro \in Plots
      BY <3>3, QuietPlots
    <3>5. first \in Seq(Bodies)
      BY <1>2, <3>1
    <3>6. QED
      BY <3>2, <3>4, <3>5
  <2>2. all \in Plots
    <3>1. rounds \in [1 .. program.rounds -> Plots]
      BY <2>1
    <3> HIDE DEF rounds
    <3>2. QED
      BY <1>1, <3>1, RoundsJoin
  <2>3. Functions = (((first \o cancel) \o pro) \o all) \o <<Finish>>
    BY <1>3 DEF Functions, TextChat
  <2> HIDE DEF cancel, pro, all
  <2>4. rest \in Plots
    BY <2>1, <2>2, PlotsJoin
  <2>5. ((first \o cancel) \o pro) \o all = first \o rest
    <3> HIDE DEF first
    <3>1. /\ cancel \in Seq(Bodies) /\ pro \in Seq(Bodies) /\ all \in Seq(Bodies)
          /\ cancel \o pro \in Seq(Bodies)
      BY <2>1, <2>2, PlotsJoin
    <3>2. (first \o cancel) \o pro = first \o (cancel \o pro)
      BY <2>1, <3>1, Joins
    <3>3. (first \o (cancel \o pro)) \o all = first \o ((cancel \o pro) \o all)
      BY <2>1, <3>1, Joins, SMTT(30)
    <3>4. QED
      BY <3>2, <3>3
  <2> HIDE DEF rest
  <2>6. Functions = (first \o rest) \o <<Finish>>
    BY <2>3, <2>5
  <2>7. QED
    BY <1>1, <2>4, <2>6
<1>4. CASE program.app = "append"
  <2> DEFINE probe == << Send(AppendText(Text(0)), "leave"), Send(CreateResponse(Nil), "leave"),
                         Collect("leave") >>
  <2>1. probe \in Bodies /\ Quiet(probe) /\ Orderly(probe)
    BY Probes, QuietProbes, OrderlyBodies
  <2>2. Functions = << Connect("text"), probe, Finish >>
    BY <1>4 DEF Functions, AppendTextProbe
  <2> HIDE DEF probe
  <2>3. << Connect("text"), probe, Finish >> = (<<Connect("text")>> \o <<probe>>) \o <<Finish>>
    OBVIOUS
  <2>4. <<probe>> \in Plots
    BY <2>1, QuietPlots
  <2>5. QED
    BY <1>1, <2>2, <2>3, <2>4
<1>5. CASE program.app = "audio"
  <2> DEFINE first == <<Connect("audio")>>
             rounds == [r \in 1 .. program.rounds |-> AudioRound(r)]
             all == Rounds(rounds)
  <2>1. all \in Plots
    <3>1. \A r \in 1 .. program.rounds : AudioRound(r) \in Plots
      BY <1>1, AudioRounds
    <3>2. rounds \in [1 .. program.rounds -> Plots]
      BY <3>1
    <3> HIDE DEF rounds
    <3>3. QED
      BY <1>1, <3>2, RoundsJoin
  <2>2. Functions = ((first \o Optional("api", ApiMethodProbe)) \o all) \o <<Finish>>
    BY <1>5 DEF Functions, AudioStream
  <2> HIDE DEF all
  <2>3. first \o <<ApiMethodProbe>> = <<Connect("audio"), ApiMethodProbe>> /\ first \o <<>> = first
    BY Tuples
  <2>4. first \o Optional("api", ApiMethodProbe) \in {first, <<Connect("audio"), ApiMethodProbe>>}
    BY <2>3 DEF Optional, Asked
  <2>5. QED
    BY <1>1, <2>1, <2>2, <2>4
<1>6. QED
  BY <1>1, <1>3, <1>4, <1>5

-----------------------------------------------------------------------------
(* Where main is in its script *)
AtCreated == main.f = 1 /\ main.i = 1
AtUpdate == main.f = 1 /\ main.i = 2
AtClose == main.f = Len(script) /\ main.i = Len(script[Len(script)])

PositionInv ==
  /\ program \in Programs /\ script = Functions
  /\ main \in [f : 1 .. Len(script), i : Nat \ {0}]
  /\ main.i <= Len(script[main.f])

LEMMA ConnectSteps ==
  ASSUME NEW c \in Configs
  PROVE  LET connect == Connect(c)
         IN  /\ Len(connect) = 3
             /\ connect[1].do = "wait" /\ connect[1].fail = "close"
             /\ connect[2].do = "send" /\ connect[2].fail = "close"
             /\ connect[2].arg.type = "session.update"
             /\ connect[3].do = "wait" /\ connect[3].fail = "ignore"
<1> DEFINE connect == Connect(c)
<1>1. /\ Wait("session.created", "close").do = "wait" /\ Wait("session.created", "close").fail = "close"
      /\ Wait("session.updated", "ignore").do = "wait" /\ Wait("session.updated", "ignore").fail = "ignore"
  BY DEF Wait, Step
<1>2. UpdateSession(c) \in Sendable /\ UpdateSession(c).type = "session.update"
  BY ArgsAreSendable, Types, ExamplesAssumption DEF UpdateSession
<1>3. /\ Send(UpdateSession(c), "close").do = "send" /\ Send(UpdateSession(c), "close").fail = "close"
      /\ Send(UpdateSession(c), "close").arg = UpdateSession(c)
  BY DEF Send, Step
<1>4. /\ Len(connect) = 3 /\ connect[1] = Wait("session.created", "close")
      /\ connect[2] = Send(UpdateSession(c), "close") /\ connect[3] = Wait("session.updated", "ignore")
  BY DEF Connect
<1> HIDE DEF connect
<1>5. QED
  BY <1>1, <1>2, <1>3, <1>4 DEF connect

LEMMA FinishSteps ==
  /\ Len(Finish) = 2
  /\ Finish[1].do = "send" /\ Finish[1].fail = "ignore" /\ Finish[1].arg = SessionFinishEvent
  /\ Finish[2].do = "close"
  BY DEF Finish, Send, Close, Step

(* The ends of a script, and what is between them *)
LEMMA ScriptEnds ==
  ASSUME program \in Programs
  PROVE  /\ Functions \in Seq(Bodies) /\ Len(Functions) \in Nat /\ Len(Functions) >= 2
         /\ \E c \in Configs : Functions[1] = Connect(c)
         /\ Functions[Len(Functions)] = Finish
         /\ \A f \in 1 .. Len(Functions) :
              Functions[f] \in Seq(Steps) /\ Len(Functions[f]) \in Nat \ {0}
         /\ \A f \in 1 .. Len(Functions) :
              /\ Orderly(Functions[f])
              /\ \/ Functions[f] = Clearing \/ Functions[f] = Asking \/ Quiet(Functions[f])
                 \/ f = 2 /\ Functions[f] = ApiMethodProbe
              /\ Functions[f] = Asking =>
                   \/ f >= 2 /\ Functions[f - 1] = Clearing
                   \/ f >= 3 /\ Quiet(Functions[f - 1]) /\ Functions[f - 2] = Clearing
<1>0. PICK c \in Configs, rest \in Plots :
        \E first \in {<<Connect(c)>>, <<Connect(c), ApiMethodProbe>>} :
          Functions = (first \o rest) \o <<Finish>>
  BY ScriptForm
<1>1. PICK first \in {<<Connect(c)>>, <<Connect(c), ApiMethodProbe>>} :
        Functions = (first \o rest) \o <<Finish>>
  BY <1>0
<1>2. Connect(c) \in Bodies /\ Finish \in Bodies /\ ApiMethodProbe \in Bodies
  BY ConnectAndFinish, Probes
<1> DEFINE m == Len(first)
           k == Len(rest)
           begin == first \o rest
           last == <<Finish>>
           all == begin \o last
<1>3. /\ first \in Seq(Bodies) /\ m \in 1 .. 2 /\ first[1] = Connect(c)
      /\ m = 2 => first[2] = ApiMethodProbe
  <2>1. CASE first = <<Connect(c)>>
    BY <1>2, <2>1
  <2>2. CASE first = <<Connect(c), ApiMethodProbe>>
    BY <1>2, <2>2
  <2>3. QED
    BY <2>1, <2>2
<1>4. last \in Seq(Bodies) /\ Len(last) = 1 /\ last[1] = Finish
  BY <1>2
<1>5. Functions = all
  BY <1>1
<1>6. rest \in Seq(Bodies) /\ k \in Nat /\ Prepared(rest)
  BY DEF Plots
<1> HIDE DEF m, k, last
<1>7. /\ begin \in Seq(Bodies) /\ Len(begin) = m + k
      /\ \A i \in 1 .. m : begin[i] = first[i]
      /\ \A i \in 1 .. k : begin[m + i] = rest[i]
      /\ \A i \in 1 .. m + k : i \in 1 .. m \/ i - m \in 1 .. k
  BY <1>3, <1>6, Joins DEF m, k
<1> HIDE DEF begin
<1>8. /\ all \in Seq(Bodies) /\ Len(all) = m + k + 1 /\ all[m + k + 1] = Finish
      /\ \A i \in 1 .. m + k : all[i] = begin[i]
  <2>1. /\ all \in Seq(Bodies) /\ Len(all) = Len(begin) + Len(last)
        /\ \A i \in 1 .. Len(begin) : all[i] = begin[i]
        /\ \A i \in 1 .. Len(last) : all[Len(begin) + i] = last[i]
    BY <1>4, <1>7, Joins, SMTT(30)
  <2> HIDE DEF all
  <2>2. 1 \in 1 .. Len(last)
    BY <1>4
  <2>3. QED
    BY <1>4, <1>7, <2>1, <2>2
<1> HIDE DEF all
<1>9. /\ \A i \in 1 .. m : all[i] = first[i]
      /\ \A i \in 1 .. k : all[i + m] = rest[i]
      /\ \A f \in 1 .. Len(all) : f \in 1 .. m \/ f - m \in 1 .. k \/ f = m + k + 1
  <2>1. \A i \in 1 .. m : all[i] = first[i]
    BY <1>3, <1>6, <1>7, <1>8
  <2>2. ASSUME NEW i \in 1 .. k PROVE all[i + m] = rest[i]
    <3>1. m + i \in 1 .. m + k /\ m + i = i + m
      BY <1>3, <1>6
    <3>2. all[m + i] = begin[m + i] /\ begin[m + i] = rest[i]
      BY <1>7, <1>8, <3>1
    <3>3. QED
      BY <3>1, <3>2
  <2>3. \A f \in 1 .. Len(all) : f \in 1 .. m \/ f - m \in 1 .. k \/ f = m + k + 1
    BY <1>3, <1>6, <1>8
  <2>4. QED
    BY <2>1, <2>2, <2>3
<1>10. ASSUME NEW f \in 1 .. Len(all) PROVE all[f] \in Seq(Steps) /\ Len(all[f]) \in Nat \ {0}
  <2>1. all[f] \in Seq(Steps) /\ all[f] # <<>>
    BY <1>8, ElementOfSeq DEF Bodies
  <2>2. QED
    BY <2>1, EmptySeq
<1>11. /\ Quiet(Connect(c)) /\ Quiet(Finish) /\ Orderly(Connect(c)) /\ Orderly(Finish)
       /\ Orderly(ApiMethodProbe)
  BY QuietProbes, OrderlyBodies DEF Orderly
<1>12. ASSUME NEW f \in 1 .. Len(all)
       PROVE  /\ Orderly(all[f])
              /\ \/ all[f] = Clearing \/ all[f] = Asking \/ Quiet(all[f])
                 \/ f = 2 /\ all[f] = ApiMethodProbe
              /\ all[f] = Asking =>
                   \/ f >= 2 /\ all[f - 1] = Clearing
                   \/ f >= 3 /\ Quiet(all[f - 1]) /\ all[f - 2] = Clearing
  <2>1. CASE f \in 1 .. m
    <3>1. all[f] = Connect(c) \/ (f = 2 /\ all[f] = ApiMethodProbe)
      BY <1>3, <1>9, <2>1
    <3>2. QED
      BY <1>11, <3>1, ApiSteps, NotQuiet
  <2>2. CASE f = m + k + 1
    BY <1>8, <1>11, <2>2, NotQuiet
  <2>3. CASE f - m \in 1 .. k
    <3>1. PICK g \in 1 .. k : g = f - m /\ f = g + m
      BY <1>3, <1>6, <2>3
    <3>2. /\ Orderly(rest[g])
          /\ rest[g] = Clearing \/ rest[g] = Asking \/ Quiet(rest[g])
          /\ rest[g] = Asking => \/ g >= 2 /\ rest[g - 1] = Clearing
                                 \/ g >= 3 /\ Quiet(rest[g - 1]) /\ rest[g - 2] = Clearing
      BY <1>6 DEF Prepared, k
    <3>3. all[f] = rest[g]
      BY <1>9, <3>1
    <3>4. g >= 2 => f >= 2 /\ all[f - 1] = rest[g - 1]
      <4>1. ASSUME g >= 2 PROVE g - 1 \in 1 .. k /\ (g - 1) + m = f - 1 /\ f >= 2
        BY <1>3, <1>6, <3>1, <4>1
      <4>2. QED
        BY <1>9, <4>1
    <3>5. g >= 3 => f >= 3 /\ all[f - 2] = rest[g - 2]
      <4>1. ASSUME g >= 3 PROVE g - 2 \in 1 .. k /\ (g - 2) + m = f - 2 /\ f >= 3
        BY <1>3, <1>6, <3>1, <4>1
      <4>2. QED
        BY <1>9, <4>1
    <3>6. g >= 3 => g >= 2
      BY <1>6
    <3>7. QED
      BY <3>2, <3>3, <3>4, <3>5, <3>6
  <2>4. QED
    BY <1>9, <2>1, <2>2, <2>3
<1>13. /\ Len(all) \in Nat /\ Len(all) >= 2 /\ all[1] = Connect(c) /\ all[Len(all)] = Finish
  BY <1>3, <1>6, <1>8, <1>9
<1>14. QED
  BY <1>5, <1>8, <1>10, <1>12, <1>13

LEMMA HereIsStep ==
  ASSUME PositionInv
  PROVE  /\ Here \in Steps
         /\ AtCreated => Here.do = "wait" /\ Here.fail = "close"
         /\ AtUpdate => Here.do = "send" /\ Here.fail = "close" /\ Here.arg.type = "session.update"
         /\ AtClose => Here.do = "close"
         /\ main.f = Len(script) => AtClose \/ (Here.do = "send" /\ Here.fail = "ignore" /\ main.i = 1)
         /\ ~ (AtClose /\ main.f = 1)
<1>1. /\ script = Functions /\ main.f \in 1 .. Len(script) /\ main.i \in 1 .. Len(script[main.f])
  BY ScriptEnds DEF PositionInv
<1>2. script[main.f] \in Seq(Steps)
  BY <1>1, ScriptEnds DEF PositionInv
<1>3. Here \in Steps
  BY <1>1, <1>2, ElementOfSeq DEF Here
<1>4. PICK c \in Configs : script[1] = Connect(c)
  BY <1>1, ScriptEnds DEF PositionInv
<1>5. script[Len(script)] = Finish /\ Len(script) >= 2
  BY <1>1, ScriptEnds DEF PositionInv
<1>6. AtCreated => Here.do = "wait" /\ Here.fail = "close"
  BY <1>4, ConnectSteps DEF AtCreated, Here
<1>7. AtUpdate => Here.do = "send" /\ Here.fail = "close" /\ Here.arg.type = "session.update"
  BY <1>4, ConnectSteps DEF AtUpdate, Here
<1>8. AtClose => Here.do = "close"
  BY <1>5, FinishSteps DEF AtClose, Here
<1>9. main.f = Len(script) => AtClose \/ (Here.do = "send" /\ Here.fail = "ignore" /\ main.i = 1)
  <2>1. ASSUME main.f = Len(script)
        PROVE  AtClose \/ (Here.do = "send" /\ Here.fail = "ignore" /\ main.i = 1)
    <3>1. script[main.f] = Finish /\ script[Len(script)] = Finish /\ Here = Finish[main.i]
      BY <1>5, <2>1 DEF Here
    <3>2. main.i = 1 \/ main.i = 2
      BY <1>1, <3>1, FinishSteps
    <3>3. QED
      BY <2>1, <3>1, <3>2, FinishSteps DEF AtClose
  <2>2. QED
    BY <2>1
<1>10. ~ (AtClose /\ main.f = 1)
  BY <1>1, <1>5 DEF AtClose
<1>11. QED
  BY <1>3, <1>6, <1>7, <1>8, <1>9, <1>10

(* Main goes on, to a step that is not the first, and to the second from the
   first only. *)
LEMMA SucceedGoesOn ==
  ASSUME PositionInv, Here.do # "close", Succeed, UNCHANGED fixed
  PROVE  PositionInv' /\ UNCHANGED status /\ ~AtCreated' /\ (AtUpdate' <=> AtCreated)
<1>1. /\ script = Functions /\ main \in [f : 1 .. Len(script), i : Nat \ {0}]
      /\ main.i \in 1 .. Len(script[main.f]) /\ Len(script) \in Nat
      /\ UNCHANGED <<program, script>> /\ program \in Programs
  BY ScriptEnds DEF PositionInv, fixed
<1>2. Functions' = Functions
  BY <1>1 DEF Functions, TextChat, AppendTextProbe, AudioStream, Rounds, Optional, Asked,
              ApiMethodProbe, AudioRound
<1>3. UNCHANGED status
  BY DEF Succeed
<1>4. CASE main.i < Len(script[main.f])
  <2>1. main' = [main EXCEPT !.i = @ + 1]
    BY <1>4 DEF Succeed
  <2>2. main'.f = main.f /\ main'.i = main.i + 1 /\ main' \in [f : 1 .. Len(script), i : Nat \ {0}]
    BY <1>1, <2>1
  <2>3. ~AtCreated' /\ (AtUpdate' <=> AtCreated)
    BY <1>1, <2>2 DEF AtCreated, AtUpdate
  <2>4. QED
    BY <1>1, <1>2, <1>3, <1>4, <2>2, <2>3 DEF PositionInv
<1>5. CASE ~ (main.i < Len(script[main.f]))
  <2>1. main' = [f |-> main.f + 1, i |-> 1]
    BY <1>5 DEF Succeed
  <2>2. main.f # Len(script)
    <3>1. main.f = Len(script) => main.i = 1 /\ Len(script[main.f]) = 2
      BY <1>1, HereIsStep, ScriptEnds, FinishSteps
    <3>2. QED
      BY <1>5, <3>1
  <2>3. main.f + 1 \in 1 .. Len(script) /\ main.f + 1 >= 2
    BY <1>1, <2>2
  <2>4. Len(script[main.f + 1]) \in Nat \ {0}
    BY <1>1, <2>3, ScriptEnds
  <2>5. main' \in [f : 1 .. Len(script), i : Nat \ {0}] /\ main'.f = main.f + 1 /\ main'.i = 1
    BY <2>1, <2>3
  <2>6. ~AtCreated
    <3>1. AtCreated => Len(script[main.f]) = 3 /\ main.i = 1
      BY <1>1, ScriptEnds, ConnectSteps DEF AtCreated
    <3>2. 1 < 3
      OBVIOUS
    <3>3. AtCreated => main.i < Len(script[main.f])
      BY <3>1, <3>2
    <3>4. QED
      BY <1>5, <3>3
  <2>7. QED
    BY <1>1, <1>2, <1>3, <2>3, <2>4, <2>5, <2>6 DEF PositionInv, AtCreated, AtUpdate
<1>6. QED
  BY <1>4, <1>5

LEMMA FailGoesOn ==
  ASSUME PositionInv, Here.do # "close", Fail, UNCHANGED fixed
  PROVE  /\ PositionInv'
         /\ \/ status' = "exited"
            \/ status' = status /\ AtClose'
            \/ status' = status /\ ~ (AtCreated \/ AtUpdate \/ AtCreated' \/ AtUpdate')
<1>1. /\ script = Functions /\ main \in [f : 1 .. Len(script), i : Nat \ {0}]
      /\ Len(script) \in Nat /\ Len(script) >= 2
      /\ UNCHANGED <<program, script>> /\ program \in Programs
      /\ main.i <= Len(script[main.f])
  BY ScriptEnds DEF PositionInv, fixed
<1>2. Functions' = Functions
  BY <1>1 DEF Functions, TextChat, AppendTextProbe, AudioStream, Rounds, Optional, Asked,
              ApiMethodProbe, AudioRound
<1>3. Here \in Steps /\ Here.fail \in Fails
  BY HereIsStep, StepIsStep
<1>4. AtCreated \/ AtUpdate => Here.fail = "close"
  BY HereIsStep
<1>5. CASE Here.fail = "ignore"
  <2>1. Succeed
    BY <1>5 DEF Fail
  <2>2. QED
    BY <1>4, <1>5, <2>1, SucceedGoesOn
<1>6. CASE Here.fail = "leave"
  <2>1. main' = [f |-> main.f + 1, i |-> 1] /\ UNCHANGED status
    BY <1>6 DEF Fail
  <2>2. main.f # Len(script)
    BY <1>6, HereIsStep
  <2>3. main.f + 1 \in 1 .. Len(script) /\ main.f + 1 >= 2
    BY <1>1, <2>2
  <2>4. Len(script[main.f + 1]) \in Nat \ {0}
    BY <1>1, <2>3, ScriptEnds
  <2>5. main' \in [f : 1 .. Len(script), i : Nat \ {0}] /\ main'.f = main.f + 1 /\ main'.i = 1
    BY <2>1, <2>3
  <2>6. QED
    BY <1>1, <1>2, <1>4, <1>6, <2>1, <2>3, <2>4, <2>5 DEF PositionInv, AtCreated, AtUpdate
<1>7. CASE Here.fail = "close"
  <2>1. main' = [f |-> Len(script), i |-> Len(script[Len(script)])] /\ UNCHANGED status
    BY <1>7 DEF Fail
  <2>2. Len(script[Len(script)]) \in Nat \ {0} /\ Len(script) \in 1 .. Len(script)
    BY <1>1, ScriptEnds
  <2>3. /\ main' \in [f : 1 .. Len(script), i : Nat \ {0}]
        /\ main'.f = Len(script) /\ main'.i = Len(script[Len(script)])
    BY <2>1, <2>2
  <2>4. QED
    BY <1>1, <1>2, <2>1, <2>2, <2>3 DEF PositionInv, AtClose
<1>8. CASE Here.fail = "fatal"
  <2>1. status' = "exited" /\ UNCHANGED main
    BY <1>8 DEF Fail
  <2>2. QED
    BY <1>1, <1>2, <2>1 DEF PositionInv
<1>9. QED
  BY <1>3, <1>5, <1>6, <1>7, <1>8 DEF Fails

(* A select does not change what main knows of the server. *)
LEMMA SelectsGoOn ==
  ASSUME PositionInv, Select \/ Timer
  PROVE  /\ status = "running" /\ Here.do \in {"wait", "collect"}
         /\ UNCHANGED <<fixed, serverVars, resending, cleared, configured, reconnects>>
         /\ Succeed \/ Fail \/ UNCHANGED <<main, status>>
<1>1. /\ status = "running" /\ Here.do \in {"wait", "collect"}
      /\ UNCHANGED <<fixed, serverVars, resending, cleared, configured, reconnects>>
  BY DEF Select, Timer, Selected, SelectEvent, SelectError, SelectClosed, SelectTimer,
         Selecting, Doing
<1>2. ASSUME NEW gathered, NEW how, NEW err, Return(gathered, how, err) PROVE Succeed \/ Fail
  BY <1>2 DEF Return
<1>3. ASSUME NEW how, GiveUp(how) PROVE Succeed \/ Fail
  BY <1>2, <1>3 DEF GiveUp
<1>4. ASSUME NEW event, CollectEvent(event) PROVE Succeed \/ Fail \/ UNCHANGED <<main, status>>
  <2>1. ASSUME NEW gathered, KeepCollecting(gathered) PROVE UNCHANGED <<main, status>>
    BY <2>1 DEF KeepCollecting
  <2>2. QED
    BY <1>2, <1>4, <2>1 DEF CollectEvent
<1>5. ASSUME NEW event, WaitEvent(event) PROVE Succeed \/ Fail \/ UNCHANGED <<main, status>>
  BY <1>5 DEF WaitEvent
<1>6. CASE SelectEvent
  BY <1>1, <1>4, <1>5, <1>6 DEF SelectEvent
<1>7. CASE SelectError
  BY <1>1, <1>2, <1>7 DEF SelectError
<1>8. CASE SelectClosed
  BY <1>1, <1>3, <1>8 DEF SelectClosed
<1>9. CASE SelectTimer
  BY <1>1, <1>3, <1>9 DEF SelectTimer
<1>10. QED
  BY <1>6, <1>7, <1>8, <1>9 DEF Select, Timer

LEMMA PositionInvStep == PositionInv /\ [ExamplesNext]_examplesVars => PositionInv'
<1> SUFFICES ASSUME PositionInv, [ExamplesNext]_examplesVars PROVE PositionInv'
  OBVIOUS
<1>1. ASSUME UNCHANGED <<fixed, main>> PROVE PositionInv'
  <2>1. UNCHANGED <<program, script>>
    BY <1>1 DEF fixed
  <2>2. Functions' = Functions
    BY <2>1 DEF Functions, TextChat, AppendTextProbe, AudioStream, Rounds, Optional, Asked,
                ApiMethodProbe, AudioRound
  <2>3. QED
    BY <1>1, <2>1, <2>2 DEF PositionInv
<1>2. CASE Arrive \/ StreamFails \/ Reconnect \/ Pump \/ Over \/ UNCHANGED examplesVars
  BY <1>1, <1>2 DEF Arrive, StreamFails, Reconnect, Pump, Over, examplesVars, mainVars
<1>3. CASE SendReturns
  <2>1. Here.do # "close" /\ UNCHANGED fixed
    BY <1>3 DEF SendReturns, SendSucceeds, SendFails, Doing
  <2>2. Succeed \/ Fail
    BY <1>3 DEF SendReturns, SendSucceeds, SendFails
  <2>3. QED
    BY <2>1, <2>2, SucceedGoesOn, FailGoesOn
<1>4. CASE SendBreaksOff
  BY <1>1, <1>4 DEF SendBreaksOff, SendBreaks
<1>5. CASE Select \/ Timer
  <2>1. Here.do # "close" /\ UNCHANGED fixed
    BY <1>5, SelectsGoOn
  <2>2. Succeed \/ Fail \/ UNCHANGED <<main, status>>
    BY <1>5, SelectsGoOn
  <2>3. QED
    BY <1>1, <2>1, <2>2, SucceedGoesOn, FailGoesOn
<1>6. CASE CloseSession
  BY <1>1, <1>6 DEF CloseSession
<1>7. QED
  BY <1>2, <1>3, <1>4, <1>5, <1>6 DEF ExamplesNext, Main

(* What main knows of the server's configuration.  Once it is past the update
   in connect the server has one, and it is the one main has been told of,
   except between the two attempts of an update. *)
ConfiguredInv ==
  /\ reconnects \in Nat
  /\ resending /\ status = "running" => Here.do = "send"
  /\ status = "running" /\ reconnects = 0 =>
       /\ server.config # Nil \/ AtCreated \/ AtUpdate \/ AtClose
       /\ \/ configured \in {Nil, server.config}
          \/ resending /\ Here.arg.type = "session.update"

LEMMA RequestSets ==
  ASSUME ServerOK, NEW request, Handle(request)
  PROVE  /\ request.type = "session.update" => server'.config = request.session
         /\ request.type # "session.update" => server'.config = server.config
         /\ request.type # "response.create" => asked' = asked
<1>1. \A config, buffer, outbox, record :
        record = [config |-> config, buffer |-> buffer, outbox |-> outbox] =>
          record.config = config /\ record.buffer = buffer /\ record.outbox = outbox
  OBVIOUS
<1>2. server = [config |-> server.config, buffer |-> server.buffer, outbox |-> server.outbox]
  BY DEF ServerOK
<1>3. request.type = "session.update" => server'.config = request.session
  BY <1>2 DEF Handle
<1>4. request.type # "session.update" => server'.config = server.config
  BY <1>2 DEF Handle, Sends, serverVars
<1>5. request.type # "response.create" => asked' = asked
  BY DEF Handle, serverVars, requestVars
<1>6. QED
  BY <1>3, <1>4, <1>5

LEMMA ConfiguredInvInit == ExamplesInit => PositionInv /\ ConfiguredInv
<1> SUFFICES ASSUME ExamplesInit PROVE PositionInv /\ ConfiguredInv
  OBVIOUS
<1>1. /\ program \in Programs /\ script = Functions /\ main = [f |-> 1, i |-> 1]
      /\ reconnects = 0 /\ resending = FALSE /\ configured = Nil
  BY DEF ExamplesInit
<1>2. 1 \in 1 .. Len(script) /\ Len(script[1]) \in Nat \ {0}
  BY <1>1, ScriptEnds
<1>3. PositionInv
  BY <1>1, <1>2 DEF PositionInv
<1>4. ConfiguredInv
  BY <1>1 DEF ConfiguredInv, AtCreated
<1>5. QED
  BY <1>3, <1>4

LEMMA ConfiguredInvStep ==
  PumpedInv /\ PositionInv /\ ConfiguredInv /\ [ExamplesNext]_examplesVars => ConfiguredInv'
<1> SUFFICES ASSUME PumpedInv, PositionInv, ConfiguredInv, [ExamplesNext]_examplesVars
             PROVE  ConfiguredInv'
  OBVIOUS
<1>1. /\ reconnects \in Nat /\ ServerOK
  BY DEF ConfiguredInv, PumpedInv
<1>2. ASSUME UNCHANGED <<script, main>> PROVE Here' = Here /\ AtCreated' = AtCreated
                                       /\ AtUpdate' = AtUpdate /\ AtClose' = AtClose
  BY <1>2 DEF Here, AtCreated, AtUpdate, AtClose
<1>3. CASE Arrive
  <2>1. UNCHANGED <<script, main, status, resending, configured, reconnects>>
    BY <1>3 DEF Arrive, fixed, mainVars
  <2>2. server'.config = server.config
    BY <1>1, <1>3 DEF Arrive, ServerOK
  <2>3. QED
    BY <1>2, <2>1, <2>2 DEF ConfiguredInv
<1>4. CASE Reconnect
  BY <1>1, <1>4 DEF Reconnect, ConfiguredInv
<1>5. CASE StreamFails \/ Pump \/ Over \/ UNCHANGED examplesVars
  <2>1. UNCHANGED <<script, main, status, resending, configured, reconnects, server>>
    BY <1>5 DEF StreamFails, Pump, Over, examplesVars, fixed, mainVars, serverVars
  <2>2. QED
    BY <1>2, <2>1 DEF ConfiguredInv
<1>6. CASE CloseSession
  BY <1>1, <1>6 DEF CloseSession, ConfiguredInv
<1>7. CASE SendReturns
  <2>1. /\ Here.do = "send" /\ status = "running" /\ UNCHANGED <<fixed, reconnects>> /\ resending' = FALSE
    BY <1>7 DEF SendReturns, SendSucceeds, SendFails, Doing
  <2>2. CASE SendSucceeds
    <3>1. ~resending /\ Handle(Here.arg) /\ Succeed
          /\ configured' = IF Here.arg.type = "session.update" THEN Here.arg.session ELSE configured
      BY <2>2 DEF SendSucceeds, Noted
    <3>2. ~AtCreated' /\ (AtUpdate' <=> AtCreated) /\ UNCHANGED status
      BY <2>1, <3>1, SucceedGoesOn
    <3>3. ~AtCreated /\ ~AtClose /\ (AtUpdate => Here.arg.type = "session.update")
      BY <2>1, HereIsStep
    <3>4. Here.arg.type = "session.update" => Here.arg.session # Nil
      BY <2>1, HereIsStep, StepIsStep, UpdatesHaveConfigs
    <3>5. QED
      BY <1>1, <2>1, <3>1, <3>2, <3>3, <3>4, RequestSets DEF ConfiguredInv
  <2>3. CASE SendFails
    <3>1. /\ Fail
          /\ configured' = IF Here.arg.type = "session.update" THEN Nil ELSE configured
          /\ UNCHANGED serverVars \/ Handle(Here.arg)
      BY <2>3 DEF SendFails
    <3>2. \/ status' = "exited"
          \/ status' = status /\ AtClose'
          \/ status' = status /\ ~ (AtCreated \/ AtUpdate \/ AtCreated' \/ AtUpdate')
      BY <2>1, <3>1, FailGoesOn
    <3>3. ~AtClose
      BY <2>1, HereIsStep
    <3>4. Here.arg.type = "session.update" => Here.arg.session # Nil
      BY <2>1, HereIsStep, StepIsStep, UpdatesHaveConfigs
    <3>5. /\ Here.arg.type # "session.update" => server'.config = server.config
          /\ server'.config = server.config
             \/ (Here.arg.type = "session.update" /\ server'.config = Here.arg.session)
      BY <1>1, <3>1, RequestSets DEF serverVars
    <3>6. QED
      BY <1>1, <2>1, <3>1, <3>2, <3>3, <3>4, <3>5 DEF ConfiguredInv
  <2>4. QED
    BY <1>7, <2>2, <2>3 DEF SendReturns
<1>8. CASE SendBreaksOff
  <2>1. /\ Here.do = "send" /\ status = "running" /\ ~resending /\ Handle(Here.arg) /\ resending' = TRUE
        /\ UNCHANGED <<script, main, status, configured, reconnects>>
    BY <1>8 DEF SendBreaksOff, SendBreaks, Doing, fixed
  <2>2. Here.arg.type = "session.update" => Here.arg.session # Nil
    BY <2>1, HereIsStep, StepIsStep, UpdatesHaveConfigs
  <2>3. QED
    BY <1>1, <1>2, <2>1, <2>2, RequestSets DEF ConfiguredInv
<1>9. CASE Select \/ Timer
  <2>1. /\ status = "running" /\ Here.do \in {"wait", "collect"} /\ ~resending
        /\ UNCHANGED <<fixed, server, resending, configured, reconnects>>
    BY <1>9, SelectsGoOn DEF serverVars, ConfiguredInv
  <2>2. ~AtUpdate /\ ~AtClose
    BY <2>1, HereIsStep
  <2>3. CASE Succeed
    <3>1. ~AtCreated' /\ (AtUpdate' <=> AtCreated)
      BY <2>1, <2>3, SucceedGoesOn
    <3>2. UNCHANGED status
      BY <2>1, <2>3, SucceedGoesOn
    <3>3. QED
      BY <2>1, <2>2, <3>1, <3>2 DEF ConfiguredInv
  <2>4. CASE Fail
    <3>1. \/ status' = "exited"
          \/ status' = status /\ AtClose'
          \/ status' = status /\ ~ (AtCreated \/ AtUpdate \/ AtCreated' \/ AtUpdate')
      BY <2>1, <2>4, FailGoesOn
    <3>2. QED
      BY <2>1, <2>2, <3>1 DEF ConfiguredInv
  <2>5. CASE UNCHANGED <<main, status>>
    BY <1>2, <2>1, <2>5 DEF ConfiguredInv, fixed
  <2>6. QED
    BY <1>9, <2>3, <2>4, <2>5, SelectsGoOn
<1>10. QED
  BY <1>3, <1>4, <1>5, <1>6, <1>7, <1>8, <1>9 DEF ExamplesNext, Main

(* text-chat:228, audio-stream:203 and session.go:326-328: in any application
   every response is made by a server that has a configuration, the one main
   has been told it has, until a reconnect. *)
THEOREM ConfiguredBeforeAsked == ExamplesSpec => ServedAsConfigured
<1>1. ExamplesInit => PumpedInv /\ PositionInv /\ ConfiguredInv
  BY PumpedInvInit, ConfiguredInvInit
<1>2. PumpedInv /\ PositionInv /\ ConfiguredInv /\ [ExamplesNext]_examplesVars
        => (PumpedInv /\ PositionInv /\ ConfiguredInv)'
  BY PumpedInvStep, PositionInvStep, ConfiguredInvStep
<1>3. PumpedInv /\ PositionInv /\ ConfiguredInv /\ [ExamplesNext]_examplesVars
        => [asked' > asked /\ reconnects = 0 =>
              server.config # Nil /\ configured \in {Nil, server.config}]_examplesVars
  <2> SUFFICES ASSUME PumpedInv, PositionInv, ConfiguredInv, [ExamplesNext]_examplesVars,
                      asked' > asked, reconnects = 0
               PROVE  server.config # Nil /\ configured \in {Nil, server.config}
    OBVIOUS
  <2>1. asked \in Nat /\ ServerOK
    BY DEF PumpedInv, ServerOK
  <2>2. ~ (UNCHANGED asked)
    BY <2>1
  <2>3. SendReturns \/ SendBreaksOff
    <3>1. CASE Arrive \/ StreamFails \/ Reconnect \/ Pump \/ Over \/ CloseSession
               \/ UNCHANGED examplesVars
      BY <2>2, <3>1 DEF Arrive, StreamFails, Reconnect, Pump, Over, CloseSession, examplesVars,
                        serverVars, requestVars
    <3>2. CASE Select \/ Timer
      BY <2>2, <3>2, SelectsGoOn DEF serverVars, requestVars
    <3>3. QED
      BY <3>1, <3>2 DEF ExamplesNext, Main
  <2>4. Doing("send") /\ ~resending /\ Handle(Here.arg)
    BY <2>2, <2>3 DEF SendReturns, SendBreaksOff, SendSucceeds, SendFails, SendBreaks, serverVars, requestVars
  <2>5. Here.arg.type = "response.create"
    BY <2>1, <2>2, <2>4, RequestSets
  <2>6. ~AtCreated /\ ~AtUpdate /\ ~AtClose
    BY <2>4, <2>5, HereIsStep DEF Doing
  <2>7. QED
    BY <2>4, <2>6 DEF ConfiguredInv, Doing
<1>4. QED
  BY <1>1, <1>2, <1>3, PTL DEF ExamplesSpec, ServedAsConfigured

-----------------------------------------------------------------------------
(* The audio at the server.  How far the first k chunks go *)
Ends(k) == IF k * ChunkSize < Len(Audio) THEN k * ChunkSize ELSE Len(Audio)

LEMMA ChunksJoin ==
  /\ \A k \in 0 .. Count : Ends(k) \in 0 .. Len(Audio)
  /\ Ends(0) = 0 /\ Ends(Count) = Len(Audio)
  /\ \A k \in 1 .. Count, a \in 1 .. Len(Audio) + 1 :
       a <= Ends(k - 1) + 1 =>
         /\ SubSeq(Audio, a, Ends(k - 1)) \o Chunks(Audio)[k] = SubSeq(Audio, a, Ends(k))
         /\ a <= Ends(k) + 1
<1> DEFINE size == ChunkSize
           len == Len(Audio)
<1>1. /\ size \in Nat \ {0} /\ len \in Nat \ {0} /\ Count \in Nat \ {0} /\ Audio \in Seq(Nat)
      /\ Count = (len + size - 1) \div size
  BY AudioIsBytes DEF Count
<1>2. \A k : Ends(k) = IF k * size < len THEN k * size ELSE len
  BY DEF Ends
<1>3. ASSUME NEW k \in 1 .. Count
      PROVE  Chunks(Audio)[k] = SubSeq(Audio, (k - 1) * size + 1, Min({k * size, len}))
  BY <1>3 DEF Chunks, Count
<1> HIDE DEF size, len
<1>4. Count * size >= len /\ (Count - 1) * size < len /\ Count * size \in Nat
  <2> DEFINE c == (len + size - 1) \div size
  <2>1. c * size <= len + size - 1 /\ len + size - 1 < (c + 1) * size /\ c \in Nat
    BY <1>1
  <2> HIDE DEF c
  <2>2. c = Count
    BY <1>1 DEF c
  <2>3. (c + 1) * size = c * size + size /\ (c - 1) * size = c * size - size /\ c * size \in Nat
    BY <1>1, <2>1
  <2>4. QED
    BY <1>1, <2>1, <2>2, <2>3
<1>5. ASSUME NEW k \in 0 .. Count PROVE k * size \in Nat /\ Ends(k) \in 0 .. len
  <2>1. k * size \in Nat
    BY <1>1
  <2>2. QED
    BY <1>1, <1>2, <2>1
<1>6. Ends(0) = 0 /\ Ends(Count) = len
  BY <1>1, <1>2, <1>4
<1>7. ASSUME NEW k \in 1 .. Count
      PROVE  /\ Ends(k - 1) = (k - 1) * size /\ Ends(k - 1) < Ends(k)
             /\ Min({k * size, len}) = Ends(k)
  <2>1. k - 1 \in 0 .. Count /\ k \in 0 .. Count
    BY <1>1
  <2>2. (k - 1) * size = k * size - size /\ k * size <= Count * size
    BY <1>1
  <2>3. k * size \in Nat /\ (k - 1) * size \in Nat /\ Count * size < len + size
    BY <1>1, <1>4, <1>5, <2>1
  <2>4. (k - 1) * size < len /\ (k - 1) * size < k * size
    BY <1>1, <2>2, <2>3
  <2>5. Ends(k - 1) = (k - 1) * size /\ Ends(k - 1) < Ends(k)
    BY <1>1, <1>2, <2>3, <2>4
  <2>6. Min({k * size, len}) = Ends(k)
    <3>1. Ends(k) \in {k * size, len} /\ Ends(k) <= k * size /\ Ends(k) <= len
      BY <1>1, <1>2, <2>3
    <3>2. \A x \in {k * size, len} : (\A y \in {k * size, len} : x <= y) => x = Ends(k)
      BY <1>1, <2>3, <3>1
    <3>3. QED
      BY <3>1, <3>2 DEF Min
  <2>7. QED
    BY <2>5, <2>6
<1>8. ASSUME NEW k \in 1 .. Count, NEW a \in 1 .. len + 1, a <= Ends(k - 1) + 1
      PROVE  /\ SubSeq(Audio, a, Ends(k - 1)) \o Chunks(Audio)[k] = SubSeq(Audio, a, Ends(k))
             /\ a <= Ends(k) + 1
  <2>1. k - 1 \in 0 .. Count /\ k \in 0 .. Count
    BY <1>1
  <2>2. Ends(k - 1) \in 0 .. len /\ Ends(k) \in 0 .. len /\ Ends(k - 1) < Ends(k)
    BY <1>5, <1>7, <2>1
  <2>3. Chunks(Audio)[k] = SubSeq(Audio, Ends(k - 1) + 1, Ends(k))
    BY <1>3, <1>7
  <2> DEFINE e == Ends(k - 1)
             f == Ends(k)
  <2>4. a \in 1 .. Len(Audio) + 1 /\ e \in a - 1 .. Len(Audio) /\ f \in e .. Len(Audio) /\ a <= f + 1
    BY <1>1, <1>8, <2>2 DEF len
  <2> HIDE DEF e, f
  <2>5. SubSeq(Audio, a, e) \o SubSeq(Audio, e + 1, f) = SubSeq(Audio, a, f)
    BY <1>1, <2>4, ConcatAdjacentSubSeq
  <2>6. QED
    BY <2>3, <2>4, <2>5 DEF e, f
<1>9. QED
  BY <1>5, <1>6, <1>8 DEF len

Body == script[main.f]
Buffer == server.buffer

(* What is in the server's buffer while the file is sent: the chunks before
   main's, from the first one on or from the last reconnect. *)
Filling ==
  IF main.i > Count + 1 THEN cleared # reconnects
  ELSE resending \/ \E a \in 1 .. Len(Audio) + 1 :
                      /\ a <= Ends(main.i - 1) + 1
                      /\ Buffer = SubSeq(Audio, a, Ends(main.i - 1))
                      /\ cleared = reconnects => a = 1

Probing ==
  /\ cleared # reconnects
  /\ Buffer = <<>> \/ (Buffer = Opening /\ (main.i > 1 \/ resending))

BufferOK ==
  /\ main.f = 1 => Buffer = <<>> /\ cleared = Nil
  /\ Body = Asking => Filling
  /\ Body = ApiMethodProbe => Probing
  /\ Quiet(Body) /\ main.f < Len(script) /\ script[main.f + 1] = Asking => Buffer = <<>>

AudioInv ==
  /\ reconnects \in Nat /\ cleared \in Nat \cup {Nil}
  /\ cleared # Nil => cleared <= reconnects
  /\ commits \in Seq([audio : Seq(Nat), whole : BOOLEAN])
  /\ CommittedAudio
  /\ status = "running" => BufferOK

LEMMA RequestFills ==
  ASSUME ServerOK, NEW request, Handle(request)
  PROVE  /\ request.type = "input_audio_buffer.append" =>
              Buffer' = Buffer \o Bytes(request.audio)
         /\ request.type \in {"input_audio_buffer.clear", "input_audio_buffer.commit"} =>
              Buffer' = <<>>
         /\ request.type \notin Buffering => Buffer' = Buffer
         /\ request.type = "input_audio_buffer.commit" =>
              commits' = Append(commits, [audio |-> Buffer, whole |-> cleared = reconnects])
         /\ request.type # "input_audio_buffer.commit" => commits' = commits
<1>1. server = [config |-> server.config, buffer |-> server.buffer, outbox |-> server.outbox]
  BY DEF ServerOK
<1>2. request.type = "input_audio_buffer.append" =>
        Buffer' = Buffer \o Bytes(request.audio)
  BY <1>1 DEF Handle, Buffer
<1>3. request.type \in {"input_audio_buffer.clear", "input_audio_buffer.commit"} => Buffer' = <<>>
  BY <1>1 DEF Handle, Buffer
<1>4. request.type \notin Buffering => Buffer' = Buffer
  BY <1>1 DEF Handle, Buffer, Sends, serverVars, Buffering
<1>5. request.type = "input_audio_buffer.commit" =>
        commits' = Append(commits, [audio |-> Buffer, whole |-> cleared = reconnects])
  BY DEF Handle, Buffer
<1>6. request.type # "input_audio_buffer.commit" => commits' = commits
  BY DEF Handle, serverVars
<1>7. QED
  BY <1>2, <1>3, <1>4, <1>5, <1>6

(* Which function main is in, and which one may come next *)
LEMMA BodyKinds ==
  ASSUME PositionInv
  PROVE  /\ Body = Clearing \/ Body = Asking \/ Quiet(Body) \/ (main.f = 2 /\ Body = ApiMethodProbe)
         /\ main.f = 1 \/ main.f = Len(script) => Quiet(Body)
         /\ main.f < Len(script) /\ script[main.f + 1] = Asking =>
              Body = Clearing \/ (main.f >= 2 /\ Quiet(Body) /\ script[main.f - 1] = Clearing)
         /\ main.f < Len(script) /\ script[main.f + 1] = ApiMethodProbe => main.f = 1
<1>1. /\ script = Functions /\ main.f \in 1 .. Len(script) /\ Len(script) \in Nat
      /\ program \in Programs
  BY ScriptEnds DEF PositionInv
<1>2. \A f \in 1 .. Len(script) :
        /\ script[f] = Clearing \/ script[f] = Asking \/ Quiet(script[f])
           \/ (f = 2 /\ script[f] = ApiMethodProbe)
        /\ script[f] = Asking =>
             \/ f >= 2 /\ script[f - 1] = Clearing
             \/ f >= 3 /\ Quiet(script[f - 1]) /\ script[f - 2] = Clearing
  BY <1>1, ScriptEnds
<1>3. main.f = 1 \/ main.f = Len(script) => Quiet(Body)
  BY <1>1, ScriptEnds, QuietProbes DEF Body
<1>4. ASSUME main.f < Len(script)
      PROVE  /\ script[main.f + 1] = Asking =>
                  Body = Clearing \/ (main.f >= 2 /\ Quiet(Body) /\ script[main.f - 1] = Clearing)
             /\ script[main.f + 1] = ApiMethodProbe => main.f = 1
  <2>1. PICK g \in 1 .. Len(script) :
          g = main.f + 1 /\ g - 1 = main.f /\ g - 2 = main.f - 1 /\ (g >= 3 => main.f >= 2)
    BY <1>1, <1>4
  <2>2. /\ script[g] = Asking =>
             \/ script[g - 1] = Clearing
             \/ g >= 3 /\ Quiet(script[g - 1]) /\ script[g - 2] = Clearing
        /\ script[g] = ApiMethodProbe => g = 2
    BY <1>2, ApiSteps
  <2>3. g = 2 => main.f = 1
    BY <1>1, <2>1
  <2>4. QED
    BY <2>1, <2>2, <2>3 DEF Body
<1>5. QED
  BY <1>1, <1>2, <1>3, <1>4 DEF Body

LEMMA NextBodies ==
  PositionInv =>
    (main.f < Len(script) /\ script[main.f + 1] = Asking =>
       Body = Clearing \/ (main.f >= 2 /\ Quiet(Body) /\ script[main.f - 1] = Clearing))
  BY BodyKinds

LEMMA BodySteps ==
  ASSUME PositionInv
  PROVE  /\ main.i \in 1 .. Len(Body) /\ Here = Body[main.i]
         /\ Quiet(Body) /\ Here.do = "send" => Here.arg.type \notin Buffering
         /\ Body = Clearing => /\ Here.do = "send" /\ Here.fail = "fatal"
                               /\ Here.arg.type = "input_audio_buffer.clear"
         /\ Body = Asking =>
              /\ Here.fail = "fatal" /\ Len(Body) = Count + 3
              /\ main.i <= Count =>
                   /\ Here.do = "send" /\ Here.arg.type = "input_audio_buffer.append"
                   /\ Bytes(Here.arg.audio) = Chunks(Audio)[main.i]
              /\ main.i = Count + 1 =>
                   Here.do = "send" /\ Here.arg.type = "input_audio_buffer.commit"
              /\ main.i > Count + 1 /\ Here.do = "send" => Here.arg.type \notin Buffering
         /\ Body = ApiMethodProbe /\ Here.do = "send" =>
                /\ Here.arg.type = "input_audio_buffer.append" =>
                     main.i = 1 /\ Bytes(Here.arg.audio) = Opening
                /\ Here.arg.type # "input_audio_buffer.clear" \/ main.i = Len(Body)
<1>1. main.i \in 1 .. Len(Body) /\ Here = Body[main.i] /\ Len(Body) \in Nat
  <2>1. script = Functions /\ main.f \in 1 .. Len(script) /\ program \in Programs
    BY ScriptEnds DEF PositionInv
  <2>2. Len(script[main.f]) \in Nat
    BY <2>1, ScriptEnds
  <2>3. QED
    BY <2>2 DEF PositionInv, Body, Here
<1>2. \A bytes : Bytes(InputAudioAppendEvent(Base64(bytes)).audio) = bytes
  BY DEF InputAudioAppendEvent, Base64, Bytes
<1>3. \A x, fail : Send(x, fail).do = "send" /\ Send(x, fail).arg = x /\ Send(x, fail).fail = fail
                   /\ Collect(fail).do = "collect" /\ Collect(fail).fail = fail
  BY DEF Send, Collect, Step
<1>4. /\ \A b : InputAudioAppendEvent(b).type = "input_audio_buffer.append"
      /\ InputAudioCommitEvent.type = "input_audio_buffer.commit"
      /\ InputAudioClearEvent.type = "input_audio_buffer.clear"
      /\ CreateResponse(Nil).type = "response.create"
  BY Types DEF InputAudioCommitEvent, InputAudioClearEvent
<1>5. Quiet(Body) /\ Here.do = "send" => Here.arg.type \notin Buffering
  BY <1>1 DEF Quiet
<1>6. ASSUME Body = Clearing
      PROVE  Here.do = "send" /\ Here.fail = "fatal" /\ Here.arg.type = "input_audio_buffer.clear"
  <2>1. main.i = 1
    BY <1>1, <1>6, AskingSteps
  <2>2. Here = Send(InputAudioClearEvent, "fatal")
    BY <1>1, <1>6, <2>1, AskingSteps
  <2>3. QED
    BY <1>3, <1>4, <2>2
<1>7. ASSUME Body = Asking
      PROVE  /\ Here.fail = "fatal" /\ Len(Body) = Count + 3
             /\ main.i <= Count =>
                  /\ Here.do = "send" /\ Here.arg.type = "input_audio_buffer.append"
                  /\ Bytes(Here.arg.audio) = Chunks(Audio)[main.i]
             /\ main.i = Count + 1 =>
                  Here.do = "send" /\ Here.arg.type = "input_audio_buffer.commit"
             /\ main.i > Count + 1 /\ Here.do = "send" => Here.arg.type \notin Buffering
  <2>1. Count \in Nat \ {0} /\ main.i \in 1 .. Count + 3 /\ Len(Body) = Count + 3
    BY <1>1, <1>7, AskingSteps
  <2>2. CASE main.i \in 1 .. Count
    <3>1. Here = Send(InputAudioAppendEvent(Base64(Chunks(Audio)[main.i])), "fatal")
      BY <1>1, <1>7, <2>2, AskingSteps
    <3>2. QED
      BY <1>2, <1>3, <1>4, <2>1, <2>2, <3>1
  <2>3. CASE main.i = Count + 1
    <3>1. Here = Send(InputAudioCommitEvent, "fatal")
      BY <1>1, <1>7, <2>3, AskingSteps
    <3>2. QED
      BY <1>3, <1>4, <2>1, <2>3, <3>1
  <2>4. CASE main.i = Count + 2
    <3>1. Here = Send(CreateResponse(Nil), "fatal")
      BY <1>1, <1>7, <2>4, AskingSteps
    <3>2. QED
      BY <1>3, <1>4, <2>1, <2>4, <3>1 DEF Buffering
  <2>5. CASE main.i = Count + 3
    <3>1. Here = Collect("fatal")
      BY <1>1, <1>7, <2>5, AskingSteps
    <3>2. QED
      BY <1>3, <2>1, <2>5, <3>1
  <2>6. QED
    BY <2>1, <2>2, <2>3, <2>4, <2>5
<1>8. ASSUME Body = ApiMethodProbe
      PROVE  Here.do = "send" =>
               /\ Here.arg.type = "input_audio_buffer.append" =>
                    main.i = 1 /\ Bytes(Here.arg.audio) = Opening
               /\ Here.arg.type # "input_audio_buffer.clear" \/ main.i = Len(Body)
  <2>1. SUFFICES ASSUME Here.do = "send"
                 PROVE  /\ Here.arg.type = "input_audio_buffer.append" =>
                             main.i = 1 /\ Bytes(Here.arg.audio) = Opening
                        /\ Here.arg.type # "input_audio_buffer.clear" \/ main.i = Len(Body)
    OBVIOUS
  <2>2. /\ Here.arg.type = "input_audio_buffer.append" => main.i = 1 /\ Here = OpeningStep
        /\ Here.arg.type = "input_audio_buffer.clear" => main.i = Len(Body)
    BY <1>1, <1>8, <2>1, ApiSteps
  <2>3. Bytes(OpeningStep.arg.audio) = Opening
    BY <1>2, <1>3 DEF OpeningStep
  <2>4. QED
    BY <2>2, <2>3
<1>9. QED
  BY <1>1, <1>5, <1>6, <1>7, <1>8

(* How main moves *)
LEMMA MainMoves ==
  ASSUME PositionInv, Here.do # "close", Succeed \/ (Fail /\ Here.fail # "fatal"), UNCHANGED fixed
  PROVE  /\ PositionInv' /\ UNCHANGED script
         /\ \/ /\ main'.f = main.f /\ main'.i = main.i + 1 /\ main.i < Len(Body)
            \/ /\ main'.f = main.f + 1 /\ main'.i = 1 /\ main.f < Len(script)
            \/ AtClose'
<1>1. PositionInv' /\ UNCHANGED script /\ PositionInv
  BY SucceedGoesOn, FailGoesOn DEF fixed
<1>2. /\ main \in [f : 1 .. Len(script), i : Nat \ {0}] /\ Len(script) \in Nat
      /\ main' \in [f : 1 .. Len(script), i : Nat \ {0}]
  BY <1>1, ScriptEnds DEF PositionInv
<1>3. ASSUME Succeed
      PROVE  \/ main'.f = main.f /\ main'.i = main.i + 1 /\ main.i < Len(Body)
             \/ main'.f = main.f + 1 /\ main'.i = 1
  <2>1. CASE main.i < Len(script[main.f])
    <3>1. main' = [main EXCEPT !.i = @ + 1]
      BY <1>3, <2>1 DEF Succeed
    <3>2. QED
      BY <1>2, <2>1, <3>1 DEF Body
  <2>2. CASE ~ (main.i < Len(script[main.f]))
    <3>1. main' = [f |-> main.f + 1, i |-> 1]
      BY <1>3, <2>2 DEF Succeed
    <3>2. QED
      BY <3>1
  <2>3. QED
    BY <2>1, <2>2
<1>4. ASSUME Fail, Here.fail # "fatal"
      PROVE  \/ Succeed
             \/ main'.f = main.f + 1 /\ main'.i = 1
             \/ AtClose'
  <2>1. Here.fail \in Fails
    BY HereIsStep, StepIsStep
  <2>2. CASE Here.fail = "ignore"
    BY <1>4, <2>2 DEF Fail
  <2>3. CASE Here.fail = "leave"
    <3>1. main' = [f |-> main.f + 1, i |-> 1]
      BY <1>4, <2>3 DEF Fail
    <3>2. QED
      BY <3>1
  <2>4. CASE Here.fail = "close"
    <3>1. main' = [f |-> Len(script), i |-> Len(script[Len(script)])]
      BY <1>4, <2>4 DEF Fail
    <3>2. QED
      BY <1>1, <3>1 DEF AtClose
  <2>5. QED
    BY <1>4, <2>1, <2>2, <2>3, <2>4 DEF Fails
<1>5. main'.f = main.f + 1 => main.f < Len(script)
  <2>1. main.f \in Nat /\ main'.f \in 1 .. Len(script)
    BY <1>2
  <2>2. QED
    BY <1>2, <2>1
<1>6. QED
  BY <1>1, <1>3, <1>4, <1>5

(* Main comes to the next function. *)
LEMMA Enters ==
  ASSUME PositionInv, PositionInv', BufferOK, UNCHANGED <<fixed, reconnects>>, reconnects \in Nat,
         main'.f = main.f + 1, main'.i = 1, main.f < Len(script), ~resending',
         Quiet(Body) => Buffer' = Buffer, Body = Clearing => Buffer' = <<>>,
         main.f = 1 => cleared' = Nil
  PROVE  BufferOK'
<1>1. /\ main.f \in Nat \ {0} /\ Body' = script[main.f + 1] /\ Len(script) \in Nat
      /\ UNCHANGED <<program, script>>
  BY ScriptEnds DEF PositionInv, Body, fixed
<1> DEFINE api == ApiMethodProbe
<1>7. api' = api
  BY <1>1 DEF ApiMethodProbe, Asked
<1>2. main'.f # 1
  BY <1>1
<1>3. ASSUME Body' = Asking PROVE Filling'
  <2>1. Body = Clearing \/ Quiet(Body)
    BY <1>1, <1>3, BodyKinds
  <2>2. Buffer' = <<>>
    BY <1>1, <1>3, <2>1 DEF BufferOK
  <2>3. SubSeq(Audio, 1, 0) = <<>>
    BY SubSeqEmpty
  <2>4. Count \in Nat \ {0} /\ Ends(0) = 0 /\ Len(Audio) \in Nat
    BY AudioIsBytes, ChunksJoin
  <2>5. 1 \in 1 .. Len(Audio) + 1 /\ 1 <= Ends(0) + 1 /\ Buffer' = SubSeq(Audio, 1, Ends(0))
    BY <2>2, <2>3, <2>4
  <2>6. ~ (1 > Count + 1) /\ 1 - 1 = 0
    BY <2>4
  <2>7. QED
    BY <2>5, <2>6 DEF Filling, Ends
<1>4. ASSUME Body' = ApiMethodProbe PROVE Probing'
  <2>1. main.f = 1
    BY <1>1, <1>4, BodyKinds
  <2>2. Quiet(Body) /\ Buffer' = <<>> /\ cleared' = Nil
    BY <2>1, BodyKinds DEF BufferOK
  <2>3. Nil # reconnects
    BY ExamplesAssumption
  <2>4. QED
    BY <2>2, <2>3 DEF Probing
<1>5. ASSUME Quiet(Body'), main'.f < Len(script'), script'[main'.f + 1] = Asking
      PROVE  Buffer' = <<>>
  <2>1. Body' = Clearing \/ script[main'.f - 1] = Clearing
    <3>1. (script[main.f - 1])' = script[main'.f - 1]
      BY <1>1
    <3>2. PositionInv' =>
            (main.f < Len(script) /\ script[main.f + 1] = Asking =>
               Body = Clearing \/ (main.f >= 2 /\ Quiet(Body) /\ script[main.f - 1] = Clearing))'
      BY NextBodies, PTL
    <3>3. QED
      BY <1>5, <3>1, <3>2
  <2>2. Body = Clearing
    BY <1>1, <1>5, <2>1, NotQuiet DEF Body
  <2>3. QED
    BY <2>2
<1> HIDE DEF api
<1>6. QED
  <2>1. Body' = api' => Probing'
    BY <1>4, <1>7 DEF api
  <2>2. (Body = ApiMethodProbe => Probing)'
    BY <2>1 DEF api
  <2>3. QED
    BY <1>2, <1>3, <1>5, <2>2 DEF BufferOK

(* Parts of the file *)
LEMMA AudioParts ==
  /\ Opening \in Seq(Nat)
  /\ \E last \in 0 .. Len(Audio) : Opening = SubSeq(Audio, 1, last)
  /\ \A first \in 1 .. Len(Audio) + 1 : SubSeq(Audio, first, Len(Audio)) \in Seq(Nat)
  /\ SubSeq(Audio, 1, 0) = <<>> /\ SubSeq(Audio, 1, Len(Audio)) = Audio
<1>1. Audio \in Seq(Nat) /\ Len(Audio) \in Nat \ {0}
  BY AudioIsBytes
<1>2. \A i \in 1 .. Len(Audio) : Audio[i] \in Nat
  BY <1>1, ElementOfSeq
<1>3. /\ Opening \in Seq(Nat)
      /\ \E last \in 0 .. Len(Audio) : Opening = SubSeq(Audio, 1, last)
  <2>1. FrameSize \in Nat
    BY ExamplesAssumption
  <2>2. (IF Long THEN FrameSize ELSE 0) \in 0 .. Len(Audio)
    BY <1>1, <2>1 DEF Long
  <2>3. QED
    BY <2>2, OpeningIsBytes DEF Opening
<1>4. ASSUME NEW first \in 1 .. Len(Audio) + 1 PROVE SubSeq(Audio, first, Len(Audio)) \in Seq(Nat)
  <2>1. \A i \in first .. Len(Audio) : Audio[i] \in Nat
    BY <1>1, <1>2, <1>4
  <2>2. QED
    BY <1>1, <1>4, <2>1, SubSeqProperties
<1>5. SubSeq(Audio, 1, 0) = <<>>
  BY SubSeqEmpty
<1>6. SubSeq(Audio, 1, Len(Audio)) = Audio
  BY <1>1, SubSeqFull
<1>7. QED
  BY <1>3, <1>4, <1>5, <1>6

(* When the session's Close comes *)
LEMMA AtEnd == PositionInv /\ AtClose => BufferOK
<1> SUFFICES ASSUME PositionInv, AtClose PROVE BufferOK
  OBVIOUS
<1>1. Len(script) \in Nat /\ Len(script) >= 2 /\ main.f = Len(script)
  BY ScriptEnds DEF PositionInv, AtClose
<1>2. Quiet(Body)
  BY <1>1, BodyKinds
<1>3. Body # Asking /\ Body # ApiMethodProbe
  BY <1>2, NotQuiet, ApiSteps
<1>4. main.f # 1 /\ ~ (main.f < Len(script))
  <2>1. \A n \in Nat : n >= 2 => n # 1 /\ ~ (n < n)
    OBVIOUS
  <2>2. QED
    BY <1>1, <2>1
<1>5. QED
  BY <1>3, <1>4 DEF BufferOK

(* Nothing that BufferOK speaks of changes. *)
LEMMA Undisturbed ==
  ASSUME BufferOK, UNCHANGED <<fixed, main, resending, cleared, reconnects>>, Buffer' = Buffer
  PROVE  BufferOK'
<1> DEFINE api == ApiMethodProbe
<1>1. UNCHANGED <<program, script>>
  BY DEF fixed
<1>2. api' = api
  BY <1>1 DEF ApiMethodProbe, Asked
<1>3. Filling' = Filling /\ Probing' = Probing /\ Body' = Body
  BY <1>1 DEF Filling, Probing, Body
<1> HIDE DEF api
<1>4. (Body = api => Probing) => (Body = api => Probing)'
  BY <1>2, <1>3
<1>5. QED
  BY <1>1, <1>3, <1>4 DEF BufferOK, api

(* Main goes on to another function or to the end. *)
LEMMA Leaves ==
  ASSUME PositionInv, AudioInv, status = "running", Here.do # "close",
         Succeed \/ (Fail /\ Here.fail # "fatal"),
         UNCHANGED <<fixed, reconnects>>, ~resending',
         Quiet(Body) => Buffer' = Buffer, Body = Clearing => Buffer' = <<>>,
         main.f = 1 => cleared' = Nil,
         main'.f = main.f /\ main'.i = main.i + 1 /\ main.i < Len(Body) => BufferOK'
  PROVE  BufferOK'
<1>1. BufferOK /\ reconnects \in Nat /\ UNCHANGED reconnects
  BY DEF AudioInv
<1>2. PositionInv' /\ UNCHANGED fixed
  BY MainMoves
<1>3. CASE AtClose'
  <2>1. PositionInv' /\ AtClose' => BufferOK'
    BY AtEnd, PTL
  <2>2. QED
    BY <1>2, <1>3, <2>1
<1>4. CASE main'.f = main.f + 1 /\ main'.i = 1 /\ main.f < Len(script)
  BY <1>1, <1>2, <1>4, Enters
<1>5. QED
  BY <1>2, <1>3, <1>4, MainMoves

(* A request is taken in: what becomes of the buffer within a function *)
LEMMA Touches ==
  ASSUME ServerOK, PositionInv, AudioInv, status = "running", Here.do = "send",
         UNCHANGED serverVars \/ (~resending /\ Handle(Here.arg))
  PROVE  /\ Quiet(Body) => Buffer' = Buffer /\ Here.arg.type \notin Buffering
         /\ Body = Clearing /\ ~ (UNCHANGED serverVars) => Buffer' = <<>>
         /\ Body = ApiMethodProbe => Buffer' \in {<<>>, Opening}
<1>1. BufferOK
  BY DEF AudioInv
<1>2. UNCHANGED serverVars => Buffer' = Buffer
  BY DEF serverVars, Buffer
<1>3. Quiet(Body) => Buffer' = Buffer /\ Here.arg.type \notin Buffering
  BY <1>2, BodySteps, RequestFills
<1>4. Body = Clearing /\ ~ (UNCHANGED serverVars) => Buffer' = <<>>
  BY BodySteps, RequestFills
<1>5. ASSUME Body = ApiMethodProbe PROVE Buffer' \in {<<>>, Opening}
  <2>1. Buffer = <<>> \/ (Buffer = Opening /\ (main.i > 1 \/ resending))
    BY <1>1, <1>5 DEF BufferOK, Probing
  <2>2. CASE UNCHANGED serverVars
    BY <1>2, <2>1, <2>2
  <2>3. CASE ~resending /\ Handle(Here.arg) /\ Here.arg.type = "input_audio_buffer.append"
    <3>1. main.i = 1 /\ Bytes(Here.arg.audio) = Opening
      BY <1>5, <2>3, BodySteps
    <3>2. Buffer = <<>>
      BY <2>1, <2>3, <3>1
    <3>3. Buffer' = <<>> \o Opening
      BY <2>3, <3>1, <3>2, RequestFills
    <3>4. <<>> \o Opening = Opening
      BY AudioParts, ConcatEmptySeq
    <3>5. QED
      BY <3>3, <3>4
  <2>4. CASE ~resending /\ Handle(Here.arg) /\ Here.arg.type # "input_audio_buffer.append"
    <3>1. Buffer' = <<>> \/ Buffer' = Buffer
      BY <2>4, RequestFills DEF Buffering
    <3>2. QED
      BY <2>1, <3>1
  <2>5. QED
    BY <2>2, <2>3, <2>4
<1>6. QED
  BY <1>3, <1>4, <1>5

(* Main stays in its function. *)
LEMMA Within ==
  ASSUME PositionInv, BufferOK, UNCHANGED fixed, main'.f = main.f,
         Quiet(Body) => Buffer' \in {Buffer, <<>>}, main.f = 1 => cleared' = Nil,
         Body = Asking => Filling', Body = ApiMethodProbe => Probing'
  PROVE  BufferOK'
<1> DEFINE api == ApiMethodProbe
<1>1. UNCHANGED <<program, script>>
  BY DEF fixed
<1>2. api' = api
  BY <1>1 DEF ApiMethodProbe, Asked
<1>3. Body' = Body
  BY <1>1 DEF Body
<1>4. main.f = 1 => Quiet(Body)
  BY BodyKinds
<1> HIDE DEF api
<1>5. Body = api => Probing'
  BY DEF api
<1>6. (Body = api => Probing)'
  BY <1>2, <1>3, <1>5
<1>7. main.f = 1 => Buffer' = <<>>
  BY <1>4 DEF BufferOK
<1>8. Quiet(Body) /\ main.f < Len(script) /\ script[main.f + 1] = Asking => Buffer' = <<>>
  BY DEF BufferOK
<1>9. QED
  BY <1>1, <1>3, <1>6, <1>7, <1>8 DEF BufferOK, api

(* A request succeeds within a function. *)
LEMMA SucceedsWithin ==
  ASSUME ServerOK, PositionInv, AudioInv, status = "running", Here.do = "send", ~resending,
         Handle(Here.arg), Noted(Here.arg), UNCHANGED <<fixed, reconnects>>,
         main'.f = main.f, main'.i = main.i + 1, main.i < Len(Body)
  PROVE  BufferOK'
<1>1. BufferOK /\ reconnects \in Nat /\ UNCHANGED <<program, script, reconnects>>
  BY DEF AudioInv, fixed
<1>2. Body' = Body /\ main.i \in Nat \ {0}
  BY <1>1 DEF Body, PositionInv
<1>3. Nil # reconnects
  BY <1>1, ExamplesAssumption
<1>4. /\ Here.arg.type \notin Buffering => cleared' = cleared
      /\ Here.arg.type = "input_audio_buffer.append" => cleared' = cleared
      /\ Here.arg.type = "input_audio_buffer.commit" => cleared' = Nil
  BY DEF Noted, Buffering
<1>5. Quiet(Body) => Buffer' = Buffer /\ cleared' = cleared
  BY <1>4, Touches
<1>6. ASSUME Body = Asking PROVE Filling'
  <2>1. Filling /\ Count \in Nat \ {0}
    BY <1>1, <1>6, AskingSteps DEF BufferOK
  <2>2. CASE main.i <= Count
    <3> DEFINE k == main.i
    <3>1. PICK a \in 1 .. Len(Audio) + 1 :
            /\ a <= Ends(k - 1) + 1 /\ Buffer = SubSeq(Audio, a, Ends(k - 1))
            /\ cleared = reconnects => a = 1
      <4>1. ~ (main.i > Count + 1)
        BY <1>2, <2>1, <2>2
      <4>2. QED
        BY <2>1, <4>1 DEF Filling
    <3>2. /\ Here.arg.type = "input_audio_buffer.append"
          /\ Bytes(Here.arg.audio) = Chunks(Audio)[k]
      BY <1>6, <2>2, BodySteps
    <3>3. Buffer' = SubSeq(Audio, a, Ends(k - 1)) \o Chunks(Audio)[k]
      BY <3>1, <3>2, RequestFills
    <3>4. k \in 1 .. Count
      BY <1>2, <2>1, <2>2
    <3> HIDE DEF k
    <3>5. Buffer' = SubSeq(Audio, a, Ends(k)) /\ a <= Ends(k) + 1
      BY <3>1, <3>3, <3>4, ChunksJoin
    <3>6. ~ (main'.i > Count + 1) /\ main'.i - 1 = k
      BY <1>2, <2>1, <3>4 DEF k
    <3>7. Filling' <=> resending' \/ \E b \in 1 .. Len(Audio) + 1 :
                                       /\ b <= Ends(k) + 1
                                       /\ Buffer' = SubSeq(Audio, b, Ends(k))
                                       /\ cleared' = reconnects => b = 1
      BY <1>1, <3>6 DEF Filling, Ends
    <3>8. QED
      BY <1>4, <3>1, <3>2, <3>5, <3>7
  <2>3. CASE main.i = Count + 1
    <3>1. cleared' = Nil
      BY <1>4, <1>6, <2>3, BodySteps
    <3>2. main'.i > Count + 1
      BY <2>1, <2>3
    <3>3. QED
      BY <1>1, <1>3, <3>1, <3>2 DEF Filling
  <2>4. CASE main.i > Count + 1
    <3>1. cleared' = cleared
      BY <1>4, <1>6, <2>4, BodySteps
    <3>2. main'.i > Count + 1
      BY <1>2, <2>1, <2>4
    <3>3. QED
      BY <1>1, <2>1, <2>4, <3>1, <3>2 DEF Filling
  <2>5. QED
    BY <1>2, <2>1, <2>2, <2>3, <2>4
<1>7. ASSUME Body = ApiMethodProbe PROVE Probing'
  <2>1. Here.arg.type # "input_audio_buffer.clear"
    <3>1. main.i > 1 => main.i # Len(Body)
      BY <1>2
    <3>2. main.i = 1 \/ main.i > 1
      BY <1>2
    <3>3. QED
      BY <1>7, <3>1, <3>2, BodySteps
  <2>2. cleared # reconnects
    BY <1>1, <1>7 DEF BufferOK, Probing
  <2>3. cleared' # reconnects
    BY <1>3, <1>4, <2>1, <2>2 DEF Buffering
  <2>4. main'.i > 1
    BY <1>2
  <2>5. QED
    BY <1>1, <1>7, <2>3, <2>4, Touches DEF Probing
<1>8. QED
  <2>1. main.f = 1 => cleared' = Nil
    BY <1>1, <1>5, BodyKinds DEF BufferOK
  <2>2. QED
    BY <1>1, <1>5, <1>6, <1>7, <2>1, Within

(* A call that sends a request returns. *)
LEMMA SendKeepsBuffer ==
  ASSUME ServerOK, PositionInv, AudioInv, SendReturns, status' = "running"
  PROVE  BufferOK'
<1>1. /\ status = "running" /\ Here.do = "send" /\ UNCHANGED <<fixed, reconnects>>
      /\ resending' = FALSE /\ BufferOK /\ reconnects \in Nat
  <2>1. Here.do = "send" /\ UNCHANGED <<fixed, reconnects>> /\ status = "running"
    BY DEF SendReturns, SendSucceeds, SendFails, Doing
  <2>2. resending' = FALSE
    BY DEF SendReturns, SendSucceeds, SendFails
  <2>3. QED
    BY <2>1, <2>2 DEF AudioInv
<1>2. Here.do # "close"
  BY <1>1
<1>3. Nil # reconnects
  BY <1>1, ExamplesAssumption
<1>4. CASE SendSucceeds
  <2>1. ~resending /\ Handle(Here.arg) /\ Noted(Here.arg) /\ Succeed
    BY <1>4 DEF SendSucceeds
  <2>2. Quiet(Body) => Buffer' = Buffer /\ Here.arg.type \notin Buffering
    BY <1>1, <2>1, Touches
  <2>3. Body = Clearing => Buffer' = <<>>
    BY <2>1, BodySteps, RequestFills
  <2>4. main.f = 1 => cleared' = Nil
    BY <1>1, <2>1, <2>2, BodyKinds DEF BufferOK, Noted, Buffering
  <2>5. main'.f = main.f /\ main'.i = main.i + 1 /\ main.i < Len(Body) => BufferOK'
    BY <1>1, <2>1, SucceedsWithin
  <2>6. QED
    BY <1>1, <1>2, <2>1, <2>2, <2>3, <2>4, <2>5, Leaves
<1>5. CASE SendFails
  <2>1. Fail /\ cleared' = Nil /\ (UNCHANGED serverVars \/ (~resending /\ Handle(Here.arg)))
    BY <1>5 DEF SendFails
  <2>2. Here.fail # "fatal"
    BY <1>1, <2>1 DEF Fail
  <2>3. Quiet(Body) => Buffer' = Buffer
    BY <1>1, <2>1, Touches
  <2>4. Body # Clearing /\ Body # Asking
    BY <2>2, BodySteps
  <2>5. ASSUME main'.f = main.f, main'.i = main.i + 1, Body = ApiMethodProbe PROVE Probing'
    <3>1. main'.i > 1 /\ cleared' # reconnects'
      BY <1>1, <1>3, <2>1, <2>5 DEF PositionInv
    <3>2. Buffer' \in {<<>>, Opening}
      BY <1>1, <2>1, <2>5, Touches
    <3>3. QED
      BY <3>1, <3>2 DEF Probing
  <2>6. main'.f = main.f /\ main'.i = main.i + 1 /\ main.i < Len(Body) => BufferOK'
    BY <1>1, <2>1, <2>3, <2>4, <2>5, Within
  <2>7. QED
    BY <1>1, <1>2, <2>1, <2>2, <2>3, <2>4, <2>6, Leaves
<1>6. QED
  BY <1>4, <1>5 DEF SendReturns

(* A request reaches the server, but main will send it again. *)
LEMMA BreakKeepsBuffer ==
  ASSUME ServerOK, PositionInv, AudioInv, SendBreaksOff
  PROVE  BufferOK'
<1>1. /\ status = "running" /\ Here.do = "send" /\ ~resending /\ Handle(Here.arg)
      /\ resending' = TRUE /\ UNCHANGED <<fixed, reconnects, main, cleared>> /\ BufferOK
  BY DEF SendBreaksOff, SendBreaks, Doing, AudioInv
<1>2. Quiet(Body) => Buffer' = Buffer
  BY <1>1, Touches
<1>3. main.f = 1 => cleared' = Nil
  BY <1>1 DEF BufferOK
<1>4. Body = Asking => Filling'
  BY <1>1 DEF BufferOK, Filling
<1>5. Body = ApiMethodProbe => Probing'
  BY <1>1, Touches DEF BufferOK, Probing
<1>6. QED
  BY <1>1, <1>2, <1>3, <1>4, <1>5, Within

(* The server starts a new session, with an empty buffer. *)
LEMMA ReconnectKeepsBuffer ==
  ASSUME PositionInv, AudioInv, Reconnect
  PROVE  BufferOK'
<1>1. /\ status = "running" /\ BufferOK /\ UNCHANGED <<fixed, main, cleared>>
      /\ reconnects \in Nat /\ reconnects' = reconnects + 1
      /\ cleared \in Nat \cup {Nil} /\ (cleared # Nil => cleared <= reconnects)
  BY DEF Reconnect, AudioInv
<1>2. Buffer' = <<>>
  BY DEF Reconnect, NewServer, Buffer
<1>3. cleared' # reconnects'
  <2>1. Nil # reconnects + 1
    BY <1>1, ExamplesAssumption
  <2>2. QED
    BY <1>1, <2>1
<1>4. ASSUME Body = Asking PROVE Filling'
  <2>1. CASE main.i > Count + 1
    BY <1>1, <1>3, <2>1 DEF Filling
  <2>2. CASE ~ (main.i > Count + 1)
    <3> DEFINE e == Ends(main.i - 1)
    <3>1. Count \in Nat \ {0} /\ main.i \in Nat \ {0} /\ Len(Audio) \in Nat
      BY AudioIsBytes DEF PositionInv
    <3>2. main.i - 1 \in 0 .. Count
      BY <2>2, <3>1
    <3>3. e \in 0 .. Len(Audio)
      BY <3>2, ChunksJoin
    <3> HIDE DEF e
    <3>4. SubSeq(Audio, e + 1, e) = <<>> /\ e + 1 \in 1 .. Len(Audio) + 1 /\ e + 1 <= e + 1
      BY <3>1, <3>3, SubSeqEmpty
    <3>5. Filling' <=> resending' \/ \E b \in 1 .. Len(Audio) + 1 :
                                       /\ b <= e + 1 /\ Buffer' = SubSeq(Audio, b, e)
                                       /\ cleared' = reconnects' => b = 1
      BY <1>1, <2>2 DEF Filling, Ends, e
    <3>6. QED
      BY <1>2, <1>3, <3>4, <3>5
  <2>3. QED
    BY <2>1, <2>2
<1>5. Body = ApiMethodProbe => Probing'
  BY <1>2, <1>3 DEF Probing
<1>6. main.f = 1 => cleared' = Nil
  BY <1>1 DEF BufferOK
<1>7. QED
  BY <1>1, <1>2, <1>4, <1>5, <1>6, Within

(* A select *)
LEMMA SelectKeepsBuffer ==
  ASSUME PositionInv, ConfiguredInv, AudioInv, Select \/ Timer, status' = "running"
  PROVE  BufferOK'
<1>1. /\ status = "running" /\ Here.do \in {"wait", "collect"} /\ ~resending
      /\ UNCHANGED <<fixed, server, resending, cleared, reconnects>> /\ BufferOK
  BY SelectsGoOn DEF serverVars, ConfiguredInv, AudioInv
<1>2. Buffer' = Buffer
  BY <1>1 DEF Buffer
<1>3. Body # Clearing
  BY <1>1, BodySteps
<1>4. main.f = 1 => cleared' = Nil
  BY <1>1 DEF BufferOK
<1>5. CASE UNCHANGED main
  BY <1>1, <1>2, <1>5, Undisturbed
<1>6. ASSUME Succeed \/ Fail PROVE BufferOK'
  <2>1. Succeed \/ (Fail /\ Here.fail # "fatal")
    BY <1>1, <1>6 DEF Fail
  <2>2. ASSUME main'.f = main.f, main'.i = main.i + 1 PROVE BufferOK'
    <3>1. main.i \in Nat \ {0} /\ main'.i > 1
      BY <2>2 DEF PositionInv
    <3>2. Body = Asking => Filling'
      <4>1. ASSUME Body = Asking PROVE Filling'
        <5>1. main.i > Count + 1 /\ Count \in Nat
          BY <1>1, <3>1, <4>1, BodySteps, AudioIsBytes
        <5>2. main'.i > Count + 1
          BY <2>2, <3>1, <5>1
        <5>3. QED
          BY <1>1, <4>1, <5>1, <5>2 DEF BufferOK, Filling
      <4>2. QED
        BY <4>1
    <3>3. Body = ApiMethodProbe => Probing'
      <4>1. ASSUME Body = ApiMethodProbe PROVE Probing'
        <5>1. Probing
          BY <1>1, <4>1 DEF BufferOK
        <5>2. QED
          BY <1>1, <1>2, <3>1, <5>1 DEF Probing
      <4>2. QED
        BY <4>1
    <3>4. QED
      BY <1>1, <1>2, <1>4, <2>2, <3>2, <3>3, Within
  <2>3. Here.do # "close"
    BY <1>1
  <2>4. QED
    BY <1>1, <1>2, <1>3, <1>4, <2>1, <2>2, <2>3, Leaves
<1>7. QED
  BY <1>5, <1>6, SelectsGoOn

(* What the server commits is the file from some chunk on, all of it if main
   knows of no reconnect, or the frame of the probe. *)
LEMMA CommitsParts ==
  ASSUME ServerOK, PositionInv, AudioInv, status = "running", Here.do = "send",
         ~resending, Handle(Here.arg)
  PROVE  (commits \in Seq([audio : Seq(Nat), whole : BOOLEAN]) /\ CommittedAudio)'
<1> DEFINE Part(audio) == \E first \in 1 .. Len(Audio) + 1, last \in 0 .. Len(Audio) :
                            audio = SubSeq(Audio, first, last)
           commit == [audio |-> Buffer, whole |-> cleared = reconnects]
           Committed == [audio : Seq(Nat), whole : BOOLEAN]
           Fine(c) == (c.whole => c.audio = Audio) /\ Part(c.audio)
<1>1. BufferOK /\ commits \in Seq(Committed) /\ \A k \in DOMAIN commits : Fine(commits[k])
  BY DEF AudioInv, CommittedAudio
<1>2. CASE Here.arg.type # "input_audio_buffer.commit"
  <2>1. commits' = commits
    BY <1>2, RequestFills
  <2>2. QED
    BY <1>1, <2>1 DEF CommittedAudio
<1>3. CASE Here.arg.type = "input_audio_buffer.commit"
  <2>1. Len(Audio) \in Nat \ {0}
    BY AudioIsBytes
  <2>2. ASSUME NEW first \in 1 .. Len(Audio) + 1, NEW last \in 0 .. Len(Audio)
        PROVE  Part(SubSeq(Audio, first, last))
    OBVIOUS
  <2>3. Buffer \in Seq(Nat) /\ (cleared = reconnects => Buffer = Audio) /\ Part(Buffer)
    <3>1. Body = Asking \/ Body = ApiMethodProbe
      BY <1>3, BodyKinds, BodySteps DEF Buffering
    <3>2. CASE Body = Asking
      <4>1. Filling /\ Count \in Nat
        BY <1>1, <3>2, AudioIsBytes DEF BufferOK
      <4>2. main.i = Count + 1
        <5>1. main.i \in Nat
          BY DEF PositionInv
        <5>2. ~ (main.i <= Count) /\ ~ (main.i > Count + 1)
          BY <1>3, <3>2, BodySteps DEF Buffering
        <5>3. QED
          BY <4>1, <5>1, <5>2
      <4>3. ~ (main.i > Count + 1) /\ main.i - 1 = Count
        BY <4>1, <4>2
      <4> DEFINE end == Ends(Count)
      <4>4. \E a \in 1 .. Len(Audio) + 1 :
              Buffer = SubSeq(Audio, a, end) /\ (cleared = reconnects => a = 1)
        BY <4>1, <4>3 DEF Filling
      <4>5. end = Len(Audio) /\ end \in 0 .. Len(Audio)
        BY <2>1, ChunksJoin
      <4> HIDE DEF end
      <4>6. PICK a \in 1 .. Len(Audio) + 1 :
              Buffer = SubSeq(Audio, a, end) /\ (cleared = reconnects => a = 1)
        BY <4>4
      <4> HIDE DEF Part
      <4>7. Part(Buffer)
        BY <2>2, <4>5, <4>6
      <4>8. Buffer \in Seq(Nat) /\ (cleared = reconnects => Buffer = Audio)
        BY <4>5, <4>6, AudioParts
      <4>9. QED
        BY <4>7, <4>8
    <3>3. CASE Body = ApiMethodProbe
      <4>1. cleared # reconnects /\ Buffer \in {<<>>, Opening}
        BY <1>1, <3>3 DEF BufferOK, Probing
      <4>2. PICK last \in 0 .. Len(Audio) : Opening = SubSeq(Audio, 1, last)
        BY AudioParts
      <4>3. 1 \in 1 .. Len(Audio) + 1 /\ 0 \in 0 .. Len(Audio)
        BY <2>1
      <4> HIDE DEF Part
      <4>4. Part(SubSeq(Audio, 1, 0)) /\ Part(Opening)
        BY <2>2, <4>2, <4>3
      <4>5. <<>> \in Seq(Nat) /\ Opening \in Seq(Nat) /\ SubSeq(Audio, 1, 0) = <<>>
        BY AudioParts
      <4>6. QED
        BY <4>1, <4>4, <4>5
    <3>4. QED
      BY <3>1, <3>2, <3>3
  <2> HIDE DEF Part
  <2>4. commit \in Committed /\ Fine(commit)
    BY <2>3
  <2>5. commits' = Append(commits, commit)
    BY <1>3, RequestFills
  <2> HIDE DEF commit, Committed, Fine
  <2>6. /\ commits' \in Seq(Committed) /\ Len(commits') = Len(commits) + 1
        /\ \A k \in 1 .. Len(commits) : commits'[k] = commits[k]
        /\ commits'[Len(commits) + 1] = commit
    BY <1>1, <2>4, <2>5, AppendProperties
  <2>7. ASSUME NEW k \in DOMAIN commits' PROVE Fine(commits'[k])
    <3>1. Len(commits) \in Nat /\ k \in 1 .. Len(commits) + 1 /\ DOMAIN commits = 1 .. Len(commits)
      BY <1>1, <2>6
    <3>2. k \in 1 .. Len(commits) \/ k = Len(commits) + 1
      BY <3>1
    <3>3. QED
      BY <1>1, <2>4, <2>6, <3>1, <3>2
  <2>8. QED
    BY <2>6, <2>7 DEF CommittedAudio, Fine, Part, Committed
<1>4. QED
  BY <1>2, <1>3

LEMMA AudioInvInit == ExamplesInit => AudioInv
<1> SUFFICES ASSUME ExamplesInit PROVE AudioInv
  OBVIOUS
<1>1. /\ reconnects = 0 /\ cleared = Nil /\ commits = <<>> /\ main = [f |-> 1, i |-> 1]
      /\ server = NewServer
  BY DEF ExamplesInit
<1>2. Buffer = <<>>
  BY <1>1 DEF Buffer, NewServer
<1>3. PositionInv
  BY ConfiguredInvInit
<1>4. main.f = 1 /\ Len(script) \in Nat /\ Len(script) >= 2
  BY <1>1, <1>3, ScriptEnds DEF PositionInv
<1>5. Body # Asking /\ Body # ApiMethodProbe
  BY <1>3, <1>4, BodyKinds, NotQuiet, ApiSteps
<1>6. BufferOK
  BY <1>1, <1>2, <1>5 DEF BufferOK
<1>7. QED
  BY <1>1, <1>6 DEF AudioInv, CommittedAudio

LEMMA AudioInvStep ==
  PumpedInv /\ PositionInv /\ ConfiguredInv /\ AudioInv /\ [ExamplesNext]_examplesVars => AudioInv'
<1> SUFFICES ASSUME PumpedInv, PositionInv, ConfiguredInv, AudioInv, [ExamplesNext]_examplesVars
             PROVE  AudioInv'
  OBVIOUS
<1> DEFINE Known == /\ reconnects \in Nat /\ cleared \in Nat \cup {Nil}
                    /\ cleared # Nil => cleared <= reconnects
           Sent == commits \in Seq([audio : Seq(Nat), whole : BOOLEAN]) /\ CommittedAudio
<1>1. Known /\ Sent /\ ServerOK /\ (status = "running" => BufferOK)
  BY DEF AudioInv, PumpedInv
<1>2. UNCHANGED commits => Sent'
  BY <1>1 DEF CommittedAudio
<1>3. Known' /\ Sent' /\ (status' = "running" => BufferOK') => AudioInv'
  BY DEF AudioInv
<1>4. CASE Arrive
  <2>1. UNCHANGED <<fixed, main, status, resending, cleared, reconnects, commits>>
    BY <1>4 DEF Arrive, mainVars
  <2>2. Buffer' = Buffer
    BY <1>1, <1>4 DEF Arrive, ServerOK, Buffer
  <2>3. QED
    BY <1>1, <1>2, <1>3, <2>1, <2>2, Undisturbed
<1>5. CASE StreamFails \/ Pump \/ Over \/ UNCHANGED examplesVars
  <2>1. UNCHANGED <<fixed, main, status, resending, cleared, reconnects, commits, server>>
    BY <1>5 DEF StreamFails, Pump, Over, examplesVars, mainVars, serverVars
  <2>2. QED
    BY <1>1, <1>2, <1>3, <2>1, Undisturbed DEF Buffer
<1>6. CASE CloseSession
  <2>1. UNCHANGED <<cleared, reconnects, commits>> /\ status' = "done"
    BY <1>6 DEF CloseSession, serverVars
  <2>2. QED
    BY <1>1, <1>2, <1>3, <2>1
<1>7. CASE Reconnect
  <2>1. UNCHANGED <<cleared, commits>> /\ reconnects' = reconnects + 1
    BY <1>7 DEF Reconnect
  <2>2. Known'
    BY <1>1, <2>1
  <2>3. QED
    BY <1>2, <1>3, <1>7, <2>1, <2>2, ReconnectKeepsBuffer
<1>8. CASE SendReturns
  <2>1. Here.do = "send" /\ status = "running" /\ UNCHANGED reconnects
    BY <1>8 DEF SendReturns, SendSucceeds, SendFails, Doing
  <2>2. cleared' \in {cleared, reconnects, Nil}
    BY <1>8 DEF SendReturns, SendSucceeds, SendFails, Noted
  <2>3. Known'
    BY <1>1, <2>1, <2>2
  <2>4. UNCHANGED serverVars \/ (~resending /\ Handle(Here.arg))
    BY <1>8 DEF SendReturns, SendSucceeds, SendFails
  <2>5. Sent'
    <3>1. CASE UNCHANGED serverVars
      BY <1>2, <3>1 DEF serverVars
    <3>2. CASE ~resending /\ Handle(Here.arg)
      BY <1>1, <2>1, <3>2, CommitsParts
    <3>3. QED
      BY <2>4, <3>1, <3>2
  <2>6. QED
    BY <1>1, <1>3, <1>8, <2>3, <2>5, SendKeepsBuffer
<1>9. CASE SendBreaksOff
  <2>1. /\ Here.do = "send" /\ status = "running" /\ UNCHANGED <<reconnects, cleared>>
        /\ ~resending /\ Handle(Here.arg)
    BY <1>9 DEF SendBreaksOff, SendBreaks, Doing
  <2>2. Sent'
    BY <1>1, <2>1, CommitsParts
  <2>3. QED
    BY <1>1, <1>3, <1>9, <2>1, <2>2, BreakKeepsBuffer
<1>10. CASE Select \/ Timer
  <2>1. UNCHANGED <<cleared, reconnects, commits>>
    BY <1>10, SelectsGoOn DEF serverVars
  <2>2. QED
    BY <1>1, <1>2, <1>3, <1>10, <2>1, SelectKeepsBuffer
<1>11. QED
  BY <1>4, <1>5, <1>6, <1>7, <1>8, <1>9, <1>10 DEF ExamplesNext, Main

(* audio-stream:83-105, sendAudioInChunks: for any file and any size of the
   chunks the server is asked to commit the whole file, or what of it was sent
   since a reconnect, without a gap and with nothing twice. *)
THEOREM FileCommittedWhole == ExamplesSpec => []CommittedAudio
<1> DEFINE Inv == PumpedInv /\ PositionInv /\ ConfiguredInv /\ AudioInv
<1>1. ExamplesInit => Inv
  BY PumpedInvInit, ConfiguredInvInit, AudioInvInit
<1>2. Inv /\ [ExamplesNext]_examplesVars => Inv'
  BY PumpedInvStep, PositionInvStep, ConfiguredInvStep, AudioInvStep
<1>3. Inv => CommittedAudio
  BY DEF AudioInv
<1>4. QED
  BY <1>1, <1>2, <1>3, PTL DEF ExamplesSpec

-----------------------------------------------------------------------------
(* The answer main waits for: in a function, between the request for it and
   its collect. *)
Awaits(body, i) ==
  \E c, e \in 1 .. Len(body) :
    Asks(body[c]) /\ body[e].do = "collect" /\ c < i /\ i <= e

LEMMA Waiting ==
  ASSUME NEW body \in Bodies, Orderly(body), NEW i \in 1 .. Len(body)
  PROVE  /\ ~Awaits(body, 1)
         /\ i < Len(body) =>
              (Awaits(body, i + 1) <=> Asks(body[i]) \/ (Awaits(body, i) /\ body[i].do # "collect"))
         /\ i = Len(body) => ~Asks(body[i]) /\ (Awaits(body, i) => body[i].do = "collect")
         /\ Awaits(body, i) => ~Asks(body[i]) /\ body[i].do \in {"send", "collect"}
         /\ Asks(body[i]) => ~Awaits(body, i)
         /\ body[i].do = "collect" => Awaits(body, i)
<1>1. Len(body) \in Nat
  BY LenProperties DEF Bodies
<1>2. CASE Plain(body)
  <2>1. \A j : ~Awaits(body, j)
    BY <1>2 DEF Awaits, Plain
  <2>2. QED
    BY <1>2, <2>1 DEF Plain
<1>3. CASE ~Plain(body)
  <2>1. PICK c \in 1 .. Len(body), e \in 1 .. Len(body) :
          /\ c < e
          /\ \A j \in 1 .. Len(body) :
               /\ (Asks(body[j]) <=> j = c)
               /\ (body[j].do = "collect" <=> j = e)
               /\ (c < j /\ j < e => body[j].do = "send")
    BY <1>3 DEF Orderly
  <2>2. ASSUME NEW j \in Nat PROVE Awaits(body, j) <=> c < j /\ j <= e
    <3>1. ASSUME Awaits(body, j) PROVE c < j /\ j <= e
      <4>1. PICK d \in 1 .. Len(body), f \in 1 .. Len(body) :
              Asks(body[d]) /\ body[f].do = "collect" /\ d < j /\ j <= f
        BY <3>1 DEF Awaits
      <4>2. d = c /\ f = e
        BY <2>1, <4>1
      <4>3. QED
        BY <4>1, <4>2
    <3>2. ASSUME c < j, j <= e PROVE Awaits(body, j)
      BY <2>1, <3>2 DEF Awaits
    <3>3. QED
      BY <3>1, <3>2
  <2>3. /\ (Asks(body[i]) <=> i = c)
        /\ (body[i].do = "collect" <=> i = e)
        /\ (c < i /\ i < e => body[i].do = "send")
    BY <2>1
  <2>4. (Awaits(body, i) <=> c < i /\ i <= e) /\ (Awaits(body, i + 1) <=> c < i + 1 /\ i + 1 <= e)
        /\ (Awaits(body, 1) <=> c < 1 /\ 1 <= e)
    <3>1. i \in Nat /\ i + 1 \in Nat
      BY <1>1
    <3>2. QED
      BY <2>2, <3>1
  <2>5. ~Awaits(body, 1)
    BY <1>1, <2>4
  <2>6. i < Len(body) =>
          (Awaits(body, i + 1) <=> i = c \/ (c < i /\ i <= e /\ i # e))
    BY <1>1, <2>1, <2>4
  <2>7. /\ i = Len(body) => i # c /\ (c < i /\ i <= e => i = e)
        /\ c < i /\ i <= e => i # c /\ (i = e \/ (c < i /\ i < e))
        /\ i = c => ~ (c < i)
        /\ i = e => c < i /\ i <= e
    <3>1. c < e
      BY <2>1
    <3>2. QED
      BY <1>1, <3>1
  <2>8. QED
    BY <2>3, <2>4, <2>5, <2>6, <2>7
<1>4. QED
  BY <1>2, <1>3

(* The messages of an answer that collect gathers something from or returns
   for, of which there is one each *)
Due(n) ==
  {x \in Names :
     /\ x.answer = n
     /\ IF program.compact
        THEN x.part \in 1 .. Deltas /\ x.kind = IF x.part < Deltas THEN "choice" ELSE "lastChoice"
        ELSE \/ x.kind = "done" /\ x.part = 0
             \/ /\ x.kind \in IF program.app = "audio" THEN {"sound", "transcript"} ELSE {"text"}
                /\ x.part \in 1 .. Deltas}

LEMMA Parts ==
  ASSUME NEW S, NEW s \in Seq(S)
  PROVE  /\ ToSet(s) \subseteq S /\ ToSet(s) = {s[i] : i \in 1 .. Len(s)}
         /\ \A t \in Seq(S) : ToSet(s \o t) = ToSet(s) \cup ToSet(t)
<1>1. ToSet(s) = {s[i] : i \in 1 .. Len(s)} /\ \A i \in 1 .. Len(s) : s[i] \in S
  BY LenProperties, ElementOfSeq DEF ToSet
<1>2. ASSUME NEW t \in Seq(S) PROVE ToSet(s \o t) = ToSet(s) \cup ToSet(t)
  <2> DEFINE w == s \o t
  <2>1. /\ w \in Seq(S) /\ Len(s) \in Nat /\ Len(t) \in Nat /\ Len(w) = Len(s) + Len(t)
        /\ \A i \in 1 .. Len(s) : w[i] = s[i]
        /\ \A i \in 1 .. Len(t) : w[Len(s) + i] = t[i]
        /\ \A i \in 1 .. Len(w) : i \in 1 .. Len(s) \/ i - Len(s) \in 1 .. Len(t)
    BY Joins
  <2> HIDE DEF w
  <2>2. /\ ToSet(w) = {w[i] : i \in 1 .. Len(w)}
        /\ ToSet(t) = {t[i] : i \in 1 .. Len(t)}
    BY <2>1, LenProperties DEF ToSet
  <2>3. ASSUME NEW x \in ToSet(w) PROVE x \in ToSet(s) \cup ToSet(t)
    <3>1. PICK i \in 1 .. Len(w) : x = w[i]
      BY <2>2
    <3>2. CASE i \in 1 .. Len(s)
      BY <1>1, <2>1, <3>1, <3>2
    <3>3. CASE i - Len(s) \in 1 .. Len(t)
      <4>1. Len(s) \in Nat /\ i \in Nat
        BY <2>1
      <4>2. PICK j \in 1 .. Len(t) : j = i - Len(s)
        BY <3>3
      <4>3. i = Len(s) + j
        BY <4>1, <4>2
      <4>4. x = t[j]
        BY <2>1, <3>1, <4>3
      <4>5. QED
        BY <2>2, <4>4
    <3>4. QED
      BY <2>1, <3>2, <3>3
  <2>4. ASSUME NEW x \in ToSet(s) PROVE x \in ToSet(w)
    <3>1. PICK i \in 1 .. Len(s) : x = s[i]
      BY <1>1
    <3>2. i \in 1 .. Len(w) /\ x = w[i]
      BY <2>1, <3>1
    <3>3. QED
      BY <2>2, <3>2
  <2>5. ASSUME NEW x \in ToSet(t) PROVE x \in ToSet(w)
    <3>1. PICK i \in 1 .. Len(t) : x = t[i]
      BY <2>2
    <3>2. PICK j \in 1 .. Len(w) : j = Len(s) + i
      BY <2>1
    <3>3. x = w[j]
      BY <2>1, <3>1, <3>2
    <3>4. QED
      BY <2>2, <3>2, <3>3
  <2>6. ToSet(w) = ToSet(s) \cup ToSet(t)
    BY <2>3, <2>4, <2>5
  <2>7. QED
    BY <2>6 DEF w
<1>3. QED
  BY <1>1, <1>2

LEMMA AnswerIsDue ==
  ASSUME NEW n \in Nat
  PROVE  \A x : x \in ToSet(Answer(n)) /\ x.kind \in Counted <=> x \in Due(n)
<1>1. Deltas \in Nat \ {0} /\ Answer(n) \in Seq(Said) /\ Said \subseteq Names
  BY ExamplesAssumption, AnswerNames, SaidAreNames
<1>2. \A x \in Due(n) : x.kind \in Counted /\ x \in Names
  BY DEF Due, Counted, Spoke
<1>3. CASE program.compact
  <2> DEFINE Kind(i) == IF i < Deltas THEN "choice" ELSE "lastChoice"
             chosen == [i \in 1 .. Deltas |-> Name(Kind(i), n, i)]
  <2>1. Answer(n) = chosen
    BY <1>3 DEF Answer
  <2>2. ToSet(chosen) = {Name(Kind(i), n, i) : i \in 1 .. Deltas}
    BY DEF ToSet
  <2>3. ASSUME NEW i \in 1 .. Deltas PROVE Name(Kind(i), n, i) \in Due(n)
    <3> DEFINE k == Kind(i)
    <3>1. k \in Handled /\ i \in Nat
      BY <1>1 DEF Handled
    <3> HIDE DEF k
    <3>2. /\ Name(k, n, i) \in Names /\ Name(k, n, i).kind = k
          /\ Name(k, n, i).answer = n /\ Name(k, n, i).part = i
      BY <3>1, NameIsName
    <3>3. QED
      BY <1>3, <3>2 DEF Due, k
  <2>4. ASSUME NEW x \in Due(n) PROVE x \in ToSet(chosen)
    <3>1. x \in Names /\ x.answer = n /\ x.part \in 1 .. Deltas /\ x.kind = Kind(x.part)
      BY <1>3 DEF Due
    <3>2. x = Name(Kind(x.part), n, x.part)
      BY <3>1, NamesAreNamed
    <3> HIDE DEF Kind
    <3>3. QED
      BY <2>2, <3>1, <3>2
  <2>5. QED
    BY <1>2, <2>1, <2>2, <2>3, <2>4
<1>4. CASE ~program.compact
  <2> DEFINE part == Name("part", n, 0)
             done == Name("done", n, 0)
             last == <<part, done>>
             spoken == Spoken(n)
             Kinds == IF program.app = "audio" THEN {"sound", "transcript"} ELSE {"text"}
             Deltaed == {Name(kind, n, i) : kind \in Kinds, i \in 1 .. Deltas}
  <2>1. spoken \in Seq(Said) /\ last \in Seq(Said) /\ Answer(n) = spoken \o last
    <3>1. part \in Said /\ done \in Said
      BY NameIsName DEF Handled
    <3>2. spoken \in Seq(Said) /\ Answer(n) = spoken \o last
      BY <1>4, SpokenNames DEF Answer
    <3> HIDE DEF part, done
    <3>3. QED
      BY <3>1, <3>2
  <2>2. ToSet(last) = {part, done}
    BY DEF ToSet
  <2>3. ToSet(spoken) = Deltaed
    <3>1. CASE program.app = "audio"
      <4> DEFINE Kind(i) == IF i % 2 = 1 THEN "sound" ELSE "transcript"
      <4>1. spoken = [i \in 1 .. 2 * Deltas |-> Name(Kind(i), n, (i + 1) \div 2)]
        BY <3>1 DEF Spoken
      <4> HIDE DEF spoken
      <4>2. ToSet(spoken) = {Name(Kind(i), n, (i + 1) \div 2) : i \in 1 .. 2 * Deltas}
        BY <4>1 DEF ToSet
      <4>3. ASSUME NEW i \in 1 .. 2 * Deltas
            PROVE  Kind(i) \in Kinds /\ (i + 1) \div 2 \in 1 .. Deltas
        BY <1>1, <3>1
      <4>4. ASSUME NEW kind \in Kinds, NEW p \in 1 .. Deltas
            PROVE  \E i \in 1 .. 2 * Deltas : Kind(i) = kind /\ (i + 1) \div 2 = p
        <5>1. CASE kind = "sound"
          <6>1. 2 * p - 1 \in 1 .. 2 * Deltas /\ (2 * p - 1) % 2 = 1 /\ (2 * p - 1 + 1) \div 2 = p
            BY <1>1
          <6>2. QED
            BY <5>1, <6>1
        <5>2. CASE kind = "transcript"
          <6>1. 2 * p \in 1 .. 2 * Deltas /\ (2 * p) % 2 = 0 /\ (2 * p + 1) \div 2 = p
            BY <1>1
          <6>2. QED
            BY <5>2, <6>1
        <5>3. QED
          BY <3>1, <5>1, <5>2
      <4> HIDE DEF Kind, Kinds
      <4>5. QED
        BY <4>2, <4>3, <4>4
    <3>2. CASE program.app # "audio"
      <4>1. spoken = [i \in 1 .. Deltas |-> Name("text", n, i)]
        BY <3>2 DEF Spoken
      <4>2. QED
        BY <3>2, <4>1 DEF ToSet
    <3>3. QED
      BY <3>1, <3>2
  <2> HIDE DEF spoken, last
  <2>4. ToSet(Answer(n)) = Deltaed \cup {part, done}
    BY <2>1, <2>2, <2>3, Parts
  <2>5. /\ part.kind = "part" /\ part.kind \notin Counted
        /\ done \in Names /\ done.kind = "done" /\ done.answer = n /\ done.part = 0
    BY NameIsName DEF Handled, Counted, Spoke
  <2>6. ASSUME NEW kind \in Kinds, NEW i \in 1 .. Deltas PROVE Name(kind, n, i) \in Due(n)
    <3>1. kind \in Handled /\ i \in Nat
      BY <1>1 DEF Handled
    <3>2. /\ Name(kind, n, i) \in Names /\ Name(kind, n, i).kind = kind
          /\ Name(kind, n, i).answer = n /\ Name(kind, n, i).part = i
      BY <3>1, NameIsName
    <3>3. QED
      BY <1>4, <3>2 DEF Due
  <2>7. done \in Due(n)
    BY <1>4, <2>5 DEF Due
  <2>8. ASSUME NEW x \in Due(n) PROVE x \in Deltaed \cup {done}
    <3>1. /\ x \in Names /\ x.answer = n
          /\ (x.kind = "done" /\ x.part = 0) \/ (x.kind \in Kinds /\ x.part \in 1 .. Deltas)
      BY <1>4 DEF Due
    <3>2. x = Name(x.kind, n, x.part)
      BY <3>1, NamesAreNamed
    <3> HIDE DEF Kinds
    <3>3. QED
      BY <3>1, <3>2
  <2> HIDE DEF part, done, Kinds
  <2>9. QED
    BY <1>2, <2>4, <2>5, <2>6, <2>7, <2>8
<1>5. QED
  BY <1>3, <1>4

(* No message of an answer is an error. *)
LEMMA NothingDenied ==
  ASSUME NEW n \in Nat
  PROVE  \A x \in ToSet(Answer(n)) : x.kind # "denied"
<1>1. Deltas \in Nat
  BY ExamplesAssumption
<1>2. ASSUME NEW kind \in Handled \ {"denied"}, NEW i \in Nat PROVE Name(kind, n, i).kind # "denied"
  BY <1>2, NameIsName
<1>3. CASE program.compact
  <2>1. \A i \in 1 .. Deltas : Answer(n)[i].kind # "denied"
    BY <1>2, <1>3 DEF Answer, Name
  <2>2. DOMAIN Answer(n) = 1 .. Deltas
    BY <1>3 DEF Answer
  <2>3. QED
    BY <2>1, <2>2 DEF ToSet
<1>4. CASE ~program.compact
  <2> DEFINE last == <<Name("part", n, 0), Name("done", n, 0)>>
             spoken == Spoken(n)
  <2>1. spoken \in Seq(Said) /\ Answer(n) = spoken \o last
    BY <1>4, SpokenNames DEF Answer
  <2>2. last \in Seq(Said) /\ \A x \in ToSet(last) : x.kind # "denied"
    <3>1. /\ Name("part", n, 0) \in Said /\ Name("part", n, 0).kind = "part"
          /\ Name("done", n, 0) \in Said /\ Name("done", n, 0).kind = "done"
      BY NameIsName DEF Handled
    <3>2. ToSet(last) = {Name("part", n, 0), Name("done", n, 0)}
      BY DEF ToSet
    <3>3. QED
      BY <3>1, <3>2
  <2>3. \A x \in ToSet(spoken) : x.kind # "denied"
    <3>1. \A i \in DOMAIN spoken : spoken[i].kind # "denied"
      BY DEF Spoken, Name
    <3>2. QED
      BY <3>1 DEF ToSet
  <2> HIDE DEF spoken, last
  <2>4. ToSet(Answer(n)) = ToSet(spoken) \cup ToSet(last)
    BY <2>1, <2>2, Parts
  <2>5. QED
    BY <2>2, <2>3, <2>4
<1>5. QED
  BY <1>3, <1>4

(* The text and the sound of the first parts of an answer *)
Texts(n, t) == FlattenSeq([i \in 1 .. t |-> Text(<<n, i>>)])
Sounds(n, t) == FlattenSeq([i \in 1 .. t |-> <<n, i>>])

LEMMA FlattenMore ==
  ASSUME NEW S, NEW g \in [Nat -> Seq(S)], NEW t \in Nat
  PROVE  /\ FlattenSeq([i \in 1 .. t |-> g[i]]) \in Seq(S)
         /\ FlattenSeq([i \in 1 .. 0 |-> g[i]]) = <<>>
         /\ FlattenSeq([i \in 1 .. t + 1 |-> g[i]]) = FlattenSeq([i \in 1 .. t |-> g[i]]) \o g[t + 1]
<1> DEFINE first == [i \in 1 .. t |-> g[i]]
           more == [i \in 1 .. t + 1 |-> g[i]]
<1>1. /\ first \in Seq(Seq(S)) /\ Len(first) = t /\ \A i \in 1 .. t : first[i] = g[i]
      /\ more \in Seq(Seq(S)) /\ Len(more) = t + 1 /\ \A i \in 1 .. t + 1 : more[i] = g[i]
  <2>1. first \in [1 .. t -> Seq(S)] /\ more \in [1 .. t + 1 -> Seq(S)] /\ t + 1 \in Nat
    OBVIOUS
  <2> HIDE DEF first, more
  <2>2. first \in Seq(Seq(S)) /\ Len(first) = t /\ more \in Seq(Seq(S)) /\ Len(more) = t + 1
    BY <2>1, SeqDef, SMTT(30)
  <2>3. QED
    BY <2>2 DEF first, more
<1>2. FlattenSeq([i \in 1 .. 0 |-> g[i]]) = <<>>
  <2>1. [i \in 1 .. 0 |-> g[i]] = <<>>
    OBVIOUS
  <2>2. FlattenSeq(<<>>) = <<>>
    BY DEF FlattenSeq
  <2>3. QED
    BY <2>1, <2>2
<1> HIDE DEF first, more
<1>3. g[t + 1] \in Seq(S)
  OBVIOUS
<1>4. /\ Append(first, g[t + 1]) \in Seq(Seq(S)) /\ Len(Append(first, g[t + 1])) = t + 1
      /\ \A i \in 1 .. t : Append(first, g[t + 1])[i] = first[i]
      /\ Append(first, g[t + 1])[t + 1] = g[t + 1]
  BY <1>1, <1>3, AppendProperties, SMTT(30)
<1>5. more = Append(first, g[t + 1])
  <2>1. ASSUME NEW i \in 1 .. t + 1 PROVE more[i] = Append(first, g[t + 1])[i]
    <3>1. i \in 1 .. t \/ i = t + 1
      OBVIOUS
    <3>2. QED
      BY <1>1, <1>4, <3>1
  <2>2. QED
    BY <1>1, <1>4, <2>1, SeqEqual
<1>6. FlattenSeq(first) \in Seq(S) /\ FlattenSeq(more) = FlattenSeq(first) \o g[t + 1]
  BY <1>1, <1>3, <1>5, FlattenInSeq, FlattenAppend
<1>7. QED
  BY <1>2, <1>6 DEF first, more

LEMMA TextsGrow ==
  ASSUME NEW n \in Nat, NEW t \in Nat
  PROVE  /\ Texts(n, t) \in Seq(Tokens) /\ Texts(n, 0) = <<>>
         /\ Texts(n, t + 1) = Texts(n, t) \o Text(<<n, t + 1>>)
         /\ Sounds(n, t) \in Seq(Nat) /\ Sounds(n, 0) = <<>>
         /\ Sounds(n, t + 1) = Sounds(n, t) \o <<n, t + 1>>
<1> DEFINE text == [i \in Nat |-> Text(<<n, i>>)]
           sound == [i \in Nat |-> <<n, i>>]
<1>1. text \in [Nat -> Seq(Tokens)] /\ sound \in [Nat -> Seq(Nat)]
  BY DEF Text, Tokens
<1>2. \A k \in Nat : /\ [i \in 1 .. k |-> text[i]] = [i \in 1 .. k |-> Text(<<n, i>>)]
                      /\ [i \in 1 .. k |-> sound[i]] = [i \in 1 .. k |-> <<n, i>>]
  OBVIOUS
<1>3. \A k \in Nat : /\ Texts(n, k) = FlattenSeq([i \in 1 .. k |-> text[i]])
                      /\ Sounds(n, k) = FlattenSeq([i \in 1 .. k |-> sound[i]])
  <2> HIDE DEF text, sound
  <2>1. QED
    BY <1>2 DEF Texts, Sounds
<1>4. text[t + 1] = Text(<<n, t + 1>>) /\ sound[t + 1] = <<n, t + 1>> /\ t + 1 \in Nat /\ 0 \in Nat
  OBVIOUS
<1> HIDE DEF text, sound
<1>5. ASSUME NEW S, NEW g \in [Nat -> Seq(S)]
      PROVE  /\ FlattenSeq([i \in 1 .. t |-> g[i]]) \in Seq(S)
             /\ FlattenSeq([i \in 1 .. 0 |-> g[i]]) = <<>>
             /\ FlattenSeq([i \in 1 .. t + 1 |-> g[i]])
                  = FlattenSeq([i \in 1 .. t |-> g[i]]) \o g[t + 1]
  BY FlattenMore
<1>6. /\ Texts(n, t) \in Seq(Tokens) /\ Texts(n, 0) = <<>>
      /\ Texts(n, t + 1) = Texts(n, t) \o Text(<<n, t + 1>>)
  BY <1>1, <1>3, <1>4, <1>5
<1>7. /\ Sounds(n, t) \in Seq(Nat) /\ Sounds(n, 0) = <<>>
      /\ Sounds(n, t + 1) = Sounds(n, t) \o <<n, t + 1>>
  BY <1>1, <1>3, <1>4, <1>5
<1>8. QED
  BY <1>6, <1>7

LEMMA WholeText ==
  ASSUME NEW n \in Nat
  PROVE  /\ Whole(n) = Texts(n, Deltas)
         /\ \A t \in 1 .. Deltas : ToSet(Text(<<n, t>>)) \subseteq ToSet(Whole(n))
<1>1. Deltas \in Nat /\ Whole(n) = Texts(n, Deltas)
  BY ExamplesAssumption DEF Whole, Texts
<1> DEFINE Missing(k) == \E t \in 1 .. k : ~ (ToSet(Text(<<n, t>>)) \subseteq ToSet(Texts(n, k)))
           Short == {k \in Nat : Missing(k)}
<1>2. Short = {}
  <2>1. SUFFICES ASSUME Short # {} PROVE FALSE
    OBVIOUS
  <2>2. PICK k \in Short : \A j \in Short : k <= j
    <3>1. Short \in SUBSET Nat
      OBVIOUS
    <3> HIDE DEF Short
    <3>2. QED
      BY <2>1, <3>1, LeastNat
  <2>3. PICK t \in 1 .. k : ~ (ToSet(Text(<<n, t>>)) \subseteq ToSet(Texts(n, k)))
    BY <2>2
  <2>4. PICK j \in Nat : k = j + 1 /\ ~Missing(j)
    <3>1. k \in Nat \ {0}
      BY <2>2, <2>3
    <3>2. k - 1 \in Nat /\ k = (k - 1) + 1 /\ ~ (k <= k - 1)
      BY <3>1
    <3>3. k - 1 \notin Short
      BY <2>2, <3>2
    <3>4. QED
      BY <3>2, <3>3
  <2>5. /\ Texts(n, j) \in Seq(Tokens) /\ Texts(n, k) = Texts(n, j) \o Text(<<n, k>>)
        /\ Text(<<n, k>>) \in Seq(Tokens)
    <3>1. k \in Nat
      BY <2>4
    <3>2. Text(<<n, k>>) \in Seq(Tokens)
      BY <3>1 DEF Text, Tokens
    <3>3. QED
      BY <2>4, <3>2, TextsGrow
  <2>6. ToSet(Texts(n, k)) = ToSet(Texts(n, j)) \cup ToSet(Text(<<n, k>>))
    BY <2>5, Parts
  <2>7. t \in 1 .. j \/ t = k
    BY <2>4
  <2>8. QED
    BY <2>3, <2>4, <2>6, <2>7
<1>3. QED
  BY <1>1, <1>2

(* What collect does with each message *)
LEMMA CollectsWhat ==
  ASSUME NEW name \in Said, CollectEvent(Event(Payload(name)))
  PROVE  /\ name.kind \in {"text", "transcript"} => KeepCollecting(Gather(Token(name), <<>>))
         /\ name.kind = "sound" /\ program.app = "audio" =>
              KeepCollecting(Gather(<<>>, <<name.answer, name.part>>))
         /\ name.kind = "sound" /\ program.app # "audio" => KeepCollecting(acc)
         /\ name.kind = "choice" => KeepCollecting(Gather(Token(name), Noise(name)))
         /\ name.kind = "lastChoice" => Return(Gather(Token(name), Noise(name)), "done", FALSE)
         /\ name.kind = "done" =>
              Return([acc EXCEPT !.usage = [answer |-> name.answer]], "done", FALSE)
         /\ name.kind \in {"refused", "denied"} => Return(acc, "error", TRUE)
         /\ name.kind \in {"created", "updated", "part"} => KeepCollecting(acc)
<1> DEFINE event == Event(Payload(name))
<1>1. CollectEvent(event)
  OBVIOUS
<1>2. CASE name.kind \in {"text", "transcript"}
  <2>1. /\ event.type \in {"response.text.delta", "response.audio_transcript.delta"}
        /\ event.delta = Token(name)
    BY <1>2, HeardText
  <2> HIDE DEF event
  <2>2. KeepCollecting(Gather(event.delta, <<>>))
    BY <1>1, <2>1 DEF CollectEvent
  <2>3. QED
    BY <1>2, <2>1, <2>2
<1>3. CASE name.kind = "sound"
  <2>1. event.type = "response.audio.delta" /\ event.audio = <<name.answer, name.part>>
    BY <1>3, HeardSound
  <2> HIDE DEF event
  <2>2. /\ program.app = "audio" => KeepCollecting(Gather(<<>>, event.audio))
        /\ program.app # "audio" => KeepCollecting(acc)
    BY <1>1, <2>1 DEF CollectEvent
  <2>3. QED
    BY <1>3, <2>1, <2>2
<1>4. CASE name.kind \in {"choice", "lastChoice"}
  <2> DEFINE gathered == Gather(event.delta, IF program.app = "audio" THEN event.audio ELSE <<>>)
  <2>1. /\ event.type = "choices" /\ event.delta = Token(name) /\ event.audio = Noise(name)
        /\ event.finish = IF name.kind = "choice" THEN "null" ELSE "stop"
    BY <1>4, HeardChoice
  <2> HIDE DEF event
  <2>2. gathered = Gather(Token(name), Noise(name))
    BY <2>1 DEF Noise
  <2>3. IF event.finish \in {"", "null"} THEN KeepCollecting(gathered) ELSE Return(gathered, "done", FALSE)
    BY <1>1, <2>1 DEF CollectEvent
  <2> HIDE DEF gathered
  <2>4. QED
    BY <1>4, <2>1, <2>2, <2>3
<1>5. CASE name.kind = "done"
  <2>1. event.type = "response.done" /\ event.usage = [answer |-> name.answer] /\ event.usage # Nil
    BY <1>5, HeardDone
  <2> HIDE DEF event
  <2> DEFINE u == event.usage
  <2>2. Return([acc EXCEPT !.usage = IF u = Nil THEN acc.usage ELSE u], "done", FALSE)
    BY <1>1, <2>1 DEF CollectEvent
  <2>3. u # Nil /\ u = [answer |-> name.answer]
    BY <2>1
  <2> HIDE DEF u
  <2>4. (IF u = Nil THEN acc.usage ELSE u) = u
    BY <2>3
  <2>5. Return([acc EXCEPT !.usage = u], "done", FALSE)
    BY <2>2, <2>4
  <2>6. QED
    BY <1>5, <2>3, <2>5
<1>6. CASE name.kind \in {"created", "updated", "refused", "denied", "part"}
  <2>1. /\ name.kind \in {"refused", "denied"} => event.type = "error"
        /\ name.kind \notin {"refused", "denied"} =>
             event.type \in {"session.created", "session.updated", "response.content_part.done"}
    BY <1>6, HeardNote
  <2> HIDE DEF event
  <2>2. name.kind \in {"refused", "denied"} => Return(acc, "error", TRUE)
    BY <1>1, <2>1 DEF CollectEvent
  <2>3. name.kind \notin {"refused", "denied"} => KeepCollecting(acc)
    BY <1>1, <2>1 DEF CollectEvent
  <2>4. QED
    BY <1>6, <2>2, <2>3
<1>7. QED
  BY <1>2, <1>3, <1>4, <1>5, <1>6 DEF Said, Handled

-----------------------------------------------------------------------------
(* What is on its way to collect, what of it are errors of refused
   cancellations, and what is left of an answer after t parts of its text and s
   of its sound *)
OnItsWay == ToSet(eventCh) \cup ToSet(InHand) \cup ToSet(Queued) \cup ToSet(server.outbox)
Coming == {x \in OnItsWay : x.kind \in Counted}
Denials == {x \in OnItsWay : x.kind = "denied"}

Rest(n, t, s) ==
  {x \in Due(n) : x.kind = "done" \/ x.part > IF x.kind = "sound" THEN s ELSE t}

Gathered(t, s) ==
  /\ acc.text = Texts(asked, t)
  /\ acc.audio = IF program.app = "audio" THEN Sounds(asked, s) ELSE <<>>
  /\ program.compact => s = t
  /\ Coming = Rest(asked, t, s)

(* While main waits for an answer, the error that refuses it is on its way, or
   parts of it; unless it was cut short, the parts collected are the first ones
   and the others are still to come. *)
Expected ==
  /\ ToSet(acc.text) \subseteq ToSet(Whole(asked))
  /\ IF asked \in refused THEN acc.text = <<>> /\ Coming \subseteq {Refusal(asked)}
     ELSE /\ Coming \subseteq Due(asked)
          /\ asked \in cancelled \/ \E t, s \in 0 .. Deltas : Gathered(t, s)

Waits == Awaits(script[main.f], main.i)

(* The requests of an answer that have been accounted for *)
Accounted == refused \subseteq 0 .. asked /\ cancelled \subseteq 0 .. asked /\ denied \subseteq 0 .. asked

AnswerInv ==
  /\ AnswerIsWhole
  /\ Accounted
  /\ status = "running" /\ Here.do # "collect" => acc = NoOutput
  /\ status = "running" /\ ~disturbed =>
       /\ IF Waits THEN Expected ELSE Coming = {}
       /\ denied = {} => Denials = {}

(* The first of what is left of an answer *)
LEMMA DueInOrder ==
  ASSUME NEW n \in Nat, NEW x \in Due(n)
  PROVE  /\ x \in Names /\ x.answer = n /\ x.part \in Nat
         /\ x.kind \in Counted
         /\ x.kind # "done" => x.part \in 1 .. Deltas
         /\ program.compact => x.kind = IF x.part < Deltas THEN "choice" ELSE "lastChoice"
         /\ ~program.compact =>
              \/ x.kind = "done"
              \/ x.kind \in IF program.app = "audio" THEN {"sound", "transcript"} ELSE {"text"}
         /\ \A y \in Due(n) : Earlier(x, y) <=> Place(x) < Place(y)
<1>1. x \in Names /\ x.answer = n /\ x.part \in Nat
  BY NamesAreNamed DEF Due
<1>2. \A y \in Due(n) : y.answer = n
  BY DEF Due
<1>3. \A y \in Due(n) : Earlier(x, y) <=> Place(x) < Place(y)
  BY <1>1, <1>2 DEF Earlier
<1>4. CASE program.compact
  BY <1>1, <1>3, <1>4 DEF Due, Counted, Spoke
<1>5. CASE ~program.compact
  BY <1>1, <1>3, <1>5 DEF Due, Counted, Spoke
<1>6. QED
  BY <1>4, <1>5

LEMMA NothingAfterTheEnd ==
  ASSUME NEW n \in Nat, NEW x \in Due(n), x.kind \in {"done", "lastChoice"},
         NEW C \in SUBSET Due(n), \A y \in C : Earlier(x, y)
  PROVE  C = {}
<1> SUFFICES ASSUME NEW y \in C PROVE FALSE
  OBVIOUS
<1>1. Place(x) < Place(y) /\ Deltas \in Nat \ {0}
  BY DueInOrder, ExamplesAssumption
<1>2. y \in Due(n) /\ y.part \in Nat /\ (y.kind # "done" => y.part \in 1 .. Deltas)
  BY DueInOrder
<1>3. CASE x.kind = "done"
  BY <1>1, <1>2, <1>3 DEF Place
<1>4. CASE x.kind = "lastChoice"
  <2>1. program.compact /\ x.part = Deltas /\ x.kind = "lastChoice"
    <3>1. x.part \in 1 .. Deltas /\ (program.compact \/ x.kind # "lastChoice")
      BY <1>4, DueInOrder
    <3>2. program.compact => x.kind = IF x.part < Deltas THEN "choice" ELSE "lastChoice"
      BY DueInOrder
    <3>3. QED
      BY <1>1, <1>4, <3>1, <3>2
  <2>2. y.kind \in {"choice", "lastChoice"}
    BY <2>1, DueInOrder
  <2>3. Place(x) = 2 * Deltas /\ Place(y) = 2 * y.part /\ y.part \in 1 .. Deltas
    BY <1>2, <2>1, <2>2 DEF Place
  <2>4. QED
    BY <1>1, <2>3
<1>5. QED
  BY <1>3, <1>4

(* How the parts of an answer are called *)
LEMMA PartsAreDue ==
  ASSUME NEW n \in Nat, NEW i \in 1 .. Deltas
  PROVE  /\ program.compact =>
              Name(IF i < Deltas THEN "choice" ELSE "lastChoice", n, i) \in Due(n)
         /\ ~program.compact /\ program.app = "audio" =>
              Name("sound", n, i) \in Due(n) /\ Name("transcript", n, i) \in Due(n)
         /\ ~program.compact /\ program.app # "audio" => Name("text", n, i) \in Due(n)
<1>1. i \in Nat /\ Deltas \in Nat
  BY ExamplesAssumption
<1>2. ASSUME NEW kind \in {"choice", "lastChoice", "sound", "transcript", "text"}
      PROVE  /\ Name(kind, n, i) \in Names /\ Name(kind, n, i).kind = kind
             /\ Name(kind, n, i).answer = n /\ Name(kind, n, i).part = i
  BY <1>1, NameIsName DEF Handled
<1>3. CASE program.compact
  <2> DEFINE kind == IF i < Deltas THEN "choice" ELSE "lastChoice"
  <2>1. kind \in {"choice", "lastChoice", "sound", "transcript", "text"}
    OBVIOUS
  <2>2. /\ Name(kind, n, i) \in Names /\ Name(kind, n, i).kind = kind
        /\ Name(kind, n, i).answer = n /\ Name(kind, n, i).part = i
    BY <1>2, <2>1
  <2>3. Name(kind, n, i) \in Due(n)
    BY <1>3, <2>2 DEF Due
  <2>4. QED
    BY <1>3, <2>3
<1>4. CASE ~program.compact
  BY <1>2, <1>4 DEF Due
<1>5. QED
  BY <1>3, <1>4

(* x comes before all the others. *)
First(all, x, others) == all = others \cup {x} /\ \A y \in others : Earlier(x, y)

LEMMA NextOfRest ==
  ASSUME NEW n \in Nat, NEW t \in 0 .. Deltas, NEW s \in 0 .. Deltas, program.compact => s = t,
         NEW x, NEW C, First(Rest(n, t, s), x, C)
  PROVE  /\ x \in Due(n)
         /\ x.kind \in Spoke =>
              /\ t + 1 \in 0 .. Deltas /\ x.part = t + 1
              /\ C = Rest(n, t + 1, IF program.compact THEN t + 1 ELSE s)
         /\ x.kind = "sound" =>
              ~program.compact /\ s + 1 \in 0 .. Deltas /\ x.part = s + 1 /\ C = Rest(n, t, s + 1)
         /\ x.kind = "lastChoice" => x.part = Deltas
         /\ x.kind = "done" => ~program.compact /\ t = Deltas /\ (program.app = "audio" => s = Deltas)
<1> USE NamesAreNamed
<1>1. Deltas \in Nat \ {0} /\ t \in Nat /\ s \in Nat
  BY ExamplesAssumption
<1>2. /\ x \in Due(n) /\ C \subseteq Due(n) /\ x \in Rest(n, t, s)
      /\ Rest(n, t, s) = C \cup {x} /\ \A y \in C : Earlier(x, y)
  BY DEF Rest, First
<1>3. \A y \in C : Place(x) < Place(y)
  BY <1>2, DueInOrder
<1>4. C = Rest(n, t, s) \ {x}
  <2>1. Place(x) \in Int
    <3>1. x.part \in Nat
      BY <1>2, DueInOrder
    <3>2. QED
      BY <1>1, <3>1 DEF Place
  <2>2. x \notin C
    BY <1>3, <2>1
  <2>3. QED
    BY <1>2, <2>2
<1>5. /\ x.part \in Nat /\ (x.kind # "done" => x.part \in 1 .. Deltas)
      /\ (x.kind = "done" \/ x.part > IF x.kind = "sound" THEN s ELSE t)
  BY <1>2, DueInOrder DEF Rest
<1>6. ASSUME NEW i \in 1 .. Deltas, NEW kind, Name(kind, n, i) \in Due(n), kind # "done",
             i > IF kind = "sound" THEN s ELSE t
      PROVE  /\ Name(kind, n, i) = x \/ Place(x) < Place(Name(kind, n, i))
             /\ Place(Name(kind, n, i)) = IF kind = "sound" THEN 2 * i - 1 ELSE 2 * i
             /\ Name(kind, n, i).kind = kind /\ Name(kind, n, i).part = i
  <2> DEFINE y == Name(kind, n, i)
  <2>1. y.kind = kind /\ y.part = i
    BY <1>2, DueInOrder, NamesAreNamed
  <2> HIDE DEF y
  <2>2. y \in Rest(n, t, s)
    BY <1>6, <2>1 DEF Rest, y
  <2>3. y = x \/ y \in C
    BY <1>4, <2>2
  <2>4. Place(y) = IF kind = "sound" THEN 2 * i - 1 ELSE 2 * i
    BY <1>6, <2>1 DEF Place
  <2>5. QED
    BY <1>3, <2>1, <2>3, <2>4 DEF y
<1> DEFINE Kind(i) == IF program.compact THEN IF i < Deltas THEN "choice" ELSE "lastChoice"
                      ELSE IF program.app = "audio" THEN "transcript" ELSE "text"
<1>7. ASSUME NEW i \in 1 .. Deltas
      PROVE  Name(Kind(i), n, i) \in Due(n) /\ Kind(i) \notin {"done", "sound"}
  BY PartsAreDue
<1>8. ASSUME NEW y \in Due(n), y.kind \notin {"done", "sound"}
      PROVE  y.kind = Kind(y.part) /\ y = Name(Kind(y.part), n, y.part)
  <2>1. y.kind = Kind(y.part)
    BY <1>8, DueInOrder
  <2> HIDE DEF Kind
  <2>2. y \in Names /\ y.answer = n
    BY DueInOrder
  <2>3. y = Name(y.kind, y.answer, y.part)
    BY <2>2, NamesAreNamed
  <2>4. QED
    BY <2>1, <2>2, <2>3
<1>9. ASSUME NEW i \in 1 .. Deltas, i > t
      PROVE  \/ Name(Kind(i), n, i) = x /\ x.kind = Kind(i) /\ x.part = i
             \/ Place(x) < 2 * i
  <2> DEFINE kind == Kind(i)
  <2>1. Name(kind, n, i) \in Due(n) /\ kind \notin {"done", "sound"}
    BY <1>7
  <2> HIDE DEF kind
  <2>2. QED
    BY <1>6, <1>9, <2>1 DEF kind
<1>10. ASSUME NEW i \in 1 .. Deltas, i > s, ~program.compact, program.app = "audio"
       PROVE  \/ Name("sound", n, i) = x /\ x.kind = "sound" /\ x.part = i
              \/ Place(x) < 2 * i - 1
  BY <1>6, <1>10, PartsAreDue
<1>11. ASSUME x.kind \in Spoke
       PROVE  /\ t + 1 \in 0 .. Deltas /\ x.part = t + 1
              /\ C = Rest(n, t + 1, IF program.compact THEN t + 1 ELSE s)
  <2>1. x.kind \notin {"done", "sound"} /\ x.part \in 1 .. Deltas /\ x.part > t
    BY <1>5, <1>11 DEF Spoke
  <2>2. t + 1 \in 1 .. Deltas /\ t + 1 > t /\ Place(x) = 2 * x.part
    BY <1>1, <2>1 DEF Place
  <2> HIDE DEF Kind
  <2>3. x.part = t + 1
    BY <1>1, <1>5, <1>9, <2>1, <2>2
  <2> DEFINE r == IF program.compact THEN t + 1 ELSE s
  <2>4. program.compact => \A y \in Due(n) : y.kind # "sound"
    BY DueInOrder
  <2>5. ASSUME NEW y \in Rest(n, t, s), y # x PROVE y \in Rest(n, t + 1, r)
    <3>1. y \in Due(n) /\ y.part \in Nat /\ (y.kind = "done" \/ y.part > IF y.kind = "sound" THEN s ELSE t)
      BY DueInOrder DEF Rest
    <3>2. y.kind \notin {"done", "sound"} => y.part # t + 1
      BY <1>2, <1>8, <2>1, <2>3, <2>5, <3>1
    <3>3. y.kind = "done" \/ y.part > IF y.kind = "sound" THEN r ELSE t + 1
      BY <1>1, <2>4, <3>1, <3>2
    <3> HIDE DEF r
    <3>4. QED
      BY <3>1, <3>3 DEF Rest
  <2>6. ASSUME NEW y \in Rest(n, t + 1, r) PROVE y \in Rest(n, t, s) /\ y # x
    <3>1. y \in Due(n) /\ y.part \in Nat /\ (y.kind = "done" \/ y.part > IF y.kind = "sound" THEN r ELSE t + 1)
      BY DueInOrder DEF Rest
    <3>2. y.kind = "done" \/ y.part > IF y.kind = "sound" THEN s ELSE t
      BY <1>1, <2>4, <3>1
    <3>3. y # x
      BY <1>1, <2>1, <2>3, <3>1
    <3>4. QED
      BY <3>1, <3>2, <3>3 DEF Rest
  <2>7. C = Rest(n, t + 1, r)
    BY <1>4, <2>5, <2>6
  <2>8. QED
    BY <1>1, <2>2, <2>3, <2>7
<1>12. ASSUME x.kind = "sound"
       PROVE  ~program.compact /\ s + 1 \in 0 .. Deltas /\ x.part = s + 1 /\ C = Rest(n, t, s + 1)
  <2>1. ~program.compact /\ program.app = "audio"
    BY <1>2, <1>12, DueInOrder
  <2>2. x.part \in 1 .. Deltas /\ x.part > s /\ s + 1 \in 1 .. Deltas /\ s + 1 > s
        /\ Place(x) = 2 * x.part - 1
    BY <1>1, <1>5, <1>12 DEF Place
  <2>3. x.part = s + 1
    BY <1>1, <1>10, <2>1, <2>2
  <2>4. x = Name("sound", n, s + 1)
    BY <1>2, <1>12, <2>3, DueInOrder, NamesAreNamed
  <2>5. ASSUME NEW y \in Rest(n, t, s), y # x PROVE y \in Rest(n, t, s + 1)
    <3>1. y \in Due(n) /\ y.part \in Nat /\ (y.kind = "done" \/ y.part > IF y.kind = "sound" THEN s ELSE t)
          /\ y \in Names /\ y.answer = n
      BY DueInOrder DEF Rest
    <3>2. y = Name(y.kind, n, y.part)
      BY <3>1, NamesAreNamed
    <3>3. y.kind = "sound" => y.part # s + 1
      BY <2>4, <2>5, <3>2
    <3>4. y.kind = "done" \/ y.part > IF y.kind = "sound" THEN s + 1 ELSE t
      BY <1>1, <3>1, <3>3
    <3>5. QED
      BY <3>1, <3>4 DEF Rest
  <2>6. ASSUME NEW y \in Rest(n, t, s + 1) PROVE y \in Rest(n, t, s) /\ y # x
    <3>1. y \in Due(n) /\ y.part \in Nat /\ (y.kind = "done" \/ y.part > IF y.kind = "sound" THEN s + 1 ELSE t)
      BY DueInOrder DEF Rest
    <3>2. y.kind = "done" \/ y.part > IF y.kind = "sound" THEN s ELSE t
      BY <1>1, <3>1
    <3>3. y # x
      BY <1>1, <1>12, <2>3, <3>1
    <3>4. QED
      BY <3>1, <3>2, <3>3 DEF Rest
  <2>7. C = Rest(n, t, s + 1)
    BY <1>4, <2>5, <2>6
  <2>8. QED
    BY <1>1, <2>1, <2>2, <2>3, <2>7
<1>13. x.kind = "lastChoice" => x.part = Deltas
  <2>1. ASSUME x.kind = "lastChoice" PROVE x.part = Deltas
    <3>1. program.compact /\ (x.kind = IF x.part < Deltas THEN "choice" ELSE "lastChoice")
      BY <1>2, <2>1, DueInOrder
    <3>2. QED
      BY <1>1, <1>5, <2>1, <3>1
  <2>2. QED
    BY <2>1
<1>14. ASSUME x.kind = "done"
       PROVE  ~program.compact /\ t = Deltas /\ (program.app = "audio" => s = Deltas)
  <2>1. ~program.compact
    BY <1>2, <1>14, DueInOrder
  <2>2. Place(x) = 2 * Deltas + 1
    BY <1>14 DEF Place
  <2>3. t = Deltas
    <3>1. SUFFICES ASSUME t < Deltas PROVE FALSE
      BY <1>1
    <3>2. t + 1 \in 1 .. Deltas /\ t + 1 > t /\ ~ (Place(x) < 2 * (t + 1))
      BY <1>1, <2>2, <3>1
    <3>3. Kind(t + 1) # "done"
      BY <2>1
    <3> HIDE DEF Kind
    <3>4. QED
      BY <1>9, <1>14, <3>2, <3>3
  <2>4. ASSUME program.app = "audio" PROVE s = Deltas
    <3>1. SUFFICES ASSUME s < Deltas PROVE FALSE
      BY <1>1
    <3>2. s + 1 \in 1 .. Deltas /\ s + 1 > s /\ ~ (Place(x) < 2 * (s + 1) - 1)
      BY <1>1, <2>2, <3>1
    <3>3. QED
      BY <1>10, <1>14, <2>1, <2>4, <3>2
  <2>5. QED
    BY <2>1, <2>3, <2>4
<1>15. QED
  BY <1>2, <1>11, <1>12, <1>13, <1>14

LEMMA OneMore ==
  ASSUME NEW x \in Names, NEW a \in Seq(Names)
  PROVE  /\ ToSet(<<x>>) = {x}
         /\ \A b : b = a \o <<x>> => ToSet(b) = ToSet(a) \cup {x}
         /\ \A b : b = <<x>> \o a => ToSet(b) = ToSet(a) \cup {x}
<1> DEFINE one == <<x>>
<1>1. one \in Seq(Names) /\ ToSet(one) = {x}
  BY DEF ToSet
<1> HIDE DEF one
<1>2. ToSet(a \o one) = ToSet(a) \cup {x} /\ ToSet(one \o a) = ToSet(a) \cup {x}
  BY <1>1, Parts
<1>3. QED
  BY <1>1, <1>2 DEF one

(* Arriving and being pumped changes nothing about what is on its way. *)
LEMMA ComingMoves ==
  ASSUME PumpedInv, PumpedInv', Arrive \/ StreamFails \/ Pump
  PROVE  Coming' = Coming /\ Denials' = Denials
<1> DEFINE e == eventCh
           h == InHand
           q == Queued
           o == server.outbox
<1>1. e \in Seq(Names) /\ h \in Seq(Names) /\ q \in Seq(Names) /\ o \in Seq(Names)
  BY ChannelsOfNames DEF ChannelsOK
<1>2. e' \in Seq(Names) /\ h' \in Seq(Names) /\ q' \in Seq(Names) /\ o' \in Seq(Names)
  <2>1. ChannelsOK'
    BY ChannelsOfNames, PTL
  <2>2. QED
    BY <2>1 DEF ChannelsOK
<1>5. <<>> \in Seq(Names) /\ ToSet(<<>>) = {}
  BY DEF ToSet
<1> DEFINE All == ToSet(e) \cup ToSet(h) \cup ToSet(q) \cup ToSet(o)
<1>6. ASSUME All' = All \/ All' = All \cup {StreamError} \/ All = All' \cup {StreamError}
      PROVE  Coming' = Coming /\ Denials' = Denials
  <2>1. StreamError.kind \notin Counted /\ StreamError.kind # "denied"
    BY ErrorIsName DEF Counted, Spoke
  <2> DEFINE all == All
             then == All'
  <2>2. /\ Coming = {x \in all : x.kind \in Counted} /\ Coming' = {x \in then : x.kind \in Counted}
        /\ Denials = {x \in all : x.kind = "denied"} /\ Denials' = {x \in then : x.kind = "denied"}
    BY DEF Coming, Denials, OnItsWay
  <2>3. then = all \/ then = all \cup {StreamError} \/ all = then \cup {StreamError}
    BY <1>6
  <2> HIDE DEF all, then
  <2>4. QED
    BY <2>1, <2>2, <2>3
<1>7. CASE Arrive
  <2>1. /\ UNCHANGED <<eventCh, pump, hand>> /\ server.outbox # <<>>
        /\ log' = Append(log, Head(o)) /\ out' = out /\ o' = Tail(o)
    BY <1>7 DEF Arrive, Stream!Receive, pumpVars, PumpedInv, ServerOK
  <2>2. Head(o) \in Names /\ o = <<Head(o)>> \o o' /\ e' = e /\ h' = h
    BY <1>1, <2>1, HeadThenTail DEF InHand
  <2>3. q' = q \o <<Head(o)>>
    BY <2>1, <2>2, QueuedMore
  <2> DEFINE x == Head(o)
  <2>4. ToSet(o) = {x} \cup ToSet(o') /\ ToSet(q') = ToSet(q) \cup {x}
    <3> HIDE DEF x
    <3>1. o = <<x>> \o o' /\ q' = q \o <<x>> /\ x \in Names
      BY <2>2, <2>3 DEF x
    <3> HIDE DEF o, q
    <3>2. ToSet(o) = ToSet(o') \cup {x}
      BY <1>2, <3>1, OneMore, Zenon
    <3>3. ToSet(q') = ToSet(q) \cup {x}
      BY <1>1, <3>1, OneMore
    <3>4. QED
      BY <3>2, <3>3
  <2>5. All' = All
    <3> HIDE DEF x
    <3>1. QED
      BY <2>2, <2>4
  <2>6. QED
    BY <1>6, <2>5
<1>8. CASE StreamFails
  <2>1. UNCHANGED <<eventCh, pump, hand, server>> /\ log' = Append(log, StreamError) /\ out' = out
    BY <1>8 DEF StreamFails, Stream!Receive, pumpVars, serverVars
  <2>2. e' = e /\ h' = h /\ o' = o /\ q' = q \o <<StreamError>>
    BY <2>1, QueuedMore, ErrorIsName DEF InHand
  <2>3. ToSet(q') = ToSet(q) \cup {StreamError}
    <3> HIDE DEF q
    <3>1. QED
      BY <1>1, <2>2, ErrorIsName, OneMore
  <2>4. All' = All \cup {StreamError}
    BY <2>2, <2>3
  <2>5. QED
    BY <1>6, <2>4
<1>9. CASE Pump
  <2>1. o' = o
    BY <1>9 DEF Pump, serverVars
  <2>2. CASE PumpTakes
    <3> DEFINE x == log[Len(out) + 1]
    <3>1. /\ pump = "range" /\ Stream!Deliver /\ hand' = x /\ UNCHANGED eventCh
          /\ pump' = IF x = StreamError THEN "error" ELSE "event"
      BY <2>2 DEF PumpTakes
    <3>2. x \in Names /\ q = <<x>> \o q'
      BY <3>1, QueuedLess
    <3>3. h = <<>> /\ e' = e /\ h' = IF x = StreamError THEN <<>> ELSE <<x>>
      BY <3>1 DEF InHand
    <3> HIDE DEF x
    <3>4. ToSet(q) = ToSet(q') \cup {x}
      <4> HIDE DEF q
      <4>1. QED
        BY <1>2, <3>2, OneMore, Zenon
    <3>5. ToSet(h) = {} /\ ToSet(h') = IF x = StreamError THEN {} ELSE {x}
      <4>1. ToSet(<<x>>) = {x}
        BY <1>5, <3>2, OneMore
      <4> DEFINE then == h'
      <4> HIDE DEF then, h
      <4>2. QED
        BY <1>5, <3>3, <4>1 DEF then
    <3>6. x # StreamError => All' = All
      BY <2>1, <3>3, <3>4, <3>5
    <3>7. x = StreamError => All = All' \cup {StreamError}
      BY <2>1, <3>3, <3>4, <3>5
    <3>8. QED
      BY <1>6, <3>6, <3>7
  <2>3. CASE PumpPushes
    <3>1. /\ pump = "event" /\ pump' = "range" /\ eventCh' = Append(eventCh, hand)
          /\ UNCHANGED <<log, out, hand>> /\ hand \in Names
      BY <2>3 DEF PumpPushes, streamVars, PumpedInv, PumpInv
    <3>2. h = <<hand>> /\ h' = <<>> /\ q' = q /\ e' = e \o <<hand>>
      BY <1>1, <3>1, AppendIsConcat DEF InHand, Queued
    <3>3. ToSet(e') = ToSet(e) \cup {hand} /\ ToSet(h) = {hand} /\ ToSet(h') = {}
      <4> HIDE DEF h, e
      <4>1. ToSet(e') = ToSet(e) \cup {hand}
        BY <1>1, <3>1, <3>2, OneMore
      <4>2. ToSet(h) = {hand} /\ ToSet(h') = {}
        BY <1>5, <3>1, <3>2, OneMore
      <4>3. QED
        BY <4>1, <4>2
    <3>4. All' = All
      BY <2>1, <3>2, <3>3
    <3>5. QED
      BY <1>6, <3>4
  <2>4. CASE PumpEnds \/ PumpFails \/ PumpCloses
    <3>1. /\ UNCHANGED <<log, out, hand, eventCh>> /\ pump # "event" /\ pump' # "event"
      BY <2>4 DEF PumpEnds, PumpFails, PumpCloses, Stream!End, streamVars
    <3>2. e' = e /\ h' = h /\ q' = q
      BY <3>1 DEF InHand, Queued
    <3>3. All' = All
      BY <2>1, <3>2
    <3>4. QED
      BY <1>6, <3>3
  <2>5. QED
    BY <1>9, <2>2, <2>3, <2>4 DEF Pump
<1>10. QED
  BY <1>7, <1>8, <1>9

(* What a request does to what is on its way *)
LEMMA RequestsComing ==
  ASSUME PumpedInv, TextInv, NEW request, Handle(request),
         UNCHANGED <<eventCh, pump, hand, log, out>>
  PROVE  IF request.type = "response.create"
         THEN /\ asked' = asked + 1 /\ UNCHANGED <<cancelled, denied>> /\ Denials' = Denials
              /\ \/ UNCHANGED refused /\ Coming' = Coming \cup Due(asked + 1)
                 \/ /\ refused' = refused \cup {asked + 1}
                    /\ Coming' = Coming \cup {Refusal(asked + 1)}
         ELSE /\ UNCHANGED <<asked, refused>>
              /\ \/ UNCHANGED <<cancelled, denied>> /\ Coming' = Coming /\ Denials' = Denials
                 \/ /\ cancelled' = cancelled \cup {asked} /\ UNCHANGED denied
                    /\ Coming' \subseteq Coming /\ Denials' \subseteq Denials
                 \/ /\ denied' = denied \cup {asked} /\ UNCHANGED cancelled
                    /\ Coming' = Coming
<1> DEFINE o == server.outbox
           F == ToSet(eventCh) \cup ToSet(InHand) \cup ToSet(Queued)
           In(s) == {x \in F \cup ToSet(s) : x.kind \in Counted}
           Denied(s) == {x \in F \cup ToSet(s) : x.kind = "denied"}
<1>1. o \in Seq(Names) /\ o \in Seq(Said) /\ asked \in Nat
  BY ChannelsOfNames DEF ChannelsOK
<1>2. Coming = In(o) /\ Coming' = In(o') /\ Denials = Denied(o) /\ Denials' = Denied(o')
  <2>1. F' = F
    BY DEF InHand, Queued
  <2>2. QED
    BY <2>1 DEF Coming, Denials, OnItsWay
<1>3. \A s \in Seq(Names) : ToSet(o \o s) = ToSet(o) \cup ToSet(s)
  BY <1>1, Parts
<1>4. ASSUME NEW x \in Names
      PROVE  /\ In(o \o <<x>>) = In(o) \cup (IF x.kind \in Counted THEN {x} ELSE {})
             /\ x.kind # "denied" => Denied(o \o <<x>>) = Denied(o)
             /\ Append(o, x) = o \o <<x>>
  <2> HIDE DEF F, o
  <2>1. <<x>> \in Seq(Names) /\ ToSet(<<x>>) = {x}
    BY DEF ToSet
  <2>2. ToSet(o \o <<x>>) = ToSet(o) \cup {x}
    BY <1>3, <2>1
  <2>3. Append(o, x) = o \o <<x>>
    BY <1>1, AppendIsConcat
  <2>4. QED
    BY <2>2, <2>3
<1>5. /\ In(o \o Answer(asked + 1)) = In(o) \cup Due(asked + 1)
      /\ Denied(o \o Answer(asked + 1)) = Denied(o)
  <2> DEFINE s == Answer(asked + 1)
             d == Due(asked + 1)
  <2>1. asked + 1 \in Nat
    BY <1>1
  <2>2. s \in Seq(Names) /\ \A x : (x \in ToSet(s) /\ x.kind \in Counted <=> x \in d)
    BY <2>1, AnswerIsDue, AnswerComesNext
  <2>3. \A x \in ToSet(s) : x.kind # "denied"
    BY <2>1, NothingDenied
  <2> HIDE DEF s, d, F, o
  <2>4. ToSet(o \o s) = ToSet(o) \cup ToSet(s)
    BY <1>3, <2>2
  <2>5. \A x : x \in In(o \o s) <=> x \in In(o) \/ x \in d
    BY <2>2, <2>4
  <2>6. Denied(o \o s) = Denied(o)
    BY <2>3, <2>4
  <2>7. QED
    BY <2>5, <2>6 DEF s, d
<1>6. In(Cut(o)) \subseteq In(o) /\ Denied(Cut(o)) \subseteq Denied(o)
  <2> DEFINE c == Cut(o)
  <2>1. Sorted(o)
    BY DEF TextInv, Lined
  <2>2. c \in Seq(Said) /\ \A i \in 1 .. Len(c) : \E j \in 1 .. Len(o) : c[i] = o[j]
    BY <1>1, <2>1, CutSorted
  <2>3. \A s \in Seq(Said) : ToSet(s) = {s[i] : i \in 1 .. Len(s)}
    BY Parts
  <2> HIDE DEF c, o, F
  <2>4. ToSet(c) = {c[i] : i \in 1 .. Len(c)} /\ ToSet(o) = {o[i] : i \in 1 .. Len(o)}
    BY <1>1, <2>2, <2>3
  <2>5. ToSet(c) \subseteq ToSet(o)
    BY <2>2, <2>4
  <2>6. QED
    BY <2>5 DEF c
<1>7. server = [config |-> server.config, buffer |-> server.buffer, outbox |-> o]
  BY DEF PumpedInv, ServerOK
<1> HIDE DEF F
<1>8. CASE request.type = "session.update"
  <2> DEFINE x == Name("updated", 0, 0)
  <2>1. /\ server' = [server EXCEPT !.config = request.session, !.outbox = Append(@, x)]
        /\ UNCHANGED requestVars
    BY <1>8 DEF Handle
  <2>2. x \in Names /\ x.kind \notin Counted /\ x.kind # "denied"
    BY NameIsName DEF Handled, Counted, Spoke
  <2> HIDE DEF x
  <2>3. o' = Append(o, x)
    BY <1>7, <2>1
  <2>4. Coming' = Coming /\ Denials' = Denials
    BY <1>2, <1>4, <2>2, <2>3
  <2>5. QED
    BY <1>8, <2>1, <2>4 DEF requestVars
<1>9. CASE request.type \in {"input_audio_buffer.append", "input_audio_buffer.clear",
                              "input_audio_buffer.commit"}
  <2>1. UNCHANGED requestVars /\ o' = o
    BY <1>7, <1>9 DEF Handle
  <2>2. QED
    BY <1>2, <1>9, <2>1 DEF requestVars
<1>10. CASE request.type = "response.create"
  <2> DEFINE n == asked + 1
  <2>1. /\ asked' = n /\ UNCHANGED <<cancelled, denied>>
        /\ \/ Sends(Answer(n)) /\ UNCHANGED refused
           \/ Sends(<<Refusal(n)>>) /\ refused' = refused \cup {n}
    BY <1>10 DEF Handle
  <2>2. ASSUME NEW names, Sends(names) PROVE o' = o \o names
    BY <1>7, <2>2 DEF Sends
  <2>3. n \in Nat
    BY <1>1
  <2>4. CASE Sends(Answer(n)) /\ UNCHANGED refused
    <3>1. o' = o \o Answer(n)
      BY <2>2, <2>4
    <3>2. Coming' = Coming \cup Due(n) /\ Denials' = Denials
      BY <1>2, <1>5, <3>1
    <3>3. QED
      BY <1>10, <2>1, <2>4, <3>2
  <2>5. CASE Sends(<<Refusal(n)>>) /\ refused' = refused \cup {n}
    <3> DEFINE x == Refusal(n)
    <3>1. o' = o \o <<x>>
      BY <2>2, <2>5
    <3>2. x \in Names /\ x.kind \in Counted /\ x.kind # "denied"
      BY <2>3, RefusalIsName DEF Counted
    <3> HIDE DEF x
    <3>3. Coming' = Coming \cup {x} /\ Denials' = Denials
      BY <1>2, <1>4, <3>1, <3>2
    <3>4. QED
      BY <1>10, <2>1, <2>5, <3>3 DEF x
  <2>6. QED
    BY <2>1, <2>4, <2>5
<1>11. CASE request.type = "response.cancel"
  <2>1. /\ \/ /\ server' = [server EXCEPT !.outbox = Cut(@)]
              /\ cancelled' = cancelled \cup {asked} /\ UNCHANGED denied
           \/ Sends(<<Denial>>) /\ denied' = denied \cup {asked} /\ UNCHANGED cancelled
        /\ UNCHANGED <<asked, refused>>
    BY <1>11 DEF Handle
  <2>2. CASE /\ server' = [server EXCEPT !.outbox = Cut(@)]
             /\ cancelled' = cancelled \cup {asked} /\ UNCHANGED denied
    <3>1. o' = Cut(o)
      BY <1>7, <2>2
    <3>2. Coming' \subseteq Coming /\ Denials' \subseteq Denials
      BY <1>2, <1>6, <3>1
    <3>3. QED
      BY <1>11, <2>1, <2>2, <3>2
  <2>3. CASE Sends(<<Denial>>) /\ denied' = denied \cup {asked} /\ UNCHANGED cancelled
    <3>1. Denial \in Names /\ Denial.kind \notin Counted
      BY NameIsName DEF Denial, Handled, Counted, Spoke
    <3>2. o' = o \o <<Denial>>
      BY <1>7, <2>3 DEF Sends
    <3>3. Coming' = Coming
      BY <1>2, <1>4, <3>1, <3>2
    <3>4. QED
      BY <1>11, <2>1, <2>3, <3>3
  <2>4. QED
    BY <2>1, <2>2, <2>3
<1>12. CASE request.type \notin {"session.update", "input_audio_buffer.append",
         "input_audio_buffer.clear", "input_audio_buffer.commit", "response.create",
         "response.cancel"}
  <2>1. UNCHANGED requestVars /\ o' = o
    BY <1>12 DEF Handle, serverVars
  <2>2. QED
    BY <1>2, <1>12, <2>1 DEF requestVars
<1>13. QED
  BY <1>8, <1>9, <1>10, <1>11, <1>12

(* The event collect takes comes before all that is still on its way. *)
LEMMA TakesFirst ==
  ASSUME PumpedInv, TextInv, eventCh # <<>>, eventCh' = Tail(eventCh),
         UNCHANGED <<pump, hand, log, out, server>>
  PROVE  /\ Head(eventCh) \in Said
         /\ Coming = Coming' \cup (IF Head(eventCh).kind \in Counted THEN {Head(eventCh)} ELSE {})
         /\ Head(eventCh).kind \in Counted => \A y \in Coming' : Earlier(Head(eventCh), y)
         /\ Denials' \subseteq Denials
         /\ Head(eventCh).kind = "denied" => Denials # {}
<1> DEFINE x == Head(eventCh)
           rest == Tail(eventCh)
           h == InHand
           q == Queued
           o == server.outbox
<1>1. h \in Seq(Names) /\ q \in Seq(Names) /\ o \in Seq(Names) /\ eventCh \in Seq(Said)
  BY ChannelsOfNames DEF ChannelsOK, PumpedInv, PumpInv
<1>2. x \in Said /\ x \in Names /\ rest \in Seq(Names) /\ eventCh = <<x>> \o rest
  BY <1>1, HeadThenTail, SaidAreNames
<1>3. Sorted(eventCh) /\ Cross(eventCh, h) /\ Cross(eventCh, q) /\ Cross(eventCh, o)
  BY DEF TextInv, Lined
<1>4. h' = h /\ q' = q /\ o' = o /\ eventCh' = rest
  BY DEF InHand, Queued
<1>5. /\ Coming' = {y \in OnItsWay' : y.kind \in Counted}
      /\ Denials' = {y \in OnItsWay' : y.kind = "denied"}
      /\ OnItsWay' = ToSet(rest) \cup ToSet(h) \cup ToSet(q) \cup ToSet(o)
  BY <1>4 DEF Coming, Denials, OnItsWay
<1>6. /\ Coming = {y \in OnItsWay : y.kind \in Counted}
      /\ Denials = {y \in OnItsWay : y.kind = "denied"}
      /\ OnItsWay = ToSet(eventCh) \cup ToSet(h) \cup ToSet(q) \cup ToSet(o)
  BY DEF Coming, Denials, OnItsWay
<1> HIDE DEF x, rest, h, q, o
<1>7. ToSet(eventCh) = ToSet(rest) \cup {x}
  BY <1>2, OneMore, Zenon
<1>8. /\ Len(eventCh) \in Nat \ {0} /\ eventCh[1] = x
      /\ Cross(<<x>>, rest)
  <2>1. <<x>> \in Seq(Names)
    BY <1>2
  <2>2. Sorted(<<x>> \o rest) <=> Sorted(<<x>>) /\ Sorted(rest) /\ Cross(<<x>>, rest)
    BY <1>2, <2>1, Joined
  <2>3. Len(eventCh) \in Nat \ {0} /\ eventCh[1] = x
    BY <1>1, HeadTailProperties, EmptySeq DEF x
  <2>4. QED
    BY <1>2, <1>3, <2>2, <2>3
<1>9. ASSUME NEW s \in Seq(Names), Cross(eventCh, s) \/ Cross(<<x>>, s), NEW y \in ToSet(s)
      PROVE  InTurn(x, y)
  <2>1. ToSet(s) = {s[i] : i \in 1 .. Len(s)}
    BY Parts
  <2>2. PICK i \in 1 .. Len(s) : y = s[i]
    BY <2>1
  <2>3. CASE Cross(eventCh, s)
    <3>1. 1 \in 1 .. Len(eventCh)
      BY <1>8
    <3>2. QED
      BY <1>8, <2>2, <2>3, <3>1 DEF Cross
  <2>4. CASE Cross(<<x>>, s)
    <3>1. 1 \in 1 .. Len(<<x>>) /\ <<x>>[1] = x
      OBVIOUS
    <3> DEFINE one == <<x>>
    <3>2. 1 \in 1 .. Len(one) /\ one[1] = x /\ Cross(one, s)
      BY <2>4, <3>1
    <3> HIDE DEF one
    <3>3. QED
      BY <2>2, <3>2 DEF Cross
  <2>5. QED
    BY <1>9, <2>3, <2>4
<1>10. ASSUME x.kind \in Counted, NEW y \in Coming' PROVE Earlier(x, y)
  <2>1. InTurn(x, y)
    BY <1>1, <1>2, <1>3, <1>5, <1>8, <1>9, <1>10
  <2>2. QED
    BY <1>5, <1>10, <2>1 DEF InTurn
<1>11. Coming = Coming' \cup (IF x.kind \in Counted THEN {x} ELSE {})
  BY <1>5, <1>6, <1>7
<1>12. Denials' \subseteq Denials /\ (x.kind = "denied" => x \in Denials)
  BY <1>5, <1>6, <1>7
<1>13. QED
  BY <1>2, <1>10, <1>11, <1>12 DEF x

-----------------------------------------------------------------------------
(* Main waits for an answer from the request on, until it has collected. *)
LEMMA Waited ==
  PositionInv => /\ main.i = 1 \/ AtClose => ~Waits
                 /\ Waits => ~Asks(Here) /\ Here.do \in {"send", "collect"}
                 /\ Here.do = "collect" => Waits
                 /\ main.i = Len(Body) => ~Asks(Here) /\ (Waits => Here.do = "collect")
                 /\ main.i < Len(Body) =>
                      (Awaits(Body, main.i + 1) <=> Asks(Here) \/ (Waits /\ Here.do # "collect"))
<1> SUFFICES ASSUME PositionInv
             PROVE  /\ main.i = 1 \/ AtClose => ~Waits
                    /\ Waits => ~Asks(Here) /\ Here.do \in {"send", "collect"}
                    /\ Here.do = "collect" => Waits
                    /\ main.i = Len(Body) => ~Asks(Here) /\ (Waits => Here.do = "collect")
                    /\ main.i < Len(Body) =>
                         (Awaits(Body, main.i + 1) <=> Asks(Here) \/ (Waits /\ Here.do # "collect"))
  OBVIOUS
<1> DEFINE body == Body
           i == main.i
<1>1. body \in Bodies /\ Orderly(body) /\ i \in 1 .. Len(body)
  <2>1. /\ program \in Programs /\ script = Functions /\ main.f \in 1 .. Len(script)
        /\ main.i \in Nat \ {0} /\ main.i <= Len(script[main.f])
    BY DEF PositionInv
  <2>2. /\ script \in Seq(Bodies) /\ Orderly(script[main.f]) /\ Len(script[main.f]) \in Nat \ {0}
    BY <2>1, ScriptEnds
  <2>3. script[main.f] \in Bodies
    BY <2>1, <2>2, ElementOfSeq
  <2>4. QED
    BY <2>1, <2>2, <2>3 DEF Body
<1>2. Here = body[i] /\ (Waits <=> Awaits(body, i))
  BY DEF Here, Body, Waits
<1>3. AtClose => Here.do = "close"
  BY HereIsStep
<1> HIDE DEF body, i
<1>4. /\ ~Awaits(body, 1)
      /\ i < Len(body) =>
           (Awaits(body, i + 1) <=> Asks(body[i]) \/ (Awaits(body, i) /\ body[i].do # "collect"))
      /\ i = Len(body) => ~Asks(body[i]) /\ (Awaits(body, i) => body[i].do = "collect")
      /\ Awaits(body, i) => ~Asks(body[i]) /\ body[i].do \in {"send", "collect"}
      /\ body[i].do = "collect" => Awaits(body, i)
  BY <1>1, Waiting
<1>5. /\ i = 1 \/ AtClose => ~Waits
      /\ Waits => ~Asks(Here) /\ Here.do \in {"send", "collect"}
      /\ Here.do = "collect" => Waits
      /\ i = Len(body) => ~Asks(Here) /\ (Waits => Here.do = "collect")
      /\ i < Len(body) =>
           (Awaits(body, i + 1) <=> Asks(Here) \/ (Waits /\ Here.do # "collect"))
  BY <1>2, <1>3, <1>4
<1>6. QED
  BY <1>5 DEF body, i

LEMMA WaitsForNothing == PositionInv => (main.i = 1 \/ AtClose => ~Waits)
BY Waited

LEMMA WaitMoves ==
  ASSUME PositionInv, Here.do # "close", Succeed \/ (Fail /\ Here.fail # "fatal"), UNCHANGED fixed
  PROVE  /\ Waits' => Asks(Here) \/ (Waits /\ Here.do # "collect")
         /\ Succeed /\ (Asks(Here) \/ (Waits /\ Here.do # "collect")) => Waits'
<1>1. /\ PositionInv' /\ UNCHANGED script
      /\ \/ main'.f = main.f /\ main'.i = main.i + 1 /\ main.i < Len(Body)
         \/ main'.f = main.f + 1 /\ main'.i = 1 /\ main.f < Len(script)
         \/ AtClose'
  BY MainMoves
<1>2. PositionInv' => (main.i = 1 \/ AtClose => ~Waits)'
  BY WaitsForNothing, PTL
<1>3. /\ main.i = Len(Body) => ~Asks(Here) /\ (Waits => Here.do = "collect")
      /\ main.i < Len(Body) =>
           (Awaits(Body, main.i + 1) <=> Asks(Here) \/ (Waits /\ Here.do # "collect"))
  BY Waited
<1>4. main'.f = main.f /\ main'.i = main.i + 1 => (Waits' <=> Awaits(Body, main.i + 1))
  BY <1>1 DEF Waits, Body
<1>5. ASSUME Succeed, Asks(Here) \/ (Waits /\ Here.do # "collect")
      PROVE  main'.f = main.f /\ main'.i = main.i + 1 /\ main.i < Len(Body)
  <2>1. main.i # Len(Body) /\ main.i <= Len(Body) /\ main.i \in Nat /\ Len(Body) \in Nat
    <3>1. main.i # Len(Body)
      BY <1>3, <1>5
    <3>2. main.i <= Len(Body) /\ main.i \in Nat /\ Len(Body) \in Nat
      BY ScriptEnds DEF PositionInv, Body
    <3>3. QED
      BY <3>1, <3>2
  <2>2. main.i < Len(Body)
    BY <2>1
  <2>3. main' = [main EXCEPT !.i = @ + 1] /\ main \in [f : 1 .. Len(script), i : Nat \ {0}]
    BY <1>5, <2>2 DEF Succeed, Body, PositionInv
  <2>4. QED
    BY <2>2, <2>3
<1>6. Waits' => Asks(Here) \/ (Waits /\ Here.do # "collect")
  BY <1>1, <1>2, <1>3, <1>4
<1>7. QED
  BY <1>3, <1>4, <1>5, <1>6

(* AnswerIsWhole, of one answer *)
IsWhole(a) ==
  a.clean =>
    /\ ToSet(a.text) \subseteq ToSet(Whole(a.of))
    /\ a.how = "done" =>
         \/ a.of \in cancelled
         \/ /\ a.text = Whole(a.of)
            /\ a.audio = IF program.app = "audio" THEN Sounds(a.of, Deltas) ELSE <<>>
            /\ program.compact \/ a.usage = [answer |-> a.of]
    /\ a.how = "error" => \/ a.of \in refused /\ a.text = <<>>
                         \/ \E n \in denied : n <= a.of

LEMMA AnswersAreWhole == AnswerIsWhole <=> \A k \in DOMAIN answers : IsWhole(answers[k])
BY DEF AnswerIsWhole, IsWhole, Sounds

LEMMA WholeStays ==
  ASSUME AnswerIsWhole, UNCHANGED <<program, answers>>,
         refused \subseteq refused', cancelled \subseteq cancelled', denied \subseteq denied'
  PROVE  AnswerIsWhole'
<1>1. \A k \in DOMAIN answers : IsWhole(answers[k])
  BY AnswersAreWhole
<1>2. ASSUME NEW a, IsWhole(a) PROVE IsWhole(a)'
  BY <1>2 DEF IsWhole, Whole, Sounds
<1>3. (\A k \in DOMAIN answers : IsWhole(answers[k]))'
  BY <1>1, <1>2
<1>4. QED
  BY <1>3, AnswersAreWhole, PTL

LEMMA WholeMore ==
  ASSUME AnswerIsWhole, CollectOK, UNCHANGED <<program, requestVars>>,
         NEW r, IsWhole(r), answers' = Append(answers, r)
  PROVE  AnswerIsWhole'
<1>1. \A k \in DOMAIN answers : IsWhole(answers[k])
  BY AnswersAreWhole
<1>2. ASSUME NEW a, IsWhole(a) PROVE IsWhole(a)'
  BY <1>2 DEF IsWhole, Whole, Sounds, requestVars
<1> DEFINE all == Range(answers) \cup {r}
<1>3. answers \in Seq(all) /\ r \in all /\ DOMAIN answers = 1 .. Len(answers)
  <2>1. Range(answers) \subseteq all /\ answers \in Seq(Range(answers))
    BY DEF CollectOK
  <2> HIDE DEF all
  <2>2. answers \in Seq(all)
    BY <2>1, SeqMonotonic
  <2>3. QED
    BY <2>1, <2>2, LenProperties DEF all
<1> HIDE DEF all
<1>4. /\ DOMAIN answers' = 1 .. Len(answers) + 1 /\ answers'[Len(answers) + 1] = r
      /\ \A k \in 1 .. Len(answers) : answers'[k] = answers[k]
      /\ Len(answers) \in Nat
  BY <1>3, AppendProperties, LenProperties
<1>5. ASSUME NEW k \in DOMAIN answers' PROVE (IsWhole(answers[k]))'
  <2>1. k \in 1 .. Len(answers) \/ k = Len(answers) + 1
    BY <1>4
  <2>2. PICK a : a = answers'[k]
    OBVIOUS
  <2>3. IsWhole(a)
    BY <1>1, <1>3, <1>4, <2>1, <2>2
  <2>4. IsWhole(a)'
    BY <1>2, <2>3
  <2>5. QED
    BY <2>2, <2>4 DEF IsWhole
<1>6. (\A k \in DOMAIN answers : IsWhole(answers[k]))'
  BY <1>5
<1>7. QED
  BY <1>6, AnswersAreWhole, PTL

(* What is expected depends on what is on its way and what has been collected. *)
LEMMA StillExpected ==
  ASSUME UNCHANGED <<program, acc, asked, refused, cancelled>>, Coming' = Coming
  PROVE  Expected' = Expected
<1>1. /\ Due(asked)' = Due(asked) /\ Whole(asked)' = Whole(asked)
      /\ Refusal(asked)' = Refusal(asked)
  BY DEF Due, Whole, Refusal, Name
<1>2. ASSUME NEW t, NEW s PROVE Gathered(t, s)' = Gathered(t, s)
  <2>1. /\ Rest(asked, t, s)' = Rest(asked, t, s)
        /\ Texts(asked, t)' = Texts(asked, t) /\ Sounds(asked, s)' = Sounds(asked, s)
    BY <1>1 DEF Rest, Texts, Sounds
  <2>2. QED
    BY <2>1 DEF Gathered
<1>3. QED
  BY <1>1, <1>2 DEF Expected

LEMMA AnswerStays ==
  ASSUME AnswerInv, Coming' = Coming, Denials' \subseteq Denials,
         UNCHANGED <<fixed, main, status, acc, requestVars, answers, disturbed>>
  PROVE  AnswerInv'
<1>1. UNCHANGED <<program, script>> /\ Here' = Here /\ Waits' = Waits
  BY DEF fixed, Here, Waits
<1>2. AnswerIsWhole' /\ Expected' = Expected
  BY <1>1, WholeStays, StillExpected DEF AnswerInv, requestVars
<1>3. QED
  BY <1>1, <1>2 DEF AnswerInv, Accounted, requestVars

(* A request that is taken in is about no answer but the one asked for last. *)
LEMMA RequestsKeep ==
  ASSUME PumpedInv, TextInv, AnswerInv, UNCHANGED <<fixed, answers, eventCh, pump, hand, log, out>>,
         UNCHANGED serverVars \/ Handle(Here.arg)
  PROVE  AnswerIsWhole' /\ Accounted'
<1>1. asked \in Nat /\ Accounted /\ AnswerIsWhole /\ UNCHANGED program
  BY DEF PumpedInv, ServerOK, AnswerInv, fixed
<1>2. CASE UNCHANGED serverVars
  BY <1>1, <1>2, WholeStays DEF serverVars, requestVars, Accounted
<1>3. CASE Handle(Here.arg)
  <2>1. \/ /\ asked' = asked + 1 /\ UNCHANGED <<cancelled, denied>>
           /\ UNCHANGED refused \/ refused' = refused \cup {asked + 1}
        \/ /\ UNCHANGED <<asked, refused>>
           /\ \/ UNCHANGED <<cancelled, denied>>
              \/ cancelled' = cancelled \cup {asked} /\ UNCHANGED denied
              \/ denied' = denied \cup {asked} /\ UNCHANGED cancelled
    BY <1>3, RequestsComing
  <2>2. /\ 0 .. asked \subseteq 0 .. asked + 1 /\ asked \in 0 .. asked
        /\ asked + 1 \in 0 .. asked + 1
    BY <1>1
  <2>3. refused \subseteq refused' /\ cancelled \subseteq cancelled' /\ denied \subseteq denied'
    BY <2>1
  <2>4. Accounted'
    <3>1. refused \subseteq 0 .. asked /\ cancelled \subseteq 0 .. asked /\ denied \subseteq 0 .. asked
      BY <1>1 DEF Accounted
    <3>2. CASE asked' = asked + 1
      BY <1>1, <2>1, <2>2, <3>1, <3>2 DEF Accounted
    <3>3. CASE UNCHANGED <<asked, refused>>
      BY <1>1, <2>1, <2>2, <3>1, <3>3 DEF Accounted
    <3>4. QED
      BY <2>1, <3>2, <3>3
  <2>5. QED
    BY <1>1, <2>3, <2>4, WholeStays
<1>4. QED
  BY <1>2, <1>3

(* A new answer is on its way, and nothing of it has been collected. *)
LEMMA NewAnswer ==
  ASSUME asked \in Nat, Accounted, UNCHANGED program,
         asked' = asked + 1, acc' = NoOutput,
         \/ UNCHANGED refused /\ Coming' = Due(asked + 1)
         \/ refused' = refused \cup {asked + 1} /\ Coming' = {Refusal(asked + 1)}
  PROVE  Expected'
<1> DEFINE n == asked'
<1>1. n \in Nat /\ n \notin refused /\ Deltas \in Nat
  <2>1. n = asked + 1 /\ n \notin 0 .. asked
    OBVIOUS
  <2>2. QED
    BY <2>1, ExamplesAssumption DEF Accounted
<1>2. acc'.text = <<>> /\ acc'.audio = <<>> /\ ToSet(<<>>) = {}
  BY DEF NoOutput, ToSet
<1>3. ToSet(acc.text)' \subseteq ToSet(Whole(asked))'
  BY <1>2
<1>4. CASE refused' = refused \cup {asked + 1} /\ Coming' = {Refusal(asked + 1)}
  <2>1. asked' \in refused' /\ Coming' \subseteq {Refusal(asked)}'
    BY <1>4 DEF Refusal, Name
  <2>2. QED
    BY <1>2, <1>3, <2>1 DEF Expected
<1>5. CASE UNCHANGED refused /\ Coming' = Due(asked + 1)
  <2>1. Texts(n, 0) = <<>> /\ Sounds(n, 0) = <<>>
    BY <1>1, TextsGrow
  <2>2. Rest(n, 0, 0) = Due(n)
    <3>1. ASSUME NEW x \in Due(n) PROVE x \in Rest(n, 0, 0)
      <4>1. x.kind = "done" \/ x.part \in 1 .. Deltas
        BY <1>1, DueInOrder
      <4> HIDE DEF n
      <4>2. x.kind = "done" \/ x.part > IF x.kind = "sound" THEN 0 ELSE 0
        BY <1>1, <4>1
      <4>3. QED
        BY <4>2 DEF Rest
    <3>2. QED
      BY <3>1 DEF Rest
  <2>3. Due(asked)' = Due(n) /\ Rest(asked, 0, 0)' = Rest(n, 0, 0) /\ Coming' = Due(n)
    <3>1. Due(asked)' = Due(n)
      BY DEF Due
    <3>2. Rest(asked, 0, 0)' = Rest(n, 0, 0)
      BY <3>1 DEF Rest
    <3>3. QED
      BY <1>5, <3>1, <3>2
  <2>4. Texts(asked, 0)' = Texts(n, 0) /\ Sounds(asked, 0)' = Sounds(n, 0)
    BY DEF Texts, Sounds
  <2>5. Gathered(0, 0)'
    BY <1>2, <2>1, <2>2, <2>3, <2>4 DEF Gathered
  <2>6. (\E t, s \in 0 .. Deltas : Gathered(t, s))'
    <3>1. 0 \in 0 .. Deltas
      BY <1>1
    <3>2. QED
      BY <2>5, <3>1
  <2>7. Coming' \subseteq Due(asked)' /\ asked' \notin refused'
    BY <1>1, <1>5, <2>3
  <2>8. QED
    BY <1>3, <2>6, <2>7 DEF Expected
<1>6. QED
  BY <1>4, <1>5

LEMMA SendKeepsAnswer ==
  ASSUME PumpedInv, TextInv, PositionInv, AnswerInv, SendReturns
  PROVE  AnswerInv'
<1>1. /\ UNCHANGED <<fixed, answers, acc, eventCh, pump, hand, log, out>>
      /\ status = "running" /\ Here.do = "send" /\ UNCHANGED program
  BY DEF SendReturns, SendSucceeds, SendFails, Doing, streamVars, pumpVars, fixed
<1>2. acc = NoOutput /\ acc' = NoOutput /\ asked \in Nat /\ Accounted
  BY <1>1 DEF AnswerInv, PumpedInv, ServerOK
<1>3. UNCHANGED serverVars \/ Handle(Here.arg)
  BY DEF SendReturns, SendSucceeds, SendFails
<1>4. AnswerIsWhole' /\ Accounted'
  BY <1>1, <1>3, RequestsKeep
<1>5. CASE SendFails
  <2>1. disturbed' = TRUE
    BY <1>5 DEF SendFails
  <2>2. QED
    BY <1>2, <1>4, <2>1 DEF AnswerInv
<1>6. CASE SendSucceeds
  <2>1. Handle(Here.arg) /\ Succeed /\ UNCHANGED disturbed
    BY <1>6 DEF SendSucceeds
  <2>2. UNCHANGED status
    BY <2>1 DEF Succeed
  <2>3. SUFFICES ASSUME ~disturbed
                 PROVE  /\ IF Waits' THEN Expected' ELSE Coming' = {}
                        /\ denied' = {} => Denials' = {}
    BY <1>2, <1>4, <2>1, <2>2 DEF AnswerInv
  <2>4. (IF Waits THEN Expected ELSE Coming = {}) /\ (denied = {} => Denials = {})
    BY <1>1, <2>3 DEF AnswerInv
  <2>5. Waits' <=> Asks(Here) \/ Waits
    BY <1>1, <2>1, WaitMoves
  <2>6. Waits => ~Asks(Here)
    BY Waited
  <2>7. CASE Here.arg.type = "response.create"
    <3>1. Asks(Here)
      BY <1>1, <2>7 DEF Asks
    <3>2. Coming = {} /\ Waits'
      BY <2>4, <2>5, <2>6, <3>1
    <3>3. /\ asked' = asked + 1 /\ UNCHANGED <<cancelled, denied>> /\ Denials' = Denials
          /\ \/ UNCHANGED refused /\ Coming' = Coming \cup Due(asked + 1)
             \/ /\ refused' = refused \cup {asked + 1}
                /\ Coming' = Coming \cup {Refusal(asked + 1)}
      BY <1>1, <2>1, <2>7, RequestsComing
    <3>4. \/ UNCHANGED refused /\ Coming' = Due(asked + 1)
          \/ refused' = refused \cup {asked + 1} /\ Coming' = {Refusal(asked + 1)}
      BY <3>2, <3>3
    <3>5. Expected'
      BY <1>1, <1>2, <3>3, <3>4, NewAnswer
    <3>6. QED
      BY <2>4, <3>2, <3>3, <3>5
  <2>8. CASE Here.arg.type # "response.create"
    <3>1. ~Asks(Here)
      BY <2>8 DEF Asks
    <3>2. /\ UNCHANGED <<asked, refused>>
          /\ \/ UNCHANGED <<cancelled, denied>> /\ Coming' = Coming /\ Denials' = Denials
             \/ /\ cancelled' = cancelled \cup {asked} /\ UNCHANGED denied
                /\ Coming' \subseteq Coming /\ Denials' \subseteq Denials
             \/ denied' = denied \cup {asked} /\ UNCHANGED cancelled /\ Coming' = Coming
      BY <1>1, <2>1, <2>8, RequestsComing
    <3>3. denied' = {} => Denials' = {}
      BY <2>4, <3>2
    <3>4. CASE ~Waits
      BY <2>4, <2>5, <3>1, <3>2, <3>3, <3>4
    <3>5. CASE Waits /\ UNCHANGED cancelled /\ Coming' = Coming
      BY <1>1, <2>4, <2>5, <3>2, <3>3, <3>5, StillExpected
    <3>6. CASE Waits /\ cancelled' = cancelled \cup {asked} /\ Coming' \subseteq Coming
      <4>1. Expected /\ Due(asked)' = Due(asked) /\ Refusal(asked)' = Refusal(asked)
        BY <1>1, <2>4, <3>2, <3>6 DEF Due, Refusal, Name
      <4>2. acc'.text = <<>> /\ ToSet(<<>>) = {}
        BY <1>2 DEF NoOutput, ToSet
      <4>3. ToSet(acc.text)' \subseteq ToSet(Whole(asked))'
        BY <4>2
      <4>4. asked' \in cancelled' /\ asked' = asked /\ refused' = refused
        BY <3>2, <3>6
      <4>5. asked \in refused => Coming' \subseteq {Refusal(asked)}
        BY <3>6, <4>1 DEF Expected
      <4>6. asked \notin refused => Coming' \subseteq Due(asked)
        BY <3>6, <4>1 DEF Expected
      <4>7. Expected'
        BY <4>1, <4>2, <4>3, <4>4, <4>5, <4>6 DEF Expected
      <4>8. QED
        BY <2>5, <3>3, <3>6, <4>7
    <3>7. QED
      BY <3>2, <3>4, <3>5, <3>6
  <2>9. QED
    BY <2>7, <2>8
<1>7. QED
  BY <1>5, <1>6 DEF SendReturns

LEMMA BreakKeepsAnswer ==
  ASSUME PumpedInv, TextInv, AnswerInv, SendBreaksOff
  PROVE  AnswerInv'
<1>1. /\ UNCHANGED <<fixed, main, answers, acc, eventCh, pump, hand, log, out>>
      /\ Handle(Here.arg) /\ disturbed' = TRUE /\ status = "running" /\ Here.do = "send"
  BY DEF SendBreaksOff, SendBreaks, Doing, streamVars, pumpVars, fixed
<1>2. AnswerIsWhole' /\ Accounted'
  BY <1>1, RequestsKeep
<1>3. acc' = NoOutput
  BY <1>1 DEF AnswerInv
<1>4. QED
  BY <1>1, <1>2, <1>3 DEF AnswerInv

LEMMA ReconnectKeepsAnswer ==
  ASSUME AnswerInv, Reconnect
  PROVE  AnswerInv'
<1>1. /\ UNCHANGED <<program, script, main, status, answers, acc, requestVars>>
      /\ disturbed' = TRUE
  BY DEF Reconnect, fixed
<1>2. AnswerIsWhole' /\ Here' = Here /\ Accounted'
  BY <1>1, WholeStays DEF AnswerInv, Here, Accounted, requestVars
<1>3. QED
  BY <1>1, <1>2 DEF AnswerInv

-----------------------------------------------------------------------------
(* collect: what it has gathered is the first t parts of the text of the
   answer and the first s of its sound *)
Has(gathered, t, s) ==
  /\ gathered.text = Texts(asked, t)
  /\ gathered.audio = IF program.app = "audio" THEN Sounds(asked, s) ELSE <<>>
  /\ program.compact => s = t

Matches(gathered, coming) ==
  \E t, s \in 0 .. Deltas : Has(gathered, t, s) /\ coming = Rest(asked, t, s)

LEMMA GathersBoth ==
  ASSUME CollectOK, NEW text, NEW audio
  PROVE  /\ Gather(text, audio).text = acc.text \o text
         /\ Gather(text, audio).audio = acc.audio \o audio
BY DEF Gather, CollectOK, AccOK

LEMMA TakesNext ==
  ASSUME CollectOK, asked \in Nat, NEW t \in 0 .. Deltas, NEW s \in 0 .. Deltas, Gathered(t, s),
         NEW x, NEW C, First(Coming, x, C)
  PROVE  /\ x.kind \in {"text", "transcript"} => Matches(Gather(Token(x), <<>>), C)
         /\ x.kind = "sound" => Matches(Gather(<<>>, <<x.answer, x.part>>), C)
         /\ x.kind = "choice" => Matches(Gather(Token(x), Noise(x)), C)
         /\ x.kind = "lastChoice" =>
              program.compact /\ C = {} /\ Has(Gather(Token(x), Noise(x)), Deltas, Deltas)
         /\ x.kind = "done" => C = {} /\ Has(acc, Deltas, Deltas)
<1> DEFINE n == asked
           audible == program.app = "audio"
<1>1. /\ t \in Nat /\ s \in Nat /\ Deltas \in Nat /\ n \in Nat
      /\ acc.text = Texts(n, t) /\ acc.audio = (IF audible THEN Sounds(n, s) ELSE <<>>)
      /\ program.compact => s = t
      /\ First(Rest(n, t, s), x, C) /\ Rest(n, t, s) = C \cup {x}
      /\ \A y \in C : Earlier(x, y)
  BY ExamplesAssumption DEF Gathered, First
<1>2. /\ Texts(n, t) \in Seq(Tokens) /\ Texts(n, t + 1) = Texts(n, t) \o Text(<<n, t + 1>>)
      /\ Sounds(n, s) \in Seq(Nat) /\ Sounds(n, s + 1) = Sounds(n, s) \o <<n, s + 1>>
  BY <1>1, TextsGrow
<1>3. /\ acc.text \o <<>> = acc.text
      /\ acc.audio \o <<>> = acc.audio
  <2>1. acc.audio \in Seq(Nat) /\ acc.text \in Seq(Tokens)
    BY <1>1, <1>2
  <2>2. QED
    BY <2>1, ConcatEmptySeq
<1>4. /\ x \in Due(n) /\ x.answer = n
      /\ x.kind \in Spoke =>
           /\ t + 1 \in 0 .. Deltas /\ x.part = t + 1
           /\ C = Rest(n, t + 1, IF program.compact THEN t + 1 ELSE s)
      /\ x.kind = "sound" =>
           ~program.compact /\ s + 1 \in 0 .. Deltas /\ x.part = s + 1 /\ C = Rest(n, t, s + 1)
      /\ x.kind = "lastChoice" => x.part = Deltas
      /\ x.kind = "done" => ~program.compact /\ t = Deltas /\ (audible => s = Deltas)
  <2>1. (program.compact => s = t) /\ n \in Nat /\ First(Rest(n, t, s), x, C)
    BY <1>1
  <2> HIDE DEF n
  <2>2. /\ x \in Due(n)
        /\ x.kind \in Spoke =>
             /\ t + 1 \in 0 .. Deltas /\ x.part = t + 1
             /\ C = Rest(n, t + 1, IF program.compact THEN t + 1 ELSE s)
        /\ x.kind = "sound" =>
             /\ ~program.compact /\ s + 1 \in 0 .. Deltas /\ x.part = s + 1
             /\ C = Rest(n, t, s + 1)
        /\ x.kind = "lastChoice" => x.part = Deltas
        /\ x.kind = "done" =>
             ~program.compact /\ t = Deltas /\ (program.app = "audio" => s = Deltas)
    BY <2>1, NextOfRest
  <2>3. QED
    BY <1>1, <2>2, DueInOrder
<1>5. /\ program.compact => x.kind \in {"choice", "lastChoice"}
      /\ ~program.compact => x.kind \in {"done", "text", "transcript", "sound"}
      /\ x.kind = "sound" => audible
  BY <1>1, <1>4, DueInOrder
<1> HIDE DEF n, audible
<1>6. ASSUME x.kind \in {"done", "lastChoice"} PROVE C = {}
  <2>1. C \in SUBSET Due(n)
    BY <1>1 DEF Rest
  <2>2. QED
    BY <1>1, <1>4, <1>6, <2>1, NothingAfterTheEnd
<1>7. ASSUME x.kind \in Spoke PROVE Gather(Token(x), <<>>).text = Texts(n, t + 1)
                                    /\ Gather(Token(x), Noise(x)).text = Texts(n, t + 1)
  <2>1. Token(x) = Text(<<n, t + 1>>)
    BY <1>4, <1>7 DEF Token
  <2>2. QED
    BY <1>1, <1>2, <2>1, GathersBoth
<1>8. ASSUME x.kind \in {"text", "transcript"}
      PROVE  Matches(Gather(Token(x), <<>>), C)
  <2>1. ~program.compact /\ x.kind \in Spoke
    BY <1>5, <1>8 DEF Spoke
  <2>2. Gather(Token(x), <<>>).audio = acc.audio
    BY <1>3, GathersBoth
  <2>3. Has(Gather(Token(x), <<>>), t + 1, s) /\ C = Rest(n, t + 1, s)
    BY <1>1, <1>4, <1>7, <2>1, <2>2 DEF Has, n, audible
  <2>4. QED
    BY <1>1, <1>4, <2>1, <2>3 DEF Matches, n
<1>9. ASSUME x.kind = "sound"
      PROVE  Matches(Gather(<<>>, <<x.answer, x.part>>), C)
  <2> DEFINE bytes == <<x.answer, x.part>>
  <2>1. bytes = <<n, s + 1>> /\ audible /\ ~program.compact
    BY <1>4, <1>5, <1>9
  <2> HIDE DEF bytes
  <2>2. Gather(<<>>, bytes).text = Texts(n, t) /\ Gather(<<>>, bytes).audio = Sounds(n, s + 1)
    BY <1>1, <1>2, <1>3, <2>1, GathersBoth
  <2>3. Has(Gather(<<>>, bytes), t, s + 1) /\ C = Rest(n, t, s + 1)
    BY <1>4, <1>9, <2>1, <2>2 DEF Has, n, audible
  <2>4. s + 1 \in 0 .. Deltas
    BY <1>4, <1>9
  <2>5. QED
    BY <1>1, <2>3, <2>4 DEF bytes, Matches, n
<1>10. ASSUME x.kind \in {"choice", "lastChoice"}
       PROVE  /\ program.compact /\ Has(Gather(Token(x), Noise(x)), t + 1, t + 1)
              /\ C = Rest(n, t + 1, t + 1) /\ t + 1 \in 0 .. Deltas /\ x.part = t + 1
  <2>1. program.compact /\ x.kind \in Spoke /\ s = t
    BY <1>1, <1>5, <1>10 DEF Spoke
  <2>2. Noise(x) = IF audible THEN <<n, s + 1>> ELSE <<>>
    BY <1>4, <2>1 DEF Noise, audible
  <2>3. Gather(Token(x), Noise(x)).audio = IF audible THEN Sounds(n, s + 1) ELSE <<>>
    <3>1. CASE audible
      BY <1>1, <1>2, <2>2, <3>1, GathersBoth
    <3>2. CASE ~audible
      BY <1>1, <1>3, <2>2, <3>2, GathersBoth
    <3>3. QED
      BY <3>1, <3>2
  <2>4. QED
    BY <1>4, <1>7, <2>1, <2>3 DEF Has, n, audible
<1>11. ASSUME x.kind = "lastChoice"
       PROVE  program.compact /\ C = {} /\ Has(Gather(Token(x), Noise(x)), Deltas, Deltas)
  <2>1. t + 1 = Deltas
    BY <1>4, <1>10, <1>11
  <2>2. QED
    BY <1>6, <1>10, <1>11, <2>1
<1>12. ASSUME x.kind = "done" PROVE C = {} /\ Has(acc, Deltas, Deltas)
  <2>1. Has(acc, Deltas, Deltas)
    BY <1>1, <1>4, <1>12 DEF Has, n, audible
  <2>2. QED
    BY <1>6, <1>12, <2>1
<1>13. ASSUME x.kind = "choice"
       PROVE  Matches(Gather(Token(x), Noise(x)), C)
  BY <1>1, <1>10, <1>13 DEF Matches, n
<1>14. QED
  BY <1>8, <1>9, <1>11, <1>12, <1>13 DEF n

(* collect keeps collecting, or returns. *)
LEMMA KeepsCollecting ==
  ASSUME PumpedInv, PositionInv, AnswerInv, UNCHANGED <<fixed, requestVars>>,
         status = "running", Here.do = "collect", NEW gathered, KeepCollecting(gathered),
         Denials' \subseteq Denials, ~disturbed => Expected'
  PROVE  AnswerInv'
<1>1. /\ UNCHANGED <<program, script, main, status, answers, disturbed>> /\ acc' = gathered
      /\ UNCHANGED <<asked, refused, cancelled, denied>>
  BY DEF fixed, KeepCollecting, requestVars
<1>2. AnswerIsWhole' /\ Here' = Here /\ Waits' = Waits
  BY <1>1, WholeStays DEF AnswerInv, Here, Waits
<1>3. Waits
  BY Waited
<1>4. QED
  BY <1>1, <1>2, <1>3 DEF AnswerInv, Accounted

LEMMA ReturnsWith ==
  ASSUME PumpedInv, TextInv, PositionInv, AnswerInv, UNCHANGED <<fixed, requestVars>>,
         status = "running", Here.do = "collect", NEW gathered, NEW how, NEW err \in BOOLEAN,
         Return(gathered, how, err), Denials' \subseteq Denials,
         ~disturbed => ToSet(gathered.text) \subseteq ToSet(Whole(asked)),
         ~disturbed /\ how = "done" =>
           /\ Coming' = {}
           /\ \/ asked \in cancelled
              \/ /\ Has(gathered, Deltas, Deltas)
                 /\ program.compact \/ gathered.usage = [answer |-> asked],
         ~disturbed /\ how = "error" =>
           \/ asked \in refused /\ gathered.text = <<>> /\ Coming' = {}
           \/ denied # {}
  PROVE  AnswerInv'
<1> DEFINE r == [of |-> asked, text |-> gathered.text, audio |-> gathered.audio,
                 usage |-> gathered.usage, how |-> how, clean |-> ~disturbed]
<1>1. /\ answers' = Append(answers, r) /\ acc' = NoOutput
      /\ disturbed' = (disturbed \/ how \notin {"done", "error"} \/ (how = "error" /\ denied # {}))
      /\ Succeed \/ Fail
      /\ UNCHANGED <<program, asked, refused, cancelled, denied>>
  BY DEF Return, fixed, requestVars
<1>2. /\ r.clean = ~disturbed /\ r.of = asked /\ r.text = gathered.text
      /\ r.audio = gathered.audio /\ r.usage = gathered.usage /\ r.how = how
  OBVIOUS
<1> HIDE DEF r
<1>3. asked \in Nat /\ CollectOK /\ AnswerIsWhole /\ Accounted
  BY DEF PumpedInv, ServerOK, TextInv, AnswerInv
<1>4. IsWhole(r)
  <2>1. Whole(asked) = Texts(asked, Deltas)
    BY <1>3, WholeText
  <2>2. ASSUME denied # {} PROVE \E n \in denied : n <= asked
    <3>1. PICK n \in denied : TRUE
      BY <2>2
    <3>2. n \in 0 .. asked
      BY <1>3 DEF Accounted
    <3>3. QED
      BY <1>3, <3>1, <3>2
  <2>3. ~disturbed /\ how = "done" =>
          \/ asked \in cancelled
          \/ /\ gathered.text = Whole(asked)
             /\ gathered.audio = IF program.app = "audio" THEN Sounds(asked, Deltas) ELSE <<>>
             /\ program.compact \/ gathered.usage = [answer |-> asked]
    BY <2>1 DEF Has
  <2>4. QED
    BY <1>2, <2>2, <2>3 DEF IsWhole
<1>5. AnswerIsWhole'
  BY <1>1, <1>3, <1>4, WholeMore DEF requestVars
<1>6. status' = "running" => Succeed \/ (Fail /\ Here.fail # "fatal")
  BY <1>1 DEF Fail
<1>7. status' = "running" => ~Waits'
  <2>1. ~Asks(Here) /\ Here.do # "close"
    BY DEF Asks
  <2>2. QED
    BY <1>6, <2>1, WaitMoves
<1>8. status' = "running" /\ ~disturbed' => Coming' = {} /\ (denied' = {} => Denials' = {})
  <2>1. ASSUME ~disturbed' PROVE Coming' = {}
    BY <1>1, <2>1
  <2>2. ASSUME ~disturbed', denied' = {} PROVE Denials' = {}
    BY <1>1, <2>2 DEF AnswerInv
  <2>3. QED
    BY <2>1, <2>2
<1>9. Accounted'
  BY <1>1, <1>3 DEF Accounted
<1>10. QED
  BY <1>1, <1>5, <1>7, <1>8, <1>9 DEF AnswerInv

(* waitForEventType, with nothing of an answer on its way *)
LEMMA WaitsOn ==
  ASSUME PumpedInv, PositionInv, AnswerInv,
         UNCHANGED <<fixed, requestVars, acc, answers, disturbed>>,
         status = "running", Here.do = "wait", Coming' \subseteq Coming, Denials' \subseteq Denials,
         Succeed \/ Fail \/ UNCHANGED <<main, status>>
  PROVE  AnswerInv'
<1>1. /\ UNCHANGED <<program, script, asked, refused, cancelled, denied>>
      /\ acc = NoOutput /\ ~Waits /\ ~Asks(Here)
  BY Waited DEF fixed, AnswerInv, Asks, requestVars
<1>2. AnswerIsWhole' /\ Accounted'
  BY <1>1, WholeStays DEF AnswerInv, Accounted
<1>3. status' = "running" /\ ~disturbed' => Coming' = {} /\ (denied' = {} => Denials' = {})
  BY <1>1 DEF AnswerInv
<1>4. status' = "running" => ~Waits'
  <2>1. CASE UNCHANGED <<main, status>>
    BY <1>1, <2>1 DEF Waits
  <2>2. CASE Succeed \/ Fail
    <3>1. status' = "running" => Succeed \/ (Fail /\ Here.fail # "fatal")
      BY <2>2 DEF Fail
    <3>2. QED
      BY <1>1, <3>1, WaitMoves
  <2>3. QED
    BY <2>1, <2>2
<1>5. QED
  BY <1>1, <1>2, <1>3, <1>4 DEF AnswerInv

LEMMA EventKeepsAnswer ==
  ASSUME PumpedInv, TextInv, PositionInv, AnswerInv, SelectEvent, Selected, Here.do = "collect"
  PROVE  AnswerInv'
<1> DEFINE x == Head(eventCh)
<1>1. /\ status = "running" /\ eventCh # <<>> /\ eventCh' = Tail(eventCh)
      /\ CollectEvent(Event(Payload(x)))
      /\ UNCHANGED <<fixed, requestVars, server, log, out, pump, hand, program>>
      /\ UNCHANGED <<asked, refused, cancelled, denied>>
  BY DEF requestVars, SelectEvent, Selecting, Doing, Selected, serverVars, streamVars, fixed
<1>2. /\ x \in Said
      /\ Coming = Coming' \cup (IF x.kind \in Counted THEN {x} ELSE {})
      /\ x.kind \in Counted => \A y \in Coming' : Earlier(x, y)
      /\ Denials' \subseteq Denials /\ (x.kind = "denied" => Denials # {})
  BY <1>1, TakesFirst
<1>3. /\ x.kind \in {"text", "transcript"} => KeepCollecting(Gather(Token(x), <<>>))
      /\ x.kind = "sound" /\ program.app = "audio" =>
           KeepCollecting(Gather(<<>>, <<x.answer, x.part>>))
      /\ x.kind = "sound" /\ program.app # "audio" => KeepCollecting(acc)
      /\ x.kind = "choice" => KeepCollecting(Gather(Token(x), Noise(x)))
      /\ x.kind = "lastChoice" => Return(Gather(Token(x), Noise(x)), "done", FALSE)
      /\ x.kind = "done" => Return([acc EXCEPT !.usage = [answer |-> x.answer]], "done", FALSE)
      /\ x.kind \in {"refused", "denied"} => Return(acc, "error", TRUE)
      /\ x.kind \in {"created", "updated", "part"} => KeepCollecting(acc)
  BY <1>1, <1>2, CollectsWhat
<1> HIDE DEF x
<1>4. asked \in Nat /\ CollectOK /\ Deltas \in Nat
  BY ExamplesAssumption DEF PumpedInv, ServerOK, TextInv
<1>5. ~disturbed => Expected /\ ToSet(acc.text) \subseteq ToSet(Whole(asked))
                    /\ (denied = {} => Denials = {})
  BY <1>1, Waited DEF AnswerInv, Expected
<1>6. CASE x.kind \in {"created", "updated", "part"}
  <2>1. Coming' = Coming
    BY <1>2, <1>6 DEF Counted, Spoke
  <2>2. acc' = acc
    BY <1>3, <1>6 DEF KeepCollecting
  <2>3. ~disturbed => Expected'
    BY <1>1, <1>5, <2>1, <2>2, StillExpected
  <2>4. QED
    BY <1>1, <1>2, <1>3, <1>6, <2>3, KeepsCollecting
<1>7. CASE x.kind = "denied"
  <2>1. ~disturbed => denied # {}
    BY <1>2, <1>5, <1>7
  <2>2. Return(acc, "error", TRUE)
    BY <1>3, <1>7
  <2>3. QED
    BY <1>1, <1>2, <1>5, <2>1, <2>2, ReturnsWith
<1>8. CASE x.kind = "refused"
  <2>1. Coming = Coming' \cup {x} /\ \A y \in Coming' : Earlier(x, y)
    BY <1>2, <1>8 DEF Counted
  <2>2. ASSUME ~disturbed PROVE asked \in refused /\ acc.text = <<>> /\ Coming' = {}
    <3>1. asked \in refused
      <4>1. x \notin Due(asked)
        BY <1>8 DEF Due
      <4>2. QED
        BY <1>5, <2>1, <2>2, <4>1 DEF Expected
    <3>2. acc.text = <<>> /\ Coming \subseteq {Refusal(asked)}
      BY <1>5, <2>2, <3>1 DEF Expected
    <3>3. ASSUME NEW y \in Coming' PROVE FALSE
      <4>1. y = x
        BY <2>1, <3>2
      <4>2. x \in Names
        BY <1>2, SaidAreNames
      <4>3. ~Earlier(x, x)
        BY <1>4, <1>8, <4>2 DEF Earlier, Names, Place
      <4>4. QED
        BY <2>1, <4>1, <4>3
    <3>4. QED
      BY <3>1, <3>2, <3>3
  <2>3. Return(acc, "error", TRUE)
    BY <1>3, <1>8
  <2>4. QED
    BY <1>1, <1>2, <1>5, <2>2, <2>3, ReturnsWith
<1>9. CASE x.kind \in Counted \ {"refused"}
  <2>1. First(Coming, x, Coming') /\ Coming = Coming' \cup {x}
    BY <1>2, <1>9 DEF First
  <2>2. ASSUME ~disturbed
        PROVE  /\ asked \notin refused /\ (asked \in cancelled \/ \E t, s \in 0 .. Deltas : Gathered(t, s))
               /\ x \in Due(asked) /\ Coming' \subseteq Due(asked) /\ x.answer = asked
    <3>1. asked \notin refused
      <4>1. x # Refusal(asked)
        BY <1>4, <1>9, RefusalIsName
      <4>2. QED
        BY <1>5, <2>1, <2>2, <4>1 DEF Expected
    <3>2. QED
      BY <1>4, <1>5, <2>1, <2>2, <3>1, DueInOrder DEF Expected
  <2>3. ASSUME ~disturbed
        PROVE  /\ x.kind = "sound" => program.app = "audio"
               /\ x.kind \in {"choice", "lastChoice"} => program.compact
    BY <1>4, <2>2, <2>3, DueInOrder
  <2>4. ASSUME ~disturbed, asked \notin cancelled
        PROVE  \E t, s \in 0 .. Deltas : Gathered(t, s)
    BY <2>2, <2>4
  <2>5. ASSUME ~disturbed
        PROVE  /\ ToSet(Gather(Token(x), <<>>).text) \subseteq ToSet(Whole(asked)) \/ x.kind \notin Spoke
               /\ ToSet(Gather(Token(x), Noise(x)).text) \subseteq ToSet(Whole(asked)) \/ x.kind \notin Spoke
               /\ ToSet(Gather(<<>>, <<x.answer, x.part>>).text) \subseteq ToSet(Whole(asked))
               /\ ToSet(acc.text) \subseteq ToSet(Whole(asked))
    <3>1. ToSet(acc.text) \subseteq ToSet(Whole(asked)) /\ acc.text \in Seq(Tokens)
      BY <1>4, <1>5, <2>5 DEF CollectOK, AccOK
    <3>2. acc.text \o <<>> = acc.text
      BY <3>1, ConcatEmptySeq
    <3>3. ASSUME x.kind \in Spoke
          PROVE  ToSet(acc.text \o Token(x)) \subseteq ToSet(Whole(asked))
      <4>1. x.part \in 1 .. Deltas
        BY <1>4, <2>2, <2>5, <3>3, DueInOrder DEF Spoke
      <4>2. Token(x) = Text(<<asked, x.part>>)
        BY <2>2, <2>5 DEF Token
      <4>3. ToSet(Token(x)) \subseteq ToSet(Whole(asked))
        BY <1>4, <4>1, <4>2, WholeText
      <4>4. Token(x) \in Seq(Tokens)
        BY <1>2, TokenIsText, SaidAreNames
      <4>5. ToSet(acc.text \o Token(x)) = ToSet(acc.text) \cup ToSet(Token(x))
        BY <3>1, <4>4, Parts
      <4>6. QED
        BY <3>1, <4>3, <4>5
    <3>4. QED
      BY <1>4, <3>1, <3>2, <3>3, GathersBoth
  <2>6. ASSUME NEW gathered, KeepCollecting(gathered),
               ~disturbed => ToSet(gathered.text) \subseteq ToSet(Whole(asked)),
               ~disturbed /\ asked \notin cancelled => Matches(gathered, Coming')
        PROVE  AnswerInv'
    <3>1. acc' = gathered
      BY <2>6 DEF KeepCollecting
    <3>2. /\ Due(asked)' = Due(asked) /\ Whole(asked)' = Whole(asked)
          /\ (asked \in cancelled)' = (asked \in cancelled)
          /\ (asked \in refused)' = (asked \in refused)
      BY <1>1 DEF Due, Whole
    <3>3. ASSUME NEW u, NEW v, Has(gathered, u, v) /\ Coming' = Rest(asked, u, v)
          PROVE  Gathered(u, v)'
      <4>1. /\ Rest(asked, u, v)' = Rest(asked, u, v)
            /\ Texts(asked, u)' = Texts(asked, u) /\ Sounds(asked, v)' = Sounds(asked, v)
        BY <1>1, <3>2 DEF Rest, Texts, Sounds
      <4>2. QED
        BY <1>1, <3>1, <3>3, <4>1 DEF Gathered, Has
    <3>4. ~disturbed => Expected'
      BY <2>2, <2>6, <3>1, <3>2, <3>3 DEF Expected, Matches
    <3>5. QED
      BY <1>1, <1>2, <2>6, <3>4, KeepsCollecting
  <2>7. CASE x.kind \in {"text", "transcript"}
    <3> DEFINE gathered == Gather(Token(x), <<>>)
    <3>1. KeepCollecting(gathered)
      BY <1>3, <2>7
    <3>2. ~disturbed => ToSet(gathered.text) \subseteq ToSet(Whole(asked))
      BY <2>5, <2>7 DEF Spoke
    <3>3. ASSUME ~disturbed, asked \notin cancelled
          PROVE  Matches(gathered, Coming')
      <4>1. PICK t \in 0 .. Deltas, s \in 0 .. Deltas : Gathered(t, s)
        BY <2>4, <3>3
      <4>2. QED
        BY <1>4, <2>1, <2>7, <4>1, TakesNext
    <3> HIDE DEF gathered
    <3>4. QED
      BY <2>6, <3>1, <3>2, <3>3
  <2>8. CASE x.kind = "sound"
    <3> DEFINE gathered == Gather(<<>>, <<x.answer, x.part>>)
    <3>1. CASE disturbed
      <4>1. CASE program.app = "audio"
        <5>1. KeepCollecting(gathered)
          BY <1>3, <2>8, <4>1
        <5> HIDE DEF gathered
        <5>2. QED
          BY <2>6, <3>1, <5>1
      <4>2. CASE program.app # "audio"
        <5>1. KeepCollecting(acc)
          BY <1>3, <2>8, <4>2
        <5>2. QED
          BY <2>6, <3>1, <5>1
      <4>3. QED
        BY <4>1, <4>2
    <3>2. CASE ~disturbed
      <4>1. KeepCollecting(gathered)
        BY <1>3, <2>3, <2>8, <3>2
      <4>2. ToSet(gathered.text) \subseteq ToSet(Whole(asked))
        BY <2>5, <3>2
      <4>3. ASSUME asked \notin cancelled
            PROVE  Matches(gathered, Coming')
        <5>1. PICK t \in 0 .. Deltas, s \in 0 .. Deltas : Gathered(t, s)
          BY <2>4, <3>2, <4>3
        <5>2. QED
          BY <1>4, <2>1, <2>8, <5>1, TakesNext
      <4> HIDE DEF gathered
      <4>4. QED
        BY <2>6, <4>1, <4>2, <4>3
    <3>3. QED
      BY <3>1, <3>2
  <2>9. CASE x.kind = "choice"
    <3> DEFINE gathered == Gather(Token(x), Noise(x))
    <3>1. KeepCollecting(gathered)
      BY <1>3, <2>9
    <3>2. ~disturbed => ToSet(gathered.text) \subseteq ToSet(Whole(asked))
      BY <2>5, <2>9 DEF Spoke
    <3>3. ASSUME ~disturbed, asked \notin cancelled
          PROVE  Matches(gathered, Coming')
      <4>1. PICK t \in 0 .. Deltas, s \in 0 .. Deltas : Gathered(t, s)
        BY <2>4, <3>3
      <4>2. QED
        BY <1>4, <2>1, <2>9, <4>1, TakesNext
    <3> HIDE DEF gathered
    <3>4. QED
      BY <2>6, <3>1, <3>2, <3>3
  <2>10. CASE x.kind = "lastChoice"
    <3> DEFINE gathered == Gather(Token(x), Noise(x))
    <3>1. Return(gathered, "done", FALSE)
      BY <1>3, <2>10
    <3>2. ~disturbed => ToSet(gathered.text) \subseteq ToSet(Whole(asked))
      BY <2>5, <2>10 DEF Spoke
    <3>3. ~disturbed => Coming' = {}
      BY <1>2, <1>4, <2>2, <2>10, NothingAfterTheEnd DEF Counted, Spoke
    <3>4. ASSUME ~disturbed, asked \notin cancelled
          PROVE  program.compact /\ Has(gathered, Deltas, Deltas)
      <4>1. PICK t \in 0 .. Deltas, s \in 0 .. Deltas : Gathered(t, s)
        BY <2>4, <3>4
      <4>2. QED
        BY <1>4, <2>1, <2>10, <4>1, TakesNext
    <3> HIDE DEF gathered
    <3>5. QED
      BY <1>1, <1>2, <3>1, <3>2, <3>3, <3>4, ReturnsWith
  <2>11. CASE x.kind = "done"
    <3> DEFINE usage == [answer |-> x.answer]
               gathered == [acc EXCEPT !.usage = usage]
    <3>1. Return(gathered, "done", FALSE)
      BY <1>3, <2>11
    <3>2. gathered.text = acc.text /\ gathered.audio = acc.audio /\ gathered.usage = usage
      <4> HIDE DEF usage
      <4>1. QED
        BY <1>4 DEF CollectOK, AccOK
    <3>3. ~disturbed => usage = [answer |-> asked]
      BY <2>2
    <3>4. ~disturbed => Coming' = {}
      BY <1>2, <1>4, <2>2, <2>11, NothingAfterTheEnd DEF Counted, Spoke
    <3> HIDE DEF gathered, usage
    <3>5. ~disturbed => ToSet(gathered.text) \subseteq ToSet(Whole(asked))
      BY <2>5, <3>2
    <3>6. ASSUME ~disturbed, asked \notin cancelled PROVE Has(gathered, Deltas, Deltas)
      <4>1. PICK t \in 0 .. Deltas, s \in 0 .. Deltas : Gathered(t, s)
        BY <2>4, <3>6
      <4>2. Has(acc, Deltas, Deltas)
        BY <1>4, <2>1, <2>11, <4>1, TakesNext
      <4>3. QED
        BY <3>2, <4>2 DEF Has
    <3>7. QED
      BY <1>1, <1>2, <3>1, <3>2, <3>3, <3>4, <3>5, <3>6, ReturnsWith
  <2>12. QED
    BY <1>9, <2>7, <2>8, <2>9, <2>10, <2>11 DEF Counted, Spoke
<1>10. QED
  BY <1>2, <1>6, <1>7, <1>8, <1>9 DEF Said, Handled, Counted, Spoke

LEMMA SelectKeepsAnswer ==
  ASSUME PumpedInv, TextInv, PositionInv, AnswerInv, Select \/ Timer
  PROVE  AnswerInv'
<1>1. /\ status = "running" /\ Here.do \in {"wait", "collect"} /\ Selected
      /\ UNCHANGED <<fixed, requestVars, server, log, out, pump, hand>>
      /\ Succeed \/ Fail \/ UNCHANGED <<main, status>>
  BY SelectsGoOn DEF Select, Timer, Selected, serverVars, streamVars
<1>2. CASE SelectEvent /\ Here.do = "collect"
  BY <1>1, <1>2, EventKeepsAnswer
<1>3. CASE SelectEvent /\ Here.do = "wait"
  <2>1. eventCh # <<>> /\ eventCh' = Tail(eventCh) /\ UNCHANGED <<acc, answers, disturbed>>
    BY <1>3 DEF SelectEvent, WaitEvent
  <2>2. Coming' \subseteq Coming /\ Denials' \subseteq Denials
    BY <1>1, <2>1, TakesFirst
  <2>3. QED
    BY <1>1, <1>3, <2>1, <2>2, WaitsOn
<1>4. CASE SelectError \/ SelectClosed \/ SelectTimer
  <2>1. UNCHANGED eventCh
    BY <1>4 DEF SelectError, SelectClosed, SelectTimer
  <2>2. Coming' = Coming /\ Denials' = Denials
    BY <1>1, <2>1 DEF Coming, Denials, OnItsWay, InHand, Queued
  <2>3. CASE Here.do = "collect"
    <3>1. PICK how \in {"streamError", "closed", "timer"}, err \in BOOLEAN : Return(acc, how, err)
      BY <1>4, <2>3 DEF SelectError, SelectClosed, SelectTimer, GiveUp
    <3>2. how # "done" /\ how # "error"
      OBVIOUS
    <3>3. ~disturbed => ToSet(acc.text) \subseteq ToSet(Whole(asked))
      BY <1>1, <2>3, Waited DEF AnswerInv, Expected
    <3>4. QED
      BY <1>1, <2>2, <2>3, <3>1, <3>2, <3>3, ReturnsWith
  <2>4. CASE Here.do = "wait"
    <3>1. UNCHANGED <<acc, answers, disturbed>>
      BY <1>4, <2>4 DEF SelectError, SelectClosed, SelectTimer, GiveUp
    <3>2. QED
      BY <1>1, <2>2, <2>4, <3>1, WaitsOn
  <2>5. QED
    BY <1>1, <2>3, <2>4
<1>5. QED
  BY <1>1, <1>2, <1>3, <1>4 DEF Select, Timer

LEMMA AnswerInvInit == ExamplesInit => AnswerInv
<1> SUFFICES ASSUME ExamplesInit PROVE AnswerInv
  OBVIOUS
<1>1. /\ answers = <<>> /\ acc = NoOutput
      /\ asked = 0 /\ refused = {} /\ cancelled = {} /\ denied = {}
      /\ eventCh = <<>> /\ pump = "range" /\ log = <<>> /\ out = <<>> /\ main = [f |-> 1, i |-> 1]
      /\ server.outbox = <<Name("created", 0, 0)>>
  BY DEF ExamplesInit, Stream!StreamInit, NewServer
<1>2. AnswerIsWhole
  BY <1>1 DEF AnswerIsWhole
<1>3. PositionInv /\ main.i = 1
  BY <1>1, ConfiguredInvInit
<1>4. ~Waits
  BY <1>3, WaitsForNothing
<1>5. Coming = {} /\ Denials = {}
  <2>1. InHand = <<>> /\ Queued = <<>> /\ ToSet(<<>>) = {}
    BY <1>1 DEF InHand, Queued, ToSet
  <2> DEFINE x == Name("created", 0, 0)
  <2>2. x.kind \notin Counted /\ x.kind # "denied" /\ x \in Names
    BY NameIsName DEF Handled, Counted, Spoke
  <2> HIDE DEF x
  <2>3. ToSet(<<x>>) = {x}
    BY DEF ToSet
  <2>4. ToSet(eventCh) = {} /\ ToSet(server.outbox) = {x}
    BY <1>1, <2>1, <2>3 DEF x
  <2>5. QED
    BY <2>1, <2>2, <2>4 DEF Coming, Denials, OnItsWay
<1>6. QED
  BY <1>1, <1>2, <1>4, <1>5 DEF AnswerInv, Accounted

LEMMA AnswerInvStep ==
  /\ PumpedInv /\ PumpedInv' /\ TextInv /\ PositionInv /\ AnswerInv
  /\ [ExamplesNext]_examplesVars
  => AnswerInv'
<1> SUFFICES ASSUME PumpedInv, PumpedInv', TextInv, PositionInv, AnswerInv,
                    [ExamplesNext]_examplesVars
             PROVE  AnswerInv'
  OBVIOUS
<1>1. CASE Arrive \/ StreamFails \/ Pump
  <2>1. UNCHANGED <<fixed, main, status, acc, requestVars, answers, disturbed>>
    BY <1>1 DEF Arrive, StreamFails, Pump, mainVars, serverVars
  <2>2. Coming' = Coming /\ Denials' = Denials
    BY <1>1, ComingMoves
  <2>3. QED
    BY <2>1, <2>2, AnswerStays
<1>2. CASE Reconnect
  BY <1>2, ReconnectKeepsAnswer
<1>3. CASE SendReturns
  BY <1>3, SendKeepsAnswer
<1>4. CASE SendBreaksOff
  BY <1>4, BreakKeepsAnswer
<1>5. CASE Select \/ Timer
  BY <1>5, SelectKeepsAnswer
<1>6. CASE CloseSession
  <2>1. UNCHANGED <<fixed, answers, asked, refused, cancelled, denied>> /\ status' = "done"
    BY <1>6 DEF CloseSession, serverVars, requestVars
  <2>2. AnswerIsWhole' /\ Accounted'
    BY <2>1, WholeStays DEF AnswerInv, fixed, Accounted
  <2>3. QED
    BY <2>1, <2>2 DEF AnswerInv
<1>7. CASE UNCHANGED examplesVars
  <2>1. /\ UNCHANGED <<fixed, main, status, acc, requestVars, answers, disturbed>>
        /\ UNCHANGED <<eventCh, pump, hand, log, out, server>>
    BY <1>7 DEF examplesVars, mainVars, serverVars, pumpVars, streamVars
  <2>2. Coming' = Coming /\ Denials' = Denials
    BY <2>1 DEF Coming, Denials, OnItsWay, InHand, Queued
  <2>3. QED
    BY <2>1, <2>2, AnswerStays
<1>8. QED
  BY <1>1, <1>2, <1>3, <1>4, <1>5, <1>6, <1>7 DEF ExamplesNext, Main, Over

(* collectTextResponse and collectAudioResponse, in any application.  As long as
   no timer and no error or end of the stream has ended a collect before, nor an
   error after the server refused a cancellation, no send has failed and the
   session has not reconnected, a collect returns nothing but text of the answer
   to the request before it: all of it, unless it was cut short, when the end of
   an answer ends the collect, and none of it, because it was refused, when an
   error does, unless the server has refused a cancellation.  Between a request
   and its collect the messages still on their way are those of that answer that
   have not been collected, or the error that refuses it; when main waits for no
   answer none is on its way; and an error that refuses a cancellation is on its
   way only once the server has refused one. *)
THEOREM AnswersCollectedWhole == ExamplesSpec => []AnswerIsWhole
<1>1. ExamplesInit => PumpedInv /\ TextInv /\ PositionInv /\ AnswerInv
  BY PumpedInvInit, TextInvInit, ConfiguredInvInit, AnswerInvInit
<1>2. AnswerInv => AnswerIsWhole
  BY DEF AnswerInv
<1>3. QED
  BY <1>1, <1>2, PumpedInvStep, TextInvStep, PositionInvStep, AnswerInvStep, PTL DEF ExamplesSpec
===============================================================================
