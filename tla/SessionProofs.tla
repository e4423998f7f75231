---------------------------- MODULE SessionProofs ----------------------------
(***************************************************************************)
(* What is proved of a session, for any number of goroutines, connections, *)
(* messages and attempts and any capacity of the channel:                  *)
(*   1. it is one of the clients module Conn allows for, so what is proved *)
(*      of the wrapper holds in every session, and it keeps the promise of *)
(*      module EventStream;                                                *)
(*   2. its types, the order of events across connections, and what Close, *)
(*      the second attempt of sendEvent and a disabled reconnect guarantee;*)
(*   3. readLoop never redials for nothing: every connection it installs   *)
(*      is paid for by a failure of an earlier one, or by a sender that    *)
(*      had replaced an earlier one, and none of these pays twice.         *)
(***************************************************************************)
EXTENDS Session, ConnProofs, FiniteSetTheorems

-----------------------------------------------------------------------------
(* 1. The wrapper and the stream *)

(* A step of the session is a step of the wrapper or leaves it alone. *)
LEMMA SessionStepsWrapper == [SessionNext]_sessionVars => [ConnNext]_connVars
<1> SUFFICES ASSUME [SessionNext]_sessionVars PROVE [ConnNext]_connVars
  OBVIOUS
<1>1. Reader \in Procs /\ Senders \subseteq Procs /\ Closers \subseteq Procs
  BY SessionAssumption
<1>2. ASSUME NEW p \in Procs, NEW op \in Ops, Call(p, op) PROVE ConnNext
  BY <1>2 DEF ConnNext
<1>3. ASSUME NEW p \in Procs, Step(p) PROVE ConnNext
  BY <1>3 DEF ConnNext
<1>4. CASE ReadLoop
  BY <1>1, <1>2, <1>4
  DEF ReadLoop, LoopTop, Decode, RecvFailed, ReaderReconnected, Push, CloseEvents,
      CloseDone, Ops
<1>5. ASSUME NEW s \in Senders, Send(s) \/ SendEvent(s) PROVE [ConnNext]_connVars
  BY <1>1, <1>2, <1>5 DEF Send, SendEvent, SendReturned, SenderReconnected, RetryReturned, Ops
<1>6. ASSUME NEW c \in Closers, Close(c) \/ CloseReturns(c) \/ CloseAgain(c) \/ OnceReleases(c)
      PROVE  [ConnNext]_connVars
  BY <1>1, <1>2, <1>6 DEF Close, CloseReturns, CloseAgain, OnceReleases, Ops
<1>7. CASE Events
  BY <1>7 DEF Events, Yield, EventsEnd
<1>8. ASSUME NEW p \in Procs, Below(p) PROVE ConnNext
  <2>1. CASE Inside(p)
    BY <2>1, <1>3 DEF Inside, Step
  <2>2. CASE Install(p)
    BY <2>2, <1>3 DEF Install, Step
  <2>3. ASSUME NEW e \in Errors, SendFrame(p, e) PROVE ConnNext
    BY <2>3, <1>3 DEF SendFrame, Step
  <2>4. ASSUME NEW kind \in Kinds, p = Reader, Recv(kind) PROVE ConnNext
    BY <2>4, <1>3 DEF Recv, Step, Errors
  <2>5. QED
    BY <1>8, <2>1, <2>2, <2>3, <2>4 DEF Below
<1>9. ASSUME NEW k \in Conns, PeerFinishes(k) \/ NetworkDrops(k) PROVE ConnNext
  BY <1>9 DEF PeerFinishes, NetworkDrops, ConnNext, Environment
<1>10. CASE Terminated \/ UNCHANGED sessionVars
  BY <1>10 DEF Terminated, sessionVars
<1>11. QED
  BY <1>4, <1>5, <1>6, <1>7, <1>8, <1>9, <1>10 DEF SessionNext

(* The session implements the specification of the wrapper's client. *)
THEOREM SessionUsesWrapper == SessionSpec => ConnSpec
<1>1. SessionInit => ConnInit
  BY DEF SessionInit
<1>2. QED
  BY <1>1, SessionStepsWrapper, PTL DEF SessionSpec, ConnSpec

(* In a session every open connection is the current one or has one owner
   that will close or install it, nobody uses it before, and a Close of the
   transport is final. *)
THEOREM SessionLeaksNothing ==
  SessionSpec => /\ [](NoLeak /\ OneOwner /\ PrivateUntilInstalled /\ CurrentUsable)
                 /\ ClosedFinal
  BY SessionUsesWrapper, NothingLeaks, Exclusive, Private, Usable, CloseIsFinal, PTL

-----------------------------------------------------------------------------
(* The stream of events *)

Working == {"loop", "recv", "decode", "reconnect"}
Leaving == {"defers", "lastDefer", "end"}
AtLabels == {"idle", "send", "retry", "closing", "waiting", "closed", "push"} \cup Working \cup Leaving

(* The types of what readLoop and the iterator work with *)
ReaderTypes ==
  /\ at \in [Procs -> AtLabels]
  /\ at[Reader] \in Working \cup {"push"} \cup Leaving
  /\ closeCh \in BOOLEAN
  /\ eventsCh \in Seq(Items) /\ Len(eventsCh) <= Cap
  /\ eventsClosed \in BOOLEAN
  /\ doneCh \in BOOLEAN
  /\ hand \in [id : 0 .. MaxMsgs, kind : Kinds \cup {"error"}, from : Conns \cup {NoConn}]
  /\ sessionID \in 0 .. MaxMsgs
  /\ gone \in BOOLEAN
  /\ received \in Seq(Items)
  /\ delivered \in Seq(Items)

(* What readLoop has in its hand has just been received. *)
HandOK ==
  /\ at[Reader] = "decode" =>
       /\ hand.id = Len(received) + 1 /\ hand.id \in 1 .. MaxMsgs
       /\ hand.kind \in Kinds /\ hand.from \in Conns
  /\ at[Reader] = "push" =>
       Len(received) > 0 /\ received[Len(received)] = hand

(* An error has been received. *)
Broke == Len(received) > 0 /\ received[Len(received)] = ErrorItem

(* How many items have come out, wait in the channel or are in the hand *)
Kept == Len(delivered) + Len(eventsCh) + (IF at[Reader] = "push" THEN 1 ELSE 0)

(* What has come out, what waits in the channel and what readLoop is about to
   push are the received items in a line; a Close may have made it drop the
   last one, and then it never receives another. *)
InLine ==
  /\ \/ Kept = Len(received)
     \/ Kept + 1 = Len(received) /\ closeCh /\ at[Reader] \in Leaving \cup {"loop"}
  /\ \A i \in 1 .. Len(delivered) : received[i] = delivered[i]
  /\ \A i \in 1 .. Len(eventsCh) : received[Len(delivered) + i] = eventsCh[i]

(* readLoop works until an error or a Close; what it closes on leaving, and
   the end of the iterator, come after that. *)
Phases ==
  /\ at[Reader] \in Working => ~Broke
  /\ at[Reader] \in Leaving => closeCh \/ Broke
  /\ eventsClosed <=> at[Reader] \in {"lastDefer", "end"}
  /\ doneCh <=> at[Reader] = "end"
  /\ gone => eventsClosed /\ eventsCh = <<>>
  /\ Broke \/ Len(received) <= MaxMsgs

(* The n-th item has a number of at most n, and the session's id is that of
   the last session.created. *)
Numbered ==
  \A i \in 1 .. Len(received) :
    /\ received[i].id <= i
    /\ received[i].kind = "created" => received[i].id <= sessionID

ReaderInv == ReaderTypes /\ HandOK /\ InLine /\ Phases /\ Numbered

-----------------------------------------------------------------------------
(* A step that is not readLoop's, the iterator's or the first Close leaves the
   stream alone. *)
LEMMA StreamSteps ==
  ASSUME at \in [Procs -> AtLabels], [SessionNext]_sessionVars
  PROVE  \/ ReadLoop
         \/ \E kind \in Kinds : Recv(kind)
         \/ Events
         \/ \E c \in Closers : Close(c)
         \/ /\ UNCHANGED <<closeCh, channels, reading, consuming>>
            /\ at' \in [Procs -> AtLabels]
            /\ at'[Reader] = at[Reader]
<1> USE SessionAssumption DEF AtLabels, Working, Leaving
<1>1. ASSUME NEW s \in Senders, Send(s) \/ SendEvent(s)
      PROVE  /\ UNCHANGED <<closeCh, channels, reading, consuming>>
             /\ at' \in [Procs -> AtLabels] /\ at'[Reader] = at[Reader]
  BY <1>1 DEF Send, SendEvent, SendReturned, SenderReconnected, RetryReturned, Finished, Move,
              closing, channels, reading, consuming
<1>2. ASSUME NEW c \in Closers, CloseReturns(c) \/ CloseAgain(c) \/ OnceReleases(c)
      PROVE  /\ UNCHANGED <<closeCh, channels, reading, consuming>>
             /\ at' \in [Procs -> AtLabels] /\ at'[Reader] = at[Reader]
  BY <1>2 DEF CloseReturns, CloseAgain, OnceReleases, Move, closing, channels, reading, consuming
<1>3. ASSUME NEW p \in Procs, Below(p), ~ \E kind \in Kinds : Recv(kind)
      PROVE  UNCHANGED <<at, closeCh, channels, reading, consuming>>
  BY <1>3 DEF Below, Inside, Install, SendFrame, sessionOnly, closing, channels, reading, consuming
<1>4. ASSUME NEW k \in Conns, PeerFinishes(k) \/ NetworkDrops(k)
      PROVE  UNCHANGED <<at, closeCh, channels, reading, consuming>>
  BY <1>4 DEF PeerFinishes, NetworkDrops, sessionOnly, closing, channels, reading, consuming
<1>5. CASE Terminated \/ UNCHANGED sessionVars
  BY <1>5 DEF Terminated, sessionVars, sessionOnly, closing, channels, reading, consuming
<1>6. QED
  BY <1>1, <1>2, <1>3, <1>4, <1>5 DEF SessionNext

(* The stream's invariant does not look at anything else. *)
LEMMA StreamAlone ==
  ASSUME ReaderInv, UNCHANGED <<closeCh, channels, reading, consuming>>,
         at' \in [Procs -> AtLabels], at'[Reader] = at[Reader]
  PROVE  ReaderInv'
  BY DEF ReaderInv, ReaderTypes, HandOK, InLine, Kept, Phases, Broke, Numbered,
         channels, reading, consuming

LEMMA ReaderInvInit == SessionInit => ReaderInv
<1> SUFFICES ASSUME SessionInit PROVE ReaderInv
  OBVIOUS
<1> USE SessionAssumption DEF SessionInit, Working, Leaving
<1>1. /\ at[Reader] = "loop" /\ Len(received) = 0 /\ Len(delivered) = 0 /\ Len(eventsCh) = 0
      /\ received \in Seq(Items) /\ delivered \in Seq(Items) /\ eventsCh \in Seq(Items)
  OBVIOUS
<1>2. ReaderTypes
  <2>1. at \in [Procs -> AtLabels]
    BY DEF AtLabels
  <2>2. hand \in [id : 0 .. MaxMsgs, kind : Kinds \cup {"error"}, from : Conns \cup {NoConn}]
    BY DEF ErrorItem
  <2>3. /\ closeCh \in BOOLEAN /\ eventsClosed \in BOOLEAN /\ doneCh \in BOOLEAN /\ gone \in BOOLEAN
    BY Zenon
  <2>4. sessionID \in 0 .. MaxMsgs /\ Len(eventsCh) <= Cap
    BY <1>1
  <2>5. QED
    BY <1>1, <2>1, <2>2, <2>3, <2>4, Zenon DEF ReaderTypes
<1>3. HandOK /\ InLine /\ Phases /\ Numbered
  BY <1>1 DEF HandOK, InLine, Kept, Phases, Broke, Numbered
<1>4. QED
  BY <1>2, <1>3 DEF ReaderInv

-----------------------------------------------------------------------------
(* One lemma for every step that touches the stream *)

LEMMA InvRecv ==
  ASSUME TypeOK, FrameHasConn, ReaderInv, NEW kind \in Kinds, Recv(kind)
  PROVE  ReaderInv'
<1> USE SessionAssumption DEF ReaderInv, Working, Leaving
<1>1. /\ held[Reader] \in Conns
      /\ at' = [at EXCEPT ![Reader] = "decode"]
      /\ hand' = [id |-> Len(received) + 1, kind |-> kind, from |-> held[Reader]]
      /\ at[Reader] = "recv" /\ Len(received) < MaxMsgs
      /\ UNCHANGED <<closeCh, eventsCh, eventsClosed, doneCh, sessionID, gone, received, delivered>>
  BY DEF Recv, ReadFrame, FrameHasConn, Move, closing, channels, consuming
<1>2. at' \in [Procs -> AtLabels] /\ at'[Reader] = "decode"
  BY <1>1 DEF ReaderTypes, AtLabels
<1>3. ReaderTypes'
  BY <1>1, <1>2 DEF ReaderTypes
<1>4. HandOK'
  BY <1>1, <1>2 DEF HandOK, ReaderTypes
<1>5. InLine' /\ Phases' /\ Numbered'
  BY <1>1, <1>2 DEF InLine, Kept, Phases, Broke, Numbered, ReaderTypes
<1>6. QED
  BY <1>3, <1>4, <1>5

(* readLoop takes in an item. *)
LEMMA InvTake ==
  ASSUME ReaderInv, NEW i \in Items, Take(i),
         at[Reader] \in {"recv", "decode", "reconnect"},
         i = ErrorItem \/ i.id = Len(received) + 1,
         sessionID' \in 0 .. MaxMsgs, sessionID <= sessionID' \/ Len(received) <= sessionID',
         i.kind = "created" => i.id <= sessionID',
         UNCHANGED <<closeCh, channels, consuming>>
  PROVE  ReaderInv'
<1> USE SessionAssumption DEF ReaderInv, Working, Leaving
<1>1. /\ hand' = i /\ received' = Append(received, i)
      /\ at' = [at EXCEPT ![Reader] = "push"]
      /\ UNCHANGED <<closeCh, eventsCh, eventsClosed, doneCh, gone, delivered>>
  BY DEF Take, Move, channels, consuming
<1>2. at' \in [Procs -> AtLabels] /\ at'[Reader] = "push"
  BY <1>1 DEF ReaderTypes, AtLabels
<1>3. /\ received' \in Seq(Items) /\ Len(received') = Len(received) + 1
      /\ received'[Len(received) + 1] = i
      /\ \A j \in 1 .. Len(received) : received'[j] = received[j]
  BY <1>1 DEF ReaderTypes
<1>4. ~Broke /\ Len(received) <= MaxMsgs
  BY DEF Phases
<1>5. i \in [id : 0 .. MaxMsgs, kind : Kinds \cup {"error"}, from : Conns \cup {NoConn}]
  BY DEF Items, EventItems, ErrorItem, Kinds
<1>6. ReaderTypes'
  BY <1>1, <1>2, <1>3, <1>5 DEF ReaderTypes
<1>7. HandOK'
  BY <1>1, <1>2, <1>3 DEF HandOK, ReaderTypes
<1>8. InLine'
  BY <1>1, <1>2, <1>3 DEF InLine, Kept, ReaderTypes
<1>9. Phases'
  <2>1. i = ErrorItem => Broke'
    BY <1>1, <1>3 DEF Broke, ReaderTypes
  <2>2. i # ErrorItem => Len(received') <= MaxMsgs
    BY <1>3 DEF Items, EventItems, ReaderTypes
  <2>3. QED
    BY <1>1, <1>2, <1>4, <2>1, <2>2 DEF Phases, ReaderTypes
<1>10. Numbered'
  <2> SUFFICES ASSUME NEW j \in 1 .. Len(received')
               PROVE  /\ received'[j].id <= j
                      /\ received'[j].kind = "created" => received'[j].id <= sessionID'
    BY DEF Numbered
  <2>1. CASE j = Len(received) + 1
    BY <1>3, <2>1 DEF ReaderTypes, ErrorItem
  <2>2. CASE j \in 1 .. Len(received)
    <3>1. received[j].id \in 0 .. MaxMsgs
      BY <2>2 DEF ReaderTypes, Items, EventItems, ErrorItem
    <3>2. QED
      BY <1>3, <2>2, <3>1 DEF Numbered, ReaderTypes
  <2>3. QED
    BY <1>3, <2>1, <2>2 DEF ReaderTypes
<1>11. QED
  BY <1>6, <1>7, <1>8, <1>9, <1>10

LEMMA InvPush == ASSUME ReaderInv, Push PROVE ReaderInv'
<1> USE SessionAssumption DEF ReaderInv, Working, Leaving
<1>1. /\ at[Reader] = "push" /\ hand' = ErrorItem
      /\ at' = [at EXCEPT ![Reader] = IF hand = ErrorItem THEN "defers" ELSE "loop"]
      /\ UNCHANGED <<closeCh, eventsClosed, doneCh, sessionID, gone, received, delivered>>
  BY DEF Push, At, Move, closing, consuming
<1>2. /\ at' \in [Procs -> AtLabels]
      /\ at'[Reader] = IF hand = ErrorItem THEN "defers" ELSE "loop"
  BY <1>1 DEF ReaderTypes, AtLabels
<1>3. hand = received[Len(received)] /\ Len(received) > 0 /\ hand \in Items
  BY <1>1 DEF HandOK, ReaderTypes
<1>4. \/ closeCh /\ eventsCh' = eventsCh
      \/ /\ eventsCh' = Append(eventsCh, hand) /\ Len(eventsCh) < Cap
         /\ eventsCh' \in Seq(Items) /\ Len(eventsCh') = Len(eventsCh) + 1
         /\ eventsCh'[Len(eventsCh) + 1] = hand
         /\ \A j \in 1 .. Len(eventsCh) : eventsCh'[j] = eventsCh[j]
  <2>1. \/ closeCh /\ eventsCh' = eventsCh
        \/ Len(eventsCh) < Cap /\ eventsCh' = Append(eventsCh, hand)
    BY DEF Push
  <2>2. /\ Append(eventsCh, hand) \in Seq(Items)
        /\ Len(Append(eventsCh, hand)) = Len(eventsCh) + 1
        /\ Append(eventsCh, hand)[Len(eventsCh) + 1] = hand
        /\ \A j \in 1 .. Len(eventsCh) : Append(eventsCh, hand)[j] = eventsCh[j]
    BY <1>3 DEF ReaderTypes
  <2>3. CASE closeCh /\ eventsCh' = eventsCh
    BY <2>3
  <2>4. CASE Len(eventsCh) < Cap /\ eventsCh' = Append(eventsCh, hand)
    BY <2>2, <2>4
  <2>5. QED
    BY <2>1, <2>3, <2>4
<1>5. hand' \in [id : 0 .. MaxMsgs, kind : Kinds \cup {"error"}, from : Conns \cup {NoConn}]
  BY <1>1 DEF ErrorItem
<1>6. ReaderTypes'
  BY <1>1, <1>2, <1>4, <1>5 DEF ReaderTypes
<1>7. HandOK' /\ Numbered'
  BY <1>1, <1>2 DEF HandOK, Numbered
<1>8. InLine'
  <2>1. Len(received) = Len(delivered) + Len(eventsCh) + 1
    BY <1>1 DEF InLine, Kept, ReaderTypes
  <2>2. CASE closeCh /\ eventsCh' = eventsCh
    BY <1>1, <1>2, <2>1, <2>2 DEF InLine, Kept, ReaderTypes
  <2>3. CASE ~(closeCh /\ eventsCh' = eventsCh)
    <3>1. Kept' = Len(received')
      BY <1>1, <1>2, <1>4, <2>1, <2>3 DEF Kept, ReaderTypes
    <3>2. \A i \in 1 .. Len(eventsCh') : received'[Len(delivered') + i] = eventsCh'[i]
      <4> SUFFICES ASSUME NEW i \in 1 .. Len(eventsCh')
                   PROVE  received[Len(delivered) + i] = eventsCh'[i]
        BY <1>1
      <4>1. CASE i = Len(eventsCh) + 1
        BY <1>3, <1>4, <2>1, <2>3, <4>1 DEF ReaderTypes
      <4>2. CASE i # Len(eventsCh) + 1
        <5>1. i \in 1 .. Len(eventsCh)
          BY <1>4, <2>3, <4>2 DEF ReaderTypes
        <5>2. QED
          BY <1>4, <2>3, <5>1 DEF InLine
      <4>3. QED
        BY <4>1, <4>2
    <3>3. \A i \in 1 .. Len(delivered') : received'[i] = delivered'[i]
      BY <1>1 DEF InLine
    <3>4. QED
      BY <3>1, <3>2, <3>3 DEF InLine
  <2>4. QED
    BY <2>2, <2>3
<1>9. Phases'
  BY <1>1, <1>2, <1>3 DEF Phases, Broke
<1>10. QED
  BY <1>6, <1>7, <1>8, <1>9

(* readLoop moves on without an item. *)
LEMMA InvMove ==
  ASSUME ReaderInv, NEW label \in AtLabels, Move(Reader, label),
         \/ at[Reader] = "loop" /\ label = "recv" /\ ~closeCh
         \/ at[Reader] = "reconnect" /\ label = "loop"
         \/ at[Reader] = "recv" /\ label = "reconnect"
         \/ at[Reader] \in {"loop", "recv"} /\ label = "defers" /\ closeCh,
         UNCHANGED <<closeCh, channels, reading, consuming>>
  PROVE  ReaderInv'
<1> USE SessionAssumption DEF ReaderInv, Working, Leaving
<1>1. UNCHANGED <<closeCh, eventsCh, eventsClosed, doneCh, hand, sessionID, gone, received, delivered>>
  BY DEF channels, reading, consuming
<1>2. at' \in [Procs -> AtLabels] /\ at'[Reader] = label
  BY DEF ReaderTypes, Move
<1>3. ReaderTypes'
  BY <1>1, <1>2 DEF ReaderTypes
<1>4. HandOK' /\ InLine' /\ Phases' /\ Numbered'
  BY <1>1, <1>2 DEF HandOK, InLine, Kept, Phases, Broke, Numbered, ReaderTypes
<1>5. QED
  BY <1>3, <1>4

LEMMA InvLeave == ASSUME ReaderInv, CloseEvents \/ CloseDone PROVE ReaderInv'
<1> USE SessionAssumption DEF ReaderInv, Working, Leaving
<1>1. UNCHANGED <<closeCh, eventsCh, hand, sessionID, gone, received, delivered>>
  BY DEF CloseEvents, CloseDone, closing, reading, consuming
<1>2. /\ at' \in [Procs -> AtLabels]
      /\ \/ /\ at[Reader] = "defers" /\ at'[Reader] = "lastDefer"
            /\ eventsClosed' = TRUE /\ doneCh' = doneCh
         \/ /\ at[Reader] = "lastDefer" /\ at'[Reader] = "end"
            /\ eventsClosed' = eventsClosed /\ doneCh' = TRUE
  BY DEF CloseEvents, CloseDone, At, Move, ReaderTypes, AtLabels
<1>3. ReaderTypes'
  BY <1>1, <1>2 DEF ReaderTypes
<1>4. HandOK' /\ InLine' /\ Phases' /\ Numbered'
  BY <1>1, <1>2 DEF HandOK, InLine, Kept, Phases, Broke, Numbered, ReaderTypes
<1>5. QED
  BY <1>3, <1>4

LEMMA InvYield == ASSUME ReaderInv, Yield PROVE ReaderInv'
<1> USE SessionAssumption DEF ReaderInv, Working, Leaving
<1>1. UNCHANGED <<at, closeCh, eventsClosed, doneCh, hand, sessionID, gone, received>> /\ ~gone
  BY DEF Yield, closing, reading
<1>2. /\ eventsCh' \in Seq(Items) /\ Len(eventsCh') = Len(eventsCh) - 1 /\ Len(eventsCh) > 0
      /\ \A j \in 1 .. Len(eventsCh') : eventsCh'[j] = eventsCh[j + 1]
  BY DEF Yield, ReaderTypes
<1>3. /\ delivered' \in Seq(Items) /\ Len(delivered') = Len(delivered) + 1
      /\ delivered'[Len(delivered) + 1] = eventsCh[1]
      /\ \A j \in 1 .. Len(delivered) : delivered'[j] = delivered[j]
  BY <1>2 DEF Yield, ReaderTypes
<1>4. ReaderTypes'
  BY <1>1, <1>2, <1>3 DEF ReaderTypes
<1>5. HandOK' /\ Numbered' /\ Phases'
  BY <1>1 DEF HandOK, Numbered, Phases, Broke
<1>6. InLine'
  <2>1. Kept' = Kept
    BY <1>1, <1>2, <1>3 DEF Kept, ReaderTypes
  <2>2. \A i \in 1 .. Len(delivered') : received'[i] = delivered'[i]
    <3>1. received[Len(delivered) + 1] = eventsCh[1]
      BY <1>2 DEF InLine, ReaderTypes
    <3> SUFFICES ASSUME NEW i \in 1 .. Len(delivered') PROVE received[i] = delivered'[i]
      BY <1>1
    <3>2. CASE i = Len(delivered) + 1
      BY <1>3, <3>1, <3>2
    <3>3. CASE i \in 1 .. Len(delivered)
      BY <1>3, <3>3 DEF InLine
    <3>4. QED
      BY <1>3, <3>2, <3>3 DEF ReaderTypes
  <2>3. \A i \in 1 .. Len(eventsCh') : received'[Len(delivered') + i] = eventsCh'[i]
    <3> SUFFICES ASSUME NEW i \in 1 .. Len(eventsCh')
                 PROVE  received[Len(delivered') + i] = eventsCh'[i]
      BY <1>1
    <3>1. i + 1 \in 1 .. Len(eventsCh) /\ Len(delivered') + i = Len(delivered) + (i + 1)
      BY <1>2, <1>3 DEF ReaderTypes
    <3>2. QED
      BY <1>2, <3>1 DEF InLine
  <2>4. QED
    BY <1>1, <2>1, <2>2, <2>3 DEF InLine
<1>7. QED
  BY <1>4, <1>5, <1>6

LEMMA InvEnd == ASSUME ReaderInv, EventsEnd PROVE ReaderInv'
<1>1. UNCHANGED <<at, closeCh, channels, reading, delivered>>
      /\ gone' = TRUE /\ eventsClosed /\ eventsCh = <<>>
  BY DEF EventsEnd, closing
<1>2. QED
  BY <1>1 DEF ReaderInv, ReaderTypes, HandOK, InLine, Kept, Phases, Broke, Numbered,
              channels, reading

LEMMA InvClose == ASSUME ReaderInv, NEW c \in Closers, Close(c) PROVE ReaderInv'
<1> USE SessionAssumption DEF ReaderInv, Working, Leaving
<1>1. /\ closeCh' = TRUE
      /\ UNCHANGED <<eventsCh, eventsClosed, doneCh, hand, sessionID, gone, received, delivered>>
  BY DEF Close, channels, reading, consuming
<1>2. at' \in [Procs -> AtLabels] /\ at'[Reader] = at[Reader]
  BY DEF Close, Move, ReaderTypes, AtLabels
<1>3. ReaderTypes'
  BY <1>1, <1>2 DEF ReaderTypes
<1>4. HandOK' /\ InLine' /\ Phases' /\ Numbered'
  BY <1>1, <1>2 DEF HandOK, InLine, Kept, Phases, Broke, Numbered, ReaderTypes
<1>5. QED
  BY <1>3, <1>4

(* The item a decoded message becomes is a new one. *)
LEMMA DecodedItem ==
  ASSUME ReaderInv, at[Reader] = "decode",
         NEW i, i = IF hand.kind = "garbage" THEN ErrorItem ELSE hand
  PROVE  /\ i \in Items
         /\ i = ErrorItem \/ i.id = Len(received) + 1
         /\ i.kind = "created" => hand.kind = "created" /\ i = hand
<1>1. /\ hand \in [id : 0 .. MaxMsgs, kind : Kinds \cup {"error"}, from : Conns \cup {NoConn}]
      /\ hand.id = Len(received) + 1 /\ hand.id \in 1 .. MaxMsgs
      /\ hand.kind \in Kinds /\ hand.from \in Conns
  BY DEF ReaderInv, ReaderTypes, HandOK
<1>2. CASE hand.kind = "garbage"
  BY <1>2 DEF Items, ErrorItem
<1>3. CASE hand.kind # "garbage"
  BY <1>1, <1>3 DEF Items, EventItems, Kinds
<1>4. QED
  BY <1>2, <1>3

LEMMA InvReadLoop == ASSUME ReaderInv, ReadLoop PROVE ReaderInv'
<1> USE DEF AtLabels, Working, Leaving
<1>1. CASE LoopTop
  BY <1>1, InvMove DEF LoopTop, At, closing
<1>2. CASE Decode
  <2> DEFINE item == IF hand.kind = "garbage" THEN ErrorItem ELSE hand
  <2>1. /\ at[Reader] = "decode" /\ Take(item)
        /\ sessionID' = IF hand.kind = "created" THEN hand.id ELSE sessionID
        /\ UNCHANGED <<closeCh, channels, consuming>>
    BY <1>2 DEF Decode, At, closing
  <2>2. /\ item \in Items
        /\ item = ErrorItem \/ item.id = Len(received) + 1
        /\ item.kind = "created" => hand.kind = "created" /\ item = hand
    BY <2>1, DecodedItem
  <2>3. hand.id = Len(received) + 1 /\ hand.id \in 1 .. MaxMsgs /\ sessionID \in 0 .. MaxMsgs
    BY <2>1 DEF ReaderInv, HandOK, ReaderTypes
  <2>4. /\ sessionID' \in 0 .. MaxMsgs
        /\ sessionID <= sessionID' \/ Len(received) <= sessionID'
        /\ item.kind = "created" => item.id <= sessionID'
    <3>1. Len(received) \in Nat
      BY DEF ReaderInv, ReaderTypes
    <3>2. CASE hand.kind = "created"
      BY <2>1, <2>2, <2>3, <3>1, <3>2 DEF ErrorItem
    <3>3. CASE hand.kind # "created"
      BY <2>1, <2>2, <2>3, <3>3
    <3>4. QED
      BY <3>2, <3>3
  <2> HIDE DEF item
  <2>5. QED
    BY <2>1, <2>2, <2>4, InvTake
<1>3. ErrorItem \in Items /\ ErrorItem.kind # "created"
  BY DEF Items, ErrorItem
<1>4. sessionID \in 0 .. MaxMsgs
  BY DEF ReaderInv, ReaderTypes
<1>5. CASE RecvFailed
  <2>1. at[Reader] = "recv" /\ UNCHANGED <<closeCh, channels, consuming, sessionID>>
    BY <1>5 DEF RecvFailed, At, closing
  <2>2. CASE Take(ErrorItem)
    BY <1>3, <1>4, <2>1, <2>2, InvTake
  <2>3. CASE ~Take(ErrorItem)
    <3>1. \/ closeCh /\ Move(Reader, "defers")
          \/ Move(Reader, "reconnect")
      BY <1>5, <2>3 DEF RecvFailed
    <3>2. UNCHANGED reading
      BY <1>5, <2>3 DEF RecvFailed, reading
    <3>3. QED
      BY <2>1, <3>1, <3>2, InvMove
  <2>4. QED
    BY <2>2, <2>3
<1>6. CASE ReaderReconnected
  <2>1. at[Reader] = "reconnect" /\ UNCHANGED <<closeCh, channels, consuming, sessionID>>
    BY <1>6 DEF ReaderReconnected, At, closing
  <2>2. CASE Take(ErrorItem)
    BY <1>3, <1>4, <2>1, <2>2, InvTake
  <2>3. CASE ~Take(ErrorItem)
    <3>1. Move(Reader, "loop") /\ UNCHANGED reading
      BY <1>6, <2>3 DEF ReaderReconnected, reading
    <3>2. QED
      BY <2>1, <3>1, InvMove
  <2>4. QED
    BY <2>2, <2>3
<1>7. QED
  BY <1>1, <1>2, <1>5, <1>6, InvPush, InvLeave DEF ReadLoop

LEMMA ReaderInvStep ==
  TypeOK /\ FrameHasConn /\ ReaderInv /\ [SessionNext]_sessionVars => ReaderInv'
<1> SUFFICES ASSUME TypeOK, FrameHasConn, ReaderInv, [SessionNext]_sessionVars PROVE ReaderInv'
  OBVIOUS
<1>1. at \in [Procs -> AtLabels]
  BY DEF ReaderInv, ReaderTypes
<1>2. CASE Events
  BY <1>2, InvYield, InvEnd DEF Events
<1>3. QED
  BY <1>1, <1>2, StreamSteps, StreamAlone, InvReadLoop, InvRecv, InvClose

LEMMA ReaderInvHolds == SessionSpec => []ReaderInv
<1>1. SessionSpec => [](TypeOK /\ FrameHasConn)
  BY SessionUsesWrapper, TypeCorrect, FrameHasConnHolds, PTL
<1>2. QED
  BY <1>1, ReaderInvInit, ReaderInvStep, PTL DEF SessionSpec

-----------------------------------------------------------------------------
(* An item that readLoop takes in follows no error and fits the bound. *)
LEMMA TakeIsReceive ==
  ASSUME ReaderInv, at[Reader] \in Working, NEW i \in Items, Take(i),
         UNCHANGED <<closeCh, consuming>>
  PROVE  Stream!Receive(i)
<1>1. ~Broke /\ Len(received) <= MaxMsgs
  BY DEF ReaderInv, Phases
<1>2. ~gone
  BY DEF ReaderInv, Phases, Working
<1>3. ~Stream!Failed
  BY <1>1 DEF Stream!Failed, Broke, ReaderInv, ReaderTypes
<1>4. Len(received) < MaxMsgs + 1
  BY <1>1, SessionAssumption DEF ReaderInv, ReaderTypes
<1>5. QED
  BY <1>2, <1>3, <1>4 DEF Stream!Receive, Take, consuming

LEMMA YieldIsDeliver == ASSUME ReaderInv, Yield PROVE Stream!Deliver
<1>1. Len(eventsCh) > 0 /\ Head(eventsCh) = eventsCh[1]
  BY DEF Yield, ReaderInv, ReaderTypes
<1>2. Len(delivered) < Len(received) /\ received[Len(delivered) + 1] = eventsCh[1]
  BY <1>1 DEF ReaderInv, ReaderTypes, InLine, Kept
<1>3. QED
  BY <1>1, <1>2 DEF Stream!Deliver, Yield, closing, reading

LEMMA EndIsEnd == ASSUME ReaderInv, EventsEnd PROVE Stream!End
<1>1. at[Reader] \in {"lastDefer", "end"} /\ Len(eventsCh) = 0
  BY DEF EventsEnd, ReaderInv, Phases
<1>2. closeCh \/ Broke
  BY <1>1 DEF ReaderInv, Phases, Leaving
<1>3. Len(delivered) = Len(received) \/ (Len(delivered) + 1 = Len(received) /\ closeCh)
  BY <1>1 DEF ReaderInv, InLine, Kept, ReaderTypes
<1>4. Broke => Stream!Failed
  BY DEF Broke, Stream!Failed, ReaderInv, ReaderTypes
<1>5. (Stream!Failed /\ Len(delivered) = Len(received)) \/ (closeCh /\ Len(delivered) + 1 >= Len(received))
  BY <1>2, <1>3, <1>4 DEF ReaderInv, ReaderTypes
<1>6. QED
  BY <1>5 DEF Stream!End, EventsEnd, closing, reading

LEMMA StreamStep ==
  ReaderInv /\ [SessionNext]_sessionVars => [Stream!StreamNext]_(Stream!streamVars)
<1> SUFFICES ASSUME ReaderInv, [SessionNext]_sessionVars
             PROVE  [Stream!StreamNext]_(Stream!streamVars)
  OBVIOUS
<1> USE DEF Stream!streamVars
<1>1. at \in [Procs -> AtLabels]
  BY DEF ReaderInv, ReaderTypes
<1>2. CASE ReadLoop
  <2>1. UNCHANGED <<closeCh, consuming>>
    BY <1>2 DEF ReadLoop, LoopTop, Decode, RecvFailed, ReaderReconnected, Push, CloseEvents,
                CloseDone, closing
  <2>2. \/ received' = received
        \/ \E i \in Items : Take(i) /\ at[Reader] \in Working
    <3>1. CASE Decode
      <4>1. at[Reader] = "decode" /\ Take(IF hand.kind = "garbage" THEN ErrorItem ELSE hand)
        BY <3>1 DEF Decode, At
      <4>2. QED
        BY <4>1, DecodedItem DEF Working
    <3>2. CASE RecvFailed \/ ReaderReconnected
      BY <3>2 DEF RecvFailed, ReaderReconnected, Items, At, Working
    <3>3. CASE LoopTop \/ Push \/ CloseEvents \/ CloseDone
      BY <3>3 DEF LoopTop, Push, CloseEvents, CloseDone, reading
    <3>4. QED
      BY <1>2, <3>1, <3>2, <3>3 DEF ReadLoop
  <2>3. CASE received' = received
    BY <2>1, <2>3 DEF consuming
  <2>4. CASE \E i \in Items : Take(i) /\ at[Reader] \in Working
    BY <2>1, <2>4, TakeIsReceive DEF Stream!StreamNext
  <2>5. QED
    BY <2>2, <2>3, <2>4
<1>3. ASSUME NEW kind \in Kinds, Recv(kind) PROVE UNCHANGED Stream!streamVars
  BY <1>3 DEF Recv, closing, consuming
<1>4. CASE Events
  BY <1>4, YieldIsDeliver, EndIsEnd DEF Events, Stream!StreamNext
<1>5. ASSUME NEW c \in Closers, Close(c) PROVE Stream!Close
  BY <1>5 DEF Close, Stream!Close, reading, consuming
<1>6. CASE UNCHANGED <<closeCh, channels, reading, consuming>>
  BY <1>6 DEF reading, consuming
<1>7. QED
  BY <1>1, <1>2, <1>3, <1>4, <1>5, <1>6, StreamSteps DEF Stream!StreamNext

(* The session implements the abstract stream: what the network, the senders,
   Close and the capacity of the channel do, Events loses, repeats and
   reorders nothing (session.go:254-265, 311-374). *)
THEOREM StreamPromiseKept == SessionSpec => KeepsStreamPromise
<1>1. SessionInit => Stream!StreamInit
  BY DEF SessionInit, Stream!StreamInit
<1>2. QED
  BY <1>1, StreamStep, ReaderInvHolds, PTL DEF SessionSpec, KeepsStreamPromise, Stream!StreamSpec

(* SessionID() is never behind the events an application has seen or can see
   (session.go:350-356). *)
THEOREM SessionIDNeverBehind == SessionSpec => []SessionIDCurrent
<1>1. ReaderInv => SessionIDCurrent
  <2> SUFFICES ASSUME ReaderInv, NEW i \in 1 .. Len(delivered \o eventsCh),
                      (delivered \o eventsCh)[i].kind = "created"
               PROVE  sessionID >= (delivered \o eventsCh)[i].id
    BY DEF SessionIDCurrent
  <2>1. /\ delivered \in Seq(Items) /\ eventsCh \in Seq(Items) /\ received \in Seq(Items)
        /\ Len(delivered) + Len(eventsCh) <= Len(received)
    BY DEF ReaderInv, ReaderTypes, InLine, Kept
  <2>2. i \in 1 .. Len(received) /\ (delivered \o eventsCh)[i] = received[i]
    <3>1. CASE i <= Len(delivered)
      BY <2>1, <3>1 DEF ReaderInv, InLine
    <3>2. CASE i > Len(delivered)
      <4>1. i - Len(delivered) \in 1 .. Len(eventsCh)
        BY <2>1, <3>2
      <4>2. received[Len(delivered) + (i - Len(delivered))] = eventsCh[i - Len(delivered)]
        BY <4>1 DEF ReaderInv, InLine
      <4>3. QED
        BY <2>1, <3>2, <4>1, <4>2
    <3>3. QED
      BY <2>1, <3>1, <3>2
  <2>3. received[i].id \in 0 .. MaxMsgs /\ sessionID \in 0 .. MaxMsgs
    BY <2>1, <2>2 DEF Items, EventItems, ErrorItem, ReaderInv, ReaderTypes
  <2>4. QED
    BY <2>2, <2>3 DEF ReaderInv, Numbered
<1>2. QED
  BY <1>1, ReaderInvHolds, PTL

-----------------------------------------------------------------------------
(* 2. Types, order, Close and second attempts *)

(* The types of what the senders, Close and the histories work with *)
SideTypes ==
  /\ once \in Closers \cup {NoProc}
  /\ sends \in [Senders -> 0 .. MaxSends]
  /\ result \in [Senders -> [stage : {"done", "event", "isClosed", "send",
                                      "reconnect", "retry"}, err : Errors]]
  /\ installs \in Seq([conn : Conns, by : Procs \cup {NoProc}]) /\ Len(installs) > 0
  /\ broken \subseteq Conns
  /\ first \in [Senders -> Conns \cup {NoConn}]
  /\ late \in [Senders -> BOOLEAN]

LEMMA SideTypesInit == SessionInit => SideTypes
<1> SUFFICES ASSUME SessionInit PROVE SideTypes
  OBVIOUS
<1> USE SessionAssumption DEF SessionInit
<1>1. once \in Closers \cup {NoProc} /\ broken \subseteq Conns
  OBVIOUS
<1>2. sends \in [Senders -> 0 .. MaxSends] /\ first \in [Senders -> Conns \cup {NoConn}]
  OBVIOUS
<1>3. result \in [Senders -> [stage : {"done", "event", "isClosed", "send",
                                       "reconnect", "retry"}, err : Errors]]
  BY DEF Done, Outcome, Errors
<1>4. installs \in Seq([conn : Conns, by : Procs \cup {NoProc}]) /\ Len(installs) > 0
  <2>1. conn \in Conns
    BY DEF ConnInit
  <2>2. [conn |-> conn, by |-> NoProc] \in [conn : Conns, by : Procs \cup {NoProc}]
    BY <2>1
  <2>3. QED
    BY <2>2
<1>5. late \in [Senders -> BOOLEAN]
  BY Zenon
<1>6. QED
  BY <1>1, <1>2, <1>3, <1>4, <1>5, Zenon DEF SideTypes

LEMMA SideTypesStep ==
  TypeOK /\ Ownership /\ FrameHasConn /\ ReaderInv /\ SideTypes /\ [SessionNext]_sessionVars
    => SideTypes'
<1> SUFFICES ASSUME TypeOK, Ownership, FrameHasConn, ReaderInv, SideTypes,
                    [SessionNext]_sessionVars
             PROVE  SideTypes'
  OBVIOUS
<1> USE SessionAssumption DEF SideTypes
<1>1. ASSUME UNCHANGED <<once, sending, links>> PROVE SideTypes'
  BY <1>1 DEF sending, links
<1>2. ASSUME NEW s \in Senders, Send(s) \/ SendEvent(s) PROVE SideTypes'
  <2>1. UNCHANGED <<once, links>>
    BY <1>2 DEF Send, SendEvent, SendReturned, SenderReconnected, RetryReturned, closing
  <2>2. sends' \in [Senders -> 0 .. MaxSends]
    BY <1>2 DEF Send, SendEvent, SendReturned, SenderReconnected, RetryReturned
  <2>3. \/ UNCHANGED <<result, first>>
        \/ \E stage \in {"done", "event", "isClosed", "send", "reconnect", "retry"}, e \in Errors :
             Finished(s, Outcome(stage, e))
    <3>1. ret[s] \in Errors /\ "other" \in Errors /\ "closed" \in Errors /\ "nil" \in Errors
      BY DEF TypeOK, Errors
    <3>2. CASE Send(s)
      BY <3>1, <3>2 DEF Send
    <3>3. CASE SendReturned(s)
      BY <3>1, <3>3 DEF SendReturned, Done
    <3>4. CASE SenderReconnected(s)
      BY <3>1, <3>4 DEF SenderReconnected
    <3>5. CASE RetryReturned(s)
      BY <3>1, <3>5 DEF RetryReturned, Done
    <3>6. QED
      BY <1>2, <3>2, <3>3, <3>4, <3>5 DEF SendEvent
  <2>4. result' \in [Senders -> [stage : {"done", "event", "isClosed", "send",
                                          "reconnect", "retry"}, err : Errors]]
        /\ first' \in [Senders -> Conns \cup {NoConn}]
    <3>1. CASE UNCHANGED <<result, first>>
      BY <3>1
    <3>2. ASSUME NEW stage \in {"done", "event", "isClosed", "send", "reconnect", "retry"},
                 NEW e \in Errors, Finished(s, Outcome(stage, e))
          PROVE  /\ result' \in [Senders -> [stage : {"done", "event", "isClosed", "send",
                                                      "reconnect", "retry"}, err : Errors]]
                 /\ first' \in [Senders -> Conns \cup {NoConn}]
      <4> DEFINE o == Outcome(stage, e)
      <4>1. o \in [stage : {"done", "event", "isClosed", "send", "reconnect", "retry"}, err : Errors]
        BY DEF Outcome
      <4>2. result' = [result EXCEPT ![s] = o] /\ first' = [first EXCEPT ![s] = NoConn]
        BY <3>2 DEF Finished
      <4> HIDE DEF o
      <4>3. QED
        BY <4>1, <4>2
    <3>3. QED
      BY <2>3, <3>1, <3>2
  <2>5. late' \in [Senders -> BOOLEAN]
    <3>1. late' = late \/ \E b \in BOOLEAN : late' = [late EXCEPT ![s] = b]
      BY <1>2, Zenon DEF Send, SendEvent, SendReturned, SenderReconnected, RetryReturned, Finished
    <3>2. QED
      BY <3>1, Zenon
  <2>6. QED
    BY <2>1, <2>2, <2>4, <2>5, Zenon DEF links
<1>3. ASSUME NEW c \in Closers, Close(c) PROVE SideTypes'
  BY <1>3 DEF Close, sending, links
<1>4. ASSUME NEW p \in Procs, Install(p) PROVE SideTypes'
  <2>1. held[p] \in Conns
    BY <1>4 DEF Install, Swap, Ownership, DialledIsUsable
  <2>2. [conn |-> held[p], by |-> p] \in [conn : Conns, by : Procs \cup {NoProc}]
    BY <2>1
  <2>3. installs' \in Seq([conn : Conns, by : Procs \cup {NoProc}]) /\ Len(installs') > 0
    BY <1>4, <2>2 DEF Install
  <2>4. UNCHANGED <<once, sending, broken>>
    BY <1>4 DEF Install, closing
  <2>5. QED
    BY <2>3, <2>4 DEF sending
<1>5. ASSUME NEW s \in Senders, NEW e \in Errors, SendFrame(s, e) PROVE SideTypes'
  <2>1. held[s] \in Conns
    BY <1>5 DEF SendFrame, WriteFrame, FrameHasConn
  <2>2. broken' \subseteq Conns /\ first' \in [Senders -> Conns \cup {NoConn}]
    BY <1>5, <2>1 DEF SendFrame
  <2>3. UNCHANGED <<once, sends, result, late, installs>>
    BY <1>5 DEF SendFrame, closing
  <2>4. QED
    BY <2>2, <2>3
<1>6. ASSUME NEW k \in Conns, PeerFinishes(k) \/ NetworkDrops(k) PROVE SideTypes'
  BY <1>6 DEF PeerFinishes, NetworkDrops, sessionOnly, closing, sending, links
<1>7. CASE ReadLoop
  BY <1>1, <1>7 DEF ReadLoop, LoopTop, Decode, RecvFailed, ReaderReconnected, Push, CloseEvents,
                    CloseDone, closing
<1>8. ASSUME NEW c \in Closers, CloseReturns(c) \/ CloseAgain(c) \/ OnceReleases(c) PROVE SideTypes'
  BY <1>1, <1>8 DEF CloseReturns, CloseAgain, OnceReleases, closing
<1>9. CASE Events
  BY <1>1, <1>9 DEF Events, Yield, EventsEnd, closing
<1>10. ASSUME NEW p \in Procs, Inside(p) PROVE SideTypes'
  BY <1>1, <1>10 DEF Inside, sessionOnly, closing
<1>11. ASSUME NEW kind \in Kinds, Recv(kind) PROVE SideTypes'
  BY <1>1, <1>11 DEF Recv, closing
<1>12. CASE Terminated \/ UNCHANGED sessionVars
  BY <1>1, <1>12 DEF Terminated, sessionVars, sessionOnly, closing
<1>13. QED
  BY <1>2, <1>3, <1>4, <1>5, <1>6, <1>7, <1>8, <1>9, <1>10, <1>11, <1>12
  DEF SessionNext, Below

LEMMA SessionBasis ==
  SessionSpec => [](TypeOK /\ Ownership /\ FrameHasConn /\ ReaderInv /\ SideTypes)
<1>1. SessionSpec => [](TypeOK /\ Ownership /\ FrameHasConn)
  BY SessionUsesWrapper, OwnershipHolds, FrameHasConnHolds, PTL
<1>2. QED
  BY <1>1, ReaderInvHolds, SideTypesInit, SideTypesStep, PTL DEF SessionSpec

(* The session's variables keep their types; in particular the channel never
   holds more than its capacity and no operation is counted twice. *)
THEOREM SessionTypes == SessionSpec => []SessionTypeOK
<1>1. TypeOK /\ ReaderInv /\ SideTypes => SessionTypeOK
  BY DEF SessionTypeOK, ReaderInv, ReaderTypes, SideTypes, AtLabels, Working, Leaving
<1>2. QED
  BY <1>1, SessionBasis, PTL

-----------------------------------------------------------------------------
(* A step inside the wrapper moves one goroutine there, and no step opens the
   wrapper again once it is closed. *)
LEMMA StepIsLocal ==
  ASSUME TypeOK, Ownership, NEW p \in Procs, Step(p)
  PROVE  /\ pc[p] # "idle"
         /\ \A q \in Procs \ {p} : pc'[q] = pc[q] /\ held'[q] = held[q] /\ ret'[q] = ret[q]
         /\ closed = TRUE => closed' = TRUE
         /\ pc[p] = "close" => closed' = TRUE /\ pc'[p] \in {"idle", "closeWire"}
         /\ pc[p] = "closeWire" => pc'[p] = "idle"
  BY DEF TypeOK, Step, WriteFetch, ReadFetch, Fetch, WriteLock, ReadLock, WriteFrame, ReadFrame,
         ReconnectStart, DialOk, DialFail, Swap, CloseNext, ClosePrev, CloseStart, CloseWire,
         ShutHeld, Return, Goto, Hold

(* A step below the session is a step of the wrapper; readLoop alone notices,
   when a message arrives. *)
LEMMA BelowIsStep ==
  ASSUME TypeOK, at \in [Procs -> AtLabels], NEW p \in Procs, Below(p)
  PROVE  /\ Step(p)
         /\ UNCHANGED <<closing, doneCh>>
         /\ \/ at' = at
            \/ /\ p = Reader /\ at[Reader] = "recv" /\ at' = [at EXCEPT ![Reader] = "decode"]
               /\ pc'[Reader] = "idle"
<1>1. CASE Inside(p)
  BY <1>1 DEF Inside, Step, sessionOnly, channels
<1>2. CASE Install(p)
  BY <1>2 DEF Install, Step, channels
<1>3. ASSUME NEW e \in Errors, SendFrame(p, e)
      PROVE  Step(p) /\ UNCHANGED <<at, closing, doneCh>>
  BY <1>3 DEF SendFrame, Step, channels
<1>4. ASSUME NEW kind \in Kinds, p = Reader, Recv(kind)
      PROVE  /\ Step(p) /\ UNCHANGED <<closing, doneCh>>
             /\ at[Reader] = "recv" /\ at' = [at EXCEPT ![Reader] = "decode"]
             /\ pc'[Reader] = "idle"
  BY <1>4 DEF Recv, Step, ReadFrame, Return, Goto, Move, channels, Errors, TypeOK
<1>5. QED
  BY <1>1, <1>2, <1>3, <1>4 DEF Below

(* Only the goroutine in closeOnce is in the transport's Close; it comes back
   to a closed wrapper, and has left only after readLoop. *)
CloserInv(c) ==
  /\ at[c] \in {"idle", "closing", "waiting", "closed"}
  /\ at[c] = "closing" => c = once
  /\ at[c] = "waiting" => once # NoProc
  /\ at[c] # "closing" => pc[c] = "idle"
  /\ pc[c] \in {"idle", "close", "closeWire"}
  /\ at[c] = "closed" => once # NoProc /\ at[once] = "closed"
  /\ c = once => /\ at[c] \in {"closing", "closed"}
                 /\ pc[c] \in {"idle", "closeWire"} => closed = TRUE
                 /\ at[c] = "closed" => doneCh = TRUE

ReaderOutside ==
  at[Reader] \in Leaving \cup {"push", "loop", "decode"} => pc[Reader] = "idle"

CloseInv == (\A c \in Closers : CloserInv(c)) /\ ReaderOutside

LEMMA CloseInvInit == SessionInit => CloseInv
  BY SessionAssumption, ConnAssumption DEF SessionInit, ConnInit, CloseInv, CloserInv, ReaderOutside, Leaving

LEMMA CloseInvStep ==
  TypeOK /\ Ownership /\ ReaderInv /\ SideTypes /\ CloseInv /\ [SessionNext]_sessionVars
    => CloseInv'
<1> SUFFICES ASSUME TypeOK, Ownership, ReaderInv, SideTypes, CloseInv, [SessionNext]_sessionVars
             PROVE  CloseInv'
  OBVIOUS
<1> USE SessionAssumption, ConnAssumption DEF CloseInv, CloserInv, ReaderOutside, Leaving
<1>0. /\ at \in [Procs -> AtLabels] /\ pc \in [Procs -> Labels] /\ once \in Closers \cup {NoProc}
      /\ closed \in BOOLEAN /\ doneCh \in BOOLEAN
  BY DEF ReaderInv, ReaderTypes, TypeOK, SideTypes
<1>1. CASE ReadLoop
  <2>1. /\ UNCHANGED <<closed, once>> /\ pc[Reader] = "idle"
        /\ doneCh = TRUE => doneCh' = TRUE
        /\ \A c \in Closers : at'[c] = at[c] /\ pc'[c] = pc[c]
    BY <1>0, <1>1 DEF ReadLoop, LoopTop, Decode, RecvFailed, ReaderReconnected, Push, CloseEvents,
                 CloseDone, closing, channels, connVars, Call, Goto, Take, Move, At
  <2>2. at'[Reader] \in Leaving \cup {"push", "loop", "decode"} => pc'[Reader] = "idle"
    BY <1>0, <1>1, <2>1 DEF ReadLoop, LoopTop, Decode, RecvFailed, ReaderReconnected, Push, CloseEvents,
                 CloseDone, connVars, Call, Goto, Take, Move, At
  <2>3. QED
    BY <1>0, <2>1, <2>2
<1>2. ASSUME NEW s \in Senders, Send(s) \/ SendEvent(s) PROVE CloseInv'
  <2>1. /\ UNCHANGED <<closed, once, doneCh>>
        /\ \A c \in Closers \cup {Reader} : at'[c] = at[c] /\ pc'[c] = pc[c]
    BY <1>0, <1>2 DEF Send, SendEvent, SendReturned, SenderReconnected, RetryReturned, Finished,
                 closing, channels, connVars, Call, Goto, Move
  <2>2. QED
    BY <1>0, <2>1
<1>3. ASSUME NEW c \in Closers, Close(c) PROVE CloseInv'
  <2>1. /\ once = NoProc /\ once' = c /\ doneCh' = doneCh
        /\ at[c] = "idle" /\ at'[c] = "closing" /\ pc'[c] = "close"
        /\ \A q \in Procs \ {c} : at'[q] = at[q] /\ pc'[q] = pc[q]
    BY <1>0, <1>3 DEF Close, Call, Goto, Move, At, channels
  <2>2. \A q \in Closers : at[q] = "idle"
    BY <2>1
  <2>3. QED
    BY <2>1, <2>2
<1>4. ASSUME NEW c \in Closers, CloseReturns(c) PROVE CloseInv'
  <2>1. /\ UNCHANGED <<connVars, once, doneCh>> /\ doneCh /\ pc[c] = "idle"
        /\ at[c] = "closing" /\ at'[c] = "closed"
        /\ \A q \in Procs \ {c} : at'[q] = at[q]
    BY <1>0, <1>4 DEF CloseReturns, Move, At, closing, channels
  <2>2. QED
    BY <2>1 DEF connVars
<1>5. ASSUME NEW c \in Closers, CloseAgain(c) \/ OnceReleases(c) PROVE CloseInv'
  <2>1. /\ UNCHANGED <<connVars, once, doneCh>> /\ once # NoProc
        /\ \A q \in Procs \ {c} : at'[q] = at[q]
    BY <1>0, <1>5 DEF CloseAgain, OnceReleases, Move, At, closing, channels
  <2>2. \/ at[c] = "idle" /\ at'[c] = "waiting"
        \/ at[c] = "waiting" /\ at'[c] = "closed" /\ at[once] = "closed"
    BY <1>0, <1>5 DEF CloseAgain, OnceReleases, Move, At
  <2>3. QED
    BY <1>0, <2>1, <2>2 DEF connVars
<1>6. ASSUME NEW p \in Procs, Below(p) PROVE CloseInv'
  <2>1. /\ pc[p] # "idle"
        /\ \A q \in Procs \ {p} : pc'[q] = pc[q]
        /\ closed = TRUE => closed' = TRUE
        /\ pc[p] = "close" => closed' = TRUE /\ pc'[p] \in {"idle", "closeWire"}
        /\ pc[p] = "closeWire" => pc'[p] = "idle"
    BY <1>0, <1>6, BelowIsStep, StepIsLocal
  <2>2. /\ UNCHANGED <<once, doneCh>>
        /\ \A q \in Procs \ {Reader} : at'[q] = at[q]
        /\ at'[Reader] = at[Reader] \/ pc'[Reader] = "idle"
    BY <1>0, <1>6, BelowIsStep DEF closing
  <2>3. QED
    BY <1>0, <2>1, <2>2
<1>7. ASSUME NEW k \in Conns, PeerFinishes(k) \/ NetworkDrops(k) PROVE CloseInv'
  BY <1>7 DEF PeerFinishes, NetworkDrops, sessionOnly, closing, channels, Finish, Drop
<1>8. CASE Events
  BY <1>8 DEF Events, Yield, EventsEnd, closing, channels, connVars
<1>9. CASE Terminated \/ UNCHANGED sessionVars
  BY <1>9 DEF Terminated, sessionVars, sessionOnly, closing, channels, connVars
<1>10. QED
  BY <1>1, <1>2, <1>3, <1>4, <1>5, <1>6, <1>7, <1>8, <1>9 DEF SessionNext

(* Close has cleaned up when it returns: readLoop is over, the channel is
   closed, and no connection is left but one whose sender will close it. *)
THEOREM CloseCompletes == SessionSpec => []CloseIsComplete
<1>1. TypeOK /\ Ownership /\ ReaderInv /\ SideTypes /\ CloseInv => CloseIsComplete
  <2> SUFFICES ASSUME TypeOK, Ownership, ReaderInv, SideTypes, CloseInv,
                      once # NoProc, at[once] = "closed"
               PROVE  /\ at[Reader] = "end" /\ eventsClosed /\ closed
                      /\ \A k \in Conns : wire[k] = "open" => \E s \in Senders : Owns(s, k)
    BY DEF CloseIsComplete
  <2>1. once \in Closers
    BY DEF SideTypes
  <2>2. at[Reader] = "end" /\ eventsClosed
    BY <2>1 DEF CloseInv, CloserInv, ReaderInv, Phases
  <2>3. closed /\ pc[once] = "idle"
    BY <2>1 DEF CloseInv, CloserInv
  <2>4. conn = NoConn
    BY <2>3 DEF Ownership, CurrentUsable
  <2>5. \A p \in Closers \cup {Reader} : pc[p] = "idle"
    BY <2>1, <2>2 DEF CloseInv, CloserInv, ReaderOutside, Leaving
  <2>6. ASSUME NEW k \in Conns, wire[k] = "open" PROVE \E s \in Senders : Owns(s, k)
    BY <2>4, <2>5, <2>6, SessionAssumption, ConnAssumption DEF Ownership, NoLeak, Owns
  <2>7. QED
    BY <2>2, <2>3, <2>6
<1>2. SessionSpec => []CloseInv
  BY SessionBasis, CloseInvInit, CloseInvStep, PTL DEF SessionSpec
<1>3. QED
  BY <1>1, <1>2, SessionBasis, PTL

-----------------------------------------------------------------------------
(* A connection that has been in use and that nobody is about to install is
   never installed again. *)
LEMMA UsedStaysOut ==
  ASSUME TypeOK, Ownership, NEW p \in Procs, Step(p) \/ Environment,
         NEW k \in Conns, wire[k] # "unused", \A q \in Procs : pc[q] = "swap" => held[q] # k
  PROVE  /\ wire'[k] # "unused"
         /\ \A q \in Procs : pc'[q] = "swap" => held'[q] # k
         /\ k # conn => k # conn'
<1> USE ConnAssumption DEF TypeOK, Return, Goto, Hold
<1>1. CASE Environment
  BY <1>1 DEF Environment, Drop, Finish
<1>2. ASSUME NEW j \in Conns, DialOk(p, j)
      PROVE  /\ wire'[k] # "unused" /\ conn' = conn
             /\ \A q \in Procs : pc'[q] = "swap" => held'[q] # k
  BY <1>2 DEF DialOk
<1>3. CASE Swap(p)
  BY <1>3 DEF Swap
<1>4. CASE \/ WriteFetch(p) \/ WriteLock(p) \/ \E e \in Errors : WriteFrame(p, e)
           \/ ReadFetch(p) \/ ReadLock(p) \/ \E e \in Errors : ReadFrame(p, e)
           \/ ReconnectStart(p) \/ \E e \in Errors : DialFail(p, e)
  BY <1>4 DEF WriteFetch, ReadFetch, Fetch, WriteLock, ReadLock, WriteFrame, ReadFrame,
              ReconnectStart, DialFail
<1>5. CASE \/ CloseNext(p) \/ ClosePrev(p) \/ CloseStart(p) \/ \E e \in Errors : CloseWire(p, e)
  BY <1>5 DEF CloseNext, ClosePrev, CloseStart, CloseWire, ShutHeld
<1>6. QED
  BY <1>1, <1>2, <1>3, <1>4, <1>5 DEF Step

(* The way of a goroutine through Write and Reconnect *)
LEMMA StepWay ==
  ASSUME TypeOK, Ownership, NEW p \in Procs, Step(p)
  PROVE  /\ pc[p] = "write" => \/ pc'[p] = "idle"
                               \/ pc'[p] = "writeLock" /\ held'[p] = conn /\ conn # NoConn
         /\ pc[p] = "writeLock" => pc'[p] = "writeFrame" /\ held'[p] = held[p]
         /\ pc[p] = "writeFrame" => pc'[p] = "idle"
         /\ pc[p] \in {"reconnect", "dial"} => \/ pc'[p] \in {"dial", "swap"}
                                               \/ pc'[p] = "idle" /\ ret'[p] # "nil"
         /\ pc[p] = "swap" => \/ pc'[p] = "closeNext"
                              \/ pc'[p] = "closePrev" /\ conn' = held[p]
         /\ pc[p] = "closeNext" => pc'[p] = "idle" /\ ret'[p] # "nil"
         /\ pc[p] = "closePrev" => pc'[p] = "idle" /\ conn' = conn
         /\ conn' = conn \/ pc[p] = "swap" \/ conn' = NoConn
  BY ConnAssumption
  DEF TypeOK, Step, WriteFetch, ReadFetch, Fetch, WriteLock, ReadLock, WriteFrame, ReadFrame,
      ReconnectStart, DialOk, DialFail, DialErrors, Swap, CloseNext, ClosePrev, CloseStart,
      CloseWire, ShutHeld, Return, Goto, Hold

(* Where a sender is, and that the connection its first attempt used is out
   of the wrapper for good once its reconnect has succeeded. *)
SenderAt(s) ==
  /\ at[s] \in {"idle", "send", "reconnect", "retry"}
  /\ at[s] = "idle" => pc[s] = "idle"
  /\ at[s] \in {"send", "retry"} => pc[s] \in {"idle", "write", "writeLock", "writeFrame"}
  /\ at[s] = "reconnect" =>
       pc[s] \in {"idle", "reconnect", "dial", "swap", "closeNext", "closePrev"}

FirstIsOut(s) ==
  first[s] # NoConn =>
    /\ wire[first[s]] # "unused"
    /\ \A p \in Procs : pc[p] = "swap" => held[p] # first[s]
    /\ at[s] = "retry" => first[s] # conn
    /\ at[s] = "retry" /\ pc[s] \in {"writeLock", "writeFrame"} => held[s] # first[s]
    /\ at[s] = "reconnect" /\ pc[s] = "closePrev" => first[s] # conn
    /\ at[s] = "reconnect" /\ pc[s] = "idle" /\ ret[s] = "nil" => first[s] # conn

SendersInv == \A s \in Senders : SenderAt(s) /\ FirstIsOut(s)

LEMMA SendersInvInit == SessionInit => SendersInv
  BY SessionAssumption DEF SessionInit, ConnInit, SendersInv, SenderAt, FirstIsOut

(* A step of somebody else *)
LEMMA OtherSender ==
  ASSUME TypeOK, Ownership, SideTypes, NEW s \in Senders, SenderAt(s), FirstIsOut(s),
         at'[s] = at[s], pc'[s] = pc[s], held'[s] = held[s], ret'[s] = ret[s],
         first'[s] = first[s],
         \/ UNCHANGED <<conn, wire>> /\ \A p \in Procs : pc'[p] = "swap" => pc[p] = "swap" /\ held'[p] = held[p]
         \/ \E p \in Procs : Step(p)
         \/ Environment
  PROVE  SenderAt(s)' /\ FirstIsOut(s)'
<1>1. SenderAt(s)'
  BY DEF SenderAt
<1>2. first[s] \in Conns \cup {NoConn} /\ s \in Procs
  BY SessionAssumption DEF SideTypes
<1>3. CASE UNCHANGED <<conn, wire>> /\ \A p \in Procs : pc'[p] = "swap" => pc[p] = "swap" /\ held'[p] = held[p]
  BY <1>1, <1>3 DEF FirstIsOut
<1>4. CASE (\E p \in Procs : Step(p)) \/ Environment
  <2> SUFFICES ASSUME first[s] # NoConn PROVE FirstIsOut(s)'
    BY <1>1 DEF FirstIsOut
  <2>1. /\ first[s] \in Conns /\ wire[first[s]] # "unused"
        /\ \A q \in Procs : pc[q] = "swap" => held[q] # first[s]
    BY <1>2 DEF FirstIsOut
  <2>2. /\ wire'[first[s]] # "unused"
        /\ \A q \in Procs : pc'[q] = "swap" => held'[q] # first[s]
        /\ first[s] # conn => first[s] # conn'
    BY <1>2, <1>4, <2>1, UsedStaysOut
  <2>3. QED
    BY <2>2 DEF FirstIsOut
<1>5. QED
  BY <1>1, <1>3, <1>4

LEMMA SendersInvStep ==
  TypeOK /\ Ownership /\ FrameHasConn /\ ReaderInv /\ SideTypes /\ SendersInv /\ [SessionNext]_sessionVars
    => SendersInv'
<1> SUFFICES ASSUME TypeOK, Ownership, FrameHasConn, ReaderInv, SideTypes, SendersInv,
                    [SessionNext]_sessionVars
             PROVE  SendersInv'
  OBVIOUS
<1> SUFFICES ASSUME NEW s \in Senders PROVE SenderAt(s)' /\ FirstIsOut(s)'
  BY DEF SendersInv
<1> USE SessionAssumption, ConnAssumption
<1>0. /\ at \in [Procs -> AtLabels] /\ pc \in [Procs -> Labels] /\ held \in [Procs -> Conns \cup {NoConn}]
      /\ ret \in [Procs -> Errors] /\ first \in [Senders -> Conns \cup {NoConn}]
      /\ SenderAt(s) /\ FirstIsOut(s) /\ s \in Procs
  BY DEF ReaderInv, ReaderTypes, TypeOK, SideTypes, SendersInv
<1>1. CASE ReadLoop
  <2>1. /\ UNCHANGED <<conn, wire, held, first>>
        /\ \A p \in Procs \ {Reader} : at'[p] = at[p] /\ pc'[p] = pc[p] /\ ret'[p] = ret[p]
        /\ pc'[Reader] = pc[Reader] \/ pc'[Reader] \in {"read", "reconnect"}
    BY <1>0, <1>1 DEF ReadLoop, LoopTop, Decode, RecvFailed, ReaderReconnected, Push, CloseEvents,
                 CloseDone, sending, connVars, Call, Goto, Take, Move
  <2>2. QED
    BY <1>0, <2>1, OtherSender
<1>2. ASSUME NEW t \in Senders \ {s}, Send(t) \/ SendEvent(t) PROVE SenderAt(s)' /\ FirstIsOut(s)'
  <2>1. /\ UNCHANGED <<conn, wire, held>> /\ first'[s] = first[s]
        /\ \A p \in Procs \ {t} : at'[p] = at[p] /\ pc'[p] = pc[p] /\ ret'[p] = ret[p]
        /\ pc'[t] = pc[t] \/ pc'[t] \in {"write", "reconnect"}
    BY <1>0, <1>2 DEF Send, SendEvent, SendReturned, SenderReconnected, RetryReturned, Finished,
                      connVars, Call, Goto, Move
  <2>2. QED
    BY <1>0, <2>1, OtherSender
<1>3. CASE Send(s) \/ SendReturned(s) \/ RetryReturned(s)
  <2>1. UNCHANGED <<conn, wire, held>> /\ pc[s] = "idle" /\ \A p \in Procs \ {s} : pc'[p] = pc[p]
    BY <1>0, <1>3 DEF Send, SendReturned, RetryReturned, connVars, Call, Goto, At
  <2>2. \/ at'[s] = "idle" /\ pc'[s] = "idle" /\ first'[s] = NoConn
        \/ at'[s] = "send" /\ pc'[s] = "write" /\ first'[s] = first[s]
        \/ at'[s] = "reconnect" /\ pc'[s] = "reconnect" /\ first'[s] = first[s]
    BY <1>0, <1>3 DEF Send, SendReturned, RetryReturned, connVars, Call, Goto, At, Finished, Move
  <2>3. QED
    BY <1>0, <2>1, <2>2 DEF SenderAt, FirstIsOut
<1>4. CASE SenderReconnected(s)
  <2>1. /\ UNCHANGED <<conn, wire, held>> /\ at[s] = "reconnect" /\ pc[s] = "idle"
        /\ \A p \in Procs \ {s} : pc'[p] = pc[p]
    BY <1>0, <1>4 DEF SenderReconnected, connVars, Call, Goto, At
  <2>2. \/ at'[s] = "idle" /\ pc'[s] = "idle" /\ first'[s] = NoConn
        \/ at'[s] = "retry" /\ pc'[s] = "write" /\ first'[s] = first[s] /\ ret[s] = "nil"
    BY <1>0, <1>4 DEF SenderReconnected, connVars, Call, Goto, At, Finished, Move
  <2>3. QED
    BY <1>0, <2>1, <2>2 DEF SenderAt, FirstIsOut
<1>5. ASSUME NEW c \in Closers, Close(c) \/ CloseReturns(c) \/ CloseAgain(c) \/ OnceReleases(c)
      PROVE  SenderAt(s)' /\ FirstIsOut(s)'
  <2>1. /\ UNCHANGED <<conn, wire, held, first>>
        /\ \A p \in Procs \ {c} : at'[p] = at[p] /\ pc'[p] = pc[p] /\ ret'[p] = ret[p]
        /\ pc'[c] = pc[c] \/ pc'[c] = "close"
    BY <1>0, <1>5 DEF Close, CloseReturns, CloseAgain, OnceReleases, connVars, sending, Call, Goto, Move
  <2>2. QED
    BY <1>0, <2>1, OtherSender
<1>6. ASSUME NEW p \in Procs \ {s}, Below(p) PROVE SenderAt(s)' /\ FirstIsOut(s)'
  <2>1. first'[s] = first[s]
    BY <1>0, <1>6 DEF Below, Inside, Install, SendFrame, Recv, sessionOnly, sending
  <2>2. Step(p) /\ at'[s] = at[s]
    BY <1>0, <1>6, BelowIsStep
  <2>3. pc'[s] = pc[s] /\ held'[s] = held[s] /\ ret'[s] = ret[s]
    BY <1>0, <1>6, <2>2, StepIsLocal
  <2>4. QED
    BY <1>0, <2>1, <2>2, <2>3, OtherSender
<1>7. CASE Below(s)
  <2>1. Step(s) /\ at'[s] = at[s]
    BY <1>0, <1>7, BelowIsStep
  <2>2. SenderAt(s)'
    BY <1>0, <2>1, StepWay, StepIsLocal DEF SenderAt
  <2>3. CASE first'[s] = first[s]
    <3> SUFFICES ASSUME first[s] # NoConn PROVE FirstIsOut(s)'
      BY <2>2, <2>3 DEF FirstIsOut
    <3>1. /\ first[s] \in Conns /\ wire[first[s]] # "unused"
          /\ \A q \in Procs : pc[q] = "swap" => held[q] # first[s]
      BY <1>0 DEF FirstIsOut
    <3>2. /\ wire'[first[s]] # "unused"
          /\ \A q \in Procs : pc'[q] = "swap" => held'[q] # first[s]
          /\ first[s] # conn => first[s] # conn'
      BY <1>0, <2>1, <3>1, UsedStaysOut
    <3>3. at[s] = "retry" /\ pc'[s] \in {"writeLock", "writeFrame"} => held'[s] # first[s]
      BY <1>0, <2>1, StepWay, StepIsLocal DEF FirstIsOut, SenderAt
    <3>4. at[s] = "reconnect" /\ pc'[s] = "closePrev" => first[s] # conn'
      BY <1>0, <2>1, <3>1, StepWay, StepIsLocal DEF SenderAt
    <3>5. at[s] = "reconnect" /\ pc'[s] = "idle" /\ ret'[s] = "nil" => first[s] # conn'
      BY <1>0, <2>1, <3>1, <3>2, StepWay, StepIsLocal DEF SenderAt, FirstIsOut
    <3>6. at[s] = "retry" => first[s] # conn'
      BY <1>0, <3>2 DEF FirstIsOut
    <3>7. QED
      BY <2>1, <2>3, <3>2, <3>3, <3>4, <3>5, <3>6 DEF FirstIsOut
  <2>4. CASE first'[s] # first[s]
    <3>1. PICK e \in Errors : SendFrame(s, e)
      BY <1>0, <1>7, <2>4 DEF Below, Inside, Install, Recv, sessionOnly, sending
    <3>2. /\ at[s] = "send" /\ first'[s] = held[s] /\ pc[s] = "writeFrame"
          /\ held[s] \in Conns
      BY <1>0, <2>4, <3>1 DEF SendFrame, WriteFrame, FrameHasConn
    <3>3. /\ wire[held[s]] # "unused"
          /\ \A p \in Procs : pc[p] = "swap" => held[p] # held[s]
      BY <1>0, <3>2 DEF Ownership, HeldIsUsed, PrivateUntilInstalled
    <3>4. /\ wire'[held[s]] # "unused"
          /\ \A q \in Procs : pc'[q] = "swap" => held'[q] # held[s]
      BY <1>0, <2>1, <3>2, <3>3, UsedStaysOut
    <3>5. QED
      BY <2>1, <2>2, <3>2, <3>4 DEF FirstIsOut
  <2>5. QED
    BY <2>2, <2>3, <2>4
<1>8. ASSUME NEW k \in Conns, PeerFinishes(k) \/ NetworkDrops(k) PROVE SenderAt(s)' /\ FirstIsOut(s)'
  <2>1. Environment /\ UNCHANGED <<at, pc, held, ret, first>>
    BY <1>8 DEF PeerFinishes, NetworkDrops, sessionOnly, sending, Finish, Drop, Environment
  <2>2. QED
    BY <1>0, <2>1, OtherSender
<1>9. CASE Events \/ Terminated \/ UNCHANGED sessionVars
  <2>1. UNCHANGED <<conn, wire, at, pc, held, ret, first>>
    BY <1>9 DEF Events, Yield, EventsEnd, Terminated, sessionVars, sessionOnly, sending, connVars
  <2>2. QED
    BY <1>0, <2>1, OtherSender
<1>10. QED
  BY <1>1, <1>2, <1>3, <1>4, <1>5, <1>6, <1>7, <1>8, <1>9 DEF SessionNext, SendEvent

(* The second attempt of sendEvent never meets the connection of the first. *)
THEOREM RetryElsewhere == SessionSpec => []RetryOnAnotherConnection
<1>1. SideTypes /\ FrameHasConn /\ SendersInv => RetryOnAnotherConnection
  BY SessionAssumption, ConnAssumption
  DEF RetryOnAnotherConnection, SendersInv, FirstIsOut, FrameHasConn, SideTypes
<1>2. SessionSpec => []SendersInv
  BY SessionBasis, SendersInvInit, SendersInvStep, PTL DEF SessionSpec
<1>3. QED
  BY <1>1, <1>2, SessionBasis, PTL

-----------------------------------------------------------------------------
(* With no attempts no goroutine ever dials, and only the first connection
   has been in use. *)
NeverDials ==
  Attempts = 0 =>
    /\ \A p \in Procs : pc[p] # "dial"
    /\ \A k \in Conns : wire[k] = "unused" \/ k = installs[1].conn

LEMMA NeverDialsInit == SessionInit => NeverDials
  BY DEF SessionInit, ConnInit, NeverDials

LEMMA NeverDialsStep ==
  TypeOK /\ Ownership /\ SideTypes /\ NeverDials /\ [SessionNext]_sessionVars => NeverDials'
<1> SUFFICES ASSUME TypeOK, Ownership, SideTypes, NeverDials, [SessionNext]_sessionVars, Attempts = 0
             PROVE  NeverDials'
  BY DEF NeverDials
<1>1. /\ \A p \in Procs : pc[p] # "dial"
      /\ \A k \in Conns : wire[k] = "unused" \/ k = installs[1].conn
  BY DEF NeverDials
<1>2. installs'[1] = installs[1]
  <2>1. installs' = installs \/ \E p \in Procs : Install(p)
    BY DEF SessionNext, ReadLoop, LoopTop, Decode, RecvFailed, ReaderReconnected, Push, CloseEvents,
           CloseDone, Send, SendEvent, SendReturned, SenderReconnected, RetryReturned, Close,
           CloseReturns, CloseAgain, OnceReleases, Events, Yield, EventsEnd, Below, Inside, SendFrame,
           Recv, PeerFinishes, NetworkDrops, Terminated, sessionVars, sessionOnly, links
  <2>2. ASSUME NEW p \in Procs, Install(p) PROVE installs'[1] = installs[1]
    <3>1. [conn |-> held[p], by |-> p] \in [conn : Conns, by : Procs \cup {NoProc}]
      BY <2>2 DEF Install, Swap, Ownership, DialledIsUsable
    <3>2. QED
      BY <2>2, <3>1 DEF Install, SideTypes
  <2>3. QED
    BY <2>1, <2>2
<1>3. [ConnNext]_connVars
  BY SessionStepsWrapper
<1>4. \A p \in Procs : pc'[p] # "dial"
  BY <1>1, <1>3, ConnAssumption
  DEF ConnNext, connVars, TypeOK, Step, WriteFetch, ReadFetch, Fetch, WriteLock, ReadLock,
      WriteFrame, ReadFrame, ReconnectStart, DialOk, DialFail, Swap, CloseNext, ClosePrev,
      CloseStart, CloseWire, ShutHeld, Return, Goto, Call, Ops, Environment, Drop, Finish
<1>5. \A k \in Conns : wire'[k] = "unused" <=> wire[k] = "unused"
  <2>1. CASE UNCHANGED wire
    BY <2>1
  <2>2. CASE Environment
    BY <2>2 DEF Environment, Drop, Finish, TypeOK
  <2>3. ASSUME NEW p \in Procs, Step(p), wire' # wire
        PROVE  \A k \in Conns : wire'[k] = "unused" <=> wire[k] = "unused"
    <3>1. ~ \E k \in Conns : DialOk(p, k)
      BY <1>1 DEF DialOk
    <3>2. held[p] \in Conns => wire[held[p]] # "unused"
      BY DEF Ownership, HeldIsUsed
    <3>3. \A k \in Conns : wire'[k] = wire[k] \/ (k = held[p] /\ wire'[k] \in {"down", "shut"})
      <4>1. CASE \E e \in Errors : WriteFrame(p, e) \/ ReadFrame(p, e)
        BY <2>3, <4>1 DEF WriteFrame, ReadFrame, TypeOK
      <4>2. CASE CloseNext(p) \/ ClosePrev(p) \/ \E e \in Errors : CloseWire(p, e)
        BY <4>2 DEF CloseNext, ClosePrev, CloseWire, ShutHeld, TypeOK
      <4>3. CASE \/ WriteFetch(p) \/ WriteLock(p) \/ ReadFetch(p) \/ ReadLock(p) \/ ReconnectStart(p)
                 \/ (\E e \in Errors : DialFail(p, e)) \/ Swap(p) \/ CloseStart(p)
        BY <2>3, <4>3
        DEF WriteFetch, ReadFetch, Fetch, WriteLock, ReadLock, ReconnectStart, DialFail, Swap,
            CloseStart
      <4>4. QED
        BY <2>3, <3>1, <4>1, <4>2, <4>3 DEF Step
    <3>4. QED
      BY <3>2, <3>3
  <2>4. QED
    BY <1>3, <2>1, <2>2, <2>3 DEF ConnNext, connVars, Call
<1>6. QED
  BY <1>1, <1>2, <1>4, <1>5 DEF NeverDials

(* WithReconnect(0, ...) really disables reconnects. *)
THEOREM DisabledHolds == SessionSpec => []DisabledMeansOneConnection
<1>1. NeverDials => DisabledMeansOneConnection
  BY DEF NeverDials, DisabledMeansOneConnection
<1>2. QED
  BY <1>1, SessionBasis, NeverDialsInit, NeverDialsStep, PTL DEF SessionSpec

-----------------------------------------------------------------------------
(* The current connection is the one installed last, and readLoop reads from
   one that was installed no earlier than those of the events it has taken. *)
CurrentIsLast == conn # NoConn => conn = installs[Len(installs)].conn

Reading == pc[Reader] \in {"readLock", "readFrame"}

FollowsAll(k) ==
  /\ Precedes(k, k)
  /\ \A i \in DOMAIN received : received[i] # ErrorItem => Precedes(received[i].from, k)

OrderInv ==
  /\ CurrentIsLast
  /\ \A i \in DOMAIN received : received[i] # ErrorItem => Precedes(received[i].from, received[i].from)
  /\ InConnectionOrder
  /\ Reading => FollowsAll(held[Reader])
  /\ at[Reader] = "decode" => FollowsAll(hand.from)

LEMMA OrderInvInit == SessionInit => OrderInv
<1> SUFFICES ASSUME SessionInit PROVE OrderInv
  OBVIOUS
<1>1. installs = <<[conn |-> conn, by |-> NoProc]>> /\ received = <<>>
  BY DEF SessionInit
<1>2. CurrentIsLast
  BY <1>1 DEF CurrentIsLast
<1>3. ~Reading /\ at[Reader] # "decode"
  BY SessionAssumption DEF SessionInit, ConnInit, Reading
<1>4. QED
  BY <1>1, <1>2, <1>3 DEF OrderInv, InConnectionOrder

(* Only Reconnect's critical section installs a connection, and only an open
   wrapper has it; apart from that Close alone takes the connection away. *)
LEMMA OnlySwapInstalls ==
  ASSUME TypeOK, Ownership, SideTypes, [SessionNext]_sessionVars
  PROVE  \/ installs' = installs /\ conn' \in {conn, NoConn}
         \/ \E p \in Procs :
              /\ Install(p) /\ ~closed /\ conn' = held[p] /\ held[p] \in Conns
              /\ installs' = Append(installs, [conn |-> held[p], by |-> p])
              /\ Len(installs') = Len(installs) + 1
              /\ installs'[Len(installs')] = [conn |-> held[p], by |-> p]
              /\ \A n \in DOMAIN installs : n \in DOMAIN installs' /\ installs'[n] = installs[n]
<1>1. ASSUME NEW p \in Procs, Install(p), closed
      PROVE  installs' = installs /\ conn' = conn
  BY <1>1 DEF Install, Swap
<1>2. ASSUME NEW p \in Procs, Install(p), ~closed
      PROVE  /\ conn' = held[p] /\ held[p] \in Conns
             /\ installs' = Append(installs, [conn |-> held[p], by |-> p])
             /\ Len(installs') = Len(installs) + 1
             /\ installs'[Len(installs')] = [conn |-> held[p], by |-> p]
             /\ \A n \in DOMAIN installs : n \in DOMAIN installs' /\ installs'[n] = installs[n]
  <2> DEFINE new == [conn |-> held[p], by |-> p]
  <2>1. installs' = Append(installs, new) /\ conn' = held[p] /\ held[p] \in Conns
    BY <1>2 DEF Install, Swap, Ownership, DialledIsUsable
  <2>2. new \in [conn : Conns, by : Procs \cup {NoProc}]
    BY <2>1
  <2>3. QED
    BY <2>1, <2>2 DEF SideTypes
<1>3. ASSUME ~ \E p \in Procs : Install(p)
      PROVE  installs' = installs
  BY <1>3
  DEF SessionNext, ReadLoop, LoopTop, Decode, RecvFailed, ReaderReconnected, Push, CloseEvents,
      CloseDone, Send, SendEvent, SendReturned, SenderReconnected, RetryReturned, Close,
      CloseReturns, CloseAgain, OnceReleases, Events, Yield, EventsEnd, Below, Inside, SendFrame,
      Recv, PeerFinishes, NetworkDrops, Terminated, sessionVars, sessionOnly, links
<1>4. ASSUME ~ \E p \in Procs : Install(p)
      PROVE  conn' \in {conn, NoConn}
  <2>1. CASE ReadLoop
    BY <2>1 DEF ReadLoop, LoopTop, Decode, RecvFailed, ReaderReconnected, Push, CloseEvents,
                CloseDone, Call, connVars
  <2>2. ASSUME NEW s \in Senders, Send(s) \/ SendEvent(s) PROVE conn' = conn
    BY <2>2 DEF Send, SendEvent, SendReturned, SenderReconnected, RetryReturned, Call, connVars
  <2>3. ASSUME NEW c \in Closers, Close(c) \/ CloseReturns(c) \/ CloseAgain(c) \/ OnceReleases(c) PROVE conn' = conn
    BY <2>3 DEF Close, CloseReturns, CloseAgain, OnceReleases, Call, connVars
  <2>4. ASSUME NEW p \in Procs, Inside(p) PROVE conn' \in {conn, NoConn}
    BY <2>4 DEF Inside, WriteFetch, WriteLock, ReadFetch, Fetch, ReadLock, ReadFrame,
                ReconnectStart, DialOk, DialFail, CloseNext, ClosePrev, CloseStart, CloseWire,
                ShutHeld
  <2>5. ASSUME NEW p \in Procs, \/ \E e \in Errors : SendFrame(p, e)
                                \/ \E kind \in Kinds : Recv(kind)
        PROVE  conn' = conn
    BY <2>5 DEF SendFrame, Recv, WriteFrame, ReadFrame
  <2>6. ASSUME NEW k \in Conns, PeerFinishes(k) \/ NetworkDrops(k) PROVE conn' = conn
    BY <2>6 DEF PeerFinishes, NetworkDrops, Finish, Drop
  <2>7. CASE Events \/ Terminated \/ UNCHANGED sessionVars
    BY <2>7 DEF Events, Yield, EventsEnd, Terminated, sessionVars, connVars
  <2>8. QED
    BY <1>4, <2>1, <2>2, <2>3, <2>4, <2>5, <2>6, <2>7 DEF SessionNext, Below
<1>5. QED
  BY <1>1, <1>2, <1>3, <1>4

(* Whatever happens, connections are only ever added to the installed ones,
   the one that becomes current among them. *)
LEMMA InstallsGrow ==
  ASSUME TypeOK, Ownership, SideTypes, CurrentIsLast, [SessionNext]_sessionVars
  PROVE  /\ CurrentIsLast'
         /\ \A k, j \in Conns : Precedes(k, j) => Precedes(k, j)'
<1>1. CASE installs' = installs /\ conn' \in {conn, NoConn}
  BY <1>1 DEF CurrentIsLast, Precedes
<1>2. CASE ~(installs' = installs /\ conn' \in {conn, NoConn})
  <2>1. PICK p \in Procs :
          /\ conn' = held[p] /\ installs'[Len(installs')] = [conn |-> held[p], by |-> p]
          /\ \A n \in DOMAIN installs : n \in DOMAIN installs' /\ installs'[n] = installs[n]
    BY <1>2, OnlySwapInstalls, Zenon
  <2>2. QED
    BY <2>1 DEF CurrentIsLast, Precedes
<1>3. QED
  BY <1>1, <1>2

(* A read begins with the current connection and stays with it. *)
LEMMA ReadingOn ==
  ASSUME TypeOK, NEW p \in Procs, Step(p), pc'[Reader] \in {"readLock", "readFrame"}
  PROVE  \/ Reading /\ held'[Reader] = held[Reader]
         \/ conn # NoConn /\ held'[Reader] = conn
BY SessionAssumption
DEF Reading, TypeOK, Step, WriteFetch, ReadFetch, Fetch, WriteLock, ReadLock, WriteFrame, ReadFrame,
    ReconnectStart, DialOk, DialFail, Swap, CloseNext, ClosePrev, CloseStart, CloseWire,
    ShutHeld, Return, Goto, Hold

(* What readLoop does as to the order: it reads, decodes, or neither. *)
LEMMA ReaderView ==
  ASSUME TypeOK, ReaderInv, SideTypes, OrderInv, [SessionNext]_sessionVars
  PROVE  \/ /\ received' = received
            /\ Reading' => \/ Reading /\ held'[Reader] = held[Reader]
                           \/ conn # NoConn /\ held'[Reader] = conn
            /\ at'[Reader] = "decode" => \/ at[Reader] = "decode" /\ hand' = hand
                                         \/ Reading /\ hand'.from = held[Reader]
         \/ /\ \/ received' = Append(received, ErrorItem)
               \/ at[Reader] = "decode" /\ received' = Append(received, hand)
            /\ ~Reading' /\ at'[Reader] = "push"
<1>0. at \in [Procs -> AtLabels] /\ pc \in [Procs -> Labels] /\ Reader \in Procs
  BY SessionAssumption DEF TypeOK, ReaderInv, ReaderTypes
<1> USE <1>0 DEF Reading
<1>1. CASE ReadLoop
  <2>1. CASE LoopTop \/ Push \/ CloseEvents \/ CloseDone
    BY <2>1 DEF LoopTop, Push, CloseEvents, CloseDone, reading, Move, At, Call, Goto, connVars
  <2>2. CASE Decode
    BY <2>2 DEF Decode, Take, Move, At, connVars
  <2>3. CASE RecvFailed \/ ReaderReconnected
    BY <2>3 DEF RecvFailed, ReaderReconnected, Take, Move, At, Call, Goto, connVars
  <2>4. QED
    BY <1>1, <2>1, <2>2, <2>3 DEF ReadLoop
<1>2. ASSUME NEW kind \in Kinds, Recv(kind)
      PROVE  received' = received /\ ~Reading' /\ Reading /\ hand'.from = held[Reader]
  BY <1>2 DEF Recv, ReadFrame, Return, Goto
<1>3. CASE Events
  BY <1>3 DEF Events, Yield, EventsEnd, reading, connVars
<1>4. ASSUME NEW p \in Procs, Below(p), ~ \E kind \in Kinds : Recv(kind)
      PROVE  /\ UNCHANGED <<at, hand, received>>
             /\ Reading' => \/ Reading /\ held'[Reader] = held[Reader]
                            \/ conn # NoConn /\ held'[Reader] = conn
  <2>1. UNCHANGED <<at, hand, received>>
    BY <1>4 DEF Below, Inside, Install, SendFrame, sessionOnly, reading
  <2>2. Step(p)
    BY <1>4, BelowIsStep
  <2>3. QED
    BY <2>1, <2>2, ReadingOn
<1>5. ASSUME NEW s \in Senders, Send(s) \/ SendEvent(s)
      PROVE  /\ UNCHANGED <<hand, received>> /\ at'[Reader] = at[Reader]
             /\ pc'[Reader] = pc[Reader] /\ held' = held
  BY <1>5, SessionAssumption
  DEF Send, SendEvent, SendReturned, SenderReconnected, RetryReturned, Finished, Move, Call, Goto,
      connVars, reading
<1>6. ASSUME NEW c \in Closers, Close(c) \/ CloseReturns(c) \/ CloseAgain(c) \/ OnceReleases(c)
      PROVE  /\ UNCHANGED <<hand, received>> /\ at'[Reader] = at[Reader]
             /\ pc'[Reader] = pc[Reader] /\ held' = held
  BY <1>6, SessionAssumption
  DEF Close, CloseReturns, CloseAgain, OnceReleases, Move, Call, Goto, connVars, reading
<1>7. ASSUME NEW k \in Conns, PeerFinishes(k) \/ NetworkDrops(k)
      PROVE  UNCHANGED <<hand, received, at, pc, held>>
  BY <1>7 DEF PeerFinishes, NetworkDrops, Finish, Drop, sessionOnly, reading
<1>8. CASE Terminated \/ UNCHANGED sessionVars
  BY <1>8 DEF Terminated, sessionVars, sessionOnly, reading, connVars
<1>9. QED
  BY <1>1, <1>2, <1>3, <1>4, <1>5, <1>6, <1>7, <1>8 DEF SessionNext

LEMMA OrderInvStep ==
  TypeOK /\ Ownership /\ FrameHasConn /\ ReaderInv /\ SideTypes /\ OrderInv
    /\ [SessionNext]_sessionVars => OrderInv'
<1> SUFFICES ASSUME TypeOK, Ownership, FrameHasConn, ReaderInv, SideTypes, OrderInv,
                    [SessionNext]_sessionVars
             PROVE  OrderInv'
  OBVIOUS
<1>1. /\ CurrentIsLast'
      /\ \A k, j \in Conns : Precedes(k, j) => Precedes(k, j)'
  BY InstallsGrow DEF OrderInv
<1>2. /\ received \in Seq(Items)
      /\ \A i \in DOMAIN received : received[i] # ErrorItem => received[i].from \in Conns
  BY DEF ReaderInv, ReaderTypes, Items, EventItems
<1>3. conn # NoConn => conn \in Conns /\ FollowsAll(conn)
  <2> SUFFICES ASSUME conn # NoConn PROVE conn \in Conns /\ FollowsAll(conn)
    OBVIOUS
  <2>1. Len(installs) \in DOMAIN installs /\ installs[Len(installs)].conn = conn
    BY DEF SideTypes, OrderInv, CurrentIsLast
  <2>2. \A n \in DOMAIN installs : n <= Len(installs)
    BY DEF SideTypes
  <2>3. QED
    BY <2>1, <2>2 DEF FollowsAll, Precedes, OrderInv, TypeOK
<1>4. CASE /\ received' = received
           /\ Reading' => \/ Reading /\ held'[Reader] = held[Reader]
                          \/ conn # NoConn /\ held'[Reader] = conn
           /\ at'[Reader] = "decode" => \/ at[Reader] = "decode" /\ hand' = hand
                                        \/ Reading /\ hand'.from = held[Reader]
  <2>1. \A k \in Conns : FollowsAll(k) => FollowsAll(k)'
    BY <1>1, <1>2, <1>4 DEF FollowsAll
  <2>2. Reading => held[Reader] \in Conns
    BY SessionAssumption DEF FrameHasConn, Reading
  <2>3. at[Reader] = "decode" => hand.from \in Conns
    BY DEF ReaderInv, HandOK
  <2>4. (\A i \in DOMAIN received : received[i] # ErrorItem => Precedes(received[i].from, received[i].from))'
    BY <1>1, <1>2, <1>4 DEF OrderInv
  <2>5. InConnectionOrder'
    BY <1>1, <1>2, <1>4 DEF OrderInv, InConnectionOrder
  <2>6. (Reading => FollowsAll(held[Reader]))'
    BY <1>3, <1>4, <2>1, <2>2 DEF OrderInv
  <2>7. (at[Reader] = "decode" => FollowsAll(hand.from))'
    BY <1>4, <2>1, <2>2, <2>3 DEF OrderInv
  <2>8. QED
    BY <1>1, <2>4, <2>5, <2>6, <2>7 DEF OrderInv
<1>5. CASE /\ \/ received' = Append(received, ErrorItem)
              \/ at[Reader] = "decode" /\ received' = Append(received, hand)
           /\ ~Reading' /\ at'[Reader] = "push"
  <2>1. PICK item : /\ received' = Append(received, item)
                    /\ item # ErrorItem => item.from \in Conns /\ FollowsAll(item.from)
    BY <1>5 DEF ReaderInv, HandOK, OrderInv
  <2>2. /\ DOMAIN received' = DOMAIN received \cup {Len(received) + 1}
        /\ received'[Len(received) + 1] = item
        /\ \A i \in DOMAIN received : received'[i] = received[i] /\ i < Len(received) + 1
    BY <1>2, <2>1
  <2>3. (\A i \in DOMAIN received : received[i] # ErrorItem => Precedes(received[i].from, received[i].from))'
    BY <1>1, <1>2, <2>1, <2>2 DEF OrderInv, FollowsAll
  <2>4. InConnectionOrder'
    BY <1>1, <1>2, <2>1, <2>2 DEF OrderInv, FollowsAll, InConnectionOrder
  <2>5. QED
    BY <1>1, <1>5, <2>3, <2>4 DEF OrderInv
<1>6. QED
  BY <1>4, <1>5, ReaderView

(* However senders and readLoop replace the connection, the events come in the
   order of the connections they came over. *)
THEOREM EventsInOrder == SessionSpec => []InConnectionOrder
<1>1. OrderInv => InConnectionOrder
  BY DEF OrderInv
<1>2. QED
  BY <1>1, SessionBasis, OrderInvInit, OrderInvStep, PTL DEF SessionSpec

-----------------------------------------------------------------------------
(* 3. The causes of redials *)

(* Everything proved of the session before *)
Basis ==
  /\ TypeOK /\ Ownership /\ FrameHasConn /\ ReaderInv /\ SideTypes
  /\ CloseInv /\ SendersInv /\ OrderInv

LEMMA BasisHolds == SessionSpec => []Basis
<1>1. SessionSpec => []CloseInv
  BY SessionBasis, CloseInvInit, CloseInvStep, PTL DEF SessionSpec
<1>2. SessionSpec => []SendersInv
  BY SessionBasis, SendersInvInit, SendersInvStep, PTL DEF SessionSpec
<1>3. SessionSpec => []OrderInv
  BY SessionBasis, OrderInvInit, OrderInvStep, PTL DEF SessionSpec
<1>4. QED
  BY <1>1, <1>2, <1>3, SessionBasis, PTL DEF Basis

Installed == {installs[n].conn : n \in DOMAIN installs}

(* The connections a sender has replaced *)
TakenBySender == {installs[n - 1].conn : n \in InstalledBy(Senders) \ {1}}

(* readLoop has met an error it does not recover from. *)
Over ==
  \/ at[Reader] \in Leaving
  \/ at[Reader] = "push" /\ hand = ErrorItem
  \/ at[Reader] = "recv" /\ pc[Reader] = "idle" /\ ~IsRetryable(ret[Reader])

(* Where readLoop is in the wrapper; nobody else reads. *)
ReaderAt ==
  /\ at[Reader] = "recv" => pc[Reader] \in {"idle", "read", "readLock", "readFrame"}
  /\ at[Reader] = "reconnect" =>
       pc[Reader] \in {"idle", "reconnect", "dial", "swap", "closeNext", "closePrev"}
  /\ \A p \in Procs \ {Reader} : pc[p] \notin {"read", "readLock", "readFrame"}

(* closeCh is closed before the wrapper is. *)
ClosingFirst == (closed => closeCh) /\ \A p \in Procs : pc[p] = "close" => closeCh

(* An installed connection has been in use and is not installed again. *)
InstalledUsed ==
  \A k \in Installed : wire[k] # "unused" /\ \A p \in Procs : pc[p] = "swap" => held[p] # k

(* A connection that was lost, or torn down while readLoop goes on, broke. *)
BrokenKnown ==
  /\ IsFiniteSet(broken)
  /\ \A k \in Conns : wire[k] = "lost" => k \in broken
  /\ \A k \in Conns : wire[k] = "down" => k \in broken \/ Over

(* The connection that readLoop reads is the current one unless Close or a
   sender took it away. *)
ReadInstalled ==
  Reading => /\ held[Reader] \in Installed
             /\ held[Reader] = conn \/ closed \/ held[Reader] \in TakenBySender

(* readLoop has met a failure it answers with a redial, and has not yet
   installed the new connection. *)
Pending ==
  \/ at[Reader] = "reconnect" /\ pc[Reader] \in {"reconnect", "dial", "swap"}
  \/ at[Reader] = "recv" /\ pc[Reader] = "idle" /\ IsRetryable(ret[Reader]) /\ ~closeCh

Redials == Cardinality(InstalledBy({Reader}))

(* The connections that have failed readLoop, or might have *)
Causes == Installed \cap (broken \cup TakenBySender)

(* Some of them pay for the redials made and the one under way; the
   connection in use and the one readLoop reads are not spent. *)
Paid ==
  \E U \in SUBSET Causes :
    /\ IsFiniteSet(U)
    /\ IF Pending THEN Cardinality(U) >= Redials + 1
       ELSE Cardinality(U) >= Redials /\ conn \notin U /\ (Reading => held[Reader] \notin U)

CauseInv == ReaderAt /\ ClosingFirst /\ InstalledUsed /\ BrokenKnown /\ ReadInstalled /\ Paid

LEMMA InstalledByFinite ==
  ASSUME SideTypes, NEW S
  PROVE  /\ IsFiniteSet(InstalledBy(S)) /\ Cardinality(InstalledBy(S)) \in Nat
<1>1. Len(installs) \in Nat /\ IsFiniteSet(1 .. Len(installs))
  BY FS_Interval DEF SideTypes
<1>2. InstalledBy(S) \in SUBSET (1 .. Len(installs))
  BY DEF InstalledBy
<1>3. QED
  BY <1>1, <1>2, FS_Subset, FS_CardinalityType

LEMMA CauseInvInit == SessionInit => CauseInv
<1> SUFFICES ASSUME SessionInit PROVE CauseInv
  OBVIOUS
<1> USE SessionAssumption, ConnAssumption
<1>1. /\ installs = <<[conn |-> conn, by |-> NoProc]>> /\ Len(installs) = 1 /\ DOMAIN installs = {1}
      /\ installs[1].conn = conn /\ installs[1].by = NoProc
      /\ at[Reader] = "loop" /\ conn \in Conns /\ wire[conn] = "open"
      /\ \A p \in Procs : pc[p] = "idle"
      /\ \A k \in Conns : wire[k] \in {"open", "unused"}
      /\ broken = {} /\ closed = FALSE
  BY DEF SessionInit, ConnInit
<1>2. InstalledBy({Reader}) = {}
  BY <1>1 DEF InstalledBy
<1>3. Paid
  <2>1. {} \in SUBSET Causes /\ IsFiniteSet({}) /\ Cardinality({}) = 0 /\ Redials = 0
    BY <1>2, FS_EmptySet DEF Redials
  <2>2. ~Pending /\ ~Reading
    BY <1>1 DEF Pending, Reading
  <2>3. QED
    BY <2>1, <2>2 DEF Paid
<1>4. BrokenKnown
  BY <1>1, FS_EmptySet DEF BrokenKnown
<1>5. ReaderAt /\ ClosingFirst /\ InstalledUsed /\ ReadInstalled
  BY <1>1 DEF ReaderAt, ClosingFirst, InstalledUsed, ReadInstalled, Reading, Installed
<1>6. QED
  BY <1>3, <1>4, <1>5 DEF CauseInv

-----------------------------------------------------------------------------
(* One lemma for every part of the invariant *)

LEMMA ReaderAtStep == ASSUME Basis, ReaderAt, [SessionNext]_sessionVars PROVE ReaderAt'
<1> USE SessionAssumption, ConnAssumption DEF ReaderAt
<1>0. /\ at \in [Procs -> AtLabels] /\ pc \in [Procs -> Labels] /\ TypeOK /\ Ownership
      /\ at[Reader] \in Working \cup {"push"} \cup Leaving /\ Reader \in Procs
  BY DEF Basis, ReaderInv, ReaderTypes, TypeOK
<1>1. CASE ReadLoop
  BY <1>0, <1>1 DEF ReadLoop, LoopTop, Decode, RecvFailed, ReaderReconnected, Push, CloseEvents,
                    CloseDone, connVars, Call, Goto, Take, Move, At
<1>2. ASSUME NEW s \in Senders, Send(s) \/ SendEvent(s) PROVE ReaderAt'
  BY <1>0, <1>2 DEF Send, SendEvent, SendReturned, SenderReconnected, RetryReturned, Finished,
                    connVars, Call, Goto, Move
<1>3. ASSUME NEW c \in Closers, Close(c) \/ CloseReturns(c) \/ CloseAgain(c) \/ OnceReleases(c) PROVE ReaderAt'
  BY <1>0, <1>3 DEF Close, CloseReturns, CloseAgain, OnceReleases, connVars, Call, Goto, Move
<1>4. ASSUME NEW p \in Procs, Below(p) PROVE ReaderAt'
  <2>1. /\ Step(p)
        /\ at' = at \/ /\ p = Reader /\ at' = [at EXCEPT ![Reader] = "decode"]
                       /\ pc'[Reader] = "idle"
    BY <1>0, <1>4, BelowIsStep
  <2>2. \A q \in Procs \ {p} : pc'[q] = pc[q]
    BY <1>0, <2>1, StepIsLocal
  <2>3. CASE p # Reader
    <3>1. pc'[p] \notin {"read", "readLock", "readFrame"}
      BY <1>0, <2>1, <2>3
      DEF TypeOK, Step, WriteFetch, ReadFetch, Fetch, WriteLock, ReadLock, WriteFrame, ReadFrame,
          ReconnectStart, DialOk, DialFail, Swap, CloseNext, ClosePrev, CloseStart, CloseWire,
          ShutHeld, Return, Goto, Hold
    <3>2. QED
      BY <1>0, <2>1, <2>2, <2>3, <3>1
  <2>4. CASE p = Reader
    <3>1. /\ pc[p] \in {"read", "readLock", "readFrame"}
               => pc'[p] \in {"idle", "read", "readLock", "readFrame"}
          /\ pc[p] \in {"reconnect", "dial", "swap", "closeNext", "closePrev"}
               => pc'[p] \in {"idle", "reconnect", "dial", "swap", "closeNext", "closePrev"}
          /\ pc[p] # "idle"
      BY <1>0, <2>1, <2>4
      DEF TypeOK, Step, WriteFetch, ReadFetch, Fetch, WriteLock, ReadLock, WriteFrame, ReadFrame,
          ReconnectStart, DialOk, DialFail, Swap, CloseNext, ClosePrev, CloseStart, CloseWire,
          ShutHeld, Return, Goto, Hold
    <3>2. QED
      BY <1>0, <2>1, <2>2, <2>4, <3>1
  <2>5. QED
    BY <2>3, <2>4
<1>5. ASSUME NEW k \in Conns, PeerFinishes(k) \/ NetworkDrops(k) PROVE ReaderAt'
  BY <1>5 DEF PeerFinishes, NetworkDrops, sessionOnly, Finish, Drop
<1>6. CASE Events \/ Terminated \/ UNCHANGED sessionVars
  BY <1>6 DEF Events, Yield, EventsEnd, Terminated, sessionVars, sessionOnly, connVars
<1>7. QED
  BY <1>1, <1>2, <1>3, <1>4, <1>5, <1>6 DEF SessionNext

LEMMA ClosingFirstStep == ASSUME Basis, ClosingFirst, [SessionNext]_sessionVars PROVE ClosingFirst'
<1> USE SessionAssumption, ConnAssumption DEF ClosingFirst
<1>0. pc \in [Procs -> Labels] /\ TypeOK /\ Ownership /\ at \in [Procs -> AtLabels]
  BY DEF Basis, ReaderInv, ReaderTypes, TypeOK
<1>1. CASE ReadLoop
  BY <1>0, <1>1 DEF ReadLoop, LoopTop, Decode, RecvFailed, ReaderReconnected, Push, CloseEvents,
                    CloseDone, closing, connVars, Call, Goto
<1>2. ASSUME NEW s \in Senders, Send(s) \/ SendEvent(s) PROVE ClosingFirst'
  BY <1>0, <1>2 DEF Send, SendEvent, SendReturned, SenderReconnected, RetryReturned,
                    closing, connVars, Call, Goto
<1>3. ASSUME NEW c \in Closers, Close(c) \/ CloseReturns(c) \/ CloseAgain(c) \/ OnceReleases(c) PROVE ClosingFirst'
  BY <1>0, <1>3 DEF Close, CloseReturns, CloseAgain, OnceReleases, closing, connVars, Call, Goto
<1>4. ASSUME NEW p \in Procs, Below(p) PROVE ClosingFirst'
  <2>1. Step(p) /\ closeCh' = closeCh
    BY <1>0, <1>4, BelowIsStep DEF closing
  <2>2. /\ \A q \in Procs : pc'[q] = "close" => pc[q] = "close"
        /\ closed' => closed \/ pc[p] = "close"
    BY <1>0, <2>1
    DEF TypeOK, Step, WriteFetch, ReadFetch, Fetch, WriteLock, ReadLock, WriteFrame, ReadFrame,
        ReconnectStart, DialOk, DialFail, Swap, CloseNext, ClosePrev, CloseStart, CloseWire,
        ShutHeld, Return, Goto, Hold
  <2>3. QED
    BY <2>1, <2>2
<1>5. ASSUME NEW k \in Conns, PeerFinishes(k) \/ NetworkDrops(k) PROVE ClosingFirst'
  BY <1>5 DEF PeerFinishes, NetworkDrops, sessionOnly, closing, Finish, Drop
<1>6. CASE Events \/ Terminated \/ UNCHANGED sessionVars
  BY <1>6 DEF Events, Yield, EventsEnd, Terminated, sessionVars, sessionOnly, closing, connVars
<1>7. QED
  BY <1>1, <1>2, <1>3, <1>4, <1>5, <1>6 DEF SessionNext

LEMMA InstalledConns == ASSUME SideTypes PROVE Installed \subseteq Conns
<1> DEFINE Pair == [conn : Conns, by : Procs \cup {NoProc}]
<1>1. installs \in Seq(Pair)
  BY DEF SideTypes
<1>2. \A i \in Pair : i.conn \in Conns
  OBVIOUS
<1> HIDE DEF Pair
<1>3. \A n \in DOMAIN installs : installs[n] \in Pair
  BY <1>1
<1>4. QED
  BY <1>2, <1>3 DEF Installed

LEMMA InstalledUsedStep == ASSUME Basis, InstalledUsed, [SessionNext]_sessionVars PROVE InstalledUsed'
<1>0. TypeOK /\ Ownership /\ SideTypes
  BY DEF Basis
<1>1. Installed \subseteq Conns
  BY <1>0, InstalledConns
<1>2. ASSUME NEW k \in Installed
      PROVE  wire'[k] # "unused" /\ \A p \in Procs : pc'[p] = "swap" => held'[p] # k
  <2>1. k \in Conns /\ wire[k] # "unused" /\ \A p \in Procs : pc[p] = "swap" => held[p] # k
    BY <1>1, <1>2 DEF InstalledUsed
  <2>2. CASE Environment \/ \E p \in Procs : Step(p)
    <3>1. PICK p \in Procs : Step(p) \/ Environment
      BY <2>2, SessionAssumption
    <3>2. QED
      BY <1>0, <2>1, <3>1, UsedStaysOut
  <2>3. CASE \E p \in Procs, op \in Ops : Call(p, op)
    BY <1>0, <2>1, <2>3 DEF Call, Goto, Ops, TypeOK
  <2>4. CASE UNCHANGED connVars
    BY <2>1, <2>4 DEF connVars
  <2>5. QED
    BY <2>2, <2>3, <2>4, SessionStepsWrapper DEF ConnNext
<1>3. CASE installs' = installs
  BY <1>2, <1>3 DEF InstalledUsed, Installed
<1>4. ASSUME NEW p \in Procs, Install(p), ~closed, held[p] \in Conns,
             installs' = Append(installs, [conn |-> held[p], by |-> p])
      PROVE  InstalledUsed'
  <2>1. Installed' = Installed \cup {held[p]}
    <3>1. [conn |-> held[p], by |-> p] \in [conn : Conns, by : Procs \cup {NoProc}]
      BY <1>4
    <3>2. /\ DOMAIN installs' = DOMAIN installs \cup {Len(installs) + 1}
          /\ installs'[Len(installs) + 1].conn = held[p]
          /\ \A n \in DOMAIN installs : installs'[n] = installs[n]
      BY <1>0, <1>4, <3>1 DEF SideTypes
    <3>3. QED
      BY <3>2 DEF Installed
  <2>2. /\ wire'[held[p]] # "unused"
        /\ \A q \in Procs : pc'[q] = "swap" => held'[q] # held[p]
    <3>1. pc[p] = "swap" /\ pc' = [pc EXCEPT ![p] = "closePrev"] /\ wire' = wire
          /\ \A q \in Procs \ {p} : held'[q] = held[q]
      BY <1>0, <1>4 DEF Install, Swap, Goto, Hold, TypeOK
    <3>2. wire[held[p]] # "unused"
      BY <1>0, <1>4 DEF Ownership, HeldIsUsed
    <3>3. \A q \in Procs \ {p} : held[q] # held[p]
      BY <1>0, <3>1 DEF Ownership, PrivateUntilInstalled
    <3>4. QED
      BY <1>0, <3>1, <3>2, <3>3 DEF TypeOK
  <2>3. QED
    BY <1>2, <2>1, <2>2 DEF InstalledUsed
<1>5. QED
  BY <1>0, <1>3, <1>4, OnlySwapInstalls

LEMMA OverStays == ASSUME Basis, ReaderAt, Over, [SessionNext]_sessionVars PROVE Over'
<1> USE SessionAssumption, ConnAssumption DEF Over, Leaving
<1>0. /\ at \in [Procs -> AtLabels] /\ pc \in [Procs -> Labels] /\ TypeOK /\ Ownership
      /\ ret \in [Procs -> Errors] /\ Reader \in Procs /\ pc[Reader] = "idle"
  BY DEF Basis, ReaderInv, ReaderTypes, TypeOK, CloseInv, ReaderOutside
<1>1. CASE ReadLoop
  BY <1>0, <1>1 DEF ReadLoop, LoopTop, Decode, RecvFailed, ReaderReconnected, Push, CloseEvents,
                    CloseDone, reading, connVars, Call, Goto, Take, Move, At
<1>2. ASSUME NEW s \in Senders, Send(s) \/ SendEvent(s)
      PROVE  /\ hand' = hand /\ at'[Reader] = at[Reader] /\ pc'[Reader] = pc[Reader]
             /\ ret'[Reader] = ret[Reader]
  BY <1>0, <1>2 DEF Send, SendEvent, SendReturned, SenderReconnected, RetryReturned, Finished,
                    reading, connVars, Call, Goto, Move
<1>3. ASSUME NEW c \in Closers, Close(c) \/ CloseReturns(c) \/ CloseAgain(c) \/ OnceReleases(c)
      PROVE  /\ hand' = hand /\ at'[Reader] = at[Reader] /\ pc'[Reader] = pc[Reader]
             /\ ret'[Reader] = ret[Reader]
  BY <1>0, <1>3 DEF Close, CloseReturns, CloseAgain, OnceReleases, reading, connVars, Call, Goto, Move
<1>4. ASSUME NEW p \in Procs, Below(p)
      PROVE  /\ hand' = hand /\ at'[Reader] = at[Reader] /\ pc'[Reader] = pc[Reader]
             /\ ret'[Reader] = ret[Reader]
  <2>1. Step(p) /\ p # Reader
    BY <1>0, <1>4, BelowIsStep, StepIsLocal
  <2>2. /\ at' = at /\ hand' = hand
    BY <1>4, <2>1 DEF Below, Inside, Install, SendFrame, sessionOnly, reading
  <2>3. QED
    BY <1>0, <2>1, <2>2, StepIsLocal
<1>5. ASSUME NEW k \in Conns, PeerFinishes(k) \/ NetworkDrops(k) PROVE UNCHANGED <<hand, at, pc, ret>>
  BY <1>5 DEF PeerFinishes, NetworkDrops, sessionOnly, reading, Finish, Drop
<1>6. CASE Events \/ Terminated \/ UNCHANGED sessionVars
  BY <1>6 DEF Events, Yield, EventsEnd, Terminated, sessionVars, sessionOnly, reading, connVars
<1>7. QED
  BY <1>1, <1>2, <1>3, <1>4, <1>5, <1>6 DEF SessionNext

LEMMA BrokenKnownStep ==
  ASSUME Basis, ReaderAt, BrokenKnown, [SessionNext]_sessionVars
  PROVE  BrokenKnown' /\ broken \subseteq broken'
<1> USE SessionAssumption, ConnAssumption
<1>0. /\ at \in [Procs -> AtLabels] /\ pc \in [Procs -> Labels] /\ TypeOK /\ Ownership
      /\ wire \in [Conns -> Status] /\ Reader \in Procs
      /\ IsFiniteSet(broken) /\ (Over => Over')
      /\ at[Reader] \in Working \cup {"push"} \cup Leaving
      /\ ReaderOutside
  BY OverStays DEF Basis, ReaderInv, ReaderTypes, TypeOK, CloseInv, BrokenKnown
<1>1. SUFFICES /\ broken' = broken \/ \E k : broken' = broken \cup {k}
               /\ \A k \in Conns : wire'[k] = "lost" => wire[k] = "lost" \/ k \in broken'
               /\ \A k \in Conns : wire'[k] = "down" => wire[k] = "down" \/ k \in broken' \/ Over'
  <2>1. broken \subseteq broken' /\ IsFiniteSet(broken')
    BY <1>0, <1>1, FS_AddElement
  <2>2. QED
    BY <1>0, <1>1, <2>1 DEF BrokenKnown
<1>2. CASE ReadLoop
  BY <1>2 DEF ReadLoop, LoopTop, Decode, RecvFailed, ReaderReconnected, Push, CloseEvents,
              CloseDone, links, connVars, Call
<1>3. ASSUME NEW s \in Senders, Send(s) \/ SendEvent(s) PROVE UNCHANGED <<broken, wire>>
  BY <1>3 DEF Send, SendEvent, SendReturned, SenderReconnected, RetryReturned, links, connVars, Call
<1>4. ASSUME NEW c \in Closers, Close(c) \/ CloseReturns(c) \/ CloseAgain(c) \/ OnceReleases(c)
      PROVE  UNCHANGED <<broken, wire>>
  BY <1>4 DEF Close, CloseReturns, CloseAgain, OnceReleases, links, connVars, Call
<1>5. ASSUME NEW k \in Conns, PeerFinishes(k) \/ NetworkDrops(k)
      PROVE  /\ broken' = broken \/ \E j : broken' = broken \cup {j}
             /\ \A j \in Conns : wire'[j] = "lost" => wire[j] = "lost" \/ j \in broken'
             /\ \A j \in Conns : wire'[j] = "down" => wire[j] = "down"
  <2>1. \/ broken' = broken /\ wire' = [wire EXCEPT ![k] = "finished"]
        \/ broken' = broken \cup {k} /\ wire' = [wire EXCEPT ![k] = "lost"]
    BY <1>5 DEF PeerFinishes, NetworkDrops, sessionOnly, links, Finish, Drop
  <2>2. QED
    BY <1>0, <2>1
<1>6. CASE Events \/ Terminated \/ UNCHANGED sessionVars
  BY <1>6 DEF Events, Yield, EventsEnd, Terminated, sessionVars, sessionOnly, links, connVars
<1>7. ASSUME NEW p \in Procs, Inside(p)
      PROVE  /\ broken' = broken
             /\ \A j \in Conns : wire'[j] = "lost" => wire[j] = "lost"
             /\ \A j \in Conns : wire'[j] = "down" => wire[j] = "down" \/ j \in broken \/ Over'
  <2>1. broken' = broken /\ at' = at
    BY <1>7 DEF Inside, sessionOnly, links
  <2>2. ASSUME NEW e \in Errors \ {"nil"}, ReadFrame(p, e)
        PROVE  /\ \A j \in Conns : wire'[j] = "lost" => wire[j] = "lost"
               /\ \A j \in Conns : wire'[j] = "down" => wire[j] = "down" \/ j \in broken \/ Over'
    <3>1. p = Reader /\ at[Reader] = "recv" /\ pc[Reader] = "readFrame"
      BY <1>0, <2>2 DEF ReaderAt, ReadFrame, ReaderOutside, Working, Leaving
    <3>2. /\ wire' = wire \/ wire' = [wire EXCEPT ![held[Reader]] = "down"]
          /\ pc'[Reader] = "idle" /\ ret'[Reader] = e
      BY <1>0, <2>2, <3>1 DEF ReadFrame, Return, Goto, TypeOK
    <3>3. CASE ~IsRetryable(e)
      BY <1>0, <2>1, <3>1, <3>2, <3>3 DEF Over
    <3>4. CASE IsRetryable(e)
      <4>1. /\ e = "broken" /\ ~Over /\ held[Reader] \in Conns
            /\ wire[held[Reader]] \in {"lost", "shut", "down"}
        BY <1>0, <2>2, <3>1, <3>4
        DEF IsRetryable, ReadFrame, ReadOutcomes, Over, Leaving, Basis, FrameHasConn, Ownership,
            HeldIsUsed, Status
      <4>2. held[Reader] \in broken \/ wire' = wire
        BY <2>2, <3>1, <4>1 DEF BrokenKnown, ReadFrame
      <4>3. QED
        BY <1>0, <3>2, <4>1, <4>2
    <3>5. QED
      BY <3>3, <3>4
  <2>3. CASE \/ WriteFetch(p) \/ WriteLock(p) \/ ReadFetch(p) \/ ReadLock(p)
             \/ ReconnectStart(p) \/ (\E e \in Errors : DialFail(p, e)) \/ CloseStart(p)
    BY <2>1, <2>3 DEF WriteFetch, WriteLock, ReadFetch, Fetch, ReadLock, ReconnectStart, DialFail, CloseStart
  <2>4. CASE \E k \in Conns : DialOk(p, k)
    BY <1>0, <2>1, <2>4 DEF DialOk
  <2>5. CASE CloseNext(p) \/ ClosePrev(p) \/ \E e \in Errors : CloseWire(p, e)
    BY <1>0, <2>1, <2>5 DEF CloseNext, ClosePrev, CloseWire, ShutHeld
  <2>6. QED
    BY <1>7, <2>1, <2>2, <2>3, <2>4, <2>5 DEF Inside
<1>8. ASSUME NEW p \in Procs, Install(p) PROVE UNCHANGED <<broken, wire>>
  BY <1>8 DEF Install, Swap
<1>9. ASSUME NEW s \in Senders, NEW e \in Errors, SendFrame(s, e)
      PROVE  /\ broken' = broken \/ \E k : broken' = broken \cup {k}
             /\ \A j \in Conns : wire'[j] = "lost" => wire[j] = "lost"
             /\ \A j \in Conns : wire'[j] = "down" => wire[j] = "down" \/ j \in broken'
  BY <1>0, <1>9 DEF SendFrame, WriteFrame
<1>10. ASSUME NEW kind \in Kinds, Recv(kind) PROVE UNCHANGED <<broken, wire>>
  BY <1>10 DEF Recv, ReadFrame, links
<1>11. QED
  BY <1>2, <1>3, <1>4, <1>5, <1>6, <1>7, <1>8, <1>9, <1>10 DEF SessionNext, Below

(* What a step does to the list of installed connections *)
LEMMA InstallsView ==
  ASSUME Basis, [SessionNext]_sessionVars
  PROVE  /\ Installed \subseteq Installed' /\ TakenBySender \subseteq TakenBySender'
         /\ \/ /\ conn' \in {conn, NoConn}
               /\ InstalledBy({Reader})' = InstalledBy({Reader})
            \/ \E s \in Senders :
                 /\ Install(s) /\ pc[s] = "swap" /\ conn' = held[s]
                 /\ conn \in TakenBySender'
                 /\ InstalledBy({Reader})' = InstalledBy({Reader})
            \/ /\ Install(Reader) /\ pc[Reader] = "swap" /\ conn' = held[Reader]
               /\ Len(installs) + 1 \notin InstalledBy({Reader})
               /\ InstalledBy({Reader})' = InstalledBy({Reader}) \cup {Len(installs) + 1}
<1> USE SessionAssumption, ConnAssumption
<1>0. TypeOK /\ Ownership /\ SideTypes /\ CurrentIsLast /\ Len(installs) \in Nat /\ Len(installs) > 0
  BY DEF Basis, OrderInv, SideTypes
<1>1. DOMAIN installs = 1 .. Len(installs)
  BY DEF Basis, SideTypes
<1>2. CASE installs' = installs /\ conn' \in {conn, NoConn}
  BY <1>2 DEF Installed, TakenBySender, InstalledBy
<1>3. ASSUME NEW p \in Procs, Install(p), ~closed, conn' = held[p],
             Len(installs') = Len(installs) + 1,
             installs'[Len(installs')] = [conn |-> held[p], by |-> p],
             \A n \in DOMAIN installs : n \in DOMAIN installs' /\ installs'[n] = installs[n]
      PROVE  /\ Installed \subseteq Installed' /\ TakenBySender \subseteq TakenBySender'
             /\ p \in Senders => /\ conn \in TakenBySender'
                                 /\ InstalledBy({Reader})' = InstalledBy({Reader})
             /\ p = Reader =>
                  /\ Len(installs) + 1 \notin InstalledBy({Reader})
                  /\ InstalledBy({Reader})' = InstalledBy({Reader}) \cup {Len(installs) + 1}
             /\ p \notin Closers
             /\ pc[p] = "swap"
  <2> DEFINE n1 == Len(installs) + 1
  <2>1. n1 \in Nat /\ Len(installs') = n1 /\ installs'[n1].by = p /\ n1 > 1
        /\ 1 .. n1 = (1 .. Len(installs)) \cup {n1} /\ n1 \notin 1 .. Len(installs)
    BY <1>0, <1>3
  <2>2. \A n \in 1 .. Len(installs) : installs'[n] = installs[n]
    BY <1>1, <1>3
  <2>3. \A S : InstalledBy(S)' = InstalledBy(S) \cup (IF p \in S THEN {n1} ELSE {})
    BY <2>1, <2>2 DEF InstalledBy
  <2>4. Installed \subseteq Installed'
    BY <1>1, <1>3, <2>2 DEF Installed
  <2>5. ASSUME NEW k \in TakenBySender PROVE k \in TakenBySender'
    <3>1. PICK n \in InstalledBy(Senders) \ {1} : k = installs[n - 1].conn
      BY DEF TakenBySender
    <3>2. n - 1 \in 1 .. Len(installs) /\ n \in InstalledBy(Senders)'
      BY <1>0, <2>3, <3>1 DEF InstalledBy
    <3>3. k = installs'[n - 1].conn
      BY <2>2, <3>1, <3>2
    <3>4. QED
      BY <3>1, <3>2, <3>3 DEF TakenBySender
  <2>6. pc[p] = "swap" /\ p \notin Closers
    BY <1>3 DEF Install, Swap, Basis, CloseInv, CloserInv
  <2>7. ASSUME p \in Senders PROVE conn \in TakenBySender'
    <3>1. conn = installs[Len(installs)].conn
      BY <1>0, <1>3 DEF CurrentIsLast, Ownership, CurrentUsable
    <3>2. n1 - 1 = Len(installs) /\ n1 \in InstalledBy(Senders)' \ {1}
      BY <1>0, <2>1, <2>3, <2>7
    <3>3. installs'[n1 - 1] = installs[Len(installs)]
      BY <1>0, <2>2, <3>2
    <3>4. QED
      BY <3>1, <3>2, <3>3 DEF TakenBySender
  <2>8. n1 \notin InstalledBy({Reader})
    BY <2>1 DEF InstalledBy
  <2>9. QED
    BY <2>3, <2>4, <2>5, <2>6, <2>7, <2>8
<1>4. QED
  <2>1. CASE ~(installs' = installs /\ conn' \in {conn, NoConn})
    <3>1. PICK p \in Procs :
            /\ Install(p) /\ ~closed /\ conn' = held[p]
            /\ Len(installs') = Len(installs) + 1
            /\ installs'[Len(installs')] = [conn |-> held[p], by |-> p]
            /\ \A n \in DOMAIN installs : n \in DOMAIN installs' /\ installs'[n] = installs[n]
      BY <1>0, <2>1, OnlySwapInstalls, Zenon
    <3>2. p \in Senders \/ p = Reader \/ p \in Closers
      OBVIOUS
    <3>3. QED
      BY <1>3, <3>1, <3>2
  <2>2. QED
    BY <1>2, <2>1

LEMMA ReadInstalledStep ==
  ASSUME Basis, ReadInstalled, [SessionNext]_sessionVars
  PROVE  ReadInstalled'
<1> USE SessionAssumption, ConnAssumption
<1>0. TypeOK /\ Ownership /\ ReaderInv /\ SideTypes /\ OrderInv /\ Reader \in Procs
  BY DEF Basis
<1>1. Ownership'
  BY <1>0, OwnershipStep, SessionStepsWrapper
<1>2. closed <=> conn = NoConn
  BY <1>0 DEF Ownership, CurrentUsable
<1>3. closed' <=> conn' = NoConn
  BY <1>1 DEF Ownership, CurrentUsable
<1>4. conn # NoConn => conn \in Installed
  BY <1>0 DEF OrderInv, CurrentIsLast, Installed, SideTypes
<1>5. SUFFICES ASSUME Reading' PROVE ReadInstalled'
  BY DEF ReadInstalled
<1>6. /\ held'[Reader] \in Installed
      /\ held'[Reader] = conn \/ closed \/ held'[Reader] \in TakenBySender
  BY <1>0, <1>4, <1>5, ReaderView DEF ReadInstalled
<1>7. ~Install(Reader)
  BY <1>0, <1>5 DEF Install, Swap, Goto, TypeOK, Reading
<1>8. ASSUME NEW s \in Senders, Install(s), closed PROVE conn' = conn
  BY <1>8 DEF Install, Swap
<1>9. QED
  BY <1>2, <1>3, <1>6, <1>7, <1>8, InstallsView DEF ReadInstalled

(* How readLoop gets to a redial: its read fails on a connection that broke
   or was taken away by a sender. *)
LEMMA FailureHasCause ==
  ASSUME Basis, CauseInv, NEW e \in Errors \ {"nil"}, ReadFrame(Reader, e), IsRetryable(e), ~closeCh
  PROVE  Reading /\ held[Reader] \in broken \cup TakenBySender
<1> USE SessionAssumption, ConnAssumption
<1>1. /\ pc[Reader] = "readFrame" /\ e = "broken" /\ held[Reader] \in Conns
      /\ wire[held[Reader]] \in {"lost", "shut", "down"}
  BY DEF IsRetryable, ReadFrame, ReadOutcomes, Basis, FrameHasConn, Ownership, HeldIsUsed, Status,
         TypeOK
<1>2. Reading /\ ~Over /\ ~closed
  BY <1>1 DEF Reading, Over, Leaving, CauseInv, ClosingFirst, Basis, CloseInv, ReaderOutside
<1>3. wire[held[Reader]] \in {"lost", "down"} => held[Reader] \in broken
  BY <1>1, <1>2 DEF CauseInv, BrokenKnown
<1>4. wire[held[Reader]] = "shut" => held[Reader] \in TakenBySender
  BY <1>1, <1>2 DEF CauseInv, ReadInstalled, Basis, Ownership, CurrentUsable
<1>5. QED
  BY <1>1, <1>2, <1>3, <1>4

LEMMA PendingView ==
  ASSUME Basis, CauseInv, [SessionNext]_sessionVars
  PROVE  /\ Reading' => ~Pending
         /\ Install(Reader) => Pending /\ ~Pending'
         /\ Pending' => \/ Pending
                        \/ Reading /\ ~Reading' /\ held[Reader] \in broken \cup TakenBySender
         /\ \A s \in Senders : Install(s) => (Pending' <=> Pending)
<1> USE SessionAssumption, ConnAssumption
<1>0. /\ at \in [Procs -> AtLabels] /\ pc \in [Procs -> Labels] /\ TypeOK /\ Ownership
      /\ ret \in [Procs -> Errors] /\ Reader \in Procs
      /\ at[Reader] \in Working \cup {"push"} \cup Leaving
      /\ ReaderOutside /\ ReaderAt
  BY DEF Basis, ReaderInv, ReaderTypes, TypeOK, CloseInv, CauseInv
<1>1. CASE ReadLoop
  <2>1. ~Reading' /\ pc[Reader] = "idle"
    BY <1>0, <1>1 DEF ReadLoop, LoopTop, Decode, RecvFailed, ReaderReconnected, Push, CloseEvents,
                      CloseDone, connVars, Call, Goto, At, Reading
  <2>2. \A p \in Procs : ~Install(p)
    BY <1>0, <1>1 DEF ReadLoop, LoopTop, Decode, RecvFailed, ReaderReconnected, Push, CloseEvents,
                      CloseDone, connVars, Call, Goto, At, Install, Swap
  <2>3. Pending' => Pending
    BY <1>0, <1>1 DEF ReadLoop, LoopTop, Decode, RecvFailed, ReaderReconnected, Push, CloseEvents,
                      CloseDone, connVars, Call, Goto, At, Move, Take, closing, Pending
  <2>4. QED
    BY <2>1, <2>2, <2>3
<1>2. ASSUME at'[Reader] = at[Reader], pc'[Reader] = pc[Reader], ret'[Reader] = ret[Reader],
             closeCh => closeCh'
      PROVE  /\ Reading' => ~Pending
             /\ Pending' => Pending
             /\ ~Install(Reader)
             /\ closeCh' = closeCh => (Pending' <=> Pending)
  BY <1>0, <1>2 DEF Reading, Pending, ReaderAt, Install, Swap, Goto
<1>3. ASSUME NEW s \in Senders, Send(s) \/ SendEvent(s)
      PROVE  /\ at'[Reader] = at[Reader] /\ pc'[Reader] = pc[Reader] /\ ret'[Reader] = ret[Reader]
             /\ closeCh' = closeCh
  BY <1>0, <1>3 DEF Send, SendEvent, SendReturned, SenderReconnected, RetryReturned, Finished,
                    closing, connVars, Call, Goto, Move
<1>4. ASSUME NEW c \in Closers, Close(c) \/ CloseReturns(c) \/ CloseAgain(c) \/ OnceReleases(c)
      PROVE  /\ at'[Reader] = at[Reader] /\ pc'[Reader] = pc[Reader] /\ ret'[Reader] = ret[Reader]
             /\ closeCh => closeCh'
  BY <1>0, <1>4 DEF Close, CloseReturns, CloseAgain, OnceReleases, closing, connVars, Call, Goto, Move
<1>5. ASSUME NEW p \in Procs \ {Reader}, Below(p)
      PROVE  /\ at'[Reader] = at[Reader] /\ pc'[Reader] = pc[Reader] /\ ret'[Reader] = ret[Reader]
             /\ closeCh' = closeCh
  <2>1. Step(p) /\ closeCh' = closeCh /\ at'[Reader] = at[Reader]
    BY <1>0, <1>5, BelowIsStep DEF closing
  <2>2. QED
    BY <1>0, <1>5, <2>1, StepIsLocal
<1>6. ASSUME NEW k \in Conns, PeerFinishes(k) \/ NetworkDrops(k)
      PROVE  UNCHANGED <<at, pc, ret, closeCh>>
  BY <1>6 DEF PeerFinishes, NetworkDrops, sessionOnly, closing, Finish, Drop
<1>7. CASE Events \/ Terminated \/ UNCHANGED sessionVars
  <2>1. UNCHANGED <<at, pc, ret, closeCh>>
    BY <1>7 DEF Events, Yield, EventsEnd, Terminated, sessionVars, sessionOnly, closing, connVars
  <2>2. QED
    BY <1>7, <2>1, <1>2 DEF Events, Yield, EventsEnd, Terminated, sessionVars, Install, Swap, Goto, connVars
<1>8. ASSUME NEW s \in Senders, Install(s) PROVE Pending' <=> Pending
  <2>1. Below(s) /\ s \in Procs \ {Reader}
    BY <1>8 DEF Below
  <2>2. QED
    BY <2>1, <1>2, <1>5
<1>9. CASE Below(Reader)
  <2>1. /\ Step(Reader) /\ closeCh' = closeCh /\ pc[Reader] # "idle"
        /\ \/ at' = at
           \/ at[Reader] = "recv" /\ at' = [at EXCEPT ![Reader] = "decode"] /\ pc'[Reader] = "idle"
    BY <1>0, <1>9, BelowIsStep, StepIsLocal DEF closing
  <2>2. at[Reader] \in {"recv", "reconnect"}
    BY <1>0, <2>1 DEF ReaderOutside, Working, Leaving
  <2>3. CASE at[Reader] = "reconnect"
    <3>1. at' = at /\ pc[Reader] \in {"reconnect", "dial", "swap", "closeNext", "closePrev"}
      BY <1>0, <2>1, <2>3 DEF ReaderAt
    <3>2. /\ pc'[Reader] \in {"idle", "dial", "swap", "closeNext", "closePrev"}
          /\ pc[Reader] = "swap" => pc'[Reader] \in {"closeNext", "closePrev"}
          /\ pc[Reader] \in {"closeNext", "closePrev"} => pc'[Reader] = "idle"
      BY <1>0, <2>1, <3>1
      DEF TypeOK, Step, WriteFetch, ReadFetch, Fetch, WriteLock, ReadLock, WriteFrame, ReadFrame,
          ReconnectStart, DialOk, DialFail, Swap, CloseNext, ClosePrev, CloseStart, CloseWire,
          ShutHeld, Return, Goto, Hold
    <3>3. Install(Reader) => pc[Reader] = "swap"
      BY DEF Install, Swap
    <3>4. QED
      BY <1>0, <1>8, <2>3, <3>1, <3>2, <3>3 DEF Pending, Reading
  <2>4. CASE at[Reader] = "recv"
    <3>1. pc[Reader] \in {"read", "readLock", "readFrame"}
      BY <1>0, <2>1, <2>4 DEF ReaderAt
    <3>2. ~Pending /\ ~Install(Reader)
      BY <2>4, <3>1 DEF Pending, Install, Swap
    <3>3. ASSUME Pending'
          PROVE  Reading /\ ~Reading' /\ held[Reader] \in broken \cup TakenBySender
      <4>1. /\ at' = at /\ ~closeCh /\ pc'[Reader] = "idle" /\ IsRetryable(ret'[Reader])
        BY <1>0, <2>1, <2>4, <3>3 DEF Pending
      <4>2. PICK e \in Errors \ {"nil"} : ReadFrame(Reader, e)
        BY <1>0, <1>9, <2>4, <3>1, <4>1
        DEF Below, Inside, Install, SendFrame, Recv, WriteFetch, WriteLock, ReadFetch, Fetch,
            ReadLock, ReconnectStart, DialOk, DialFail, Swap, CloseNext, ClosePrev, CloseStart,
            CloseWire, WriteFrame, Return, Goto, IsRetryable, TypeOK, Move
      <4>3. ret'[Reader] = e
        BY <1>0, <4>2 DEF ReadFrame, Return, TypeOK
      <4>4. QED
        BY <4>1, <4>2, <4>3, FailureHasCause DEF Reading
    <3>4. QED
      BY <1>8, <3>2, <3>3
  <2>5. QED
    BY <2>2, <2>3, <2>4
<1>10. QED
  BY <1>1, <1>2, <1>3, <1>4, <1>5, <1>6, <1>7, <1>8, <1>9 DEF SessionNext

LEMMA PaidStep ==
  ASSUME Basis, CauseInv, [SessionNext]_sessionVars
  PROVE  Paid'
<1> USE SessionAssumption, ConnAssumption
<1>0. TypeOK /\ Ownership /\ ReaderInv /\ SideTypes /\ OrderInv /\ Reader \in Procs
      /\ Installed \subseteq Conns /\ InstalledUsed /\ ReadInstalled
  BY InstalledConns DEF Basis, CauseInv
<1>1. PICK U \in SUBSET Causes :
        /\ IsFiniteSet(U)
        /\ IF Pending THEN Cardinality(U) >= Redials + 1
           ELSE Cardinality(U) >= Redials /\ conn \notin U /\ (Reading => held[Reader] \notin U)
  BY DEF CauseInv, Paid
<1>2. Causes \subseteq Causes' /\ TakenBySender \subseteq TakenBySender' /\ broken \subseteq broken'
  BY InstallsView, BrokenKnownStep DEF Causes, CauseInv
<1>3. Cardinality(U) \in Nat /\ Redials \in Nat /\ NoConn \notin U
  BY <1>0, <1>1, InstalledByFinite, FS_CardinalityType DEF Redials, Causes
<1>4. \A p \in Procs : pc[p] = "swap" => held[p] \notin U
  BY <1>0, <1>1 DEF Causes, InstalledUsed
<1>5. Reading' => \/ Reading /\ held'[Reader] = held[Reader]
                  \/ held'[Reader] = conn
  BY <1>0, ReaderView
<1>6. /\ Reading' => ~Pending
      /\ Install(Reader) => Pending /\ ~Pending'
      /\ Pending' => \/ Pending
                     \/ Reading /\ ~Reading' /\ held[Reader] \in broken \cup TakenBySender
      /\ \A s \in Senders : Install(s) => (Pending' <=> Pending)
  BY PendingView
<1>7. CASE conn' \in {conn, NoConn} /\ InstalledBy({Reader})' = InstalledBy({Reader})
  <2>1. Redials' = Redials
    BY <1>7 DEF Redials
  <2>2. CASE Pending <=> Pending'
    BY <1>1, <1>2, <1>3, <1>5, <1>7, <2>1, <2>2 DEF Paid
  <2>3. CASE ~Pending /\ Pending'
    <3> DEFINE V == U \cup {held[Reader]}
    <3>1. held[Reader] \notin U /\ held[Reader] \in Causes
      BY <1>0, <1>1, <1>6, <2>3 DEF Causes, ReadInstalled
    <3>2. IsFiniteSet(V) /\ Cardinality(V) = Cardinality(U) + 1
      BY <1>1, <3>1, FS_AddElement
    <3>3. V \in SUBSET Causes'
      BY <1>2, <3>1
    <3> HIDE DEF V
    <3>4. QED
      BY <1>1, <1>3, <2>1, <2>3, <3>2, <3>3 DEF Paid
  <2>4. CASE Pending /\ ~Pending'
    <3> DEFINE V == U \ {conn}
    <3>1. IsFiniteSet(V) /\ Cardinality(V) >= Cardinality(U) - 1
      <4>1. /\ IsFiniteSet(V)
            /\ Cardinality(V) = IF conn \in U THEN Cardinality(U) - 1 ELSE Cardinality(U)
        BY <1>1, FS_RemoveElement
      <4> HIDE DEF V
      <4>2. QED
        BY <1>3, <4>1
    <3>2. V \in SUBSET Causes' /\ conn' \notin V
      BY <1>2, <1>3, <1>7
    <3>3. ~Reading' /\ Cardinality(V) \in Nat
      BY <1>6, <2>4, <3>1, FS_CardinalityType
    <3> HIDE DEF V
    <3>4. Cardinality(V) >= Redials'
      BY <1>1, <1>3, <2>1, <2>4, <3>1, <3>3
    <3>5. QED
      BY <2>4, <3>1, <3>2, <3>3, <3>4 DEF Paid
  <2>5. QED
    BY <2>2, <2>3, <2>4
<1>8. ASSUME NEW s \in Senders, Install(s), pc[s] = "swap", conn' = held[s],
             InstalledBy({Reader})' = InstalledBy({Reader})
      PROVE  Paid'
  <2>1. Redials' = Redials /\ (Pending' <=> Pending) /\ conn' \notin U
    BY <1>4, <1>6, <1>8 DEF Redials
  <2>2. pc'[Reader] = pc[Reader] /\ held'[Reader] = held[Reader]
    BY <1>0, <1>8 DEF Install, Swap, Goto, Hold, TypeOK
  <2>3. QED
    BY <1>1, <1>2, <2>1, <2>2 DEF Paid, Reading
<1>9. CASE /\ Install(Reader) /\ pc[Reader] = "swap" /\ conn' = held[Reader]
           /\ Len(installs) + 1 \notin InstalledBy({Reader})
           /\ InstalledBy({Reader})' = InstalledBy({Reader}) \cup {Len(installs) + 1}
  <2>1. Redials' = Redials + 1
    <3>1. IsFiniteSet(InstalledBy({Reader}))
      BY <1>0, InstalledByFinite
    <3>2. QED
      BY <1>9, <3>1, FS_AddElement DEF Redials
  <2>2. conn' \notin U /\ Pending /\ ~Pending' /\ ~Reading'
    BY <1>4, <1>6, <1>9
  <2>3. QED
    BY <1>1, <1>2, <1>3, <2>1, <2>2 DEF Paid
<1>10. QED
  BY <1>7, <1>8, <1>9, InstallsView

LEMMA CauseInvHolds == SessionSpec => []CauseInv
<1>1. Basis /\ CauseInv /\ [SessionNext]_sessionVars => CauseInv'
  BY ReaderAtStep, ClosingFirstStep, InstalledUsedStep, BrokenKnownStep, ReadInstalledStep, PaidStep
  DEF CauseInv
<1>2. QED
  BY <1>1, BasisHolds, CauseInvInit, PTL DEF SessionSpec

(* There are no more causes than connections that broke and senders'
   redials. *)
LEMMA CausesCounted ==
  ASSUME SideTypes, IsFiniteSet(broken)
  PROVE  /\ IsFiniteSet(Causes)
         /\ Cardinality(Causes) <= Cardinality(broken) + Cardinality(InstalledBy(Senders))
<1> DEFINE S == InstalledBy(Senders) \ {1}
           f == [n \in S |-> installs[n - 1].conn]
<1>1. IsFiniteSet(InstalledBy(Senders)) /\ Cardinality(InstalledBy(Senders)) \in Nat
  BY InstalledByFinite
<1>2. S \in SUBSET InstalledBy(Senders)
  OBVIOUS
<1>3. IsFiniteSet(S) /\ Cardinality(S) <= Cardinality(InstalledBy(Senders)) /\ Cardinality(S) \in Nat
  BY <1>1, <1>2, FS_Subset, FS_CardinalityType
<1>4. f \in Surjection(S, TakenBySender)
  BY DEF Surjection, TakenBySender
<1>5. IsFiniteSet(TakenBySender) /\ Cardinality(TakenBySender) <= Cardinality(S)
      /\ Cardinality(TakenBySender) \in Nat
  BY <1>3, <1>4, FS_Surjection, FS_CardinalityType
<1> HIDE DEF S
<1>6. /\ IsFiniteSet(broken \cup TakenBySender)
      /\ Cardinality(broken \cup TakenBySender) <= Cardinality(broken) + Cardinality(TakenBySender)
      /\ Cardinality(broken \cup TakenBySender) \in Nat /\ Cardinality(broken) \in Nat
  <2>1. broken \cap TakenBySender \in SUBSET broken
    OBVIOUS
  <2>2. Cardinality(broken \cap TakenBySender) \in Nat
    BY <2>1, FS_Subset, FS_CardinalityType
  <2>3. IsFiniteSet(broken \cup TakenBySender)
    BY <1>5, FS_Union
  <2>4. Cardinality(broken) \in Nat /\ Cardinality(broken \cup TakenBySender) \in Nat
    BY <2>3, FS_CardinalityType
  <2>5. Cardinality(broken \cup TakenBySender) =
          Cardinality(broken) + Cardinality(TakenBySender) - Cardinality(broken \cap TakenBySender)
    BY <1>5, FS_Union
  <2>6. QED
    BY <1>5, <2>2, <2>3, <2>4, <2>5
<1>7. Causes \in SUBSET (broken \cup TakenBySender)
  BY DEF Causes
<1>8. /\ IsFiniteSet(Causes) /\ Cardinality(Causes) <= Cardinality(broken \cup TakenBySender)
      /\ Cardinality(Causes) \in Nat
  BY <1>6, <1>7, FS_Subset, FS_CardinalityType
<1>9. QED
  BY <1>1, <1>3, <1>5, <1>6, <1>8

(* One failure is not answered by two redials of readLoop: for any number of
   senders, connections and attempts, it has installed at most as many
   connections as broke or were replaced by a sender. *)
THEOREM RedialsHaveCauses == SessionSpec => []NoSpuriousReconnect
<1>1. Basis /\ CauseInv => NoSpuriousReconnect
  <2> SUFFICES ASSUME Basis, CauseInv PROVE NoSpuriousReconnect
    OBVIOUS
  <2>1. SideTypes /\ IsFiniteSet(broken)
    BY DEF Basis, CauseInv, BrokenKnown
  <2>2. PICK U \in SUBSET Causes :
          /\ IsFiniteSet(U)
          /\ IF Pending THEN Cardinality(U) >= Redials + 1 ELSE Cardinality(U) >= Redials
    BY DEF CauseInv, Paid
  <2>3. /\ IsFiniteSet(Causes)
        /\ Cardinality(Causes) <= Cardinality(broken) + Cardinality(InstalledBy(Senders))
    BY <2>1, CausesCounted
  <2>4. /\ Cardinality(U) <= Cardinality(Causes)
        /\ Cardinality(U) \in Nat /\ Cardinality(Causes) \in Nat /\ Cardinality(broken) \in Nat
        /\ Redials \in Nat /\ Cardinality(InstalledBy(Senders)) \in Nat
    BY <2>1, <2>2, <2>3, FS_Subset, FS_CardinalityType, InstalledByFinite DEF Redials
  <2>5. Redials <= Cardinality(broken) + Cardinality(InstalledBy(Senders))
    BY <2>2, <2>3, <2>4
  <2>6. QED
    BY <2>5 DEF NoSpuriousReconnect, Redials
<1>2. QED
  BY <1>1, BasisHolds, CauseInvHolds, PTL
=============================================================================
