------------------------------ MODULE Session -------------------------------
(***************************************************************************)
(* RealtimeSession of src/session.go over the wrapper of module Conn: the  *)
(* readLoop goroutine, the goroutines that send, the ones that call Close, *)
(* and the one that ranges over Events.  `at' says where a goroutine is in *)
(* session.go, `pc' where it is in the wrapper it called from there; a     *)
(* call has returned when its pc is "idle" again.                          *)
(***************************************************************************)
EXTENDS Conn, Sequences, FiniteSets

CONSTANTS
  Reader,    \* the goroutine of readLoop
  Senders,   \* goroutines that call sendEvent through any public operation
  Closers,   \* goroutines that call Close
  Cap,       \* the capacity of eventsCh
  MaxMsgs,   \* bound: messages the peer sends
  MaxSends   \* bound: operations of each sender

ASSUME SessionAssumption ==
  /\ Procs = Senders \cup Closers \cup {Reader}
  /\ Reader \notin Senders \cup Closers
  /\ Senders \cap Closers = {}
  /\ Cap \in Nat \ {0}
  /\ MaxMsgs \in Nat
  /\ MaxSends \in Nat

VARIABLES
  at,            \* where each goroutine is in session.go
  closeCh,       \* closeCh is closed
  once,          \* the goroutine that runs closeOnce's function, or NoProc
  eventsCh,      \* the items queued in the channel
  eventsClosed,  \* eventsCh is closed
  doneCh,        \* doneCh is closed
  hand,          \* the item readLoop is working on
  sessionID,     \* the id of the session.created event it came from; 0 is ""
  sends,         \* how many operations each sender has begun
  result,        \* what a sender's last operation returned
  gone,          \* the iterator of Events has reached the end of the stream
  (* histories *)
  received,      \* every item readLoop has taken in, the final error included
  delivered,     \* every item the iterator has yielded
  installs,      \* the connections in the order they were installed, and by whom
  broken,        \* the connections the network or a write timeout broke
  first,         \* the connection a sender's operation wrote to first
  late           \* a sender's operation began after the peer had ended the
                 \* session with a final status and readLoop had returned

closing == <<closeCh, once>>
channels == <<eventsCh, eventsClosed, doneCh>>
reading == <<hand, sessionID, received>>
sending == <<sends, result, first, late>>
consuming == <<gone, delivered>>
links == <<installs, broken>>
sessionOnly == <<at, closing, channels, reading, sending, consuming, links>>

sessionVars == <<connVars, sessionOnly>>

(* A decoded event by number, kind and the connection it came over. *)
Kinds == {"created", "event", "garbage"}
EventItems == [id : 1 .. MaxMsgs, kind : {"created", "event"}, from : Conns]
ErrorItem == [id |-> 0, kind |-> "error", from |-> NoConn]
Items == EventItems \cup {ErrorItem}

(* What an operation returns: the stage that failed and the error there. *)
Outcome(stage, e) == [stage |-> stage, err |-> e]
Done == Outcome("done", "nil")

SessionInit ==
  /\ ConnInit
  /\ at = [p \in Procs |-> IF p = Reader THEN "loop" ELSE "idle"]
  /\ closeCh = FALSE
  /\ once = NoProc
  /\ eventsCh = <<>>
  /\ eventsClosed = FALSE
  /\ doneCh = FALSE
  /\ hand = ErrorItem
  /\ sessionID = 0
  /\ sends = [s \in Senders |-> 0]
  /\ result = [s \in Senders |-> Done]
  /\ gone = FALSE
  /\ received = <<>>
  /\ delivered = <<>>
  /\ installs = <<[conn |-> conn, by |-> NoProc]>>
  /\ broken = {}
  /\ first = [s \in Senders |-> NoConn]
  /\ late = [s \in Senders |-> FALSE]

At(p, label) == at[p] = label /\ pc[p] = "idle"
Move(p, label) == at' = [at EXCEPT ![p] = label]

-----------------------------------------------------------------------------
(* readLoop *)

(* The top of the loop: isClosed, then stream.recv. *)
LoopTop ==
  /\ At(Reader, "loop")
  /\ \/ /\ closeCh
        /\ Move(Reader, "defers")
        /\ UNCHANGED connVars
     \/ /\ ~closeCh
        /\ Move(Reader, "recv")
        /\ Call(Reader, "read")
  /\ UNCHANGED <<closing, channels, reading, sending, consuming, links>>

(* stream.recv returns the next message of the peer. *)
Recv(kind) ==
  /\ at[Reader] = "recv"
  /\ Len(received) < MaxMsgs
  /\ ReadFrame(Reader, "nil")
  /\ hand' = [id |-> Len(received) + 1, kind |-> kind, from |-> held[Reader]]
  /\ Move(Reader, "decode")
  /\ UNCHANGED <<closing, channels, sending, consuming, links, sessionID, received>>

(* readLoop is about to push item i. *)
Take(i) ==
  /\ hand' = i
  /\ received' = Append(received, i)
  /\ Move(Reader, "push")

\* Mutant: the first session id sticks.
DecodeFirstID ==
  /\ At(Reader, "decode")
  /\ Take(IF hand.kind = "garbage" THEN ErrorItem ELSE hand)
  /\ sessionID' = IF hand.kind = "created" /\ sessionID = 0 THEN hand.id ELSE sessionID
  /\ UNCHANGED <<connVars, closing, channels, sending, consuming, links>>

(* DecodeServerEvent and convertWireEvent; a session.created sets sessionID
   before the event can be seen. *)
Decode ==
  /\ At(Reader, "decode")
  /\ Take(IF hand.kind = "garbage" THEN ErrorItem ELSE hand)
  /\ sessionID' = IF hand.kind = "created" THEN hand.id ELSE sessionID
  /\ UNCHANGED <<connVars, closing, channels, sending, consuming, links>>

(* stream.recv has failed. *)
RecvFailed ==
  /\ At(Reader, "recv")
  /\ \/ /\ closeCh
        /\ Move(Reader, "defers")
        /\ UNCHANGED <<connVars, hand, received>>
     \/ /\ ~closeCh /\ IsRetryable(ret[Reader])
        /\ Call(Reader, "reconnect")
        /\ Move(Reader, "reconnect")
        /\ UNCHANGED <<hand, received>>
     \/ /\ ~closeCh /\ ~IsRetryable(ret[Reader])
        /\ Take(ErrorItem)
        /\ UNCHANGED connVars
  /\ UNCHANGED <<closing, channels, sending, consuming, links, sessionID>>

(* stream.reconnect has returned to readLoop. *)
ReaderReconnected ==
  /\ At(Reader, "reconnect")
  /\ \/ /\ ret[Reader] = "nil"
        /\ Move(Reader, "loop")
        /\ UNCHANGED <<hand, received>>
     \/ /\ ret[Reader] # "nil"
        /\ Take(ErrorItem)
  /\ UNCHANGED <<connVars, closing, channels, sending, consuming, links, sessionID>>

\* Mutant: the select has a default case, and an item that finds no room is lost.
PushOrDrop ==
  /\ At(Reader, "push")
  /\ eventsCh' = IF Len(eventsCh) < Cap THEN Append(eventsCh, hand) ELSE eventsCh
  /\ hand' = ErrorItem
  /\ Move(Reader, IF hand = ErrorItem THEN "defers" ELSE "loop")
  /\ UNCHANGED <<connVars, closing, sending, consuming, links, eventsClosed, doneCh,
                 sessionID, received>>

\* Mutant: room for one item too many.
PushOneMore ==
  /\ At(Reader, "push")
  /\ \/ closeCh /\ UNCHANGED eventsCh
     \/ Len(eventsCh) <= Cap /\ eventsCh' = Append(eventsCh, hand)
  /\ hand' = ErrorItem
  /\ Move(Reader, IF hand = ErrorItem THEN "defers" ELSE "loop")
  /\ UNCHANGED <<connVars, closing, sending, consuming, links, eventsClosed, doneCh,
                 sessionID, received>>

\* Mutant: a plain send to the channel instead of the select.
PushBlocking ==
  /\ At(Reader, "push")
  /\ Len(eventsCh) < Cap
  /\ eventsCh' = Append(eventsCh, hand)
  /\ hand' = ErrorItem
  /\ Move(Reader, IF hand = ErrorItem THEN "defers" ELSE "loop")
  /\ UNCHANGED <<connVars, closing, sending, consuming, links, eventsClosed, doneCh,
                 sessionID, received>>

(* pushEvent and pushErr: a select between closeCh and the channel; after an
   error readLoop returns. *)
Push ==
  /\ At(Reader, "push")
  /\ \/ /\ closeCh
        /\ UNCHANGED eventsCh
     \/ /\ Len(eventsCh) < Cap
        /\ eventsCh' = Append(eventsCh, hand)
  /\ hand' = ErrorItem
  /\ Move(Reader, IF hand = ErrorItem THEN "defers" ELSE "loop")
  /\ UNCHANGED <<connVars, closing, sending, consuming, links, eventsClosed, doneCh,
                 sessionID, received>>

\* Mutant: eventsCh is never closed.
CloseEventsForgotten ==
  /\ At(Reader, "defers")
  /\ Move(Reader, "lastDefer")
  /\ UNCHANGED <<connVars, closing, channels, reading, sending, consuming, links>>

(* The deferred calls run last in, first out. *)
CloseEvents ==
  /\ At(Reader, "defers")
  /\ eventsClosed' = TRUE
  /\ Move(Reader, "lastDefer")
  /\ UNCHANGED <<connVars, closing, reading, sending, consuming, links, eventsCh,
                 doneCh>>

CloseDone ==
  /\ At(Reader, "lastDefer")
  /\ doneCh' = TRUE
  /\ Move(Reader, "end")
  /\ UNCHANGED <<connVars, closing, reading, sending, consuming, links, eventsCh,
                 eventsClosed>>

-----------------------------------------------------------------------------
(* sendEvent, behind every public operation that sends *)

Finished(s, outcome) ==
  /\ Move(s, "idle")
  /\ result' = [result EXCEPT ![s] = outcome]
  /\ first' = [first EXCEPT ![s] = NoConn]
  /\ late' = [late EXCEPT ![s] = FALSE]

(* The operation starts: a bad argument is refused at once; then isClosed;
   then the event is encoded, and a raw one that cannot be is refused too. *)
Send(s) ==
  /\ At(s, "idle")
  /\ sends[s] < MaxSends
  /\ sends' = [sends EXCEPT ![s] = @ + 1]
  /\ \/ /\ Finished(s, Outcome("event", "other"))
        /\ UNCHANGED connVars
     \/ /\ closeCh
        /\ Finished(s, Outcome("isClosed", "closed"))
        /\ UNCHANGED connVars
     \/ /\ ~closeCh
        /\ Call(s, "write")
        /\ Move(s, "send")
        /\ late' = [late EXCEPT ![s] = doneCh /\ ret[Reader] = "final"]
        /\ UNCHANGED <<result, first>>
  /\ UNCHANGED <<closing, channels, reading, consuming, links>>

(* The first stream.send has returned. *)
SendReturned(s) ==
  /\ At(s, "send")
  /\ \/ /\ ret[s] = "nil"
        /\ Finished(s, Done)
        /\ UNCHANGED connVars
     \/ /\ ret[s] # "nil" /\ ~IsRetryable(ret[s])
        /\ Finished(s, Outcome("send", ret[s]))
        /\ UNCHANGED connVars
     \/ /\ IsRetryable(ret[s])
        /\ Call(s, "reconnect")
        /\ Move(s, "reconnect")
        /\ UNCHANGED <<result, first, late>>
  /\ UNCHANGED <<closing, channels, reading, consuming, links, sends>>

\* Mutant: the error of the reconnect is ignored.
SenderRetriesAnyway(s) ==
  /\ At(s, "reconnect")
  /\ Call(s, "write")
  /\ Move(s, "retry")
  /\ UNCHANGED <<closing, channels, reading, consuming, links, sending>>

(* stream.reconnect has returned to the sender. *)
SenderReconnected(s) ==
  /\ At(s, "reconnect")
  /\ \/ /\ ret[s] # "nil"
        /\ Finished(s, Outcome("reconnect", ret[s]))
        /\ UNCHANGED connVars
     \/ /\ ret[s] = "nil"
        /\ Call(s, "write")
        /\ Move(s, "retry")
        /\ UNCHANGED <<result, first, late>>
  /\ UNCHANGED <<closing, channels, reading, consuming, links, sends>>

(* The second stream.send has returned. *)
RetryReturned(s) ==
  /\ At(s, "retry")
  /\ Finished(s, IF ret[s] = "nil" THEN Done ELSE Outcome("retry", ret[s]))
  /\ UNCHANGED <<connVars, closing, channels, reading, consuming, links, sends>>

(* The frame of the first attempt leaves; a timeout breaks the connection. *)
SendFrame(s, e) ==
  /\ WriteFrame(s, e)
  /\ first' = [first EXCEPT ![s] = IF at[s] = "send" THEN held[s] ELSE @]
  /\ broken' = IF e = "context" THEN broken \cup {held[s]} ELSE broken
  /\ UNCHANGED <<at, closing, channels, reading, consuming, sends, result, late,
                 installs>>

-----------------------------------------------------------------------------
(* Close *)

(* closeOnce.Do lets one goroutine in: it closes closeCh, then the stream. *)
Close(c) ==
  /\ At(c, "idle")
  /\ once = NoProc
  /\ once' = c
  /\ closeCh' = TRUE
  /\ Call(c, "close")
  /\ Move(c, "closing")
  /\ UNCHANGED <<channels, reading, sending, consuming, links>>

\* Mutant: Close does not wait for doneCh.
CloseDoesNotWait(c) ==
  /\ At(c, "closing")
  /\ Move(c, "closed")
  /\ UNCHANGED <<connVars, closing, channels, reading, sending, consuming, links>>

(* ... and waits for readLoop. *)
CloseReturns(c) ==
  /\ At(c, "closing")
  /\ doneCh
  /\ Move(c, "closed")
  /\ UNCHANGED <<connVars, closing, channels, reading, sending, consuming, links>>

(* A later Close waits at closeOnce ... *)
CloseAgain(c) ==
  /\ At(c, "idle")
  /\ once # NoProc
  /\ Move(c, "waiting")
  /\ UNCHANGED <<connVars, closing, channels, reading, sending, consuming, links>>

(* ... until the first one has returned. *)
OnceReleases(c) ==
  /\ At(c, "waiting")
  /\ at[once] = "closed"
  /\ Move(c, "closed")
  /\ UNCHANGED <<connVars, closing, channels, reading, sending, consuming, links>>

-----------------------------------------------------------------------------
(* The goroutine that ranges over Events *)

(* The iterator yields an item.  It returns after an error and when the body
   of the loop breaks; ranging over Events again goes on with the next item,
   so whether the application is in the loop or outside makes no difference
   to what it sees next. *)
Yield ==
  /\ ~gone
  /\ eventsCh # <<>>
  /\ eventsCh' = Tail(eventsCh)
  /\ delivered' = Append(delivered, Head(eventsCh))
  /\ UNCHANGED <<connVars, at, closing, reading, sending, links, eventsClosed, doneCh, gone>>

(* The channel is closed and drained. *)
EventsEnd ==
  /\ ~gone
  /\ eventsCh = <<>> /\ eventsClosed
  /\ gone' = TRUE
  /\ UNCHANGED <<connVars, at, closing, channels, reading, sending, links, delivered>>

-----------------------------------------------------------------------------
(* Steps of the wrapper that leave the session alone *)
Inside(p) ==
  /\ \/ WriteFetch(p) \/ WriteLock(p)
     \/ ReadFetch(p) \/ ReadLock(p) \/ \E e \in Errors \ {"nil"} : ReadFrame(p, e)
     \/ ReconnectStart(p)
     \/ \E k \in Conns : DialOk(p, k)
     \/ \E e \in Errors : DialFail(p, e)
     \/ CloseNext(p) \/ ClosePrev(p)
     \/ CloseStart(p) \/ \E e \in Errors : CloseWire(p, e)
  /\ UNCHANGED sessionOnly

(* Reconnect's critical section, with the history of installed connections *)
Install(p) ==
  /\ Swap(p)
  /\ installs' = IF closed THEN installs ELSE Append(installs, [conn |-> held[p], by |-> p])
  /\ UNCHANGED <<at, closing, channels, reading, sending, consuming, broken>>

(* One step of goroutine p inside the wrapper *)
Below(p) ==
  \/ Inside(p) \/ Install(p)
  \/ p \in Senders /\ \E e \in Errors : SendFrame(p, e)
  \/ p = Reader /\ \E kind \in Kinds : Recv(kind)

(* The peer and the network *)
PeerFinishes(k) == Finish(k) /\ UNCHANGED sessionOnly

NetworkDrops(k) ==
  /\ Drop(k)
  /\ broken' = broken \cup {k}
  /\ UNCHANGED <<at, closing, channels, reading, sending, consuming, installs>>

(* Everybody has returned: readLoop, every Close, every operation, Events. *)
Terminated ==
  /\ at[Reader] = "end"
  /\ \A c \in Closers : at[c] = "closed"
  /\ \A s \in Senders : At(s, "idle") /\ sends[s] = MaxSends
  /\ gone
  /\ UNCHANGED sessionVars

-----------------------------------------------------------------------------
ReadLoop ==
  LoopTop \/ Decode \/ RecvFailed \/ ReaderReconnected \/ Push \/ CloseEvents \/ CloseDone

SendEvent(s) == SendReturned(s) \/ SenderReconnected(s) \/ RetryReturned(s)

Events == Yield \/ EventsEnd

SessionNext ==
  \/ ReadLoop
  \/ \E s \in Senders : Send(s) \/ SendEvent(s)
  \/ \E c \in Closers : Close(c) \/ CloseReturns(c) \/ CloseAgain(c) \/ OnceReleases(c)
  \/ Events
  \/ \E p \in Procs : Below(p)
  \/ \E k \in Conns : PeerFinishes(k) \/ NetworkDrops(k)
  \/ Terminated

SessionSpec == SessionInit /\ [][SessionNext]_sessionVars

(***************************************************************************)
(* Fairness: goroutines run, as in Conn; one that waits at a channel or at *)
(* closeOnce goes on once it can.  Nothing makes a caller send, call Close *)
(* or range over Events.                                                   *)
(***************************************************************************)
SessionFairness ==
  /\ WF_sessionVars(ReadLoop)
  /\ \A s \in Senders : WF_sessionVars(SendEvent(s))
  /\ \A c \in Closers : WF_sessionVars(CloseReturns(c) \/ OnceReleases(c))
  /\ \A p \in Procs : /\ WF_sessionVars(Due(p) /\ Below(p))
                      /\ SF_sessionVars((WriteLock(p) \/ ReadLock(p)) /\ UNCHANGED sessionOnly)

SessionFairSpec == SessionSpec /\ SessionFairness

-----------------------------------------------------------------------------
SessionTypeOK ==
  /\ TypeOK
  /\ at \in [Procs -> {"idle", "loop", "recv", "decode", "reconnect", "push", "defers",
                       "lastDefer", "end", "send", "retry", "closing", "waiting", "closed"}]
  /\ closeCh \in BOOLEAN
  /\ once \in Closers \cup {NoProc}
  /\ eventsCh \in Seq(Items) /\ Len(eventsCh) <= Cap
  /\ eventsClosed \in BOOLEAN
  /\ doneCh \in BOOLEAN
  /\ hand \in [id : 0 .. MaxMsgs, kind : Kinds \cup {"error"}, from : Conns \cup {NoConn}]
  /\ sessionID \in 0 .. MaxMsgs
  /\ sends \in [Senders -> 0 .. MaxSends]
  /\ result \in [Senders -> [stage : {"done", "event", "isClosed", "send",
                                      "reconnect", "retry"}, err : Errors]]
  /\ gone \in BOOLEAN
  /\ received \in Seq(Items)
  /\ delivered \in Seq(Items)
  /\ installs \in Seq([conn : Conns, by : Procs \cup {NoProc}])
  /\ broken \subseteq Conns
  /\ first \in [Senders -> Conns \cup {NoConn}]
  /\ late \in [Senders -> BOOLEAN]

Stream == INSTANCE EventStream WITH
            Errors <- {ErrorItem}, MaxItems <- MaxMsgs + 1, log <- received, out <- delivered,
            closed <- closeCh, ended <- gone

(* The session keeps the promise of module EventStream: readLoop, pushEvent,
   the channel and Events (session.go:254-265, 311-374) lose, repeat and
   reorder nothing, and only Close may drop the last item. *)
KeepsStreamPromise == Stream!StreamSpec

(* An application that has been handed a session.created event, or can take
   one from the channel, finds its id or that of a later one in SessionID()
   (session.go:350-356; examples/quickstart reads it right then). *)
SessionIDCurrent ==
  \A i \in 1 .. Len(delivered \o eventsCh) :
    LET item == (delivered \o eventsCh)[i] IN item.kind = "created" => sessionID >= item.id

(* Connection k was installed before j, or is j. *)
Precedes(k, j) ==
  \E m, n \in DOMAIN installs : m <= n /\ installs[m].conn = k /\ installs[n].conn = j

(* Events of a replaced connection never follow events of the one that
   replaced it (session.go:320-328, conn.go:157-166). *)
InConnectionOrder ==
  \A i, j \in DOMAIN received :
    i < j /\ ErrorItem \notin {received[i], received[j]} => Precedes(received[i].from, received[j].from)

(* sendEvent writes its event again only on another connection than the one
   the first attempt used, so the peer never sees it twice on one
   connection (session.go:290-305). *)
RetryOnAnotherConnection ==
  \A s \in Senders :
    at[s] = "retry" /\ pc[s] = "writeFrame" => held[s] # first[s]

InstalledBy(S) == {n \in 1 .. Len(installs) : installs[n].by \in S}

(* readLoop reconnects at most once for every connection that broke and once
   for every connection a sender took away from it (session.go:326-328):
   one failure is not answered by two redials of the same goroutine. *)
NoSpuriousReconnect ==
  Cardinality(InstalledBy({Reader})) <= Cardinality(broken) + Cardinality(InstalledBy(Senders))

(* "attempts=0 disables reconnect" (options.go:105-106): whatever breaks and
   whoever asks, the session never has a second connection, although Retry
   takes 0 attempts for one (conn.go:140-142, reconnect.go:48-50). *)
DisabledMeansOneConnection ==
  Attempts = 0 => \A k \in Conns : wire[k] = "unused" \/ k = installs[1].conn

(* When the first Close has returned, readLoop is over, the iterator can end,
   and no connection is open but one that a sender's Reconnect has dialled
   and is about to close (session.go:268-276). *)
CloseIsComplete ==
  once # NoProc /\ at[once] = "closed" =>
    /\ at[Reader] = "end" /\ eventsClosed /\ closed
    /\ \A k \in Conns : wire[k] = "open" => \E s \in Senders : Owns(s, k)

(* Close returns, the first one and the ones that wait behind it, whether or
   not anybody takes events from a full channel, readLoop or a sender is in a
   reconnect, and whatever the peer does (session.go:268-276, 360-374). *)
CloseTerminates ==
  \A c \in Closers : at[c] \in {"closing", "waiting"} ~> at[c] = "closed"

(* Every operation that sends returns. *)
SendsReturn == \A s \in Senders : at[s] # "idle" ~> at[s] = "idle"

(* An application that keeps ranging over Events sees the stream end, after a
   Close as after an error (session.go:254-265, 312-313). *)
StreamEnds == WF_sessionVars(Events) => (closeCh \/ doneCh ~> gone)

-----------------------------------------------------------------------------
(* What comments of the code promise and the code does not keep *)

(* errors.go:31: "ErrSessionClosed is returned when operation targets a
   closed session."  A Close that comes between isClosed and the write
   (session.go:286-290) makes it another error, one of an internal package. *)
ClosedMeansErrSessionClosed ==
  \A s \in Senders : result[s].err = "closed" => result[s].stage = "isClosed"

(* session.go:239: "FinishSession gracefully closes session", and errors.go:31
   says what an operation on a closed session returns.  When the peer has
   ended the session with a final status readLoop returns, but closeCh stays
   open: the next operation finds the connection down, dials again, and
   reports success for an event nobody will read an answer to
   (session.go:286-308, 335-336). *)
EndedSessionRefusesOperations ==
  [][\A s \in Senders : late[s] /\ at'[s] = "idle" => result'[s] # Done]_sessionVars
=============================================================================
