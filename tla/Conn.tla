-------------------------------- MODULE Conn --------------------------------
(***************************************************************************)
(* The reconnectable websocket wrapper of                                  *)
(* src/internal/transport/websocket/conn.go, called by any number of       *)
(* goroutines.  A wrapped connection is a member of Conns; what the        *)
(* library github.com/coder/websocket and the peer do to it is its `wire'  *)
(* status.  Every critical section and every library call is one step, so  *)
(* the steps of Write, Read, Reconnect and Close interleave as the         *)
(* goroutines do.                                                          *)
(*                                                                         *)
(* All callers in src/ pass context.Background(), so a context ends only   *)
(* by the timeouts of the configuration.                                   *)
(***************************************************************************)
EXTENDS Integers

CONSTANTS
  Procs,     \* the goroutines that call the wrapper
  Conns,     \* the library connections that can ever be dialled (a bound)
  NoProc,    \* nobody: a free mutex
  NoConn,    \* nil
  Attempts,  \* Config.ReconnectAttempts after normalizeConfig
  Timeouts   \* which of HandshakeTimeout, ReadTimeout, WriteTimeout are set

ASSUME ConnAssumption ==
  /\ NoProc \notin Procs
  /\ NoConn \notin Conns
  /\ Attempts \in Nat
  /\ Timeouts \subseteq {"dial", "read", "write"}

VARIABLES
  conn,      \* Conn.conn
  closed,    \* Conn.closed
  readMu,    \* holder of Conn.readMu
  writeMu,   \* holder of Conn.writeMu
  wire,      \* what has become of each library connection
  pc,        \* where each goroutine is in the wrapper; "idle" is outside
  held,      \* its local `conn', `next' or `prev'
  dials,     \* its attempt number in Retry
  ret        \* the class of the error its last call returned,
             \* "nil" during a call

connVars == <<conn, closed, readMu, writeMu, wire, pc, held, dials, ret>>

(***************************************************************************)
(* "open" works; "lost" was dropped by the network or closed by the peer   *)
(* with a transient status; "finished" was closed by the peer with one of  *)
(* the statuses IsRetryable lists as final; "down" was torn down by the    *)
(* library, which has reported it or is about to; "shut" was closed by     *)
(* this wrapper.                                                           *)
(***************************************************************************)
Status == {"unused", "open", "lost", "finished", "down", "shut"}

(***************************************************************************)
(* Classes of errors: "closed" is ErrClosed, "disabled" is                 *)
(* ErrReconnectDisabled, "context" an expired timeout, "refused" a         *)
(* ConnectError with a 4xx status other than 429, "dial" any other         *)
(* ConnectError, "final" a CloseError with a final status, "broken" a      *)
(* CloseError with any other status, an EOF or a net.Error (net.ErrClosed  *)
(* is one), "other" the rest, such as the read limit.                      *)
(***************************************************************************)
Errors == {"nil", "closed", "disabled", "context", "refused", "dial",
           "final", "broken", "other"}

\* Mutant: every failure is worth a reconnect.
AnyError(e) == e # "nil"

IsRetryable(e) == e \in {"dial", "broken"}

Ops == {"write", "read", "reconnect", "close"}

Labels == Ops \cup {"idle", "writeLock", "writeFrame", "readLock", "readFrame",
                    "dial", "swap", "closeNext", "closePrev", "closeWire"}

-----------------------------------------------------------------------------
(* Dial succeeded: the wrapper holds a fresh connection. *)
ConnInit ==
  /\ conn \in Conns
  /\ closed = FALSE
  /\ readMu = NoProc
  /\ writeMu = NoProc
  /\ wire = [k \in Conns |-> IF k = conn THEN "open" ELSE "unused"]
  /\ pc = [p \in Procs |-> "idle"]
  /\ held = [p \in Procs |-> NoConn]
  /\ dials = [p \in Procs |-> 0]
  /\ ret = [p \in Procs |-> "nil"]

Goto(p, label) == pc' = [pc EXCEPT ![p] = label]

Hold(p, k) == held' = [held EXCEPT ![p] = k]

(* The call of p returns an error of class e and its locals go out of scope. *)
Return(p, e) ==
  /\ Goto(p, "idle")
  /\ Hold(p, NoConn)
  /\ dials' = [dials EXCEPT ![p] = 0]
  /\ ret' = [ret EXCEPT ![p] = e]

Call(p, op) ==
  /\ pc[p] = "idle"
  /\ Goto(p, op)
  /\ ret' = [ret EXCEPT ![p] = "nil"]
  /\ UNCHANGED <<conn, closed, readMu, writeMu, wire, held, dials>>

-----------------------------------------------------------------------------
(* currentConn, under the read lock of mu *)
Fetch(p, next) ==
  /\ \/ /\ closed \/ conn = NoConn
        /\ Return(p, "closed")
     \/ /\ ~closed /\ conn # NoConn
        /\ Hold(p, conn)
        /\ Goto(p, next)
        /\ UNCHANGED <<dials, ret>>
  /\ UNCHANGED <<conn, closed, readMu, writeMu, wire>>

WriteFetch(p) == pc[p] = "write" /\ Fetch(p, "writeLock")

WriteLock(p) ==
  /\ pc[p] = "writeLock"
  /\ writeMu = NoProc
  /\ writeMu' = p
  /\ Goto(p, "writeFrame")
  /\ UNCHANGED <<conn, closed, readMu, wire, held, dials, ret>>

(***************************************************************************)
(* A frame written to a connection the peer has left may still enter the   *)
(* kernel's buffer, so it returns nil; one written to a connection that    *)
(* was closed on this side never does.  An expired WriteTimeout tears the  *)
(* connection down.                                                        *)
(***************************************************************************)
WriteOutcomes(k) ==
  CASE wire[k] = "open" ->
         {"nil"} \cup (IF "write" \in Timeouts THEN {"context"} ELSE {})
    [] wire[k] \in {"lost", "finished"} -> {"nil", "broken"}
    [] OTHER -> {"broken"}

\* Mutant: writeMu stays locked after an error.
WriteFrameNoUnlock(p, e) ==
  /\ pc[p] = "writeFrame"
  /\ e \in WriteOutcomes(held[p])
  /\ wire' = IF e = "context" THEN [wire EXCEPT ![held[p]] = "down"] ELSE wire
  /\ writeMu' = IF e = "nil" THEN NoProc ELSE writeMu
  /\ Return(p, e)
  /\ UNCHANGED <<conn, closed, readMu>>

WriteFrame(p, e) ==
  /\ pc[p] = "writeFrame"
  /\ e \in WriteOutcomes(held[p])
  /\ wire' = IF e = "context" THEN [wire EXCEPT ![held[p]] = "down"] ELSE wire
  /\ writeMu' = NoProc
  /\ Return(p, e)
  /\ UNCHANGED <<conn, closed, readMu>>

-----------------------------------------------------------------------------
ReadFetch(p) == pc[p] = "read" /\ Fetch(p, "readLock")

ReadLock(p) ==
  /\ pc[p] = "readLock"
  /\ readMu = NoProc
  /\ readMu' = p
  /\ Goto(p, "readFrame")
  /\ UNCHANGED <<conn, closed, writeMu, wire, held, dials, ret>>

(***************************************************************************)
(* Payloads the peer sent before it left can still be read.  A read of a   *)
(* connection this side is closing may also return a payload that crossed  *)
(* the close frame, or a close status the peer sent of its own.            *)
(***************************************************************************)
ReadOutcomes(k) ==
  CASE wire[k] = "open" ->
         {"nil", "other"} \cup (IF "read" \in Timeouts THEN {"context"} ELSE {})
    [] wire[k] = "lost" -> {"nil", "broken"}
    [] wire[k] = "finished" -> {"nil", "final"}
    [] wire[k] = "shut" -> {"nil", "broken", "final"}
    [] OTHER -> {"broken"}

(* The library closes a connection whose read has failed. *)
ReadFrame(p, e) ==
  /\ pc[p] = "readFrame"
  /\ e \in ReadOutcomes(held[p])
  /\ wire' = IF e = "nil" \/ wire[held[p]] = "shut"
             THEN wire ELSE [wire EXCEPT ![held[p]] = "down"]
  /\ readMu' = NoProc
  /\ Return(p, e)
  /\ UNCHANGED <<conn, closed, writeMu>>

-----------------------------------------------------------------------------
\* Mutant: attempts = 0 is left to Retry, which makes one attempt.
ReconnectStartAnyway(p) ==
  /\ pc[p] = "reconnect"
  /\ \/ /\ closed
        /\ Return(p, "closed")
     \/ /\ ~closed
        /\ Goto(p, "dial")
        /\ dials' = [dials EXCEPT ![p] = IF Attempts = 0 THEN 0 ELSE 1]
        /\ UNCHANGED <<held, ret>>
  /\ UNCHANGED <<conn, closed, readMu, writeMu, wire>>

(* Reconnect's first look at closed, under the read lock of mu *)
ReconnectStart(p) ==
  /\ pc[p] = "reconnect"
  /\ \/ /\ closed
        /\ Return(p, "closed")
     \/ /\ ~closed /\ Attempts = 0
        /\ Return(p, "disabled")
     \/ /\ ~closed /\ Attempts > 0
        /\ Goto(p, "dial")
        /\ dials' = [dials EXCEPT ![p] = 1]
        /\ UNCHANGED <<held, ret>>
  /\ UNCHANGED <<conn, closed, readMu, writeMu, wire>>

\* Mutant: the dialled connection is the current one at once.
DialOkPublishes(p, k) ==
  /\ pc[p] = "dial"
  /\ wire[k] = "unused" /\ ~closed
  /\ wire' = [wire EXCEPT ![k] = "open"]
  /\ conn' = k
  /\ Hold(p, k)
  /\ Goto(p, "swap")
  /\ UNCHANGED <<closed, readMu, writeMu, dials, ret>>

DialOk(p, k) ==
  /\ pc[p] = "dial"
  /\ wire[k] = "unused"
  /\ wire' = [wire EXCEPT ![k] = "open"]
  /\ Hold(p, k)
  /\ Goto(p, "swap")
  /\ UNCHANGED <<conn, closed, readMu, writeMu, dials, ret>>

(* How a dial fails: the server refuses the handshake, anything else is in
   the way, or the handshake timeout expires. *)
DialErrors == {"dial", "refused"} \cup (IF "dial" \in Timeouts THEN {"context"} ELSE {})

\* Mutant: one attempt too many.
DialFailOneMore(p, e) ==
  /\ pc[p] = "dial"
  /\ e \in DialErrors
  /\ \/ /\ dials[p] <= Attempts
        /\ dials' = [dials EXCEPT ![p] = @ + 1]
        /\ UNCHANGED <<pc, held, ret>>
     \/ /\ dials[p] > Attempts
        /\ Return(p, e)
  /\ UNCHANGED <<conn, closed, readMu, writeMu, wire>>

(***************************************************************************)
(* Retry makes a failed dial again, whatever its error, until the attempts *)
(* are used up; the wait between two attempts leaves no trace here.        *)
(***************************************************************************)
DialFail(p, e) ==
  /\ pc[p] = "dial"
  /\ e \in DialErrors
  /\ \/ /\ dials[p] < Attempts
        /\ dials' = [dials EXCEPT ![p] = @ + 1]
        /\ UNCHANGED <<pc, held, ret>>
     \/ /\ dials[p] = Attempts
        /\ Return(p, e)
  /\ UNCHANGED <<conn, closed, readMu, writeMu, wire>>

\* Mutant: closed is not checked again after the dial.
SwapUnchecked(p) ==
  /\ pc[p] = "swap"
  /\ conn' = held[p]
  /\ Hold(p, conn)
  /\ Goto(p, "closePrev")
  /\ UNCHANGED <<closed, readMu, writeMu, wire, dials, ret>>

\* Mutant: prev is read after the assignment to conn.
SwapReadsLate(p) ==
  /\ pc[p] = "swap"
  /\ \/ /\ closed
        /\ Goto(p, "closeNext")
        /\ UNCHANGED conn
     \/ /\ ~closed
        /\ conn' = held[p]
        /\ Goto(p, "closePrev")
  /\ UNCHANGED <<closed, readMu, writeMu, wire, dials, ret, held>>

(* The critical section that installs the dialled connection: a Close that
   came during the dial wins. *)
Swap(p) ==
  /\ pc[p] = "swap"
  /\ \/ /\ closed
        /\ Goto(p, "closeNext")
        /\ UNCHANGED <<conn, held>>
     \/ /\ ~closed
        /\ conn' = held[p]
        /\ Hold(p, conn)
        /\ Goto(p, "closePrev")
  /\ UNCHANGED <<closed, readMu, writeMu, wire, dials, ret>>

(* The library's Close of held[p]: the close handshake is bounded by the
   library (seconds), after which the connection is gone on this side. *)
ShutHeld(p) ==
  /\ wire' = [k \in Conns |-> IF k = held[p] THEN "shut" ELSE wire[k]]
  /\ UNCHANGED <<conn, closed, readMu, writeMu>>

\* Mutant: the connection dialled for nothing is forgotten.
CloseNextForgotten(p) ==
  /\ pc[p] = "closeNext"
  /\ Return(p, "closed")
  /\ UNCHANGED <<conn, closed, readMu, writeMu, wire>>

CloseNext(p) == pc[p] = "closeNext" /\ ShutHeld(p) /\ Return(p, "closed")

\* Mutant: the replaced connection is not closed.
ClosePrevForgotten(p) ==
  /\ pc[p] = "closePrev"
  /\ Return(p, "nil")
  /\ UNCHANGED <<conn, closed, readMu, writeMu, wire>>

\* Mutant: a failed close handshake brings the replaced connection back.
ClosePrevRestores(p) ==
  /\ pc[p] = "closePrev"
  /\ conn' \in {conn, held[p]}
  /\ Return(p, "nil")
  /\ UNCHANGED <<closed, readMu, writeMu, wire>>

ClosePrev(p) == pc[p] = "closePrev" /\ ShutHeld(p) /\ Return(p, "nil")

-----------------------------------------------------------------------------
\* Mutant: Close drops the connection without closing it.
CloseStartOnly(p) ==
  /\ pc[p] = "close"
  /\ closed' = TRUE
  /\ conn' = NoConn
  /\ Return(p, "nil")
  /\ UNCHANGED <<readMu, writeMu, wire>>

CloseStart(p) ==
  /\ pc[p] = "close"
  /\ \/ /\ closed
        /\ Return(p, "nil")
        /\ UNCHANGED <<conn, closed>>
     \/ /\ ~closed
        /\ closed' = TRUE
        /\ conn' = NoConn
        /\ Hold(p, conn)
        /\ Goto(p, "closeWire")
        /\ UNCHANGED <<dials, ret>>
  /\ UNCHANGED <<readMu, writeMu, wire>>

(* The close handshake may fail, and Close reports it. *)
CloseWire(p, e) ==
  /\ pc[p] = "closeWire"
  /\ e \in {"nil", "broken"}
  /\ ShutHeld(p)
  /\ Return(p, e)

-----------------------------------------------------------------------------
(* The network drops a connection, or the peer closes it with a transient
   status. *)
Drop(k) ==
  /\ wire[k] = "open"
  /\ wire' = [wire EXCEPT ![k] = "lost"]
  /\ UNCHANGED <<conn, closed, readMu, writeMu, pc, held, dials, ret>>

(* The peer closes a connection with a final status. *)
Finish(k) ==
  /\ wire[k] = "open"
  /\ wire' = [wire EXCEPT ![k] = "finished"]
  /\ UNCHANGED <<conn, closed, readMu, writeMu, pc, held, dials, ret>>

-----------------------------------------------------------------------------
(* One step of a goroutine inside the wrapper *)
Step(p) ==
  \/ WriteFetch(p) \/ WriteLock(p) \/ \E e \in Errors : WriteFrame(p, e)
  \/ ReadFetch(p) \/ ReadLock(p) \/ \E e \in Errors : ReadFrame(p, e)
  \/ ReconnectStart(p)
  \/ \E k \in Conns : DialOk(p, k)
  \/ \E e \in Errors : DialFail(p, e)
  \/ Swap(p) \/ CloseNext(p) \/ ClosePrev(p)
  \/ CloseStart(p) \/ \E e \in Errors : CloseWire(p, e)

Environment == \E k \in Conns : Drop(k) \/ Finish(k)

ConnNext ==
  \/ \E p \in Procs : Step(p) \/ \E op \in Ops : Call(p, op)
  \/ Environment

ConnSpec == ConnInit /\ [][ConnNext]_connVars

-----------------------------------------------------------------------------
(***************************************************************************)
(* Fairness.  A goroutine that can run does, the library ends its close    *)
(* handshakes, and Go's mutexes pass to a waiter that has starved for a    *)
(* millisecond.  A dial, a write to a peer that does not drain and a read  *)
(* of a silent peer end only when the timeout is set or the connection is  *)
(* no longer open.                                                         *)
(***************************************************************************)
Due(p) ==
  /\ pc[p] \notin {"idle", "writeLock", "readLock"}
  /\ pc[p] = "dial" => "dial" \in Timeouts
  /\ pc[p] = "writeFrame" => wire[held[p]] # "open" \/ "write" \in Timeouts
  /\ pc[p] = "readFrame" => wire[held[p]] # "open" \/ "read" \in Timeouts

ConnFairness ==
  \A p \in Procs : /\ WF_connVars(Due(p) /\ Step(p))
                   /\ SF_connVars(WriteLock(p))
                   /\ SF_connVars(ReadLock(p))

ConnFairSpec == ConnSpec /\ ConnFairness

-----------------------------------------------------------------------------
TypeOK ==
  /\ conn \in Conns \cup {NoConn}
  /\ closed \in BOOLEAN
  /\ readMu \in Procs \cup {NoProc}
  /\ writeMu \in Procs \cup {NoProc}
  /\ wire \in [Conns -> Status]
  /\ pc \in [Procs -> Labels]
  /\ held \in [Procs -> Conns \cup {NoConn}]
  /\ dials \in [Procs -> 0 .. Attempts]
  /\ ret \in [Procs -> Errors]

(* p alone decides what happens to the connection it holds: it has dialled
   it and not installed it, or taken it out of the wrapper. *)
Owns(p, k) ==
  pc[p] \in {"swap", "closeNext", "closePrev", "closeWire"} /\ held[p] = k

(* No connection is left open behind the wrapper's back: an open one is the
   current one, or some call in flight is about to install or to close it.
   Reconnect that loses the race against Close (conn.go:157-163) and the
   connection a Reconnect replaces (168-170) are the cases at stake. *)
NoLeak ==
  \A k \in Conns : wire[k] = "open" => (k = conn \/ \E p \in Procs : Owns(p, k))

(* A connection has one owner: two calls never both close it or install it,
   and none owns the connection that is in use by the wrapper. *)
OneOwner ==
  \A p \in Procs, k \in Conns :
    Owns(p, k) => k # conn /\ \A q \in Procs \ {p} : ~Owns(q, k)

(* A dialled connection is private until Swap installs it: no reader and no
   writer can have it before (conn.go:144-166). *)
PrivateUntilInstalled ==
  \A p, q \in Procs :
    /\ p # q
    /\ pc[p] \in {"swap", "closeNext"}
    => held[q] # held[p]

(* currentConn never hands out a connection the wrapper has closed itself,
   and the wrapper has a connection exactly as long as it is not closed. *)
CurrentUsable ==
  /\ conn = NoConn <=> closed
  /\ conn # NoConn => wire[conn] \notin {"unused", "shut"}

(* Close is final: no Reconnect that was under way puts a connection back
   (conn.go:159-163). *)
ClosedFinal == [][closed => closed' /\ conn' = NoConn]_connVars

(* A read or write that works on a connection the wrapper has replaced or
   given up returns, even when no timeout is set: somebody closes that
   connection (conn.go:168-170, 194). *)
StaleCallsReturn ==
  \A p \in Procs : (pc[p] \in {"readFrame", "writeFrame"} /\ held[p] # conn)
                     ~> pc[p] = "idle"

(* Close releases every reader and writer, the ones that wait for a mutex
   included, even when no timeout is set. *)
CloseReleases ==
  \A p \in Procs : (closed /\ pc[p] \in {"readLock", "readFrame", "writeLock", "writeFrame"})
                     ~> pc[p] = "idle"

(* After Close every connection ends up closed for good, the ones dialled by
   a Reconnect in flight included, provided a dial ends. *)
EventuallyNoneOpen == closed ~> [](\A k \in Conns : wire[k] # "open")
=============================================================================
