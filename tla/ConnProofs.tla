----------------------------- MODULE ConnProofs -----------------------------
(***************************************************************************)
(* Proofs about module Conn for any set of goroutines, any supply of       *)
(* connections, any number of attempts and any timeouts.                   *)
(***************************************************************************)
EXTENDS Conn, TLAPS

(* TypeOK is inductive: no step leaves the types. *)
LEMMA TypeInit == ConnInit => TypeOK
<1> SUFFICES ASSUME ConnInit PROVE TypeOK OBVIOUS
<1> USE DEF ConnInit
<1>1. conn \in Conns \cup {NoConn} OBVIOUS
<1>2. closed \in BOOLEAN OBVIOUS
<1>3. readMu \in Procs \cup {NoProc} /\ writeMu \in Procs \cup {NoProc} OBVIOUS
<1>4. wire \in [Conns -> Status] BY DEF Status
<1>5. pc \in [Procs -> Labels] BY DEF Labels
<1>6. held \in [Procs -> Conns \cup {NoConn}] OBVIOUS
<1>7. dials \in [Procs -> 0 .. Attempts] BY ConnAssumption
<1>8. ret \in [Procs -> Errors] BY DEF Errors
<1> QED BY <1>1, <1>2, <1>3, <1>4, <1>5, <1>6, <1>7, <1>8 DEF TypeOK

(* The locals of a goroutine whose call returns keep their types. *)
LEMMA ReturnType ==
  ASSUME TypeOK, NEW p \in Procs, NEW e \in Errors, Return(p, e)
  PROVE  /\ pc' \in [Procs -> Labels]
         /\ held' \in [Procs -> Conns \cup {NoConn}]
         /\ dials' \in [Procs -> 0 .. Attempts]
         /\ ret' \in [Procs -> Errors]
  BY ConnAssumption DEF TypeOK, Return, Goto, Hold, Labels, Ops

LEMMA TypeStep == TypeOK /\ [ConnNext]_connVars => TypeOK'
<1> SUFFICES ASSUME TypeOK, [ConnNext]_connVars PROVE TypeOK'
  OBVIOUS
<1> USE ConnAssumption DEF TypeOK, Errors, Labels, Ops, Return, Goto, Hold
<1>1. ASSUME NEW p \in Procs, NEW op \in Ops, Call(p, op) PROVE TypeOK'
  BY <1>1 DEF Call
<1>2. ASSUME NEW p \in Procs, WriteFetch(p) \/ ReadFetch(p) PROVE TypeOK'
  BY <1>2 DEF WriteFetch, ReadFetch, Fetch
<1>3. ASSUME NEW p \in Procs, WriteLock(p) \/ ReadLock(p) PROVE TypeOK'
  BY <1>3 DEF WriteLock, ReadLock
<1>4. ASSUME NEW p \in Procs, NEW e \in Errors, WriteFrame(p, e) PROVE TypeOK'
  <2>1. wire' \in [Conns -> Status]
    BY <1>4 DEF WriteFrame, Status
  <2>2. QED
    BY <1>4, <2>1, ReturnType DEF WriteFrame
<1>5. ASSUME NEW p \in Procs, NEW e \in Errors, ReadFrame(p, e) PROVE TypeOK'
  <2>1. wire' \in [Conns -> Status]
    BY <1>5 DEF ReadFrame, Status
  <2>2. QED
    BY <1>5, <2>1, ReturnType DEF ReadFrame
<1>6. ASSUME NEW p \in Procs, ReconnectStart(p) PROVE TypeOK'
  BY <1>6 DEF ReconnectStart
<1>7. ASSUME NEW p \in Procs, NEW k \in Conns, DialOk(p, k) PROVE TypeOK'
  BY <1>7 DEF DialOk, Status
<1>8. ASSUME NEW p \in Procs, NEW e \in Errors, DialFail(p, e) PROVE TypeOK'
  BY <1>8 DEF DialFail
<1>9. ASSUME NEW p \in Procs, Swap(p) PROVE TypeOK'
  BY <1>9 DEF Swap
<1>10. ASSUME NEW p \in Procs, CloseNext(p) \/ ClosePrev(p) PROVE TypeOK'
  BY <1>10 DEF CloseNext, ClosePrev, ShutHeld, Status
<1>11. ASSUME NEW p \in Procs, CloseStart(p) PROVE TypeOK'
  <2>1. CASE closed
    BY <1>11, <2>1, ReturnType DEF CloseStart
  <2>2. CASE ~closed
    BY <1>11, <2>2 DEF CloseStart
  <2>3. QED
    BY <2>1, <2>2
<1>12. ASSUME NEW p \in Procs, NEW e \in Errors, CloseWire(p, e) PROVE TypeOK'
  BY <1>12 DEF CloseWire, ShutHeld, Status
<1>13. ASSUME NEW k \in Conns, Drop(k) \/ Finish(k) PROVE TypeOK'
  BY <1>13 DEF Drop, Finish, Status
<1>14. CASE UNCHANGED connVars
  BY <1>14 DEF connVars
<1>15. QED
  BY <1>1, <1>2, <1>3, <1>4, <1>5, <1>6, <1>7, <1>8, <1>9, <1>10, <1>11, <1>12, <1>13, <1>14
  DEF ConnNext, Step, Environment

(* Type correctness of the wrapper. *)
THEOREM TypeCorrect == ConnSpec => []TypeOK
  BY TypeInit, TypeStep, PTL DEF ConnSpec

-----------------------------------------------------------------------------
(***************************************************************************)
(* Who owns which connection.  The safety invariants of Conn are not       *)
(* inductive by themselves: that a fresh connection has no other user      *)
(* rests on a held connection never being an unused one, and that Swap     *)
(* installs a usable one on nobody shutting it before.                     *)
(***************************************************************************)
Owning == {"swap", "closeNext", "closePrev", "closeWire"}

HeldIsUsed == \A p \in Procs : held[p] \in Conns => wire[held[p]] # "unused"

DialledIsUsable ==
  \A p \in Procs : /\ pc[p] \in {"swap", "closeNext"} => held[p] \in Conns
                   /\ pc[p] = "swap" => wire[held[p]] # "shut"

Ownership ==
  /\ NoLeak
  /\ OneOwner
  /\ PrivateUntilInstalled
  /\ CurrentUsable
  /\ HeldIsUsed
  /\ DialledIsUsable

(* A step that opens no connection and shuts none, and at which no goroutine
   gains or gives up a connection of its own, keeps the ownership. *)
LEMMA QuietStep ==
  ASSUME TypeOK, TypeOK', Ownership,
         conn' = conn, closed' = closed,
         \A k \in Conns : wire'[k] \in {"unused", "open", "shut"} => wire'[k] = wire[k],
         \A p \in Procs :
           \/ pc'[p] = pc[p] /\ held'[p] = held[p]
           \/ /\ pc[p] \notin Owning /\ pc'[p] \notin Owning
              /\ held'[p] \in {NoConn, conn, held[p]}
  PROVE  Ownership'
<1> USE ConnAssumption DEF Owning
<1>1. \A p \in Procs, k \in Conns : Owns(p, k)' <=> Owns(p, k)
  BY DEF Owns
<1>2. NoLeak'
  BY <1>1 DEF Ownership, NoLeak, TypeOK
<1>3. OneOwner'
  BY <1>1 DEF Ownership, OneOwner
<1>4. CurrentUsable'
  BY DEF Ownership, CurrentUsable, TypeOK
<1>5. HeldIsUsed'
  BY DEF Ownership, HeldIsUsed, CurrentUsable, TypeOK
<1>6. DialledIsUsable'
  BY DEF Ownership, DialledIsUsable, TypeOK
<1>7. PrivateUntilInstalled'
  <2> SUFFICES ASSUME NEW p \in Procs, NEW q \in Procs, p # q, pc'[p] \in {"swap", "closeNext"}
               PROVE  held'[q] # held'[p]
    BY DEF PrivateUntilInstalled
  <2>1. pc[p] = pc'[p] /\ held'[p] = held[p] /\ held[p] \in Conns
    BY DEF Ownership, DialledIsUsable
  <2>2. held[q] # held[p] /\ held[p] # conn
    BY <2>1 DEF Ownership, PrivateUntilInstalled, OneOwner, Owns
  <2>3. QED
    BY <2>1, <2>2
<1>8. QED
  BY <1>2, <1>3, <1>4, <1>5, <1>6, <1>7 DEF Ownership

(* Closing the connection one owns, and returning. *)
LEMMA ShutStep ==
  ASSUME TypeOK, TypeOK', Ownership, NEW p \in Procs, NEW e \in Errors,
         pc[p] \in {"closeNext", "closePrev", "closeWire"}, ShutHeld(p), Return(p, e)
  PROVE  Ownership'
<1> USE ConnAssumption DEF ShutHeld, Return, Goto, Hold
<1>1. /\ conn' = conn /\ closed' = closed
      /\ pc'[p] = "idle" /\ held'[p] = NoConn
      /\ \A q \in Procs \ {p} : pc'[q] = pc[q] /\ held'[q] = held[q]
  BY DEF TypeOK
<1>2. \A k \in Conns : /\ Owns(p, k) => wire'[k] = "shut"
                       /\ ~Owns(p, k) => wire'[k] = wire[k]
  BY DEF Owns, TypeOK
<1>3. \A q \in Procs, k \in Conns : Owns(q, k)' <=> q # p /\ Owns(q, k)
  BY <1>1 DEF Owns
<1>4. NoLeak'
  BY <1>1, <1>2, <1>3 DEF Ownership, NoLeak
<1>5. OneOwner'
  BY <1>1, <1>3 DEF Ownership, OneOwner
<1>6. CurrentUsable'
  BY <1>1, <1>2 DEF Ownership, CurrentUsable, OneOwner, TypeOK
<1>7. HeldIsUsed'
  BY <1>1, <1>2 DEF Ownership, HeldIsUsed
<1>8. DialledIsUsable'
  BY <1>1, <1>2 DEF Ownership, DialledIsUsable, OneOwner, Owns
<1>9. PrivateUntilInstalled'
  BY <1>1 DEF Ownership, PrivateUntilInstalled, DialledIsUsable
<1>10. QED
  BY <1>4, <1>5, <1>6, <1>7, <1>8, <1>9 DEF Ownership

(* A dial that succeeds gives p a connection nobody has. *)
LEMMA DialStep ==
  ASSUME TypeOK, TypeOK', Ownership, NEW p \in Procs, NEW k \in Conns, DialOk(p, k)
  PROVE  Ownership'
<1> USE ConnAssumption DEF DialOk, Goto, Hold
<1>1. /\ conn' = conn /\ closed' = closed
      /\ pc'[p] = "swap" /\ held'[p] = k
      /\ \A q \in Procs \ {p} : pc'[q] = pc[q] /\ held'[q] = held[q]
      /\ wire'[k] = "open"
      /\ \A j \in Conns \ {k} : wire'[j] = wire[j]
  BY DEF TypeOK
<1>2. k # conn /\ \A q \in Procs : held[q] # k
  BY DEF Ownership, CurrentUsable, HeldIsUsed
<1>3. \A q \in Procs, j \in Conns : Owns(q, j)' <=> (q = p /\ j = k) \/ (q # p /\ Owns(q, j))
  BY <1>1 DEF Owns
<1>4. \A j \in Conns : ~Owns(p, j)
  BY DEF Owns
<1>5. NoLeak'
  BY <1>1, <1>3, <1>4 DEF Ownership, NoLeak
<1>6. OneOwner'
  <2>1. \A q \in Procs : ~Owns(q, k)
    BY <1>2 DEF Owns
  <2>2. QED
    BY <1>1, <1>2, <1>3, <2>1 DEF Ownership, OneOwner
<1>7. CurrentUsable'
  BY <1>1, <1>2 DEF Ownership, CurrentUsable, TypeOK
<1>8. HeldIsUsed'
  BY <1>1, <1>2 DEF Ownership, HeldIsUsed
<1>9. DialledIsUsable'
  BY <1>1, <1>2 DEF Ownership, DialledIsUsable
<1>10. PrivateUntilInstalled'
  BY <1>1, <1>2 DEF Ownership, PrivateUntilInstalled
<1>11. QED
  BY <1>5, <1>6, <1>7, <1>8, <1>9, <1>10 DEF Ownership

(* Swap exchanges the dialled connection for the current one, or leaves both
   where they are. *)
LEMMA SwapStep ==
  ASSUME TypeOK, TypeOK', Ownership, NEW p \in Procs, Swap(p)
  PROVE  Ownership'
<1> USE ConnAssumption DEF Swap, Goto, Hold
<1>1. /\ wire' = wire /\ closed' = closed
      /\ \A q \in Procs \ {p} : pc'[q] = pc[q] /\ held'[q] = held[q]
      /\ pc[p] = "swap"
  BY DEF TypeOK
<1>2. held[p] \in Conns /\ Owns(p, held[p]) /\ held[p] # conn
  BY <1>1 DEF Ownership, DialledIsUsable, OneOwner, Owns
<1>3. CASE closed
  <2>1. pc'[p] = "closeNext" /\ held'[p] = held[p] /\ conn' = conn
    BY <1>3 DEF TypeOK
  <2>2. \A q \in Procs, k \in Conns : Owns(q, k)' <=> Owns(q, k)
    BY <1>1, <2>1 DEF Owns
  <2>3. NoLeak' /\ OneOwner'
    BY <1>1, <2>1, <2>2 DEF Ownership, NoLeak, OneOwner
  <2>4. CurrentUsable' /\ HeldIsUsed' /\ DialledIsUsable'
    BY <1>1, <1>2, <2>1 DEF Ownership, CurrentUsable, HeldIsUsed, DialledIsUsable
  <2>5. PrivateUntilInstalled'
    BY <1>1, <2>1 DEF Ownership, PrivateUntilInstalled
  <2>6. QED
    BY <2>3, <2>4, <2>5 DEF Ownership
<1>4. CASE ~closed
  <2>1. pc'[p] = "closePrev" /\ held'[p] = conn /\ conn' = held[p]
    BY <1>4 DEF TypeOK
  <2>2. \A q \in Procs, k \in Conns :
          Owns(q, k)' <=> (q = p /\ k = conn) \/ (q # p /\ Owns(q, k))
    BY <1>1, <2>1 DEF Owns
  <2>3. \A k \in Conns : Owns(p, k) => k = held[p]
    BY DEF Owns
  <2>4. NoLeak'
    BY <1>1, <2>1, <2>2, <2>3 DEF Ownership, NoLeak
  <2>5. OneOwner'
    BY <1>2, <2>1, <2>2 DEF Ownership, OneOwner
  <2>6. CurrentUsable'
    BY <1>1, <1>2, <1>4, <2>1 DEF Ownership, CurrentUsable, HeldIsUsed, DialledIsUsable
  <2>7. HeldIsUsed'
    BY <1>1, <2>1 DEF Ownership, HeldIsUsed, CurrentUsable
  <2>8. DialledIsUsable'
    BY <1>1, <2>1 DEF Ownership, DialledIsUsable
  <2>9. PrivateUntilInstalled'
    <3> SUFFICES ASSUME NEW q \in Procs, NEW o \in Procs, q # o,
                        pc'[q] \in {"swap", "closeNext"}
                 PROVE  held'[o] # held'[q]
      BY DEF PrivateUntilInstalled
    <3>1. q # p /\ held'[q] = held[q] /\ held[q] \in Conns /\ Owns(q, held[q])
      BY <1>1, <2>1 DEF Ownership, DialledIsUsable, Owns
    <3>2. held[q] # conn
      BY <3>1 DEF Ownership, OneOwner
    <3>3. CASE o = p
      BY <3>1, <3>2, <3>3, <2>1
    <3>4. CASE o # p
      BY <1>1, <3>1, <3>4 DEF Ownership, PrivateUntilInstalled
    <3>5. QED
      BY <3>3, <3>4
  <2>10. QED
    BY <2>4, <2>5, <2>6, <2>7, <2>8, <2>9 DEF Ownership
<1>5. QED
  BY <1>3, <1>4

(* Close takes the current connection out of the wrapper. *)
LEMMA CloseStep ==
  ASSUME TypeOK, TypeOK', Ownership, NEW p \in Procs, CloseStart(p), ~closed
  PROVE  Ownership'
<1> USE ConnAssumption DEF CloseStart, Goto, Hold
<1>1. /\ wire' = wire /\ closed' /\ conn' = NoConn
      /\ pc'[p] = "closeWire" /\ held'[p] = conn
      /\ \A q \in Procs \ {p} : pc'[q] = pc[q] /\ held'[q] = held[q]
  BY DEF TypeOK
<1>2. \A q \in Procs, k \in Conns :
        Owns(q, k)' <=> (q = p /\ k = conn) \/ (q # p /\ Owns(q, k))
  BY <1>1 DEF Owns
<1>3. \A k \in Conns : ~Owns(p, k)
  BY DEF Owns
<1>4. NoLeak'
  BY <1>1, <1>2, <1>3 DEF Ownership, NoLeak
<1>5. OneOwner'
  BY <1>1, <1>2 DEF Ownership, OneOwner
<1>6. CurrentUsable'
  BY <1>1 DEF Ownership, CurrentUsable
<1>7. HeldIsUsed'
  BY <1>1 DEF Ownership, HeldIsUsed, CurrentUsable
<1>8. DialledIsUsable'
  BY <1>1 DEF Ownership, DialledIsUsable
<1>9. PrivateUntilInstalled'
  <2> SUFFICES ASSUME NEW q \in Procs, NEW o \in Procs, q # o,
                      pc'[q] \in {"swap", "closeNext"}
               PROVE  held'[o] # held'[q]
    BY DEF PrivateUntilInstalled
  <2>1. q # p /\ held'[q] = held[q] /\ held[q] \in Conns /\ held[q] # conn
    BY <1>1 DEF Ownership, DialledIsUsable, OneOwner, Owns
  <2>2. QED
    BY <1>1, <2>1 DEF Ownership, PrivateUntilInstalled
<1>10. QED
  BY <1>4, <1>5, <1>6, <1>7, <1>8, <1>9 DEF Ownership

-----------------------------------------------------------------------------
LEMMA OwnershipInit == ConnInit => Ownership
  BY ConnAssumption
  DEF ConnInit, Ownership, NoLeak, OneOwner, PrivateUntilInstalled, CurrentUsable,
      HeldIsUsed, DialledIsUsable, Owns

LEMMA OwnershipStep == TypeOK /\ Ownership /\ [ConnNext]_connVars => Ownership'
<1> SUFFICES ASSUME TypeOK, Ownership, [ConnNext]_connVars PROVE Ownership'
  OBVIOUS
<1>0. TypeOK'
  BY TypeStep
<1> USE ConnAssumption, <1>0 DEF Goto, Hold, Owning
<1>1. ASSUME NEW p \in Procs, NEW op \in Ops, Call(p, op) PROVE Ownership'
  BY <1>1, QuietStep DEF Call, TypeOK, Ops
<1>2. ASSUME NEW p \in Procs, WriteFetch(p) \/ ReadFetch(p) PROVE Ownership'
  BY <1>2, QuietStep DEF WriteFetch, ReadFetch, Fetch, Return, TypeOK
<1>3. ASSUME NEW p \in Procs, WriteLock(p) \/ ReadLock(p) PROVE Ownership'
  BY <1>3, QuietStep DEF WriteLock, ReadLock, TypeOK
<1>4. ASSUME NEW p \in Procs, NEW e \in Errors, WriteFrame(p, e) PROVE Ownership'
  BY <1>4, QuietStep DEF WriteFrame, Return, TypeOK
<1>5. ASSUME NEW p \in Procs, NEW e \in Errors, ReadFrame(p, e) PROVE Ownership'
  BY <1>5, QuietStep DEF ReadFrame, Return, TypeOK
<1>6. ASSUME NEW p \in Procs, ReconnectStart(p) PROVE Ownership'
  BY <1>6, QuietStep DEF ReconnectStart, Return, TypeOK
<1>7. ASSUME NEW p \in Procs, NEW k \in Conns, DialOk(p, k) PROVE Ownership'
  BY <1>7, DialStep
<1>8. ASSUME NEW p \in Procs, NEW e \in Errors, DialFail(p, e) PROVE Ownership'
  BY <1>8, QuietStep DEF DialFail, Return, TypeOK
<1>9. ASSUME NEW p \in Procs, Swap(p) PROVE Ownership'
  BY <1>9, SwapStep
<1>10. ASSUME NEW p \in Procs, CloseNext(p) \/ ClosePrev(p) PROVE Ownership'
  BY <1>10, ShutStep DEF CloseNext, ClosePrev, Errors
<1>11. ASSUME NEW p \in Procs, CloseStart(p) PROVE Ownership'
  <2>1. CASE closed
    BY <1>11, <2>1, QuietStep DEF CloseStart, Return, TypeOK
  <2>2. CASE ~closed
    BY <1>11, <2>2, CloseStep
  <2>3. QED
    BY <2>1, <2>2
<1>12. ASSUME NEW p \in Procs, NEW e \in Errors, CloseWire(p, e) PROVE Ownership'
  BY <1>12, ShutStep DEF CloseWire
<1>13. ASSUME NEW k \in Conns, Drop(k) \/ Finish(k) PROVE Ownership'
  BY <1>13, QuietStep DEF Drop, Finish, TypeOK
<1>14. CASE UNCHANGED connVars
  BY <1>14, QuietStep DEF connVars, TypeOK
<1>15. QED
  BY <1>1, <1>2, <1>3, <1>4, <1>5, <1>6, <1>7, <1>8, <1>9, <1>10, <1>11, <1>12, <1>13, <1>14
  DEF ConnNext, Step, Environment

LEMMA OwnershipHolds == ConnSpec => [](TypeOK /\ Ownership)
<1>1. ConnInit => TypeOK /\ Ownership
  BY TypeInit, OwnershipInit
<1>2. TypeOK /\ Ownership /\ [ConnNext]_connVars => (TypeOK /\ Ownership)'
  BY TypeStep, OwnershipStep
<1>3. QED
  BY <1>1, <1>2, PTL DEF ConnSpec

(* No open connection is ever lost from sight. *)
THEOREM NothingLeaks == ConnSpec => []NoLeak
<1>1. Ownership => NoLeak
  BY DEF Ownership
<1>2. QED
  BY <1>1, OwnershipHolds, PTL

(* No connection is installed or closed by two calls at once. *)
THEOREM Exclusive == ConnSpec => []OneOwner
<1>1. Ownership => OneOwner
  BY DEF Ownership
<1>2. QED
  BY <1>1, OwnershipHolds, PTL

(* No call uses a connection before it is installed. *)
THEOREM Private == ConnSpec => []PrivateUntilInstalled
<1>1. Ownership => PrivateUntilInstalled
  BY DEF Ownership
<1>2. QED
  BY <1>1, OwnershipHolds, PTL

(* The wrapper never hands out what it has closed. *)
THEOREM Usable == ConnSpec => []CurrentUsable
<1>1. Ownership => CurrentUsable
  BY DEF Ownership
<1>2. QED
  BY <1>1, OwnershipHolds, PTL

(* A goroutine that reads or writes holds a connection: currentConn never
   hands out nil. *)
FrameHasConn ==
  \A p \in Procs :
    pc[p] \in {"writeLock", "writeFrame", "readLock", "readFrame"} => held[p] \in Conns

LEMMA FrameHasConnStep ==
  TypeOK /\ FrameHasConn /\ [ConnNext]_connVars => FrameHasConn'
<1> SUFFICES ASSUME TypeOK, FrameHasConn, [ConnNext]_connVars PROVE FrameHasConn'
  OBVIOUS
<1> USE ConnAssumption DEF TypeOK, FrameHasConn, Goto, Hold, Return
<1>1. ASSUME NEW p \in Procs, NEW op \in Ops, Call(p, op) PROVE FrameHasConn'
  BY <1>1 DEF Call, Ops
<1>2. ASSUME NEW p \in Procs,
             WriteFetch(p) \/ ReadFetch(p) \/ WriteLock(p) \/ ReadLock(p)
      PROVE  FrameHasConn'
  BY <1>2 DEF WriteFetch, ReadFetch, Fetch, WriteLock, ReadLock
<1>3. ASSUME NEW p \in Procs, NEW e \in Errors, WriteFrame(p, e) \/ ReadFrame(p, e)
      PROVE  FrameHasConn'
  BY <1>3 DEF WriteFrame, ReadFrame
<1>4. ASSUME NEW p \in Procs, ReconnectStart(p) PROVE FrameHasConn'
  BY <1>4 DEF ReconnectStart
<1>5. ASSUME NEW p \in Procs, NEW k \in Conns, DialOk(p, k) PROVE FrameHasConn'
  BY <1>5 DEF DialOk
<1>6. ASSUME NEW p \in Procs, NEW e \in Errors, DialFail(p, e) PROVE FrameHasConn'
  BY <1>6 DEF DialFail
<1>7. ASSUME NEW p \in Procs, Swap(p) \/ CloseNext(p) \/ ClosePrev(p) \/ CloseStart(p)
      PROVE  FrameHasConn'
  BY <1>7 DEF Swap, CloseNext, ClosePrev, CloseStart
<1>8. ASSUME NEW p \in Procs, NEW e \in Errors, CloseWire(p, e) PROVE FrameHasConn'
  BY <1>8 DEF CloseWire
<1>9. CASE Environment \/ UNCHANGED connVars
  BY <1>9 DEF Environment, Drop, Finish, connVars
<1>10. QED
  BY <1>1, <1>2, <1>3, <1>4, <1>5, <1>6, <1>7, <1>8, <1>9 DEF ConnNext, Step

LEMMA FrameHasConnHolds == ConnSpec => []FrameHasConn
<1>1. ConnInit => FrameHasConn
  BY DEF ConnInit, FrameHasConn
<1>2. QED
  BY <1>1, FrameHasConnStep, TypeCorrect, PTL DEF ConnSpec

(* Close is final, whatever Reconnect is under way. *)
THEOREM CloseIsFinal == ConnSpec => ClosedFinal
<1> DEFINE Final == closed => closed' /\ conn' = NoConn
<1>1. ASSUME Ownership, [ConnNext]_connVars PROVE Final
  <2> SUFFICES ASSUME closed PROVE closed' /\ conn' = NoConn
    OBVIOUS
  <2>1. conn = NoConn
    BY <1>1 DEF Ownership, CurrentUsable
  <2>2. CASE UNCHANGED connVars
    BY <2>1, <2>2 DEF connVars
  <2>3. CASE \E p \in Procs : \E op \in Ops : Call(p, op)
    BY <2>1, <2>3 DEF Call
  <2>4. CASE Environment
    BY <2>1, <2>4 DEF Environment, Drop, Finish
  <2>5. ASSUME NEW p \in Procs, Step(p) PROVE closed' /\ conn' = NoConn
    BY <2>1, <2>5
    DEF Step, WriteFetch, ReadFetch, Fetch, WriteLock, ReadLock, WriteFrame, ReadFrame,
        ReconnectStart, DialOk, DialFail, Swap, CloseNext, ClosePrev, CloseStart,
        CloseWire, ShutHeld
  <2>6. QED
    BY <1>1, <2>2, <2>3, <2>4, <2>5 DEF ConnNext
<1>2. Ownership /\ [ConnNext]_connVars => [Final]_connVars
  BY <1>1
<1>3. QED
  BY <1>2, OwnershipHolds, PTL DEF ConnSpec, ClosedFinal
=============================================================================
