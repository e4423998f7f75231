---------------------------- MODULE EventStream -----------------------------
(***************************************************************************)
(* What RealtimeSession.Events promises, without the connection, the       *)
(* channel and the goroutines behind it: the items the session receives    *)
(* come out once each and in order; an error is the last item; the end of  *)
(* the stream is reported after every item has come out, except that a     *)
(* Close may drop the one item the session was about to queue.             *)
(***************************************************************************)
EXTENDS Naturals, Sequences, TLAPS

CONSTANTS Items,    \* what the iterator can yield
          Errors,   \* the items that carry an error
          MaxItems  \* bound: items received

VARIABLES log,     \* items received, in order
          out,     \* items yielded, in order
          closed,  \* Close has been called
          ended    \* the iterator has returned for good

streamVars == <<log, out, closed, ended>>

StreamInit ==
  /\ log = <<>>
  /\ out = <<>>
  /\ closed = FALSE
  /\ ended = FALSE

(* An error has been received: nothing follows it. *)
Failed == log # <<>> /\ log[Len(log)] \in Errors

Receive(i) ==
  /\ ~Failed /\ ~ended /\ Len(log) < MaxItems
  /\ log' = Append(log, i)
  /\ UNCHANGED <<out, closed, ended>>

Deliver ==
  /\ ~ended
  /\ Len(out) < Len(log)
  /\ out' = Append(out, log[Len(out) + 1])
  /\ UNCHANGED <<log, closed, ended>>

Close ==
  /\ closed' = TRUE
  /\ UNCHANGED <<log, out, ended>>

End ==
  /\ ~ended
  /\ \/ Failed /\ Len(out) = Len(log)
     \/ closed /\ Len(out) + 1 >= Len(log)
  /\ ended' = TRUE
  /\ UNCHANGED <<log, out, closed>>

StreamNext ==
  \/ \E i \in Items : Receive(i)
  \/ Deliver \/ Close \/ End

StreamSpec == StreamInit /\ [][StreamNext]_streamVars

-----------------------------------------------------------------------------
StreamTypeOK ==
  /\ log \in Seq(Items) /\ Len(log) <= MaxItems
  /\ out \in Seq(Items)
  /\ closed \in BOOLEAN
  /\ ended \in BOOLEAN

(* What has come out is a prefix of what was received: nothing is lost,
   repeated or reordered on the way. *)
InOrder ==
  /\ Len(out) <= Len(log)
  /\ \A i \in 1 .. Len(out) : out[i] = log[i]

(* An error is the last thing received. *)
ErrorIsLast == \A i \in 1 .. Len(log) : log[i] \in Errors => i = Len(log)

(* A stream that ended without Close gave out everything, its error too. *)
EndIsComplete == (ended /\ ~closed) => (Failed /\ out = log)

-----------------------------------------------------------------------------
(* What follows from the promise, for any items and any number of them *)

(* An error closes the log, so it is found at its end only; what has ended
   without a Close has ended with an error that has come out. *)
StreamInv == StreamTypeOK /\ InOrder /\ ErrorIsLast /\ EndIsComplete

LEMMA StreamInvInit == MaxItems \in Nat /\ StreamInit => StreamInv
<1> SUFFICES ASSUME MaxItems \in Nat, StreamInit PROVE StreamInv
  OBVIOUS
<1>1. Len(log) = 0 /\ Len(out) = 0 /\ log \in Seq(Items) /\ out \in Seq(Items)
  BY DEF StreamInit
<1>2. StreamTypeOK
  <2>1. closed \in BOOLEAN /\ ended \in BOOLEAN
    BY DEF StreamInit
  <2>2. QED
    BY <1>1, <2>1 DEF StreamTypeOK
<1>3. InOrder /\ ErrorIsLast /\ EndIsComplete
  BY <1>1 DEF StreamInit, InOrder, ErrorIsLast, EndIsComplete
<1>4. QED
  BY <1>2, <1>3 DEF StreamInv

LEMMA StreamInvStep == MaxItems \in Nat /\ StreamInv /\ [StreamNext]_streamVars => StreamInv'
<1> SUFFICES ASSUME MaxItems \in Nat, StreamInv, [StreamNext]_streamVars PROVE StreamInv'
  OBVIOUS
<1> USE DEF StreamInv, StreamTypeOK, InOrder, ErrorIsLast, EndIsComplete, Failed
<1>1. ASSUME NEW i \in Items, Receive(i) PROVE StreamInv'
  <2>1. /\ log' \in Seq(Items) /\ Len(log') = Len(log) + 1 /\ Len(log') <= MaxItems
        /\ \A j \in 1 .. Len(log) : log'[j] = log[j]
        /\ out' = out
    BY <1>1 DEF Receive
  <2>2. StreamTypeOK'
    BY <1>1, <2>1 DEF Receive
  <2>3. InOrder' /\ EndIsComplete'
    BY <1>1, <2>1 DEF Receive
  <2>4. ErrorIsLast'
    BY <1>1, <2>1 DEF Receive
  <2>5. QED
    BY <2>2, <2>3, <2>4
<1>2. CASE Deliver
  BY <1>2 DEF Deliver
<1>3. CASE Close
  BY <1>3 DEF Close
<1>4. CASE End
  <2>1. StreamTypeOK' /\ InOrder' /\ ErrorIsLast'
    BY <1>4 DEF End
  <2>2. EndIsComplete'
    BY <1>4 DEF End
  <2>3. QED
    BY <2>1, <2>2
<1>5. CASE UNCHANGED streamVars
  BY <1>5 DEF streamVars
<1>6. QED
  BY <1>1, <1>2, <1>3, <1>4, <1>5 DEF StreamNext

(* Nothing is lost, repeated or reordered, an error is the last item, and a
   stream that ended by itself gave out everything. *)
THEOREM PromiseKept ==
  ASSUME MaxItems \in Nat
  PROVE  StreamSpec => [](InOrder /\ ErrorIsLast /\ EndIsComplete)
<1>1. StreamInit => StreamInv
  BY StreamInvInit
<1>2. StreamInv /\ [StreamNext]_streamVars => StreamInv'
  BY StreamInvStep
<1>3. StreamInv => InOrder /\ ErrorIsLast /\ EndIsComplete
  BY DEF StreamInv
<1>4. QED
  BY <1>1, <1>2, <1>3, PTL DEF StreamSpec
=============================================================================
