---------------------------- MODULE ConnectionProofs ----------------------------
(***************************************************************************)
(* The two connections to TradeLocker.  The client of the REST interface:   *)
(* its lock and tokens for every number of requests, attempts and tokens.   *)
(* The stream client: its safety for every number of buffered messages and  *)
(* every saturation of the backoff.                                         *)
(***************************************************************************)
EXTENDS TradeLockerAuth, WebSocketClient, TLAPS

-----------------------------------------------------------------------------
(***************************************************************************)
(* The REST interface.                                                      *)
(***************************************************************************)
PCs == CallerPC \cup RefresherPC

\* The part of the type the argument needs; the queue plays no role in it.
Shape ==
    /\ pc \in [Tasks -> PCs]
    /\ owner \in Tasks \cup {Nobody}
    /\ access \in Nat
    /\ issued \in Nat
    /\ got \in [Tasks -> Nat]

\* An answer that carries a token is received under the lock, so it is the
\* newest one.  The bound on access is what makes this inductive: a token
\* issued now is newer than the one in use.
AnswerIsNewer ==
    /\ access <= issued
    /\ \A t \in Tasks : pc[t] \in {"authed", "refreshed"} => got[t] >= access
    /\ \A t \in Tasks : got[t] <= issued

AuthInv == Shape /\ LockAccounted /\ AnswerIsNewer

LEMMA AuthInit == Init => AuthInv
  <1> SUFFICES ASSUME Init PROVE AuthInv
    OBVIOUS
  <1>1. \A t \in Tasks : pc[t] \in {"asleep", "idle"}
    BY DEF Init
  <1>2. Shape
    BY DEF Init, Shape, PCs, CallerPC, RefresherPC
  <1>3. LockAccounted
    BY <1>1 DEF Init, LockAccounted
  <1>4. AnswerIsNewer
    BY <1>1 DEF Init, AnswerIsNewer
  <1> QED
    BY <1>2, <1>3, <1>4 DEF AuthInv

LEMMA AuthStep == AuthInv /\ [Next]_vars => AuthInv' /\ access' >= access
  <1> SUFFICES ASSUME AuthInv, [Next]_vars PROVE AuthInv' /\ access' >= access
    OBVIOUS
  <1> USE AuthAssumption DEF AuthAssumption, AuthInv, Shape, LockAccounted,
        AnswerIsNewer, PCs, CallerPC, RefresherPC, Tasks, Goto, lockVars,
        tokenVars, callVars, serverVars
  <1>1. ASSUME NEW c \in Callers, Send(c) PROVE AuthInv' /\ access' >= access
    BY <1>1 DEF Send
  <1>2. ASSUME NEW c \in Callers, Answered(c) PROVE AuthInv' /\ access' >= access
    BY <1>2 DEF Answered
  <1>3. ASSUME NEW c \in Callers, Unauthorized(c) PROVE AuthInv' /\ access' >= access
    BY <1>3 DEF Unauthorized, Queue
  <1>4. ASSUME NEW c \in Callers, RequestRaised(c) PROVE AuthInv' /\ access' >= access
    BY <1>4 DEF RequestRaised, RetryOrRaise
  <1>5. ASSUME NEW t \in Tasks, AuthEnter(t) PROVE AuthInv' /\ access' >= access
    BY <1>5 DEF AuthEnter, Enter, MayEnter
  <1>6. ASSUME NEW t \in Tasks, NEW from \in {"auth", "refresh"},
               NEW to \in {"authed", "refreshed"}, Issue(t, from, to)
        PROVE  AuthInv' /\ access' >= access
    BY <1>6 DEF Issue
  <1>7. ASSUME NEW c \in Callers, CallerAuthStored(c) PROVE AuthInv' /\ access' >= access
    BY <1>7 DEF CallerAuthStored, Release
  <1>8. ASSUME NEW c \in Callers, CallerAuthRaised(c) PROVE AuthInv' /\ access' >= access
    BY <1>8 DEF CallerAuthRaised, RetryOrRaise, OwnerAfterRaise
  <1>9. CASE Wake
    BY <1>9 DEF Wake, Queue
  <1>10. CASE RefreshEnter
    BY <1>10 DEF RefreshEnter, Enter, MayEnter
  <1>11. CASE RefreshRefused
    BY <1>11 DEF RefreshRefused, Queue
  <1>12. CASE RefresherStored
    BY <1>12 DEF RefresherStored, Release
  <1>13. CASE RefresherRaised
    BY <1>13 DEF RefresherRaised, OwnerAfterRaise
  <1>14. CASE Close
    BY <1>14 DEF Close
  <1>15. CASE Expire
    BY <1>15 DEF Expire
  <1>16. CASE UNCHANGED vars
    BY <1>16 DEF vars
  <1>17. ASSUME NEW c \in Callers, CallerStep(c) PROVE AuthInv' /\ access' >= access
    <2>1. Issue(c, "auth", "authed") => AuthInv' /\ access' >= access
      BY <1>6
    <2> QED
      BY <1>17, <2>1, <1>2, <1>3, <1>4, <1>5, <1>7, <1>8 DEF CallerStep
  <1>18. CASE RefresherStep
    <2>1. Refresher \in Tasks
      OBVIOUS
    <2>2. Issue(Refresher, "refresh", "refreshed") => AuthInv' /\ access' >= access
      BY <2>1, <1>6
    <2>3. Issue(Refresher, "auth", "authed") => AuthInv' /\ access' >= access
      BY <2>1, <1>6
    <2> QED
      BY <1>18, <2>1, <2>2, <2>3, <1>5, <1>10, <1>11, <1>12, <1>13 DEF RefresherStep
  <1> QED
    BY <1>1, <1>9, <1>14, <1>15, <1>16, <1>17, <1>18 DEF Next

(* _auth_lock is never leaked and never shared: on every path through       *)
(* _authenticate and _refresh, a raised exception and a cancelled refresh   *)
(* loop included, only a task inside holds it.                              *)
THEOREM LockNeverLeaked == Spec => []LockAccounted
  <1>1. AuthInv => LockAccounted
    BY DEF AuthInv
  <1> QED
    BY <1>1, AuthInit, AuthStep, PTL DEF Spec

(* The refresh loop and any number of re-authenticating requests replace    *)
(* the access token by newer ones only.                                     *)
THEOREM TokensAdvance == Spec => TokenNeverOlder
  <1>1. AuthInv /\ [Next]_vars => [access' >= access]_access
    BY AuthStep
  <1> QED
    BY <1>1, AuthInit, AuthStep, PTL DEF Spec, TokenNeverOlder

-----------------------------------------------------------------------------
(***************************************************************************)
(* The stream.                                                              *)
(***************************************************************************)

\* What HandleIsCurrent needs of the types: no number plays a role in it.
StreamInv ==
    /\ run \in RunPC
    /\ stopSet \in BOOLEAN
    /\ ws \in {"none", "open", "closed"}
    /\ stopper \in StopperPC
    /\ HandleIsCurrent
    /\ RunsUntilStopped

LEMMA StreamStart == StreamInit => StreamInv
  BY DEF StreamInit, StreamInv, RunPC, StopperPC,
         HandleIsCurrent, RunsUntilStopped

\* The finally clause and what follows it.
LEMMA LeaveKeeps ==
    ASSUME StreamInv, Leave, run # "done"
    PROVE  StreamInv'
  BY DEF StreamInv, Leave, HandleIsCurrent, RunsUntilStopped,
         RunPC, StopperPC, HandleAfter, RunAfter

LEMMA StreamStep == StreamInv /\ [StreamNext]_streamVars => StreamInv'
  <1> SUFFICES ASSUME StreamInv, [StreamNext]_streamVars PROVE StreamInv'
    OBVIOUS
  <1> USE DEF StreamInv, HandleIsCurrent, RunsUntilStopped,
        RunPC, StopperPC
  <1>1. CASE Start
    BY <1>1 DEF Start
  <1>2. CASE RunStep
    <2>1. CASE Loop
      BY <2>1 DEF Loop
    <2>2. CASE Connected
      BY <2>2 DEF Connected
    <2>3. CASE HandshakeFailed
      BY <2>3, LeaveKeeps DEF HandshakeFailed
    <2>4. CASE DropMessage
      BY <2>4 DEF DropMessage
    <2>5. CASE Handle
      BY <2>5 DEF Handle
    <2>6. CASE Handled
      BY <2>6 DEF Handled
    <2>7. CASE ConsumeEnds
      BY <2>7, LeaveKeeps DEF ConsumeEnds
    <2>8. CASE BackoffStopped
      BY <2>8 DEF BackoffStopped
    <2>9. CASE BackoffElapsed
      BY <2>9 DEF BackoffElapsed
    <2> QED
      BY <1>2, <2>1, <2>2, <2>3, <2>4, <2>5, <2>6, <2>7, <2>8, <2>9
         DEF RunStep
  <1>3. CASE Stop
    BY <1>3 DEF Stop
  <1>4. CASE Closed
    BY <1>4 DEF Closed, HandleClosed
  <1>5. CASE Joined
    BY <1>5 DEF Joined
  <1>6. CASE Arrive
    BY <1>6 DEF Arrive
  <1>7. CASE Drop
    BY <1>7 DEF Drop
  <1>8. CASE UNCHANGED streamVars
    BY <1>8 DEF streamVars
  <1> QED
    BY <1>1, <1>2, <1>3, <1>4, <1>5, <1>6, <1>7, <1>8 DEF StreamNext


LEMMA StreamTypeStep ==
    ASSUME StreamTypeOK, [StreamNext]_streamVars
    PROVE  StreamTypeOK'
  <1> USE WebSocketAssumption DEF WebSocketAssumption, StreamTypeOK, RunPC, StopperPC
  <1>1. CASE Start
    BY <1>1 DEF Start
  <1>2. CASE RunStep
    <2>1. CASE Loop
      BY <2>1 DEF Loop
    <2>2. CASE Connected
      BY <2>2 DEF Connected
    <2>3. CASE HandshakeFailed
      BY <2>3
         DEF HandshakeFailed, Leave, HandleAfter,
             RunAfter, AttemptAfter
    <2>4. CASE DropMessage
      BY <2>4 DEF DropMessage
    <2>5. CASE Handle
      BY <2>5 DEF Handle
    <2>6. CASE Handled
      BY <2>6 DEF Handled
    <2>7. CASE ConsumeEnds
      BY <2>7
         DEF ConsumeEnds, Leave, HandleAfter,
             RunAfter, AttemptAfter
    <2>8. CASE BackoffStopped
      BY <2>8 DEF BackoffStopped
    <2>9. CASE BackoffElapsed
      BY <2>9 DEF BackoffElapsed
    <2> QED
      BY <1>2, <2>1, <2>2, <2>3, <2>4, <2>5, <2>6, <2>7, <2>8, <2>9
         DEF RunStep
  <1>3. CASE Stop
    BY <1>3 DEF Stop
  <1>4. CASE Closed
    BY <1>4 DEF Closed, HandleClosed
  <1>5. CASE Joined
    BY <1>5 DEF Joined
  <1>6. CASE Arrive
    BY <1>6 DEF Arrive
  <1>7. CASE Drop
    BY <1>7 DEF Drop
  <1>8. CASE UNCHANGED streamVars
    BY <1>8 DEF streamVars
  <1> QED
    BY <1>1, <1>2, <1>3, <1>4, <1>5, <1>6, <1>7, <1>8 DEF StreamNext

(* The handle that is_connected and send() use is set exactly while the     *)
(* task of _run is inside the connection it belongs to.                     *)
THEOREM HandleCurrent == StreamSpec => []HandleIsCurrent
  <1>1. StreamInv => HandleIsCurrent
    BY DEF StreamInv
  <1> QED
    BY <1>1, StreamStart, StreamStep, PTL DEF StreamSpec

(* The task of _run ends only after stop() was called, however often        *)
(* handshakes fail and connections are lost.                                *)
THEOREM OnlyStopEndsTheStream == StreamSpec => []RunsUntilStopped
  <1>1. StreamInv => RunsUntilStopped
    BY DEF StreamInv
  <1> QED
    BY <1>1, StreamStart, StreamStep, PTL DEF StreamSpec

(* The attempt counter that sets the delay stays at its saturation, and the *)
(* connection holds no more messages than it may.                           *)
THEOREM StreamTyped == StreamSpec => []StreamTypeOK
  <1>1. StreamInit => StreamTypeOK
    BY WebSocketAssumption, 0 \in 0..MaxBuffered, 0 \in 0..MaxExponent
       DEF WebSocketAssumption, StreamInit, StreamTypeOK, RunPC, StopperPC
  <1>2. StreamTypeOK /\ [StreamNext]_streamVars => StreamTypeOK'
    BY StreamTypeStep
  <1> QED
    BY <1>1, <1>2, PTL DEF StreamSpec
=============================================================================
