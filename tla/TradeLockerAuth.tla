--------------------------- MODULE TradeLockerAuth ---------------------------
(***************************************************************************)
(* The JWT life cycle of TradeLockerClient (src/app/broker/tradelocker.py): *)
(* the background refresh loop and the requests that meet a 401, around     *)
(* _auth_lock.  The lock is an asyncio.Lock: waiters are served in order    *)
(* and it is not reentrant.                                                 *)
(*                                                                         *)
(* The server side is external: it issues numbered tokens, may reject or    *)
(* drop a call, and lets tokens expire at any time.  A token travels from   *)
(* the server to the client in a step of its own.                           *)
(***************************************************************************)
EXTENDS Integers, Sequences

CONSTANTS
    Callers,            \* tasks inside _request
    Refresher,          \* the task of _refresh_loop
    Nobody,
    MaxTries,           \* stop_after_attempt in _request
    MaxIssued           \* bound: tokens the server issues

ASSUME AuthAssumption ==
    /\ Refresher \notin Callers
    /\ Nobody \notin Callers \cup {Refresher}
    /\ MaxTries \in Nat \ {0}
    /\ MaxIssued \in Nat \ {0}

Tasks == Callers \cup {Refresher}

VARIABLES
    pc,         \* where each task is suspended
    owner,      \* holder of _auth_lock
    waiters,    \* tasks queued for it, oldest first
    access,     \* number of the access token the client sends
    hasRefresh, \* a refresh token is cached
    got,        \* number of the token in the answer a task is receiving
    tries,      \* attempts of _request so far
    sentWith,   \* token the last request of a caller carried
    issued,     \* tokens issued by the server
    expired,    \* tokens up to this number are no longer valid
    closed      \* close() was called

vars == <<pc, owner, waiters, access, hasRefresh, got, tries, sentWith,
          issued, expired, closed>>

lockVars == <<owner, waiters>>
tokenVars == <<access, hasRefresh>>
callVars == <<tries, sentWith>>
serverVars == <<issued, expired>>

CallerPC == {"idle", "sent", "authLock", "auth", "authed", "resent"}
RefresherPC == {"asleep", "refreshLock", "refresh", "refreshed",
                "authLock", "auth", "authed", "cancelled"}

TypeOK ==
    /\ \A c \in Callers : pc[c] \in CallerPC
    /\ pc[Refresher] \in RefresherPC
    /\ owner \in Tasks \cup {Nobody}
    /\ waiters \in Seq(Tasks)
    /\ access \in 1..MaxIssued
    /\ hasRefresh \in BOOLEAN
    /\ got \in [Tasks -> 0..MaxIssued]
    /\ tries \in [Callers -> 0..MaxTries]
    /\ sentWith \in [Callers -> 0..MaxIssued]
    /\ issued \in 1..MaxIssued
    /\ expired \in 0..MaxIssued
    /\ closed \in BOOLEAN

\* connect() has authenticated once and started the refresh loop.
Init ==
    /\ pc = [t \in Tasks |-> IF t = Refresher THEN "asleep" ELSE "idle"]
    /\ owner = Nobody
    /\ waiters = <<>>
    /\ access = 1
    /\ hasRefresh \in BOOLEAN
    /\ got = [t \in Tasks |-> 0]
    /\ tries = [c \in Callers |-> 0]
    /\ sentWith = [c \in Callers |-> 0]
    /\ issued = 1
    /\ expired = 0
    /\ closed = FALSE

Goto(t, label) == pc' = [pc EXCEPT ![t] = label]

-----------------------------------------------------------------------------
(***************************************************************************)
(* The lock.  A task that finds it taken, even by itself, joins the queue.  *)
(***************************************************************************)
\* Seeded fault: the head of the queue does not wait for the holder.
MayEnterUnlocked(t) == waiters # <<>> /\ Head(waiters) = t

MayEnter(t) == owner = Nobody /\ waiters # <<>> /\ Head(waiters) = t

Enter(t) ==
    /\ MayEnter(t)
    /\ owner' = t
    /\ waiters' = Tail(waiters)

Queue(t) == waiters' = Append(waiters, t) /\ UNCHANGED owner

\* "async with" gives the lock back on every exit.  Seeded fault: not when
\* the call raised.
OwnerKept(t) == owner

OwnerAfterRaise(t) == Nobody

Release == owner' = Nobody /\ UNCHANGED waiters

-----------------------------------------------------------------------------
(***************************************************************************)
(* _request.                                                                *)
(***************************************************************************)
\* The request leaves with the Authorization header of this moment.
Send(c) ==
    /\ pc[c] = "idle"
    /\ ~closed
    /\ Goto(c, "sent")
    /\ tries' = [tries EXCEPT ![c] = 1]
    /\ sentWith' = [sentWith EXCEPT ![c] = access]
    /\ UNCHANGED <<lockVars, tokenVars, got, serverVars, closed>>

Answered(c) ==
    /\ pc[c] \in {"sent", "resent"}
    /\ sentWith[c] > expired
    /\ Goto(c, "idle")
    /\ tries' = [tries EXCEPT ![c] = 0]
    /\ UNCHANGED <<lockVars, tokenVars, got, sentWith, serverVars, closed>>

\* 401 on the first request of an attempt: _authenticate.
Unauthorized(c) ==
    /\ pc[c] = "sent"
    /\ sentWith[c] <= expired
    /\ Goto(c, "authLock")
    /\ Queue(c)
    /\ UNCHANGED <<tokenVars, got, callVars, serverVars, closed>>

TryLeft(c) == tries[c] < MaxTries

\* The attempt raised something tenacity retries.  A closed HTTP client
\* raises RuntimeError, which ends the request.
RetryOrRaise(c) ==
    IF TryLeft(c) /\ ~closed
    THEN /\ Goto(c, "sent")
         /\ tries' = [tries EXCEPT ![c] = @ + 1]
         /\ sentWith' = [sentWith EXCEPT ![c] = access]
    ELSE /\ Goto(c, "idle")
         /\ tries' = [tries EXCEPT ![c] = 0]
         /\ UNCHANGED sentWith

\* Transport error or error status; a 401 on the second request is one too.
RequestRaised(c) ==
    /\ pc[c] \in {"sent", "resent"}
    /\ RetryOrRaise(c)
    /\ UNCHANGED <<lockVars, tokenVars, got, serverVars, closed>>

-----------------------------------------------------------------------------
(***************************************************************************)
(* _authenticate, from a request or from the refresh loop.                  *)
(***************************************************************************)
AuthEnter(t) ==
    /\ pc[t] = "authLock"
    /\ Enter(t)
    /\ Goto(t, "auth")
    /\ UNCHANGED <<tokenVars, got, callVars, serverVars, closed>>

\* The server issues a token to t; close() has shut the connections.
Issue(t, from, to) ==
    /\ pc[t] = from
    /\ ~closed
    /\ issued < MaxIssued
    /\ issued' = issued + 1
    /\ got' = [got EXCEPT ![t] = issued + 1]
    /\ Goto(t, to)
    /\ UNCHANGED <<lockVars, tokenVars, callVars, expired, closed>>

\* The answer is stored.  The authentication answer decides whether there is
\* a refresh token at all.
CallerAuthStored(c) ==
    /\ pc[c] = "authed"
    /\ access' = got[c]
    /\ hasRefresh' \in BOOLEAN
    /\ sentWith' = [sentWith EXCEPT ![c] = got[c]]
    /\ Goto(c, IF closed THEN "idle" ELSE "resent")
    /\ tries' = [tries EXCEPT ![c] = IF closed THEN 0 ELSE @]
    /\ Release
    /\ UNCHANGED <<got, serverVars, closed>>

\* TradeLockerAuthError ends the request; a transport error, which may lose
\* the answer that carries an issued token, is retried.
CallerAuthRaised(c) ==
    /\ pc[c] \in {"auth", "authed"}
    /\ owner' = OwnerAfterRaise(c) /\ UNCHANGED waiters
    /\ \/ RetryOrRaise(c)
       \/ /\ Goto(c, "idle")
          /\ tries' = [tries EXCEPT ![c] = 0]
          /\ UNCHANGED sentWith
    /\ UNCHANGED <<tokenVars, got, serverVars, closed>>

-----------------------------------------------------------------------------
(***************************************************************************)
(* _refresh_loop and _refresh.                                              *)
(***************************************************************************)
\* The sleep is over; with no refresh token the loop authenticates.
Wake ==
    /\ pc[Refresher] = "asleep"
    /\ Goto(Refresher, IF hasRefresh THEN "refreshLock" ELSE "authLock")
    /\ Queue(Refresher)
    /\ UNCHANGED <<tokenVars, got, callVars, serverVars, closed>>

RefreshEnter ==
    /\ pc[Refresher] = "refreshLock"
    /\ Enter(Refresher)
    /\ Goto(Refresher, "refresh")
    /\ UNCHANGED <<tokenVars, got, callVars, serverVars, closed>>

\* Status >= 400: _refresh calls _authenticate while it holds the lock.
RefreshRefused ==
    /\ pc[Refresher] = "refresh"
    /\ Goto(Refresher, "authLock")
    /\ Queue(Refresher)
    /\ UNCHANGED <<tokenVars, got, callVars, serverVars, closed>>

\* A refresh answer without a refresh token keeps the old one.
RefresherStored ==
    /\ pc[Refresher] \in {"refreshed", "authed"}
    /\ access' = got[Refresher]
    /\ hasRefresh' \in (IF pc[Refresher] = "authed" THEN BOOLEAN ELSE {hasRefresh})
    /\ Goto(Refresher, "asleep")
    /\ Release
    /\ UNCHANGED <<got, callVars, serverVars, closed>>

\* The loop logs the exception and sleeps.
RefresherRaised ==
    /\ pc[Refresher] \in {"refresh", "refreshed", "auth", "authed"}
    /\ Goto(Refresher, "asleep")
    /\ owner' = OwnerAfterRaise(Refresher) /\ UNCHANGED waiters
    /\ UNCHANGED <<tokenVars, got, callVars, serverVars, closed>>

\* close(): the refresh task is cancelled wherever it is suspended, and no
\* new request can be sent.
Close ==
    /\ ~closed
    /\ closed' = TRUE
    /\ Goto(Refresher, "cancelled")
    /\ owner' = IF owner = Refresher THEN Nobody ELSE owner
    /\ waiters' = SelectSeq(waiters, LAMBDA t : t # Refresher)
    /\ UNCHANGED <<tokenVars, got, callVars, serverVars>>

\* External: the current tokens expire at the server.
Expire ==
    /\ expired' = issued
    /\ expired # issued
    /\ issued < MaxIssued
    /\ UNCHANGED <<pc, lockVars, tokenVars, got, callVars, issued, closed>>

CallerStep(c) ==
    \/ Answered(c) \/ Unauthorized(c) \/ RequestRaised(c)
    \/ AuthEnter(c) \/ Issue(c, "auth", "authed")
    \/ CallerAuthStored(c) \/ CallerAuthRaised(c)

RefresherStep ==
    \/ RefreshEnter \/ RefreshRefused
    \/ Issue(Refresher, "refresh", "refreshed")
    \/ AuthEnter(Refresher) \/ Issue(Refresher, "auth", "authed")
    \/ RefresherStored \/ RefresherRaised

Next ==
    \/ \E c \in Callers : Send(c) \/ CallerStep(c)
    \/ Wake
    \/ RefresherStep
    \/ Close
    \/ Expire

Spec == Init /\ [][Next]_vars

(***************************************************************************)
(* A task that can run does: the event loop runs ready tasks, HTTP calls    *)
(* end with an answer or a timeout.                                         *)
(***************************************************************************)
FairSpec ==
    /\ Spec
    /\ WF_vars(RefresherStep)
    /\ \A c \in Callers : WF_vars(CallerStep(c))

-----------------------------------------------------------------------------
(* The client never goes back to an older token: the refresh loop and the   *)
(* requests that re-authenticate apply their answers in the order in which  *)
(* the server issued them, whatever each answer's delay.                    *)
TokenNeverOlder == [][access' >= access]_access

(* A lock holder is always a task inside _authenticate or _refresh, and a   *)
(* queued task is waiting for it: no exit path leaks the lock.              *)
LockAccounted ==
    /\ owner # Nobody =>
         pc[owner] \in {"auth", "authed", "refresh", "refreshed", "authLock"}
    /\ \A t \in Tasks :
         pc[t] \in {"auth", "authed", "refresh", "refreshed"} => owner = t

\* The refresh loop waits for the lock it holds itself.
SelfLocked == owner = Refresher /\ pc[Refresher] = "authLock"

(* Every request comes to an end, with an answer or an exception, unless a  *)
(* refused refresh has locked the client: retries end, and no exit from the *)
(* lock, failed or cancelled, leaves the next in the queue waiting.         *)
RequestEnds ==
    \A c \in Callers : pc[c] # "idle" ~> (pc[c] = "idle" \/ SelfLocked)

(* "JWT lifecycle is fully managed ... a background refresh runs before     *)
(* expiry": a refresh that has begun ends, and the loop sleeps again.       *)
RefreshEnds ==
    pc[Refresher] \in {"refreshLock", "refresh"}
      ~> pc[Refresher] \in {"asleep", "cancelled"}
=============================================================================
