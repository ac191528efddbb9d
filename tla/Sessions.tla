------------------------------- MODULE Sessions -------------------------------
(***************************************************************************)
(* One account's sessions: refresh tokens on the server (auth/tokens.ts,   *)
(* the e-mail sign-in, account.service.ts) and the app that holds one of   *)
(* them on each device (mobile: api/client.ts, features/auth/session.ts).  *)
(*                                                                         *)
(* token holds committed rows.  A server call is a record of `call'; from  *)
(* its first SELECT .. FOR UPDATE to its COMMIT it holds the row it        *)
(* presented.  An UPDATE of many rows revokes those its snapshot saw       *)
(* unrevoked and waits for whoever holds one of them; a row committed      *)
(* after the snapshot is not among them (READ COMMITTED).                  *)
(*                                                                         *)
(* X_Fault is X with a fault a change could introduce; nothing uses it.    *)
(***************************************************************************)
EXTENDS Integers, Sequences, FiniteSets

CONSTANTS
    Devices,
    NCalls,       \* bound: calls the server works on at once
    MaxTokens,    \* bound: refresh tokens ever written
    MaxLosses,    \* bound: answers lost, apps killed, processes of the server dead,
                  \* and sign-outs that leave others of the same refresh to come
    MaxOrders     \* bound: sign-outs, bans and deletions

VARIABLES
    token,        \* refresh_tokens: [dev, from, live, spent], and a ghost,
                  \* late: written although the account was banned by then
    expired,      \* ids of tokens past expires_at
    status,       \* users.status
    call,         \* calls at the server
    stored,       \* per device, the token in its secure storage (0: none)
    await,        \* per device, the call whose answer it awaits (0: none)
    ending,       \* per device, the token a refresh failed with, while the
                  \* requests that waited for it end the session (0: none)
    disturbed,    \* ghost: devices whose session someone meant to end, or cut
    losses, orders

sessionVars == <<token, expired, status, call, stored, await, ending, disturbed,
                 losses, orders>>

Tokens  == 1..Len(token)
CallIds == 1..NCalls
Vacant  == [kind |-> "free", stage |-> "over"]
Kinds   == {"rotate", "login", "logout", "delete"}
Refusal == {"replayed", "revoked", "expired", "banned", "failed"}

SessionsConstants ==
    /\ Devices # {} /\ NCalls \in Nat /\ MaxTokens \in Nat /\ MaxLosses \in Nat
    /\ MaxOrders \in Nat

SessionsTypeOK ==
    /\ \A t \in Tokens : token[t] \in [dev : Devices, from : 0..t,
         live : BOOLEAN, spent : BOOLEAN, late : BOOLEAN]
    /\ expired \subseteq Tokens /\ status \in {"active", "banned", "deleted"}
    /\ \A c \in CallIds : call[c] = Vacant \/ call[c] \in
         [kind : Kinds, dev : Devices, tok : 0..Len(token), seen : {"active", "banned", "deleted"},
          stage : {"sent", "blocked", "mint", "revoke", "sweep", "over"},
          scope : {"device", "account"}, rows : SUBSET Tokens,
          out : {"none", "ok"} \cup Refusal]
    /\ stored \in [Devices -> 0..Len(token)] /\ await \in [Devices -> 0..NCalls]
    /\ ending \in [Devices -> 0..Len(token)]
    /\ disturbed \subseteq Devices /\ losses \in 0..MaxLosses /\ orders \in 0..MaxOrders

SessionsInit ==
    /\ token = <<>> /\ expired = {} /\ status = "active"
    /\ call = [c \in CallIds |-> Vacant]
    /\ stored = [d \in Devices |-> 0] /\ await = [d \in Devices |-> 0]
    /\ ending = [d \in Devices |-> 0] /\ disturbed = {} /\ losses = 0 /\ orders = 0

-----------------------------------------------------------------------------
(* The app                                                                 *)

Request(k, d, t) ==
    [kind |-> k, dev |-> d, tok |-> t, seen |-> "active", stage |-> "sent",
     scope |-> "account", rows |-> {}, out |-> "none"]

\* The slot the next call takes; slots stand for nothing in the code.
Slot == CHOOSE c \in CallIds : call[c] = Vacant

\* A call may begin; those that may write a token only if MaxTokens allows it.  A
\* rotation sent once the account is banned writes none.
Room    == \E c \in CallIds : call[c] = Vacant
Writing == {c \in CallIds : call[c].kind \in {"rotate", "login"} /\ call[c].stage # "over"}
Unwritten == Room /\ Len(token) + Cardinality(Writing) < MaxTokens
Rotatable == Unwritten \/ (Room /\ status = "banned")

SignIn(d) ==
    /\ stored[d] = 0 /\ await[d] = 0 /\ Unwritten
    /\ call' = [call EXCEPT ![Slot] = Request("login", d, 0)]
    /\ await' = [await EXCEPT ![d] = Slot]
    /\ UNCHANGED <<token, expired, status, stored, ending, disturbed, losses, orders>>

\* A refresh that presents a token an earlier one has failed with disturbs its device.
Again(d) == stored[d] = ending[d]
Disturbing(d) == disturbed \cup IF Again(d) THEN {d} ELSE {}

Refresh_Fault(d) ==
    /\ stored[d] # 0 /\ Rotatable
    /\ call' = [call EXCEPT ![Slot] = Request("rotate", d, stored[d])]
    /\ await' = [await EXCEPT ![d] = Slot] /\ disturbed' = Disturbing(d)
    /\ UNCHANGED <<token, expired, status, stored, ending, losses, orders>>

\* A 401 makes the app refresh; refreshOnce lets one refresh be in flight.  It
\* forgets that one before those who waited for it have cleared the storage, so
\* a 401 in between presents the token that is still there.
Refresh(d) ==
    /\ stored[d] # 0 /\ await[d] = 0 /\ Rotatable
    /\ call' = [call EXCEPT ![Slot] = Request("rotate", d, stored[d])]
    /\ await' = [await EXCEPT ![d] = Slot] /\ disturbed' = Disturbing(d)
    /\ UNCHANGED <<token, expired, status, stored, ending, losses, orders>>

\* A refresh that brought nothing is over before anything is cleared.
Failed(d, c) ==
    ending' = IF c.kind = "rotate" THEN [ending EXCEPT ![d] = stored[d]] ELSE ending

\* A new pair is stored; a refusal, whatever its reason, is a refresh that failed.
Hear(d) ==
    LET c == call[await[d]]
    IN  /\ await[d] # 0 /\ c.stage = "over"
        /\ await' = [await EXCEPT ![d] = 0]
        /\ call' = [call EXCEPT ![await[d]] = Vacant]
        /\ IF c.out = "ok"
           THEN stored' = [stored EXCEPT ![d] = c.tok] /\ UNCHANGED ending
           ELSE Failed(d, c) /\ UNCHANGED stored
        /\ UNCHANGED <<token, expired, status, disturbed, losses, orders>>

\* The network fails, before or after the server acted: refreshTokens is not
\* retried (retries: 0).
GiveUp(d) ==
    /\ await[d] # 0 /\ losses < MaxLosses
    /\ await' = [await EXCEPT ![d] = 0] /\ Failed(d, call[await[d]])
    /\ losses' = losses + 1
    /\ UNCHANGED <<token, expired, status, call, stored, disturbed, orders>>

\* Each request that waited for the failed refresh signs out: storage is cleared,
\* whatever it holds by now, and others may be yet to do so.  If there was a token,
\* a logout goes with whatever access token there is; the server may still take it.
EndSession(d) ==
    /\ ending[d] # 0
    /\ stored' = [stored EXCEPT ![d] = 0]
    /\ \/ ending' = [ending EXCEPT ![d] = 0] /\ UNCHANGED losses
       \/ losses < MaxLosses /\ losses' = losses + 1 /\ UNCHANGED ending
    /\ \/ UNCHANGED <<call, disturbed, orders>>
       \/ /\ stored[d] # 0 /\ Room /\ orders < MaxOrders
          /\ call' = [call EXCEPT ![Slot] = Request("logout", d, 0)]
          /\ disturbed' = Devices /\ orders' = orders + 1
    /\ UNCHANGED <<token, expired, status, await>>

\* The app is killed while a refresh or the end of one is under way.  It starts
\* again with the token it had, or clears it if it cannot reach the server
\* (restoreSession); the server may yet serve the call.
Kill(d) ==
    /\ await[d] # 0 \/ ending[d] # 0
    /\ losses < MaxLosses
    /\ await' = [await EXCEPT ![d] = 0] /\ ending' = [ending EXCEPT ![d] = 0]
    /\ stored' \in {stored, [stored EXCEPT ![d] = 0]}
    /\ disturbed' = disturbed \cup {d} /\ losses' = losses + 1
    /\ UNCHANGED <<token, expired, status, call, orders>>

\* The owner signs out, or deletes the account: a call that names no device,
\* so it is about all of them.  Storage is cleared without waiting for it; a
\* refresh under way will still store what it brings.
Order(d, k) ==
    /\ stored[d] # 0 /\ Room /\ orders < MaxOrders
    /\ call' = [call EXCEPT ![Slot] = Request(k, d, 0)]
    /\ stored' = [stored EXCEPT ![d] = 0]
    /\ disturbed' = Devices /\ orders' = orders + 1
    /\ UNCHANGED <<token, expired, status, await, ending, losses>>

-----------------------------------------------------------------------------
(* The server                                                              *)

Unheard(c) == \A d \in Devices : await[d] # c
Replied(c, r) == IF Unheard(c) THEN Vacant ELSE r

\* Rows a call in progress has locked with FOR UPDATE.
HeldBy(c) ==
    IF call[c].kind = "rotate" /\ call[c].stage \in {"mint", "revoke", "sweep"}
    THEN {call[c].tok} ELSE {}
Locked_Fault(c) == UNION {HeldBy(b) : b \in CallIds}
Locked(c) == UNION {HeldBy(b) : b \in CallIds \ {c}}

Step(c, r) == /\ call' = [call EXCEPT ![c] = IF r.stage = "over" THEN Replied(c, r) ELSE r]
              /\ UNCHANGED <<expired, stored, await, ending, disturbed, losses, orders>>

Reply(c, o) == [call[c] EXCEPT !.stage = "over", !.out = o]

Ruling_NoStatus(c, seen) ==
    LET t == call[c].tok
    IN  IF token[t].spent THEN [call[c] EXCEPT !.stage = "revoke", !.scope = "device", !.out = "replayed"]
        ELSE IF ~token[t].live THEN Reply(c, "revoked")
        ELSE IF t \in expired THEN Reply(c, "expired")
        ELSE [call[c] EXCEPT !.stage = "mint"]

Ruling_NoRevoked(c, seen) ==
    LET t == call[c].tok
    IN  IF token[t].spent THEN [call[c] EXCEPT !.stage = "revoke", !.scope = "device", !.out = "replayed"]
        ELSE IF t \in expired THEN Reply(c, "expired")
        ELSE IF seen = "banned" THEN [call[c] EXCEPT !.stage = "revoke", !.scope = "account", !.out = "banned"]
        ELSE [call[c] EXCEPT !.stage = "mint"]

\* What the row it now holds, and the status its SELECT saw, make of a rotation.
Ruling(c, seen) ==
    LET t == call[c].tok
    IN  IF token[t].spent THEN [call[c] EXCEPT !.stage = "revoke", !.scope = "device", !.out = "replayed"]
        ELSE IF ~token[t].live THEN Reply(c, "revoked")
        ELSE IF t \in expired THEN Reply(c, "expired")
        ELSE IF seen = "banned" THEN [call[c] EXCEPT !.stage = "revoke", !.scope = "account", !.out = "banned"]
        ELSE [call[c] EXCEPT !.stage = "mint"]

CanLock_Fault(c) == TRUE
CanLock(c) == call[c].tok \notin Locked(c)

\* SELECT .. FOR UPDATE OF t.  A row someone holds makes it wait, and then it
\* sees the row's new version beside the user row of its own snapshot.
SelectToken(c) ==
    /\ call[c].kind = "rotate" /\ call[c].stage = "sent"
    /\ Step(c, IF CanLock(c) THEN Ruling(c, status)
                ELSE [call[c] EXCEPT !.stage = "blocked", !.seen = status])
    /\ UNCHANGED <<token, status>>

GetLock(c) ==
    /\ call[c].kind = "rotate" /\ call[c].stage = "blocked" /\ CanLock(c)
    /\ Step(c, Ruling(c, call[c].seen))
    /\ UNCHANGED <<token, status>>

NewToken(d, t) == [dev |-> d, from |-> t, live |-> TRUE, spent |-> FALSE,
                   late |-> status = "banned"]

\* createRefreshToken: the new row, the old one revoked and replaced; COMMIT.
Mint(c) ==
    LET t == call[c].tok
    IN  /\ call[c].kind = "rotate" /\ call[c].stage = "mint"
        /\ token' = Append([token EXCEPT ![t].live = FALSE, ![t].spent = TRUE],
                           NewToken(call[c].dev, t))
        /\ Step(c, [Reply(c, "ok") EXCEPT !.tok = Len(token) + 1])
        /\ UNCHANGED status

\* loginWithEmail reads the status, and inserts in a transaction of its own.
CheckLogin(c) ==
    /\ call[c].kind = "login" /\ call[c].stage = "sent"
    /\ Step(c, IF status # "active" THEN Reply(c, "failed") ELSE [call[c] EXCEPT !.stage = "mint"])
    /\ UNCHANGED <<token, status>>

Login(c) ==
    /\ call[c].kind = "login" /\ call[c].stage = "mint"
    /\ token' = Append(token, NewToken(call[c].dev, 0))
    /\ Step(c, [Reply(c, "ok") EXCEPT !.tok = Len(token) + 1])
    /\ UNCHANGED status

\* deleteAccount commits the anonymised row first, and revokes afterwards; an
\* account already deleted is left as it is.
BeginOrder(c) ==
    /\ call[c].kind \in {"logout", "delete"} /\ call[c].stage = "sent"
    /\ IF call[c].kind = "delete" /\ status = "deleted"
       THEN Step(c, Reply(c, "ok")) /\ UNCHANGED status
       ELSE /\ status' = IF call[c].kind = "delete" THEN "deleted" ELSE status
            /\ Step(c, [call[c] EXCEPT !.stage = "revoke"])
    /\ UNCHANGED token

Scope(c) == {t \in Tokens : call[c].scope = "device" => token[t].dev = call[c].dev}

\* The snapshot of UPDATE refresh_tokens .. WHERE revoked_at IS NULL.
StartRevoke(c) ==
    /\ call[c].kind \in Kinds /\ call[c].stage = "revoke"
    /\ Step(c, [call[c] EXCEPT !.stage = "sweep", !.rows = {t \in Scope(c) : token[t].live}])
    /\ UNCHANGED <<token, status>>

EndRevoke_Fault(c) ==
    /\ call[c].kind \in Kinds /\ call[c].stage = "sweep"
    /\ call[c].rows \cap Locked(c) = {}
    /\ UNCHANGED token
    /\ Step(c, Reply(c, call[c].out))
    /\ UNCHANGED status

\* Every row of the snapshot is free: they are revoked and the call commits.
EndRevoke(c) ==
    /\ call[c].kind \in Kinds /\ call[c].stage = "sweep"
    /\ call[c].rows \cap Locked(c) = {}
    /\ token' = [t \in Tokens |-> IF t \in call[c].rows THEN [token[t] EXCEPT !.live = FALSE]
                                  ELSE token[t]]
    /\ Step(c, Reply(c, IF call[c].out = "none" THEN "ok" ELSE call[c].out))
    /\ UNCHANGED status

\* Two refused rotations, each holding a row the other would revoke: PostgreSQL
\* rolls one of them back.
Deadlocked(c) ==
    \E b \in CallIds \ {c} :
        /\ call[c].kind \in Kinds /\ call[b].kind \in Kinds
        /\ call[c].stage = "sweep" /\ call[b].stage = "sweep"
        /\ call[c].rows \cap HeldBy(b) # {} /\ call[b].rows \cap HeldBy(c) # {}

BreakDeadlock(c) ==
    /\ Deadlocked(c)
    /\ Step(c, Reply(c, "failed"))
    /\ UNCHANGED <<token, status>>

\* The process dies: what is open is rolled back, what is committed stays.  A
\* deletion that had committed has not revoked anything, and never will.
CallDies(c) ==
    /\ call[c].stage # "over" /\ losses < MaxLosses
    /\ call' = [call EXCEPT ![c] = Replied(c, Reply(c, "failed"))] /\ losses' = losses + 1
    /\ UNCHANGED <<token, expired, status, stored, await, ending, disturbed, orders>>

-----------------------------------------------------------------------------
\* Staff ban the account; a token passes its expiry, which matters while it is live.
Ban ==
    /\ status = "active" /\ orders < MaxOrders
    /\ status' = "banned" /\ disturbed' = Devices /\ orders' = orders + 1
    /\ UNCHANGED <<token, expired, call, stored, await, ending, losses>>

Expire(t) ==
    /\ orders < MaxOrders /\ t \notin expired /\ token[t].live
    /\ expired' = expired \cup {t} /\ disturbed' = disturbed \cup {token[t].dev}
    /\ orders' = orders + 1
    /\ UNCHANGED <<token, status, call, stored, await, ending, losses>>

Handle(c) ==
    \/ SelectToken(c) \/ GetLock(c) \/ Mint(c) \/ CheckLogin(c) \/ Login(c)
    \/ BeginOrder(c) \/ StartRevoke(c) \/ EndRevoke(c) \/ BreakDeadlock(c)

App(d) ==
    \/ SignIn(d) \/ Refresh(d) \/ Hear(d) \/ GiveUp(d) \/ EndSession(d) \/ Kill(d)
    \/ Order(d, "logout") \/ Order(d, "delete")

SessionsNext ==
    \/ \E d \in Devices : App(d)
    \/ \E c \in CallIds : Handle(c) \/ CallDies(c)
    \/ Ban \/ \E t \in Tokens : Expire(t)

SessionsSpec == SessionsInit /\ [][SessionsNext]_sessionVars

-----------------------------------------------------------------------------
(* Properties                                                              *)

\* A refresh token is exchanged once, and what was revoked stays revoked and is
\* exchanged for nothing, by whatever call had read it before.
StaysRevoked ==
    /\ \A t \in Tokens : token'[t].live => token[t].live
    /\ \A t \in DOMAIN token' \ Tokens : token'[t].from = 0 \/ token[token'[t].from].live

\* "Single-flight token refresh": a device is told that its token was used before,
\* revoked, expired or banned only if one of these came first: a sign-out or a
\* deletion on any device, a ban, the token's expiry, its app killed while a refresh
\* was under way, or a refresh with the token an earlier one had failed with.  Lost
\* answers, on this device or another, are no such cause.
OnlyForCause ==
    \A d \in Devices \ disturbed :
        await[d] # 0 => call[await[d]].out \notin Refusal \ {"failed"}

\* "The window cannot be extended": a ban may be outrun by a call already past
\* its check, and the token that call wrote is exchanged for no other.
BanBites ==
    \A t \in Tokens : token[t].late /\ token[t].from # 0 => ~token[token[t].from].late

\* All three, and the types: a session goes on until there is a reason to end it,
\* and then it ends.
SessionsKept == StaysRevoked /\ OnlyForCause' /\ BanBites'

SessionsHold == []SessionsTypeOK /\ [][SessionsKept]_sessionVars

\* Calls that lock one token and revoke others never wait for one another, or
\* for themselves, for ever: while a call is open, some call can go on.
NobodyStuck ==
    (\E c \in CallIds : call[c].stage # "over") => \E c \in CallIds : ENABLED Handle(c)
===============================================================================
