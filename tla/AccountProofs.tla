----------------------------- MODULE AccountProofs -----------------------------
(***************************************************************************)
(* An account.  Sessions (auth/tokens.ts), for any devices and calls, lost *)
(* answers, killed apps and crashes: what was revoked is exchanged for     *)
(* nothing, a token written in spite of a ban for no other, and a device   *)
(* is refused only when a cause came first.  Standing                      *)
(* (enforcement.service.ts, appeals.service.ts, reports.queue.ts,          *)
(* verification.service.ts), for any requests of staff and of the host: a  *)
(* suspension ends the stream, decisions are in the log, and they stay.    *)
(* Rewards (rewards.service.ts, tasks.service.ts), for any people, phones, *)
(* calls and days: free coins are granted once, in order and under their   *)
(* caps.  Wardrobe (cosmetics.service.ts, vip.service.ts,                  *)
(* unlocks.service.ts), for any catalogue and requests: what was paid for  *)
(* is worn for its days, and what was chosen or earned is kept.            *)
(***************************************************************************)
EXTENDS Sessions, Standing, Rewards, Wardrobe, Sums

(* Sessions                                                                *)

IsToken(x) ==
    \E d, f, l, s, e : x = [dev |-> d, from |-> f, live |-> l, spent |-> s, late |-> e]
IsCall(x) ==
    \E k, d, t, n, s, a, r, o :
        x = [kind |-> k, dev |-> d, tok |-> t, seen |-> n, stage |-> s, scope |-> a,
             rows |-> r, out |-> o]

\* A rotation under way presents a token that is there.  Past its check the token
\* is live; if the ban had been outrun once already, the account is gone by now.
\* A sign-in revokes nothing.
StageOk(r, tk, st) ==
    /\ r.kind = "rotate" /\ r.stage # "over" =>
        /\ r.tok \in 1..Len(tk)
        /\ r.stage = "mint" => tk[r.tok].live /\ (tk[r.tok].late => st = "deleted")
        /\ r.stage = "blocked" /\ tk[r.tok].late =>
             r.seen = "banned" \/ (r.seen = "deleted" /\ st = "deleted")
    /\ r.kind = "login" => r.stage \notin {"revoke", "sweep"}

\* An answer that brings a token brings one that is there.
AnswerOk(r, tk) ==
    r.kind \in {"rotate", "login"} /\ r.stage = "over" /\ r.out = "ok" => r.tok \in 1..Len(tk)

GoodCall(r, tk, st) == r = Vacant \/ (IsCall(r) /\ StageOk(r, tk, st) /\ AnswerOk(r, tk))

SessionShaped ==
    /\ Len(token) \in Nat /\ DOMAIN token = 1..Len(token)
    /\ \A t \in Tokens : IsToken(token[t]) /\ token[t].from \in {0} \cup Tokens
    /\ status \in {"active", "banned", "deleted"}
    /\ DOMAIN call = CallIds /\ DOMAIN stored = Devices /\ DOMAIN await = Devices
    /\ DOMAIN ending = Devices
    /\ \A d \in Devices : stored[d] \in {0} \cup Tokens

CallsGood == \A c \in CallIds : GoodCall(call[c], token, status)

\* Each device waits for a call of its own, a sign-in or a refresh.
AwaitsOwn ==
    \A d \in Devices : await[d] # 0 =>
        /\ await[d] \in CallIds /\ call[await[d]].kind \in {"rotate", "login"}
        /\ \A e \in Devices : await[e] = await[d] => e = d

Holding(r) == r.kind = "rotate" /\ r.stage \in {"mint", "revoke", "sweep"}

\* A row is locked by one call at a time.
RowLocks ==
    \A b, c \in CallIds : Holding(call[b]) /\ Holding(call[c]) /\ call[b].tok = call[c].tok
                          => b = c

LateSinceBan == \A t \in Tokens : token[t].late => status # "active"

SessionInv == /\ SessionShaped /\ CallsGood /\ AwaitsOwn /\ RowLocks /\ LateSinceBan /\ BanBites

-----------------------------------------------------------------------------
(* Records                                                                 *)

\* Mint's two updates of the row it rotates, revoked_at and replaced_by.
Dead(x)    == [x EXCEPT !.live = FALSE]
Used(x)    == [x EXCEPT !.spent = TRUE]

LEMMA TokenFields ==
  ASSUME NEW x, IsToken(x)
  PROVE  /\ IsToken(Dead(x)) /\ Dead(x).live = FALSE /\ Dead(x).dev = x.dev
         /\ Dead(x).late = x.late /\ Dead(x).from = x.from
         /\ IsToken(Used(x)) /\ Used(x).live = x.live /\ Used(x).dev = x.dev
         /\ Used(x).late = x.late /\ Used(x).from = x.from
<1>1. PICK d, f, l, s, e : x = [dev |-> d, from |-> f, live |-> l, spent |-> s, late |-> e]
  BY DEF IsToken
<1> DEFINE y == Used(x)
           z == Dead(x)
<1>2. z = [x EXCEPT !.live = FALSE] /\ y = [x EXCEPT !.spent = TRUE]
  BY DEF Used, Dead
<1> HIDE DEF y, z
<1>3. z = [dev |-> d, from |-> f, live |-> FALSE, spent |-> s, late |-> e]
  BY <1>1, <1>2
<1>4. y = [dev |-> d, from |-> f, live |-> l, spent |-> TRUE, late |-> e]
  BY <1>1, <1>2
<1>5. IsToken(y) /\ IsToken(z)
  BY <1>3, <1>4 DEF IsToken
<1>6. /\ y.live = x.live /\ y.late = x.late /\ y.from = x.from /\ y.dev = x.dev
      /\ z.live = FALSE /\ z.late = x.late /\ z.from = x.from /\ z.dev = x.dev
  BY <1>1, <1>3, <1>4
<1> QED BY <1>5, <1>6 DEF y, z

\* The updates of a call's record.
Staged(x, s)    == [x EXCEPT !.stage = s]
Closes(x, o)    == [x EXCEPT !.stage = "over", !.out = o]
Bringing(x, n)  == [x EXCEPT !.tok = n]
Blocked(x, v)   == [x EXCEPT !.stage = "blocked", !.seen = v]
Refused(x, a, o) == [x EXCEPT !.stage = "revoke", !.scope = a, !.out = o]
Sweeping(x, r)  == [x EXCEPT !.stage = "sweep", !.rows = r]

LEMMA CallFields ==
  ASSUME NEW x, IsCall(x), NEW s, NEW o, NEW n, NEW v, NEW a, NEW r
  PROVE  /\ IsCall(Staged(x, s)) /\ Staged(x, s).stage = s /\ Staged(x, s).kind = x.kind
         /\ Staged(x, s).tok = x.tok
         /\ IsCall(Closes(x, o)) /\ Closes(x, o).stage = "over" /\ Closes(x, o).out = o
         /\ Closes(x, o).kind = x.kind /\ Closes(x, o).tok = x.tok
         /\ IsCall(Bringing(x, n)) /\ Bringing(x, n).stage = x.stage /\ Bringing(x, n).tok = n
         /\ Bringing(x, n).kind = x.kind
         /\ IsCall(Blocked(x, v)) /\ Blocked(x, v).stage = "blocked" /\ Blocked(x, v).seen = v
         /\ Blocked(x, v).kind = x.kind /\ Blocked(x, v).tok = x.tok
         /\ IsCall(Refused(x, a, o)) /\ Refused(x, a, o).stage = "revoke"
         /\ Refused(x, a, o).kind = x.kind /\ Refused(x, a, o).tok = x.tok
         /\ IsCall(Sweeping(x, r)) /\ Sweeping(x, r).stage = "sweep"
         /\ Sweeping(x, r).kind = x.kind /\ Sweeping(x, r).tok = x.tok
<1>1. PICK k, d, t, n0, s0, a0, r0, o0 :
        x = [kind |-> k, dev |-> d, tok |-> t, seen |-> n0, stage |-> s0, scope |-> a0,
             rows |-> r0, out |-> o0]
  BY DEF IsCall
<1> DEFINE y1 == Staged(x, s)
           y2 == Closes(x, o)
           y3 == Bringing(x, n)
           y4 == Blocked(x, v)
           y5 == Refused(x, a, o)
           y6 == Sweeping(x, r)
<1>2. /\ y1 = [x EXCEPT !.stage = s]
      /\ y2 = [x EXCEPT !.stage = "over", !.out = o]
      /\ y3 = [x EXCEPT !.tok = n]
      /\ y4 = [x EXCEPT !.stage = "blocked", !.seen = v]
      /\ y5 = [x EXCEPT !.stage = "revoke", !.scope = a, !.out = o]
      /\ y6 = [x EXCEPT !.stage = "sweep", !.rows = r]
  BY DEF Staged, Closes, Bringing, Blocked, Refused, Sweeping
<1> HIDE DEF y1, y2, y3, y4, y5, y6
<1>3. y1 = [kind |-> k, dev |-> d, tok |-> t, seen |-> n0, stage |-> s, scope |-> a0,
            rows |-> r0, out |-> o0]
  BY <1>1, <1>2
<1>4. y2 = [kind |-> k, dev |-> d, tok |-> t, seen |-> n0, stage |-> "over", scope |-> a0,
            rows |-> r0, out |-> o]
  BY <1>1, <1>2
<1>6. y3 = [kind |-> k, dev |-> d, tok |-> n, seen |-> n0, stage |-> s0, scope |-> a0,
            rows |-> r0, out |-> o0]
  BY <1>1, <1>2
<1>7. y4 = [kind |-> k, dev |-> d, tok |-> t, seen |-> v, stage |-> "blocked", scope |-> a0,
            rows |-> r0, out |-> o0]
  BY <1>1, <1>2
<1>8. y5 = [kind |-> k, dev |-> d, tok |-> t, seen |-> n0, stage |-> "revoke", scope |-> a,
            rows |-> r0, out |-> o]
  BY <1>1, <1>2
<1>9. y6 = [kind |-> k, dev |-> d, tok |-> t, seen |-> n0, stage |-> "sweep", scope |-> a0,
            rows |-> r, out |-> o0]
  BY <1>1, <1>2
<1>10. /\ IsCall(y1) /\ y1.stage = s /\ y1.kind = x.kind /\ y1.tok = x.tok
  BY <1>1, <1>3 DEF IsCall
<1>11. /\ IsCall(y2) /\ y2.stage = "over" /\ y2.out = o /\ y2.kind = x.kind /\ y2.tok = x.tok
  BY <1>1, <1>4 DEF IsCall
<1>12. /\ IsCall(y3) /\ y3.stage = x.stage /\ y3.tok = n /\ y3.kind = x.kind
  BY <1>1, <1>6 DEF IsCall
<1>13. /\ IsCall(y4) /\ y4.stage = "blocked" /\ y4.seen = v /\ y4.kind = x.kind /\ y4.tok = x.tok
  BY <1>1, <1>7 DEF IsCall
<1>14. /\ IsCall(y5) /\ y5.stage = "revoke" /\ y5.kind = x.kind /\ y5.tok = x.tok
  BY <1>1, <1>8 DEF IsCall
<1>15. /\ IsCall(y6) /\ y6.stage = "sweep" /\ y6.kind = x.kind /\ y6.tok = x.tok
  BY <1>1, <1>9 DEF IsCall
<1> QED BY <1>10, <1>11, <1>12, <1>13, <1>14, <1>15 DEF y1, y2, y3, y4, y5, y6

\* What those updates leave of the record.
LEMMA CallRest ==
  ASSUME NEW x, IsCall(x), NEW s, NEW o, NEW n, NEW v, NEW a, NEW r
  PROVE  /\ Staged(x, s).dev = x.dev /\ Staged(x, s).out = x.out
         /\ Staged(x, s).scope = x.scope
         /\ Closes(x, o).dev = x.dev
         /\ Bringing(x, n).dev = x.dev /\ Bringing(x, n).out = x.out
         /\ Blocked(x, v).dev = x.dev /\ Blocked(x, v).out = x.out
         /\ Refused(x, a, o).dev = x.dev /\ Refused(x, a, o).scope = a
         /\ Refused(x, a, o).out = o
         /\ Sweeping(x, r).dev = x.dev /\ Sweeping(x, r).out = x.out
         /\ Sweeping(x, r).scope = x.scope /\ Sweeping(x, r).rows = r
<1>1. PICK k, d, t, n0, s0, a0, r0, o0 :
        x = [kind |-> k, dev |-> d, tok |-> t, seen |-> n0, stage |-> s0, scope |-> a0,
             rows |-> r0, out |-> o0]
  BY DEF IsCall
<1>2. Staged(x, s).dev = x.dev /\ Staged(x, s).out = x.out /\ Staged(x, s).scope = x.scope
  BY <1>1 DEF Staged
<1>3. Closes(x, o).dev = x.dev /\ Bringing(x, n).dev = x.dev /\ Bringing(x, n).out = x.out
  BY <1>1 DEF Closes, Bringing
<1>4. Blocked(x, v).dev = x.dev /\ Blocked(x, v).out = x.out
  BY <1>1 DEF Blocked
<1>5. /\ Refused(x, a, o).dev = x.dev /\ Refused(x, a, o).scope = a
      /\ Refused(x, a, o).out = o
  BY <1>1 DEF Refused
<1>6. /\ Sweeping(x, r).dev = x.dev /\ Sweeping(x, r).out = x.out
      /\ Sweeping(x, r).scope = x.scope /\ Sweeping(x, r).rows = r
  BY <1>1 DEF Sweeping
<1> QED BY <1>2, <1>3, <1>4, <1>5, <1>6

LEMMA FreeIsNoCall == Vacant.kind = "free" /\ Vacant.stage = "over" /\ ~Holding(Vacant)
BY DEF Vacant, Holding

-----------------------------------------------------------------------------
(* What a step does to the table of tokens                                 *)

\* Rows are added and revoked, never brought back or rewritten.  A row added by a
\* rotation comes from a live one, and not from one that outran the ban if it does.
TokensGo ==
    /\ Len(token') \in Nat /\ DOMAIN token' = 1..Len(token') /\ Len(token) <= Len(token')
    /\ \A t \in Tokens :
         /\ IsToken(token'[t]) /\ token'[t].late = token[t].late /\ token'[t].from = token[t].from
         /\ token'[t].dev = token[t].dev
         /\ token'[t].live => token[t].live
    /\ \A t \in DOMAIN token' \ Tokens :
         /\ IsToken(token'[t]) /\ token'[t].from \in {0} \cup Tokens
         /\ token'[t].late => status' = "banned"
         /\ token'[t].from # 0 =>
              /\ token[token'[t].from].live
              /\ token'[t].late => ~token[token'[t].from].late

\* The rows that rotations past their check present stay live, but for one that ends.
LiveKept(cs) ==
    \A b \in CallIds \ cs :
        call[b].kind = "rotate" /\ call[b].stage = "mint" => token'[call[b].tok].live

LEMMA TokensSame ==
  ASSUME SessionInv, token' = token
  PROVE  TokensGo /\ LiveKept({})
<1>1. TokensGo
  BY DEF TokensGo, SessionInv, SessionShaped, Tokens
<1>2. ASSUME NEW b \in CallIds, call[b].kind = "rotate", call[b].stage = "mint"
      PROVE  token[call[b].tok].live
  <2>1. GoodCall(call[b], token, status) /\ call[b] # Vacant
    BY <1>2, FreeIsNoCall DEF SessionInv, CallsGood
  <2> QED BY <1>2, <2>1 DEF GoodCall, StageOk
<1> QED BY <1>1, <1>2 DEF LiveKept

LEMMA NewTokenFields ==
  ASSUME NEW d, NEW t
  PROVE  /\ IsToken(NewToken(d, t)) /\ NewToken(d, t).from = t
         /\ NewToken(d, t).late => status = "banned"
         /\ NewToken(d, t).dev = d /\ NewToken(d, t).live /\ ~NewToken(d, t).spent
<1> DEFINE e == status = "banned"
           y == NewToken(d, t)
<1>1. y = [dev |-> d, from |-> t, live |-> TRUE, spent |-> FALSE, late |-> e]
  BY DEF NewToken
<1> HIDE DEF y, e
<1>2. IsToken(y)
  BY <1>1 DEF IsToken
<1>3. y.from = t /\ (y.late => e) /\ y.dev = d /\ y.live /\ ~y.spent
  BY <1>1
<1> QED BY <1>2, <1>3 DEF y, e

\* The row that call c adds, for its device; those not of ts are as they were.
Appends(c, ts) ==
    /\ Len(token') = Len(token) + 1
    /\ \A t \in Tokens \ ts : token'[t] = token[t]
    /\ LET y == token'[Len(token) + 1] IN y.dev = call[c].dev /\ y.live /\ ~y.spent

LEMMA LoginTokens ==
  ASSUME SessionInv, NEW c \in CallIds, Login(c)
  PROVE  TokensGo /\ LiveKept({}) /\ Appends(c, {})
<1> DEFINE y == NewToken(call[c].dev, 0)
<1>1. token' = Append(token, y) /\ status' = status
  BY DEF Login
<1>2. IsToken(y) /\ y.from = 0 /\ (y.late => status = "banned")
      /\ y.dev = call[c].dev /\ y.live /\ ~y.spent
  BY NewTokenFields
<1> HIDE DEF y
<1>3. /\ Len(token') = Len(token) + 1 /\ DOMAIN token' = 1..(Len(token) + 1)
      /\ \A t \in Tokens : token'[t] = token[t]
      /\ token'[Len(token) + 1] = y
  BY <1>1 DEF SessionInv, SessionShaped, Tokens
<1>4. TokensGo
  BY <1>1, <1>2, <1>3 DEF TokensGo, SessionInv, SessionShaped, Tokens
<1>5. ASSUME NEW b \in CallIds, call[b].kind = "rotate", call[b].stage = "mint"
      PROVE  token'[call[b].tok].live
  <2>1. GoodCall(call[b], token, status) /\ call[b] # Vacant
    BY <1>5, FreeIsNoCall DEF SessionInv, CallsGood
  <2> QED BY <1>3, <1>5, <2>1 DEF GoodCall, StageOk, Tokens
<1>6. Appends(c, {})
  BY <1>2, <1>3 DEF Appends
<1> QED BY <1>4, <1>5, <1>6 DEF LiveKept

LEMMA MintTokens ==
  ASSUME SessionInv, NEW c \in CallIds, Mint(c)
  PROVE  /\ TokensGo /\ LiveKept({c})
         /\ Appends(c, {call[c].tok})
<1> DEFINE t == call[c].tok
           y == NewToken(call[c].dev, t)
           z == Used(Dead(token[t]))
           old == [token EXCEPT ![t] = z]
<1>0. /\ t \in Tokens /\ token[t].live /\ (token[t].late => status = "deleted")
      /\ call[c].kind = "rotate" /\ call[c].stage = "mint"
  <2>1. call[c].kind = "rotate" /\ call[c].stage = "mint"
    BY DEF Mint
  <2>2. GoodCall(call[c], token, status) /\ call[c] # Vacant
    BY <2>1, FreeIsNoCall DEF SessionInv, CallsGood
  <2> QED BY <2>1, <2>2 DEF GoodCall, StageOk, Tokens
<1>1. token' = Append(old, y) /\ status' = status
  BY DEF Mint, Used, Dead
<1>2. IsToken(y) /\ y.from = t /\ (y.late => status = "banned")
      /\ y.dev = call[c].dev /\ y.live /\ ~y.spent
  BY NewTokenFields
<1>3. IsToken(z) /\ z.live = FALSE /\ z.late = token[t].late /\ z.from = token[t].from
      /\ z.dev = token[t].dev
  <2>1. IsToken(token[t])
    BY <1>0 DEF SessionInv, SessionShaped
  <2>2. IsToken(Dead(token[t]))
    BY <2>1, TokenFields
  <2> QED BY <2>1, <2>2, TokenFields
<1> HIDE DEF y, z, t
<1>4. /\ Len(old) = Len(token) /\ DOMAIN old = 1..Len(token) /\ old[t] = z
      /\ \A u \in Tokens \ {t} : old[u] = token[u]
  BY <1>0 DEF SessionInv, SessionShaped, Tokens
<1> HIDE DEF old
<1>5. /\ Len(token') = Len(token) + 1 /\ DOMAIN token' = 1..(Len(token) + 1)
      /\ \A u \in Tokens : token'[u] = old[u]
      /\ token'[Len(token) + 1] = y
  BY <1>1, <1>4 DEF SessionInv, SessionShaped, Tokens
<1>6. TokensGo
  <2>1. ASSUME NEW u \in Tokens
        PROVE  /\ IsToken(token'[u]) /\ token'[u].late = token[u].late
               /\ token'[u].from = token[u].from /\ (token'[u].live => token[u].live)
               /\ token'[u].dev = token[u].dev
    BY <1>3, <1>4, <1>5 DEF SessionInv, SessionShaped, Tokens
  <2>2. ASSUME NEW u \in DOMAIN token' \ Tokens
        PROVE  /\ IsToken(token'[u]) /\ token'[u].from \in {0} \cup Tokens
               /\ token'[u].late => status' = "banned"
               /\ token[token'[u].from].live /\ (token'[u].late => ~token[token'[u].from].late)
    <3>1. u = Len(token) + 1
      BY <1>5, <2>2 DEF SessionInv, SessionShaped, Tokens
    <3>2. token'[u] = y
      BY <1>5, <3>1
    <3>3. token'[u].from = t /\ IsToken(token'[u]) /\ (token'[u].late => status = "banned")
      BY <1>2, <3>2
    <3> QED BY <1>0, <1>1, <3>3
  <2>3. Len(token') \in Nat /\ DOMAIN token' = 1..Len(token') /\ Len(token) <= Len(token')
    BY <1>5 DEF SessionInv, SessionShaped
  <2> QED BY <2>1, <2>2, <2>3 DEF TokensGo
<1>7. ASSUME NEW b \in CallIds \ {c}, call[b].kind = "rotate", call[b].stage = "mint"
      PROVE  token'[call[b].tok].live
  <2>1. GoodCall(call[b], token, status) /\ call[b] # Vacant
    BY <1>7, FreeIsNoCall DEF SessionInv, CallsGood
  <2>2. call[b].tok \in Tokens /\ token[call[b].tok].live
    BY <1>7, <2>1 DEF GoodCall, StageOk, Tokens
  <2>3. call[b].tok # t
    BY <1>0, <1>7 DEF SessionInv, RowLocks, Holding, t
  <2> QED BY <1>4, <1>5, <2>2, <2>3
<1>8. Appends(c, {t})
  BY <1>2, <1>4, <1>5 DEF Appends
<1> QED BY <1>6, <1>7, <1>8 DEF LiveKept, t

LEMMA RevokeTokens ==
  ASSUME SessionInv, NEW c \in CallIds, EndRevoke(c)
  PROVE  TokensGo /\ LiveKept({})
<1>1. /\ token' = [t \in Tokens |-> IF t \in call[c].rows THEN Dead(token[t]) ELSE token[t]]
      /\ call[c].rows \cap Locked(c) = {} /\ status' = status
      /\ call[c].stage = "sweep"
  BY DEF EndRevoke, Dead
<1>2. /\ DOMAIN token' = 1..Len(token) /\ Len(token') = Len(token)
  BY <1>1 DEF SessionInv, SessionShaped, Tokens
<1>3. ASSUME NEW t \in Tokens
      PROVE  /\ IsToken(token'[t]) /\ token'[t].late = token[t].late
             /\ token'[t].from = token[t].from /\ (token'[t].live => token[t].live)
             /\ token'[t].dev = token[t].dev
  <2>1. IsToken(token[t])
    BY DEF SessionInv, SessionShaped
  <2> QED BY <1>1, <2>1, TokenFields
<1>4. TokensGo
  BY <1>2, <1>3 DEF TokensGo, SessionInv, SessionShaped, Tokens
<1>5. ASSUME NEW b \in CallIds, call[b].kind = "rotate", call[b].stage = "mint"
      PROVE  token'[call[b].tok].live
  <2>1. GoodCall(call[b], token, status) /\ call[b] # Vacant
    BY <1>5, FreeIsNoCall DEF SessionInv, CallsGood
  <2>2. call[b].tok \in Tokens /\ token[call[b].tok].live
    BY <1>5, <2>1 DEF GoodCall, StageOk, Tokens
  <2>3. call[b].tok \in Locked(c)
    BY <1>1, <1>5 DEF Locked, HeldBy
  <2> QED BY <1>1, <2>2, <2>3
<1> QED BY <1>4, <1>5 DEF LiveKept

LEMMA TokensMove ==
  ASSUME SessionInv, [SessionsNext]_sessionVars
  PROVE  /\ TokensGo
         /\ LiveKept({}) \/ \E c \in CallIds : LiveKept({c}) /\ Mint(c)
<1>1. CASE token' = token
  BY <1>1, TokensSame
<1> QED
  BY <1>1, LoginTokens, MintTokens, RevokeTokens
     DEF SessionsNext, App, Handle, sessionVars, SignIn, Refresh, Hear, GiveUp, EndSession, Kill, Order, SelectToken,
         GetLock, CheckLogin, BeginOrder, StartRevoke, BreakDeadlock, CallDies, Ban, Expire

-----------------------------------------------------------------------------
(* What a step does to the calls                                           *)

LEMMA StatusMove ==
  ASSUME SessionInv, [SessionsNext]_sessionVars
  PROVE  /\ status' \in {"active", "banned", "deleted"}
         /\ status = "deleted" => status' = "deleted"
         /\ status # "active" => status' # "active"
<1>1. CASE status' = status
  BY <1>1 DEF SessionInv, SessionShaped
<1>2. CASE Ban
  BY <1>2 DEF Ban
<1>3. ASSUME NEW c \in CallIds, BeginOrder(c)
      PROVE  status' = status \/ status' = "deleted"
  BY <1>3 DEF BeginOrder
<1>4. ASSUME NEW d \in Devices, App(d)
      PROVE  status' = status
  BY <1>4 DEF App, SignIn, Refresh, Hear, GiveUp, EndSession, Kill, Order
<1>5. ASSUME NEW c \in CallIds, Handle(c) \/ CallDies(c), ~BeginOrder(c)
      PROVE  status' = status
  BY <1>5 DEF Handle, SelectToken, GetLock, Mint, CheckLogin, Login, StartRevoke, EndRevoke,
     BreakDeadlock, CallDies
<1>6. ASSUME NEW t \in Tokens, Expire(t)
      PROVE  status' = status
  BY <1>6 DEF Expire
<1>7. CASE UNCHANGED sessionVars
  BY <1>1, <1>7 DEF sessionVars
<1> QED
  BY <1>1, <1>2, <1>3, <1>4, <1>5, <1>6, <1>7 DEF SessionsNext

LEMMA CarriesOver ==
  ASSUME SessionInv, TokensGo, status = "deleted" => status' = "deleted",
         NEW r, GoodCall(r, token, status),
         r.kind = "rotate" /\ r.stage = "mint" => token'[r.tok].live
  PROVE  GoodCall(r, token', status')
<1>1. Len(token) \in Nat /\ Len(token') \in Nat /\ Len(token) <= Len(token')
      /\ Tokens = 1..Len(token)
  BY DEF SessionInv, SessionShaped, TokensGo, Tokens
<1>2. \A t \in 1..Len(token) : t \in 1..Len(token') /\ token'[t].late = token[t].late
  BY <1>1 DEF TokensGo
<1> QED BY <1>2 DEF GoodCall, StageOk, AnswerOk

\* A server step leaves the slot of its call with the same call, further on, or
\* free because the call is over and nobody waits for its answer.
Served(c, r) ==
    /\ call' = [call EXCEPT ![c] = r] /\ UNCHANGED <<stored, await, ending>>
    /\ (r = Vacant /\ Unheard(c)) \/ (IsCall(r) /\ r.kind = call[c].kind)
    /\ GoodCall(r, token', status')
    /\ Holding(r) => r.tok = call[c].tok /\ (Holding(call[c]) \/ CanLock(c))

LEMMA StepServes ==
  ASSUME NEW c \in CallIds, NEW x,
         call' = [call EXCEPT ![c] = IF x.stage = "over" THEN Replied(c, x) ELSE x],
         UNCHANGED <<stored, await, ending>>,
         IsCall(x), x.kind = call[c].kind,
         StageOk(x, token', status'), AnswerOk(x, token'),
         Holding(x) => x.tok = call[c].tok /\ (Holding(call[c]) \/ CanLock(c))
  PROVE  \E r : Served(c, r)
<1>1. CASE x.stage = "over" /\ Unheard(c)
  <2>1. call' = [call EXCEPT ![c] = Vacant]
    BY <1>1 DEF Replied
  <2>2. GoodCall(Vacant, token', status')
    BY DEF GoodCall
  <2> QED BY <1>1, <2>1, <2>2, FreeIsNoCall DEF Served
<1>2. CASE ~(x.stage = "over" /\ Unheard(c))
  <2>1. call' = [call EXCEPT ![c] = x]
    BY <1>2 DEF Replied
  <2> QED BY <2>1 DEF Served, GoodCall
<1> QED BY <1>1, <1>2

\* What the held row and the status seen make of a rotation is in order.
LEMMA VerdictOk ==
  ASSUME NEW c \in CallIds, NEW v, IsCall(call[c]), call[c].kind = "rotate",
         call[c].tok \in 1..Len(token),
         token[call[c].tok].late => v = "banned" \/ status = "deleted"
  PROVE  /\ IsCall(Ruling(c, v)) /\ Ruling(c, v).kind = call[c].kind
         /\ Ruling(c, v).tok = call[c].tok
         /\ StageOk(Ruling(c, v), token, status) /\ AnswerOk(Ruling(c, v), token)
<1> DEFINE t == call[c].tok
           x == call[c]
           y == Ruling(c, v)
<1>1. CASE token[t].spent
  <2>1. y = Refused(x, "device", "replayed")
    BY <1>1 DEF Ruling, Refused
  <2> QED BY <2>1, CallFields DEF StageOk, AnswerOk
<1>2. ASSUME NEW o \in {"revoked", "expired"}, y = Closes(x, o)
      PROVE  /\ IsCall(y) /\ y.kind = x.kind /\ y.tok = x.tok
             /\ StageOk(y, token, status) /\ AnswerOk(y, token)
  BY <1>2, CallFields DEF StageOk, AnswerOk
<1>3. CASE ~token[t].spent /\ (~token[t].live \/ t \in expired)
  <2>1. y = Closes(x, "revoked") \/ y = Closes(x, "expired")
    BY <1>3 DEF Ruling, Closes, Reply
  <2> QED BY <1>2, <2>1
<1>4. CASE ~token[t].spent /\ token[t].live /\ t \notin expired /\ v = "banned"
  <2>1. y = Refused(x, "account", "banned")
    BY <1>4 DEF Ruling, Refused
  <2> QED BY <2>1, CallFields DEF StageOk, AnswerOk
<1>5. CASE ~token[t].spent /\ token[t].live /\ t \notin expired /\ v # "banned"
  <2>1. y = Staged(x, "mint")
    BY <1>5 DEF Ruling, Staged
  <2>2. IsCall(y) /\ y.kind = x.kind /\ y.tok = x.tok /\ y.stage = "mint"
    BY <2>1, CallFields
  <2> QED BY <1>5, <2>2 DEF StageOk, AnswerOk
<1> QED BY <1>1, <1>3, <1>4, <1>5

LEMMA UnderWay ==
  ASSUME SessionInv, NEW c \in CallIds, call[c].kind \in Kinds \/ call[c].stage # "over"
  PROVE  IsCall(call[c]) /\ StageOk(call[c], token, status)
<1>1. call[c] # Vacant
  BY FreeIsNoCall DEF Kinds
<1> QED BY <1>1 DEF SessionInv, CallsGood, GoodCall

\* An update that is no check, or a check that does not pass.
LEMMA PlainStep ==
  ASSUME NEW c \in CallIds, NEW x,
         call' = [call EXCEPT ![c] = IF x.stage = "over" THEN Replied(c, x) ELSE x],
         UNCHANGED <<stored, await, ending>>, IsCall(x), x.kind = call[c].kind,
         x.stage \in {"over", "revoke", "sweep", "mint"},
         x.stage = "mint" => x.kind # "rotate",
         x.kind = "login" => x.stage \notin {"revoke", "sweep"},
         x.stage = "over" /\ x.out = "ok" =>
             x.kind \notin {"rotate", "login"} \/ x.tok \in 1..Len(token'),
         x.stage \in {"revoke", "sweep"} /\ x.kind = "rotate" =>
             x.tok = call[c].tok /\ x.tok \in 1..Len(token') /\ Holding(call[c])
  PROVE  \E r : Served(c, r)
<1>1. StageOk(x, token', status') /\ AnswerOk(x, token')
  BY DEF StageOk, AnswerOk
<1>2. Holding(x) => x.tok = call[c].tok /\ (Holding(call[c]) \/ CanLock(c))
  BY DEF Holding
<1> QED BY <1>1, <1>2, StepServes

LEMMA SelectServes ==
  ASSUME SessionInv, NEW c \in CallIds, SelectToken(c)
  PROVE  \E r : Served(c, r)
<1>1. /\ call[c].kind = "rotate" /\ call[c].stage = "sent" /\ token' = token /\ status' = status
      /\ UNCHANGED <<stored, await, ending>>
  BY DEF SelectToken, Step
<1>2. IsCall(call[c]) /\ call[c].tok \in 1..Len(token)
  BY <1>1, UnderWay DEF StageOk
<1>3. token[call[c].tok].late => status = "banned" \/ status = "deleted"
  BY <1>2 DEF SessionInv, LateSinceBan, SessionShaped, Tokens
<1>4. CASE CanLock(c)
  <2> DEFINE x == Ruling(c, status)
  <2>1. call' = [call EXCEPT ![c] = IF x.stage = "over" THEN Replied(c, x) ELSE x]
    BY <1>4 DEF SelectToken, Step
  <2>2. /\ IsCall(x) /\ x.kind = call[c].kind /\ x.tok = call[c].tok
        /\ StageOk(x, token, status) /\ AnswerOk(x, token)
    BY <1>1, <1>2, <1>3, VerdictOk
  <2> HIDE DEF x
  <2> QED BY <1>1, <1>4, <2>1, <2>2, StepServes
<1>5. CASE ~CanLock(c)
  <2> DEFINE x == Blocked(call[c], status)
  <2>1. call' = [call EXCEPT ![c] = IF x.stage = "over" THEN Replied(c, x) ELSE x]
    BY <1>5 DEF SelectToken, Step, Blocked
  <2>2. /\ IsCall(x) /\ x.stage = "blocked" /\ x.seen = status /\ x.kind = call[c].kind
        /\ x.tok = call[c].tok
    BY <1>2, CallFields
  <2> HIDE DEF x
  <2>3. StageOk(x, token, status) /\ AnswerOk(x, token) /\ ~Holding(x)
    BY <1>2, <1>3, <2>2 DEF StageOk, AnswerOk, Holding
  <2> QED BY <1>1, <2>1, <2>2, <2>3, StepServes
<1> QED BY <1>4, <1>5

LEMMA GetLockServes ==
  ASSUME SessionInv, NEW c \in CallIds, GetLock(c)
  PROVE  \E r : Served(c, r)
<1>1. /\ call[c].kind = "rotate" /\ call[c].stage = "blocked" /\ CanLock(c)
      /\ token' = token /\ status' = status /\ UNCHANGED <<stored, await, ending>>
  BY DEF GetLock, Step
<1>2. /\ IsCall(call[c]) /\ call[c].tok \in 1..Len(token)
      /\ token[call[c].tok].late =>
           call[c].seen = "banned" \/ status = "deleted"
  BY <1>1, UnderWay DEF StageOk
<1> DEFINE x == Ruling(c, call[c].seen)
<1>3. call' = [call EXCEPT ![c] = IF x.stage = "over" THEN Replied(c, x) ELSE x]
  BY DEF GetLock, Step
<1>4. /\ IsCall(x) /\ x.kind = call[c].kind /\ x.tok = call[c].tok
      /\ StageOk(x, token, status) /\ AnswerOk(x, token)
  BY <1>1, <1>2, VerdictOk
<1> HIDE DEF x
<1> QED BY <1>1, <1>3, <1>4, StepServes

\* createRefreshToken answers with the row it wrote.
LEMMA WriteServes ==
  ASSUME SessionInv, NEW c \in CallIds, Mint(c) \/ Login(c)
  PROVE  \E r : Served(c, r)
<1> DEFINE z == Closes(call[c], "ok")
           x == Bringing(z, Len(token) + 1)
<1>1. /\ IsCall(call[c]) /\ call[c].kind \in Kinds
  BY UnderWay DEF Mint, Login, Kinds
<1>2. IsCall(z) /\ z.stage = "over" /\ z.kind = call[c].kind
  BY <1>1, CallFields
<1>3. call' = [call EXCEPT ![c] = IF x.stage = "over" THEN Replied(c, x) ELSE x]
      /\ UNCHANGED <<stored, await, ending>>
  BY DEF Mint, Login, Step, Reply, Closes, Bringing
<1> HIDE DEF z
<1>4. IsCall(x) /\ x.stage = "over" /\ x.kind = call[c].kind /\ x.tok = Len(token) + 1
  BY <1>2, CallFields
<1>5. Len(token') = Len(token) + 1 /\ Len(token) \in Nat
  <2>1. CASE Mint(c)
    BY <2>1, MintTokens DEF SessionInv, SessionShaped, Appends
  <2>2. CASE Login(c)
    BY <2>2 DEF Login, SessionInv, SessionShaped
  <2> QED BY <2>1, <2>2
<1> HIDE DEF x
<1>6. StageOk(x, token', status') /\ AnswerOk(x, token') /\ ~Holding(x)
  BY <1>4, <1>5 DEF StageOk, AnswerOk, Holding
<1> QED BY <1>3, <1>4, <1>6, StepServes

LEMMA OtherServes ==
  ASSUME SessionInv, NEW c \in CallIds,
         \/ CheckLogin(c) \/ BeginOrder(c) \/ StartRevoke(c) \/ EndRevoke(c)
         \/ BreakDeadlock(c) \/ CallDies(c)
  PROVE  \E r : Served(c, r)
<1>1. IsCall(call[c]) /\ UNCHANGED <<stored, await, ending>>
      /\ (call[c].kind = "rotate" /\ call[c].stage # "over" => call[c].tok \in 1..Len(token))
  BY UnderWay DEF CheckLogin, BeginOrder, StartRevoke, EndRevoke, BreakDeadlock, Deadlocked, CallDies,
                  Step, Kinds, StageOk
<1>2. Len(token') = Len(token)
  BY RevokeTokens DEF CheckLogin, BeginOrder, StartRevoke, EndRevoke, BreakDeadlock, CallDies,
                      SessionInv, SessionShaped, Tokens
<1>3. ASSUME NEW o,
             \/ o # "ok" \/ call[c].kind \notin {"rotate", "login"}
             \/ call[c].tok \in 1..Len(token),
             call' = [call EXCEPT ![c] = IF Closes(call[c], o).stage = "over"
                                         THEN Replied(c, Closes(call[c], o)) ELSE Closes(call[c], o)]
      PROVE  \E r : Served(c, r)
  <2> DEFINE x == Closes(call[c], o)
  <2>1. call' = [call EXCEPT ![c] = IF x.stage = "over" THEN Replied(c, x) ELSE x]
    BY <1>3
  <2>2. /\ IsCall(x) /\ x.stage = "over" /\ x.out = o /\ x.kind = call[c].kind
        /\ x.tok = call[c].tok
    BY <1>1, CallFields
  <2> HIDE DEF x
  <2> QED BY <1>1, <1>2, <1>3, <2>1, <2>2, PlainStep
<1>4. ASSUME NEW s \in {"mint", "revoke"}, call[c].kind # "rotate",
             s = "revoke" => call[c].kind # "login",
             call' = [call EXCEPT ![c] = IF Staged(call[c], s).stage = "over"
                                         THEN Replied(c, Staged(call[c], s)) ELSE Staged(call[c], s)]
      PROVE  \E r : Served(c, r)
  <2> DEFINE x == Staged(call[c], s)
  <2>1. call' = [call EXCEPT ![c] = IF x.stage = "over" THEN Replied(c, x) ELSE x]
    BY <1>4
  <2>2. /\ IsCall(x) /\ x.stage = s /\ x.kind = call[c].kind
    BY <1>1, CallFields
  <2> HIDE DEF x
  <2> QED BY <1>1, <1>4, <2>1, <2>2, PlainStep
<1>5. CASE CheckLogin(c)
  <2>1. CASE status # "active"
    <3>1. call' = [call EXCEPT ![c] = IF Closes(call[c], "failed").stage = "over"
                                      THEN Replied(c, Closes(call[c], "failed"))
                                      ELSE Closes(call[c], "failed")]
      BY <1>5, <2>1 DEF CheckLogin, Step, Reply, Closes
    <3>2. "failed" # "ok"
      OBVIOUS
    <3> QED BY <1>3, <3>1, <3>2
  <2>2. CASE status = "active"
    <3>1. call[c].kind # "rotate"
      BY <1>5 DEF CheckLogin
    <3>2. call' = [call EXCEPT ![c] = IF Staged(call[c], "mint").stage = "over"
                                      THEN Replied(c, Staged(call[c], "mint"))
                                      ELSE Staged(call[c], "mint")]
      BY <1>5, <2>2 DEF CheckLogin, Step, Staged
    <3> QED BY <1>4, <3>1, <3>2
  <2> QED BY <2>1, <2>2
<1>6. CASE BeginOrder(c)
  BY <1>3, <1>4, <1>6 DEF BeginOrder, Step, Reply, Closes, Staged
<1>7. CASE StartRevoke(c)
  <2> DEFINE rs == {t \in Scope(c) : token[t].live}
             x == Sweeping(call[c], rs)
  <2>1. /\ call' = [call EXCEPT ![c] = IF x.stage = "over" THEN Replied(c, x) ELSE x]
        /\ call[c].stage = "revoke"
    BY <1>7 DEF StartRevoke, Step, Sweeping
  <2> HIDE DEF rs
  <2>2. IsCall(x) /\ x.stage = "sweep" /\ x.kind = call[c].kind /\ x.tok = call[c].tok
    BY <1>1, CallFields
  <2> HIDE DEF x
  <2>3. x.kind = "rotate" => Holding(call[c]) /\ x.tok \in 1..Len(token')
    BY <1>1, <1>2, <2>1, <2>2 DEF Holding
  <2>4. x.kind # "login"
    BY <2>1, <2>2, UnderWay DEF StageOk
  <2> QED BY <1>1, <2>1, <2>2, <2>3, <2>4, PlainStep
<1>8. CASE EndRevoke(c)
  <2> DEFINE o == IF call[c].out = "none" THEN "ok" ELSE call[c].out
  <2>1. /\ call[c].stage = "sweep" /\ call[c].kind \in Kinds
        /\ call' = [call EXCEPT ![c] = IF Closes(call[c], o).stage = "over"
                                        THEN Replied(c, Closes(call[c], o)) ELSE Closes(call[c], o)]
    BY <1>8 DEF EndRevoke, Step, Reply, Closes
  <2>2. call[c].kind # "login"
    BY <2>1, UnderWay DEF StageOk
  <2>3. call[c].kind = "rotate" => call[c].tok \in 1..Len(token)
    BY <1>1, <2>1
  <2> HIDE DEF o
  <2> QED BY <1>3, <2>1, <2>2, <2>3
<1>9. CASE BreakDeadlock(c) \/ CallDies(c)
  <2>1. call' = [call EXCEPT ![c] = IF Closes(call[c], "failed").stage = "over"
                                    THEN Replied(c, Closes(call[c], "failed"))
                                    ELSE Closes(call[c], "failed")]
    <3>1. Closes(call[c], "failed").stage = "over"
      BY <1>1, CallFields
    <3> QED BY <1>9, <3>1 DEF BreakDeadlock, CallDies, Step, Reply, Closes
  <2> QED BY <1>3, <2>1
<1> QED BY <1>5, <1>6, <1>7, <1>8, <1>9

\* A server step leaves the other calls, and what the devices wait for, alone.
LEMMA ServedKeeps ==
  ASSUME SessionInv, [SessionsNext]_sessionVars, NEW c \in CallIds, NEW r, Served(c, r), call[c] # Vacant,
         \A b \in CallIds \ {c} :
            call[b].kind = "rotate" /\ call[b].stage = "mint" => token'[call[b].tok].live
  PROVE  CallsGood' /\ AwaitsOwn' /\ RowLocks' /\ DOMAIN call' = CallIds
<1>1. /\ DOMAIN call' = CallIds /\ call'[c] = r
      /\ \A b \in CallIds \ {c} : call'[b] = call[b]
  BY DEF Served, SessionInv, SessionShaped
<1>2. TokensGo /\ (status = "deleted" => status' = "deleted")
  BY TokensMove, StatusMove
<1>3. \A b \in CallIds \ {c} : GoodCall(call[b], token', status')
  BY <1>2, CarriesOver DEF SessionInv, CallsGood
<1>4. CallsGood'
  BY <1>1, <1>3 DEF CallsGood, Served
<1>5. AwaitsOwn'
  <2>1. ASSUME NEW d \in Devices, await[d] # 0
        PROVE  await[d] \in CallIds /\ call'[await[d]].kind \in {"rotate", "login"}
    BY <1>1, <2>1 DEF Served, Unheard, SessionInv, AwaitsOwn
  <2>2. await' = await
    BY DEF Served
  <2> QED BY <2>1, <2>2 DEF AwaitsOwn, SessionInv
<1>6. ASSUME NEW b \in CallIds \ {c}, Holding(r), Holding(call[b]) PROVE call[b].tok # r.tok
  <2>1. r.tok = call[c].tok /\ (Holding(call[c]) \/ CanLock(c))
    BY <1>6 DEF Served
  <2>2. CASE Holding(call[c])
    BY <1>6, <2>1, <2>2 DEF SessionInv, RowLocks
  <2>3. CASE CanLock(c)
    <3>1. HeldBy(b) = {call[b].tok}
      BY <1>6 DEF Holding, HeldBy
    <3> QED BY <2>1, <2>3, <3>1 DEF CanLock, Locked
  <2> QED BY <2>1, <2>2, <2>3
<1>7. RowLocks'
  <2>1. \A b, e \in CallIds : Holding(call'[b]) /\ Holding(call'[e])
                              /\ call'[b].tok = call'[e].tok => b = e
    BY <1>1, <1>6 DEF SessionInv, RowLocks
  <2> QED BY <2>1 DEF RowLocks, Holding
<1> QED BY <1>1, <1>4, <1>5, <1>7

\* What a step leaves of the calls and of what the devices hold.
CallPart ==
    /\ CallsGood' /\ AwaitsOwn' /\ RowLocks' /\ DOMAIN call' = CallIds
    /\ DOMAIN stored' = Devices /\ DOMAIN await' = Devices /\ DOMAIN ending' = Devices
    /\ \A d \in Devices : stored'[d] \in {0} \cup Tokens'

LEMMA TokensOnlyGrow == ASSUME SessionInv, [SessionsNext]_sessionVars PROVE Tokens \subseteq Tokens'
BY TokensMove DEF TokensGo, Tokens, SessionInv, SessionShaped

LEMMA ServerKeeps ==
  ASSUME SessionInv, [SessionsNext]_sessionVars, NEW c \in CallIds, Handle(c) \/ CallDies(c)
  PROVE  CallPart
<1>1. call[c] # Vacant
  BY FreeIsNoCall
     DEF Handle, SelectToken, GetLock, Mint, CheckLogin, Login, BeginOrder, StartRevoke, EndRevoke,
         BreakDeadlock, Deadlocked, CallDies, Kinds
<1>2. \A b \in CallIds \ {c} :
         call[b].kind = "rotate" /\ call[b].stage = "mint" => token'[call[b].tok].live
  <2>1. CASE token' = token
    BY <2>1, TokensSame DEF LiveKept
  <2>2. CASE Mint(c)
    BY <2>2, MintTokens DEF LiveKept
  <2>3. CASE Login(c) \/ EndRevoke(c)
    BY <2>3, LoginTokens, RevokeTokens DEF LiveKept
  <2> QED BY <2>1, <2>2, <2>3
          DEF Handle, SelectToken, GetLock, CheckLogin, BeginOrder, StartRevoke, BreakDeadlock, CallDies
<1>3. PICK r : Served(c, r)
  BY SelectServes, GetLockServes, WriteServes, OtherServes DEF Handle
<1>4. CallsGood' /\ AwaitsOwn' /\ RowLocks' /\ DOMAIN call' = CallIds
  BY <1>1, <1>2, <1>3, ServedKeeps
<1> QED BY <1>3, <1>4, TokensOnlyGrow DEF CallPart, Served, SessionInv, SessionShaped

\* A call that is sent takes a free slot, which nobody waits for.
LEMMA Sending ==
  ASSUME SessionInv, Room, NEW k \in Kinds, NEW d \in Devices, NEW t,
         k = "rotate" => t \in Tokens,
         token' = token, status' = status, call' = [call EXCEPT ![Slot] = Request(k, d, t)]
  PROVE  /\ CallsGood' /\ RowLocks' /\ DOMAIN call' = CallIds
         /\ Slot \in CallIds /\ call[Slot] = Vacant /\ call'[Slot].kind = k
         /\ \A b \in CallIds \ {Slot} : call'[b] = call[b]
<1> DEFINE x == Request(k, d, t)
<1>1. Slot \in CallIds /\ call[Slot] = Vacant
  BY DEF Room, Slot
<1>2. /\ x = [kind |-> k, dev |-> d, tok |-> t, seen |-> "active", stage |-> "sent",
              scope |-> "account", rows |-> {}, out |-> "none"]
  BY DEF Request
<1> HIDE DEF x
<1>3. IsCall(x)
  BY <1>2 DEF IsCall
<1>4. x.stage = "sent" /\ x.kind = k /\ x.tok = t
  BY <1>2
<1>5. GoodCall(x, token, status) /\ ~Holding(x)
  BY <1>3, <1>4 DEF GoodCall, StageOk, AnswerOk, Holding, Tokens
<1>6. /\ DOMAIN call' = CallIds /\ call'[Slot] = x
      /\ \A b \in CallIds \ {Slot} : call'[b] = call[b]
  BY <1>1, <1>2 DEF SessionInv, SessionShaped, x
<1>7. CallsGood'
  BY <1>5, <1>6 DEF CallsGood, SessionInv
<1>8. RowLocks'
  <2>1. \A b, e \in CallIds : Holding(call'[b]) /\ Holding(call'[e])
                              /\ call'[b].tok = call'[e].tok => b = e
    BY <1>5, <1>6 DEF SessionInv, RowLocks
  <2> QED BY <2>1 DEF RowLocks, Holding
<1> QED BY <1>1, <1>4, <1>6, <1>7, <1>8

LEMMA AppKeeps ==
  ASSUME SessionInv, NEW d \in Devices, App(d)
  PROVE  CallPart
<1>1. ASSUME NEW k \in {"login", "rotate"}, NEW t, k = "rotate" => t \in Tokens, Room,
             call' = [call EXCEPT ![Slot] = Request(k, d, t)],
             await' = [await EXCEPT ![d] = Slot], token' = token, status' = status,
             stored' = stored, ending' = ending
      PROVE  CallPart
  <2>1. /\ CallsGood' /\ RowLocks' /\ DOMAIN call' = CallIds
        /\ Slot \in CallIds /\ call[Slot] = Vacant /\ call'[Slot].kind = k
        /\ \A b \in CallIds \ {Slot} : call'[b] = call[b]
    BY <1>1, Sending DEF Kinds
  <2>2. /\ DOMAIN await' = Devices /\ await'[d] = Slot
        /\ \A e \in Devices \ {d} : await'[e] = await[e]
    BY <1>1 DEF SessionInv, SessionShaped
  <2>3. \A e \in Devices : await[e] # 0 => await[e] # Slot
    BY <2>1, FreeIsNoCall DEF SessionInv, AwaitsOwn
  <2>4. AwaitsOwn'
    BY <2>1, <2>2, <2>3 DEF SessionInv, AwaitsOwn
  <2> QED BY <1>1, <2>1, <2>2, <2>4 DEF CallPart, SessionInv, SessionShaped, Tokens
<1>2. CASE SignIn(d)
  BY <1>1, <1>2 DEF SignIn, Unwritten
<1>3. CASE Refresh(d)
  <2>1. Room /\ stored[d] \in Tokens
    BY <1>3 DEF Refresh, Rotatable, Unwritten, SessionInv, SessionShaped
  <2> QED BY <1>1, <1>3, <2>1 DEF Refresh
<1>4. ASSUME NEW k \in {"logout", "delete"}, Room, call' = [call EXCEPT ![Slot] = Request(k, d, 0)],
             stored' = [stored EXCEPT ![d] = 0], await' = await, token' = token, status' = status,
             ending' \in {ending, [ending EXCEPT ![d] = 0]}
      PROVE  CallPart
  <2>1. /\ CallsGood' /\ RowLocks' /\ DOMAIN call' = CallIds
        /\ Slot \in CallIds /\ call[Slot] = Vacant
        /\ \A b \in CallIds \ {Slot} : call'[b] = call[b]
    BY <1>4, Sending DEF Kinds
  <2>2. \A e \in Devices : await[e] # 0 => await[e] # Slot
    BY <2>1, FreeIsNoCall DEF SessionInv, AwaitsOwn
  <2>3. AwaitsOwn'
    BY <1>4, <2>1, <2>2 DEF SessionInv, AwaitsOwn
  <2> QED BY <1>4, <2>1, <2>3 DEF CallPart, SessionInv, SessionShaped, Tokens
<1>7. CASE Order(d, "logout") \/ Order(d, "delete")
  BY <1>4, <1>7 DEF Order
<1>5. CASE Hear(d)
  <2> DEFINE a == await[d]
  <2>1. /\ a # 0 /\ call[a].stage = "over" /\ a \in CallIds
        /\ call[a].kind \in {"rotate", "login"}
        /\ stored' = stored \/ (call[a].out = "ok" /\ stored' = [stored EXCEPT ![d] = call[a].tok])
        /\ ending' = ending \/ ending' = [ending EXCEPT ![d] = stored[d]]
        /\ await' = [await EXCEPT ![d] = 0] /\ call' = [call EXCEPT ![a] = Vacant]
        /\ token' = token /\ status' = status
    BY <1>5 DEF Hear, Failed, SessionInv, AwaitsOwn
  <2>2. call[a].out = "ok" => call[a].tok \in Tokens
    BY <2>1, FreeIsNoCall DEF SessionInv, CallsGood, GoodCall, AnswerOk, Tokens
  <2>3. /\ DOMAIN call' = CallIds /\ call'[a] = Vacant
        /\ \A b \in CallIds \ {a} : call'[b] = call[b]
    BY <2>1 DEF SessionInv, SessionShaped
  <2>4. CallsGood'
    BY <2>1, <2>3 DEF CallsGood, GoodCall, SessionInv
  <2>5. \A b, e \in CallIds : Holding(call'[b]) /\ Holding(call'[e])
                              /\ call'[b].tok = call'[e].tok => b = e
    BY <2>3, FreeIsNoCall DEF SessionInv, RowLocks
  <2>6. RowLocks'
    BY <2>5 DEF RowLocks, Holding
  <2>7. AwaitsOwn'
    BY <2>1, <2>3 DEF SessionInv, SessionShaped, AwaitsOwn
  <2>8. /\ DOMAIN stored' = Devices /\ DOMAIN await' = Devices /\ DOMAIN ending' = Devices
        /\ \A e \in Devices : stored'[e] \in {0} \cup Tokens'
    BY <2>1, <2>2 DEF SessionInv, SessionShaped, Tokens
  <2> QED BY <2>3, <2>4, <2>6, <2>7, <2>8 DEF CallPart
<1>6. CASE GiveUp(d) \/ Kill(d)
  <2>1. /\ await' = [await EXCEPT ![d] = 0] /\ call' = call /\ token' = token /\ status' = status
        /\ stored' = stored \/ stored' = [stored EXCEPT ![d] = 0]
        /\ ending' = ending \/ \E t : ending' = [ending EXCEPT ![d] = t]
    BY <1>6 DEF GiveUp, Kill, Failed
  <2>2. CallsGood' /\ RowLocks' /\ DOMAIN call' = CallIds
    BY <2>1 DEF SessionInv, CallsGood, RowLocks, Holding, SessionShaped
  <2>3. AwaitsOwn'
    BY <2>1 DEF SessionInv, SessionShaped, AwaitsOwn
  <2> QED BY <2>1, <2>2, <2>3 DEF CallPart, SessionInv, SessionShaped, Tokens
<1>8. CASE EndSession(d)
  <2>1. CASE call' = call
    <3>1. /\ await' = await /\ token' = token /\ status' = status
          /\ stored' = [stored EXCEPT ![d] = 0]
          /\ ending' = ending \/ ending' = [ending EXCEPT ![d] = 0]
      BY <1>8 DEF EndSession
    <3>2. CallsGood' /\ RowLocks' /\ AwaitsOwn'
      BY <2>1, <3>1 DEF SessionInv, CallsGood, RowLocks, Holding, AwaitsOwn
    <3> QED BY <2>1, <3>1, <3>2 DEF CallPart, SessionInv, SessionShaped, Tokens
  <2>2. CASE call' # call
    BY <1>4, <1>8, <2>2 DEF EndSession
  <2> QED BY <2>1, <2>2
<1> QED BY <1>2, <1>3, <1>5, <1>6, <1>7, <1>8 DEF App

-----------------------------------------------------------------------------
(* The theorems                                                            *)

LEMMA SessionInvStarts == SessionsInit => SessionInv
<1> SUFFICES ASSUME SessionsInit PROVE SessionInv
  OBVIOUS
<1>1. token = <<>> /\ Tokens = {} /\ Len(token) = 0 /\ DOMAIN token = {}
  BY DEF SessionsInit, Tokens
<1>2. SessionShaped
  BY <1>1 DEF SessionsInit, SessionShaped
<1>3. CallsGood /\ AwaitsOwn /\ RowLocks
  BY FreeIsNoCall DEF SessionsInit, CallsGood, GoodCall, AwaitsOwn, RowLocks
<1>4. LateSinceBan /\ BanBites
  BY <1>1 DEF LateSinceBan, BanBites
<1> QED BY <1>2, <1>3, <1>4 DEF SessionInv

LEMMA SessionInvKeeps == SessionInv /\ [SessionsNext]_sessionVars => SessionInv'
<1> SUFFICES ASSUME SessionInv, [SessionsNext]_sessionVars PROVE SessionInv'
  OBVIOUS
<1>1. CallPart
  <2>1. CASE UNCHANGED <<call, stored, await, ending, token>>
    <3>1. TokensGo /\ (status = "deleted" => status' = "deleted") /\ LiveKept({})
      BY <2>1, TokensSame, StatusMove
    <3>2. CallsGood'
      BY <2>1, <3>1, CarriesOver DEF LiveKept, SessionInv, CallsGood
    <3> QED BY <2>1, <3>2 DEF CallPart, SessionInv, AwaitsOwn, RowLocks, Holding, SessionShaped, Tokens
  <2> QED BY <2>1, ServerKeeps, AppKeeps DEF SessionsNext, Ban, Expire, sessionVars
<1>2. TokensGo
  BY TokensMove
<1>3. SessionShaped'
  <2>1. ASSUME NEW t \in Tokens' PROVE IsToken(token'[t]) /\ token'[t].from \in {0} \cup Tokens'
    <3>1. IsToken(token'[t]) /\ token'[t].from \in {0} \cup Tokens
      BY <1>2, <2>1 DEF TokensGo, SessionInv, SessionShaped, Tokens
    <3> QED BY <3>1, TokensOnlyGrow
  <2> QED BY <1>1, <1>2, <2>1, StatusMove DEF SessionShaped, CallPart, TokensGo
<1>4. LateSinceBan'
  <2>1. ASSUME NEW t \in Tokens', token'[t].late PROVE status' # "active"
    BY <1>2, <2>1, StatusMove DEF TokensGo, SessionInv, SessionShaped, LateSinceBan, Tokens
  <2> QED BY <2>1 DEF LateSinceBan
<1>5. BanBites'
  <2>1. ASSUME NEW t \in Tokens', token'[t].late, token'[t].from # 0
        PROVE  ~token'[token'[t].from].late
    <3>1. CASE t \in Tokens
      <4>1. /\ token[t].late /\ token[t].from # 0 /\ token'[t].from = token[t].from
            /\ token[t].from \in Tokens
        BY <1>2, <2>1, <3>1 DEF TokensGo, SessionInv, SessionShaped
      <4>2. ~token[token[t].from].late
        BY <3>1, <4>1 DEF SessionInv, BanBites
      <4> QED BY <1>2, <4>1, <4>2 DEF TokensGo
    <3>2. CASE t \notin Tokens
      <4>1. t \in DOMAIN token' \ Tokens
        BY <1>2, <2>1, <3>2 DEF TokensGo, Tokens
      <4>2. token'[t].from \in Tokens /\ ~token[token'[t].from].late
        BY <1>2, <2>1, <4>1 DEF TokensGo
      <4> QED BY <1>2, <4>2 DEF TokensGo
    <3> QED BY <3>1, <3>2
  <2> QED BY <2>1 DEF BanBites
<1> QED BY <1>1, <1>3, <1>4, <1>5 DEF SessionInv, CallPart

-----------------------------------------------------------------------------
(* A session that nobody disturbs                                          *)

Presents(r) == r.kind = "rotate" /\ r.stage # "over"
Brings(r)   == r.kind \in {"rotate", "login"} /\ r.stage = "over" /\ r.out = "ok"

\* A token of d that can be exchanged; and that no call is exchanging.
GoodToken(t, d) ==
    t \in Tokens /\ token[t].dev = d /\ token[t].live /\ ~token[t].spent /\ t \notin expired
Unclaimed(t) == \A c \in CallIds : Presents(call[c]) => call[c].tok # t

\* Devices hold, await and present tokens of their own.
OwnToken(r) ==
    /\ r.kind = "rotate" \/ Brings(r) => r.tok \in Tokens /\ token[r.tok].dev = r.dev
    /\ r.kind = "rotate" /\ r.stage \in {"revoke", "sweep"} => r.out \notin {"none", "ok"}

OwnTokens ==
    /\ expired \subseteq Tokens
    /\ \A d \in Devices : stored[d] # 0 => token[stored[d]].dev = d
    /\ \A d \in Devices : await[d] # 0 =>
         /\ call[await[d]].dev = d
         /\ call[await[d]].kind = "login" => stored[d] = 0
    /\ \A c \in CallIds : OwnToken(call[c])

\* A call r that does no harm to the undisturbed device d: no sign-out; no check
\* that saw the account banned; nothing revoked but tokens of another device; and
\* if it is a call of d, no refusal in sight.
Harmless(r, d) ==
    /\ r.kind \notin {"logout", "delete"}
    /\ r.kind = "rotate" /\ r.stage = "blocked" => r.seen = "active"
    /\ r.kind = "rotate" /\ r.stage \in {"revoke", "sweep"} =>
         /\ r.scope = "device" /\ r.dev # d
         /\ r.stage = "sweep" => \A t \in r.rows : t \in Tokens /\ token[t].dev # d
    /\ r.kind \in {"rotate", "login"} /\ r.dev = d =>
         /\ r.out \in {"none", "ok", "failed"}
         /\ r.stage # "over" => r.out = "none"
    /\ Presents(r) /\ r.dev = d => GoodToken(r.tok, d)

\* What d holds, unless a refresh failed with it, or is about to be told, is good;
\* and each token of its is presented by one call.
Calm(d) ==
    /\ status = "active"
    /\ \A c \in CallIds : Harmless(call[c], d)
    /\ \A b, c \in CallIds :
         Presents(call[b]) /\ Presents(call[c]) /\ call[b].dev = d
         /\ call[b].tok = call[c].tok => b = c
    /\ await[d] = 0 /\ stored[d] \notin {0, ending[d]} =>
         GoodToken(stored[d], d) /\ Unclaimed(stored[d])
    /\ await[d] # 0 /\ Brings(call[await[d]]) =>
         GoodToken(call[await[d]].tok, d) /\ Unclaimed(call[await[d]].tok)

CalmInv == OwnTokens /\ \A d \in Devices \ disturbed : Calm(d)

\* A good token of an undisturbed device stays good until it is exchanged.
LEMMA GoodStays ==
  ASSUME SessionInv, CalmInv, [SessionsNext]_sessionVars, NEW d \in Devices \ disturbed',
         NEW t, d \notin disturbed, GoodToken(t, d),
         \A c \in CallIds : Mint(c) => call[c].tok # t
  PROVE  GoodToken(t, d)'
<1>0. t \in Tokens /\ Tokens \subseteq Tokens' /\ token'[t].dev = d
  BY TokensOnlyGrow, TokensMove DEF GoodToken, TokensGo
<1>1. CASE token'[t] = token[t] /\ expired' = expired
  BY <1>0, <1>1 DEF GoodToken
<1>2. ASSUME NEW u \in Tokens, Expire(u) PROVE GoodToken(t, d)'
  <2>1. u # t /\ expired' = expired \cup {u} /\ token' = token
    BY <1>2 DEF Expire, GoodToken
  <2> QED BY <1>0, <2>1 DEF GoodToken
<1>3. ASSUME NEW c \in CallIds, Mint(c) PROVE token'[t] = token[t] /\ expired' = expired
  BY <1>0, <1>3, MintTokens DEF Appends, Mint, Step
<1>4. ASSUME NEW c \in CallIds, Login(c) PROVE token'[t] = token[t] /\ expired' = expired
  BY <1>0, <1>4, LoginTokens DEF Appends, Login, Step
<1>5. ASSUME NEW c \in CallIds, EndRevoke(c) PROVE token'[t] = token[t] /\ expired' = expired
  <2>1. call[c].kind \in Kinds /\ call[c].stage = "sweep" /\ Harmless(call[c], d)
    BY <1>5 DEF EndRevoke, CalmInv, Calm
  <2>2. call[c].kind # "login"
    BY <2>1, UnderWay DEF StageOk
  <2>3. t \notin call[c].rows
    BY <2>1, <2>2 DEF Harmless, Kinds, GoodToken
  <2> QED BY <1>0, <1>5, <2>3 DEF EndRevoke, Step
<1>6. CASE token' = token /\ expired' = expired
  BY <1>1, <1>6
<1> QED BY <1>1, <1>2, <1>3, <1>4, <1>5, <1>6
     DEF SessionsNext, App, Handle, sessionVars, SignIn, Refresh, Hear, GiveUp, EndSession, Kill, Order, SelectToken,
         GetLock, CheckLogin, BeginOrder, StartRevoke, BreakDeadlock, CallDies, Ban, Step

\* What was harmless stays so.
LEMMA HarmlessStays ==
  ASSUME SessionInv, CalmInv, [SessionsNext]_sessionVars, NEW d \in Devices \ disturbed',
         d \notin disturbed, NEW r, Harmless(r, d),
         Presents(r) /\ r.dev = d => \A c \in CallIds : Mint(c) => call[c].tok # r.tok
  PROVE  Harmless(r, d)'
<1>1. \A t \in Tokens : t \in Tokens' /\ token'[t].dev = token[t].dev
  BY TokensOnlyGrow, TokensMove DEF TokensGo
<1>2. Presents(r) /\ r.dev = d => GoodToken(r.tok, d)'
  BY GoodStays DEF Harmless
<1> QED BY <1>1, <1>2 DEF Harmless, Presents

-----------------------------------------------------------------------------
(* A step of the server, once more                                         *)

\* Call c goes on as x, or is over and forgotten; a token it brings is the one it wrote.
Advances(c, x) ==
    /\ call' = [call EXCEPT ![c] = IF x.stage = "over" THEN Replied(c, x) ELSE x]
    /\ UNCHANGED <<stored, await, ending, expired, disturbed>>
    /\ call[c].stage # "over" /\ x.kind = call[c].kind /\ x.dev = call[c].dev
    /\ x.tok = call[c].tok \/ Brings(x)
    /\ x.kind = "rotate" /\ x.stage \in {"revoke", "sweep"} => x.out \notin {"none", "ok"}
    /\ Brings(x) =>
         /\ Mint(c) \/ Login(c)
         /\ x.tok = Len(token) + 1

\* For an undisturbed device it does no harm.
Safely(x) == \A d \in Devices \ disturbed : Harmless(x, d)'

\* A rotation is ruled harmlessly.
LEMMA VerdictCalm ==
  ASSUME NEW c \in CallIds, NEW v, IsCall(call[c]), Presents(call[c]), OwnToken(call[c]),
         NEW d, Harmless(call[c], d), v = "active"
  PROVE  Harmless(Ruling(c, v), d)
<1> DEFINE t == call[c].tok
           x == call[c]
           y == Ruling(c, v)
<1>0. x.kind = "rotate" /\ x.stage # "over" /\ t \in Tokens
  BY DEF Presents, OwnToken
<1>1. CASE token[t].spent
  <2>1. y = Refused(x, "device", "replayed")
    BY <1>1 DEF Ruling, Refused
  <2>2. x.dev # d
    BY <1>0, <1>1 DEF Harmless, Presents, GoodToken
  <2> QED BY <1>0, <2>1, <2>2, CallFields, CallRest DEF Harmless, Presents
<1>2. ASSUME NEW o \in {"revoked", "expired"}, y = Closes(x, o), ~token[t].live \/ t \in expired
      PROVE  Harmless(y, d)
  <2>2. x.dev # d
    BY <1>0, <1>2 DEF Harmless, Presents, GoodToken
  <2> QED BY <1>0, <1>2, <2>2, CallFields, CallRest DEF Harmless, Presents
<1>3. CASE ~token[t].spent /\ (~token[t].live \/ t \in expired)
  <2>1. y = Closes(x, "revoked") \/ y = Closes(x, "expired")
    BY <1>3 DEF Ruling, Closes, Reply
  <2> QED BY <1>2, <1>3, <2>1
<1>4. CASE ~token[t].spent /\ token[t].live /\ t \notin expired
  <2>1. y = Staged(x, "mint")
    BY <1>4 DEF Ruling, Staged
  <2>2. y.kind = x.kind /\ y.tok = x.tok /\ y.stage = "mint" /\ y.dev = x.dev /\ y.out = x.out
    BY <2>1, CallFields, CallRest
  <2>3. x.dev = d => GoodToken(t, d) /\ x.out = "none"
    BY <1>0 DEF Harmless, Presents
  <2> HIDE DEF y, x, t
  <2>4. Harmless(y, d)
    BY <1>0, <2>2, <2>3 DEF Harmless, Presents, t, x
  <2> QED BY <2>4 DEF y
<1> QED BY <1>1, <1>3, <1>4

LEMMA VerdictRest ==
  ASSUME NEW c \in CallIds, NEW v, IsCall(call[c])
  PROVE  /\ Ruling(c, v).kind = call[c].kind /\ Ruling(c, v).tok = call[c].tok
         /\ Ruling(c, v).dev = call[c].dev /\ ~Brings(Ruling(c, v))
         /\ Ruling(c, v).stage \in {"revoke", "sweep"} => Ruling(c, v).out \notin {"none", "ok"}
<1> DEFINE t == call[c].tok
           x == call[c]
           y == Ruling(c, v)
<1>1. \/ y = Refused(x, "device", "replayed") \/ y = Refused(x, "account", "banned")
      \/ y = Closes(x, "revoked") \/ y = Closes(x, "expired") \/ y = Staged(x, "mint")
  BY DEF Ruling, Refused, Closes, Reply, Staged
<1> HIDE DEF y
<1>2. ASSUME NEW a, NEW o \in {"replayed", "banned"}, y = Refused(x, a, o)
      PROVE  y.kind = x.kind /\ y.tok = x.tok /\ y.dev = x.dev /\ y.stage = "revoke" /\ y.out \notin {"none", "ok"}
  BY <1>2, CallFields, CallRest
<1>3. ASSUME NEW o \in {"revoked", "expired"}, y = Closes(x, o)
      PROVE  y.kind = x.kind /\ y.tok = x.tok /\ y.dev = x.dev /\ y.stage = "over" /\ y.out \notin {"none", "ok"}
  BY <1>3, CallFields, CallRest
<1>4. CASE y = Staged(x, "mint")
  <2>1. y.kind = x.kind /\ y.tok = x.tok /\ y.dev = x.dev /\ y.stage = "mint"
    BY <1>4, CallFields, CallRest
  <2> QED BY <2>1 DEF Brings, y
<1>5. CASE \E o \in {"revoked", "expired"} : y = Closes(x, o)
  BY <1>3, <1>5 DEF Brings, y
<1>6. CASE \E a, o : o \in {"replayed", "banned"} /\ y = Refused(x, a, o)
  BY <1>2, <1>6 DEF Brings, y
<1> QED BY <1>1, <1>4, <1>5, <1>6

\* Where neither the tokens nor their expiry change.
LEMMA SafeNow ==
  ASSUME token' = token, expired' = expired, NEW x,
         \A d \in Devices \ disturbed : Harmless(x, d)
  PROVE  Safely(x)
BY DEF Safely, Harmless, GoodToken, Tokens

\* What a call at the server has when it is served.
LEMMA AtWork ==
  ASSUME SessionInv, CalmInv, NEW c \in CallIds, call[c].stage # "over"
  PROVE  /\ IsCall(call[c]) /\ OwnToken(call[c])
         /\ \A d \in Devices \ disturbed : Harmless(call[c], d) /\ status = "active"
BY UnderWay DEF CalmInv, OwnTokens, Calm

LEMMA RotateCalm ==
  ASSUME SessionInv, CalmInv, NEW c \in CallIds, SelectToken(c) \/ GetLock(c)
  PROVE  \E x : Advances(c, x) /\ Safely(x)
<1>1. /\ call[c].kind = "rotate" /\ call[c].stage \in {"sent", "blocked"}
      /\ token' = token /\ UNCHANGED <<stored, await, ending, expired, disturbed>>
  BY DEF SelectToken, GetLock, Step
<1>2. /\ IsCall(call[c]) /\ OwnToken(call[c]) /\ Presents(call[c])
      /\ \A d \in Devices \ disturbed : Harmless(call[c], d) /\ status = "active"
  BY <1>1, AtWork DEF Presents
<1>3. ASSUME NEW v, \A d \in Devices \ disturbed : v = "active",
             call' = [call EXCEPT ![c] = IF Ruling(c, v).stage = "over" THEN Replied(c, Ruling(c, v))
                                         ELSE Ruling(c, v)]
      PROVE  \E x : Advances(c, x) /\ Safely(x)
  <2>0. PICK x : x = Ruling(c, v)
    OBVIOUS
  <2>1. Safely(x)
    <3>1. \A d \in Devices \ disturbed : Harmless(x, d)
      BY <1>2, <1>3, <2>0, VerdictCalm
    <3> QED BY <1>1, <3>1, SafeNow
  <2>3. /\ x.kind = call[c].kind /\ x.tok = call[c].tok /\ x.dev = call[c].dev /\ ~Brings(x)
        /\ x.stage \in {"revoke", "sweep"} => x.out \notin {"none", "ok"}
    BY <1>2, <2>0, VerdictRest
  <2>4. call' = [call EXCEPT ![c] = IF x.stage = "over" THEN Replied(c, x) ELSE x]
    BY <1>3, <2>0
  <2>5. Advances(c, x)
    BY <1>1, <2>3, <2>4 DEF Advances
  <2> QED BY <2>1, <2>5
<1>4. CASE SelectToken(c) /\ CanLock(c)
  BY <1>2, <1>3, <1>4 DEF SelectToken, Step
<1>5. CASE SelectToken(c) /\ ~CanLock(c)
  <2>0. PICK x : x = Blocked(call[c], status)
    OBVIOUS
  <2>1. call' = [call EXCEPT ![c] = IF x.stage = "over" THEN Replied(c, x) ELSE x]
    BY <1>5, <2>0 DEF SelectToken, Step, Blocked
  <2>2. /\ x.stage = "blocked" /\ x.seen = status /\ x.kind = call[c].kind
        /\ x.tok = call[c].tok /\ x.dev = call[c].dev /\ x.out = call[c].out
    BY <1>2, <2>0, CallFields, CallRest
  <2>3. Advances(c, x)
    BY <1>1, <2>1, <2>2 DEF Advances, Brings
  <2>4. \A d \in Devices \ disturbed : Harmless(x, d)
    BY <1>1, <1>2, <2>2 DEF Harmless, Presents
  <2> QED BY <1>1, <2>3, <2>4, SafeNow
<1>6. CASE GetLock(c)
  <2>1. \A d \in Devices \ disturbed : call[c].seen = "active"
    BY <1>2, <1>6 DEF Harmless, GetLock
  <2> QED BY <1>3, <1>6, <2>1 DEF GetLock, Step
<1> QED BY <1>4, <1>5, <1>6

LEMMA WriteCalm ==
  ASSUME SessionInv, CalmInv, NEW c \in CallIds, Mint(c) \/ Login(c)
  PROVE  \E x : Advances(c, x) /\ Safely(x)
<1> DEFINE z == Closes(call[c], "ok")
<1>0. PICK x : x = Bringing(z, Len(token) + 1)
  OBVIOUS
<1>1. /\ call[c].kind \in {"rotate", "login"} /\ call[c].stage = "mint"
      /\ UNCHANGED <<stored, await, ending, expired, disturbed>>
      /\ call' = [call EXCEPT ![c] = IF x.stage = "over" THEN Replied(c, x) ELSE x]
  BY <1>0 DEF Mint, Login, Step, Reply, Closes, Bringing
<1>2. IsCall(call[c])
  BY <1>1, AtWork
<1>3. IsCall(z) /\ z.stage = "over" /\ z.kind = call[c].kind /\ z.dev = call[c].dev /\ z.out = "ok"
  BY <1>2, CallFields, CallRest
<1> HIDE DEF z
<1>4. /\ x.stage = "over" /\ x.kind = call[c].kind /\ x.tok = Len(token) + 1
      /\ x.dev = call[c].dev /\ x.out = "ok"
  BY <1>0, <1>3, CallFields, CallRest
<1>5. Advances(c, x)
  BY <1>1, <1>4 DEF Advances, Brings
<1>6. Safely(x)
  BY <1>1, <1>4 DEF Safely, Harmless, Presents
<1> QED BY <1>5, <1>6

LEMMA OtherCalm ==
  ASSUME SessionInv, CalmInv, NEW c \in CallIds,
         \/ CheckLogin(c) \/ BeginOrder(c) \/ StartRevoke(c) \/ EndRevoke(c)
         \/ BreakDeadlock(c) \/ CallDies(c)
  PROVE  \E x : Advances(c, x) /\ Safely(x)
<1>1. call[c].stage # "over" /\ UNCHANGED <<stored, await, ending, expired, disturbed>>
  BY DEF CheckLogin, BeginOrder, StartRevoke, EndRevoke, BreakDeadlock, Deadlocked, CallDies, Step
<1>2. /\ IsCall(call[c]) /\ OwnToken(call[c])
      /\ \A d \in Devices \ disturbed : Harmless(call[c], d) /\ status = "active"
  BY <1>1, AtWork
<1>3. ASSUME NEW o, ~(o = "ok" /\ call[c].kind \in {"rotate", "login"}),
             \A d \in Devices \ disturbed :
                 call[c].kind \in {"rotate", "login"} /\ call[c].dev = d => o = "failed",
             call' = [call EXCEPT ![c] = IF Closes(call[c], o).stage = "over"
                                         THEN Replied(c, Closes(call[c], o)) ELSE Closes(call[c], o)]
      PROVE  \E x : Advances(c, x) /\ Safely(x)
  <2>0. PICK x : x = Closes(call[c], o)
    OBVIOUS
  <2>1. call' = [call EXCEPT ![c] = IF x.stage = "over" THEN Replied(c, x) ELSE x]
    BY <1>3, <2>0
  <2>2. /\ x.stage = "over" /\ x.out = o /\ x.kind = call[c].kind
        /\ x.tok = call[c].tok /\ x.dev = call[c].dev
    BY <1>2, <2>0, CallFields, CallRest
  <2>3. Advances(c, x)
    BY <1>1, <1>3, <2>1, <2>2 DEF Advances, Brings
  <2>4. Safely(x)
    BY <1>2, <1>3, <2>2 DEF Safely, Harmless, Presents
  <2> QED BY <2>3, <2>4
<1>4. ASSUME NEW s \in {"mint", "revoke"}, call[c].kind # "rotate",
             call' = [call EXCEPT ![c] = IF Staged(call[c], s).stage = "over"
                                         THEN Replied(c, Staged(call[c], s)) ELSE Staged(call[c], s)]
      PROVE  \E x : Advances(c, x) /\ Safely(x)
  <2>0. PICK x : x = Staged(call[c], s)
    OBVIOUS
  <2>1. call' = [call EXCEPT ![c] = IF x.stage = "over" THEN Replied(c, x) ELSE x]
    BY <1>4, <2>0
  <2>2. /\ x.stage = s /\ x.kind = call[c].kind /\ x.out = call[c].out
        /\ x.tok = call[c].tok /\ x.dev = call[c].dev
    BY <1>2, <2>0, CallFields, CallRest
  <2>3. Advances(c, x)
    BY <1>1, <1>4, <2>1, <2>2 DEF Advances, Brings
  <2>4. Safely(x)
    BY <1>1, <1>2, <1>4, <2>2 DEF Safely, Harmless, Presents
  <2> QED BY <2>3, <2>4
<1>5. CASE CheckLogin(c)
  <2>1. CASE status # "active"
    <3>1. call' = [call EXCEPT ![c] = IF Closes(call[c], "failed").stage = "over"
                                      THEN Replied(c, Closes(call[c], "failed"))
                                      ELSE Closes(call[c], "failed")]
      BY <1>5, <2>1 DEF CheckLogin, Step, Reply, Closes
    <3> QED BY <1>3, <3>1
  <2>2. CASE status = "active"
    <3>1. call[c].kind # "rotate"
      BY <1>5 DEF CheckLogin
    <3>2. call' = [call EXCEPT ![c] = IF Staged(call[c], "mint").stage = "over"
                                      THEN Replied(c, Staged(call[c], "mint"))
                                      ELSE Staged(call[c], "mint")]
      BY <1>5, <2>2 DEF CheckLogin, Step, Staged
    <3> QED BY <1>4, <3>1, <3>2
  <2> QED BY <2>1, <2>2
<1>6. CASE BeginOrder(c)
  <2>1. call[c].kind \in {"logout", "delete"}
    BY <1>6 DEF BeginOrder
  <2> QED BY <1>3, <1>4, <1>6, <2>1 DEF BeginOrder, Step, Reply, Closes, Staged
<1>7. CASE StartRevoke(c)
  <2> DEFINE rs == {t \in Scope(c) : token[t].live}
  <2>0. PICK x : x = Sweeping(call[c], rs)
    OBVIOUS
  <2>1. /\ call' = [call EXCEPT ![c] = IF x.stage = "over" THEN Replied(c, x) ELSE x]
        /\ call[c].stage = "revoke" /\ token' = token /\ call[c].kind \in Kinds
    BY <1>7, <2>0 DEF StartRevoke, Step, Sweeping
  <2>2. \A t \in rs : t \in Tokens /\ (call[c].scope = "device" => token[t].dev = call[c].dev)
    BY DEF Scope
  <2> HIDE DEF rs
  <2>3. /\ x.stage = "sweep" /\ x.kind = call[c].kind /\ x.tok = call[c].tok /\ x.rows = rs
        /\ x.dev = call[c].dev /\ x.out = call[c].out /\ x.scope = call[c].scope
    BY <1>2, <2>0, CallFields, CallRest
  <2>4. Advances(c, x)
    BY <1>1, <1>2, <2>1, <2>3 DEF Advances, Brings, OwnToken
  <2>5. x.kind # "login"
    BY <2>1, <2>3, UnderWay DEF StageOk
  <2>6. \A d \in Devices \ disturbed : Harmless(x, d)
    BY <1>2, <2>1, <2>2, <2>3, <2>5 DEF Harmless, Presents, Kinds
  <2> QED BY <1>1, <2>1, <2>4, <2>6, SafeNow
<1>8. CASE EndRevoke(c)
  <2> DEFINE o == IF call[c].out = "none" THEN "ok" ELSE call[c].out
  <2>1. /\ call[c].stage = "sweep" /\ call[c].kind \in Kinds
        /\ call' = [call EXCEPT ![c] = IF Closes(call[c], o).stage = "over"
                                        THEN Replied(c, Closes(call[c], o)) ELSE Closes(call[c], o)]
    BY <1>8 DEF EndRevoke, Step, Reply, Closes
  <2>2. call[c].kind # "login"
    BY <2>1, UnderWay DEF StageOk
  <2>3. call[c].kind = "rotate" => o # "ok"
    BY <1>2, <2>1 DEF OwnToken
  <2>4. \A d \in Devices \ disturbed : call[c].kind = "rotate" => call[c].dev # d
    BY <1>2, <2>1 DEF Harmless
  <2> HIDE DEF o
  <2> QED BY <1>3, <2>1, <2>2, <2>3, <2>4
<1>9. CASE BreakDeadlock(c) \/ CallDies(c)
  <2>1. call' = [call EXCEPT ![c] = IF Closes(call[c], "failed").stage = "over"
                                    THEN Replied(c, Closes(call[c], "failed"))
                                    ELSE Closes(call[c], "failed")]
    <3>1. Closes(call[c], "failed").stage = "over"
      BY <1>2, CallFields
    <3> QED BY <1>9, <3>1 DEF BreakDeadlock, CallDies, Step, Reply, Closes
  <2> QED BY <1>3, <2>1
<1> QED BY <1>5, <1>6, <1>7, <1>8, <1>9

-----------------------------------------------------------------------------
(* Every step keeps undisturbed sessions calm                              *)

\* A device that is undisturbed after a step was so before, and the account is in order.
LEMMA StillActive ==
  ASSUME SessionInv, CalmInv, [SessionsNext]_sessionVars, NEW d \in Devices \ disturbed'
  PROVE  d \notin disturbed /\ status' = "active"
<1>1. ASSUME disturbed' = disturbed, status' = status PROVE d \notin disturbed /\ status' = "active"
  BY <1>1 DEF CalmInv, Calm
<1>2. ASSUME NEW c \in CallIds, BeginOrder(c) PROVE d \notin disturbed /\ status' = "active"
  BY <1>2 DEF BeginOrder, Step, CalmInv, Calm, Harmless
<1>3. ASSUME NEW t \in Tokens, Expire(t) PROVE d \notin disturbed /\ status' = "active"
  BY <1>3 DEF Expire, CalmInv, Calm
<1>4. ASSUME NEW e \in Devices, App(e) PROVE d \notin disturbed /\ status' = "active"
  BY <1>4 DEF App, SignIn, Refresh, Disturbing, Hear, GiveUp, EndSession, Kill, Order, CalmInv, Calm
<1>5. ~Ban
  BY DEF Ban
<1>6. ASSUME NEW c \in CallIds, Handle(c) \/ CallDies(c), ~BeginOrder(c)
      PROVE  disturbed' = disturbed /\ status' = status
  BY <1>6 DEF Handle, SelectToken, GetLock, Mint, CheckLogin, Login, StartRevoke, EndRevoke, BreakDeadlock,
              CallDies, Step
<1> QED BY <1>1, <1>2, <1>3, <1>4, <1>5, <1>6 DEF SessionsNext, sessionVars

LEMMA MintEnds ==
  ASSUME SessionInv, NEW c \in CallIds, Mint(c)
  PROVE  call'[c].stage = "over" /\ Presents(call[c])
<1>1. PICK r : Served(c, r)
  BY WriteServes
<1> DEFINE z == Closes(call[c], "ok")
           x == Bringing(z, Len(token) + 1)
<1>2. IsCall(call[c]) /\ call[c].kind = "rotate" /\ call[c].stage = "mint"
  BY UnderWay DEF Mint
<1>3. IsCall(z) /\ z.stage = "over"
  BY <1>2, CallFields
<1>4. call' = [call EXCEPT ![c] = IF x.stage = "over" THEN Replied(c, x) ELSE x]
  BY DEF Mint, Step, Reply, Closes, Bringing
<1> HIDE DEF z
<1>5. x.stage = "over"
  BY <1>3, CallFields
<1> HIDE DEF x
<1>6. call'[c] = x \/ call'[c] = Vacant
  BY <1>4, <1>5 DEF Replied, SessionInv, SessionShaped
<1> QED BY <1>2, <1>5, <1>6, FreeIsNoCall DEF Presents

\* A call that a step leaves alone stays harmless.
LEMMA OthersHarmless ==
  ASSUME SessionInv, CalmInv, [SessionsNext]_sessionVars, NEW d \in Devices \ disturbed',
         NEW b \in CallIds, NEW r, r = call[b], call'[b] = r
  PROVE  Harmless(r, d)'
<1>1. d \notin disturbed /\ Harmless(r, d) /\ Calm(d)
  BY StillActive DEF CalmInv, Calm
<1>2. Presents(r) /\ r.dev = d => \A c \in CallIds : Mint(c) => call[c].tok # r.tok
  <2> SUFFICES ASSUME Presents(r), r.dev = d, NEW c \in CallIds, Mint(c), call[c].tok = r.tok
               PROVE  FALSE
    OBVIOUS
  <2>1. call'[c].stage = "over" /\ Presents(call[c])
    BY MintEnds
  <2>2. b = c
    BY <1>1, <2>1 DEF Calm
  <2> QED BY <2>1, <2>2 DEF Presents
<1> QED BY <1>1, <1>2, HarmlessStays

\* A good token nobody presents is still good.
LEMMA UnclaimedStays ==
  ASSUME SessionInv, CalmInv, [SessionsNext]_sessionVars, NEW d \in Devices \ disturbed',
         NEW t, GoodToken(t, d), Unclaimed(t)
  PROVE  GoodToken(t, d)'
<1>1. \A c \in CallIds : Mint(c) => call[c].tok # t
  BY MintEnds DEF Unclaimed
<1> QED BY <1>1, StillActive, GoodStays

\* What the devices hold and the calls present is theirs.
LEMMA AdvanceOwns ==
  ASSUME SessionInv, CalmInv, [SessionsNext]_sessionVars, NEW c \in CallIds, NEW x, Advances(c, x),
         NEW r, r = IF x.stage = "over" THEN Replied(c, x) ELSE x
  PROVE  OwnTokens'
<1>1. /\ DOMAIN call' = CallIds /\ call'[c] = r
      /\ \A b \in CallIds \ {c} : call'[b] = call[b]
      /\ stored' = stored /\ await' = await /\ ending' = ending /\ expired' = expired
  BY DEF Advances, SessionInv, SessionShaped
<1>2. r = x \/ (r = Vacant /\ Unheard(c))
  BY DEF Replied
<1>3. \A t \in Tokens : t \in Tokens' /\ token'[t].dev = token[t].dev
  BY TokensOnlyGrow, TokensMove DEF TokensGo
<1>4. \A d \in Devices : stored'[d] # 0 => token'[stored'[d]].dev = d
  BY <1>1, <1>3 DEF CalmInv, OwnTokens, SessionInv, SessionShaped
<1>5. \A d \in Devices : await'[d] # 0 =>
         /\ call'[await'[d]].dev = d
         /\ call'[await'[d]].kind = "login" => stored'[d] = 0
  BY <1>1, <1>2 DEF CalmInv, OwnTokens, SessionInv, AwaitsOwn, Unheard, Advances
<1>6. \A b \in CallIds \ {c} : OwnToken(call[b])'
  <2>1. ASSUME NEW b \in CallIds \ {c} PROVE OwnToken(call[b])
    BY DEF CalmInv, OwnTokens
  <2> QED BY <1>1, <1>3, <2>1 DEF OwnToken, Brings
<1>7. Brings(x) => x.tok \in Tokens' /\ token'[x.tok].dev = x.dev
  <2> SUFFICES ASSUME Brings(x) PROVE x.tok \in Tokens' /\ token'[x.tok].dev = x.dev
    OBVIOUS
  <2>1. \E ts : Appends(c, ts)
    BY LoginTokens, MintTokens DEF Advances
  <2>2. x.tok = Len(token) + 1 /\ x.dev = call[c].dev /\ Len(token') = Len(token) + 1
        /\ Len(token) \in Nat /\ token'[Len(token) + 1].dev = call[c].dev
    BY <2>1 DEF Advances, Appends, SessionInv, SessionShaped
  <2> QED BY <2>2 DEF Tokens
<1>8. x.kind = "rotate" => x.tok \in Tokens' /\ token'[x.tok].dev = x.dev
  <2>1. x.kind = "rotate" /\ x.tok = call[c].tok => x.tok \in Tokens /\ token[x.tok].dev = x.dev
    BY DEF CalmInv, OwnTokens, OwnToken, Advances
  <2> QED BY <1>3, <1>7, <2>1 DEF Advances
<1>9. /\ r.kind = "rotate" \/ Brings(r) => r.tok \in Tokens' /\ token'[r.tok].dev = r.dev
      /\ r.kind = "rotate" /\ r.stage \in {"revoke", "sweep"} => r.out \notin {"none", "ok"}
  BY <1>2, <1>7, <1>8, FreeIsNoCall DEF Advances, Brings
<1>10. \A b \in CallIds : OwnToken(call[b])'
  BY <1>1, <1>6, <1>9 DEF OwnToken, Brings
<1>11. expired' \subseteq Tokens'
  BY <1>1, <1>3 DEF CalmInv, OwnTokens
<1> QED BY <1>4, <1>5, <1>10, <1>11 DEF OwnTokens

LEMMA AdvanceCalm ==
  ASSUME SessionInv, CalmInv, [SessionsNext]_sessionVars, NEW c \in CallIds, NEW x, Advances(c, x),
         Safely(x), NEW d \in Devices \ disturbed'
  PROVE  Calm(d)'
<1>0. d \notin disturbed /\ status' = "active" /\ Calm(d) /\ Harmless(x, d)' /\ OwnToken(call[c])
  BY StillActive DEF CalmInv, OwnTokens, Safely
<1>1. PICK r : r = IF x.stage = "over" THEN Replied(c, x) ELSE x
  OBVIOUS
<1>2. /\ DOMAIN call' = CallIds /\ call'[c] = r
      /\ \A b \in CallIds \ {c} : call'[b] = call[b]
      /\ stored' = stored /\ await' = await /\ ending' = ending /\ expired' = expired
  BY <1>1 DEF Advances, SessionInv, SessionShaped
<1>3. r = x \/ (r = Vacant /\ Unheard(c))
  BY <1>1 DEF Replied
<1>4. Harmless(r, d)'
  BY <1>0, <1>3, FreeIsNoCall DEF Harmless, Presents
<1>5. ASSUME NEW b \in CallIds PROVE Harmless(call[b], d)'
  <2>1. PICK q : q = call[b]
    OBVIOUS
  <2>2. CASE b # c
    <3>1. Harmless(q, d)' /\ q = call'[b]
      BY <1>2, <2>1, <2>2, OthersHarmless
    <3> QED BY <3>1 DEF Harmless
  <2>3. CASE b = c
    <3>1. Harmless(r, d)' /\ r = call'[b]
      BY <1>2, <1>4, <2>3
    <3> QED BY <3>1 DEF Harmless
  <2> QED BY <2>2, <2>3
\* Who presents a token after the step presented it before.
<1>6. ASSUME NEW b \in CallIds, Presents(call'[b])
      PROVE  Presents(call[b]) /\ call'[b].tok = call[b].tok /\ call'[b].dev = call[b].dev
  BY <1>2, <1>3, <1>6, FreeIsNoCall DEF Presents, Advances, Brings
<1>7. \A b, e \in CallIds :
         Presents(call'[b]) /\ Presents(call'[e]) /\ call'[b].dev = d
         /\ call'[b].tok = call'[e].tok => b = e
  BY <1>0, <1>6 DEF Calm
<1>8. ASSUME NEW t, GoodToken(t, d), Unclaimed(t)
      PROVE  GoodToken(t, d)' /\ \A b \in CallIds : Presents(call'[b]) => call'[b].tok # t
  BY <1>6, <1>8, UnclaimedStays DEF Unclaimed
<1>9. await'[d] = 0 /\ stored'[d] \notin {0, ending'[d]} =>
        /\ GoodToken(stored[d], d)'
        /\ \A b \in CallIds : Presents(call'[b]) => call'[b].tok # stored'[d]
  <2>1. PICK t : t = stored[d]
    OBVIOUS
  <2>2. await[d] = 0 /\ t \notin {0, ending[d]} => GoodToken(t, d) /\ Unclaimed(t)
    BY <1>0, <2>1 DEF Calm
  <2>3. await[d] = 0 /\ t \notin {0, ending[d]} =>
          GoodToken(t, d)' /\ \A b \in CallIds : Presents(call'[b]) => call'[b].tok # t
    BY <1>8, <2>2
  <2> QED BY <1>2, <2>1, <2>3 DEF GoodToken
<1>10. ASSUME await'[d] # 0, Brings(call'[await'[d]])
       PROVE  /\ GoodToken(call[await[d]].tok, d)'
              /\ \A b \in CallIds : Presents(call'[b]) => call'[b].tok # call'[await'[d]].tok
  <2>1. PICK t : t = call'[await'[d]].tok
    OBVIOUS
  <2>2. await[d] \in CallIds /\ await' = await /\ call[await[d]].dev = d
    BY <1>2, <1>10 DEF SessionInv, AwaitsOwn, CalmInv, OwnTokens
  <2>3. CASE await[d] # c
    <3>1. GoodToken(t, d) /\ Unclaimed(t)
      BY <1>0, <1>2, <1>10, <2>1, <2>2, <2>3 DEF Calm
    <3> QED BY <1>8, <2>1, <2>2, <3>1 DEF GoodToken
  <2>4. CASE await[d] = c
    <3>1. r = x /\ Brings(x) /\ t = x.tok
      BY <1>2, <1>3, <1>10, <2>1, <2>2, <2>4 DEF Unheard
    <3>2. \E ts : Appends(c, ts)
      BY <3>1, LoginTokens, MintTokens DEF Advances
    <3>3. /\ t = Len(token) + 1 /\ Len(token') = Len(token) + 1 /\ Len(token) \in Nat
          /\ token'[t].dev = d /\ token'[t].live /\ ~token'[t].spent
      BY <2>2, <2>4, <3>1, <3>2 DEF Advances, Appends, SessionInv, SessionShaped
    <3>4. t \notin Tokens /\ t \in Tokens' /\ t \notin expired'
      BY <1>2, <3>3 DEF Tokens, CalmInv, OwnTokens
    <3>5. GoodToken(t, d)'
      BY <3>3, <3>4 DEF GoodToken
    <3>6. \A b \in CallIds : Presents(call'[b]) => call'[b].tok # t
      <4>1. \A b \in CallIds : Presents(call[b]) => call[b].tok \in Tokens
        BY DEF CalmInv, OwnTokens, OwnToken, Presents
      <4> QED BY <1>6, <3>4, <4>1
    <3> QED BY <2>1, <3>5, <3>6 DEF GoodToken
  <2> QED BY <2>3, <2>4
<1>11. \A b \in CallIds : Harmless(call[b], d)'
  BY <1>5
<1> HIDE DEF CalmInv
<1> QED BY <1>0, <1>7, <1>9, <1>10, <1>11 DEF Calm, Unclaimed, Presents, Brings

LEMMA Requested ==
  ASSUME NEW k, NEW e, NEW t, NEW x, x = Request(k, e, t)
  PROVE  /\ x.kind = k /\ x.dev = e /\ x.tok = t /\ x.stage = "sent" /\ x.out = "none"
         /\ ~Brings(x)
BY DEF Request, Brings

\* A device sends a call, about the token it holds or about none.
LEMMA SendKeeps ==
  ASSUME SessionInv, CalmInv, [SessionsNext]_sessionVars, NEW e \in Devices, await[e] = 0,
         NEW k \in {"login", "rotate"}, NEW t, t = IF k = "rotate" THEN stored[e] ELSE 0,
         k = "rotate" => t # 0 /\ disturbed' = Disturbing(e),
         k = "login" => stored[e] = 0 /\ disturbed' = disturbed, Room,
         call' = [call EXCEPT ![Slot] = Request(k, e, t)], await' = [await EXCEPT ![e] = Slot],
         UNCHANGED <<token, expired, status, stored, ending>>
  PROVE  CalmInv'
<1>1. PICK x : x = Request(k, e, t)
  OBVIOUS
<1>2. /\ x.kind = k /\ x.dev = e /\ x.tok = t /\ x.stage = "sent" /\ x.out = "none" /\ ~Brings(x)
  BY <1>1, Requested
<1>3. PICK c : c = Slot
  OBVIOUS
<1>4. k = "rotate" => t \in Tokens /\ token[t].dev = e
  BY DEF CalmInv, OwnTokens, SessionInv, SessionShaped
<1>5. /\ c \in CallIds /\ call[c] = Vacant /\ call'[c] = x
      /\ \A b \in CallIds \ {c} : call'[b] = call[b]
  <2>1. k = "rotate" => t \in Tokens
    BY <1>4
  <2>2. Slot \in CallIds /\ call[Slot] = Vacant
    BY DEF Room, Slot
  <2> QED BY <1>1, <1>3, <2>2 DEF SessionInv, SessionShaped
<1>6. /\ await'[e] = c /\ \A d \in Devices \ {e} : await'[d] = await[d]
  BY <1>3 DEF SessionInv, SessionShaped
<1>7. \A d \in Devices : await[d] # c
  BY <1>5, FreeIsNoCall DEF SessionInv, AwaitsOwn, CallIds
<1>8. OwnTokens'
  <2>1. \A d \in Devices : await'[d] # 0 =>
           call'[await'[d]].dev = d /\ (call'[await'[d]].kind = "login" => stored'[d] = 0)
    <3>1. ASSUME NEW d \in Devices \ {e}, await'[d] # 0
          PROVE  call'[await'[d]].dev = d /\ (call'[await'[d]].kind = "login" => stored'[d] = 0)
      <4>1. /\ await'[d] = await[d] /\ await[d] \in CallIds \ {c} /\ call[await[d]].dev = d
            /\ call[await[d]].kind = "login" => stored[d] = 0
        BY <1>6, <1>7, <3>1 DEF SessionInv, AwaitsOwn, CalmInv, OwnTokens
      <4> QED BY <1>5, <4>1
    <3> QED BY <1>2, <1>5, <1>6, <3>1
  <2>2. ASSUME NEW b \in CallIds PROVE OwnToken(call[b])'
    <3>1. CASE b = c
      <4>1. (x.kind = "rotate" \/ Brings(x) => x.tok \in Tokens /\ token[x.tok].dev = x.dev)
            /\ x.stage = "sent"
        BY <1>2, <1>4
      <4> QED BY <1>5, <3>1, <4>1 DEF OwnToken, Brings, Tokens
    <3>2. CASE b # c
      <4>1. OwnToken(call[b]) /\ call'[b] = call[b]
        BY <1>5, <3>2 DEF CalmInv, OwnTokens
      <4> QED BY <4>1 DEF OwnToken, Brings, Tokens
    <3> QED BY <3>1, <3>2
  <2> QED BY <2>1, <2>2 DEF OwnTokens, CalmInv, Tokens
<1>9. ASSUME NEW d \in Devices \ disturbed' PROVE Calm(d)'
  <2>1. d \notin disturbed /\ status' = "active" /\ Calm(d)
    BY StillActive DEF CalmInv
  <2>2. ASSUME NEW u PROVE GoodToken(u, d) <=> GoodToken(u, d)'
    BY DEF GoodToken, Tokens
  <2>3. Presents(x) => k = "rotate" /\ x.tok = stored[e] /\ token[x.tok].dev = e
    BY <1>2, <1>4 DEF Presents
  <2>4. Presents(x) /\ e = d => GoodToken(x.tok, d) /\ Unclaimed(x.tok)
    <3>1. Presents(x) /\ e = d => stored[d] # ending[d]
      BY <2>3 DEF Disturbing, Again
    <3> QED BY <1>2, <2>1, <2>3, <3>1 DEF Calm
  <2>5. ASSUME NEW b \in CallIds PROVE Harmless(call[b], d)'
    <3>1. PICK q : q = call[b]
      OBVIOUS
    <3>2. CASE b # c
      <4>1. Harmless(q, d)' /\ q = call'[b]
        BY <1>5, <3>1, <3>2, OthersHarmless
      <4> QED BY <4>1 DEF Harmless
    <3>3. CASE b = c
      <4>1. Presents(x) /\ x.dev = d => GoodToken(x.tok, d)'
        BY <1>2, <2>2, <2>4
      <4> QED BY <1>2, <1>5, <3>3, <4>1 DEF Harmless, Presents
    <3> QED BY <3>2, <3>3
  <2>6. \A u : GoodToken(u, d) /\ Presents(x) /\ e # d => x.tok # u
    BY <2>3 DEF GoodToken
  <2>7. ASSUME NEW u, GoodToken(u, d), Unclaimed(u), e # d
        PROVE  \A b \in CallIds : Presents(call'[b]) => call'[b].tok # u
    BY <1>5, <2>6, <2>7 DEF Unclaimed
  <2>8. ASSUME NEW a \in CallIds, NEW b \in CallIds, Presents(call'[a]), Presents(call'[b]),
               call'[a].dev = d, call'[a].tok = call'[b].tok
        PROVE  a = b
    <3>1. CASE a # c /\ b # c
      BY <1>5, <2>1, <2>8, <3>1 DEF Calm
    <3>2. CASE a = c /\ b # c
      <4>1. Unclaimed(x.tok) /\ Presents(call[b]) /\ call[b].tok = x.tok
        BY <1>2, <1>5, <2>4, <2>8, <3>2
      <4> QED BY <4>1 DEF Unclaimed
    <3>3. CASE a # c /\ b = c
      <4>1. Presents(call[a]) /\ call[a].dev = d /\ call[a].tok = x.tok /\ Presents(x)
        BY <1>5, <2>8, <3>3
      <4>2. GoodToken(x.tok, d)
        BY <2>1, <4>1 DEF Calm, Harmless
      <4>3. e = d
        BY <2>6, <4>1, <4>2
      <4> QED BY <2>4, <4>1, <4>3 DEF Unclaimed
    <3> QED BY <3>1, <3>2, <3>3
  <2>9. ASSUME await'[d] = 0, stored'[d] \notin {0, ending'[d]}
        PROVE  /\ GoodToken(stored[d], d)'
               /\ \A b \in CallIds : Presents(call'[b]) => call'[b].tok # stored'[d]
    <3>1. PICK u : u = stored[d]
      OBVIOUS
    <3>2. d # e /\ await[d] = 0 /\ stored' = stored /\ ending' = ending
      BY <1>5, <1>6, <2>9 DEF CallIds
    <3>3. GoodToken(u, d) /\ Unclaimed(u)
      BY <2>1, <2>9, <3>1, <3>2 DEF Calm
    <3> QED BY <2>2, <2>7, <3>1, <3>2, <3>3 DEF GoodToken
  <2>10. ASSUME await'[d] # 0, Brings(call'[await'[d]])
         PROVE  /\ GoodToken(call[await[d]].tok, d)'
                /\ \A b \in CallIds : Presents(call'[b]) => call'[b].tok # call'[await'[d]].tok
    <3>1. d # e
      BY <1>2, <1>5, <1>6, <2>10
    <3>2. await'[d] = await[d] /\ await[d] \in CallIds \ {c} /\ call'[await[d]] = call[await[d]]
      BY <1>5, <1>6, <1>7, <2>10, <3>1 DEF SessionInv, AwaitsOwn
    <3>3. PICK u : u = call[await[d]].tok
      OBVIOUS
    <3>4. GoodToken(u, d) /\ Unclaimed(u)
      BY <2>1, <2>10, <3>2, <3>3 DEF Calm
    <3> QED BY <2>2, <2>7, <3>1, <3>2, <3>3, <3>4 DEF GoodToken
  <2> QED BY <2>1, <2>5, <2>8, <2>9, <2>10 DEF Calm, Unclaimed, Presents, Brings
<1> QED BY <1>8, <1>9 DEF CalmInv

\* A device takes what it was told, gives up, or starts again; calls only disappear.
LEMMA TakeKeeps ==
  ASSUME SessionInv, CalmInv, [SessionsNext]_sessionVars, NEW e \in Devices,
         NEW n, \/ n = 0 \/ (n = stored[e] /\ e \in disturbed')
                \/ (n = stored[e] /\ n = ending'[e])
                \/ (await[e] # 0 /\ n = call[await[e]].tok /\ Brings(call[await[e]])),
         stored'[e] = n, \A d \in Devices \ {e} : stored'[d] = stored[d] /\ ending'[d] = ending[d],
         await' = [await EXCEPT ![e] = 0],
         call' = call \/ (await[e] # 0 /\ call' = [call EXCEPT ![await[e]] = Vacant]),
         UNCHANGED <<token, expired, status>>
  PROVE  CalmInv'
<1>1. /\ await[e] # 0 => await[e] \in CallIds
      /\ \A d \in Devices \ {e} : await[d] # await[e] \/ await[d] = 0
  BY DEF SessionInv, AwaitsOwn
<1>2. /\ await'[e] = 0 /\ stored'[e] = n
      /\ \A d \in Devices \ {e} : await'[d] = await[d] /\ stored'[d] = stored[d] /\ ending'[d] = ending[d]
  BY DEF SessionInv, SessionShaped
<1>3. \A b \in CallIds : call'[b] = call[b] \/ (call'[b] = Vacant /\ b = await[e] /\ await[e] # 0)
  BY <1>1 DEF SessionInv, SessionShaped
<1>4. OwnTokens'
  <2>1. \A d \in Devices : await'[d] # 0 =>
           call'[await'[d]].dev = d /\ (call'[await'[d]].kind = "login" => stored'[d] = 0)
    BY <1>1, <1>2, <1>3 DEF CalmInv, OwnTokens, SessionInv, AwaitsOwn
  <2>2. n # 0 => token[n].dev = e
    BY <1>1 DEF CalmInv, OwnTokens, OwnToken
  <2>3. ASSUME NEW b \in CallIds PROVE OwnToken(call[b])'
    <3>1. OwnToken(call[b])
      BY DEF CalmInv, OwnTokens
    <3> QED BY <1>3, <3>1, FreeIsNoCall DEF OwnToken, Brings, Tokens
  <2> QED BY <1>2, <2>1, <2>2, <2>3 DEF OwnTokens, CalmInv, Tokens
<1>5. ASSUME NEW d \in Devices \ disturbed' PROVE Calm(d)'
  <2>1. d \notin disturbed /\ status' = "active" /\ Calm(d)
    BY StillActive DEF CalmInv
  <2>2. ASSUME NEW u PROVE GoodToken(u, d) <=> GoodToken(u, d)'
    BY DEF GoodToken, Tokens
  <2>3. \A b \in CallIds : Presents(call'[b]) => call'[b] = call[b]
    BY <1>3, FreeIsNoCall DEF Presents
  <2>4. ASSUME NEW b \in CallIds PROVE Harmless(call[b], d)'
    <3>1. CASE call'[b] = call[b]
      <4>1. PICK q : q = call[b]
        OBVIOUS
      <4>2. Harmless(q, d)' /\ q = call'[b]
        BY <3>1, <4>1, OthersHarmless
      <4> QED BY <4>2 DEF Harmless
    <3>2. CASE call'[b] = Vacant
      BY <3>2, FreeIsNoCall DEF Harmless, Presents
    <3> QED BY <1>3, <3>1, <3>2
  <2>5. \A a, b \in CallIds : Presents(call'[a]) /\ Presents(call'[b]) /\ call'[a].dev = d
                              /\ call'[a].tok = call'[b].tok => a = b
    BY <2>1, <2>3 DEF Calm
  <2>6. ASSUME NEW u, GoodToken(u, d), Unclaimed(u)
        PROVE  GoodToken(u, d)' /\ \A b \in CallIds : Presents(call'[b]) => call'[b].tok # u
    BY <2>2, <2>3, <2>6 DEF Unclaimed
  <2>7. ASSUME await'[d] = 0, stored'[d] \notin {0, ending'[d]}
        PROVE  /\ GoodToken(stored[d], d)'
               /\ \A b \in CallIds : Presents(call'[b]) => call'[b].tok # stored'[d]
    <3>1. PICK u : u = stored'[d]
      OBVIOUS
    <3>2. CASE d = e
      <4>1. await[d] # 0 /\ u = call[await[d]].tok /\ Brings(call[await[d]])
        BY <1>2, <2>7, <3>1, <3>2
      <4>2. GoodToken(u, d) /\ Unclaimed(u)
        BY <2>1, <3>2, <4>1 DEF Calm
      <4> QED BY <2>6, <3>1, <4>2 DEF GoodToken
    <3>3. CASE d # e
      <4>1. GoodToken(u, d) /\ Unclaimed(u)
        BY <1>2, <2>1, <2>7, <3>1, <3>3 DEF Calm
      <4> QED BY <2>6, <3>1, <4>1 DEF GoodToken
    <3> QED BY <3>2, <3>3
  <2>8. ASSUME await'[d] # 0, Brings(call'[await'[d]])
        PROVE  /\ GoodToken(call[await[d]].tok, d)'
               /\ \A b \in CallIds : Presents(call'[b]) => call'[b].tok # call'[await'[d]].tok
    <3>1. /\ d # e /\ await'[d] = await[d] /\ await[d] \in CallIds
          /\ call'[await[d]] = call[await[d]]
      BY <1>1, <1>2, <1>3, <2>8 DEF SessionInv, AwaitsOwn
    <3>2. PICK u : u = call[await[d]].tok
      OBVIOUS
    <3>3. GoodToken(u, d) /\ Unclaimed(u)
      BY <2>1, <2>8, <3>1, <3>2 DEF Calm
    <3> QED BY <2>6, <3>1, <3>2, <3>3 DEF GoodToken
  <2> QED BY <2>1, <2>4, <2>5, <2>7, <2>8 DEF Calm, Unclaimed, Presents, Brings
<1> QED BY <1>4, <1>5 DEF CalmInv

LEMMA CalmStep == SessionInv /\ CalmInv /\ [SessionsNext]_sessionVars => CalmInv'
<1> SUFFICES ASSUME SessionInv, CalmInv, [SessionsNext]_sessionVars PROVE CalmInv'
  OBVIOUS
<1>1. ASSUME NEW c \in CallIds, Handle(c) \/ CallDies(c) PROVE CalmInv'
  <2>1. PICK x : Advances(c, x) /\ Safely(x)
    BY <1>1, RotateCalm, WriteCalm, OtherCalm DEF Handle
  <2>2. OwnTokens'
    BY <2>1, AdvanceOwns
  <2> QED BY <2>1, <2>2, AdvanceCalm DEF CalmInv
<1>2. ASSUME NEW e \in Devices, SignIn(e) PROVE CalmInv'
  BY <1>2, SendKeeps DEF SignIn, Unwritten
<1>3. ASSUME NEW e \in Devices, Refresh(e) PROVE CalmInv'
  <2>1. PICK t : t = stored[e]
    OBVIOUS
  <2> QED BY <1>3, <2>1, SendKeeps DEF Refresh, Rotatable, Unwritten
<1>4. ASSUME NEW e \in Devices, Hear(e) PROVE CalmInv'
  <2>1. PICK n : n = IF call[await[e]].out = "ok" THEN call[await[e]].tok ELSE stored[e]
    OBVIOUS
  <2>2. /\ await[e] # 0 /\ call[await[e]].stage = "over"
        /\ call[await[e]].kind \in {"rotate", "login"}
        /\ call[await[e]].kind = "login" => stored[e] = 0
    BY <1>4 DEF Hear, SessionInv, AwaitsOwn, CalmInv, OwnTokens
  <2>3. \/ n = 0 \/ (n = stored[e] /\ n = ending'[e])
        \/ (n = call[await[e]].tok /\ Brings(call[await[e]]))
    BY <1>4, <2>1, <2>2 DEF Brings, Hear, Failed, SessionInv, SessionShaped
  <2>4. stored'[e] = n /\ \A d \in Devices \ {e} : stored'[d] = stored[d] /\ ending'[d] = ending[d]
    BY <1>4, <2>1 DEF Hear, Failed, SessionInv, SessionShaped
  <2> QED BY <1>4, <2>2, <2>3, <2>4, TakeKeeps DEF Hear
<1>5. ASSUME NEW e \in Devices, GiveUp(e) PROVE CalmInv'
  <2>1. PICK n : n = stored[e]
    OBVIOUS
  <2>2. n = 0 \/ (n = stored[e] /\ n = ending'[e])
    BY <1>5, <2>1 DEF GiveUp, Failed, SessionInv, SessionShaped, AwaitsOwn, CalmInv, OwnTokens
  <2>3. stored'[e] = n /\ \A d \in Devices \ {e} : stored'[d] = stored[d] /\ ending'[d] = ending[d]
    BY <1>5, <2>1 DEF GiveUp, Failed, SessionInv, SessionShaped
  <2> QED BY <1>5, <2>2, <2>3, TakeKeeps DEF GiveUp
<1>6. ASSUME NEW e \in Devices, Kill(e) PROVE CalmInv'
  <2>1. PICK n : n = stored'[e]
    OBVIOUS
  <2>2. n = 0 \/ (n = stored[e] /\ e \in disturbed')
    BY <1>6, <2>1 DEF Kill, SessionInv, SessionShaped
  <2>3. stored'[e] = n /\ \A d \in Devices \ {e} : stored'[d] = stored[d] /\ ending'[d] = ending[d]
    BY <1>6, <2>1 DEF Kill, SessionInv, SessionShaped
  <2> QED BY <1>6, <2>2, <2>3, TakeKeeps DEF Kill
<1>7. ASSUME NEW e \in Devices, NEW k \in {"logout", "delete"}, Room,
             call' = [call EXCEPT ![Slot] = Request(k, e, 0)], stored' = [stored EXCEPT ![e] = 0],
             disturbed' = Devices, UNCHANGED <<token, expired, status, await>>
      PROVE  CalmInv'
  <2>1. PICK x : x = Request(k, e, 0)
    OBVIOUS
  <2>2. x.kind = k /\ x.stage = "sent" /\ ~Brings(x)
    BY <2>1, Requested
  <2>3. /\ Slot \in CallIds /\ call[Slot] = Vacant /\ call'[Slot] = x
        /\ \A b \in CallIds \ {Slot} : call'[b] = call[b]
    BY <1>7, <2>1 DEF Room, Slot, SessionInv, SessionShaped
  <2>4. \A d \in Devices : await[d] # 0 => await[d] \in CallIds \ {Slot}
    BY <2>3, FreeIsNoCall DEF SessionInv, AwaitsOwn
  <2>5. \A d \in Devices : stored'[d] = 0 \/ stored'[d] = stored[d]
    BY <1>7 DEF SessionInv, SessionShaped
  <2>6. ASSUME NEW b \in CallIds PROVE OwnToken(call[b])'
    <3>1. OwnToken(call[b]) /\ token' = token
      BY <1>7 DEF CalmInv, OwnTokens
    <3>2. call'[b] = call[b] \/ (call'[b].kind \notin {"rotate", "login"} /\ ~Brings(x))
      BY <2>2, <2>3
    <3> QED BY <3>1, <3>2 DEF OwnToken, Brings, Tokens
  <2>7. OwnTokens'
    BY <1>7, <2>3, <2>4, <2>5, <2>6 DEF OwnTokens, CalmInv, Tokens
  <2> QED BY <1>7, <2>7 DEF CalmInv
\* The rows change owner or life in none of the others, and what expires disturbs its device.
<1>8. CASE /\ UNCHANGED <<token, call, await>> /\ expired' \subseteq Tokens
           /\ \A d \in Devices : stored'[d] = 0 \/ (stored'[d] = stored[d] /\ ending'[d] = ending[d])
  <2>1. OwnTokens'
    BY <1>8 DEF CalmInv, OwnTokens, OwnToken, Brings, Tokens
  <2>2. ASSUME NEW d \in Devices \ disturbed' PROVE Calm(d)'
    <3>1. d \notin disturbed /\ status' = "active" /\ Calm(d)
      BY StillActive DEF CalmInv
    <3>2. ASSUME NEW b \in CallIds PROVE Harmless(call[b], d)'
      <4>1. PICK q : q = call[b]
        OBVIOUS
      <4>2. Harmless(q, d)' /\ q = call'[b]
        BY <1>8, <4>1, OthersHarmless
      <4> QED BY <4>2 DEF Harmless
    <3>3. ASSUME NEW t, GoodToken(t, d), Unclaimed(t) PROVE GoodToken(t, d)'
      BY <3>3, UnclaimedStays
    <3>4. PICK t, u : t = stored[d] /\ u = call[await[d]].tok
      OBVIOUS
    <3>5. await'[d] = 0 /\ stored'[d] \notin {0, ending'[d]} => GoodToken(t, d)' /\ Unclaimed(t)
      BY <1>8, <3>1, <3>3, <3>4 DEF Calm
    <3>6. await'[d] # 0 /\ Brings(call'[await'[d]]) => GoodToken(u, d)' /\ Unclaimed(u)
      BY <1>8, <3>1, <3>3, <3>4 DEF Calm
    <3> QED BY <1>8, <3>1, <3>2, <3>4, <3>5, <3>6 DEF Calm, Unclaimed, Presents, Brings, GoodToken
  <2> QED BY <2>1, <2>2 DEF CalmInv
<1>9. CASE Ban
  BY <1>8, <1>9 DEF Ban, CalmInv, OwnTokens
<1>10. ASSUME NEW t \in Tokens, Expire(t) PROVE CalmInv'
  BY <1>8, <1>10 DEF Expire, CalmInv, OwnTokens
<1>11. CASE UNCHANGED sessionVars
  BY <1>8, <1>11 DEF sessionVars, CalmInv, OwnTokens
<1>12. ASSUME NEW e \in Devices, Order(e, "logout") \/ Order(e, "delete") PROVE CalmInv'
  BY <1>7, <1>12 DEF Order
<1>13. ASSUME NEW e \in Devices, EndSession(e) PROVE CalmInv'
  <2>1. CASE UNCHANGED <<call, disturbed, orders>>
    <3>1. \A d \in Devices : stored'[d] = 0 \/ (stored'[d] = stored[d] /\ ending'[d] = ending[d])
      BY <1>13 DEF EndSession, SessionInv, SessionShaped
    <3>2. UNCHANGED <<token, call, await>> /\ expired' \subseteq Tokens
      BY <1>13, <2>1 DEF EndSession, CalmInv, OwnTokens
    <3> QED BY <1>8, <3>1, <3>2
  <2>2. CASE ~UNCHANGED <<call, disturbed, orders>>
    BY <1>7, <1>13, <2>2 DEF EndSession
  <2> QED BY <2>1, <2>2
<1> QED BY <1>1, <1>2, <1>3, <1>4, <1>5, <1>6, <1>9, <1>10, <1>11, <1>12, <1>13 DEF SessionsNext, App

LEMMA CalmStarts == SessionsInit => CalmInv
<1> SUFFICES ASSUME SessionsInit PROVE CalmInv
  OBVIOUS
<1>1. OwnTokens
  BY FreeIsNoCall DEF SessionsInit, OwnTokens, OwnToken, Brings
<1>2. ASSUME NEW d \in Devices PROVE Calm(d)
  BY FreeIsNoCall DEF SessionsInit, Calm, Harmless, Presents
<1> QED BY <1>1, <1>2 DEF CalmInv

-----------------------------------------------------------------------------
(* The theorems                                                            *)

\* Whatever is lost, killed, banned or rolled back: a token once revoked stays
\* revoked, and each token that a rotation writes replaces one that was live, so
\* each is exchanged once at most.
THEOREM RevocationIsFinal == SessionsSpec => [][StaysRevoked]_sessionVars
<1>1. SessionInv /\ [SessionsNext]_sessionVars => [StaysRevoked]_sessionVars
  <2> SUFFICES ASSUME SessionInv, [SessionsNext]_sessionVars PROVE StaysRevoked
    OBVIOUS
  <2>1. TokensGo
    BY TokensMove
  <2> QED BY <2>1 DEF TokensGo, StaysRevoked
<1> QED BY <1>1, SessionInvStarts, SessionInvKeeps, PTL DEF SessionsSpec

\* A ban may be outrun once by a call past its check; the token that call wrote is
\* never exchanged for another while the ban lasts.
THEOREM BanIsOutrunOnce == SessionsSpec => []BanBites
<1>1. SessionInv => BanBites
  BY DEF SessionInv
<1> QED BY <1>1, SessionInvStarts, SessionInvKeeps, PTL DEF SessionsSpec

LEMMA CalmMeans == SessionInv /\ CalmInv => OnlyForCause
<1> SUFFICES ASSUME SessionInv, CalmInv, NEW d \in Devices \ disturbed, await[d] # 0
             PROVE  call[await[d]].out \notin Refusal \ {"failed"}
  BY DEF OnlyForCause
<1>1. await[d] \in CallIds /\ call[await[d]].kind \in {"rotate", "login"} /\ call[await[d]].dev = d
  BY DEF SessionInv, AwaitsOwn, CalmInv, OwnTokens
<1>2. call[await[d]].out \in {"none", "ok", "failed"}
  BY <1>1 DEF CalmInv, Calm, Harmless
<1> QED BY <1>2 DEF Refusal

-----------------------------------------------------------------------------
(* The types of tokens and calls                                           *)

TokenRow(t) == [dev : Devices, from : 0..t, live : BOOLEAN, spent : BOOLEAN, late : BOOLEAN]
CallRow(n) ==
    [kind : Kinds, dev : Devices, tok : 0..n, seen : {"active", "banned", "deleted"},
     stage : {"sent", "blocked", "mint", "revoke", "sweep", "over"},
     scope : {"device", "account"}, rows : SUBSET (1..n), out : {"none", "ok"} \cup Refusal]

\* What a step may make of the calls: vacant, or a call as it should be.
CallsTyped(n) == \A c \in CallIds : call'[c] = Vacant \/ call'[c] \in CallRow(n)

LEMMA RowsWiden ==
  ASSUME NEW m \in Nat, NEW n \in Nat, m <= n
  PROVE  CallRow(m) \subseteq CallRow(n)
<1>1. 0..m \subseteq 0..n /\ 1..m \subseteq 1..n
  OBVIOUS
<1> QED BY <1>1 DEF CallRow

LEMMA CallUpdates ==
  ASSUME NEW n \in Nat, NEW x \in CallRow(n)
  PROVE  /\ \A s \in {"sent", "blocked", "mint", "revoke", "sweep", "over"} : Staged(x, s) \in CallRow(n)
         /\ \A o \in {"none", "ok"} \cup Refusal : Closes(x, o) \in CallRow(n)
         /\ \A t \in 0..n : Bringing(x, t) \in CallRow(n)
         /\ \A v \in {"active", "banned", "deleted"} : Blocked(x, v) \in CallRow(n)
         /\ \A a \in {"device", "account"}, o \in Refusal : Refused(x, a, o) \in CallRow(n)
         /\ \A r \in SUBSET (1..n) : Sweeping(x, r) \in CallRow(n)
BY DEF CallRow, Staged, Closes, Bringing, Blocked, Refused, Sweeping

\* What every state is taken to have here.
TypedNow ==
    /\ SessionInv /\ SessionsTypeOK /\ Len(token) \in Nat /\ Tokens = 1..Len(token)
    /\ \A t \in Tokens : token[t] \in TokenRow(t)
    /\ \A c \in CallIds : call[c] = Vacant \/ call[c] \in CallRow(Len(token))

LEMMA TypedIs == ASSUME SessionInv, SessionsTypeOK PROVE TypedNow
BY DEF TypedNow, SessionInv, SessionShaped, SessionsTypeOK, Tokens, TokenRow, CallRow

\* One call of the server's goes on as x, or its slot is vacant.
LEMMA StepTypes ==
  ASSUME TypedNow, NEW n \in Nat, Len(token) <= n, NEW c \in CallIds, NEW x \in CallRow(n),
         call' = [call EXCEPT ![c] = x] \/ call' = [call EXCEPT ![c] = Replied(c, x)]
  PROVE  CallsTyped(n)
<1>1. CallRow(Len(token)) \subseteq CallRow(n)
  BY RowsWiden DEF TypedNow
<1>2. PICK y \in {x, Vacant} : call' = [call EXCEPT ![c] = y]
  BY DEF Replied
<1>3. DOMAIN call = CallIds
  BY DEF TypedNow, SessionInv, SessionShaped
<1>4. call'[c] = y /\ \A b \in CallIds \ {c} : call'[b] = call[b]
  BY <1>2, <1>3
<1> QED BY <1>1, <1>4 DEF TypedNow, CallsTyped

LEMMA StepsTyped ==
  ASSUME TypedNow, NEW n \in Nat, Len(token) <= n, NEW c \in CallIds, NEW x \in CallRow(n), Step(c, x)
  PROVE  CallsTyped(n)
<1>1. CASE x.stage = "over"
  <2>1. call' = [call EXCEPT ![c] = Replied(c, x)]
    BY <1>1 DEF Step
  <2> QED BY <2>1, StepTypes
<1>2. CASE x.stage # "over"
  <2>1. call' = [call EXCEPT ![c] = x]
    BY <1>2 DEF Step
  <2> QED BY <2>1, StepTypes
<1> QED BY <1>1, <1>2

LEMMA RulingTypes ==
  ASSUME TypedNow, NEW c \in CallIds, call[c] \in CallRow(Len(token)), NEW seen
  PROVE  Ruling(c, seen) \in CallRow(Len(token))
<1>1. PICK x \in CallRow(Len(token)) : x = call[c]
  OBVIOUS
<1>2. /\ Ruling(c, seen) \in {Refused(x, "device", "replayed"), Closes(x, "revoked"),
                              Closes(x, "expired"), Refused(x, "account", "banned"), Staged(x, "mint")}
  BY <1>1 DEF Ruling, Reply, Refused, Closes, Staged
<1>3. {"replayed", "revoked", "expired", "banned"} \subseteq Refusal
  BY DEF Refusal
<1>4. Len(token) \in Nat
  BY DEF TypedNow
<1>5. /\ Refused(x, "device", "replayed") \in CallRow(Len(token))
      /\ Refused(x, "account", "banned") \in CallRow(Len(token))
      /\ Staged(x, "mint") \in CallRow(Len(token))
  BY <1>3, <1>4, CallUpdates
<1>6. Closes(x, "revoked") \in CallRow(Len(token)) /\ Closes(x, "expired") \in CallRow(Len(token))
  BY <1>3, <1>4, CallUpdates
<1> QED BY <1>2, <1>5, <1>6

\* The server's steps but those that write a token.
LEMMA QuietTypes ==
  ASSUME TypedNow, NEW c \in CallIds,
         \/ SelectToken(c) \/ GetLock(c) \/ CheckLogin(c) \/ BeginOrder(c) \/ StartRevoke(c)
         \/ EndRevoke(c) \/ BreakDeadlock(c) \/ CallDies(c)
  PROVE  CallsTyped(Len(token))
<1> DEFINE n == Len(token)
<1>1. call[c] \in CallRow(n) /\ n \in Nat
  BY FreeIsNoCall DEF TypedNow, SelectToken, GetLock, CheckLogin, BeginOrder, StartRevoke, EndRevoke,
     BreakDeadlock, Deadlocked, CallDies, Kinds
<1>2. PICK x \in CallRow(n) : x = call[c]
  BY <1>1
<1>3. status \in {"active", "banned", "deleted"} /\ {"failed"} \subseteq Refusal
  BY DEF TypedNow, SessionsTypeOK, Refusal
<1>4. \A y \in CallRow(n) : Step(c, y) => CallsTyped(n)
  <2>1. n <= n
    BY <1>1
  <2> QED BY <1>1, <2>1, StepsTyped
<1>5. \A v : Ruling(c, v) \in CallRow(n)
  BY <1>1, RulingTypes
<1>6. CASE SelectToken(c)
  <2>1. Blocked(x, status) \in CallRow(n)
    BY <1>1, <1>3, CallUpdates
  <2>2. Step(c, Ruling(c, status)) \/ Step(c, Blocked(x, status))
    BY <1>2, <1>6 DEF SelectToken, Blocked
  <2> QED BY <1>4, <1>5, <2>1, <2>2
<1>7. CASE GetLock(c)
  BY <1>4, <1>5, <1>7 DEF GetLock
<1>8. CASE CheckLogin(c)
  <2>1. Step(c, Closes(x, "failed")) \/ Step(c, Staged(x, "mint"))
    BY <1>2, <1>8 DEF CheckLogin, Reply, Closes, Staged
  <2>2. Closes(x, "failed") \in CallRow(n) /\ Staged(x, "mint") \in CallRow(n)
    BY <1>1, <1>3, CallUpdates
  <2> QED BY <1>4, <2>1, <2>2
<1>9. CASE BeginOrder(c)
  <2>1. Step(c, Closes(x, "ok")) \/ Step(c, Staged(x, "revoke"))
    BY <1>2, <1>9 DEF BeginOrder, Reply, Closes, Staged
  <2>2. Closes(x, "ok") \in CallRow(n) /\ Staged(x, "revoke") \in CallRow(n)
    BY <1>1, CallUpdates
  <2> QED BY <1>4, <2>1, <2>2
<1>10. CASE StartRevoke(c)
  <2>1. PICK r \in SUBSET (1..n) : r = {t \in Scope(c) : token[t].live}
    BY DEF TypedNow, Scope
  <2>2. Step(c, Sweeping(x, r)) /\ Sweeping(x, r) \in CallRow(n)
    BY <1>1, <1>2, <1>10, <2>1, CallUpdates DEF StartRevoke, Sweeping
  <2> QED BY <1>4, <2>2
<1>11. CASE EndRevoke(c)
  <2>1. PICK o : o = IF call[c].out = "none" THEN "ok" ELSE call[c].out
    OBVIOUS
  <2>2. o \in {"none", "ok"} \cup Refusal
    BY <1>1, <2>1 DEF CallRow
  <2>3. Step(c, Closes(x, o)) /\ Closes(x, o) \in CallRow(n)
    BY <1>1, <1>2, <1>11, <2>1, <2>2, CallUpdates DEF EndRevoke, Reply, Closes
  <2> QED BY <1>4, <2>3
<1>12. CASE BreakDeadlock(c)
  <2>1. Step(c, Closes(x, "failed")) /\ Closes(x, "failed") \in CallRow(n)
    BY <1>1, <1>2, <1>3, <1>12, CallUpdates DEF BreakDeadlock, Reply, Closes
  <2> QED BY <1>4, <2>1
<1>13. CASE CallDies(c)
  <2>1. /\ call' = [call EXCEPT ![c] = Replied(c, Closes(x, "failed"))]
        /\ Closes(x, "failed") \in CallRow(n)
    BY <1>1, <1>2, <1>3, <1>13, CallUpdates DEF CallDies, Reply, Closes
  <2>2. n <= n
    BY <1>1
  <2> QED BY <1>1, <2>1, <2>2, StepTypes
<1> QED BY <1>6, <1>7, <1>8, <1>9, <1>10, <1>11, <1>12, <1>13

LEMMA WriteTypes ==
  ASSUME TypedNow, NEW c \in CallIds, Login(c) \/ Mint(c)
  PROVE  /\ Len(token') = Len(token) + 1 /\ CallsTyped(Len(token'))
         /\ \A t \in 1..Len(token') : token'[t] \in TokenRow(t)
<1> DEFINE n == Len(token)
           m == n + 1
           old == IF call[c].kind = "rotate" THEN [token EXCEPT ![call[c].tok].live = FALSE,
                                                                ![call[c].tok].spent = TRUE]
                  ELSE token
           new == NewToken(call[c].dev, IF call[c].kind = "rotate" THEN call[c].tok ELSE 0)
<1>1. call[c] \in CallRow(n) /\ n \in Nat /\ m \in Nat /\ Tokens = 1..n
  BY FreeIsNoCall DEF TypedNow, Login, Mint
<1>2. token' = Append(old, new)
  BY DEF Login, Mint
<1>3. call[c].kind = "rotate" => call[c].tok \in 1..n
  <2>1. GoodCall(call[c], token, status) /\ call[c] # Vacant
    BY FreeIsNoCall DEF TypedNow, SessionInv, CallsGood, Login, Mint
  <2> QED BY <2>1 DEF GoodCall, StageOk, Login, Mint
<1>4. DOMAIN token = 1..n /\ \A t \in 1..n : token[t] \in TokenRow(t)
  BY <1>1 DEF TypedNow, SessionInv, SessionShaped
<1>5. Len(old) = n /\ DOMAIN old = 1..n /\ \A t \in 1..n : old[t] \in TokenRow(t)
  <2>1. CASE call[c].kind = "rotate"
    <3>1. PICK k \in 1..n : k = call[c].tok
      BY <1>3, <2>1
    <3>2. old = [token EXCEPT ![k].live = FALSE, ![k].spent = TRUE]
      BY <2>1, <3>1
    <3> HIDE DEF old
    <3>3. DOMAIN old = 1..n /\ Len(old) = n
      BY <1>1, <1>4, <3>2
    <3>4. old[k] = Used(Dead(token[k])) /\ \A t \in 1..n \ {k} : old[t] = token[t]
      BY <1>4, <3>2 DEF Used, Dead
    <3>5. \A x \in TokenRow(k) : Used(Dead(x)) \in TokenRow(k)
      BY DEF Used, Dead, TokenRow
    <3> QED BY <1>4, <3>3, <3>4, <3>5
  <2>2. CASE call[c].kind # "rotate"
    BY <1>1, <1>4, <2>2 DEF TypedNow, SessionInv, SessionShaped
  <2> QED BY <2>1, <2>2
<1>6. new \in TokenRow(m)
  <2>1. call[c].dev \in Devices
    BY <1>1 DEF CallRow
  <2>2. (IF call[c].kind = "rotate" THEN call[c].tok ELSE 0) \in 0..m
    BY <1>1, <1>3
  <2>3. (status = "banned") \in BOOLEAN
    OBVIOUS
  <2> QED BY <2>1, <2>2, <2>3 DEF NewToken, TokenRow
<1> HIDE DEF old, new
<1>7. /\ Len(token') = m /\ token'[m] = new /\ \A t \in 1..n : token'[t] = old[t]
  BY <1>1, <1>2, <1>5
<1>8. \A t \in 1..m : token'[t] \in TokenRow(t)
  BY <1>1, <1>5, <1>6, <1>7
<1>9. CallsTyped(m)
  <2>1. PICK x \in CallRow(m) : x = call[c]
    BY <1>1, RowsWiden
  <2>2. Closes(x, "ok") \in CallRow(m) /\ m \in 0..m
    BY <1>1, CallUpdates
  <2>3. Bringing(Closes(x, "ok"), m) \in CallRow(m)
    BY <1>1, <2>2, CallUpdates
  <2>4. Step(c, Bringing(Closes(x, "ok"), m))
    BY <2>1 DEF Login, Mint, Reply, Closes, Bringing
  <2> QED BY <1>1, <2>3, <2>4, StepsTyped
<1> QED BY <1>7, <1>8, <1>9

\* The calls and the tokens of every step.
LEMMA CallsAndTokens ==
  ASSUME TypedNow, [SessionsNext]_sessionVars
  PROVE  /\ Len(token') \in Nat /\ Len(token) <= Len(token')
         /\ CallsTyped(Len(token')) /\ \A t \in 1..Len(token') : token'[t] \in TokenRow(t)
<1> DEFINE n == Len(token)
<1>1. n \in Nat /\ n <= n /\ \A t \in 1..n : token[t] \in TokenRow(t)
  BY DEF TypedNow
<1>2. ASSUME NEW c \in CallIds, Login(c) \/ Mint(c)
      PROVE  /\ Len(token') \in Nat /\ Len(token) <= Len(token')
             /\ CallsTyped(Len(token')) /\ \A t \in 1..Len(token') : token'[t] \in TokenRow(t)
  BY <1>1, <1>2, WriteTypes
<1>3. ASSUME NEW c \in CallIds, EndRevoke(c)
      PROVE  /\ Len(token') = n /\ CallsTyped(n) /\ \A t \in 1..n : token'[t] \in TokenRow(t)
  <2>1. CallsTyped(n)
    BY <1>3, QuietTypes
  <2>2. token' = [t \in 1..n |-> IF t \in call[c].rows THEN Dead(token[t]) ELSE token[t]]
    BY <1>3 DEF EndRevoke, TypedNow, Dead
  <2>3. Len(token') = n
    BY <1>1, <2>2
  <2>4. \A t \in 1..n : \A x \in TokenRow(t) : Dead(x) \in TokenRow(t)
    BY DEF Dead, TokenRow
  <2> QED BY <1>1, <2>1, <2>2, <2>3, <2>4
<1>4. ASSUME NEW c \in CallIds,
             \/ SelectToken(c) \/ GetLock(c) \/ CheckLogin(c) \/ BeginOrder(c) \/ StartRevoke(c)
             \/ BreakDeadlock(c) \/ CallDies(c)
      PROVE  token' = token /\ CallsTyped(n)
  <2>1. token' = token
    BY <1>4 DEF SelectToken, GetLock, CheckLogin, BeginOrder, StartRevoke, BreakDeadlock, CallDies
  <2> QED BY <1>4, <2>1, QuietTypes
<1>5. ASSUME NEW d \in Devices, App(d)
      PROVE  token' = token /\ CallsTyped(n)
  <2>1. token' = token
    BY <1>5 DEF App, SignIn, Refresh, Hear, GiveUp, EndSession, Kill, Order
  <2>2. \A k \in Kinds : \A t \in 0..n : Request(k, d, t) \in CallRow(n)
    BY DEF Request, CallRow
  <2>3. 0 \in 0..n /\ stored[d] \in 0..n /\ {"login", "rotate", "logout", "delete"} \subseteq Kinds
    BY <1>1 DEF TypedNow, SessionsTypeOK, Kinds
  <2>4. \/ \E r \in CallRow(n) : call' = [call EXCEPT ![Slot] = r]
        \/ \E i : call' = [call EXCEPT ![i] = Vacant]
        \/ call' = call
    BY <1>5, <2>2, <2>3 DEF App, SignIn, Refresh, Hear, GiveUp, EndSession, Kill, Order
  <2>5. DOMAIN call = CallIds
    BY DEF TypedNow, SessionInv, SessionShaped
  <2>6. CallsTyped(n)
    BY <2>4, <2>5 DEF CallsTyped, TypedNow
  <2> QED BY <2>1, <2>6
<1>6. CASE UNCHANGED <<token, call>>
  BY <1>1, <1>6 DEF TypedNow, CallsTyped
<1> QED
  BY <1>1, <1>2, <1>3, <1>4, <1>5, <1>6 DEF SessionsNext, Handle, Ban, Expire, sessionVars

\* What the app keeps, and the counts.
LEMMA AppTypes ==
  ASSUME SessionsConstants, TypedNow, [SessionsNext]_sessionVars
  PROVE  /\ stored' \in [Devices -> 0..Len(token)] /\ await' \in [Devices -> 0..NCalls]
         /\ ending' \in [Devices -> 0..Len(token)]
         /\ expired' \subseteq Tokens /\ disturbed' \subseteq Devices
         /\ losses' \in 0..MaxLosses /\ orders' \in 0..MaxOrders
<1>1. /\ stored \in [Devices -> 0..Len(token)] /\ await \in [Devices -> 0..NCalls]
      /\ ending \in [Devices -> 0..Len(token)]
      /\ expired \subseteq Tokens /\ disturbed \subseteq Devices
      /\ losses \in 0..MaxLosses /\ orders \in 0..MaxOrders
      /\ MaxLosses \in Nat /\ MaxOrders \in Nat /\ NCalls \in Nat /\ Len(token) \in Nat
  BY DEF TypedNow, SessionsTypeOK, SessionsConstants
<1>2. Room => Slot \in 0..NCalls
  BY <1>1 DEF Room, Slot, CallIds
<1>3. 0 \in 0..Len(token) /\ 0 \in 0..NCalls
  BY <1>1
<1>4. ASSUME NEW d \in Devices, App(d)
      PROVE  /\ stored' \in [Devices -> 0..Len(token)] /\ await' \in [Devices -> 0..NCalls]
             /\ ending' \in [Devices -> 0..Len(token)]
             /\ UNCHANGED expired /\ disturbed' \subseteq Devices
  <2>0. \A c : ending' = [ending EXCEPT ![d] = stored[d]] => ending' \in [Devices -> 0..Len(token)]
    BY <1>1
  <2>1. CASE SignIn(d) \/ Refresh(d)
    BY <1>1, <1>2, <2>1 DEF SignIn, Refresh, Unwritten, Rotatable, Disturbing
  <2>2. CASE Hear(d)
    <3>1. /\ await[d] \in CallIds /\ call[await[d]].kind \in {"rotate", "login"}
      BY <2>2 DEF Hear, TypedNow, SessionInv, AwaitsOwn
    <3>2. call[await[d]].tok \in 0..Len(token)
      BY <3>1, FreeIsNoCall DEF TypedNow, CallRow
    <3> QED BY <1>1, <1>3, <2>0, <2>2, <3>2 DEF Hear, Failed
  <2>3. CASE GiveUp(d)
    BY <1>1, <1>3, <2>0, <2>3 DEF GiveUp, Failed
  <2>5. CASE Kill(d) \/ EndSession(d)
    BY <1>1, <1>3, <2>5 DEF Kill, EndSession
  <2>4. CASE Order(d, "logout") \/ Order(d, "delete")
    BY <1>1, <1>3, <2>4 DEF Order
  <2> QED BY <1>4, <2>1, <2>2, <2>3, <2>4, <2>5 DEF App
<1>5. ASSUME NEW d \in Devices, App(d)
      PROVE  losses' \in 0..MaxLosses /\ orders' \in 0..MaxOrders
  <2>1. CASE Kill(d) \/ GiveUp(d)
    BY <1>1, <2>1 DEF Kill, GiveUp
  <2>2. CASE Order(d, "logout") \/ Order(d, "delete") \/ EndSession(d)
    BY <1>1, <2>2 DEF Order, EndSession
  <2> QED BY <1>1, <1>5, <2>1, <2>2 DEF App, SignIn, Refresh, Hear
<1>6. ASSUME NEW c \in CallIds, Handle(c)
      PROVE  UNCHANGED <<expired, stored, await, ending, disturbed, losses, orders>>
  BY <1>6 DEF Handle, SelectToken, GetLock, Mint, CheckLogin, Login, BeginOrder, StartRevoke,
     EndRevoke, BreakDeadlock, Step
<1>7. ASSUME NEW c \in CallIds, CallDies(c)
      PROVE  losses' \in 0..MaxLosses /\ UNCHANGED <<expired, stored, await, ending, disturbed, orders>>
  BY <1>1, <1>7 DEF CallDies
<1>8. CASE Ban
  BY <1>1, <1>8 DEF Ban
<1>9. ASSUME NEW t \in Tokens, Expire(t)
      PROVE  /\ expired' \subseteq Tokens /\ disturbed' \subseteq Devices /\ orders' \in 0..MaxOrders
             /\ UNCHANGED <<stored, await, ending, losses>>
  <2>1. token[t].dev \in Devices
    BY <1>9 DEF TypedNow, TokenRow
  <2> QED BY <1>1, <1>9, <2>1 DEF Expire
<1> QED
  BY <1>1, <1>4, <1>5, <1>6, <1>7, <1>8, <1>9 DEF SessionsNext, sessionVars

LEMMA SessionsTypes ==
  ASSUME SessionsConstants, SessionInv, SessionsTypeOK, [SessionsNext]_sessionVars
  PROVE  SessionsTypeOK'
<1>1. TypedNow
  BY TypedIs
<1>2. /\ Len(token') \in Nat /\ Len(token) <= Len(token') /\ Len(token) \in Nat /\ Tokens = 1..Len(token)
      /\ CallsTyped(Len(token')) /\ \A t \in 1..Len(token') : token'[t] \in TokenRow(t)
  BY <1>1, CallsAndTokens DEF TypedNow
<1>3. 0..Len(token) \subseteq 0..Len(token') /\ Tokens \subseteq Tokens' /\ Tokens' = 1..Len(token')
  BY <1>2 DEF Tokens
<1>4. /\ stored' \in [Devices -> 0..Len(token')] /\ await' \in [Devices -> 0..NCalls]
      /\ ending' \in [Devices -> 0..Len(token')]
      /\ expired' \subseteq Tokens' /\ disturbed' \subseteq Devices
      /\ losses' \in 0..MaxLosses /\ orders' \in 0..MaxOrders
  BY <1>1, <1>3, AppTypes
<1>5. status' \in {"active", "banned", "deleted"}
  BY StatusMove
<1>6. /\ \A t \in Tokens' : token'[t] \in [dev : Devices, from : 0..t, live : BOOLEAN, spent : BOOLEAN,
                                         late : BOOLEAN]
      /\ \A c \in CallIds : call'[c] = Vacant \/ call'[c] \in
           [kind : Kinds, dev : Devices, tok : 0..Len(token'), seen : {"active", "banned", "deleted"},
            stage : {"sent", "blocked", "mint", "revoke", "sweep", "over"},
            scope : {"device", "account"}, rows : SUBSET Tokens',
            out : {"none", "ok"} \cup Refusal]
  BY <1>2, <1>3 DEF TokenRow, CallRow, CallsTyped
<1> QED BY <1>4, <1>5, <1>6 DEF SessionsTypeOK

\* Both, the types, and their converse: however often answers are lost and calls die, a
\* device whose session nobody meant to end, whose app was not killed over a refresh
\* and which has not presented a token again that a refresh had failed with, is never
\* told that its token was used or revoked: the one it presents is its own, live,
\* unspent and presented by no other call.
THEOREM SessionsAlwaysHold == ASSUME SessionsConstants PROVE SessionsSpec => SessionsHold
<1>1. SessionInv => BanBites
  BY DEF SessionInv
<1>2. SessionInv /\ [SessionsNext]_sessionVars => [StaysRevoked]_sessionVars
  <2> SUFFICES ASSUME SessionInv, [SessionsNext]_sessionVars PROVE StaysRevoked
    OBVIOUS
  <2>1. TokensGo
    BY TokensMove
  <2> QED BY <2>1 DEF TokensGo, StaysRevoked
<1>3. SessionsSpec => [](SessionInv /\ CalmInv)
  BY SessionInvStarts, SessionInvKeeps, CalmStarts, CalmStep, PTL DEF SessionsSpec
<1>4. SessionsSpec => [][StaysRevoked]_sessionVars /\ [](OnlyForCause /\ BanBites)
  BY <1>1, <1>2, <1>3, CalmMeans, PTL DEF SessionsSpec
<1>5. SessionsInit => SessionsTypeOK
  <2> SUFFICES ASSUME SessionsInit PROVE SessionsTypeOK
    OBVIOUS
  <2>1. Len(token) = 0 /\ Tokens = {} /\ 0 \in 0..0 /\ 0 \in 0..NCalls
        /\ 0 \in 0..MaxLosses /\ 0 \in 0..MaxOrders
    BY DEF SessionsInit, Tokens, SessionsConstants
  <2> QED BY <2>1 DEF SessionsInit, SessionsTypeOK
<1>6. SessionInv /\ SessionsTypeOK /\ [SessionsNext]_sessionVars => SessionsTypeOK'
  BY SessionsTypes
<1>7. SessionsSpec => []SessionsTypeOK
  BY <1>3, <1>5, <1>6, PTL DEF SessionsSpec
<1> QED BY <1>4, <1>7, PTL DEF SessionsHold, SessionsKept

-----------------------------------------------------------------------------
(* Standing                                                                *)

Entry == [act : {"suspend", "unsuspend", "end_room"}, by : Staff,
          source : {"suspend", "unsuspend", "appeal", "report"}, of : Nat]
Doers == [at : Stages, of : Nat, room : Nat]

StandingShaped ==
    /\ log \in Seq(Entry) /\ act \in [Acts -> Doers] /\ cast \subseteq Acts
    /\ appeal \in [Entries -> [status : {"none", "open", "upheld", "overturned"},
                               reviewer : Staff \cup {"none"}]]
    /\ rooms \in Nat /\ live \in BOOLEAN /\ suspended \in BOOLEAN
    /\ report \in [Reports -> {"none", "open", "actioned", "dismissed"}]

\* Somebody is about to close the room of a suspended host.
Coming(c) == act[c].at = "list" \/ (act[c].at = "close" /\ act[c].room = rooms)

\* enforce() is called for an appeal or a report answered with a measure; only the
\* measures close rooms.
EnforcersMeasure ==
    \A c \in Acts :
        /\ act[c].at = "enforce" =>
              Doing(c) = "appeal" \/ (Doing(c) = "report" /\ Deed[c].verdict # "dismiss")
        /\ act[c].at \in {"list", "close"} => Doing(c) # "appeal"

\* A request let through the gate before a suspension has an earlier log.
GateSeen ==
    \A c \in Acts : act[c].at = "create" =>
        /\ act[c].of <= Len(log)
        /\ suspended => \E i \in Suspensions : i > act[c].of

Lifts(e, i, who) == e = [act |-> "unsuspend", by |-> who, source |-> "appeal", of |-> i]

\* An appeal, and whoever files or decides it, is about an entry of the log that
\* the one who decides did not make.
AppealsAreOfEntries ==
    /\ \A i \in Entries : appeal[i].status # "none" => i \in DOMAIN log
    /\ \A c \in Acts : act[c].at = "file" => act[c].of \in DOMAIN log
    /\ \A c \in Acts : Doing(c) = "appeal" /\ act[c].at \in {"enforce", "settle"} =>
          act[c].of \in Entries /\ act[c].of \in DOMAIN log /\ log[act[c].of].by # Doer(c)

\* A reviewer about to grant an appeal has lifted the suspension.
GrantsAreLogged ==
    \A c \in Acts :
        Doing(c) = "appeal" /\ Deed[c].verdict = "overturned" /\ act[c].at = "settle" =>
            \E j \in DOMAIN log : j > act[c].of /\ Lifts(log[j], act[c].of, Doer(c))

Measured(e, c) ==
    e.source = "report" /\ e.of = Deed[c].of /\ (Deed[c].verdict = "suspend" => e.act = "suspend")

\* A moderator about to close a report as actioned has logged the measure.
MeasuresAreLogged ==
    \A c \in Acts :
        Doing(c) = "report" /\ Deed[c].verdict # "dismiss" /\ act[c].at \in {"list", "close", "settle"} =>
            \E k \in DOMAIN log : Measured(log[k], c)

\* While a photo is approved, whoever is about to write it was so at its approval.
WritersRaced == photo = "approved" => \A c \in Acts : act[c].at = "write" => c \in racing

DecisionsLogged ==
    /\ \A i \in Entries :
          appeal[i].status = "overturned" =>
              /\ log[i].by # appeal[i].reviewer
              /\ \E j \in DOMAIN log : j > i /\ Lifts(log[j], i, appeal[i].reviewer)
    /\ \A r \in Reports :
          report[r] = "actioned" =>
              \E k \in DOMAIN log : log[k].source = "report" /\ (log[k].of = r \/ log[k].act = "suspend")

StandingInv ==
    /\ StandingShaped /\ EnforcersMeasure /\ StreamEnds /\ GateSeen /\ AppealsAreOfEntries /\ GrantsAreLogged
    /\ MeasuresAreLogged /\ WritersRaced /\ DecisionsLogged

-----------------------------------------------------------------------------
LEMMA StandingStarts == ASSUME StandingConstants, StandingInit PROVE StandingInv
<1>1. StandingShaped
  <2>1. act \in [Acts -> Doers]
    BY DEF StandingInit, Doers, Stages
  <2>2. log \in Seq(Entry)
    BY DEF StandingInit
  <2>3. appeal \in [Entries -> [status : {"none", "open", "upheld", "overturned"},
                               reviewer : Staff \cup {"none"}]]
    BY DEF StandingInit, NoAppeal
  <2>4. report \in [Reports -> {"none", "open", "actioned", "dismissed"}]
    BY DEF StandingInit
  <2>5. cast \subseteq Acts /\ rooms \in Nat /\ live \in BOOLEAN /\ suspended \in BOOLEAN
    BY DEF StandingInit, StandingConstants
  <2> QED BY <2>1, <2>2, <2>3, <2>4, <2>5 DEF StandingShaped
<1>2. StreamEnds /\ EnforcersMeasure /\ GateSeen /\ AppealsAreOfEntries /\ GrantsAreLogged
      /\ MeasuresAreLogged /\ WritersRaced
  BY DEF StandingInit, StreamEnds, EnforcersMeasure, GateSeen, AppealsAreOfEntries, GrantsAreLogged, MeasuresAreLogged,
         WritersRaced, NoAppeal
<1>3. DecisionsLogged
  BY DEF StandingInit, DecisionsLogged, NoAppeal
<1> QED BY <1>1, <1>2, <1>3 DEF StandingInv

\* The invariant's last part is the property, over the log's positions.
LEMMA LoggedMeansLogged == ASSUME DecisionsLogged PROVE DecisionsAreLogged
BY DEF DecisionsLogged, DecisionsAreLogged, Lifts, Range

\* enforce() logs a measure and, for a suspension, goes on to the rooms.
LEMMA Measures ==
  ASSUME StandingConstants, StandingInv, NEW c \in Acts, Ready(c)
  PROVE  /\ Doing(c) \in {"suspend", "unsuspend", "appeal", "report"}
         /\ Measure(c) \in {"suspend", "unsuspend", "end_room"}
         /\ Doing(c) = "appeal" => Measure(c) = "unsuspend" /\ Closing(c) = "settle"
         /\ Doing(c) = "report" => Measure(c) = Deed[c].verdict
         /\ Measure(c) = "suspend" => Closing(c) = "list"
         /\ Closing(c) \in {"list", "close", "settle", "over"}
<1>1. \/ Doing(c) \in {"suspend", "unsuspend"}
      \/ Doing(c) = "appeal" /\ act[c].at = "enforce"
      \/ Doing(c) = "report" /\ Deed[c].verdict # "dismiss" /\ act[c].at = "enforce"
  BY DEF Ready, StandingInv, EnforcersMeasure
<1>2. Doing(c) = "report" => Deed[c].verdict \in {"dismiss", "suspend", "end_room"}
  BY DEF StandingConstants
<1>3. CASE Doing(c) \in {"suspend", "unsuspend"}
  BY <1>3 DEF Measure, Closing, After, Settles
<1>4. CASE Doing(c) = "appeal"
  BY <1>4 DEF Measure, Closing, After, Settles
<1>5. CASE Doing(c) = "report"
  BY <1>1, <1>2, <1>5 DEF Measure, Closing, After, Settles
<1> QED BY <1>1, <1>3, <1>4, <1>5

LEMMA EnforceKeeps ==
  ASSUME StandingConstants, StandingInv, NEW c \in Acts, Enforce(c)
  PROVE  StandingInv' /\ DecisionsStay
<1> USE DEF StandingInv
<1> DEFINE n == Len(log) + 1
           new == [act |-> Measure(c), by |-> Doer(c), source |-> Doing(c),
                   of |-> IF Doing(c) = "report" THEN Deed[c].of ELSE act[c].of]
<1>1. /\ Ready(c) /\ log' = Append(log, new)
      /\ act' = [act EXCEPT ![c] = [at |-> Closing(c), of |-> act[c].of, room |-> 1]]
      /\ suspended' = CASE Measure(c) = "suspend" -> TRUE
                        [] Measure(c) = "unsuspend" -> FALSE [] OTHER -> suspended
      /\ UNCHANGED <<cast, appeal, report, photo, rooms, live, slipped, died, racing>>
  BY DEF Enforce
<1>2. act \in [Acts -> Doers] /\ log \in Seq(Entry)
  BY DEF StandingShaped
<1>3. act'[c].at = Closing(c) /\ act'[c].of = act[c].of /\ \A d \in Acts \ {c} : act'[d] = act[d]
  BY <1>1, <1>2
<1>4. new \in Entry
  <2>1. Doing(c) = "report" => Deed[c].of \in Nat
    BY DEF StandingConstants
  <2>2. act[c].of \in Nat
    BY <1>2 DEF Doers
  <2> QED BY <1>1, <2>1, <2>2, Measures DEF Entry, Staff
<1> HIDE DEF new
<1>5. /\ Len(log) \in Nat /\ DOMAIN log = 1..Len(log) /\ DOMAIN log' = 1..n /\ Len(log') = n
      /\ log'[n] = new /\ \A i \in DOMAIN log : log'[i] = log[i] /\ i \in DOMAIN log' /\ i < n
  BY <1>1, <1>2, <1>4
<1>6. StandingShaped'
  <2>1. act' \in [Acts -> Doers]
    <3>1. [at |-> Closing(c), of |-> act[c].of, room |-> 1] \in Doers
      BY <1>1, <1>2, Measures DEF Doers, Stages
    <3> QED BY <1>1, <1>2, <3>1
  <2>2. suspended' \in BOOLEAN
    BY <1>1 DEF StandingShaped
  <2>3. log' \in Seq(Entry)
    BY <1>1, <1>2, <1>4
  <2> QED BY <1>1, <2>1, <2>2, <2>3 DEF StandingShaped
<1>7. EnforcersMeasure'
  BY <1>1, <1>3, Measures DEF EnforcersMeasure
<1>8. StreamEnds'
  <2>1. CASE Measure(c) = "suspend"
    BY <1>1, <1>3, <2>1, Measures DEF StreamEnds
  <2>2. CASE Measure(c) = "unsuspend"
    BY <1>1, <2>2 DEF StreamEnds
  <2>3. CASE Measure(c) = "end_room"
    BY <1>1, <1>3, <2>3 DEF StreamEnds, Ready
  <2> QED BY <1>1, <2>1, <2>2, <2>3, Measures
<1>9. GateSeen'
  <2> SUFFICES ASSUME NEW d \in Acts, act'[d].at = "create"
               PROVE  /\ act'[d].of <= Len(log')
                      /\ suspended' => \E i \in Suspensions' : i > act'[d].of
    BY DEF GateSeen
  <2>1. d # c /\ act'[d] = act[d] /\ act[d].of \in Nat
    BY <1>1, <1>2, <1>3, Measures DEF Doers
  <2>2. act[d].of <= Len(log)
    BY <2>1 DEF GateSeen
  <2>3. CASE Measure(c) = "suspend"
    <3>1. n \in Suspensions'
      BY <1>5, <2>3 DEF Suspensions, new
    <3> QED BY <1>5, <2>1, <2>2, <3>1
  <2>4. CASE Measure(c) = "unsuspend"
    BY <1>1, <1>5, <2>1, <2>2, <2>4
  <2>5. CASE Measure(c) = "end_room"
    <3>1. Suspensions \subseteq Suspensions'
      BY <1>5 DEF Suspensions
    <3>2. suspended' = suspended
      BY <1>1, <2>5
    <3> QED BY <1>5, <2>1, <2>2, <3>1, <3>2 DEF GateSeen
  <2> QED BY <1>1, <2>3, <2>4, <2>5, Measures
<1>10. AppealsAreOfEntries'
  <2>1. \A i \in Entries : appeal'[i].status # "none" => i \in DOMAIN log'
    BY <1>1, <1>5 DEF AppealsAreOfEntries
  <2>2. \A d \in Acts : act'[d].at = "file" => act'[d].of \in DOMAIN log'
    BY <1>1, <1>3, <1>5, Measures DEF AppealsAreOfEntries
  <2>3. ASSUME NEW d \in Acts, Doing(d) = "appeal", act'[d].at \in {"enforce", "settle"}
        PROVE  act'[d].of \in Entries /\ act'[d].of \in DOMAIN log' /\ log'[act'[d].of].by # Doer(d)
    <3>1. act[d].at \in {"enforce", "settle"} /\ act'[d].of = act[d].of
      BY <1>1, <1>3, <2>3 DEF Ready
    <3> QED BY <1>5, <2>3, <3>1 DEF AppealsAreOfEntries
  <2> QED BY <2>1, <2>2, <2>3 DEF AppealsAreOfEntries
<1>12. GrantsAreLogged'
  <2> SUFFICES ASSUME NEW d \in Acts, Doing(d) = "appeal", Deed[d].verdict = "overturned",
                      act'[d].at = "settle"
               PROVE  \E j \in DOMAIN log' : j > act'[d].of /\ Lifts(log'[j], act'[d].of, Doer(d))
    BY DEF GrantsAreLogged, Lifts
  <2>1. CASE d = c
    <3>1. act[c].at = "enforce"
      BY <1>1, <2>1 DEF Ready
    <3>2. act[c].of \in DOMAIN log /\ Measure(c) = "unsuspend"
      BY <1>1, <2>1, <3>1, Measures DEF AppealsAreOfEntries
    <3>3. Lifts(new, act[c].of, Doer(c))
      BY <2>1, <3>2 DEF new, Lifts
    <3> QED BY <1>3, <1>5, <2>1, <3>2, <3>3
  <2>2. CASE d # c
    <3>1. PICK j \in DOMAIN log : j > act[d].of /\ Lifts(log[j], act[d].of, Doer(d))
      BY <1>3, <2>2 DEF GrantsAreLogged
    <3> QED BY <1>3, <1>5, <2>2, <3>1
  <2> QED BY <2>1, <2>2
<1>13. MeasuresAreLogged'
  <2> SUFFICES ASSUME NEW d \in Acts, Doing(d) = "report", Deed[d].verdict # "dismiss",
                      act'[d].at \in {"list", "close", "settle"}
               PROVE  \E k \in DOMAIN log' : Measured(log'[k], d)
    BY DEF MeasuresAreLogged, Measured
  <2>1. CASE d = c
    <3>1. Measured(new, c)
      BY <1>1, <2>1, Measures DEF Measured, new
    <3> QED BY <1>5, <2>1, <3>1
  <2>2. CASE d # c
    <3>1. PICK k \in DOMAIN log : Measured(log[k], d)
      BY <1>3, <2>2 DEF MeasuresAreLogged
    <3> QED BY <1>5, <3>1
  <2> QED BY <2>1, <2>2
<1>14. WritersRaced'
  BY <1>1, <1>3, Measures DEF WritersRaced
<1>15. DecisionsLogged'
  <2>1. ASSUME NEW i \in Entries, appeal'[i].status = "overturned"
        PROVE  /\ log'[i].by # appeal'[i].reviewer
               /\ \E j \in DOMAIN log' : j > i /\ Lifts(log'[j], i, appeal'[i].reviewer)
    <3>1. appeal' = appeal /\ i \in DOMAIN log
      BY <1>1, <2>1 DEF AppealsAreOfEntries
    <3>2. PICK j \in DOMAIN log : j > i /\ Lifts(log[j], i, appeal[i].reviewer)
      BY <2>1, <3>1 DEF DecisionsLogged
    <3> QED BY <1>5, <2>1, <3>1, <3>2 DEF DecisionsLogged
  <2>2. ASSUME NEW r \in Reports, report'[r] = "actioned"
        PROVE  \E k \in DOMAIN log' : log'[k].source = "report" /\ (log'[k].of = r \/ log'[k].act = "suspend")
    BY <1>1, <1>5, <2>2 DEF DecisionsLogged
  <2> QED BY <2>1, <2>2 DEF DecisionsLogged, Lifts
<1>16. DecisionsStay
  BY <1>1 DEF DecisionsStay
<1> QED BY <1>6, <1>7, <1>8, <1>9, <1>10, <1>12, <1>13, <1>14, <1>15, <1>16

-----------------------------------------------------------------------------
\* What the invariant asks of a request c that has come to m.
Sound(c, m) ==
    /\ m.at = "enforce" => Doing(c) = "appeal" \/ (Doing(c) = "report" /\ Deed[c].verdict # "dismiss")
    /\ m.at \in {"list", "close"} => Doing(c) # "appeal"
    /\ m.at = "create" => m.of <= Len(log) /\ (suspended => \E i \in Suspensions : i > m.of)
    /\ m.at = "file" => m.of \in DOMAIN log
    /\ Doing(c) = "appeal" /\ m.at \in {"enforce", "settle"} =>
          m.of \in Entries /\ m.of \in DOMAIN log /\ log[m.of].by # Doer(c)
    /\ Doing(c) = "appeal" /\ Deed[c].verdict = "overturned" /\ m.at = "settle" =>
          \E j \in DOMAIN log : j > m.of /\ Lifts(log[j], m.of, Doer(c))
    /\ Doing(c) = "report" /\ Deed[c].verdict # "dismiss" /\ m.at \in {"list", "close", "settle"} =>
          \E k \in DOMAIN log : Measured(log[k], c)

RequestsSound == \A c \in Acts : Sound(c, act[c])

LEMMA Moved ==
  ASSUME StandingShaped, RequestsSound, NEW c \in Acts, NEW m \in Doers, act' = [act EXCEPT ![c] = m],
         log' = log, suspended' = suspended, Sound(c, m)
  PROVE  /\ RequestsSound' /\ act' \in [Acts -> Doers] /\ act'[c] = m
         /\ \A d \in Acts \ {c} : act'[d] = act[d]
<1>1. /\ act' \in [Acts -> Doers] /\ act'[c] = m
      /\ \A d \in Acts \ {c} : act'[d] = act[d]
  BY DEF StandingShaped
<1>2. Suspensions' = Suspensions
  BY DEF Suspensions
<1>3. \A d \in Acts : Sound(d, act'[d])
  BY <1>1 DEF RequestsSound
<1> QED BY <1>1, <1>2, <1>3 DEF RequestsSound, Sound

\* The rest of the invariant: what is not about one request's progress.
Rest ==
    /\ StandingShaped /\ StreamEnds /\ WritersRaced /\ DecisionsLogged
    /\ \A i \in Entries : appeal[i].status # "none" => i \in DOMAIN log

LEMMA InvParts ==
  (StandingInv <=> Rest /\ RequestsSound) /\ (StandingInv' <=> Rest' /\ RequestsSound')
BY DEF StandingInv, Rest, RequestsSound, Sound, EnforcersMeasure, GateSeen, AppealsAreOfEntries,
       GrantsAreLogged, MeasuresAreLogged

\* Requests that read, or end, and leave the standing, the rooms and the decisions.
LEMMA QuietKeeps ==
  ASSUME StandingInv, NEW c \in Acts, NEW m \in Doers, act' = [act EXCEPT ![c] = m], Sound(c, m),
         UNCHANGED <<cast, suspended, log, appeal, report, photo, rooms, live, slipped, racing>>,
         \/ died' = died /\ ~Coming(c)
         \/ died' = died /\ act[c].at = "list" /\ (live => m.at = "close" /\ m.room = rooms)
         \/ died' = (died \/ (live /\ act[c].at \in {"list", "close"})),
         m.at = "write" => photo # "approved"
  PROVE  StandingInv' /\ DecisionsStay
<1>1. Rest /\ RequestsSound
  BY InvParts
<1>2. /\ RequestsSound' /\ act' \in [Acts -> Doers] /\ act'[c] = m
      /\ \A d \in Acts \ {c} : act'[d] = act[d]
  BY <1>1, Moved DEF Rest
<1>3. StandingShaped'
  BY <1>1, <1>2 DEF Rest, StandingShaped
<1>4. StreamEnds'
  BY <1>1, <1>2 DEF Rest, StreamEnds, Coming
<1>5. WritersRaced'
  BY <1>1, <1>2 DEF Rest, WritersRaced
<1>6. DecisionsLogged' /\ \A i \in Entries : appeal'[i].status # "none" => i \in DOMAIN log'
  BY <1>1 DEF Rest, DecisionsLogged, Lifts
<1>7. DecisionsStay
  BY DEF DecisionsStay
<1> QED BY <1>2, <1>3, <1>4, <1>5, <1>6, <1>7, InvParts DEF Rest

LEMMA ReadsKeep ==
  ASSUME StandingConstants, StandingInv, NEW c \in Acts,
         \/ ReadAppeal(c) \/ ReadReport(c) \/ List(c) \/ ReadStanding(c) \/ MayGoLive(c)
         \/ ReadPhoto(c) \/ Die(c)
  PROVE  StandingInv' /\ DecisionsStay
<1>1. Rest /\ RequestsSound
  BY InvParts
<1>2. /\ StandingShaped /\ act[c] \in Doers /\ Sound(c, act[c]) /\ log \in Seq(Entry)
      /\ Len(log) \in Nat /\ DOMAIN log = 1..Len(log)
  BY <1>1 DEF Rest, StandingShaped, RequestsSound
<1>3. CASE ReadAppeal(c)
  <2>1. PICK i \in Entries :
          /\ appeal[i].status = "open" /\ log[i].by # Doer(c)
          /\ act' = [act EXCEPT ![c] =
                 [at |-> IF Deed[c].verdict = "overturned" THEN "enforce" ELSE "settle",
                  of |-> i, room |-> 0]]
    BY <1>3 DEF ReadAppeal
  <2> DEFINE m == [at |-> IF Deed[c].verdict = "overturned" THEN "enforce" ELSE "settle",
                   of |-> i, room |-> 0]
  <2>2. i \in DOMAIN log /\ m \in Doers /\ Doing(c) = "appeal"
    BY <1>1, <1>3, <2>1 DEF Rest, Entries, Doers, Stages, ReadAppeal
  <2>3. Sound(c, m)
    BY <2>1, <2>2 DEF Sound
  <2> QED BY <1>3, <2>1, <2>2, <2>3, QuietKeeps DEF ReadAppeal, Coming
<1>4. CASE ReadReport(c)
  <2> DEFINE m == [act[c] EXCEPT !.at = IF Deed[c].verdict = "dismiss" THEN "settle" ELSE "enforce"]
  <2>1. act' = [act EXCEPT ![c] = m] /\ Doing(c) = "report" /\ act[c].at = "idle"
    BY <1>4 DEF ReadReport, Go
  <2>2. m \in Doers /\ m.at # "write" /\ Sound(c, m)
    BY <1>2, <2>1 DEF Sound, Doers, Stages
  <2> HIDE DEF m
  <2> QED BY <1>4, <2>1, <2>2, QuietKeeps DEF ReadReport, Coming
<1>5. CASE List(c)
  <2> DEFINE m == [act[c] EXCEPT !.at = IF live THEN "close" ELSE After(c), !.room = rooms]
  <2>1. act' = [act EXCEPT ![c] = m] /\ act[c].at = "list"
    BY <1>5 DEF List
  <2>2. /\ m \in Doers /\ m.at \in {"close", "settle", "over"} /\ m.of = act[c].of
        /\ m.at = "settle" => Doing(c) \in {"appeal", "report"}
        /\ live => m.at = "close" /\ m.room = rooms
    BY <1>2 DEF Doers, Stages, After, Settles, StandingShaped
  <2> HIDE DEF m
  <2>3. Sound(c, m)
    BY <1>2, <2>1, <2>2 DEF Sound
  <2> QED BY <1>5, <2>1, <2>2, <2>3, QuietKeeps DEF List
<1>6. CASE ReadStanding(c)
  <2>1. PICK i \in Suspensions : act' = [act EXCEPT ![c] = [at |-> "file", of |-> i, room |-> 0]]
    BY <1>6 DEF ReadStanding
  <2> DEFINE m == [at |-> "file", of |-> i, room |-> 0]
  <2>2. m \in Doers /\ Sound(c, m)
    BY <1>2, <2>1 DEF Doers, Stages, Sound, Suspensions
  <2> QED BY <1>6, <2>1, <2>2, QuietKeeps DEF ReadStanding, Coming
<1>7. CASE MayGoLive(c)
  <2> DEFINE m == [act[c] EXCEPT !.at = IF Gate THEN "create" ELSE "over", !.of = Len(log)]
  <2>1. act' = [act EXCEPT ![c] = m] /\ act[c].at = "idle" /\ Doing(c) = "live"
    BY <1>7 DEF MayGoLive
  <2>2. /\ m \in Doers /\ m.at \in {"create", "over"} /\ m.of = Len(log)
        /\ m.at = "create" => ~suspended
    BY <1>2 DEF Doers, Stages, Gate
  <2> HIDE DEF m
  <2>3. Sound(c, m)
    BY <1>2, <2>2 DEF Sound
  <2> QED BY <1>7, <2>1, <2>2, <2>3, QuietKeeps DEF MayGoLive, Coming
<1>8. CASE ReadPhoto(c)
  <2> DEFINE m == [act[c] EXCEPT !.at = "write"]
  <2>1. act' = [act EXCEPT ![c] = m] /\ act[c].at = "idle" /\ photo # "approved"
    BY <1>8 DEF ReadPhoto, Go, Submittable
  <2>2. m \in Doers /\ Sound(c, m)
    BY <1>2 DEF Doers, Stages, Sound
  <2> QED BY <1>8, <2>1, <2>2, QuietKeeps DEF ReadPhoto, Coming
<1>9. CASE Die(c)
  <2> DEFINE m == [act[c] EXCEPT !.at = "over"]
  <2>1. act' = [act EXCEPT ![c] = m]
    BY <1>9 DEF Die, Go
  <2>2. m \in Doers /\ m.at = "over" /\ Sound(c, m)
    BY <1>2 DEF Doers, Stages, Sound
  <2> HIDE DEF m
  <2> QED BY <1>9, <2>1, <2>2, QuietKeeps DEF Die
<1> QED BY <1>3, <1>4, <1>5, <1>6, <1>7, <1>8, <1>9

\* A request that has ended asks nothing more of the invariant.
LEMMA Ending ==
  ASSUME StandingShaped, RequestsSound, NEW c \in Acts, Go(c, "over"), log' = log, suspended' = suspended
  PROVE  /\ RequestsSound' /\ act' \in [Acts -> Doers] /\ act'[c].at = "over"
         /\ \A d \in Acts \ {c} : act'[d] = act[d]
<1> DEFINE m == [act[c] EXCEPT !.at = "over"]
<1>1. act[c] \in Doers /\ act' = [act EXCEPT ![c] = m]
  BY DEF StandingShaped, Go
<1>2. m \in Doers /\ m.at = "over" /\ Sound(c, m)
  BY <1>1 DEF Doers, Stages, Sound
<1> HIDE DEF m
<1> QED BY <1>1, <1>2, Moved

\* A measure's room is closed, unless it had ended or another is on.
LEMMA CloseKeeps ==
  ASSUME StandingInv, NEW c \in Acts, Close(c)
  PROVE  StandingInv' /\ DecisionsStay
<1>1. Rest /\ RequestsSound
  BY InvParts
<1> DEFINE m == [act[c] EXCEPT !.at = After(c)]
<1>2. /\ act[c].at = "close" /\ act[c] \in Doers /\ act' = [act EXCEPT ![c] = m]
      /\ UNCHANGED <<cast, suspended, log, appeal, report, photo, rooms, racing>>
  BY <1>1 DEF Close, Go, Rest, StandingShaped
<1>3. /\ m \in Doers /\ m.at \in {"settle", "over"}
      /\ m.at = "settle" => Doing(c) \in {"appeal", "report"}
  BY <1>2 DEF Doers, Stages, After, Settles
<1> HIDE DEF m
<1>4. Sound(c, m)
  BY <1>1, <1>2, <1>3 DEF Sound, RequestsSound
<1>5. /\ RequestsSound' /\ act' \in [Acts -> Doers] /\ act'[c] = m
      /\ \A d \in Acts \ {c} : act'[d] = act[d]
  BY <1>1, <1>2, <1>3, <1>4, Moved DEF Rest
<1>6. CASE live /\ rooms = act[c].room
  <2>1. live' = FALSE
    BY <1>6 DEF Close, NotLive
  <2>2. StandingShaped' /\ StreamEnds'
    BY <1>1, <1>2, <1>5, <2>1 DEF Rest, StandingShaped, StreamEnds
  <2> QED BY <1>1, <1>2, <1>3, <1>5, <2>2, InvParts
          DEF Rest, WritersRaced, DecisionsLogged, Lifts, DecisionsStay
<1>7. CASE ~(live /\ rooms = act[c].room)
  <2>1. UNCHANGED <<live, slipped, died>>
    BY <1>7 DEF Close
  <2>2. StandingShaped' /\ StreamEnds'
    BY <1>1, <1>2, <1>5, <1>7, <2>1 DEF Rest, StandingShaped, StreamEnds
  <2> QED BY <1>1, <1>2, <1>3, <1>5, <2>2, InvParts
          DEF Rest, WritersRaced, DecisionsLogged, Lifts, DecisionsStay
<1> QED BY <1>6, <1>7

\* A room is opened by a request that passed the gate, perhaps long ago.
LEMMA GoLiveKeeps ==
  ASSUME StandingInv, NEW c \in Acts, GoLive(c)
  PROVE  StandingInv' /\ DecisionsStay
<1>1. Rest /\ RequestsSound
  BY InvParts
<1>2. /\ act[c].at = "create" /\ Go(c, "over")
      /\ UNCHANGED <<cast, suspended, log, appeal, report, photo, racing>>
  BY DEF GoLive
<1>3. /\ RequestsSound' /\ act' \in [Acts -> Doers] /\ act'[c].at = "over"
      /\ \A d \in Acts \ {c} : act'[d] = act[d]
  BY <1>1, <1>2, Ending DEF Rest
<1>4. CASE live
  <2>1. UNCHANGED <<rooms, live, slipped, died>>
    BY <1>4 DEF GoLive
  <2>2. StandingShaped' /\ StreamEnds'
    BY <1>1, <1>2, <1>3, <2>1 DEF Rest, StandingShaped, StreamEnds
  <2> QED BY <1>1, <1>2, <1>3, <2>2, InvParts
          DEF Rest, WritersRaced, DecisionsLogged, Lifts, DecisionsStay
<1>5. CASE ~live
  <2>1. /\ live' = TRUE /\ rooms' = rooms + 1 /\ rooms' \in Nat
        /\ slipped' = \E i \in Suspensions : i > act[c].of
    BY <1>1, <1>5 DEF GoLive, Rest, StandingShaped
  <2>2. suspended => slipped'
    BY <1>1, <1>2, <2>1 DEF RequestsSound, Sound
  <2>3. StandingShaped' /\ StreamEnds'
    BY <1>1, <1>2, <1>3, <2>1, <2>2 DEF Rest, StandingShaped, StreamEnds
  <2> QED BY <1>1, <1>2, <1>3, <2>3, InvParts
          DEF Rest, WritersRaced, DecisionsLogged, Lifts, DecisionsStay
<1> QED BY <1>4, <1>5

\* An appeal is decided by the reviewer who, if he grants it, lifted the suspension.
LEMMA SettleAppealKeeps ==
  ASSUME StandingConstants, StandingInv, NEW c \in Acts, SettleAppeal(c)
  PROVE  StandingInv' /\ DecisionsStay
<1>1. Rest /\ RequestsSound
  BY InvParts
<1> DEFINE new == [status |-> Deed[c].verdict, reviewer |-> Doer(c)]
<1>2. /\ Doing(c) = "appeal" /\ act[c].at = "settle" /\ Go(c, "over")
      /\ appeal' = IF appeal[act[c].of].status = "open"
                   THEN [appeal EXCEPT ![act[c].of] = new] ELSE appeal
      /\ UNCHANGED <<cast, suspended, log, report, photo, rooms, live, slipped, died, racing>>
  BY DEF SettleAppeal
<1>3. new \in [status : {"upheld", "overturned"}, reviewer : Staff \cup {"none"}]
  BY <1>2 DEF StandingConstants, Staff
<1>4. /\ act[c].of \in Entries /\ act[c].of \in DOMAIN log /\ log[act[c].of].by # new.reviewer
      /\ new.status = "overturned" =>
            \E j \in DOMAIN log : j > act[c].of /\ Lifts(log[j], act[c].of, new.reviewer)
  BY <1>1, <1>2 DEF RequestsSound, Sound
<1> HIDE DEF new
<1>5. /\ RequestsSound' /\ act' \in [Acts -> Doers] /\ act'[c].at = "over"
      /\ \A d \in Acts \ {c} : act'[d] = act[d]
  BY <1>1, <1>2, Ending DEF Rest
<1>6. /\ appeal' \in [Entries -> [status : {"none", "open", "upheld", "overturned"},
                                 reviewer : Staff \cup {"none"}]]
      /\ \A i \in Entries : appeal'[i] = appeal[i]
            \/ (i = act[c].of /\ appeal[i].status = "open" /\ appeal'[i] = new)
  BY <1>1, <1>2, <1>3 DEF Rest, StandingShaped
<1>7. StandingShaped'
  BY <1>1, <1>2, <1>5, <1>6 DEF Rest, StandingShaped
<1>8. StreamEnds'
  BY <1>1, <1>2, <1>5 DEF Rest, StreamEnds
<1>9. WritersRaced' /\ \A i \in Entries : appeal'[i].status # "none" => i \in DOMAIN log'
  BY <1>1, <1>2, <1>4, <1>5, <1>6 DEF Rest, WritersRaced
<1>10. DecisionsLogged'
  BY <1>1, <1>2, <1>4, <1>6 DEF Rest, DecisionsLogged, Lifts
<1>11. DecisionsStay
  BY <1>2, <1>6 DEF DecisionsStay
<1> QED BY <1>5, <1>7, <1>8, <1>9, <1>10, <1>11, InvParts DEF Rest

\* An appeal is filed against an entry of the log that had none.
LEMMA FileAppealKeeps ==
  ASSUME StandingInv, NEW c \in Acts, FileAppeal(c)
  PROVE  StandingInv' /\ DecisionsStay
<1>1. Rest /\ RequestsSound
  BY InvParts
<1>2. /\ act[c].at = "file" /\ Go(c, "over")
      /\ appeal' = IF appeal[act[c].of].status = "none"
                   THEN [appeal EXCEPT ![act[c].of].status = "open"] ELSE appeal
      /\ UNCHANGED <<cast, suspended, log, report, photo, rooms, live, slipped, died, racing>>
  BY DEF FileAppeal
<1>3. act[c].of \in DOMAIN log
  BY <1>1, <1>2 DEF RequestsSound, Sound
<1>5. /\ RequestsSound' /\ act' \in [Acts -> Doers] /\ act'[c].at = "over"
      /\ \A d \in Acts \ {c} : act'[d] = act[d]
  BY <1>1, <1>2, Ending DEF Rest
<1>6. /\ appeal' \in [Entries -> [status : {"none", "open", "upheld", "overturned"},
                                 reviewer : Staff \cup {"none"}]]
      /\ \A i \in Entries : appeal'[i] = appeal[i]
            \/ (i = act[c].of /\ appeal[i].status = "none" /\ appeal'[i].status = "open")
  BY <1>1, <1>2 DEF Rest, StandingShaped
<1>7. StandingShaped'
  BY <1>1, <1>2, <1>5, <1>6 DEF Rest, StandingShaped
<1>8. StreamEnds'
  BY <1>1, <1>2, <1>5 DEF Rest, StreamEnds
<1>9. WritersRaced' /\ \A i \in Entries : appeal'[i].status # "none" => i \in DOMAIN log'
  BY <1>1, <1>2, <1>3, <1>5, <1>6 DEF Rest, WritersRaced
<1>10. DecisionsLogged'
  BY <1>1, <1>2, <1>6 DEF Rest, DecisionsLogged, Lifts
<1>11. DecisionsStay
  BY <1>2, <1>6 DEF DecisionsStay
<1> QED BY <1>5, <1>7, <1>8, <1>9, <1>10, <1>11, InvParts DEF Rest

\* A report is closed as actioned by a moderator whose measure is in the log.
LEMMA SettleReportKeeps ==
  ASSUME StandingConstants, StandingInv, NEW c \in Acts, SettleReport(c)
  PROVE  StandingInv' /\ DecisionsStay
<1>1. Rest /\ RequestsSound
  BY InvParts
<1>2. /\ Doing(c) = "report" /\ act[c].at = "settle" /\ Go(c, "over")
      /\ report' = [r \in Reports |->
                      IF r \in Answers(c) /\ report[r] = "open"
                      THEN IF Deed[c].verdict = "dismiss" THEN "dismissed" ELSE "actioned"
                      ELSE report[r]]
      /\ UNCHANGED <<cast, suspended, log, appeal, photo, rooms, live, slipped, died, racing>>
  BY DEF SettleReport
<1>3. Deed[c].verdict # "dismiss" => \E k \in DOMAIN log : Measured(log[k], c)
  BY <1>1, <1>2 DEF RequestsSound, Sound
<1>4. /\ RequestsSound' /\ act' \in [Acts -> Doers] /\ act'[c].at = "over"
      /\ \A d \in Acts \ {c} : act'[d] = act[d]
  BY <1>1, <1>2, Ending DEF Rest
<1>5. StandingShaped' /\ StreamEnds' /\ WritersRaced'
  BY <1>1, <1>2, <1>4 DEF Rest, StandingShaped, StreamEnds, WritersRaced
<1>6. ASSUME NEW r \in Reports, report'[r] = "actioned"
      PROVE  \E k \in DOMAIN log : log[k].source = "report" /\ (log[k].of = r \/ log[k].act = "suspend")
  <2>1. CASE report[r] = "actioned"
    BY <1>1, <2>1 DEF Rest, DecisionsLogged
  <2>2. CASE report[r] # "actioned"
    <3>1. r \in Answers(c) /\ Deed[c].verdict # "dismiss"
      BY <1>2, <1>6, <2>2
    <3>2. PICK k \in DOMAIN log : Measured(log[k], c)
      BY <1>3, <3>1
    <3> QED BY <3>1, <3>2 DEF Measured, Answers
  <2> QED BY <2>1, <2>2
<1>7. DecisionsLogged' /\ \A i \in Entries : appeal'[i].status # "none" => i \in DOMAIN log'
  BY <1>1, <1>2, <1>6 DEF Rest, DecisionsLogged, Lifts
<1>8. DecisionsStay
  BY <1>2 DEF DecisionsStay
<1> QED BY <1>4, <1>5, <1>7, <1>8, InvParts DEF Rest

\* A photo is written, or decided: who was writing at the approval is remembered.
LEMMA PhotosKeep ==
  ASSUME StandingConstants, StandingInv, NEW c \in Acts, Submit(c) \/ Decide(c)
  PROVE  StandingInv' /\ DecisionsStay
<1>1. Rest /\ RequestsSound
  BY InvParts
<1>2. /\ Go(c, "over") /\ act[c].at \notin {"list", "close"}
      /\ UNCHANGED <<cast, suspended, log, appeal, report, rooms, live, slipped, died>>
  BY DEF Submit, Decide
<1>3. /\ RequestsSound' /\ act' \in [Acts -> Doers] /\ act'[c].at = "over"
      /\ \A d \in Acts \ {c} : act'[d] = act[d]
  BY <1>1, <1>2, Ending DEF Rest
<1>4. StandingShaped' /\ StreamEnds'
  BY <1>1, <1>2, <1>3 DEF Rest, StandingShaped, StreamEnds
<1>5. DecisionsLogged' /\ \A i \in Entries : appeal'[i].status # "none" => i \in DOMAIN log'
  BY <1>1, <1>2 DEF Rest, DecisionsLogged, Lifts
<1>6. WritersRaced' /\ (photo = "approved" /\ photo' # photo =>
                            \E d \in racing : act[d].at = "write" /\ act'[d].at = "over")
  <2>1. CASE Submit(c)
    BY <1>1, <1>3, <2>1 DEF Submit, Rest, WritersRaced
  <2>2. CASE Decide(c)
    BY <1>1, <1>3, <2>2 DEF Decide, Decidable, Rest, WritersRaced
  <2> QED BY <2>1, <2>2
<1>7. DecisionsStay
  BY <1>2, <1>6 DEF DecisionsStay
<1> QED BY <1>3, <1>4, <1>5, <1>6, <1>7, InvParts DEF Rest

\* A report is filed, or the host ends his broadcast.
LEMMA OthersKeep ==
  ASSUME StandingConstants, StandingInv, (\E r \in Reports : FileReport(r)) \/ EndRoom
  PROVE  StandingInv' /\ DecisionsStay
<1>1. /\ UNCHANGED <<cast, suspended, log, appeal, photo, rooms, act, racing>>
      /\ live' \in BOOLEAN /\ (live' => live /\ slipped' = slipped /\ died' = died)
      /\ report' \in [Reports -> {"none", "open", "actioned", "dismissed"}]
      /\ \A r \in Reports : report'[r] = report[r] \/ (report[r] = "none" /\ report'[r] = "open")
  <2>1. ASSUME NEW q \in Reports, FileReport(q)
        PROVE  /\ report' \in [Reports -> {"none", "open", "actioned", "dismissed"}]
               /\ \A r \in Reports : report'[r] = report[r] \/ (report[r] = "none" /\ report'[r] = "open")
    BY <2>1 DEF FileReport, StandingInv, StandingShaped
  <2>2. CASE \E q \in Reports : FileReport(q)
    BY <2>1, <2>2 DEF FileReport, StandingInv, StandingShaped
  <2>3. CASE EndRoom
    BY <2>3 DEF EndRoom, NotLive, StandingInv, StandingShaped
  <2> QED BY <2>2, <2>3
<1>2. StandingShaped' /\ StreamEnds' /\ WritersRaced' /\ EnforcersMeasure' /\ GateSeen'
  BY <1>1 DEF StandingInv, StandingShaped, StreamEnds, WritersRaced, EnforcersMeasure, GateSeen, Suspensions
<1>3. AppealsAreOfEntries' /\ GrantsAreLogged' /\ MeasuresAreLogged' /\ DecisionsLogged'
  BY <1>1 DEF StandingInv, AppealsAreOfEntries, GrantsAreLogged, MeasuresAreLogged, Lifts, Measured,
              DecisionsLogged
<1>4. DecisionsStay
  BY <1>1 DEF DecisionsStay
<1> QED BY <1>2, <1>3, <1>4 DEF StandingInv

\* Every step keeps the invariant, and every decision.
LEMMA StandingStep ==
  ASSUME StandingConstants, StandingInv, [StandingNext]_standingVars
  PROVE  StandingInv' /\ [DecisionsStay]_standingVars
<1> cast \subseteq Acts
  BY DEF StandingInv, StandingShaped
<1>1. ASSUME NEW c \in cast,
             \/ ReadAppeal(c) \/ ReadReport(c) \/ List(c) \/ ReadStanding(c) \/ MayGoLive(c)
             \/ ReadPhoto(c) \/ Die(c)
      PROVE  StandingInv' /\ DecisionsStay
  BY <1>1, ReadsKeep
<1>2. ASSUME NEW c \in cast, Enforce(c) PROVE StandingInv' /\ DecisionsStay
  BY <1>2, EnforceKeeps
<1>3. ASSUME NEW c \in cast, Close(c) \/ GoLive(c) PROVE StandingInv' /\ DecisionsStay
  BY <1>3, CloseKeeps, GoLiveKeeps
<1>4. ASSUME NEW c \in cast, SettleAppeal(c) \/ SettleReport(c) \/ FileAppeal(c)
      PROVE  StandingInv' /\ DecisionsStay
  BY <1>4, SettleAppealKeeps, SettleReportKeeps, FileAppealKeeps
<1>5. ASSUME NEW c \in cast, Submit(c) \/ Decide(c) PROVE StandingInv' /\ DecisionsStay
  BY <1>5, PhotosKeep
<1>6. CASE (\E r \in Reports : FileReport(r)) \/ EndRoom
  BY <1>6, OthersKeep
<1>7. CASE UNCHANGED standingVars
  <2>1. StandingShaped' /\ StreamEnds' /\ WritersRaced' /\ EnforcersMeasure' /\ GateSeen'
    BY <1>7 DEF standingVars, StandingInv, StandingShaped, StreamEnds, WritersRaced, EnforcersMeasure,
                GateSeen, Suspensions
  <2>2. AppealsAreOfEntries' /\ GrantsAreLogged' /\ MeasuresAreLogged' /\ DecisionsLogged'
    BY <1>7 DEF standingVars, StandingInv, AppealsAreOfEntries, GrantsAreLogged, MeasuresAreLogged,
                Lifts, Measured, DecisionsLogged
  <2> QED BY <1>7, <2>1, <2>2 DEF StandingInv
<1> QED BY <1>1, <1>2, <1>3, <1>4, <1>5, <1>6, <1>7 DEF StandingNext

LEMMA InvImplies == ASSUME StandingInv PROVE StreamEnds /\ DecisionsAreLogged
BY LoggedMeansLogged DEF StandingInv

LEMMA StandingTypes ==
  ASSUME StandingConstants, StandingInv, StandingInv', StandingTypeOK, [StandingNext]_standingVars
  PROVE  StandingTypeOK'
<1> cast \subseteq Acts
  BY DEF StandingInv, StandingShaped
<1>1. cast' \in Casts
  BY DEF StandingTypeOK, StandingNext, ReadAppeal, ReadReport, Enforce, List, Close, SettleAppeal,
         SettleReport, ReadStanding, FileAppeal, MayGoLive, GoLive, ReadPhoto, Submit, Decide, Die,
         FileReport, EndRoom, standingVars
<1>2. Len(log') <= MaxLog
  <2>1. log \in Seq(Entry) /\ MaxLog \in Nat /\ Len(log) \in Nat
    BY DEF StandingInv, StandingShaped, StandingConstants
  <2>2. ASSUME NEW c \in cast, Enforce(c) PROVE Len(log') <= MaxLog
    <3>1. Len(log) < MaxLog /\ Len(log') = Len(log) + 1
      BY <2>1, <2>2 DEF Enforce
    <3> QED BY <2>1, <3>1
  <2>3. CASE log' = log
    BY <2>3 DEF StandingTypeOK
  <2> QED
    BY <2>2, <2>3 DEF StandingNext, ReadAppeal, ReadReport, List, Close, SettleAppeal,
         SettleReport, ReadStanding, FileAppeal, MayGoLive, GoLive, ReadPhoto, Submit, Decide, Die,
         FileReport, EndRoom, standingVars
<1>3. \A e \in Range(log') : e.act \in {"suspend", "unsuspend", "end_room"} /\ e.by \in Staff
  <2>1. log' \in Seq(Entry)
    BY DEF StandingInv, StandingShaped
  <2>2. \A i \in DOMAIN log' : log'[i] \in Entry
    BY <2>1
  <2> QED BY <2>2 DEF Range, Entry
<1>4. photo' \in {"none", "pending", "approved", "rejected"}
  <2>1. ASSUME NEW c \in cast, Decide(c) PROVE photo' \in {"approved", "rejected"}
    <3>1. photo' = Deed[c].verdict /\ Doing(c) = "review" /\ c \in Acts
      BY <2>1 DEF Decide
    <3> QED BY <3>1 DEF StandingConstants
  <2>2. ASSUME NEW c \in cast, Submit(c) PROVE photo' = "pending"
    BY <2>2 DEF Submit
  <2>3. photo \in {"none", "pending", "approved", "rejected"}
    BY DEF StandingTypeOK
  <2> QED
    BY <2>1, <2>2, <2>3 DEF StandingNext, ReadAppeal, ReadReport, Enforce, List, Close, SettleAppeal,
         SettleReport, ReadStanding, FileAppeal, MayGoLive, GoLive, ReadPhoto, Die,
         FileReport, EndRoom, standingVars
<1>5. racing' \subseteq Acts
  BY DEF StandingTypeOK, StandingNext, ReadAppeal, ReadReport, Enforce, List, Close, SettleAppeal,
         SettleReport, ReadStanding, FileAppeal, MayGoLive, GoLive, ReadPhoto, Submit, Decide, Die,
         FileReport, EndRoom, standingVars
<1>6. slipped' \in BOOLEAN /\ died' \in BOOLEAN
  <2>1. ASSUME NEW c \in cast, Die(c) \/ Close(c) \/ GoLive(c)
        PROVE  slipped' \in BOOLEAN /\ died' \in BOOLEAN
    <3>1. slipped \in BOOLEAN /\ died \in BOOLEAN
      BY DEF StandingTypeOK
    <3>2. CASE Die(c)
      <4>1. /\ slipped' = slipped
            /\ died' = (died \/ (live /\ act[c].at \in {"list", "close"}))
        BY <3>2 DEF Die
      <4> QED BY <3>1, <4>1, Zenon
    <3>3. CASE Close(c)
      BY <3>1, <3>3 DEF Close, NotLive
    <3>4. CASE GoLive(c)
      BY <3>1, <3>4 DEF GoLive
    <3> QED BY <2>1, <3>2, <3>3, <3>4
  <2>2. CASE EndRoom
    BY <2>2 DEF EndRoom, NotLive
  <2>3. CASE UNCHANGED <<slipped, died>>
    BY <2>3 DEF StandingTypeOK
  <2> QED
    BY <2>1, <2>2, <2>3 DEF StandingNext, ReadAppeal, ReadReport, Enforce, List, SettleAppeal,
         SettleReport, ReadStanding, FileAppeal, MayGoLive, ReadPhoto, Submit, Decide,
         FileReport, standingVars
<1> QED
  BY <1>1, <1>2, <1>3, <1>4, <1>5, <1>6 DEF StandingTypeOK, StandingInv, StandingShaped, Doers

\* For any staff, hosts, reports, appeals and interleaving of their requests: the
\* types hold, a suspension ends the stream, what was decided is in the log, and it
\* stays.
THEOREM StandingAlwaysHolds == ASSUME StandingConstants PROVE StandingSpec => StandingHolds
<1>1. StandingInit => StandingInv
  BY StandingStarts
<1>2. StandingInit => StandingTypeOK
  <2> SUFFICES ASSUME StandingInit PROVE StandingTypeOK
    OBVIOUS
  <2>1. StandingInv
    BY StandingStarts
  <2>2. photo \in {"none", "pending", "approved", "rejected"} /\ racing \subseteq Acts
        /\ slipped \in BOOLEAN /\ died \in BOOLEAN /\ cast \in Casts
    BY DEF StandingInit
  <2>3. Range(log) = {} /\ Len(log) <= MaxLog
    BY DEF StandingInit, Range, StandingConstants
  <2> QED BY <2>1, <2>2, <2>3 DEF StandingTypeOK, StandingInv, StandingShaped, Doers
<1>3. StandingInv /\ [StandingNext]_standingVars => StandingInv' /\ [DecisionsStay]_standingVars
  BY StandingStep
<1>4. StandingTypeOK /\ StandingInv /\ [StandingNext]_standingVars => StandingTypeOK'
  BY <1>3, StandingTypes
<1>5. StandingInv => StreamEnds /\ DecisionsAreLogged
  BY InvImplies
<1>6. StreamEnds' /\ DecisionsAreLogged' /\ DecisionsStay => StandingKept
  BY DEF StandingKept
<1> QED BY <1>1, <1>2, <1>3, <1>4, <1>5, <1>6, PTL DEF StandingSpec, StandingHolds

-----------------------------------------------------------------------------
(* Rewards                                                                 *)

GrantRecord ==
    [kind : ClaimKinds, who : People, day : Nat, slot : Nat, payee : People, streak : Nat,
     hurried : BOOLEAN]

Busy(c)    == claiming[c].at # "idle"
Pending(c) == claiming[c].at = "granting"

RewardsShaped ==
    /\ today \in Nat /\ IsFiniteSet(claims) /\ claims \subseteq GrantRecord
    /\ referrals \in [People -> People \cup {NoReferrer}] /\ rewarded \subseteq People
    /\ claiming \in [Claimers -> [at : {"idle", "asked", "granting"}, day : Nat,
                                  claim : GrantRecord]]
    /\ \A c \in Claimers : Busy(c) => claiming[c].day <= today

KeysOnce == \A x, y \in claims : Key(x) = Key(y) => x = y

\* A claim names a day or a slot only if its kind has them.
OfItsKind(x) ==
    /\ x.kind \in {"signup", "referral"} => x.day = 0 /\ x.slot = 0
    /\ x.kind \in {"checkin", "task"} => x.slot = 0

\* A check-in that hurried nobody goes on from a yesterday that is over: no call
\* of an earlier day is left.
OnLadder(x) ==
    x.kind = "checkin" /\ ~x.hurried =>
        /\ x.streak = StreakDay(x.who, x.day) /\ x.day <= today
        /\ \A b \in Claimers : Busy(b) => claiming[b].day >= x.day

OfReferral(x) == x.kind = "referral" => x.payee = referrals[x.who]

Truthful(x) == OfItsKind(x) /\ OnLadder(x) /\ OfReferral(x)

\* What a decided claim relies on, which only grows until it is posted.
Granted(c) ==
    LET x == claiming[c].claim
    IN  /\ Truthful(x)
        /\ x.kind = "checkin" => x.day = claiming[c].day
        /\ x.kind = "watch" => x.slot \in 1..(Earned(x.who, x.day) + 1) /\ x.slot <= WatchCap
        /\ x.kind = "task" => Earned(x.who, x.day) >= TaskTarget

SlotsInRow ==
    \A p \in People, d \in Nat :
        /\ {x.slot : x \in Made("watch", p, d)} = 1..Earned(p, d)
        /\ Earned(p, d) <= WatchCap
        /\ Made("task", p, d) # {} => Earned(p, d) >= TaskTarget

\* Of claims decided on and not posted at most one hurried nobody, and it is
\* the phone's first welcome.
AloneAtDecision ==
    \A b, c \in Claimers :
        b # c /\ Pending(b) /\ Pending(c) => (claiming[b].claim.hurried \/ claiming[c].claim.hurried)

SamePhone(x, y) ==
    /\ x.kind = "signup" /\ y.kind = "signup" /\ ~x.hurried /\ ~y.hurried
    /\ Phone[x.who] = Phone[y.who]

FirstOfPhone ==
    \A c \in Claimers : Pending(c) => \A y \in claims : ~SamePhone(claiming[c].claim, y)

PaidIsMarked ==
    \A f \in People : f \in rewarded <=> \E x \in claims : x.kind = "referral" /\ x.who = f

RewardsInv ==
    /\ RewardsShaped /\ KeysOnce
    /\ \A x \in claims : Truthful(x)
    /\ \A c \in Claimers : Pending(c) => Granted(c)
    /\ SlotsInRow /\ AloneAtDecision /\ FirstOfPhone /\ OneWelcomePerPhone /\ PaidIsMarked

-----------------------------------------------------------------------------
LEMMA MadeKeeps ==
  ASSUME UNCHANGED claims
  PROVE  /\ \A k, p, d : Made(k, p, d)' = Made(k, p, d)
         /\ \A p, d : Earned(p, d)' = Earned(p, d) /\ StreakDay(p, d)' = StreakDay(p, d)
BY DEF Made, Earned, StreakDay

LEMMA Hurried ==
  ASSUME NEW x \in GrantRecord, NEW h \in BOOLEAN
  PROVE  LET y == [x EXCEPT !.hurried = h]
         IN  /\ y \in GrantRecord /\ y.hurried = h
             /\ y.kind = x.kind /\ y.who = x.who /\ y.day = x.day /\ y.slot = x.slot
             /\ y.payee = x.payee /\ y.streak = x.streak
BY DEF GrantRecord

\* The claim that a call decides on.
IsDecided(x, c, d) ==
    /\ x \in GrantRecord /\ x.kind = Wants[c].kind /\ x.who = Wants[c].who
    /\ x.hurried = Crowded(c)
    /\ x.kind \in {"checkin", "watch", "task"} => x.day = d
    /\ x.kind = "checkin" => x.streak = StreakDay(x.who, d)
    /\ x.kind = "watch" => x.slot = WatchSlot(x.who, d)
    /\ x.kind \in {"checkin", "task"} => x.slot = 0
    /\ x.kind \in {"signup", "referral", "attach"} => x.day = 0 /\ x.slot = 0
    /\ x.kind # "checkin" => x.streak = 0
    /\ x.kind = "referral" => x.payee = referrals[x.who]

LEMMA DecidedIs ==
  ASSUME RewardsConstants, RewardsShaped, NEW c \in Claimers, Allowed(c)
  PROVE  IsDecided([Intended(c) EXCEPT !.hurried = Crowded(c)], c, claiming[c].day)
<1> DEFINE d == claiming[c].day
           w == Wants[c]
           n == NoClaim(c)
           z == [Intended(c) EXCEPT !.hurried = Crowded(c)]
<1>1. w \in [kind : ClaimKinds, who : People, code : People] /\ d \in Nat
  BY DEF RewardsConstants, RewardsShaped
<1>2. StreakDay(w.who, d) \in Nat
  <2> DEFINE before == Made("checkin", w.who, d - 1)
  <2>1. CASE \E y \in before : TRUE
    <3>1. (CHOOSE y \in before : TRUE) \in before
      BY <2>1
    <3>2. (CHOOSE y \in before : TRUE).streak \in Nat
      BY <3>1 DEF Made, RewardsShaped, GrantRecord
    <3> HIDE DEF before
    <3>3. (((CHOOSE y \in before : TRUE).streak) % Ladder) + 1 \in Nat
      BY <3>2 DEF RewardsConstants
    <3>4. StreakDay(w.who, d) = (((CHOOSE y \in before : TRUE).streak) % Ladder) + 1
      BY <2>1 DEF StreakDay, before
    <3> QED BY <3>3, <3>4
  <2>2. CASE ~\E y \in before : TRUE
    <3>1. StreakDay(w.who, d) = 1
      BY <2>2 DEF StreakDay
    <3> QED BY <3>1
  <2> QED BY <2>1, <2>2
<1>3. WatchSlot(w.who, d) \in Nat
  <2>1. IsFiniteSet(Made("watch", w.who, d))
    BY FS_Subset DEF Made, RewardsShaped
  <2> QED BY <2>1, FS_CardinalityType DEF WatchSlot, Earned
<1>4. w.kind = "referral" => referrals[w.who] \in People
  BY <1>1 DEF Allowed, ReferralAllowed, RewardsShaped
<1>5. Crowded(c) \in BOOLEAN
  BY DEF Crowded
<1>6. /\ n \in GrantRecord /\ n.kind = w.kind /\ n.who = w.who /\ n.day = 0 /\ n.slot = 0
      /\ n.streak = 0
  BY <1>1 DEF NoClaim, GrantRecord
<1> HIDE DEF n
<1>a. CASE w.kind = "checkin"
  <2> DEFINE m == StreakDay(w.who, d)
  <2>1. Intended(c) = [n EXCEPT !.day = d, !.streak = m]
    BY <1>a DEF Intended, n
  <2> HIDE DEF m
  <2>2. m \in Nat
    BY <1>2 DEF m
  <2>3. /\ Intended(c) \in GrantRecord /\ Intended(c).kind = w.kind /\ Intended(c).who = w.who
        /\ Intended(c).day = d /\ Intended(c).slot = 0 /\ Intended(c).streak = m
    BY <1>1, <1>6, <2>1, <2>2 DEF GrantRecord
  <2> QED BY <1>5, <1>a, <2>3, Hurried DEF IsDecided, m
<1>b. CASE w.kind = "watch"
  <2> DEFINE m == WatchSlot(w.who, d)
  <2>1. Intended(c) = [n EXCEPT !.day = d, !.slot = m]
    BY <1>b DEF Intended, n
  <2> HIDE DEF m
  <2>2. m \in Nat
    BY <1>3 DEF m
  <2>3. /\ Intended(c) \in GrantRecord /\ Intended(c).kind = w.kind /\ Intended(c).who = w.who
        /\ Intended(c).day = d /\ Intended(c).slot = m /\ Intended(c).streak = 0
    BY <1>1, <1>6, <2>1, <2>2 DEF GrantRecord
  <2> QED BY <1>5, <1>b, <2>3, Hurried DEF IsDecided, m
<1>c. CASE w.kind = "task"
  <2>1. Intended(c) = [n EXCEPT !.day = d]
    BY <1>c DEF Intended, n
  <2>2. /\ Intended(c) \in GrantRecord /\ Intended(c).kind = w.kind /\ Intended(c).who = w.who
        /\ Intended(c).day = d /\ Intended(c).slot = 0 /\ Intended(c).streak = 0
    BY <1>1, <1>6, <2>1 DEF GrantRecord
  <2> QED BY <1>5, <1>c, <2>2, Hurried DEF IsDecided
<1>d. CASE w.kind = "referral"
  <2>1. Intended(c) = [n EXCEPT !.payee = referrals[w.who]]
    BY <1>d DEF Intended, n
  <2>2. /\ Intended(c) \in GrantRecord /\ Intended(c).kind = w.kind /\ Intended(c).who = w.who
        /\ Intended(c).day = 0 /\ Intended(c).slot = 0 /\ Intended(c).payee = referrals[w.who]
        /\ Intended(c).streak = 0
    BY <1>1, <1>4, <1>6, <1>d, <2>1 DEF GrantRecord
  <2> QED BY <1>5, <1>d, <2>2, Hurried DEF IsDecided
<1>e. CASE w.kind \in {"signup", "attach"}
  <2>1. Intended(c) = n
    BY <1>e DEF Intended, n
  <2> QED BY <1>5, <1>6, <1>e, <2>1, Hurried DEF IsDecided
<1> QED BY <1>1, <1>a, <1>b, <1>c, <1>d, <1>e DEF ClaimKinds

-----------------------------------------------------------------------------
LEMMA RewardsInvStarts ==
  ASSUME RewardsConstants, RewardsInit
  PROVE  RewardsInv
<1>1. \A c \in Claimers : NoClaim(c) \in GrantRecord
  BY DEF NoClaim, GrantRecord, RewardsConstants
<1>2. RewardsShaped
  <2>1. \A c \in Claimers : NotAsked(c) \in [at : {"idle", "asked", "granting"}, day : Nat,
                                             claim : GrantRecord]
    BY <1>1 DEF NotAsked
  <2>2. \A c \in Claimers : ~Busy(c)
    BY DEF RewardsInit, NotAsked, Busy
  <2> QED BY <2>1, <2>2, FS_EmptySet DEF RewardsInit, RewardsShaped
<1>3. \A c \in Claimers : ~Pending(c)
  BY DEF RewardsInit, NotAsked, Pending
<1>4. SlotsInRow
  <2>1. \A k, p, d : Made(k, p, d) = {}
    BY DEF Made, RewardsInit
  <2>2. \A p, d : Earned(p, d) = 0
    BY <2>1, FS_EmptySet DEF Earned
  <2> QED BY <2>1, <2>2 DEF SlotsInRow, RewardsConstants
<1> QED BY <1>2, <1>3, <1>4
        DEF RewardsInit, RewardsInv, KeysOnce, AloneAtDecision, FirstOfPhone, OneWelcomePerPhone,
            PaidIsMarked

\* A step that grants nothing and decides on nothing: a call comes or goes, a
\* day passes, a code is attached to who had none.
LEMMA NothingGranted ==
  ASSUME RewardsConstants, RewardsInv,
         UNCHANGED <<claims, rewarded>>, today' \in Nat, today <= today',
         referrals' \in [People -> People \cup {NoReferrer}],
         \A f \in People : referrals[f] # NoReferrer => referrals'[f] = referrals[f],
         claiming' \in [Claimers -> [at : {"idle", "asked", "granting"}, day : Nat,
                                     claim : GrantRecord]],
         \A b \in Claimers : Pending(b)' => claiming'[b] = claiming[b],
         \A b \in Claimers : Busy(b)' =>
            claiming'[b].day = today \/ (Busy(b) /\ claiming'[b].day = claiming[b].day)
  PROVE  RewardsInv'
<1>1. RewardsShaped'
  <2>1. \A c \in Claimers : Busy(c)' => claiming'[c].day <= today'
    <3> SUFFICES ASSUME NEW c \in Claimers, Busy(c)' PROVE claiming'[c].day <= today'
      OBVIOUS
    <3>1. claiming'[c].day \in Nat /\ claiming[c].day \in Nat /\ today \in Nat
      BY DEF RewardsInv, RewardsShaped
    <3>2. Busy(c) => claiming[c].day <= today
      BY DEF RewardsInv, RewardsShaped
    <3>3. claiming'[c].day = today \/ (Busy(c) /\ claiming'[c].day = claiming[c].day)
      OBVIOUS
    <3> QED BY <3>1, <3>2, <3>3
  <2> QED BY <2>1 DEF RewardsInv, RewardsShaped
<1>2. KeysOnce'
  BY DEF RewardsInv, KeysOnce, Key
<1>3. ASSUME NEW x \in GrantRecord, Truthful(x)
      PROVE  Truthful(x)'
  <2>1. OnLadder(x)'
    <3> SUFFICES ASSUME x.kind = "checkin", ~x.hurried
                 PROVE  /\ x.streak = StreakDay(x.who, x.day)' /\ x.day <= today'
                        /\ \A b \in Claimers : Busy(b)' => claiming'[b].day >= x.day
      BY DEF OnLadder
    <3>1. x.streak = StreakDay(x.who, x.day) /\ x.day <= today
      BY <1>3 DEF Truthful, OnLadder
    <3>2. today \in Nat /\ x.day \in Nat
      BY DEF RewardsInv, RewardsShaped, GrantRecord
    <3>3. ASSUME NEW b \in Claimers, Busy(b)' PROVE claiming'[b].day >= x.day
      <4>1. Busy(b) => claiming[b].day >= x.day
        BY <1>3 DEF Truthful, OnLadder
      <4> QED BY <3>1, <3>2, <3>3, <4>1
    <3> QED BY <3>1, <3>2, <3>3, MadeKeeps
  <2>2. OfReferral(x)'
    <3>1. x.kind = "referral" => x.payee = referrals[x.who]
      BY <1>3 DEF Truthful, OfReferral
    <3>2. x.payee \in People /\ x.who \in People /\ NoReferrer \notin People
      BY DEF GrantRecord, RewardsConstants
    <3> QED BY <3>1, <3>2 DEF OfReferral
  <2>3. OfItsKind(x)'
    BY <1>3 DEF Truthful, OfItsKind
  <2> QED BY <2>1, <2>2, <2>3 DEF Truthful
<1>4. \A x \in claims' : Truthful(x)'
  BY <1>3 DEF RewardsInv, RewardsShaped
<1>5. ASSUME NEW c \in Claimers, Pending(c)'
      PROVE  Granted(c)'
  <2>1. claiming'[c] = claiming[c] /\ Pending(c)
    BY <1>5 DEF Pending
  <2>2. Granted(c) /\ claiming[c].claim \in GrantRecord
    BY <2>1 DEF RewardsInv, RewardsShaped
  <2>3. Truthful(claiming[c].claim)'
    <3> DEFINE x == claiming[c].claim
    <3>1. x \in GrantRecord /\ Truthful(x)
      BY <2>2 DEF Granted
    <3>2. x' = x
      BY <2>1
    <3> HIDE DEF x
    <3>3. ASSUME NEW y \in GrantRecord, y = x, Truthful(y) PROVE Truthful(x)'
      <4>1. Truthful(y)'
        BY <1>3, <3>3
      <4>2. y = x'
        BY <3>2, <3>3
      <4> QED BY <4>1, <4>2 DEF Truthful, OfItsKind, OnLadder, OfReferral
    <3>4. Truthful(x)'
      BY <3>1, <3>3
    <3> QED BY <3>4 DEF x
  <2> QED BY <2>1, <2>2, <2>3, MadeKeeps DEF Granted
<1>6. SlotsInRow'
  BY MadeKeeps DEF RewardsInv, SlotsInRow
<1>7. AloneAtDecision'
  BY DEF RewardsInv, AloneAtDecision, Pending
<1>8. FirstOfPhone'
  BY DEF RewardsInv, FirstOfPhone, SamePhone, Pending
<1>9. OneWelcomePerPhone' /\ PaidIsMarked'
  BY DEF RewardsInv, OneWelcomePerPhone, PaidIsMarked
<1> QED BY <1>1, <1>2, <1>4, <1>5, <1>6, <1>7, <1>8, <1>9 DEF RewardsInv

\* A call decides on its claim.
LEMMA DecidedKeeps ==
  ASSUME RewardsConstants, RewardsInv, NEW c \in Claimers, claiming[c].at = "asked", Allowed(c),
         NEW d, d = claiming[c].day, NEW z, IsDecided(z, c, d),
         claiming' = [claiming EXCEPT ![c] = [@ EXCEPT !.at = "granting", !.claim = z]],
         UNCHANGED <<today, claims, referrals, rewarded>>
  PROVE  RewardsInv'
<1> DEFINE w == Wants[c]
<1>1. IsDecided(z, c, d) /\ z \in GrantRecord
  BY DEF IsDecided
<1>2. /\ claiming'[c].at = "granting" /\ claiming'[c].claim = z /\ claiming'[c].day = d
      /\ d \in Nat /\ d <= today /\ today \in Nat
      /\ claiming'[c] \in [at : {"idle", "asked", "granting"}, day : Nat, claim : GrantRecord]
  <2>1. claiming[c] \in [at : {"idle", "asked", "granting"}, day : Nat, claim : GrantRecord]
    BY DEF RewardsInv, RewardsShaped
  <2>2. claiming'[c] = [claiming[c] EXCEPT !.at = "granting", !.claim = z]
    BY DEF RewardsInv, RewardsShaped
  <2>3. d <= today /\ today \in Nat
    BY DEF RewardsInv, RewardsShaped, Busy
  <2>4. claiming'[c].at = "granting" /\ claiming'[c].claim = z /\ claiming'[c].day = d
    BY <2>1, <2>2
  <2>5. claiming'[c] \in [at : {"idle", "asked", "granting"}, day : Nat, claim : GrantRecord]
    <3>1. [claiming[c] EXCEPT !.at = "granting"]
            \in [at : {"idle", "asked", "granting"}, day : Nat, claim : GrantRecord]
      BY <2>1
    <3>2. PICK v \in [at : {"idle", "asked", "granting"}, day : Nat, claim : GrantRecord] :
                 v = [claiming[c] EXCEPT !.at = "granting"]
      BY <3>1
    <3>3. [v EXCEPT !.claim = z] \in [at : {"idle", "asked", "granting"}, day : Nat,
                                      claim : GrantRecord]
      BY <1>1, <3>2
    <3> QED BY <2>2, <3>2, <3>3
  <2> QED BY <2>1, <2>3, <2>4, <2>5
<1>3. \A b \in Claimers \ {c} : claiming'[b] = claiming[b]
  BY DEF RewardsInv, RewardsShaped
<1>4. \A b \in Claimers : (Busy(b)' <=> Busy(b)) /\ claiming'[b].day = claiming[b].day
  BY <1>2, <1>3 DEF Busy
<1>5. RewardsShaped'
  <2>1. claiming' \in [Claimers -> [at : {"idle", "asked", "granting"}, day : Nat,
                                    claim : GrantRecord]]
    BY <1>2, <1>3 DEF RewardsInv, RewardsShaped
  <2> QED BY <1>4, <2>1 DEF RewardsInv, RewardsShaped
<1>6. ASSUME NEW x, Truthful(x) PROVE Truthful(x)'
  BY <1>4, <1>6, MadeKeeps DEF Truthful, OfItsKind, OnLadder, OfReferral
<1>7. \A p, e : Earned(p, e)' = Earned(p, e)
  BY MadeKeeps
<1>8. Granted(c)'
  <2>1. OfItsKind(z) /\ OfReferral(z)'
    BY <1>1 DEF IsDecided, OfItsKind, OfReferral
  <2>2. OnLadder(z)'
    <3> SUFFICES ASSUME z.kind = "checkin", ~z.hurried
                 PROVE  /\ z.streak = StreakDay(z.who, z.day)' /\ z.day <= today'
                        /\ \A b \in Claimers : Busy(b)' => claiming'[b].day >= z.day
      BY DEF OnLadder
    <3>1. z.streak = StreakDay(z.who, z.day) /\ z.day = d /\ ~Crowded(c)
      BY <1>1 DEF IsDecided
    <3>2. ASSUME NEW b \in Claimers, Busy(b) PROVE claiming[b].day >= d
      <4>1. claiming[b].day \in Nat /\ claiming[b].at \in {"asked", "granting"}
        BY <3>2 DEF RewardsInv, RewardsShaped, Busy
      <4> QED BY <1>2, <3>1, <4>1 DEF Crowded
    <3> QED BY <1>2, <1>4, <3>1, <3>2, MadeKeeps
  <2>3. z.kind = "watch" => z.slot \in 1..(Earned(z.who, z.day) + 1) /\ z.slot <= WatchCap
    <3> SUFFICES ASSUME z.kind = "watch"
                 PROVE z.slot \in 1..(Earned(z.who, z.day) + 1) /\ z.slot <= WatchCap
      OBVIOUS
    <3>1. z.slot = WatchSlot(z.who, d) /\ z.day = d /\ w.kind = "watch" /\ z.who = w.who
      BY <1>1 DEF IsDecided
    <3>2. Earned(w.who, d) < WatchCap
      BY <3>1 DEF Allowed, WatchAllowed
    <3>3. Earned(w.who, d) \in Nat /\ WatchCap \in Nat
      <4>1. IsFiniteSet(Made("watch", w.who, d))
        BY FS_Subset DEF Made, RewardsInv, RewardsShaped
      <4> QED BY <4>1, FS_CardinalityType DEF Earned, RewardsConstants
    <3> QED BY <3>1, <3>2, <3>3 DEF WatchSlot
  <2>4. z.kind = "task" => Earned(z.who, z.day) >= TaskTarget
    <3> SUFFICES ASSUME z.kind = "task" PROVE Earned(z.who, z.day) >= TaskTarget
      OBVIOUS
    <3>1. z.day = d /\ w.kind = "task" /\ z.who = w.who
      BY <1>1 DEF IsDecided
    <3> QED BY <3>1 DEF Allowed, TaskAllowed
  <2>5. z.kind = "checkin" => z.day = d
    BY <1>1 DEF IsDecided
  <2>6. Truthful(z)'
    BY <2>1, <2>2 DEF Truthful, OfItsKind
  <2>7. Truthful(claiming[c].claim)'
    BY <1>2, <2>6 DEF Truthful, OfItsKind, OnLadder, OfReferral
  <2> QED BY <1>2, <1>7, <2>3, <2>4, <2>5, <2>7 DEF Granted
<1>9. ASSUME NEW b \in Claimers, Pending(b)' PROVE Granted(b)'
  <2>1. CASE b = c
    BY <1>8, <2>1
  <2>2. CASE b # c
    <3>1. claiming'[b] = claiming[b] /\ Granted(b)
      BY <1>3, <1>9, <2>2 DEF RewardsInv, Pending
    <3> DEFINE y == claiming[b].claim
    <3>2. Truthful(y)'
      <4>1. PICK x : x = y
        OBVIOUS
      <4>2. Truthful(x)'
        BY <1>6, <3>1, <4>1 DEF Granted
      <4>3. y' = x
        BY <3>1, <4>1
      <4> QED BY <4>2, <4>3 DEF Truthful, OfItsKind, OnLadder, OfReferral
    <3> QED BY <1>7, <3>1, <3>2 DEF Granted
  <2> QED BY <2>1, <2>2
<1>10. AloneAtDecision'
  <2>1. ASSUME NEW b \in Claimers \ {c}, Pending(b)' PROVE z.hurried
    BY <1>1, <1>3, <2>1 DEF IsDecided, Crowded, Pending
  <2>2. SUFFICES ASSUME NEW a \in Claimers, NEW b \in Claimers, a # b, Pending(a)', Pending(b)'
                 PROVE  claiming'[a].claim.hurried \/ claiming'[b].claim.hurried
    BY DEF AloneAtDecision
  <2>3. CASE a = c \/ b = c
    BY <1>2, <2>1, <2>2, <2>3
  <2>4. CASE a # c /\ b # c
    BY <1>3, <2>2, <2>4 DEF RewardsInv, AloneAtDecision, Pending
  <2> QED BY <2>3, <2>4
<1>11. FirstOfPhone'
  <2>1. ASSUME NEW y \in claims, SamePhone(z, y) PROVE FALSE
    <3>1. /\ w.kind = "signup" /\ z.who = w.who /\ y.kind = "signup"
          /\ Phone[w.who] = Phone[y.who]
      BY <1>1, <2>1 DEF IsDecided, SamePhone
    <3>2. WelcomeAllowed(w.who)
      BY <3>1 DEF Allowed
    <3>3. y.day = 0
      BY <3>1 DEF RewardsInv, Truthful, OfItsKind
    <3>4. CASE y.who = w.who
      BY <3>1, <3>2, <3>3, <3>4 DEF WelcomeAllowed, Made
    <3>5. CASE y.who # w.who
      BY <3>1, <3>2, <3>5 DEF WelcomeAllowed, TakenOnDevice
    <3> QED BY <3>4, <3>5
  <2>2. SUFFICES ASSUME NEW b \in Claimers, Pending(b)', NEW y \in claims,
                        SamePhone(claiming'[b].claim, y)
                 PROVE  FALSE
    BY DEF FirstOfPhone, SamePhone
  <2>3. b # c
    BY <1>2, <2>1, <2>2
  <2> QED BY <1>3, <2>2, <2>3 DEF RewardsInv, FirstOfPhone, Pending
<1>12. KeysOnce' /\ OneWelcomePerPhone' /\ PaidIsMarked'
  BY DEF RewardsInv, KeysOnce, Key, OneWelcomePerPhone, PaidIsMarked
<1>13. SlotsInRow'
  BY MadeKeeps DEF RewardsInv, SlotsInRow
<1>14. \A x \in claims' : Truthful(x)'
  BY <1>6 DEF RewardsInv
<1> QED BY <1>5, <1>9, <1>10, <1>11, <1>12, <1>13, <1>14 DEF RewardsInv

\* A claim is posted.
LEMMA GrantedKeeps ==
  ASSUME RewardsConstants, RewardsInv, NEW c \in Claimers, NEW x, x = claiming[c].claim,
         Pending(c), \A y \in claims : Key(y) # Key(x), claims' = claims \cup {x},
         rewarded' = (IF x.kind = "referral" THEN rewarded \cup {x.who} ELSE rewarded),
         Finish(c), UNCHANGED <<today, referrals>>
  PROVE  RewardsInv'
<1>1. x \in GrantRecord /\ Granted(c) /\ Truthful(x) /\ x \notin claims
  BY DEF RewardsInv, RewardsShaped, Granted
<1>2. /\ ~Busy(c)' /\ \A b \in Claimers \ {c} : claiming'[b] = claiming[b]
      /\ claiming' \in [Claimers -> [at : {"idle", "asked", "granting"}, day : Nat,
                                     claim : GrantRecord]]
  <2>1. NotAsked(c) \in [at : {"idle", "asked", "granting"}, day : Nat, claim : GrantRecord]
    BY DEF NotAsked, NoClaim, GrantRecord, RewardsConstants
  <2>2. NotAsked(c).at = "idle"
    BY DEF NotAsked
  <2> QED BY <2>1, <2>2 DEF Finish, RewardsInv, RewardsShaped, Busy
<1>3. \A b \in Claimers : Busy(b)' => b # c /\ claiming'[b] = claiming[b] /\ Busy(b)
  BY <1>2 DEF Busy
<1>4. \A b \in Claimers : Pending(b)' => b # c /\ claiming'[b] = claiming[b] /\ Pending(b)
  BY <1>2 DEF Busy, Pending
<1>5. RewardsShaped'
  <2>1. IsFiniteSet(claims')
    BY FS_AddElement DEF RewardsInv, RewardsShaped
  <2>2. claims' \subseteq GrantRecord /\ rewarded' \subseteq People
    BY <1>1 DEF RewardsInv, RewardsShaped, GrantRecord
  <2>3. \A b \in Claimers : Busy(b)' => claiming'[b].day <= today'
    BY <1>3 DEF RewardsInv, RewardsShaped
  <2> QED BY <1>2, <2>1, <2>2, <2>3 DEF RewardsInv, RewardsShaped
<1>6. KeysOnce'
  BY DEF RewardsInv, KeysOnce, Key
<1>7. \A k, p, d : Made(k, p, d)' =
          IF k = x.kind /\ p = x.who /\ d = x.day THEN Made(k, p, d) \cup {x} ELSE Made(k, p, d)
  BY DEF Made
<1>8. \A p, d : /\ IsFiniteSet(Made("watch", p, d)) /\ Earned(p, d) \in Nat
                /\ IF x.kind = "watch" /\ p = x.who /\ d = x.day
                   THEN Earned(p, d)' = Earned(p, d) + 1 ELSE Earned(p, d)' = Earned(p, d)
  <2> SUFFICES ASSUME NEW p, NEW d
               PROVE  /\ IsFiniteSet(Made("watch", p, d)) /\ Earned(p, d) \in Nat
                      /\ IF x.kind = "watch" /\ p = x.who /\ d = x.day
                         THEN Earned(p, d)' = Earned(p, d) + 1 ELSE Earned(p, d)' = Earned(p, d)
    OBVIOUS
  <2>1. IsFiniteSet(Made("watch", p, d))
    BY FS_Subset DEF Made, RewardsInv, RewardsShaped
  <2>2. x \notin Made("watch", p, d)
    BY <1>1 DEF Made
  <2>3. Cardinality(Made("watch", p, d) \cup {x}) = Cardinality(Made("watch", p, d)) + 1
    BY <2>1, <2>2, FS_AddElement
  <2> QED BY <1>7, <2>1, <2>3, FS_CardinalityType DEF Earned
<1>9. \A p, d : Earned(p, d)' >= Earned(p, d)
  BY <1>8
<1>10. SlotsInRow'
  <2> SUFFICES ASSUME NEW p \in People, NEW d \in Nat
               PROVE  /\ {y.slot : y \in Made("watch", p, d)'} = 1..Earned(p, d)'
                      /\ Earned(p, d)' <= WatchCap
                      /\ Made("task", p, d)' # {} => Earned(p, d)' >= TaskTarget
    BY DEF SlotsInRow
  <2> DEFINE n == Earned(p, d)
  <2>1. /\ {y.slot : y \in Made("watch", p, d)} = 1..n /\ n <= WatchCap
        /\ Made("task", p, d) # {} => n >= TaskTarget
    BY DEF RewardsInv, SlotsInRow
  <2>2. CASE x.kind = "watch" /\ p = x.who /\ d = x.day
    <3>1. x.slot \in 1..(n + 1) /\ x.slot <= WatchCap
      BY <1>1, <2>2 DEF Granted
    <3>2. x.slot \notin 1..n
      <4>1. SUFFICES ASSUME x.slot \in 1..n PROVE FALSE
        OBVIOUS
      <4>2. PICK y \in Made("watch", p, d) : y.slot = x.slot
        BY <2>1, <4>1
      <4> QED BY <2>2, <4>2 DEF Made, Key
    <3>3. n \in Nat /\ Earned(p, d)' = n + 1 /\ x.slot = n + 1
      BY <1>8, <2>2, <3>1, <3>2
    <3>4. Made("watch", p, d)' = Made("watch", p, d) \cup {x} /\ Made("task", p, d)' = Made("task", p, d)
      BY <1>7, <2>2
    <3>5. {y.slot : y \in Made("watch", p, d) \cup {x}} = {y.slot : y \in Made("watch", p, d)} \cup {x.slot}
      OBVIOUS
    <3>6. (1..n) \cup {n + 1} = 1..(n + 1)
      BY <3>3
    <3>7. n + 1 <= WatchCap /\ n + 1 >= n
      BY <3>1, <3>3
    <3>8. Made("task", p, d) # {} => n + 1 >= TaskTarget
      BY <2>1, <3>3 DEF RewardsConstants
    <3> HIDE DEF n
    <3> QED BY <2>1, <3>3, <3>4, <3>5, <3>6, <3>7, <3>8
  <2>3. CASE x.kind = "task" /\ p = x.who /\ d = x.day
    <3>1. n >= TaskTarget
      BY <1>1, <2>3 DEF Granted
    <3> QED BY <1>7, <1>8, <2>1, <2>3, <3>1
  <2>4. CASE ~(p = x.who /\ d = x.day) \/ x.kind \notin {"watch", "task"}
    BY <1>7, <1>8, <2>1, <2>4
  <2> QED BY <2>2, <2>3, <2>4
<1>11. ASSUME NEW y \in GrantRecord, Truthful(y) PROVE Truthful(y)'
  <2>1. SUFFICES ASSUME y.kind = "checkin", ~y.hurried
                 PROVE  /\ y.streak = StreakDay(y.who, y.day)' /\ y.day <= today'
                        /\ \A b \in Claimers : Busy(b)' => claiming'[b].day >= y.day
    BY <1>11 DEF Truthful, OnLadder, OfReferral, OfItsKind
  <2>2. /\ y.streak = StreakDay(y.who, y.day) /\ y.day <= today
        /\ \A b \in Claimers : Busy(b) => claiming[b].day >= y.day
    BY <1>11, <2>1 DEF Truthful, OnLadder
  <2>3. x.kind = "checkin" => x.day >= y.day
    BY <1>1, <2>2 DEF Granted, Busy, Pending
  <2>4. x.day \in Nat /\ y.day \in Nat
    BY <1>1 DEF GrantRecord
  <2>5. Made("checkin", y.who, y.day - 1)' = Made("checkin", y.who, y.day - 1)
    BY <1>7, <2>3, <2>4
  <2>6. StreakDay(y.who, y.day)' = StreakDay(y.who, y.day)
    BY <2>5 DEF StreakDay
  <2> QED BY <1>3, <2>2, <2>6
<1>12. \A y \in claims' : Truthful(y)'
  BY <1>1, <1>11 DEF RewardsInv, RewardsShaped
<1>13. ASSUME NEW b \in Claimers, Pending(b)' PROVE Granted(b)'
  <2>1. b # c /\ claiming'[b] = claiming[b] /\ Granted(b) /\ claiming[b].claim \in GrantRecord
    BY <1>4, <1>13 DEF RewardsInv, RewardsShaped
  <2>2. PICK y \in GrantRecord : y = claiming[b].claim
    BY <2>1
  <2>3. Truthful(y)' /\ y.who \in People /\ y.day \in Nat /\ y.slot \in Nat
    BY <1>11, <2>1, <2>2 DEF Granted, GrantRecord
  <2>4. Truthful(claiming[b].claim)'
    BY <2>1, <2>2, <2>3 DEF Truthful, OfItsKind, OnLadder, OfReferral
  <2>5. /\ y.kind = "watch" => y.slot \in 1..(Earned(y.who, y.day) + 1) /\ y.slot <= WatchCap
        /\ y.kind = "task" => Earned(y.who, y.day) >= TaskTarget
        /\ y.kind = "checkin" => y.day = claiming[b].day
    BY <2>1, <2>2 DEF Granted
  <2>6. /\ Earned(y.who, y.day) \in Nat /\ Earned(y.who, y.day)' \in Nat
        /\ Earned(y.who, y.day)' >= Earned(y.who, y.day)
    BY <1>8
  <2>7. y.kind = "watch" => y.slot \in 1..(Earned(y.who, y.day)' + 1)
    BY <2>3, <2>5, <2>6
  <2>8. y.kind = "task" => Earned(y.who, y.day)' >= TaskTarget
    BY <2>5, <2>6 DEF RewardsConstants
  <2> QED BY <2>1, <2>2, <2>4, <2>5, <2>7, <2>8 DEF Granted
<1>14. AloneAtDecision'
  BY <1>4 DEF RewardsInv, AloneAtDecision, Pending
<1>15. FirstOfPhone'
  <2> SUFFICES ASSUME NEW b \in Claimers, Pending(b)', NEW y \in claims',
                      SamePhone(claiming'[b].claim, y)
               PROVE  FALSE
    BY DEF FirstOfPhone, SamePhone
  <2>1. b # c /\ claiming'[b] = claiming[b] /\ Pending(b)
    BY <1>4
  <2>2. CASE y \in claims
    BY <2>1, <2>2 DEF RewardsInv, FirstOfPhone
  <2>3. CASE y = x
    BY <2>1, <2>3 DEF RewardsInv, AloneAtDecision, SamePhone
  <2> QED BY <2>2, <2>3
<1>16. OneWelcomePerPhone'
  <2>1. \A y \in claims : ~SamePhone(x, y)
    BY DEF RewardsInv, FirstOfPhone
  <2> QED BY <2>1 DEF RewardsInv, OneWelcomePerPhone, SamePhone
<1>17. PaidIsMarked'
  <2>1. x.who \in People
    BY <1>1 DEF GrantRecord
  <2> QED BY <2>1 DEF RewardsInv, PaidIsMarked
<1> QED BY <1>5, <1>6, <1>10, <1>12, <1>13, <1>14, <1>15, <1>16, <1>17 DEF RewardsInv

-----------------------------------------------------------------------------
LEMMA RewardsInvKept ==
  ASSUME RewardsConstants, RewardsInv, [RewardsNext]_rewardVars
  PROVE  RewardsInv'
<1> DEFINE Stage == [at : {"idle", "asked", "granting"}, day : Nat, claim : GrantRecord]
<1>1. /\ claiming \in [Claimers -> Stage] /\ today \in Nat
      /\ referrals \in [People -> People \cup {NoReferrer}]
  BY DEF RewardsInv, RewardsShaped
<1>2. \A c \in Claimers : NotAsked(c) \in Stage /\ NotAsked(c).at = "idle"
  BY DEF NotAsked, NoClaim, GrantRecord, RewardsConstants
<1>3. ASSUME NEW c \in Claimers, Finish(c), UNCHANGED <<today, claims, referrals, rewarded>>
      PROVE  RewardsInv'
  <2>1. claiming' \in [Claimers -> Stage]
    BY <1>1, <1>2, <1>3 DEF Finish
  <2>2. \A b \in Claimers : Busy(b)' => Busy(b) /\ claiming'[b] = claiming[b]
    BY <1>1, <1>2, <1>3 DEF Finish, Busy
  <2>3. \A b \in Claimers : Pending(b)' => claiming'[b] = claiming[b]
    BY <2>2 DEF Busy, Pending
  <2> QED BY <1>1, <1>3, <2>1, <2>2, <2>3, NothingGranted
<1>4. ASSUME NEW c \in Claimers, Ask(c) PROVE RewardsInv'
  <2>1. claiming'[c] = [claiming[c] EXCEPT !.at = "asked", !.day = today]
    BY <1>1, <1>4 DEF Ask
  <2>2. claiming'[c] \in Stage /\ claiming'[c].at = "asked" /\ claiming'[c].day = today
    <3>1. PICK s \in Stage : s = claiming[c]
      BY <1>1
    <3>2. PICK r \in [at : {"asked"}, day : {today}, claim : GrantRecord] :
            r = [s EXCEPT !.at = "asked", !.day = today]
      OBVIOUS
    <3> QED BY <1>1, <2>1, <3>1, <3>2
  <2>3. \A b \in Claimers \ {c} : claiming'[b] = claiming[b]
    BY <1>1, <1>4 DEF Ask
  <2>4. claiming' \in [Claimers -> Stage]
    BY <1>1, <1>4, <2>2, <2>3 DEF Ask
  <2>5. \A b \in Claimers : Pending(b)' => claiming'[b] = claiming[b]
    BY <2>2, <2>3 DEF Pending
  <2>6. \A b \in Claimers : Busy(b)' =>
            claiming'[b].day = today \/ (Busy(b) /\ claiming'[b].day = claiming[b].day)
    BY <2>2, <2>3 DEF Busy
  <2>7. today <= today' /\ UNCHANGED <<today, claims, referrals, rewarded>>
    BY <1>1, <1>4 DEF Ask
  <2> QED BY <1>1, <2>4, <2>5, <2>6, <2>7, NothingGranted
<1>5. ASSUME NEW c \in Claimers, DecideClaim(c) PROVE RewardsInv'
  <2>1. CASE Allowed(c)
    <3>1. PICK z : z = [Intended(c) EXCEPT !.hurried = Crowded(c)]
      OBVIOUS
    <3>2. PICK d : d = claiming[c].day
      OBVIOUS
    <3>3. IsDecided(z, c, d)
      BY <2>1, <3>1, <3>2, DecidedIs DEF RewardsInv
    <3>4. claiming' = [claiming EXCEPT ![c] = [@ EXCEPT !.at = "granting", !.claim = z]]
      BY <1>5, <2>1, <3>1 DEF DecideClaim
    <3> QED BY <1>5, <2>1, <3>2, <3>3, <3>4, DecidedKeeps DEF DecideClaim
  <2>2. CASE ~Allowed(c)
    BY <1>3, <1>5, <2>2 DEF DecideClaim, Finish
  <2> QED BY <2>1, <2>2
<1>6. ASSUME NEW c \in Claimers, Grant(c) PROVE RewardsInv'
  <2>1. PICK x : x = claiming[c].claim
    OBVIOUS
  <2>2. CASE \E y \in claims : Key(y) = Key(x)
    BY <1>3, <1>6, <2>1, <2>2 DEF Grant
  <2>3. CASE ~\E y \in claims : Key(y) = Key(x)
    BY <1>6, <2>1, <2>3, GrantedKeeps DEF Grant, Pending
  <2> QED BY <2>2, <2>3
<1>7. ASSUME NEW c \in Claimers, Attach(c) PROVE RewardsInv'
  <2>1. claiming' \in [Claimers -> Stage]
    BY <1>1, <1>2, <1>7 DEF Attach, Finish
  <2>2. \A b \in Claimers : Busy(b)' => Busy(b) /\ claiming'[b] = claiming[b]
    BY <1>1, <1>2, <1>7 DEF Attach, Finish, Busy
  <2>3. \A b \in Claimers : Pending(b)' => claiming'[b] = claiming[b]
    BY <2>2 DEF Busy, Pending
  <2>4. Wants[c].who \in People /\ Wants[c].code \in People
    BY DEF RewardsConstants
  <2>5. referrals' \in [People -> People \cup {NoReferrer}]
    BY <1>1, <1>7, <2>4 DEF Attach, Attached
  <2>6. \A f \in People : referrals[f] # NoReferrer => referrals'[f] = referrals[f]
    BY <1>1, <1>7, <2>4 DEF Attach, Attached
  <2>7. UNCHANGED <<today, claims, rewarded>>
    BY <1>7 DEF Attach
  <2> QED BY <1>1, <2>1, <2>2, <2>3, <2>5, <2>6, <2>7, NothingGranted
<1>8. ASSUME NEW c \in Claimers, LoseClaim(c) PROVE RewardsInv'
  BY <1>3, <1>8 DEF LoseClaim
<1>9. CASE (\E p \in People : BanPerson(p)) \/ NextDay \/ UNCHANGED rewardVars
  <2>1. UNCHANGED <<claims, referrals, rewarded, claiming>> /\ today' \in Nat /\ today <= today'
    BY <1>1, <1>9 DEF BanPerson, NextDay, rewardVars
  <2>2. \A b \in Claimers : Busy(b)' => Busy(b)
    BY <2>1 DEF Busy
  <2> QED BY <1>1, <2>1, <2>2, NothingGranted
<1> QED BY <1>4, <1>5, <1>6, <1>7, <1>8, <1>9 DEF RewardsNext

\* A decided claim has its type: what was allowed fits the cap and the ladder.
LEMMA DecidedFits ==
  ASSUME RewardsConstants, RewardsInv, RewardsTypeOK, NEW c \in Claimers, Allowed(c), NEW z,
         IsDecided(z, c, claiming[c].day)
  PROVE  z \in Claim
<1> DEFINE d == claiming[c].day
<1>1. /\ z \in GrantRecord /\ z.kind = Wants[c].kind /\ z.who = Wants[c].who /\ z.kind \in ClaimKinds
      /\ d \in 0..Final /\ Final \in Nat
  BY DEF IsDecided, RewardsTypeOK, RewardsConstants, Final, GrantRecord
<1>2. z.day \in 0..Final
  BY <1>1 DEF IsDecided, ClaimKinds
<1>3. z.slot \in 0..WatchCap
  <2>1. CASE z.kind = "watch"
    <3>1. WatchAllowed(z.who, d)
      BY <1>1, <2>1 DEF Allowed
    <3>2. IsFiniteSet(Made("watch", z.who, d))
      BY FS_Subset DEF Made, RewardsInv, RewardsShaped
    <3>3. Earned(z.who, d) \in Nat /\ Earned(z.who, d) < WatchCap /\ WatchCap \in Nat
      BY <3>1, <3>2, FS_CardinalityType DEF WatchAllowed, Earned, RewardsConstants
    <3>4. z.slot = Earned(z.who, d) + 1
      BY <2>1 DEF IsDecided, WatchSlot
    <3> QED BY <3>3, <3>4
  <2>2. CASE z.kind # "watch"
    BY <1>1, <2>2 DEF IsDecided, ClaimKinds, RewardsConstants
  <2> QED BY <2>1, <2>2
<1>4. z.streak \in 0..Ladder
  <2>1. Ladder \in Nat \ {0}
    BY DEF RewardsConstants
  <2>2. CASE z.kind = "checkin"
    <3> DEFINE before == Made("checkin", z.who, d - 1)
    <3>1. z.streak = StreakDay(z.who, d)
      BY <2>2 DEF IsDecided
    <3>2. CASE \E y \in before : TRUE
      <4>1. PICK y \in before : y = CHOOSE x \in before : TRUE
        BY <3>2
      <4>2. y.streak \in Nat
        BY <4>1 DEF Made, RewardsInv, RewardsShaped, GrantRecord
      <4>3. (y.streak % Ladder) + 1 \in 0..Ladder
        BY <2>1, <4>2
      <4> QED BY <3>1, <3>2, <4>1, <4>3 DEF StreakDay
    <3>3. CASE ~\E y \in before : TRUE
      BY <2>1, <3>1, <3>3 DEF StreakDay
    <3> QED BY <3>2, <3>3
  <2>3. CASE z.kind # "checkin"
    BY <2>1, <2>3 DEF IsDecided
  <2> QED BY <2>2, <2>3
<1> QED BY <1>1, <1>2, <1>3, <1>4 DEF GrantRecord, Claim

LEMMA RewardsTypes ==
  ASSUME RewardsConstants, RewardsInv, RewardsInv', RewardsTypeOK, [RewardsNext]_rewardVars
  PROVE  RewardsTypeOK'
<1> DEFINE Stage == [at : {"idle", "asked", "granting"}, day : 0..Final, claim : Claim]
<1>1. /\ scene' = scene /\ Final' = Final /\ Claim' = Claim /\ Final \in Nat
      /\ claiming \in [Claimers -> Stage] /\ today \in 0..Final
  BY DEF RewardsTypeOK, RewardsNext, Ask, DecideClaim, Grant, Attach, LoseClaim, NextDay, BanPerson,
         rewardVars, Final, Claim, RewardsConstants
<1>2. \A c \in Claimers : NotAsked(c) \in Stage
  BY <1>1 DEF NotAsked, NoClaim, Claim, RewardsConstants
<1>3. referrals' \in [People -> People \cup {NoReferrer}] /\ rewarded' \subseteq People
  BY DEF RewardsInv, RewardsShaped
<1>4. today' \in 0..Final
  <2>1. CASE NextDay
    BY <1>1, <2>1 DEF NextDay, Final
  <2>2. CASE today' = today
    BY <1>1, <2>2
  <2> QED BY <2>1, <2>2 DEF RewardsNext, Ask, DecideClaim, Grant, Attach, LoseClaim, BanPerson, rewardVars
<1>5. banned' \subseteq Bannable
  BY DEF RewardsTypeOK, RewardsNext, Ask, DecideClaim, Grant, Attach, LoseClaim, NextDay, BanPerson,
         rewardVars
<1>6. claims' \subseteq Claim
  <2>1. ASSUME NEW c \in Claimers, Grant(c) PROVE claims' \subseteq Claim
    <3>1. claiming[c].claim \in Claim
      BY <1>1
    <3> QED BY <2>1, <3>1 DEF Grant, RewardsTypeOK
  <2>2. CASE claims' = claims
    BY <2>2 DEF RewardsTypeOK
  <2> QED BY <2>1, <2>2 DEF RewardsNext, Ask, DecideClaim, Attach, LoseClaim, BanPerson, NextDay, rewardVars
<1>7. claiming' \in [Claimers -> Stage]
  <2>1. ASSUME NEW c \in Claimers, Ask(c) PROVE claiming' \in [Claimers -> Stage]
    BY <1>1, <2>1 DEF Ask
  <2>2. ASSUME NEW c \in Claimers, DecideClaim(c) PROVE claiming' \in [Claimers -> Stage]
    <3>1. CASE Allowed(c)
      <4>1. PICK z : z = [Intended(c) EXCEPT !.hurried = Crowded(c)]
        OBVIOUS
      <4>2. z \in Claim
        BY <3>1, <4>1, DecidedIs, DecidedFits DEF RewardsInv
      <4>3. claiming' = [claiming EXCEPT ![c] = [@ EXCEPT !.at = "granting", !.claim = z]]
        BY <2>2, <3>1, <4>1 DEF DecideClaim
      <4> HIDE DEF Stage
      <4>4. [claiming[c] EXCEPT !.at = "granting", !.claim = z] \in Stage
        BY <1>1, <4>2 DEF Stage
      <4> QED BY <1>1, <4>3, <4>4
    <3>2. CASE ~Allowed(c)
      BY <1>1, <1>2, <2>2, <3>2 DEF DecideClaim
    <3> QED BY <3>1, <3>2
  <2>3. ASSUME NEW c \in Claimers, Finish(c) PROVE claiming' \in [Claimers -> Stage]
    BY <1>1, <1>2, <2>3 DEF Finish
  <2>4. CASE claiming' = claiming
    BY <1>1, <2>4
  <2> QED
    BY <2>1, <2>2, <2>3, <2>4 DEF RewardsNext, Grant, Attach, LoseClaim, BanPerson, NextDay, rewardVars
<1> QED BY <1>1, <1>3, <1>4, <1>5, <1>6, <1>7 DEF RewardsTypeOK

\* What was claimed, decided and posted by any calls: slots without gaps and
\* under the cap, ladders, welcomes and referrals (RewardsHold).
LEMMA RewardsInvSuffices ==
  ASSUME RewardsConstants, RewardsInv, RewardsTypeOK
  PROVE  RewardsHold
<1>1. WatchIsCapped
  <2> SUFFICES ASSUME NEW x \in claims
               PROVE  LET seen == Made("watch", x.who, x.day)
                      IN  /\ {y.slot : y \in seen} = 1..Cardinality(seen)
                          /\ Cardinality(seen) <= WatchCap
                          /\ x.kind = "task" => Cardinality(seen) >= TaskTarget
    BY DEF WatchIsCapped
  <2>1. x.who \in People /\ x.day \in Nat
    BY DEF RewardsInv, RewardsShaped, GrantRecord
  <2>2. x.kind = "task" => x \in Made("task", x.who, x.day)
    BY DEF Made
  <2> QED BY <2>1, <2>2 DEF RewardsInv, SlotsInRow, Earned
<1>2. LadderFollowsClaims
  <2> SUFFICES ASSUME NEW x \in claims, x.kind = "checkin", ~x.hurried
               PROVE  LET before == {y \in Made("checkin", x.who, x.day - 1) : ~y.hurried}
                      IN  /\ Cardinality(Made("checkin", x.who, x.day)) = 1
                          /\ before # {} => \E y \in before : x.streak = (y.streak % Ladder) + 1
                          /\ (x.day = 0 \/ Made("checkin", x.who, x.day - 1) = {}) => x.streak = 1
    BY DEF LadderFollowsClaims
  <2> DEFINE yesterday == Made("checkin", x.who, x.day - 1)
  <2>1. x.streak = StreakDay(x.who, x.day) /\ x \in GrantRecord
    BY DEF RewardsInv, RewardsShaped, Truthful, OnLadder
  <2>2. \A k, d : \A y, z \in Made(k, x.who, d) : k = "checkin" => y = z
    BY DEF Made, RewardsInv, KeysOnce, Key, Truthful, OfItsKind
  <2>3. Made("checkin", x.who, x.day) = {x}
    <3>1. x \in Made("checkin", x.who, x.day)
      BY DEF Made
    <3> QED BY <2>2, <3>1
  <2>4. Cardinality({x}) = 1
    BY FS_Singleton
  <2>5. \A y \in yesterday : x.streak = (y.streak % Ladder) + 1
    <3> SUFFICES ASSUME NEW y \in yesterday PROVE x.streak = (y.streak % Ladder) + 1
      OBVIOUS
    <3>1. (CHOOSE z \in yesterday : TRUE) = y
      BY <2>2
    <3> QED BY <2>1, <3>1 DEF StreakDay
  <2>6. yesterday = {} => x.streak = 1
    BY <2>1 DEF StreakDay
  <2>7. x.day = 0 => yesterday = {}
    BY DEF Made, RewardsInv, RewardsShaped, GrantRecord
  <2> QED BY <2>3, <2>4, <2>5, <2>6, <2>7
<1>3. ReferrerPaidOnce
  <2> SUFFICES ASSUME NEW f \in People
               PROVE  LET paid == {x \in claims : x.kind = "referral" /\ x.who = f}
                      IN  /\ Cardinality(paid) <= 1 /\ (paid # {} <=> f \in rewarded)
                          /\ \A x \in paid : x.payee = referrals[f]
    BY DEF ReferrerPaidOnce
  <2> DEFINE paid == {x \in claims : x.kind = "referral" /\ x.who = f}
  <2>1. \A x, y \in paid : x = y
    BY DEF RewardsInv, KeysOnce, Key, Truthful, OfItsKind
  <2>2. paid = {} \/ \E x : paid = {x}
    BY <2>1
  <2>3. Cardinality(paid) <= 1
    <3>1. Cardinality({}) = 0 /\ \A x : Cardinality({x}) = 1
      BY FS_EmptySet, FS_Singleton
    <3>2. CASE paid = {}
      BY <3>1, <3>2
    <3>3. CASE \E x : paid = {x}
      <4>1. PICK x : paid = {x}
        BY <3>3
      <4>2. Cardinality({x}) = 1
        BY <3>1
      <4>3. Cardinality(paid) = 1
        BY <4>1, <4>2
      <4> QED BY <4>3
    <3> QED BY <2>2, <3>2, <3>3
  <2>4. paid # {} <=> f \in rewarded
    BY DEF RewardsInv, PaidIsMarked
  <2>5. \A x \in paid : x.payee = referrals[f]
    BY DEF RewardsInv, Truthful, OfReferral
  <2> QED BY <2>3, <2>4, <2>5
<1> QED BY <1>1, <1>2, <1>3 DEF RewardsHold, RewardsInv

\* Free coins, for any accounts, phones, codes, days, caps and any overlap of
\* calls: the types hold, a day's watch claims are the slots from the first on and
\* within the cap, the ladder follows the claims, a phone is welcomed once and a
\* referrer paid once, by the code that was used first (rewards.service.ts,
\* tasks.service.ts).
THEOREM RewardsAlwaysHold == ASSUME RewardsConstants PROVE RewardsSpec => []RewardsHold
<1>1. RewardsInit => RewardsInv
  BY RewardsInvStarts
<1>2. RewardsInit => RewardsTypeOK
  <2> SUFFICES ASSUME RewardsInit PROVE RewardsTypeOK
    OBVIOUS
  <2>1. Final \in Nat
    BY DEF RewardsInit, RewardsConstants, Final
  <2>2. \A c \in Claimers : NotAsked(c) \in [at : {"idle", "asked", "granting"}, day : 0..Final, claim : Claim]
    BY <2>1 DEF NotAsked, NoClaim, Claim, RewardsConstants
  <2> QED BY <2>1, <2>2 DEF RewardsInit, RewardsTypeOK
<1>3. RewardsInv /\ [RewardsNext]_rewardVars => RewardsInv'
  BY RewardsInvKept
<1>4. RewardsTypeOK /\ RewardsInv /\ [RewardsNext]_rewardVars => RewardsTypeOK'
  BY <1>3, RewardsTypes
<1>5. RewardsTypeOK /\ RewardsInv => RewardsHold
  BY RewardsInvSuffices
<1> QED BY <1>1, <1>2, <1>3, <1>4, <1>5, PTL DEF RewardsSpec

-----------------------------------------------------------------------------
(* Wardrobe                                                                *)

Rows == OwnedRow \cup {Nothing}

\* A person's rows flag one item of a kind.
OneFlagged ==
    \A i, j \in Items : owned[i].on /\ owned[j].on /\ Kind[i] = Kind[j] => i = j

\* The days run and left of an item are those paid, also of one never owned.
AddsUp(i) ==
    owned[i].until # Never =>
        worn[i] + Left(i) = SumFunctionOnSet([r \in Paying(i) |-> Days[r.item]], Paying(i))

WardrobeInv ==
    /\ WardrobeTypeOK /\ IsFiniteSet(receipts) /\ OneFlagged /\ ChargedOnce
    /\ \A i \in Items : AddsUp(i)

-----------------------------------------------------------------------------
LEMMA Greater ==
  ASSUME NEW a \in Int, NEW b \in Int
  PROVE  Max({a, b}) = IF a >= b THEN a ELSE b
<1> DEFINE m == IF a >= b THEN a ELSE b
<1>1. m \in {a, b} /\ \A y \in {a, b} : m >= y
  OBVIOUS
<1>2. \A x \in {a, b} : (\A y \in {a, b} : x >= y) => x = m
  OBVIOUS
<1> QED BY <1>1, <1>2 DEF Max

LEMMA RowFacts ==
  ASSUME NEW row \in Rows, NEW d \in Nat
  PROVE  /\ row.on \in BOOLEAN /\ row.until \in Until /\ (row.until # Never => row.until \in Nat)
         /\ row \in [until : Until, on : BOOLEAN, source : {"purchase", "level", "vip", "none"}]
         /\ [row EXCEPT !.on = FALSE] \in Rows
         /\ [row EXCEPT !.on = FALSE].until = row.until /\ [row EXCEPT !.on = FALSE].on = FALSE
         /\ row = Nothing => row.until = 0 /\ ~row.on
         /\ (row # Nothing /\ (row.until = Never \/ row.until > d)) <=>
               (row.until = Never \/ row.until > d)
<1>1. CASE row = Nothing
  <2>1. Nothing.on = FALSE /\ Nothing.until = 0 /\ Nothing.source = "none"
    BY DEF Nothing
  <2>2. [Nothing EXCEPT !.on = FALSE] = Nothing
    <3> DEFINE r == [Nothing EXCEPT !.on = FALSE]
               S == [until : {0}, on : {FALSE}, source : {"none"}]
    <3>1. Nothing \in S
      BY DEF Nothing
    <3>2. r \in S
      BY <3>1
    <3> HIDE DEF r
    <3>3. r = [until |-> r.until, on |-> r.on, source |-> r.source]
      BY <3>2
    <3>4. r.until = 0 /\ r.on = FALSE /\ r.source = "none"
      BY <3>1, <3>2
    <3>5. r = [until |-> 0, on |-> FALSE, source |-> "none"]
      BY <3>3, <3>4, Zenon
    <3> QED BY <3>5 DEF Nothing, r
  <2>3. [row EXCEPT !.on = FALSE] = Nothing
    BY <1>1, <2>2
  <2>4. row.on = FALSE /\ row.until = 0
    BY <1>1, <2>1
  <2>5. 0 \in Until /\ 0 # Never /\ ~(0 > d) /\ Nothing \in Rows
    BY DEF Until, Never, Rows
  <2>6. row \in [until : Until, on : BOOLEAN, source : {"purchase", "level", "vip", "none"}]
    BY <1>1, <2>5 DEF Nothing
  <2>7. row.until \in Until /\ row.until # Never /\ row.until \in Nat
    BY <2>4, <2>5
  <2>8. ~(row.until = Never \/ row.until > d)
    BY <2>4, <2>5
  <2>9. /\ [row EXCEPT !.on = FALSE] \in Rows
        /\ [row EXCEPT !.on = FALSE].until = row.until
        /\ [row EXCEPT !.on = FALSE].on = FALSE
    BY <2>1, <2>3, <2>4, <2>5
  <2> QED BY <2>4, <2>6, <2>7, <2>8, <2>9
<1>2. CASE row \in OwnedRow
  <2>1. row.source # "none"
    BY <1>2 DEF OwnedRow
  <2>2. row # Nothing
    BY <2>1 DEF Nothing
  <2>3. /\ row.on \in BOOLEAN /\ row.until \in Until
        /\ row \in [until : Until, on : BOOLEAN, source : {"purchase", "level", "vip", "none"}]
        /\ [row EXCEPT !.on = FALSE] \in OwnedRow
        /\ [row EXCEPT !.on = FALSE].until = row.until
        /\ [row EXCEPT !.on = FALSE].on = FALSE
    BY <1>2 DEF OwnedRow
  <2>4. row.until # Never => row.until \in Nat
    BY <2>3 DEF Until
  <2> QED BY <2>2, <2>3, <2>4 DEF Rows
<1> QED BY <1>1, <1>2 DEF Rows

LEMMA RowIs ==
  ASSUME WardrobeTypeOK, NEW i \in Items
  PROVE  /\ owned[i] \in Rows /\ owned[i].on \in BOOLEAN /\ owned[i].until \in Until
         /\ owned[i] \in [until : Until, on : BOOLEAN,
                          source : {"purchase", "level", "vip", "none"}]
         /\ [owned[i] EXCEPT !.on = FALSE] \in Rows
         /\ [owned[i] EXCEPT !.on = FALSE].until = owned[i].until
         /\ [owned[i] EXCEPT !.on = FALSE].on = FALSE
         /\ days \in Nat /\ worn[i] \in Nat /\ (owned[i].until # Never => owned[i].until \in Nat)
         /\ ~Has(i) => owned[i].until = 0 /\ ~owned[i].on
         /\ Active(i) <=> (owned[i].until = Never \/ owned[i].until > days)
<1>1. owned[i] \in Rows /\ days \in Nat /\ worn[i] \in Nat
  BY DEF WardrobeTypeOK, Rows
<1>2. PICK row \in Rows : row = owned[i]
  BY <1>1
<1> QED BY <1>1, <1>2, RowFacts DEF Has, Active

\* The same of the state after a step.
LEMMA RowsPrimed ==
  ASSUME WardrobeTypeOK', NEW i \in Items
  PROVE  Active(i)' <=> (owned'[i].until = Never \/ owned'[i].until > days')
<1>1. owned'[i] \in Rows /\ days' \in Nat
  BY DEF WardrobeTypeOK, Rows
<1>2. PICK row \in Rows : row = owned'[i]
  BY <1>1
<1> QED BY <1>1, <1>2, RowFacts DEF Has, Active, Never, Nothing

LEMMA LongerIs ==
  ASSUME WardrobeTypeOK, NEW i \in Items, NEW n \in Nat \ {0}
  PROVE  LET u == Longer(owned[i], n)
         IN  /\ u \in Until /\ (owned[i].until = Never <=> u = Never)
             /\ owned[i].until # Never =>
                  u > days /\ Max({u - days, 0}) = Left(i) + n /\ Left(i) \in Nat
             /\ ~Has(i) => u = days + n
<1>1. owned[i].until \in Until /\ days \in Nat /\ (owned[i].until # Never => owned[i].until \in Nat)
      /\ (~Has(i) => owned[i].until = 0)
  BY RowIs
<1>2. CASE owned[i].until = Never
  BY <1>1, <1>2 DEF Longer, Until, Never
<1>3. CASE owned[i].until # Never
  <2>1. PICK t \in Nat : t = owned[i].until
    BY <1>1, <1>3
  <2>2. Max({t, days}) = IF t >= days THEN t ELSE days
    BY <1>1, Greater
  <2>3. Max({t - days, 0}) = IF t - days >= 0 THEN t - days ELSE 0
    BY <1>1, Greater
  <2>4. Longer(owned[i], n) = Max({t, days}) + n
    BY <1>3, <2>1 DEF Longer
  <2>5. PICK u \in Nat : u = Max({t, days}) + n
    BY <1>1, <2>2
  <2>6. Max({u - days, 0}) = IF u - days >= 0 THEN u - days ELSE 0
    BY <1>1, Greater
  <2>7. Left(i) = Max({t - days, 0})
    BY <2>1 DEF Left
  <2>8. u > days /\ Max({u - days, 0}) = Left(i) + n /\ Left(i) \in Nat /\ (t = 0 => u = days + n)
    BY <1>1, <2>2, <2>3, <2>5, <2>6, <2>7
  <2> QED BY <1>1, <1>3, <2>1, <2>4, <2>5, <2>8 DEF Until, Never
<1> QED BY <1>2, <1>3

\* The rows after a purchase of i.
LEMMA BoughtRows ==
  ASSUME WardrobeConstants, WardrobeTypeOK, NEW i \in Items
  PROVE  LET R == WithBundle(Bought(i), i)
         IN  /\ i \notin Bundle[i] /\ Bundle[i] \subseteq Items
             /\ \A j \in Bundle[i] : Kind[j] # Kind[i]
             /\ DOMAIN R = Items
             /\ R[i] = [until |-> Longer(owned[i], Days[i]), on |-> TRUE,
                        source |-> IF Has(i) THEN owned[i].source ELSE "purchase"]
             /\ \A j \in Bundle[i] : R[j] = BundleRow(j, i)
             /\ \A j \in Items : j # i /\ j \notin Bundle[i] =>
                    R[j] = IF Kind[j] = Kind[i] THEN [owned[j] EXCEPT !.on = FALSE] ELSE owned[j]
<1>1. Bundle[i] \subseteq Items \ Tiers /\ (Bundle[i] # {} => i \in Tiers)
  BY DEF WardrobeConstants
<1>2. \A j \in Bundle[i] : Kind[j] # Kind[i]
  BY <1>1 DEF Tiers
<1>3. i \notin Bundle[i]
  BY <1>2
<1>4. /\ DOMAIN Alone(owned, i) = Items
      /\ \A j \in Items : j # i =>
            Alone(owned, i)[j] = IF Kind[j] = Kind[i] THEN [owned[j] EXCEPT !.on = FALSE] ELSE owned[j]
  BY DEF Alone
<1>5. /\ Bought(i)[i] = [until |-> Longer(owned[i], Days[i]), on |-> TRUE,
                         source |-> IF Has(i) THEN owned[i].source ELSE "purchase"]
      /\ \A j \in Items : j # i => Bought(i)[j] = Alone(owned, i)[j]
  BY <1>4 DEF Bought
<1> QED BY <1>1, <1>2, <1>3, <1>4, <1>5 DEF WithBundle

-----------------------------------------------------------------------------
\* What each step has to show.
Good == WardrobeInv' /\ KeptForGood /\ ChosenStays

LEMMA SumKeeps ==
  ASSUME UNCHANGED receipts, NEW i \in Items
  PROVE  SumFunctionOnSet([r \in Paying(i) |-> Days[r.item]], Paying(i))' =
         SumFunctionOnSet([r \in Paying(i) |-> Days[r.item]], Paying(i))
<1>1. Paying(i)' = Paying(i)
  BY DEF Paying
<1> QED BY <1>1

\* Only flags of one kind change, on a request for that kind.
LEMMA Restyled ==
  ASSUME WardrobeConstants, WardrobeInv, UNCHANGED <<receipts, days, worn>>, WardrobeTypeOK',
         OneFlagged', \A i \in Items : owned'[i].until = owned[i].until,
         NEW k, \A i \in Items : Kind[i] # k => owned'[i] = owned[i],
         owned' = owned \/ Asked(k)
  PROVE  Good
<1>1. \A i \in Items : AddsUp(i)'
  <2> SUFFICES ASSUME NEW i \in Items PROVE AddsUp(i)'
    OBVIOUS
  <2>1. Left(i)' = Left(i)
    BY DEF Left
  <2>2. AddsUp(i)
    BY DEF WardrobeInv
  <2> QED BY <2>1, <2>2, SumKeeps DEF AddsUp, Never
<1>2. KeptForGood
  BY DEF KeptForGood
<1>3. ChosenStays
  <2> SUFFICES ASSUME NEW m \in ItemKinds, ~Asked(m) PROVE Seen(m)' = Seen(m)
    BY DEF ChosenStays
  <2>1. \A i \in Items : Kind[i] = m => owned'[i] = owned[i]
    <3>1. CASE m = k
      BY <3>1
    <3>2. CASE m # k
      BY <3>2
    <3> QED BY <3>1, <3>2
  <2> QED BY <2>1 DEF Seen, Active, Has, Never, Nothing
<1> QED BY <1>1, <1>2, <1>3 DEF Good, WardrobeInv, ChargedOnce

LEMMA LevelKeeps ==
  ASSUME WardrobeConstants, WardrobeInv, NEW reached \in SUBSET LevelItems, GrantUnlocks(reached)
  PROVE  Good
<1>1. WardrobeTypeOK /\ OneFlagged
  BY DEF WardrobeInv
<1>2. \A i \in Items :
          IF i \in Earnable(reached)
          THEN /\ owned'[i] \in OwnedRow /\ owned'[i].until = Never /\ owned'[i].on = owned[i].on
          ELSE owned'[i] = owned[i]
  <2> SUFFICES ASSUME NEW i \in Items
               PROVE  IF i \in Earnable(reached)
                      THEN /\ owned'[i] \in OwnedRow /\ owned'[i].until = Never
                           /\ owned'[i].on = owned[i].on
                      ELSE owned'[i] = owned[i]
    OBVIOUS
  <2>1. CASE i \in Earnable(reached)
    <3>1. owned'[i] = [owned[i] EXCEPT !.until = Never, !.source = "level"]
      BY <2>1 DEF GrantUnlocks
    <3>2. owned[i] \in [until : Until, on : BOOLEAN, source : {"purchase", "level", "vip", "none"}]
      BY <1>1, RowIs
    <3>3. Never \in Until
      BY DEF Until
    <3> QED BY <2>1, <3>1, <3>2, <3>3 DEF OwnedRow
  <2>2. CASE i \notin Earnable(reached)
    BY <2>2 DEF GrantUnlocks
  <2> QED BY <2>1, <2>2
<1>3. UNCHANGED <<days, selling, order, receipts, worn>>
  BY DEF GrantUnlocks
<1>4. WardrobeTypeOK'
  <2>1. owned' \in [Items -> OwnedRow \cup {Nothing}]
    <3>1. \A i \in Items : owned'[i] \in OwnedRow \cup {Nothing}
      BY <1>1, <1>2 DEF WardrobeTypeOK
    <3>2. owned' = [i \in Items |-> owned'[i]]
      BY DEF GrantUnlocks
    <3> QED BY <3>1, <3>2
  <2> QED BY <1>1, <1>3, <2>1 DEF WardrobeTypeOK
<1>5. OneFlagged'
  BY <1>1, <1>2 DEF OneFlagged
<1>6. \A i \in Items : AddsUp(i)'
  <2> SUFFICES ASSUME NEW i \in Items, owned'[i].until # Never PROVE AddsUp(i)'
    BY DEF AddsUp, Never
  <2>1. owned'[i] = owned[i] /\ AddsUp(i)
    BY <1>2 DEF WardrobeInv
  <2>2. Left(i)' = Left(i)
    BY <1>3, <2>1 DEF Left
  <2> QED BY <1>3, <2>1, <2>2, SumKeeps DEF AddsUp, Never
<1>7. KeptForGood
  BY <1>2, <1>3 DEF KeptForGood, Never
<1>8. ChosenStays
  <2> SUFFICES ASSUME NEW k \in ItemKinds, NEW s \in Seen(k) PROVE Seen(k)' = Seen(k)
    BY DEF ChosenStays
  <2>1. \A i \in Items : owned[i].on /\ Kind[i] = k => i = s
    BY <1>1 DEF Seen, OneFlagged
  <2>2. s \in Items /\ Kind[s] = k /\ owned[s].on /\ Active(s)
    BY DEF Seen
  <2>3. owned'[s].until = Never \/ owned'[s] = owned[s]
    BY <1>2, <2>2
  <2>4. Active(s)'
    <3>1. owned'[s].until = Never \/ owned'[s].until > days'
      BY <1>1, <1>3, <2>2, <2>3, RowIs DEF Never
    <3>2. Active(s)' <=> (owned'[s].until = Never \/ owned'[s].until > days')
      BY <1>4, <2>2, RowsPrimed
    <3> QED BY <3>1, <3>2 DEF Never
  <2>5. \A i \in Items : owned'[i].on = owned[i].on
    BY <1>2
  <2> QED BY <2>1, <2>2, <2>4, <2>5 DEF Seen
<1> QED BY <1>3, <1>4, <1>5, <1>6, <1>7, <1>8 DEF Good, WardrobeInv, ChargedOnce

\* A purchase of i is posted.
LEMMA BoughtKeeps ==
  ASSUME WardrobeConstants, WardrobeInv, NEW c \in Orders, order[c] = "post", Turn(c, "over"),
         NEW i, i = Wish[c].item, ~Paid(c), HasExpiry(i), ~Clashes(i),
         owned' = WithBundle(Bought(i), i), NEW rec,
         rec = [key |-> Wish[c].key, item |-> i, until |-> owned'[i].until],
         receipts' = receipts \cup {rec}, UNCHANGED <<days, selling, worn>>
  PROVE  Good
<1>1. /\ WardrobeTypeOK /\ OneFlagged /\ i \in Items /\ Days[i] \in Nat \ {0}
      /\ owned[i].until # Never /\ Bundle[i] \subseteq Items
  BY DEF WardrobeInv, WardrobeConstants, HasExpiry
<1>2. /\ i \notin Bundle[i] /\ \A j \in Bundle[i] : Kind[j] # Kind[i]
      /\ DOMAIN owned' = Items
      /\ owned'[i] = [until |-> Longer(owned[i], Days[i]), on |-> TRUE,
                      source |-> IF Has(i) THEN owned[i].source ELSE "purchase"]
      /\ \A j \in Bundle[i] : owned'[j] = BundleRow(j, i)
      /\ \A j \in Items : j # i /\ j \notin Bundle[i] =>
             owned'[j] = IF Kind[j] = Kind[i] THEN [owned[j] EXCEPT !.on = FALSE] ELSE owned[j]
  BY <1>1, BoughtRows
<1>3. /\ owned'[i] \in OwnedRow /\ owned'[i].until = Longer(owned[i], Days[i]) /\ owned'[i].on
  <2>1. Longer(owned[i], Days[i]) \in Until
    BY <1>1, LongerIs
  <2>2. Has(i) => owned[i].source \in {"purchase", "level", "vip"}
    BY <1>1 DEF WardrobeTypeOK, OwnedRow, Has
  <2> QED BY <1>2, <2>1, <2>2 DEF OwnedRow
<1>4. ASSUME NEW j \in Bundle[i]
      PROVE  /\ owned'[j] \in OwnedRow /\ owned'[j].until = Longer(owned[j], Days[i])
             /\ owned'[j].on = IF Has(j) THEN owned[j].on ELSE PutOn(j, Kind[j])
  <2>1. j \in Items /\ Longer(owned[j], Days[i]) \in Until
        /\ (~Has(j) => Longer(owned[j], Days[i]) = days + Days[i])
    BY <1>1, LongerIs
  <2>2. owned'[j] = BundleRow(j, i)
    BY <1>2
  <2>3. CASE Has(j)
    <3>1. owned[j] \in OwnedRow
      BY <1>1, <2>1, <2>3 DEF WardrobeTypeOK, Has
    <3>2. owned'[j] = [owned[j] EXCEPT !.until = Longer(owned[j], Days[i])]
      BY <2>2, <2>3 DEF BundleRow
    <3> QED BY <2>1, <2>3, <3>1, <3>2 DEF OwnedRow
  <2>4. CASE ~Has(j)
    <3>1. owned'[j] = [until |-> days + Days[i], on |-> PutOn(j, Kind[j]), source |-> "vip"]
      BY <2>2, <2>4 DEF BundleRow
    <3>2. PutOn(j, Kind[j]) \in BOOLEAN
      BY DEF PutOn
    <3> QED BY <2>1, <2>4, <3>1, <3>2 DEF OwnedRow
  <2> QED BY <2>3, <2>4
<1>5. ASSUME NEW j \in Items, j # i, j \notin Bundle[i]
      PROVE  /\ owned'[j] \in OwnedRow \cup {Nothing} /\ owned'[j].until = owned[j].until
             /\ owned'[j].on = (owned[j].on /\ Kind[j] # Kind[i])
             /\ Kind[j] # Kind[i] => owned'[j] = owned[j]
  <2>1. owned'[j] = IF Kind[j] = Kind[i] THEN [owned[j] EXCEPT !.on = FALSE] ELSE owned[j]
    BY <1>2, <1>5
  <2>2. CASE Kind[j] = Kind[i]
    <3>1. owned'[j] = [owned[j] EXCEPT !.on = FALSE]
      BY <2>1, <2>2
    <3>2. /\ [owned[j] EXCEPT !.on = FALSE] \in Rows
          /\ [owned[j] EXCEPT !.on = FALSE].until = owned[j].until
          /\ [owned[j] EXCEPT !.on = FALSE].on = FALSE
      BY <1>1, RowIs
    <3>3. owned'[j] \in Rows /\ owned'[j].until = owned[j].until /\ owned'[j].on = FALSE
      BY <3>1, <3>2, Zenon
    <3>4. (owned[j].on /\ Kind[j] # Kind[i]) = FALSE
      BY <2>2
    <3> QED BY <2>2, <3>3, <3>4 DEF Rows
  <2>3. CASE Kind[j] # Kind[i]
    <3>1. owned'[j] = owned[j]
      BY <2>1, <2>3
    <3>2. owned[j] \in Rows /\ owned[j].on \in BOOLEAN
      BY <1>1, RowIs
    <3>3. (owned[j].on /\ Kind[j] # Kind[i]) = owned[j].on
      BY <2>3, <3>2
    <3> QED BY <3>1, <3>2, <3>3 DEF Rows
  <2> QED BY <2>2, <2>3
<1>6. WardrobeTypeOK'
  <2>1. \A j \in Items : owned'[j] \in OwnedRow \cup {Nothing}
    BY <1>3, <1>4, <1>5
  <2>2. owned' \in [Items -> OwnedRow \cup {Nothing}]
    <3>1. owned' = [j \in Items |-> owned'[j]]
      BY <1>2 DEF WithBundle
    <3> QED BY <2>1, <3>1
  <2>3. order' \in [Orders -> {"idle", "post", "over"}]
    BY <1>1 DEF WardrobeTypeOK, Turn
  <2>4. rec \in [key : Keys, item : Items, until : Until]
    BY <1>1, <1>3 DEF Keys, OwnedRow
  <2> QED BY <1>1, <2>2, <2>3, <2>4 DEF WardrobeTypeOK
<1>7. OneFlagged'
  <2>1. ASSUME NEW j \in Bundle[i], owned'[j].on, NEW k \in Items, k # j, Kind[k] = Kind[j],
               owned[k].on
        PROVE  FALSE
    <3>1. CASE Has(j)
      BY <1>1, <1>4, <2>1, <3>1 DEF OneFlagged
    <3>2. CASE ~Has(j)
      <4>1. PutOn(j, Kind[j])
        BY <1>4, <2>1, <3>2
      <4>2. Flagged(Kind[j])
        BY <2>1 DEF Flagged
      <4> QED BY <3>2, <4>1, <4>2 DEF Clashes
    <3> QED BY <3>1, <3>2
  <2>2. \A b, d \in Bundle[i] : Kind[b] = Kind[d] => b = d
    BY <1>1 DEF WardrobeConstants
  <2> SUFFICES ASSUME NEW j \in Items, NEW k \in Items, owned'[j].on, owned'[k].on,
                      Kind[j] = Kind[k], j # k
               PROVE  FALSE
    BY DEF OneFlagged
  <2>3. CASE j \in Bundle[i]
    <3>1. k # i
      BY <1>2, <2>3
    <3>2. k \notin Bundle[i]
      BY <2>2, <2>3
    <3>3. owned[k].on
      BY <1>5, <3>1, <3>2
    <3> QED BY <2>1, <2>3, <3>3
  <2>4. CASE k \in Bundle[i]
    <3>1. j # i
      BY <1>2, <2>4
    <3>2. j \notin Bundle[i]
      BY <2>2, <2>4
    <3>3. owned[j].on
      BY <1>5, <3>1, <3>2
    <3> QED BY <2>1, <2>4, <3>3
  <2>5. CASE j \notin Bundle[i] /\ k \notin Bundle[i]
    <3>1. j # i => owned[j].on /\ Kind[j] # Kind[i]
      BY <1>5, <2>5
    <3>2. k # i => owned[k].on /\ Kind[k] # Kind[i]
      BY <1>5, <2>5
    <3>3. owned[j].on /\ owned[k].on
      BY <3>1, <3>2
    <3> QED BY <1>1, <3>3 DEF OneFlagged
  <2> QED BY <2>3, <2>4, <2>5
<1>8. IsFiniteSet(receipts') /\ ChargedOnce'
  <2>1. IsFiniteSet(receipts) /\ ChargedOnce
    BY DEF WardrobeInv
  <2>2. \A r \in receipts : r.key # rec.key
    BY DEF Paid
  <2> QED BY <2>1, <2>2, FS_AddElement DEF ChargedOnce
<1>9. rec \notin receipts /\ rec.item = i
  BY DEF Paid
<1>10. ASSUME NEW j \in Items PROVE AddsUp(j)'
  <2> DEFINE P == Paying(j)
             f == [r \in P |-> Days[r.item]]
             g == [r \in P \cup {rec} |-> Days[r.item]]
  <2>1. AddsUp(j)
    BY DEF WardrobeInv
  <2>2. IsFiniteSet(P) /\ rec \notin P
    BY <1>9, FS_Subset DEF WardrobeInv, Paying
  <2>3. \A r \in P : r.item \in Items /\ Days[r.item] \in Nat
    BY <1>1 DEF Paying, WardrobeTypeOK, WardrobeConstants
  <2>4. CASE j # i /\ j \notin Bundle[i]
    <3>1. Paying(j)' = P
      BY <1>9, <2>4 DEF Paying
    <3>2. Left(j)' = Left(j) /\ owned'[j].until = owned[j].until
      BY <1>5, <2>4 DEF Left
    <3>3. UNCHANGED worn
      OBVIOUS
    <3> QED BY <2>1, <3>1, <3>2, <3>3 DEF AddsUp, Never
  <2>5. CASE j = i \/ j \in Bundle[i]
    <3>1. Paying(j)' = P \cup {rec}
      BY <1>9, <2>5 DEF Paying
    <3>2. owned'[j].until = Longer(owned[j], Days[i])
      BY <1>3, <1>4, <2>5
    <3>3. SUFFICES ASSUME owned'[j].until # Never
                   PROVE  worn'[j] + Left(j)' = SumFunctionOnSet(g, P \cup {rec})
      BY <3>1 DEF AddsUp, Never
    <3>4. owned[j].until # Never /\ Left(j) \in Nat /\ Left(j)' = Left(j) + Days[i]
      BY <1>1, <3>2, <3>3, LongerIs DEF Left
    <3>5. worn[j] + Left(j) = SumFunctionOnSet(f, P)
      BY <2>1, <3>4 DEF AddsUp
    <3>6. SumFunctionOnSet(g, P \cup {rec}) = SumFunctionOnSet(g, P) + Days[i]
      <4>1. \A y \in P \cup {rec} : g[y] \in Int
        BY <1>1, <1>9, <2>3
      <4>2. g[rec] = Days[i]
        BY <1>9
      <4> HIDE DEF g, P
      <4> QED BY <2>2, <4>1, <4>2, SumAdd
    <3>7. SumFunctionOnSet(g, P) = SumFunctionOnSet(f, P)
      <4>1. \A y \in P : g[y] \in Int /\ g[y] = f[y]
        BY <2>3
      <4> HIDE DEF f, g, P
      <4> QED BY <2>2, <4>1, SumSame
    <3>8. worn[j] \in Nat /\ worn'[j] = worn[j]
      BY <1>1 DEF WardrobeTypeOK
    <3> HIDE DEF f, g, P
    <3> QED BY <1>1, <3>4, <3>5, <3>6, <3>7, <3>8
  <2> QED BY <2>4, <2>5
<1>11. KeptForGood
  <2> SUFFICES ASSUME NEW j \in Items, owned[j].until = Never
               PROVE  /\ owned'[j].until = Never
                      /\ \A r \in receipts' \ receipts : r.item # j
    BY DEF KeptForGood
  <2>1. j # i
    BY <1>1
  <2>2. owned'[j].until = Never
    <3>1. CASE j \in Bundle[i]
      <4>1. Longer(owned[j], Days[i]) = Never
        BY <1>1, LongerIs
      <4> QED BY <1>4, <3>1, <4>1
    <3>2. CASE j \notin Bundle[i]
      BY <1>5, <2>1, <3>2
    <3> QED BY <3>1, <3>2
  <2> QED BY <1>9, <2>1, <2>2
<1>12. ChosenStays
  <2>1. Asked(Kind[i])
    <3>1. order'[c] = "over"
      BY <1>1 DEF Turn, WardrobeTypeOK
    <3> QED BY <3>1 DEF Asked
  <2> SUFFICES ASSUME NEW k \in ItemKinds, NEW s \in Seen(k), k # Kind[i]
               PROVE  Seen(k)' = Seen(k)
    BY <2>1 DEF ChosenStays
  <2>2. s \in Items /\ Kind[s] = k /\ owned[s].on /\ Active(s) /\ s # i /\ Has(s)
    BY DEF Seen, Active
  <2>3. \A j \in Items : owned[j].on /\ Kind[j] = k => j = s
    BY <1>1, <2>2 DEF OneFlagged
  <2>4. \A j \in Items : Kind[j] = k => (owned'[j].on <=> j = s)
    <3> SUFFICES ASSUME NEW j \in Items, Kind[j] = k PROVE owned'[j].on <=> j = s
      OBVIOUS
    <3>1. CASE j \in Bundle[i]
      <4>1. ~PutOn(j, k)
        BY <2>2 DEF PutOn
      <4>2. j = s => Has(j)
        BY <2>2
      <4>3. owned'[j].on = IF Has(j) THEN owned[j].on ELSE PutOn(j, k)
        BY <1>4, <3>1
      <4>4. owned[j].on <=> j = s
        BY <2>2, <2>3
      <4> QED BY <4>1, <4>2, <4>3, <4>4
    <3>2. CASE j \notin Bundle[i]
      BY <1>5, <2>2, <2>3, <3>2
    <3> QED BY <3>1, <3>2
  <2>5. Active(s)'
    <3>1. owned'[s].until = Never \/ owned'[s].until > days'
      <4>1. owned[s].until = Never \/ owned[s].until > days
        BY <1>1, <2>2, RowIs
      <4>2. CASE s \in Bundle[i]
        BY <1>1, <1>4, <2>2, <4>2, LongerIs
      <4>3. CASE s \notin Bundle[i]
        BY <1>5, <2>2, <4>1, <4>3
      <4> QED BY <4>2, <4>3
    <3> QED BY <1>6, <2>2, <3>1, RowsPrimed
  <2>6. Seen(k) = {s}
    BY <2>2, <2>3 DEF Seen
  <2>7. Seen(k)' = {s}
    BY <2>2, <2>4, <2>5 DEF Seen
  <2> QED BY <2>6, <2>7
<1> QED BY <1>6, <1>7, <1>8, <1>10, <1>11, <1>12 DEF Good, WardrobeInv

LEMMA DayKeeps ==
  ASSUME WardrobeConstants, WardrobeInv, DayPasses
  PROVE  Good
<1>1. /\ WardrobeTypeOK /\ days' = days + 1 /\ days' \in 0..LastWear
      /\ \A i \in Items : worn'[i] = IF Active(i) THEN worn[i] + 1 ELSE worn[i]
      /\ UNCHANGED <<owned, selling, order, receipts>>
  BY DEF DayPasses, WardrobeInv, WardrobeConstants, WardrobeTypeOK
<1>2. WardrobeTypeOK'
  <2>1. worn' \in [Items -> Nat]
    <3>1. ASSUME NEW i \in Items PROVE worn'[i] \in Nat
      <4>1. worn[i] \in Nat /\ (worn'[i] = worn[i] + 1 \/ worn'[i] = worn[i])
        BY <1>1, RowIs, Zenon
      <4> QED BY <4>1
    <3>2. worn' = [i \in Items |-> worn'[i]]
      BY DEF DayPasses
    <3> QED BY <3>1, <3>2
  <2> QED BY <1>1, <2>1 DEF WardrobeTypeOK
<1>3. OneFlagged' /\ ChargedOnce' /\ IsFiniteSet(receipts')
  BY <1>1 DEF WardrobeInv, OneFlagged, ChargedOnce
<1>4. ASSUME NEW i \in Items PROVE AddsUp(i)'
  <2> SUFFICES ASSUME owned[i].until # Never PROVE AddsUp(i)'
    BY <1>1 DEF AddsUp, Never
  <2>1. /\ owned[i].until \in Nat /\ days \in Nat /\ worn[i] \in Nat
        /\ Active(i) <=> owned[i].until > days
    BY <1>1, RowIs
  <2>2. PICK t \in Nat : t = owned[i].until
    BY <2>1
  <2>3. Left(i) = IF t - days >= 0 THEN t - days ELSE 0
    BY <2>1, <2>2, Greater DEF Left
  <2>4. Left(i)' = IF t - days' >= 0 THEN t - days' ELSE 0
    <3>1. Max({t - days', 0}) = IF t - days' >= 0 THEN t - days' ELSE 0
      BY <1>1, Greater
    <3> QED BY <1>1, <2>2, <3>1 DEF Left
  <2>5. worn'[i] + Left(i)' = worn[i] + Left(i)
    <3>1. CASE Active(i)
      <4>1. worn'[i] = worn[i] + 1 /\ t > days
        BY <1>1, <2>1, <2>2, <3>1
      <4> QED BY <1>1, <2>1, <2>3, <2>4, <4>1
    <3>2. CASE ~Active(i)
      <4>1. worn'[i] = worn[i] /\ ~(t > days)
        BY <1>1, <2>1, <2>2, <3>2
      <4> QED BY <1>1, <2>1, <2>3, <2>4, <4>1
    <3> QED BY <3>1, <3>2
  <2>6. AddsUp(i)
    BY DEF WardrobeInv
  <2> QED BY <1>1, <2>5, <2>6, SumKeeps DEF AddsUp, Never
<1>5. KeptForGood
  BY <1>1 DEF KeptForGood
<1>6. ChosenStays
  <2>1. days' # days
    BY <1>1, RowIs DEF WardrobeTypeOK
  <2> QED BY <2>1 DEF ChosenStays
<1> QED BY <1>2, <1>3, <1>4, <1>5, <1>6 DEF Good, WardrobeInv

\* A step that changes no row.
LEMMA SameRowsKeep ==
  ASSUME WardrobeConstants, WardrobeInv, WardrobeTypeOK',
         UNCHANGED <<owned, days, receipts, worn>>
  PROVE  Good
<1>1. OneFlagged'
  BY DEF WardrobeInv, OneFlagged
<1> QED BY <1>1, Restyled

\* A request to wear an item, or to wear nothing of its kind.
LEMMA StyleKeeps ==
  ASSUME WardrobeConstants, WardrobeInv, NEW c \in Orders, Equip(c) \/ Unequip(c)
  PROVE  Good
<1> DEFINE i == Wish[c].item
<1>1. /\ WardrobeTypeOK /\ OneFlagged /\ i \in Items
      /\ Turn(c, "over") /\ UNCHANGED <<days, selling, receipts, worn>>
  BY DEF WardrobeInv, WardrobeConstants, Equip, Unequip
<1>2. order' \in [Orders -> {"idle", "post", "over"}]
  BY <1>1 DEF Turn, WardrobeTypeOK
<1>3. Asked(Kind[i])
  <2>1. order[c] # order'[c] /\ order'[c] = "over"
    BY <1>1 DEF Equip, Unequip, Turn, WardrobeTypeOK
  <2> QED BY <2>1 DEF Asked
<1>4. CASE owned' = owned
  BY <1>1, <1>2, <1>4, SameRowsKeep DEF WardrobeTypeOK
<1>5. ASSUME NEW b \in BOOLEAN, owned' = [Alone(owned, i) EXCEPT ![i].on = b], b => Has(i)
      PROVE  Good
  <2>1. /\ \A j \in Items : j # i =>
              owned'[j] = IF Kind[j] = Kind[i] THEN [owned[j] EXCEPT !.on = FALSE] ELSE owned[j]
        /\ owned'[i] = [owned[i] EXCEPT !.on = b]
        /\ owned' = [j \in Items |-> owned'[j]]
    BY <1>1, <1>5 DEF Alone
  <2>2. owned'[i] \in Rows /\ owned'[i].until = owned[i].until
    <3>1. CASE b = TRUE
      <4>1. owned[i] \in OwnedRow
        BY <1>1, <1>5, <3>1 DEF WardrobeTypeOK, Has
      <4> QED BY <2>1, <4>1 DEF OwnedRow, Rows
    <3>2. CASE b = FALSE
      <4>1. owned'[i] = [owned[i] EXCEPT !.on = FALSE]
        BY <2>1, <3>2
      <4> QED BY <1>1, <4>1, RowIs, Zenon
    <3> QED BY <3>1, <3>2
  <2>3. ASSUME NEW j \in Items, j # i
        PROVE  /\ owned'[j] \in Rows /\ owned'[j].until = owned[j].until
               /\ Kind[j] = Kind[i] => owned'[j].on = FALSE
               /\ Kind[j] # Kind[i] => owned'[j] = owned[j]
    <3>1. CASE Kind[j] = Kind[i]
      <4>1. owned'[j] = [owned[j] EXCEPT !.on = FALSE]
        BY <2>1, <2>3, <3>1
      <4> QED BY <1>1, <3>1, <4>1, RowIs, Zenon
    <3>2. CASE Kind[j] # Kind[i]
      BY <1>1, <2>1, <2>3, <3>2, RowIs
    <3> QED BY <3>1, <3>2
  <2>4. WardrobeTypeOK'
    <3>1. \A j \in Items : owned'[j] \in Rows
      BY <2>2, <2>3
    <3>2. owned' \in [Items -> OwnedRow \cup {Nothing}]
      BY <2>1, <3>1 DEF Rows
    <3> QED BY <1>1, <1>2, <3>2 DEF WardrobeTypeOK
  <2>5. OneFlagged'
    <3> SUFFICES ASSUME NEW j \in Items, NEW k \in Items, owned'[j].on, owned'[k].on,
                        Kind[j] = Kind[k], j # k
                 PROVE  FALSE
      BY DEF OneFlagged
    <3>1. Kind[j] # Kind[i]
      <4>1. CASE j = i
        BY <2>3, <4>1
      <4>2. CASE j # i
        BY <2>3, <4>2
      <4> QED BY <4>1, <4>2
    <3>2. owned[j].on /\ owned[k].on
      BY <2>3, <3>1
    <3> QED BY <1>1, <3>2 DEF OneFlagged
  <2>6. \A j \in Items : /\ owned'[j].until = owned[j].until
                         /\ Kind[j] # Kind[i] => owned'[j] = owned[j]
    BY <2>2, <2>3
  <2> HIDE DEF i
  <2> QED BY <1>1, <1>3, <2>4, <2>5, <2>6, Restyled
<1>6. CASE Equip(c)
  <2>1. CASE Active(i)
    <3>1. owned' = [Alone(owned, i) EXCEPT ![i].on = TRUE] /\ Has(i)
      BY <1>6, <2>1 DEF Equip, Active
    <3> HIDE DEF i
    <3> QED BY <1>5, <3>1
  <2>2. CASE ~Active(i)
    BY <1>4, <1>6, <2>2 DEF Equip
  <2> QED BY <2>1, <2>2
<1>7. CASE Unequip(c)
  <2>1. owned' = [Alone(owned, i) EXCEPT ![i].on = FALSE]
    BY <1>7 DEF Unequip
  <2> HIDE DEF i
  <2> QED BY <1>5, <2>1
<1> QED BY <1>6, <1>7

LEMMA PostKeeps ==
  ASSUME WardrobeConstants, WardrobeInv, NEW c \in Orders, PostOrder(c)
  PROVE  Good
<1> DEFINE i == Wish[c].item
<1>1. WardrobeTypeOK /\ order[c] = "post" /\ Turn(c, "over") /\ UNCHANGED <<days, selling, worn>>
  BY DEF PostOrder, WardrobeInv
<1>2. CASE ~Paid(c) /\ HasExpiry(i) /\ ~Clashes(i)
  <2>1. /\ owned' = WithBundle(Bought(i), i)
        /\ receipts' = receipts \cup {[key |-> Wish[c].key, item |-> i, until |-> owned'[i].until]}
    BY <1>2 DEF PostOrder
  <2> QED BY <1>1, <1>2, <2>1, BoughtKeeps
<1>3. CASE ~(~Paid(c) /\ HasExpiry(i) /\ ~Clashes(i))
  <2>1. UNCHANGED <<owned, receipts>>
    BY <1>3 DEF PostOrder
  <2>2. WardrobeTypeOK'
    BY <1>1, <2>1 DEF WardrobeTypeOK, Turn
  <2> QED BY <1>1, <2>1, <2>2, SameRowsKeep
<1> QED BY <1>2, <1>3

LEMMA WardrobeStep ==
  ASSUME WardrobeConstants, WardrobeInv, [WardrobeNext]_wardrobeVars
  PROVE  Good
<1>1. ASSUME NEW c \in Orders, CheckOrder(c) \/ Fail(c) PROVE Good
  <2>1. WardrobeTypeOK' /\ UNCHANGED <<owned, days, receipts, worn>>
    BY <1>1 DEF CheckOrder, Fail, Turn, WardrobeInv, WardrobeTypeOK
  <2> QED BY <2>1, SameRowsKeep
<1>2. ASSUME NEW i \in Items, TakeOffSale(i) PROVE Good
  <2>1. WardrobeTypeOK' /\ UNCHANGED <<owned, days, receipts, worn>>
    BY <1>2 DEF TakeOffSale, WardrobeInv, WardrobeTypeOK
  <2> QED BY <2>1, SameRowsKeep
<1>3. CASE UNCHANGED wardrobeVars
  <2>1. WardrobeTypeOK' /\ UNCHANGED <<owned, days, receipts, worn>>
    BY <1>3 DEF wardrobeVars, WardrobeInv, WardrobeTypeOK
  <2> QED BY <2>1, SameRowsKeep
<1> QED BY <1>1, <1>2, <1>3, PostKeeps, StyleKeeps, LevelKeeps, DayKeeps DEF WardrobeNext

LEMMA WardrobeInvStarts ==
  ASSUME WardrobeConstants, WardrobeInit
  PROVE  WardrobeInv
<1>1. /\ owned = [i \in Items |-> Nothing] /\ days = 0 /\ selling = Items /\ receipts = {}
      /\ order = [c \in Orders |-> "idle"] /\ worn = [i \in Items |-> 0]
  BY DEF WardrobeInit
<1>2. Nothing.on = FALSE /\ Nothing.until = 0
  BY DEF Nothing
<1>3. WardrobeTypeOK
  BY <1>1 DEF WardrobeTypeOK, WardrobeConstants
<1>4. OneFlagged
  BY <1>1, <1>2 DEF OneFlagged
<1>5. ASSUME NEW i \in Items PROVE AddsUp(i)
  <2>1. Left(i) = 0
    BY <1>1, <1>2, Greater DEF Left
  <2>2. Paying(i) = {}
    BY <1>1 DEF Paying
  <2>3. SumFunctionOnSet([r \in Paying(i) |-> Days[r.item]], {}) = 0
    BY SumEmpty
  <2> QED BY <1>1, <2>1, <2>2, <2>3 DEF AddsUp
<1> QED BY <1>1, <1>3, <1>4, <1>5, FS_EmptySet DEF WardrobeInv, ChargedOnce

\* Whatever the catalogue, the bundles and the requests, and in whatever order
\* purchases, levels and fittings meet: an item's days, run and left, are the
\* days paid for it, a key is charged once, what is owned for ever stays so and
\* is not sold again, and what is drawn goes by time or on request only.
THEOREM WardrobeAlwaysHolds ==
  ASSUME WardrobeConstants
  PROVE  WardrobeSpec => WardrobeHolds
<1>1. WardrobeInit => WardrobeInv
  BY WardrobeInvStarts
<1>2. WardrobeInv /\ [WardrobeNext]_wardrobeVars => WardrobeInv'
  BY WardrobeStep DEF Good
<1>3. WardrobeInv /\ [WardrobeNext]_wardrobeVars =>
        (wardrobeVars' # wardrobeVars => WardrobeKept)
  <2> SUFFICES ASSUME WardrobeInv, [WardrobeNext]_wardrobeVars PROVE WardrobeKept
    OBVIOUS
  <2>1. WardrobeInv' /\ KeptForGood /\ ChosenStays
    BY WardrobeStep DEF Good
  <2>2. TimeAddsUp'
    BY <2>1 DEF TimeAddsUp, WardrobeInv, AddsUp, Has
  <2> QED BY <2>1, <2>2 DEF WardrobeKept, WardrobeInv
<1>4. WardrobeInv => WardrobeTypeOK
  BY DEF WardrobeInv
<1> QED BY <1>1, <1>2, <1>3, <1>4, PTL DEF WardrobeSpec, WardrobeHolds

=============================================================================
