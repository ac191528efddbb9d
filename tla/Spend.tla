-------------------------------- MODULE Spend ---------------------------------
(***************************************************************************)
(* The brakes a viewer puts on his own spending (moderation/               *)
(* spend.service.ts) and the gifts they hold back (assertMaySpend, called  *)
(* by sendGift before the posting).  One viewer.  A cap stands for the     *)
(* daily and the monthly one, which the code treats alike.                 *)
(*                                                                         *)
(* setSpendControls reads the row, decides, and writes the whole row back; *)
(* assertMaySpend reads the row, then the sum of the gifts; no lock joins  *)
(* the statements.  X_Fault is X with a fault; nothing uses it.            *)
(***************************************************************************)
EXTENDS Integers, FiniteSets, FiniteSetsExt, Functions

CONSTANTS
    Gifters,      \* requests that send a gift
    Cost,         \* [Gifters -> Nat]
    Setters,      \* requests that set the controls at once
    Asks,         \* [cap, pause] a viewer may ask for
    NoCap,        \* above every sum
    Delay, Short, Long,   \* capRaiseDelayHours, 30d and 90d, in ticks
    MaxAsks,      \* bound: requests that set the controls
    MaxNow        \* bound: ticks of the clock

VARIABLES
    row,          \* the spend_controls row, or NoControls
    now,
    gifter,       \* per request: stage, and the cap it read
    setter,       \* per request: stage, what it asks for, the row it read
    paid,         \* gifters whose gift was posted
    asked,        \* how many requests set the controls
    overlapped,      \* ghost: two setters overlapped
    peak,         \* ghost: the highest cap a gift was held against
    most          \* ghost: most gifts between their check and their posting

spendVars == <<row, now, gifter, setter, paid, asked, overlapped, peak, most>>

Caps   == {a.cap : a \in Asks} \cup {NoCap}
Pauses == {"keep", "none", "30d", "90d", "permanent"}
Row    == [cap : Caps, pending : Caps, at : Int, until : Nat, forever : BOOLEAN, there : {TRUE}]

NoControls ==
    [cap |-> NoCap, pending |-> NoCap, at |-> -1, until |-> 0, forever |-> FALSE, there |-> FALSE]

Unused == [at |-> "idle", cap |-> NoCap, pause |-> "keep", read |-> NoControls]

SpendConstants ==
    /\ NoCap \in Nat /\ IsFiniteSet(Gifters) /\ Cost \in [Gifters -> Nat]
    /\ Asks \subseteq [cap : 0..NoCap, pause : Pauses]
    /\ Delay \in Nat \ {0} /\ Short \in Nat \ {0} /\ Long \in Nat /\ MaxNow \in Nat /\ MaxAsks \in Nat

\* NoCap, which stands for a cap that was never set, refuses no gift.
NoCapIsAboveAll == SumFunctionOnSet(Cost, Gifters) <= NoCap

SpendTypeOK ==
    /\ row = NoControls \/ row \in Row
    /\ now \in 0..MaxNow
    /\ gifter \in [Gifters -> [at : {"idle", "sum", "post", "over"}, cap : Caps]]
    /\ \A s \in Setters :
          /\ setter[s].at \in {"idle", "write"} /\ setter[s].cap \in Caps
          /\ setter[s].pause \in Pauses /\ (setter[s].read = NoControls \/ setter[s].read \in Row)
    /\ paid \subseteq Gifters /\ asked \in 0..MaxAsks /\ overlapped \in BOOLEAN /\ peak \in Nat /\ most \in Nat

SpendInit ==
    /\ row = NoControls /\ now = 0
    /\ gifter = [g \in Gifters |-> [at |-> "idle", cap |-> NoCap]]
    /\ setter = [s \in Setters |-> Unused]
    /\ paid = {} /\ asked = 0 /\ overlapped = FALSE /\ peak = 0 /\ most = 0

-----------------------------------------------------------------------------
HasPending(r) == r.at # -1
Due_Fault(r)  == HasPending(r)
Due(r)        == HasPending(r) /\ r.at <= now

\* loadControls: a raise whose time has come is applied; then the row is read.
Loaded   == IF Due(row) THEN [row EXCEPT !.cap = row.pending, !.pending = NoCap, !.at = -1] ELSE row
Paused(r) == r.forever \/ r.until > now
Spent     == SumFunctionOnSet(Cost, paid)
Past      == {g \in Gifters : gifter[g].at = "post"}

Answered == [at |-> "over", cap |-> NoCap]
Move(g, stage) ==
    gifter' = [gifter EXCEPT ![g] = IF stage = "over" THEN Answered ELSE [@ EXCEPT !.at = stage]]

\* assertMaySpend, first half.
CheckGift(g) ==
    /\ gifter[g].at = "idle"
    /\ row' = Loaded
    /\ IF Paused(Loaded) THEN Move(g, "over")
       ELSE gifter' = [gifter EXCEPT ![g] = [at |-> IF Loaded.cap = NoCap THEN "post" ELSE "sum",
                                             cap |-> Loaded.cap]]
    /\ peak' = IF Paused(Loaded) THEN peak ELSE Max({peak, Loaded.cap})
    /\ most' = Max({most, Cardinality({h \in Gifters : gifter'[h].at = "post"})})
    /\ UNCHANGED <<now, setter, paid, asked, overlapped>>

Fits_Fault(g) == Spent <= gifter[g].cap
Fits(g)       == Spent + Cost[g] <= gifter[g].cap

\* Second half: what was spent so far, by the committed gift_sends.
Sum(g) ==
    /\ gifter[g].at = "sum"
    /\ Move(g, IF Fits(g) THEN "post" ELSE "over")
    /\ most' = Max({most, Cardinality({h \in Gifters : gifter'[h].at = "post"})})
    /\ UNCHANGED <<row, now, setter, paid, asked, overlapped, peak>>

\* The posting, whose transaction writes the gift_sends row; or it is refused.
PostGift(g) ==
    /\ gifter[g].at = "post"
    /\ Move(g, "over")
    /\ paid' \in {paid, paid \cup {g}}
    /\ UNCHANGED <<row, now, setter, asked, overlapped, peak, most>>

-----------------------------------------------------------------------------
\* setSpendControls: the read.
BeginSetting(s, cap, pause) ==
    /\ setter[s].at = "idle" /\ asked < MaxAsks /\ asked' = asked + 1
    /\ row' = Loaded
    /\ setter' = [setter EXCEPT ![s] = [at |-> "write", cap |-> cap, pause |-> pause, read |-> Loaded]]
    /\ overlapped' = (overlapped \/ \E z \in Setters : setter[z].at = "write")
    /\ UNCHANGED <<now, gifter, paid, peak, most>>

PauseUntil(r) == IF r.until > now THEN r.until ELSE 0

Proposed(s) == now + (IF setter[s].pause = "30d" THEN Short ELSE Long)

Forbidden_Fault(s) ==
    LET r == setter[s].read IN setter[s].pause = "none" /\ (r.forever \/ PauseUntil(r) > 0)

\* EXCLUSION_ACTIVE: what may not be asked for while a pause runs.
Forbidden(s) ==
    LET r == setter[s].read
        p == setter[s].pause
    IN  \/ r.forever /\ p \in {"none", "30d", "90d"}
        \/ p \in {"30d", "90d"} /\ PauseUntil(r) > 0 /\ Proposed(s) < PauseUntil(r)
        \/ p = "none" /\ PauseUntil(r) > 0

Raises_Fault(s) == FALSE

\* A raise waits; with no row yet there is nothing to protect.
Raises(s) == setter[s].read.there /\ setter[s].cap > setter[s].read.cap

\* The row it writes, every column of it, from what it read.
Decided(s) ==
    LET r == setter[s].read
        p == setter[s].pause
    IN  [cap     |-> IF Raises(s) THEN r.cap ELSE setter[s].cap,
         pending |-> IF Raises(s) THEN setter[s].cap ELSE NoCap,
         at      |-> IF Raises(s) THEN now + Delay ELSE -1,
         until   |-> IF p \in {"30d", "90d"} THEN Proposed(s) ELSE PauseUntil(r),
         forever |-> r.forever \/ p = "permanent",
         there   |-> TRUE]

\* Answered: the slot takes the viewer's next request.
Write(s) ==
    /\ setter[s].at = "write"
    /\ row' = IF Forbidden(s) THEN row ELSE Decided(s)
    /\ setter' = [setter EXCEPT ![s] = Unused]
    /\ UNCHANGED <<now, gifter, paid, asked, overlapped, peak, most>>

Tick ==
    /\ now < MaxNow /\ now' = now + 1
    /\ UNCHANGED <<row, gifter, setter, paid, asked, overlapped, peak, most>>

SpendNext ==
    \/ \E g \in Gifters : CheckGift(g) \/ Sum(g) \/ PostGift(g)
    \/ \E s \in Setters : Write(s) \/ \E a \in Asks : BeginSetting(s, a.cap, a.pause)
    \/ Tick

SpendSpec == SpendInit /\ [][SpendNext]_spendVars

-----------------------------------------------------------------------------
(* Properties                                                              *)

\* A raise "applies after a delay": of what was asked, none applies early.
RaiseWaited == row.there /\ row'.cap > row.cap => row.at # -1 /\ row.at <= now /\ row'.cap = row.pending

\* "An exclusion cannot be shortened or removed while it runs."
PauseKept == (row.forever => row'.forever) /\ (row.until > now => row'.until >= row.until)

\* The row keeps its types, and migration 036's two rules, by any sequence of
\* requests, times and gifts, as long as no two settings overlap: they write back
\* a row the other has changed.
BrakeHeld == ~overlapped => RaiseWaited /\ PauseKept

BrakesHold == []SpendTypeOK /\ [][BrakeHeld]_spendVars

\* The cap may be passed only by gifts that were being checked at the same time,
\* each by its own price, however many are sent one after the other.
OvershootBounded ==
    paid # {} => Spent <= peak + (most - 1) * Max({Cost[g] : g \in Gifters})
===============================================================================
