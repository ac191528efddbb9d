# Dhun, specified

TLA+ specifications of the Dhun backend (`backend/` of the repository: an
Express API, a WebSocket gateway and a worker process over one PostgreSQL, with
a LiveKit media server beside them) and of the parts of the mobile application
its promises depend on, the TLC runs that check them, and TLAPS proofs. Paths
below are relative to `src/backend/src/` unless they begin with `src/`; `mobile:`
stands for `src/mobile/src/`.

Contents: [1 The system](#1-the-system) ·
[2 Modules](#2-modules-and-how-they-correspond-to-the-code) ·
[3 Runs](#3-the-runs) · [4 Fairness](#4-fairness) · [5 Proofs](#5-what-is-proved) ·
[6 Where the code and its documents differ](#6-where-the-code-and-its-documents-differ) ·
[7 Not modelled](#7-what-is-not-modelled-and-why) · [8 Plan](#8-plan) ·
[9 Running it](#9-running-it)

## 1 The system

Dhun is a live-streaming application: hosts open rooms, guests join them, take
mic seats, buy coins and send gifts; a gift pays the host points and may score a
battle between two hosts. All state that matters is in PostgreSQL. The API is
stateless and runs in several processes, so **every request is concurrent with
every other one**, and whatever a request does in two statements outside one
transaction can be interleaved, and cut in two by a crash. PostgreSQL runs at
READ COMMITTED, its default: a statement sees what was committed when it began,
and only row locks and unique indexes keep transactions apart.

| Component | State | Operations | Talks to | Module |
|---|---|---|---|---|
| Ledger (`modules/economy/ledger.service.ts`, `accounts.ts`, migration 002) | `ledger_txns`, `ledger_entries`, `account_balances`, `ledger_accounts`, `ledger_txn_types` | `postTransaction`; flip of a type's `is_active` | called by every flow of money; the retention job purges stored answers | `Ledger`, `LedgerAbs` |
| Flows (`economy/flows.ts`, `rates.ts`) | none | one leg builder per kind of transaction | feeds the ledger | `Flows`, `Economy` |
| Coin purchases (`payments/purchase.service.ts`) | `purchases`, `user_stats` | `creditPurchase` | ledger, outbox | `Purchase` |
| Outbox (`infra/outbox.ts`, `workers/jobs/outboxShipper.ts`, `workers/consumers.ts`) | `outbox`, job locks | `enqueueEvent`, `shipOutboxBatch`, consumers, purge | written inside other components' transactions; consumers push notifications | `Outbox` |
| PK battles (`games/pk.service.ts`, `pk.jobs.ts`, migration 028) | `pk_invites`, `pk_queue`, `pk_battles`, `pk_host_stats` | invite, accept, decline, queue, matching, settlement, forfeit | reads `gift_sends`; rooms that close settle their battles | `Pk` |
| Rooms and seats (`rooms/seats.service.ts`, `live.service.ts`, `realtime/webhooks.service.ts`) | `rooms`, `room_seats`, `room_bans`, `room_sessions` | go live, join, take and leave seats, kick, end | the media server: calls to it, webhooks from it | `Seats` |
| Sessions (`auth/tokens.ts`; mobile: `api/client.ts`, `features/auth/session.ts`) | `refresh_tokens`; the token a device stores | sign in, rotate, sign out, delete, ban | every authenticated request | `Sessions` |
| Gifting (`gifting/gifts.service.ts`; mobile: `lib/intentKeys.ts`, `features/gifting/sendIntent.ts`) | `gift_sends`; the app's retry slot | tap, send, repeat | spend checks, ledger, PK window | `Gifting` |
| Spend controls (`moderation/spend.service.ts`) | `spend_controls` | set, check before a gift | gifting | `Spend` |
| Agency coins (`agency/coins.service.ts`) | `agency_prepays`, `agency_transfers` | record, confirm, reject, transfer under daily caps | ledger | `AgencyCoins` |
| Agency membership (`agency/agency.service.ts`, `agents.service.ts`) | assignments of hosts and agents, requests, invites, quits | request, accept, invite, seat, remove, quit, let go | commission | `Membership` |
| Commission (`agency/commission.service.ts`, `workers/jobs/commission.ts`) | `commission_periods`, `_levels`, `_accruals` | the daily job: seed, open, post, close | membership, ledger | `Commission` |
| Rewards and tasks (`rewards/*.service.ts`) | `reward_claims`, `referrals` | welcome bonus, check-in, watching, tasks, referrals | ledger, gateway | `Rewards` |
| Room gateway (`gateway/`; mobile: `features/room/useRoomSocket.ts`) | sockets, rooms and reward clocks in memory, `room_messages`, `room_mic_requests` | handshake, join, leave, chat, raise and answer hands, tick, heartbeat | seats, rewards | `Gateway` |
| Cosmetics, VIP, level unlocks (`cosmetics/*.service.ts`) | `user_cosmetics`, `cosmetic_purchases` | buy, renew, wear, take off, tiers with bundles, grants by level | ledger | `Wardrobe` |
| Enforcement, appeals, reports, photo checks (`verification/`, `moderation/reports.queue.ts`) | `users.host_suspended_at`, `enforcement_actions`, `appeals`, `reports`, `host_verifications` | suspend, lift, end a room, appeal, decide, report, submit a photo, go live | rooms | `Standing` |
| Chat, users, room extras, config, media, telemetry, admin views | rows of their own | see `PROJECT.json` | | none |

### What is hard, and what correctness means

* **Money** must be moved once per operation although clients retry, requests
  overlap, processes die between statements and answers are lost; no balance may
  go negative; every posting must balance in coins, points and paise after
  rounding. What a client is told must be true.
* **A purchase** is five transactions in a row with the ledger in the middle: a
  receipt must be credited once, whoever sends it how often, and the counters
  around it must follow the ledger.
* **A gift** is a thumb, an app that repeats requests, and a server that answers
  late or never. The viewer must pay for what he wished to send and be told what
  happened. His own **brakes** (caps, pauses, exclusions) must hold back what was
  not already on its way, and may not be loosened before their time.
* **Events** must reach consumers if and only if their transaction committed, at
  least once, and (says the code) in order per key.
* **Battles** are started by three racing paths and settled by three others.
  Each host must be in one battle, each result must be frozen once and count the
  gifts of its window, and statistics must follow the results.
* **Seats** live twice, as rows and as speaking rights on the media server, kept
  together by calls that fail and webhooks that come late, twice or never. The
  count must follow the rows, nobody may keep a seat he left, and the host's paid
  time must follow his presence.
* **Sessions** rest on one-time tokens: an answer that is lost looks like a theft,
  two devices refresh at once, a ban meets calls past their check, and the
  revocation of a chain takes row locks in an order of its own.
* **Agencies**: a host's place is two links kept by two sides' consent, and every
  removal, application and acceptance races the others. The **monthly close** is
  resumed after a crash and must pay what it would have paid; the **coin channel**
  has caps counted across concurrent transfers and a record two people decide.
* **Free coins** are claimed by whoever is fastest: the slot in the key, not the
  count that was read, must stop the second claim.
* **The gateway** is one process whose handlers interleave at each `await`: a
  socket closes under a handler, a join replaces what was shown, timers overlap.
* **Ownership** of an item comes from purchases, levels and tiers at once, and
  what was paid for must be worn for its days. **Standing** is changed by staff,
  reviewers and moderators at once, and must end the stream it forbids.

`PROJECT.json` lists the hazards with the line where each bites and the property
that watches it.

## 2 Modules and how they correspond to the code

    Flows ──┐
            Economy ── MCLedger ─┬─ MCProgress   with Progress (Pk, Outbox)
    Ledger ─┘                    └─ MCAgency     with MCMembership, AgencyCoins, MCCommission
       │
    LedgerAbs ···(promise)··· Purchase
                                 │
                             MCPurchase ── MCServices   with Sessions, Gifting, Spend, Rewards,
                                                        Wardrobe, Standing, Gateway

            MCPk   MCSeats   MCOutbox   (MCMembership and MCCommission have a run of their own too)

    Sums ── LedgerProofs    (Ledger, LedgerAbs, Flows and Economy)
         ── PaymentProofs   (Purchase, Spend, Gifting)
         ── AgencyProofs    (Membership, AgencyCoins, Commission)
         ── AccountProofs   (Sessions, Standing, Rewards, Wardrobe)
         ── GatewayProofs   (Gateway)
         ── ProgressProofs  (Pk, Outbox, Progress)
            SeatsProofs     (Seats)

`MCProgress`, `MCAgency` and `MCServices` put components that share no state into
one instance each: the first state chooses one of them and only that one moves, so
a run's state space is the sum of theirs, never the product, and every behaviour is
a behaviour of one component. What a component needs of another is inside its own
module: the ledger's promise (once per key, nobody below zero, the lock of the
balance), the room that ends, the ban that falls. All modules are extended, never
instantiated, so that the runs check the very definitions the theorems name; their
operators carry the component in the name where two would clash (`PkSpec`,
`GiftingInit`, `GatewayNext`).

Conventions common to all modules:

* Variables hold **committed** data. An open transaction is a program counter and
  what it has read or will write; the locks it holds follow from how far it has
  come, so COMMIT and ROLLBACK release them by moving the counter. Two statements
  are one step only when a lock, an index or the absence of any writer between
  them makes the order invisible; where that is the reason, the comment says so.
* A request that died, was rolled back or was retried is an action (`Abort`,
  `Rollback`, `Crash`, `Die`, `AskAgain`), never an assumption.
* Some properties excuse a race the code leaves open, so that the rest can be
  claimed without exception. The excuse is a **ghost** variable, marked as one,
  that is set exactly when the race happens; section 6 lists what is excused.
* `X_Fault` (and `X_<fault>`) stands beside `X` with the fault a plausible change
  could introduce. Nothing uses it. The mutants of `PROJECT.json` put it in X's
  place and name the property that must then fail, which shows that each property
  depends on the code it is about.
* Every bound is a CONSTANT, marked `bound` in the module that declares it.
* A component's main property is a conjunction of named parts, its type invariant
  first (`GiftsHold`, `SessionsHold`, ...): one property of a run, one theorem.
* A configuration gives a constant its value under a name `TheX`: TLC evaluates
  what a configuration names at every use, but what that name refers to only once.

### Ledger, LedgerAbs, Flows

`Ledger` follows one attempt of `postTransaction` statement by statement:
`Submit` (`assertBalanced`), `Find` (`findByKey` in a transaction of its own),
`CheckType` (the kill switch, an unlocked read), `InsertTxn` (the unique index on
`idempotency_key`: another attempt's uncommitted row makes it *wait*, a committed
one sends it to `Reread`), `Resolve` (once per scoped leg, in leg order: the
upsert locks the account row), `LockBalances` (`SELECT .. FOR UPDATE` and the
overdraft check on netted deltas) and `Commit`. A request may be submitted
several times; `rows` remembers which attempt wrote what. `FlipType` and
`PurgeBody` are the operator and the retention job.

`LedgerAbs` is the promise: an operation is applied in one step, at most once per
key, only if nobody is overdrawn, and whoever hears of success hears the truth.
`Ledger` implements it under `applied <- {x.by : x \in rows}`, `told <- answer`.

`Flows` has every leg builder with the code's integer arithmetic and the dropped
zero legs; an account is a code and a scope. `Economy` puts the two together: a
request in `FromFlows` posts what a builder made, for some amounts, prices, rates
and channel; another request posts whatever it likes.

Abstracted: amounts are small numbers, not 64-bit (the schema stores BIGINT and
the services bound inputs far below it); the response body is "there or purged";
descriptions and metadata are part of the request's identity.

### Purchase

One `creditPurchase` is `Check` (once-only packs, an unlocked read), `Record`
(insert or find the `purchases` row, refuse another account's receipt), `Post`,
`Count` (purchase row and counters, one transaction), `SetLevel` (from the total
read in the transaction before) and `Unlock`, with `Crash` between any two.
`Post` is one step by `LedgerAbs`: that is what the refinement of `Ledger` is
for. The level thresholds and pack sizes are constants.

### Gifting and Spend

`Gifting` begins at the thumb. `Tap` asks the key store for a key: the one of the
failed request if the same gift is tapped, a new one otherwise. The request is
sent (`Send`), repeated by the HTTP client under the same key, looked up
(`Find`, the replay check), checked against the room and the limits
(`Validate`) and posted (`Post`), its answer heard or lost; the app may restart,
which empties the retry slot. `stage` is whether the room and the limits allow a
gift just now. `Spend` is one viewer's controls: settings that read the row and
write it back, raises that wait, exclusions that cannot be undone, and gifts that
read the cap and the day's sum before they post.

### Sessions

Tokens are rows; a server call takes the lock of the row it presents and holds it
to COMMIT, an UPDATE over many rows revokes those its snapshot saw and waits for
whoever holds one. `Mint` rotates; a presented token that was spent starts the
sweep of its device. The app keeps one refresh in flight per device and stores the
pair it hears. A refresh that failed, by a refusal or a lost answer (`GiveUp`), is
forgotten first (`Failed`); those who waited for it clear the storage afterwards,
one by one (`EndSession`, while the token stands in `ending`). A 401 between the
two presents the same token `Again`. The app can be killed at any of these points.

### AgencyCoins, Membership, Commission

`AgencyCoins`: a prepay is recorded by one administrator and decided by another
(one conditional UPDATE); a transfer locks the inventory, counts the day's
transfers, and posts; midnight falls anywhere. `Membership`: two dated links, host
to agent and agent to agency. Transactions about a host lock the host's row,
`removeAgent` does not; the two transactions that read before they write are two
steps each. Removing an agent moves the hosts to the owner. `Commission`: every
transaction of the job is a step (`Seed`, `PickMonth`, `Open`, `Derive`, `Post`
per payee, `Close`, `OpenNext`), gifts carry the agent and agency that held the host when they
were sent, rates come from the month before, and the job may die anywhere.

### Rewards

Every claim reads what it needs, decides on a key and posts under it. Days pass
between the two, several calls of a kind run at once, and two accounts share a
phone. Referral codes are attached and paid by separate calls.

### Gateway

One process. A message is a process of its own that runs from one `await` to the
next (`Handlers`, started by `Receive`); between two of them other messages and
`SocketCloses` run. `hub.ts`'s
rooms and a client's `roomId` are separate variables, as in the code. The screen
of the app is modelled (`screen`) because what is lost between the snapshot and
`joined` is only visible there. `lines` keeps the stored lines with those each was
stored after; a `Backlog` is the newest `HistorySize` of the room's (`LIMIT 40` in
`room.state.ts`; the instance has 1, so that two lines exceed it). The app's own cut
at 200 lines (`useRoomSocket.ts:22`, `:173`) is left out: `ScreensAreTold` is about
what reaches the app. The mic queue goes through to the seat, timers may overlap or
come late. `GrantReward` has the four ends of a grant: paid, capped, thrown, and
thrown although its posting committed. The last two give the interval back, so the
last one is paid twice (`repaid` counts it).

### Wardrobe and Standing

`Wardrobe`: a purchase reads the catalogue and the ownership, then posts in one
transaction under the lock of the gem balance; levels grant between the two, each
time any set of the active items of levels, on sale or not (`GrantUnlocks`); a
lapsed row keeps its flag and still counts for the unique index of worn items.
`Standing`: `enforce()` commits the flag and the log entry, then lists and closes
rooms; appeals, reports and photos are read in one statement and written in a
later one; `goLive` passes its gate and only then creates the room.

### Outbox

`Enqueue`/`CommitTxn`/`AbortTxn` write an event inside a business transaction.
`Fetch` takes the oldest eligible rows, skipping those locked by another shipper;
`Consume`, or `Claim` then `Work` (notifications claim first), handles them one at
a time; `FailBatch` counts an attempt on *every* row of the batch, and a row of
`MaxAttempts` is never fetched again; `MarkPublished`
commits. Two kinds of shipper exist: the scheduled job, one at a time under its
advisory lock, and the LISTEN wakeup of each process, which takes none. Writers
of one key are serialised (they hold the room's, battle's or user's row), so ids
and commits of one key agree; keys interleave freely.

### Pk

Hosts go live and close rooms; invitations are checked (`CheckInvite`) and
inserted later; `Accept` locks its invitation, `MootOthers` expires the other
invitations of both hosts (`Those` picks rows of the queue by a condition, as the
`DELETE`s and the sweep's `SELECT` do), `InsertBattle` meets the two partial unique indexes
(waiting for an uncommitted row, rolling back on a committed one), `CommitAccept`
makes it visible. `Sweep` and `Pair` are the matching job, which reads the queue
once and pairs from what it read. Settlement is one locked transaction (`Settle`)
reached from the sweep (`SettleDue`), a forfeit (`Forfeit`, from any stale screen)
and a closing room (`ListBattles` then `SettleDoomed` one battle at a time, with
`Crash` in between). A gift's place in a window is fixed when its transaction
begins and it counts once committed, as `scores()` reads it.

Abstracted: all gifts weigh one coin; the window opens at COMMIT rather than at
the INSERT's `now()`; assertFree and the reading of the rooms are one step;
feature flag, durations, views, announcements and analytics are left out.

### Seats

One party room, its host and guests. A request is a pipeline with nothing held
between stages: `StartTake` (checks) then `InsertSeat` (the transaction, where
two unique keys decide) then `Grant` (the media call) then, when it failed,
`Undo`. `Release`/`Revoke`, `Kick`/`Eject` and `EndRoom`/`CloseMedia` are the same
shape. People join (a token is minted from the seat table), connect with whatever
token they still have, and disconnect; the media server reports it in `webhooks`.
`Receive` handles them in order, `Misdeliver` repeats, reorders or loses one;
`onParticipantJoined` of the host is two statements (`OnJoined`, `OpenSession`).
The media server is external code, modelled from the calls made to it.

Abstracted: a transaction is one step (a deadlock victim is a request that did
not happen); joinRoom's reads are one step; lost webhooks, dead processes and
failed media calls share one small budget.

## 3 The runs

Passing runs, two workers, each under five minutes:

| Run | Instance | Distinct states | What it shows |
|---|---|---|---|
| `agency` | four desks, below | 838,287 | below |
| `progress` | *postings*: a conversion, a purchase, an agency transfer and one unbalanced request, with the real legs; *battles*: two hosts, two battles, a gift, a room that closes, a process that dies; *events*: three events in two rooms, the job and one wakeup, two attempts an event, two mishaps | 129,509 | `EveryFlowBalances` over amounts 1..12, 15, 17, 25 and 130, free and paid, at seven rates, the books after them, and that no leg a flow built is refused; the invariant `IInv` of the proofs; `EveryAttemptEnds`: the leg orders of the flows never deadlock; `ResultIsTheWindows`, `StatsTellHistory`, `EveryBattleEnds`; `ActsOnCommitted`, `ShippedWasHandled`, `ShipsOrIsGivenUp`; `ProgressTypeOK` |
| `pk_queue` | two scenes: three hosts, the matching sweep and one accept; an invitation between two, a room that closes and a gift | 1,098,439 | `StartsAreSound` (each side of a live battle is single, each accepted invitation has its battle), `AnswerIsFinal`, `ResultIsFinal` |
| `seats_room` | host and guest, two seats, two requests at once, two webhooks in flight, one mishap or outage | 526,263 | `SeatsAddUp` (the count is the rows, nobody sits twice), `SessionTellsHost`, `LateStretchCloses`, `SeatsComeFree` |
| `services` | eight components, below | 964,198 | below |

`agency`, by desk:

| Desk | Instance | States | Properties |
|---|---|---|---|
| postings | a gift sent twice, an overlapping duplicate, another gift under the same key and a conversion the balance cannot also cover; one account of 19 coins | 199,000 | `OneEffectPerKey`, `CacheMatchesEntries`, `NonNegative`, `SuccessIsTrue`, `RefusalIsTrue`, `TypeOK` and the refinement `ImplementsAbs`, with aborts, lost answers, purges and the kill switch anywhere |
| coins | two calls of one request and one of another, three decisions of one prepay, midnight, one mishap | 217,000 | `ChannelHolds` (the inventory adds up, one credit per record by somebody else than its maker, the daily caps) |
| members | two agencies, a sub-agent, a host who applies, is invited, quits, is moved and let go, two links | 254,000 | `MembershipHolds` (consent, who is let go leaves and nobody else, an open link leads to a seat) |
| months | four months, two gifts, an agent who comes and goes, one crash | 168,000 | `CommissionHolds` (the split is whole, levels fall by one, measured on whole months, none forgotten without a crash) |

`services`, by component (each property is explained above its definition in the
component's own module). A component that waits stands in its first state; of `Rewards`,
`Gateway` and `Standing` that is a scene without calls:

| Component | Instance | States | Properties |
|---|---|---|---|
| purchases | one receipt under three client keys from two accounts, another purchase, a retry, one crash | 151,000 | `OneReceiptOneCredit` (and to the account that holds it); `CountersFollowLedger` (never inflated; complete when nothing died; unlocks earned) |
| sessions | two devices, two calls at once, three tokens, one lost answer, kill, crash or late sign-out, one order, ban or expiry, refreshes repeated with the token of a failed one | 209,000 | `SessionsHold` (no token is refused without a cause, a revoked or spent token stays so, a ban is outrun once); `NobodyStuck` (no deadlock of row locks lasts) |
| gifting | three taps on two gifts, three HTTP requests lost and repeated, a room that ends | 255,000 | `GiftsHold` (a viewer pays for what he wished; "sent" and "refused" are true) |
| spending | three settings of four kinds of which two overlap, two gifts, two ticks | 126,000 | `BrakesHold` (no raise early, no pause cut short); `OvershootBounded` (a cap is passed only by gifts checked at one time) |
| free | two calls of each kind, three people on two phones, up to three days | 25,000 | `RewardsHold` (watch cap and slots, the ladder follows the claims, one welcome per phone, one payment per referral) |
| gateway | eleven scenes of up to seven messages over three sockets: overlapping joins and drops, lines during a join and before a backlog of one, raised hands answered twice, timers that overlap or come late, a payment that is taken for a failure | 113,000 | `GatewayHolds` (hub and sockets agree, only the cut linger, every line since the join is shown and the newest of those before, viewer counts, hands add up, one seat each, paid for presence) |
| wardrobe | four items with a tier that bundles two, six orders, two days | 57,000 | `WardrobeHolds` (paid days are worn, levels last, one of a kind, one charge per key) |
| standing | four casts: two suspensions with their appeals, going live while one falls, reports two moderators answer, two photos and two verdicts | 28,000 | `StandingHolds` (a suspension ends the stream, decisions are logged and stay) |

The types of the ledger, the purchases, the battles and the outbox are properties
of their own (`TypeOK`, `ProgressTypeOK`), those of the seats too (`TypeOK`); every
other component's are a conjunct of its main property. The configurations switch
the deadlock check off, because every bound (requests, tries, rooms, battles,
events, days) ends an instance in a state where nothing is left to do. Where the
code could deadlock, a property says that it does not: `EveryAttemptEnds`, and
`NobodyStuck` for the row locks of sessions.

Violating runs, each one sentence of the repository that the code does not keep:

| Run | Property | Sentence | What happens |
|---|---|---|---|
| `pk_two_battles` | `OneBattlePerHost` | "one battle per host at a time, enforced by the database" (migration 028 and `startBattle`) | the two indexes are on `home_user_id` and on `away_user_id` separately and `acceptInvite` does not call `assertFree`: two accepts, or an accept of an invitation inserted after the other battle began, give a host one battle on each side |
| `outbox_order` | `OrderPerKey` | "Ordering is guaranteed PER PARTITION KEY" (`outboxShipper.ts`) | the wakeup and the job hold neighbouring rows of one key and the later row is consumed first |
| `outbox_stranded` | `EveryEventShips` | "so nothing is ever stranded" | a healthy event fetched with a poisoned one is charged its failures, and is given up with it |
| `purchase_crash` | `RetryCompletes` | a crash leaves a pending row and "retrying completes it" (`purchase.service.ts`) | the process dies after the ledger committed; the retry is a replay, and a replay counts nothing |
| `seats_host` | `HostKeepsSeat` | "Seat 0 belongs to the host for the life of the room" (`webhooks.service.ts`) | the host taps his seat while he is not connected; the grant fails and the compensation deletes the seat he held before the tap |
| `agency_quit` | `LetGoMeansGone` | "an application left undecided for the window lets the host go" (`agency.service.ts`) | the agent is removed while the application waits; the answer then ends a link that is no longer the host's, who stays in the agency and may not apply again for a month |
| `commission_stall` | `EveryMonthCloses` | "Daily and idempotent means a missed day costs nothing: the next run closes it" (`jobs/commission.ts`) | the job dies after a month is marked closed and before the next is opened: that month never gets a row, and no month closes any more |

### Why the bounds are enough

The guards compare at most two parties (two attempts of a key, two transactions
on an index, a request and a webhook, a handler and the close of its socket), so
the smallest instance where a hazard can occur has two of them, and each run has
one more where a third could matter: the postings of `agency` have two holders and a waiter
of one key *and* a competitor for the balance; `pk_queue` has three hosts because
the hazard is a host shared by two battles with different partners; the events of
`progress` are three with batches of two, so a batch can straddle keys and a
shipper can find a neighbour locked, and an event has two attempts with two mishaps
in the instance, so that giving up is reached, by failures alone or with a crash
between them; `seats_room` has one guest against the host,
two overlapping requests and two webhooks, one of which may overtake the other.
In `services` and `agency`: two devices, since a deadlock of rotations needs two rows; three
taps, since the second can repeat the first and the third be another gift; two
settings that overlap with a third after them; three bands, since a level must be
able to fall by more than one; four months, since a level is measured in one,
paid in the next, and the job looks back from a third. `HistorySize` is 1, so a
backlog leaves lines out as soon as two are stored before a join; `MaxLosses` is 1,
a lost answer being enough for a refresh to be repeated; `MaxRepaid` is 1, as the
clock goes on the same way after each payment taken for a failure; and the one crash of
`purchases` falls between any two of its five transactions, while a second would
meet a request that starts over. The scenes of `Rewards`,
`Gateway` and `Standing` are the sets of requests that touch one thing; a request
of one scene does not read what another writes.

These arguments are about the guards of the code, not a cut-off theorem: where
section 5 has no proof, more hosts, guests, devices or mishaps than named here
have not been checked. `pk_queue` and `pk_two_battles` use symmetry over hosts
and taps; both check safety only.

## 4 Fairness

* `Ledger`: `WF(Serve(r))`: the database runs a statement that is not blocked.
  Nothing obliges a client to submit or an attempt to survive, and `Abort` is
  never required: `EveryAttemptEnds` is therefore freedom from deadlock.
* `Outbox`: `WF(Fetch(Job))` (the scheduler polls) and `WF(Step(s))` (a batch that
  was fetched is worked off). Wakeups are owed nothing, since a NOTIFY can be missed.
* `Pk`: `WF(WindowCloses \/ SettleDue)` per battle: time passes and the sweep runs
  every few seconds. No host and no closing process is fair.
* `Seats`: `WF(Receive)` (the media server retries until it is answered),
  `WF(OpenSession)`, `WF(Step(r))` (a handler goes on, media calls time out).
  People owe nothing.
* `Commission`: `WF(Job)`: the scheduler starts the daily job again whenever it has
  ended or died, and its statements run. Crashes owe nothing and are bounded, and
  a month ends only while the job sleeps (a run is minutes, a month is not).
* The components of `services` and `agency` are checked for safety only and have no
  fairness there; the job's is used by `commission_stall`.

## 5 What is proved

For **any** values of the constants: any number of requests, hosts, devices,
events, agencies, reports, any amounts, prices, delays and bounds.

| Module | Theorem | States |
|---|---|---|
| `LedgerProofs` | `TypeCorrect`, `Invariant` | `[]TypeOK`, `[]IInv` |
| | `ExactlyOnce` | no key is committed twice, whatever overlaps, dies and is repeated |
| | `NeverOverdrawn` | no committed balance of a scoped account is negative |
| | `SuccessTrue`, `RefusalTrue` | what a client is told is true: "done" was done, "refused" was not, by no attempt |
| | `CacheTrue` | a cached balance is its opening balance and the sum of its committed entries |
| | `DoubleEntry` | the committed entries of each unit sum to zero over all accounts |
| | `Refinement` | `Spec => Abs!Spec`: to its callers the ledger is one atomic, exactly-once operation |
| | `FlowsAlwaysBalance` | every leg builder returns legs that balance in each unit: for every amount, price and rate, rounding and dropped zero legs included |
| | `EconomyBalances` | the books balance whatever overlaps, and no request with legs of a flow is refused as unbalanced |
| `PaymentProofs` | `PurchasesTyped` | `[]TypeOK` of the purchases |
| | `OneCreditPerReceipt` | one receipt, one credit, to the account of its row |
| | `CountersTrue` | lifetime coins are never above what was credited, equal to it when no process died; unlocks are earned |
| | `BrakesAlwaysHold` | raises wait and pauses last, as long as no two settings overlap |
| | `OvershootAlwaysBounded` | a cap is passed by no more than the gifts checked beside the first |
| | `GiftsAlwaysHold` | a viewer pays once for each gift he wished to send, and is told the truth |
| `AgencyProofs` | `MembershipAlwaysHolds` | consent, leaving and housing of hosts |
| | `ChannelAlwaysHolds` | one credit per prepay, decided by another than its maker; the inventory adds up; daily caps |
| | `CommissionAlwaysHolds` | a closed month cost the rate of its gifts, however they were split and whenever the job died; levels fall by one at most, measured on the whole month before; months close in order, none is forgotten unless the job died |
| `AccountProofs` | `RevocationIsFinal` | a token is exchanged once, a revoked one for nothing |
| | `BanIsOutrunOnce` | a token written in spite of a ban is exchanged for no other |
| | `SessionsAlwaysHold` | a device that nobody disturbed, and that repeats no refresh which failed, is never told that its token was used, revoked, expired or banned; with both of the above: `SessionsHold` |
| | `StandingAlwaysHolds` | a suspension ends the stream; decisions are logged and stay |
| | `RewardsAlwaysHold` | watch slots in a row under the cap, a ladder that follows the claims, one welcome per phone, one payment per referral |
| | `WardrobeAlwaysHolds` | paid days add up, one charge per key, what is owned for ever is kept and not sold, what is worn goes by time or on request |
| `GatewayProofs` | `GatewayAlwaysHolds` | the hub agrees with itself and with the sockets, screens show what was said since the join and the newest `HistorySize` lines before it, counts are told, hands come down once, one seat each, paid for presence and what a payment taken for a failure repeats |
| `ProgressProofs` | `ProgressTyped`, `TypeCorrect` | `[]ProgressTypeOK`; `[]OutboxTypeOK` alone |
| | `StartsAlwaysSound` | no host is home twice or away twice in live battles; every accepted invitation has a battle of its own |
| | `AnswersAreFinal`, `ResultsAreFinal` | an answered invitation and a settled battle never change |
| | `ResultsAlwaysTrue` | a result counts the gifts of its window and names the host with more |
| | `StatsAlwaysTell` | a host's statistics are the history of the settled battles |
| | `ActsOnlyOnCommitted` | consumers act on events of committed transactions only |
| | `NothingLost` | what is marked as shipped was handled |
| `SeatsProofs` | `SeatsAlwaysAddUp` | the stored count is the number of occupied seats, nobody on two |
| | `TypeCorrect` | `[]TypeOK`, with the count within the capacity |
| | `StretchTellsHost` | with every webhook once and in order, the paid stretch is open just while the host is connected |

The theorems about a component's main property (`...AlwaysHold`, `...AlwaysHolds`)
include its types. With these, every invariant and every action property the passing
runs check is a theorem, except `NobodyStuck`.

**Sums.** Balances, counters, caps and inventories are sums, computed by a recursive
function over subsets. The library's induction theorem takes an operator as a
parameter, which the provers cannot instantiate; `Sums` goes another way: in the
library's well-founded order of finite sets, the subsets that contradict a fact
about sums have a smallest one, and removing an element of it contradicts that
(`SetInduction`; then `SumEmpty`, `SumAdd`, `SumGrouped` and their kin). The facts the other modules use (one term
more, terms that change, a subset, a sum group by group) are lemmas there. What
`Pk`'s queue keeps of its rows (`Those`, a recursive function) is shown the same
way, by induction over the set of its first rows (`ThoseOf`); `SelectSeq`, which the
library defines in a way the provers cannot open, is not used there.

**Assumptions**: the named assumption of each module on its constants, in
`Ledger`, `Economy`, `Purchase`, `Pk` and `Seats` as an ASSUME, elsewhere as a
hypothesis of the theorem (`SpendConstants`, `NoCapIsAboveAll`, `GiftingConstants`,
`MembershipConstants`, `AgencyCoinsConstants`, `CommissionConstants`,
`SessionsConstants`, `StandingConstants`, `RewardsConstants`, `WardrobeConstants`,
`GatewayConstants`, `OutboxConstants`; `RevocationIsFinal` and `BanIsOutrunOnce` need
none). They say that constants have their types, that
accounts, requests of a room, gifts under way, payees, sockets and handlers are
finitely many, that opening balances are not negative, that a seat exists and is
not a person, that nobody owns two agencies, that the bands of commission rise and
the lowest begins at no points, that a bundle has one item of a kind and no tier in
it, that a purchase adds at least a day, that every request of the ledger has a
leg, that what a flow posts is in the unit of its account, that the intervals of
the reward clock and the length of a backlog are positive, that the value for "no cap" is above anything that
can be spent, and that a gift is not named like the empty retry slot. TLC
evaluates all of them.

**Why the properties are not inductive by themselves**, and the argument:

* *Ledger.* `OneEffectPerKey` needs `KeysExclusive`: while an attempt is past its
  INSERT no row has its key and nobody else is past an INSERT of it; only the
  unique index gives that. `NonNegative` needs `CheckStillHolds` (what the
  overdraft check saw is still in the account at COMMIT), which needs
  `LocksExclusive`: the lock that protects a balance is already the one
  `resolveAccount` takes, before any `FOR UPDATE`. `RefusalIsTrue` needs
  `NotYetApplied` and `AnsweredIsDone`; the books need `ServingBalanced` (an attempt
  past `assertBalanced` has legs that sum to zero in each unit) and
  `RowsWellFormed`. `IInv` is the conjunction; TLC checks it in `progress`.
  `Refinement` maps `Commit` to `Apply`, told outcomes to `Hear`, `AskAgain` to
  `Forget` and all else to stuttering.
* *Economy.* That the legs of a flow balance is case by case over the builders: what
  is rounded down on one side is what is left on the other, and a dropped leg is
  zero. "Refused as unbalanced" is then told only to requests that do not balance
  (`ToldUnbalanced`).
* *Purchase.* `CreditInv`: a request past its insert has its receipt's row in its
  own name (`Recorded`), rows are never taken away or given to another
  (`RowsStay`), and the ledger's key is the receipt (`Credited`). `CountInv` adds
  that what is posted and not yet counted is owed by requests at that step
  (`Accounted`), at most one for each receipt, and that the total a request read
  back is one the counter has reached (`ReadBack`): so no level is above it.
* *Spend.* `BrakeInv`: a pending cap is a raise, and what a setting read is still
  so when it writes, but for a raise that fell due meanwhile. The last needs "no
  two settings overlap"; without it the code does lose an update (section 6).
  `OverInv` counts, beside what is paid, the gifts that have passed their check
  and not been posted.
* *Gifting.* `GiftInv`: a key belongs to one gift; of the requests with one key the
  app has at most one it awaits (`OneRuns`); a request past its replay check has
  seen no charge of its key, unless another copy overtook it (`PastReplay`); an
  answer given stays true (`AnswersStand`, `RefusalStands`), and a failure the app
  knows of is in its retry slot (`FailureIsRemembered`). The two races the code
  leaves open (section 6) are the ghosts in it.
* *AgencyCoins.* `ChannelInv`: one call holds the inventory's lock, the one that
  is inside (`LockHeld`); a request inside has sent nothing yet (`RequestsFresh`)
  and what it counted under the lock leaves room for its lot (`RoomIsLeft`);
  a decided prepay stays decided, by another than its recorder.
* *Pk.* `StartInv`: an invitation an open transaction has locked is pending and
  locked by no other (`LocksHold`), which makes answers final; a row inserted and
  not yet committed clashes with no committed and no other inserted row
  (`NoClash`), which is what the unique indexes give to `CommitAccept`; then
  `OnePerSide` is kept by the one step that adds battles. `AcceptedHasBattle`
  counts both sides of an equation that only `CommitAccept` changes, by one each.
  `HistoryInv`: settled battles are ranked in the order of their settlement
  (`RanksRise`), a new result is the last of both hosts' histories, and gifts
  keep the windows they were made in. The types need that the sweep reads its pairs
  two by two (`QueueTyped`), that a transaction past its first statement has both
  sides (`TxTyped`), and what `Those` keeps of a queue.
* *Seats.* `SeatInv`: every step that writes rows writes the count with them, in
  the same transaction (`Vacating`, `Taking`), or does so once the room has
  ended, where the count is not read. `TypeInv` adds the CHECK of the schema
  (`seats_taken <= seat_capacity`), without which the count of a room that has
  ended has no bound. `StretchFollows`: the host's webhooks still in flight, taken
  in order, bring the paid stretch to where he is now.
* *Outbox.* `OutboxInv`: batches of two shippers share no row and hold pending
  ones (`BatchesApart`, `BatchesPending`), an event behind a shipper's position was
  handled (`PastIsHandled`), and what was acted on is behind a position or marked
  (`ActedIsPast`).
* *Sessions.* `SessionInv`: `RowLocks` (one call holds a row), each device waits
  for a call of its own (`AwaitsOwn`), and what a rotation past its check knows:
  its token is live, and if it was itself written in spite of the ban, the account
  is gone. From this `Mint` revokes what it exchanges. That a session ends for a
  cause only needs `CalmInv`: the token that a device nobody disturbed stores is its
  own, live, unspent and presented by no other call (`GoodToken`, `Unclaimed`), unless
  it is the one a refresh has failed with (`ending`); each of its tokens is presented
  by one call; no call revokes tokens of that device, and the call it waits for is
  refused nothing (`Harmless`), so none of its own finds a token used.
* *Membership.* `MemberInv`: owners keep their seats, an application names a link
  made so far, and one that was answered names a link that was left.
* *Commission.* `CommissionInv`: rows are written from month 0 on and months close in
  order; only the very first run leaves a month open below another (`RowsInOrder`).
  What the job holds is still so (`JobSound`, `DrawnOnce`): it posts over months that
  are over and whose gifts are all attributed, so their split cannot change. A level
  falls by at most one and was measured on a month that had closed (`LevelsSound`); a
  month closed without a level counts as the band of no points, below which none is.
  What is posted is the split of the month and what is not is still owed
  (`PostedIsOwed`, `RestIsOwed`), unless a resumed attempt wrote a level after the
  first had posted, which is the ghost `repriced`. That the shares add up to the rate of the whole is a
  sum over agencies, regrouped by agent (`SumGrouped`), each agency's gap not negative.
* *Gateway.* `GatewayInv` is inductive with, beside the properties themselves: a
  closed socket that nothing cut is forgotten and no handler waits on it (`Doors`);
  lines are stored before they are said, and a line said before a backlog was read is in
  it or beyond it, older than each of its lines, of which there are then `HistorySize`
  (`LinesSound`, from `BacklogIsNewest`, which counts the lines a backlog leaves out);
  the join a screen was answered is over, and its backlog and the lines since are on
  it (`ScreensSound`). `ClocksSound` is the accounting of the rewards: the credit of a
  clock (presence and lapses, less what is about to be paid, accrued, or paid and not
  given back, `Kept`) is not negative, and in its room at least what the next visit
  will count. `Bounded` adds what the types say beyond it.
* *Standing.* `StandingInv` follows each reviewer from what was read to what is
  written: a granted appeal has its lifting in the log, an actioned report its
  measure, whoever may still write an approved photo was under way at its
  approval, and a suspended host who is live was let in before, or somebody is
  about to close the room, or died.
* *Rewards.* A claim that has been decided on must still be right when it is
  posted. `RewardsInv` says what it relies on and that this only grows: the slots
  of a day are a row without gaps and a decided slot is at most the next one
  (`SlotsInRow`, `Granted`); of two decided claims one knows of the other
  (`AloneAtDecision`), so a first welcome stays the first of its phone; and a
  ladder step that hurried nobody was taken when no call of an earlier day was
  left, so its yesterday is over (`OnLadder`). Keys do the rest (`KeysOnce`).
* *Wardrobe.* `WardrobeInv`: one item of a kind is flagged, lapsed ones included
  (`OneFlagged`, the partial unique index), from which `ChosenStays` follows: an
  item of a bundle that is put on would be the second of its kind. `AddsUp` is the
  account of days also for items that nobody has yet; a key posted once
  (`ChargedOnce`) makes each receipt a new term of its sum.

**What the proofs found in the models.** Two hypotheses were missing and were
checked against the code: `Seats` let the count of an ended room grow past the
capacity, which the CHECK of the schema rolls back; and `Gifting` did not say that
the empty retry slot names no gift (in the app it is null). `Rewards`' property of
the ladder was parsed with its implication around two of its three claims only;
it now states all three.

**Only model-checked**: liveness (`EveryAttemptEnds`, `ShipsOrIsGivenUp`,
`EveryBattleEnds`, `LateStretchCloses`, `SeatsComeFree`), since the prover does not
reason about fairness, and `NobodyStuck`, which is about ENABLED. The seven
violations of section 3 are counterexamples and have nothing to prove. No module
declares a RECURSIVE operator.

## 6 Where the code and its documents differ

Seven differences are runs (section 3) and findings in `PROJECT.json`. The
following came up while modelling and are reproduced by the models, but have no
run of their own. Those marked † are what a ghost variable excuses in a property.

Money and gifts

* **Kill switch** (`ledger.service.ts:160`): `is_active` is read without a lock, so
  a posting that read it before a flip commits after it; migration 002 line 23
  says the feature stops atomically.
* **Overlapping duplicate** (`ledger.service.ts:147`): it waits on the unique index
  and replays; `ledger-decisions.md` B2 expects a 409.
* **Once-only pack twice** (`purchase.service.ts:55`): two receipts for it redeemed
  at once both pass the unlocked check.
* **Stored level** (`purchase.service.ts:207`): `user_level` is written from a total
  read in an earlier transaction; the slower of two purchases can write it back.
* **One retry slot** † (mobile: `lib/intentKeys.ts`): the app remembers one request
  whose outcome is unknown, in memory. After two, or a restart, a repeated tap is
  a new gift and is paid again.
* **Crossed retry** † (`gifts.service.ts`): a request repeated while its first copy
  still runs may be told that the room has ended, and the copy then posts.
* **Spend controls** † (`spend.service.ts:185`): the row is read, then written back
  whole; of two settings that overlap the earlier one's pause or lower cap is lost,
  which migration 036 rules out.
* **Transfer at midnight** † (`coins.service.ts:545`): one begun before midnight IST
  that waits for the balance is stamped with the old day and counted for the new.

Free coins

* **Two accounts of one phone** † (`rewards.service.ts`) that claim the welcome bonus
  at once both get it: the check of the device and the posting are apart.
* **Check-in across midnight** † (`rewards.service.ts:201`): a claim made while
  yesterday's is still in flight finds no yesterday and starts the ladder over.
* **Two invite codes** (`rewards.service.ts`): of two codes entered at once, the one
  that lost the `ON CONFLICT DO NOTHING` is answered as if it had been attached.

Sessions and codes

* **Account and device** (`account.service.ts:97`, `:163`): a deletion or a sign-out
  revokes the tokens its snapshot saw; a rotation that overlaps writes one more.
* **Signing out one device** (`auth.routes.ts:484`, mobile: `features/auth/session.ts:127`): the
  app sends no token with it, and the server then ends every session of the account.
* **Refresh repeated after it failed** † (mobile: `api/client.ts:93`): `refreshOnce`
  forgets its promise as soon as the refresh is over, and the storage is cleared some
  awaits later. A 401 in between presents the same token; if the failed refresh had
  committed and only its answer was lost, the token counts as replayed and the
  device's sessions are revoked. The comment above it says that awaiting one promise
  "is what keeps the backend's replay detection from firing on us".
* **Failed refresh ends all sessions** (mobile: `api/client.ts:209`,
  `features/auth/session.ts:127`): it signs out like the owner does, with a logout
  that names no device; the server, if it still takes the access token, ends the
  sessions of every device.
* **Signing out during a refresh** (mobile: `features/auth/session.ts`): the answer
  that comes after stores its tokens again.
* **Two codes at once** (`otp.service.ts:64`, not modelled): two overlapping requests
  leave two live codes where the comment says one.

Rooms

* **Queue place** (`games/pk.jobs.ts:101`): when one of a pair has left meanwhile,
  the DELETE of the other commits and the host loses the place.
* **Battle in a closed room** (`games/pk.service.ts:382`): rooms are read before
  the battle commits, so one accepted while a room closes starts in an ended
  room and runs to its window's end.
* **Lost push** (`notifications.service.ts:92`): a worker that dies between the
  claim and the push loses it; `consumers.ts:6` says such a crash delays the
  consequence "instead of losing it". `ShippedWasHandled` says what remains true.
* **Speaker without a seat** (`rooms/live.service.ts:389`): a guest who reconnects
  before the webhook of the old connection gets a speaker token, then loses the
  row. No failure is needed.
* **Stale webhooks** † (`realtime/webhooks.service.ts:158`): a repeated or overtaken
  `participant_left` closes the stretch of a host who has rejoined, and a stale
  `room_finished` ends his room; line 9 says handlers are safe to run twice.
* **Seat in an ended room** (`rooms/seats.service.ts:126`): a take whose transaction
  runs after the room ended leaves a row there.
* **Failed mute** (`rooms/seats.service.ts:287`): the compensation writes NOT muted
  instead of what was there.
* **Lock order** (`rooms/seats.service.ts:244`, `live.service.ts:498`): release locks
  seat then room, closing a room the other way; PostgreSQL aborts one of them.

Gateway

* **Closed under its handler** † (`gateway/server.ts:228`): a socket that closes while
  its join or handshake awaits is entered afterwards, for good: the close handler
  has run, so it stays in the room's count until the process ends.
* **The gap of a join** † (`gateway/server.ts:275`, mobile: `useRoomSocket.ts:158`): the backlog is
  read before the join takes effect and `joined` replaces what is shown; lines in
  between are lost to the joiner, and one may be shown twice.
* **Refused hand** (`gateway/server.ts:405`): a hand whose approval cannot be seated is
  out of the queue already; the host is told, the viewer is not. Two approvals at
  once pick the same free seat, so one is refused although another seat is free.
* **Time away** † (`gateway/server.ts:121`): up to a minute of absence counts as
  presence, and ticks that overlap or come late count time twice.
* **Paid and given back** † (`gateway/server.ts:127`, `rewards.service.ts:269`): a
  reward whose posting committed and whose answer was lost throws; the interval is
  given back and the next tick pays it under the next slot of the day.
* **Changing rooms** on one socket announces nothing to the room that was left; a
  failed read after `hub.join` leaves viewer counts stale; a kicked user's socket
  stays in the room; overlapping announcements of seats or of the queue may show
  the older state last.

Agencies

* **Housed nowhere** † (`agency.service.ts:474`): the seat of the accepting agent is
  read without a lock; `removeAgent` commits in between, and the host is linked to
  an agent of no agency.
* **Agent and host** (`agents.service.ts:165`): an agent is not to be anyone's host,
  but may become one through `applyToAgent`.
* **Resumed close** † (`commission.service.ts:298`): an agent removed by the first
  attempt and seated again before the second is paid from shares computed anew.
* **First run** (`jobs/commission.ts`): the first month ever opened measures a month
  before it that was never opened as volume 0; each seeding walks one month back.
* **Late agent** (`commission.service.ts`): an agent without a level row for a month
  (seated after it was opened) earns nothing and the agency takes the whole share.

Cosmetics

* **Tier that cannot be bought** (`vip.service.ts:165`, migration 016's index): a
  lapsed item keeps its flag and its place in the unique index, so putting a bundle
  item on fails and the tier is refused with a 409 until something is taken off;
  the comment says "Equipped only when nothing of that kind is on".
* **Level over a rental** (`unlocks.service.ts:36`): a level makes a lapsed but
  flagged rental permanent and thereby visible, though levels grant "UNEQUIPPED,
  deliberately".
* **Purchase against level** (`cosmetics.service.ts:196`): a purchase that meets an
  item made permanent meanwhile ends in a 500 (`expires_at` of the receipt is NOT
  NULL), so the branch written for it is never reached.
* **Retries of a tier** (`vip.service.ts`) look at the catalogue before the replay: a
  paid one may be refused; `cosmetics.service.ts:144` has "Replay first".

Standing

* **Old appeal, new suspension** (`appeals.service.ts:217`): an appeal that stayed
  open through a lifting and a second suspension, once granted, lifts the newer
  one, and whoever imposed that one may grant it; `enforcement.service.ts:11` says
  "until another human clears it".
* **Going live meanwhile** † (`enforcement.service.ts:112`): a host past the gate of
  `goLive` opens a room after the suspension closed the others; and a process that
  dies between the two leaves the room open.
* **Upheld and lifted** (`appeals.service.ts`): of two reviewers one can lift the
  suspension and the other's "upheld" be what the appeal says.
* **Submission after approval** † (`verification.service.ts:94`): it read the status
  before the approval and overwrites it.
* **Poll replaced** (`polls.service.ts`, not modelled): of two polls created at once
  the second is refused with a 409 where the comment says it replaces the first.

## 7 What is not modelled, and why

`PROJECT.json` has a row for each component. In short:

* Chat and direct messages, follows, friends, profiles, search, catalog, banners
  and feature flags are single statements whose atomicity is the database's; a
  model would restate each statement.
* Media uploads, telemetry, event log, analytics, metrics, HTTP middleware,
  infrastructure, scripts and documents keep no state the properties are about.
* Receipt verification, codes by SMS and e-mail, sign-in by others, face checks
  and the media server are other people's services; the media server is modelled
  as far as the code relies on it.
* The mobile application is modelled where the backend's promises end in it: what
  a device stores and repeats (`Sessions`, `Gifting`) and shows (`Gateway`). Its
  screens, translations, navigation and styles are most of the repository's lines,
  and have no behaviour of this kind.
* Of the modelled components: mute, room admins, boards and polls (`Seats`),
  other gateway processes and the Redis bus, reactions, entrances and rate limits
  (`Gateway`), fan levels and boards (`Gifting`), notification caps and stuck jobs
  (`Outbox`), battle durations (`Pk`), host codes, the in-house agency and agents'
  management rights (`Membership`, `Commission`), super messages and the cache of
  looks (`Wardrobe`), reports' flags (`Standing`).

## 8 Plan

Done: the core (`Ledger`, `LedgerAbs`, `Flows`), the components that post
through it, battles, seats, events, sessions, agencies, the gateway, cosmetics and
standing, with proofs for all of them.
What is left, in the order of its worth:

1. `Gateway` over two processes and the Redis bus: viewer counts and approvals
   published and received, in any order.
2. `Sessions` with the codes that begin one: `otp.service.ts`, e-mail codes,
   attempts and their limits.
3. Polls and room admins beside `Seats`: `createPoll` against itself, a vote
   against the close.
4. Abstract specifications: a single-winner settlement for `Pk` (`Settle` reached
   from three paths), an at-least-once channel for `Outbox`, an append-only
   standing for `Standing`.
5. Theorems of refinement for those, and beside each liveness property the safety
   half of its argument: what is left to do shrinks with every fair step (the rows
   a shipper has before it, the statements of an attempt, the battles past their
   window).

## 9 Running it

    tlasany Ledger.tla
    tlc -workers 2 -config MCAgency.cfg MCAgency
    tlc -workers 2 -config MCServices.cfg MCServices
    tlapm LedgerProofs.tla

`MC<module>.cfg` and each `MC<module>_<run>.cfg` belong to `MC<module>.tla`.
