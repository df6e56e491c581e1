# A TLA+ model of the dating backend

The repository is the HTTP backend of a dating and companion application
(FastAPI, PostgreSQL through SQLAlchemy sessions, Redis, an ARQ worker). This
directory holds TLA+ modules of its stateful components, the TLC runs that check
them on small instances and proofs checked by TLAPS. `PROJECT.json` maps every
definition to the source lines it models.

## 1. How the program runs, and what that makes hard

* A request is one coroutine with one SQLAlchemy session (`src/app/shared/db.py`):
  a transaction under READ COMMITTED that ends with the router's `commit()`, or
  with a rollback when anything raises. Several processes serve requests.
* Almost nothing is read `FOR UPDATE`. A handler reads rows, decides, and writes
  columns computed from what it read; SQLAlchemy writes only the columns whose
  new value differs from the value it read. An UPDATE waits for the row lock.
* Side effects go through an outbox table (`domain_events`) that the worker
  drains every 15 seconds, with handlers that commit sessions of their own.
* Another cron of the worker cancels unpaid orders every 5 minutes.

So the hard behaviours are: overlapping requests that each act on what they read
(lost updates, guards passed on stale rows), callbacks and retries that come late
or twice, a crash between a handler's commit and the drain's commit, a request
that raises after it has flushed some of its writes, long legal sequences of
customers', admins' and channels' operations on one order, and cron runs against
clients.

## 2. Inventory

| Component (source) | State | Operations | Interacts with | What makes it correct | Module |
|---|---|---|---|---|---|
| Wallet (`commerce/wallet.py`) | `wallet_accounts` (balance, version), `wallet_ledger` | ensure_account, charge, credit, reconcile_user | called by commerce, transfers, admin | balance = sum of ledger, never negative, one welcome credit | Wallet |
| Commerce (`commerce/service.py`, `router.py`, `providers.py`, `admin/commerce.py`) | orders, payments, refunds, memberships, credentials | create, pay, top up, cancel, close, notify, refund, process, grant, expire | wallet, outbox, bookings, worker | refunds covered by payments, one order per key, no paid order lost, due orders closed, paid days kept | Commerce, Memberships |
| Outbox (`events/service.py`, `events/dispatch.py`, `workers/tasks.py`) | `domain_events`, notifications | enqueue, claim_batch, dispatch, mark_done, mark_failed | every component enqueues; handlers write notifications and groups | effect at most once, settled only after the effect, retries end | Outbox, Delivery |
| Activities (`activity/service.py`, `admin/activity.py`) | activities, participants, waitlist, activity group | create, join, quit, waitlist, update, cancel, review; marks | messaging group, outbox | count = roster, no overselling, FIFO waitlist | ActivityRoster, Content |
| Bookings (`companion/service.py`) | bookings, slots, profiles | create_booking, mark_booking_paid, decline, start, complete, cancel, review | orders, outbox | a slot has one holder; a paid booking keeps its slot | Booking |
| Companions (`companion/service.py`, `admin/companion.py`) | `companion_profiles`: status, reason, guild | apply, review, pause, assign to a guild | bookings, guilds | nobody works as one unapproved; the reason goes with the rejection | Companions |
| Direct messages and friends (`messaging/service.py`) | direct conversations, message requests, friend requests, friendships, greetings | open_direct, send and answer requests, delete_friend, greet | safety, activities | friends share one chat, friendship is mutual, no new contact across a block | Contacts |
| Groups (`messaging/service.py`) | conversation, its members and owner | create, add, leave, kick, dissolve | clubs, guilds, activities | a living group has an owner who is in it | Groups |
| Transfers and calls (`messaging/service.py`) | chat_transfers, one call session | create, accept, cancel, expire; start, answer, reject, end | wallet | money is conserved; each transfer settles once; a call that is over stays over | Transfers, Escrow |
| Match (`match/service.py`) | swipes, matches, the day's likes in Redis | swipe, unmatch | safety | matched exactly when both like; the limit | Matching |
| Safety (`safety/service.py`) | blocks, reports | block, unblock, report, resolve | match, contacts, accounts | a block ends the match and forbids new contacts | Requests, Matching, Contacts, Accounts |
| Clubs (`clubs/service.py`) | club, members, its chat | create, join, leave, kick, hide, unhide, dissolve | messaging | member_count = members; the chat is the club | Clubs |
| Guilds (`clubs/service.py`, `admin/orgs.py`) | guild, followers, consultations | follow, chat, admin_upsert | messaging, companions | a user has one consultation, and it is their own | Guilds |
| Community and marks (`community/service.py`, `activity/service.py`, `admin/community.py`) | posts, likes, bookmarks, reposts, comments and counters | create, review, mark, unmark, withdraw | trust, media | counters count; only what was approved is shown; what is withdrawn stays so | Content |
| Media (`media/service.py`, `storage.py`) | assets, objects, moderation tasks, the avatar | upload, complete, review, delete, choose | users, trust | what was deleted is not shown | Media |
| Accounts (`user/service.py`, `trust/service.py`, `admin/moderation.py`) | the user's status, sanctions, reports | complete the profile, delete, report, resolve, sanction, revoke | everything that asks for an active user | the status follows from what stands | Accounts |
| Trust score (`trust/service.py`) | score, level, events, verifications, badge | record_event, submit and review a verification | users | an event counts once and for what it is worth | TrustScore |
| Auth (`auth/service.py`, `admin/users.py`) | SMS codes in Redis, refresh tokens | sms_send, login, refresh, logout, force-logout | users | a code logs in once, a login has one token | Sessions |
| Ops (`ops/service.py`, `admin/ops.py`) | campaigns, notifications, feedback | send_campaign, read, reply | outbox | a campaign goes out once, and says how often | Outreach |
| Staff (`admin/accounts.py`, `admin/service.py`) | `admin_users`, roles | create, update, authorize | everything under `/admin` | somebody can manage the accounts | Staff |
| Analytics (`analytics/`, `workers/tasks.py`) | raw events, seen ids, daily tables, partitions | ingest, erase, rebuild, maintain | clients, cron | an event counts once; a finished day keeps its count | Analytics |
| Recommend, funnels (`recommend/`, `analytics/aggregate.py`) | nothing | build_shelves, diversify, pick_featured, funnel_sql | activities | at most one bookable activity is left out, nothing full is offered, nothing is recommended twice; a funnel is ordered | Rankings |
| Seeding (`scripts/seed_content.py`, `seed_pages.py`) | what the scripts create through the API | run, kill, run again | moderation, bookings, friends, shelves | safe to re-run | Seeding |
| Demo data (`scripts/seed_demo_data.py`) | rows with made-up ids, images, aggregates | run by stages, reset | every table | re-running and resetting leave no trace | DemoData |
| Discover cards, leaderboard, buddy intents and invites, taxonomies, app config, audit log, rate limits, metrics | rows of one user or of content; reads | CRUD, queries | - | single-row updates or read-only | - |

## 3. Modules

### Wallet
`WalletService` as operators on one account row and on what its ledger rows add
up to. A request applies them to the row it has *read*. `ensure_account` grants
the welcome credit only when it creates the row and its caller asks for it
(charge and get_or_create do, credit does not).

### Commerce
State: the tables, a summary of the ledger by user (`ledger`: rows, sum, welcome
credits) and by order (`booked`: cents charged and refunded), the number of valid
memberships or credentials an order has bought (`active`), the names of the
outbox rows enqueued for an order (`events`), the deployment's
`payment_stub_auto_complete` (`auto`, chosen once), and one open transaction per
session (`tx`).

A request is `Begin...` (reads and guards), `ReadAccount` when it touches the
wallet (by then the order's UPDATE has been flushed, so that it holds the order
row's lock) and `Commit...`. `Crash` and `Refused` roll back. Each commit makes
all the writes of the handler, its calls and the router's commit.

| Action | Code |
|---|---|
| BeginCreate, CommitCreate | `create_order` |
| BeginTopup, CommitTopup | `wallet_topup` in the router: create_order and pay_order in one transaction |
| BeginPay, CommitPay | `pay_order`, `_settle_payment`, `_on_paid` |
| BeginCancel, BeginClose | `cancel_order`, `admin_close_order` |
| BeginNotify, CommitNotify, CommitNotifyFailed | `handle_notify` |
| BeginRefund, BeginProcess, CommitRefund, CommitComplete, CommitReject | `submit_refund`, `complete_refund`, `admin_process_refund` |
| BeginGrant, BeginMyWallet, CommitWallet | `admin_wallet_grant`, `GET /me/wallet` |
| BeginExpire, CommitExpire | the worker's `expire_unpaid_orders` |
| PassDeadline | the clock passes `expire_at` |

Abstractions. Amounts are the few values of `Prices`. The rows a handler reads
before it touches the wallet are read in one step, and a commit waits for the
order row's lock even where the code only inserts a row that refers to it; such
a step commutes with those of the lock holder. `payment_refund_to_wallet` is
taken as on, its default. The cron's LIMIT (200) is never reached. Orders of kind
`companion_booking` also move a slot and a booking: they are in Booking and not in
`Kinds`. `due` is observed only while the order
is payable, since nothing else reads `expire_at`. A handler that answers with
what it found (a hit on the idempotency key, a terminal refund, a duplicate
notification) changes nothing and is no action.

### Outbox and Delivery
`Outbox` has the committed rows (`status`, `attempts`, `available`), the
notifications that handlers have committed, and per drain the batch it holds
locked, its uncommitted marks and the handler that is running. `Claim` is
`claim_batch`, `Dispatch` the start of a handler including the lookup in
`_notify`, `Handle` and `HandlerRaises` its end and the mark, `CommitDrain` the
one commit, `Crash` a death or the `job_timeout`. Which rows come first by
`available_at` is left open, so every order is covered. A handler's effect is
kept as one notification per event; handlers that only log have none.

`Delivery` is the promise to whoever enqueues: an event is owed until settled,
its effect happens at most once and only while it is owed, and it is settled as
done only after its effect. `Promise` in `Outbox` is the refinement mapping: an
event is owed while its committed status is pending.

### ActivityRoster
One activity: its row, the participants' statuses, the waitlist in the order of
`waitlisted_at`, the group, and who has an ACTIVITY_JOINED event in the outbox.
`join` and `join_waitlist` take the row lock with their first read (BeginJoin,
BeginWaitlist). `quit` is three steps: a plain read, the lock - after which the
row it loaded first keeps its old columns, since `db.get` put it into the
session and the second select does not refresh it - and the commit. `update`,
`cancel` and `review` read plain and need the lock for their UPDATE only.
`_promote_waitlist` and the count it leaves are part of the commit of quit and update
(Flush within WriteRoster), with SKIP LOCKED passing over users whose leave_waitlist is about to commit. Redelivery
of ACTIVITY_JOINED is the `Outbox` behaviour: HandleJoined may keep the event.
Left out: user status LIMITED as a guard of join, the note and its friend request,
the promotion notice and everything of an activity that is not its roster.

### Booking
The slots of one companion with their holds, the bookings, the orders that pay for
them and the counters of the profile. A request is `Begin...` and `Commit...` as in
Commerce, and rows that one request reads with several SELECTs are read in several
steps: `mark_booking_paid` reads the booking, its slot and the profile (`ReadBooking`,
`ReadSlot`, `ReadProfile`), `_release_slot` the slot of the booking it was given,
`add_review` the profile after the booking. By `ReadBooking` the order's UPDATE has
been flushed, so that the payment holds the order's row.
`Written` matters most here: a buyer who takes over a held slot whose hold has run
out sets the status to open and to held again, which SQLAlchemy writes as nothing,
while the new `hold_expires_at` is written.

| Action | Code |
|---|---|
| BeginBook, CommitBook | `create_booking` with its order |
| Lapse, BeginList, CommitList | the clock passes `hold_expires_at`; `list_slots` opens such slots |
| PlaceOrder, BeginFree | POST /orders for an existing booking, with and without something to pay |
| Charge, BeginPay, BeginNotify | `pay_order` on a channel that answers later, with an immediate provider; `handle_notify` |
| ReadBooking, ReadSlot, ReadProfile, CommitSettle, CommitNotifyPaid | `_settle_payment`, `_on_paid`, `mark_booking_paid` |
| OrderMoves | cancel, close, expire, refund of an order, rejection of a refund (in full in Commerce) |
| BeginMove, CommitMove | `transition`: decline, start, complete, cancel, with `_release_slot` |
| BeginReview, CommitReview | `add_review` |

Abstractions. Of an order only "waits", "paid" and "off" remain, with whether it was
ever settled; these moves of an order are one step, since they touch no row that a
payment of a booking reads. An order's own deadline is left out: a further order of
the booking has a later one, so it bounds nothing. Who may call what (buyer or
companion), services, amounts and the average of the ratings are left out; confirm
and reschedule write only times. The companion has a profile and is active.
`serial` says for a whole behaviour whether requests overlap.

### Requests, and the modules of users and of the back office
`Requests` holds what the following modules share: `blocks`, and how requests
overlap. A handler that reads, decides and writes is a pair `Begin...`,
`Commit...`; the record `tx[u]` keeps what u's request has read. `MayBegin` lets
one request of a user run at a time (a named bound). `serial` is chosen once for a
whole behaviour: where it holds no two requests overlap. `WrittenBack` is
SQLAlchemy's rule that a column is written only when it differs from what was
read. A property that only serial requests keep says `serial =>`, and its comment
says what goes wrong otherwise. A handler whose read decides nothing that another
can change is a single action.

**Matching.** The swipes, the match of a pair, the like counter of the day (in
Redis, so that it counts a like whose commit fails), blocks with
`_cascade_match_blocked`. A swipe never looks at blocks: `late` remembers the pairs
matched while a block stood or was being made.

**Contacts.** `open_direct`, the message request it makes for strangers, friend
requests (also from a note to a host), friendship as two rows, greetings, blocks.
`delete_friend` reads the first row in Begin and the second in Commit, which is
where an acceptance comes in between.

**Groups.** One conversation of kind "group": the rows of its members keep their
role when they leave. `_reassign_owner_or_dissolve` picks its heir in Begin.

**Clubs.** One club made by a user, or an official one with a made-up count
(`base`); the conversation that follows the club, and what the messaging endpoints
do to it on their own (`MeddleInChat`). A request reads one table at a time -
`ReadMe` and `ReadSeats` the memberships, `ReadConv` the conversation, `ReadChat` the
rows in it - and writes in its commit, `chat` (BeginEnter, CommitEnter) like the
others, which is where a kick or a dissolution comes in between. `adrift` says whose
row in the chat was last written by the messaging endpoints, left behind in a
conversation that a second first join replaced, or written by a request that another
one about the same member had overtaken. Hide, unhide and dissolve by the admin.

**Guilds.** One guild, its followers (unique in the database) and the consultations
`chat` opens with whoever owns the guild at that time.

**Content.** One post or one activity with one of its counters, written beside the
rows it counts; review and withdrawal.

**Media.** The assets of one user, one request at a time: objects, audit status,
deletion, the moderation task, the avatar, and what the profile page, the public
page and the cards decide to show.

**Transfers and Escrow.** Wallet rows as in Wallet; a transfer debits at once, and
acceptance or cancellation credits. Accepting an expired transfer raises after its
changes: nothing remains. `Escrow` is the promise, held until paid or returned,
once; `E` in Transfers is the refinement mapping. One call between two users.

**Accounts.** One account: profile and deletion by its user, reports with their
resolution, sanctions and their revocation by admins. `charge` remembers the
penalty of a report, which no row keeps.

**Sessions.** One phone number: the code in Redis with its interval and its daily
limit, and the refresh tokens with the login they descend from.

**TrustScore.** The score in hundredths, as the column `Numeric(5, 2)` holds it, and
`Ema` in ten-thousandths, as `_apply_ema` computes it: the level is chosen from the
exact value, `Stored` is what the column makes of it. Worths are in hundredths too;
values that clients send with more decimals are left out. The dedup_key,
verifications and their badge.

**Outreach.** Campaigns with their audience, which may be empty (a list of ids that
are none), the inboxes, feedback and replies. A send to nobody finds 0 in sent_count
and leaves it unwritten.

**Companions.** One profile between its user, the reviewers and the guilds.

**Memberships.** The periods of one user in days. `owed` is the history against
which they are measured: for each period, the days that were paid and neither
refunded nor used up; a day that passes uses up one of the oldest with any left.

**Staff.** The admin accounts that may manage the others, with the checks of
`update_admin`.

**Analytics.** Events by the day of their device, the raw rows, the ledger of seen
ids and the daily tables; the two nightly jobs and the erasure on request.

**Rankings.** Pure functions: `Shelves`, which are the shelves as `build_shelves`
appends them (`Appended`) put in order by `_reorder_for_engagement` (`Reordered`, the
middle by `Strength`), with `Ranked`, `ByScore`, `Diversified`; `Featured`;
`FunnelTimes`. What `score_activity` adds up is the constant `Score`, which grows with
the id. Of rails that differ in their predicate only one is kept: "filling" stands for
soon, tonight, weekend and the interests too. Editorial shelves are left out. A
behaviour is one input: a page of `MaxActs` activities
in any order of the query, a crowd of `MaxCrowd` that can all be booked, or the log
of one actor; TLC enumerates them as initial states. There are two categories.

**Seeding.** The two scripts as programs of requests: `pc` is the stage, `at` how
far it has come. `Kill` at any point, `StartRun` again; moderators and customers act
in between. `script` says which of the two.

**DemoData.** The third script, stage by stage as it commits. Time is in fifths of a
UTC day: a run is in the morning or in the evening of its day (`Moment`), the clock
does not go back, each day has one event, at an hour that is drawn anew when it is
written. `copies` says when the rows of an event were received - `Found` compares that
with the run's own time of day, as the lookup of the script does -, `counted` which
days, in Shanghai, have aggregates that count seeded events.

Definitions called "a plausible slip" are mutations kept beside the definition they
replace. `PROJECT.json` names one for each property of a run; where a property has
several parts, the further slips break the other parts.

### People and Backoffice
Two modules put the parts of one kind side by side: `People` what users do to each
other (Matching, Contacts, Groups, Clubs, Guilds, Content, Media, Transfers),
`Backoffice` accounts, their scores, the back office and the scripts. `part` says
which of them moves in a behaviour, the others stay as they began: the parts share
`serial` and `blocks` and nothing else. The properties of the runs `people` and
`backoffice` are theirs; each names the part it is about and refers to the property of
its module.

### MC modules
`MCCommerce`, `MCOutbox`, `MCRoster`, `MCBooking`, `MCPeople` and `MCBackoffice`
extend these for TLC and give the sets that a .cfg cannot and the symmetry sets
(orders, keys, clients; users, sessions; slots, bookings). Those of `MCPeople` and
`MCBackoffice` exchange both elements of every set of two at once. No symmetry is
used in a run with liveness.

## 4. Runs

| Run | Instance | Shows |
|---|---|---|
| commerce_serial | 1 user, 2 orders, 1 session, 2 payments and 2 refunds per order, membership and top-up orders, 1 key | the sequences of legal requests: LedgerReconciles, RefundsCovered, OverIsOver, OneOrderPerKey |
| commerce_overlap | 1 order, 2 sessions, activity and top-up orders | what survives overlapping: WalletSound, LedgerFollowsOrders, PaidIsServed |
| commerce_worker | 2 orders, a client and the cron, fairness | NeverPayableAgain, DueOrdersAreClosed |
| commerce_lost_update | as commerce_overlap, with one admin grant | violation of LedgerReconciles |
| outbox | 3 events, 2 drains, batches of 2, 2 attempts, 1 crash | NotifiedOnce, GivenUpAfterMaxAttempts, EveryEventSettles, DeliversAsPromised |
| roster_serial | 4 users, capacities 2 and 4, 1 session, every operation | RosterSound (the count is the roster, and whoever waits has one place), NoIdleSeat, SeatsAreGivenInTurn (in the order of the queue, and never more than there are) |
| roster_joins | 3 users, 3 sessions, no quit and no update | the row lock does what it is for: SeatedWithinCapacity, CountCoversRoster, PlaceIsKept |
| roster_oversold | 3 users, 2 sessions, join and quit | violation of SeatedWithinCapacity |
| roster_handler | 2 users, 1 session, the handler | violation of HandlerChangesNothing |
| booking | 1 slot, 2 bookings, 3 orders (2 where requests overlap), 2 sessions, 1 channel | serially: SlotFollowsBooking, BookedSlotIsBought; however requests overlap: ServedIsPaidFor, PaidReachesBooking, ProfileSound (its counts are exact serially; overlapping, rating_count never exceeds the reviews and order_count never the settled orders) |
| people | 2 users, 3 members around a group, a club and a guild, 2 assets, 2 transfers | see below |
| backoffice | 2 of each kind of actor and row, 3 to 4 days, pages of 3 activities, crowds of 9 | see below |

`people` and `backoffice` are the small parts, one moving at a time, each serially
and, where it has more than one actor, with requests that overlap:

| Property | Parts, and what it says of them |
|---|---|
| PeopleTypeOK, BackofficeTypeOK | the type invariant of the part that moves (the day's likes within the limit, a score within 0..100, are part of it) |
| MatchesHold | Matching: matched only if both like, and serially exactly if; a block ends the match |
| GroupHasItsOwner | Groups: the owner of an active group has an owner's row, and serially is in it |
| ConversationsHold | Clubs: the chat is the club, but for the rows in `adrift`; Guilds: one consultation, one's own; Contacts: friends share one chat; Transfers: a call that is over stays over |
| CountersCount | Clubs: member_count; Content: likes, bookmarks, reposts, comments, both serially |
| ShownAsMeant | Content: only what was approved, nothing that was withdrawn; Media: no deleted picture |
| NoContactAcrossABlock | Contacts: no friendship, request, greeting or conversation begins while a block stands |
| TransfersAreEscrow | Transfers implements Escrow, serially |
| StatusHasItsReason | Accounts: the status follows from reports and sanctions that stand; Companions: approved, and with its reason |
| OneTokenPerLogin | Sessions: one good refresh token per login, none after logout, no code twice, the daily limit |
| ScoreIsEarned | TrustScore: an event once, the level of the score before it was rounded, a step of at most 15% of the worth, rounded, no badge without approval |
| OnceEach | Outreach: a campaign goes out once, what is delivered is what was announced, sent_count is that of the last send that reached anybody; Analytics: an event counts once, erased ones do not come back; Memberships: no paid day is lost |
| ListsAsMeant | Rankings: what is recommended (forYou, more) is on no other shelf before but ranked, fewer than two bookable activities are left out unless "more" is full, what is full is shown only where it is joined or ranked and what is over nowhere, following comes first, ranked and more last and the rest by strength, three of a category in a row only if there is nothing else, the best that can be booked is featured and nothing if none can, a funnel is ordered |
| RunsAgain | Seeding: seed_pages is safe to kill and re-run; DemoData: so are the stages, for runs at one time of day within `Slack` days, and a reset leaves nothing |
| SomebodyManages | Staff: an active admin who may manage the others, serially |

Bounds. Two orders show every confusion between orders of one user; a second
payment and a second refund of an order are what double settlement and a
resubmitted refund need, and a third adds no new pair. Two overlapping
transactions are enough for a lost update and for every guard passed on a stale
row; the overlap runs keep one order, since orders only meet in the wallet, which
the top-up kind exercises. `MaxRows` stops admin grants; the wallet is otherwise
bounded by the payments. Three events with batches of two leave one event for
the other drain. One slot is where all bookings of it meet; two bookings are a late
payer and the buyer who took over, and the third order a second one of either.
`MCOverlapBound` keeps overlapping behaviours to two orders. Two attempts reach both
branches of `mark_failed`; the proofs hold for every MaxAttempts. With capacity 2 one
user fills the activity beside the host; four users give a waitlist of three.

Of the parts: matches, contacts and transfers are between two users. Three members
make an owner, an heir and one who comes back. A guild has its owner and somebody who
asks; the third member is who becomes owner or is added. Two overlapping requests per
part, since each user and admin has one open. Two transfers show one that is accepted
and one that is cancelled; amounts 1 and 2 against a gift of 2 reach a purse that
does not cover. Three days pass `Retention` (2) and `MaxAge` (1) of the analytics,
which are 180 and 7 in the code; only their order matters. The shelves are cut at 8 to 12 in
the code, at `RailLimit` (2) and `MoreLimit` (3) here: a crowd of nine fills the rails
and "more" and leaves one over, a page of three leaves shelves too short. Three memberships of one
or two days within four days let one run out between two others and be refunded in
any order. Two sanctions and one report in each other's way; two seeded titles, one of
them left pending. The demo data has events of 2 days (up to 60 in the code), a lookup
that goes `Slack` (2, as in the code) days further and a reset that recomputes today
and the `RecountDays` (4, 61 in the code) days before it; five days let a run come back
inside and outside of the slack, and a reset come too late. `MCWorths` are a sanction, a value so small that the column
rounds its effect away and an adjustment that crosses levels. `MCScore` is near here
and far apart there, so that the bonus of "filling" changes the order of some pages
and not of others. `MCSmall` names what is cut off: counters that drift without bound
where requests overlap, the third member near a club (`TwoAtTheClub`, which also keeps
it from being hidden, its conversation from being replaced twice and a third request
from being open) or a guild then, and a seeder of demo data that has been used or cut
off already.

Each passing property has a mutant: a definition that carries a plausible bug,
under which TLC finds the property violated in the same run.

Deadlock is not checked (`CHECK_DEADLOCK FALSE`): with every order closed, every
event settled or every activity cancelled, and all bounds reached, the system
really has nothing left to do. A part of `people` or `backoffice` may come to rest
the same way, and Rankings never moves.

### What the serial and the overlap runs say together
LedgerReconciles, RefundsCovered, OverIsOver (no money is kept for an order that was
never paid, no refunded membership goes on) and OneOrderPerKey hold for every
sequence of requests and fail when requests overlap, because nothing locks the rows.
The overlap run checks what remains true: a balance never turns negative (a charge
compares with the row it writes from), the welcome credit is given once (the primary
key), the payment row and the ledger row commit together, a completed refund was
credited, a paid order has its event.

Booking says the same of slots. Serially, and as long as no hold has run out, slot
and booking agree exactly. A hold that runs out during a payment does sell a slot
twice (the late payer and the new one are both served), which is why
SlotFollowsBooking speaks of slots whose holds never ran out; BookedSlotIsBought,
PaidReachesBooking and ServedIsPaidFor hold all the same. The counters are exact
serially. Where requests overlap, counts get lost, and two payments of one booking
that both find it waiting count one sale twice when the second reads the profile after
the first has committed: order_count then runs ahead of the bookings sold. What is left is
that no settled order counts twice and that rating_count does not run ahead.

The parts of users and of the back office follow the same pattern, and "serially" in
the table above marks what only holds so. What overlapping requests break there is in
the comment of the property and, in short, under "Observations".

### Findings
1. `commerce_lost_update`: the "optimistic lock" of `wallet.py` increments
   `version` and never compares it. Two postings of one user that overlap leave a
   balance that differs from the ledger.
2. `roster_oversold`: `quit` writes a `join_count` computed from the row it
   loaded before it took the lock. A join in between is forgotten, and the
   capacity check of the next join passes with no seat left.
3. `roster_handler`: the ACTIVITY_JOINED handler is documented as repeating what
   the join path did; after a quit it adds the user to the group again.

### Observations
Met while modelling; no run is spent on them, because nothing in the repository
promises the opposite or because the model only had to follow the code.

*Scripts.* The admin lists show pending rows by default, so that `seed_content`
finds nothing of what it published: each run creates its activities and posts again
(`seed_content.py:9` says idempotent), and no shelf, since its lists of published
ids stay empty. It opens a second slot at the hour of a booked one. `seed_pages` fails for
good once a moderator has rejected or taken down one of its activities (409), and
until the order expires if it was killed between booking and paying; a shelf it was
killed on stays short, the details of an activity it was killed after creating are
lost. A reset of `seed_demo_data` that is killed between its two commits, or comes
so late that the 62 days it recomputes no longer reach the first seeded events,
leaves those in the dashboards
(`docs/SEED_DATA.md` says they are recomputed). A run three days after the first looks
for events from its own time of day on, misses those that the oldest day has before
that hour and inserts them again (`docs/SEED_DATA.md:30` says 幂等，可重复执行, `:88`
不会重复); one at another hour marks a second slot as booked; a demo account that opened its
wallet first gets a balance that differs from its ledger; a follow or like made in the
app makes the stage fail on the unique key; a reset takes real users' bookings of
seeded companions with it.

*Shelves.* The fallback of `pick_featured` to activities that are not over
(`shelf_builder.py:274`) never returns one: what is not bookable is full, and `ranked`
leaves that out unless it is asked for.

*Clubs, groups, guilds.* `chat` looks at the membership, then brings the row in the
chat back; a kick or a dissolution that commits in between leaves somebody in the chat
who is no member (`clubs/service.py:399` calls it 成员专属, for members only). Unhiding revives a dissolved club that was hidden
(`clubs/service.py:437` says it cannot be restored). Members of a hidden club cannot
leave it, and whoever was added to its chat only cannot leave that. A member who comes
back keeps the role of their old row. An owner and an heir who leave together leave
the group to nobody. A guild's owner who asks the guild may be handed a customer's
consultation.

*Contacts and matches.* A swipe does not look at blocks. Two likes that cross make no
match, and neither can be repeated. An acceptance that overlaps `delete_friend`
leaves half a friendship. A conversation of friends may keep its is_message_request
mark.

*Money.* Acceptance and cancellation of a transfer that overlap credit both. The
refund of an expired transfer is rolled back with the error that reports it. A refund
of a membership leaves its days with the period that was stacked on it, and leaves
the membership's credential valid.

*Accounts and trust.* The "limit" of a report lifts a standing ban; revoking the last
sanction lifts the ban of a report; a warning that stands keeps an account limited; a
sanction that lapses changes no status. A rejected companion who resumes while being
rejected is active. The score and the level of two overlapping events may belong to
different events. A score of 69.995 is stored as 70.00 beside the level "trusted",
which ends below 70. Rejecting a media task does not reject the asset; update_profile
accepts a deleted asset as the avatar, and cards do not look at deleted_at.

*Sessions and staff.* Overlapping refreshes leave two good tokens, and a refresh in
flight outlives a forced logout; refreshing does not look at the user's status. Two
superadmins who demote each other at once leave none.

*Ops and analytics.* Two sends of a campaign that overlap notify twice, and so does a
user listed twice; if the audience has been emptied in between, the second announces 0
and leaves the count of the first. Events without `sent_at`, or dated in the future, escape the age
limit.

## 5. Fairness

Outbox: weak fairness of Claim, Dispatch, the end of a handler and CommitDrain
per drain, and of the backoff per event. The cron starts a drain every 15
seconds, a drain runs its loop to the end unless it is cut off, a handler returns
or raises (a handler that hangs is cut off by `job_timeout`, which is a Crash), and
time passes. The number of crashes is bounded; see the hazard at
`workers/settings.py` for what a handler that hangs for ever would do.

Commerce (LiveSpec): weak fairness that the cron starts when there are due orders
and strong fairness that its commit goes through: a run that dies is started again
five minutes later, for ever. Requests that have begun end (weak fairness of the
steps of an open transaction); nothing obliges a client to send any.

The parts of `people` and `backoffice`, ActivityRoster and Booking state no
fairness: what they promise is safety, and no client is obliged to go on.

## 6. Proofs

`OutboxProofs` proves, for every set of events and drains, every batch size and
every number of attempts and crashes:

* TypeCorrect: `Spec => []TypeOK`.
* NotifiedAtMostOnce, NothingIsLost, GivenUpInTime: the safety invariants.
* SettledStaysSettled: `Spec => SettledForGood`.
* OutboxDelivers: `Spec => DeliversAsPromised`, the refinement of Delivery.

NotifiedOnce is not inductive: that a handler which found no notification may
insert one holds only because nobody else handles the event meanwhile. `IInv`
adds this: events in a batch are pending and in one batch only
(BatchesAreLocked), marks and running handlers are of the drain's batch
(MarksAreClaimed), what a running handler found is still so (SeenIsCurrent), and
what is marked done has been notified (MarkedDoneIsNotified). GivenUpInTime adds
AttemptsFit, the attempts by status. The assumptions are those of
OutboxAssumption: positive bounds and "none" is no event. For the refinement a
handler's commit maps to Deliver (or a stutter), CommitDrain to Settle of the
events marked done and those given up.

`CommerceProofs` proves, for every set of users, orders, sessions, keys, kinds and
prices and for every bound:

* TypeCorrect: `Spec => []TypeOK`.
* WalletStaysSound: `Spec => []WalletSound`, with any number of overlapping
  requests and of crashes.
* PaymentsAreHeard: `Spec => []PaidIsServed`; SettledOrdersStaySo:
  `Spec => NeverPayableAgain`; BooksFollowOrders: `Spec => []LedgerFollowsOrders`,
  with the same generality.
* LedgerStaysReconciled, OverHoldsNothing, KeysStayUnique, RefundsNeedPayments:
  `Spec => []LedgerReconciles`, OverIsOver, OneOrderPerKey and RefundsCovered, from
  the assumption OneSession (all sessions are one, as in `commerce_serial`). Without it
  all four are false: `commerce_lost_update` shows it for LedgerReconciles.

A balance is typed as a natural number, so typing and soundness need each other:
`_credit` writes a natural number only when the charge is covered by the row the
request holds. `IInv` adds three things to TypeOK. OrdersOwned: an order in the
table has a user, and only those have refunds. WelcomeWithAccount: a user without
an account has had no welcome credit, which with the primary key (Ready refuses an
insert beside an existing row) is why there is only one. GoodTx: what an open
transaction relies on stays true while others commit - its order is still in the
table, and a charge that has passed its guard is covered by the row that the
request *holds*, whatever the table says by now; the commit computes from the row
held, so the balance it writes is not negative. The proof has one lemma per
operator of Wallet, one per part of the state that a commit writes (OrdersKept,
PaymentsKept, RefundsKept, WalletKept, ServiceKept) and one per action. The
assumptions are CommerceAssumption (prices and bounds are natural numbers,
"wallet" is no stub channel, "none" is no order) and WelcomeAssumption. That
WalletSound survives overlapping requests while LedgerReconciles does not is the
point: the wallet can lose a posting, and cannot be overdrawn by its own columns.

The other theorems come in layers, each invariant conjoined to the one before.
`HeardInv` says what no commit of another request takes back (Knows): an order being
inserted is nobody else's, one being refunded or processed has had its ORDER_PAID,
and a pay has read pending_payment, the only payable status a row ever has. `BooksInv`
adds that the price an open request has read never changes, that the payment or refund
row it works on is still there with its method or cents (Posts), and counts wallet
payments: charged = price * their number. `AloneInv` adds, for one session, that the
order row and the account row in hand are the table's (UpToDate); with that each
posting adds to a balance that agrees with the ledger, and a cancellation finds the
order still unpaid. `CoverInv` explains RefundsCovered, which is far from inductive:
the refunds of an order that are open or completed, plus one while it is paid and may
ask for another, never outnumber its payments that succeeded (Covered). A rejection
gives the order its claim back, a late notification of a second payment adds a
payment and a claim, and closing an order takes the claim away for good.

`RosterProofs` proves, for every set of users, every number of sessions and every
choice of capacities, and from the assumption JoinsOnly (the operations of the
instance include neither quit nor update, as in `roster_joins`):

* JoinsAreCounted: `Spec => []CountCoversRoster`.
* JoinsNeverOversell: `Spec => SeatedWithinCapacity`.

This is what the `SELECT ... FOR UPDATE` of join buys. `RosterInv` says why: whoever
holds the lock holds it alone and sees the table's count and capacity (HoldsRow), and
a join that is about to commit holds the lock and found a seat (MayJoin), so its guard
is still true when it commits. Without JoinsOnly both are false: `roster_oversold`.

With every operation:

* PlacesAreKept: `Spec => PlaceIsKept`, whatever overlaps: whoever goes on waiting
  stays before those who came later.
* RosterIsSound, NoSeatIdles, SeatsGoInTurn: `Spec => []RosterSound`,
  `[]NoIdleSeat` and `SeatsAreGivenInTurn`, from OneSession (all sessions are one, as in
  `roster_serial`).

`PlacesInv` says that the queue holds whoever waits, once (QueueSound), and what an
open request may still do to it (RequestSound): a join of the waitlist holds the lock
until it commits, so nobody is appended twice. `SoloInv` adds that the one open request
sees the row and the statuses as they are (IsFresh), that nobody waits for an activity
that is not published, and the two invariants themselves; FlushIsFair says of one
promotion that it takes the front of the queue and as many as there are seats.
`Without`, which takes users out of a queue, is a recursive function, and what it keeps
of the order is proved by induction on the length, from the least length where it would
fail (LeastNat).

`BookingProofs` proves, for every set of slots, bookings, orders, channels and
sessions:

* NothingServedUnpaid: `Spec => []ServedIsPaidFor`.
* PaymentsArrive: `Spec => []PaidReachesBooking`.
* BookedWasBought: `Spec => []BookedSlotIsBought`.
* SlotHasOneHolder: `Spec => []SlotFollowsBooking`.
* CountersAreSound: `Spec => []ProfileSound`.

The first two hold although no row is locked for the reader, because open requests rest on
what does not change back (Rests): an order keeps its booking and stays settled, a
booking that was seen to wait no longer never waits again, and a booking or an order
that does not exist yet is made by one request only. The first needs the booking that
a start has read to have been paid for already, the second needs a settlement to have
found its booking waiting or past it.

The other two speak of requests that do not overlap (two buyers who do take the same
slot, a hazard of PROJECT.json). `BoughtInv` says that an open request has nobody beside it and
that the slot status it read is still the table's (KnowsSlot); with that the last
write to a slot is the one of its booking. `FollowInv` adds what the request knows of
its booking (KnowsBooking: one that is being paid still waits, one that is moved still
stands, and a held slot is taken or opened only once its hold ran out), that a hold
that ran out is recorded in `lapsed`, and Follows: on a
slot whose holds never ran out stands one booking at most, and its status is the one
due to it. `CountInv` adds that a payment that has read order_count works on an
order that is not settled yet and holds its row alone (LocksExclude), and that what it
read does not exceed the orders settled without it; a review that has read
rating_count likewise for the reviews; serially both have read the counter as it is
(CountRests). So order_count may run ahead of the bookings sold where requests
overlap, and never of the settled orders. The assumption is BookingAssumption ("none" names nothing).

`TransfersProofs` proves, for every set of users, transfers and sums and every welcome
credit:

* TransfersImplementEscrow: `TransfersSpec => TransfersAreEscrow`, by the mapping of
  the run: a purse is the balance of an account, the known are those who have one (the
  others still get the welcome credit), a transfer is held, paid or returned.

The refinement speaks of requests that do not overlap. `TransfersInv` says that the
purse and the transfer an open request read are then still the table's (Grounded);
in every other behaviour too that a purse is a natural number, since it is computed
from the row that was looked at (Checked), and that a purse of nobody is empty.

`PeopleProofs` proves the properties of the run `people`, for every set of users,
members, assets and kinds of item and every limit:

* PeopleAreTyped: `PeopleSpec => []PeopleTypeOK`.
* MatchesAreMutual, ConversationsAreRight, CountersAreRight, ShownIsRight:
  `PeopleSpec => []MatchesHold`, `[]ConversationsHold`, `[]CountersCount`,
  `[]ShownAsMeant`.
* NoContactThroughABlock: `PeopleSpec => NoContactAcrossABlock`.
* GroupIsOwned, GroupsAreOwned: `GroupsSpec => []GroupHasItsOwner` and
  `PeopleSpec => []GroupHasItsOwner`.
* PeopleImplementEscrow: `PeopleSpec => TransfersAreEscrow`.

Each part has an inductive invariant, and `PeopleInv` says that the part that moves
keeps its own. What they add to the types and to the promise:

| Invariant | What makes the promise last |
|---|---|
| GroupInv | the row that owner_id names keeps its role whatever overlaps; serially the heir of a leaving owner is still in the group, and whoever is kicked is not the owner (StillAsRead) |
| MatchInv | a like that found the other half stays right, since likes are never taken back; serially so does one that did not find it; a block that read no active match may be overtaken only by a like that knows of the block (UnderBlock) |
| ContactInv | a conversation is added by a request that found none; as each of the two users has one request open, a pair never gets a third; serially whoever goes on is still not blocked |
| ClubInv | an open request that nobody has overtaken on a member's rows has read them as they are, so that it writes a membership and a place in the chat that agree (Sound); whoever was overtaken leaves the member `adrift`; serially the count in hand is the table's (ClubAlone) |
| GuildInv | who is in a consultation asked for it unless they were the owner or were added (`inside`); nobody else can be in two, since only their own request adds one and it found none |
| ContentInv | a mark begins on a published item, and approval is for good; serially counter and status in hand are the table's |
| MediaInv | what the avatar points to is not deleted unless it was when chosen |
| CallInv | while an answer is open that nothing overlaps, the call still rings |

`BackofficeProofs` proves the properties of the run `backoffice`, for every set of
accounts, admins, sanctions, events, campaigns, orders and titles, and for every limit,
retention and number of days:

* BackofficeIsTyped: `BackofficeSpec => []BackofficeTypeOK`.
* StatusIsRight, ScoreIsRight, OnceEachHolds, RunsAgainHolds:
  `BackofficeSpec => []StatusHasItsReason`, `[]ScoreIsEarned`, `[]OnceEach`,
  `[]RunsAgain`.
* ListsHold: `BackofficeSpec => []ListsAsMeant`.
* TokensRotate, OneTokenHolds: `SessionsSpec => []OneTokenPerLogin` and
  `BackofficeSpec => []OneTokenPerLogin`.
* StaffTypes, StaffManaged, SomebodyStays: `StaffSpec => []StaffTypeOK` and
  `[]SomebodyManages`, `BackofficeSpec => []SomebodyManages`.

| Invariant | What makes the promise last |
|---|---|
| StaffInv | a check of the sender's own row cannot see the other superadmins; one survives because serially whoever sends the request is one, still sees the row it read and may not demote themselves (StaffGrounded) |
| CompanionInv | who resumes read a profile that was approved, and approval is for good; serially the profile in hand is the table's |
| TrustInv | what an event does to a score is bounded for every score and worth: the stored step is at most the stored 15% of the worth; serially the score in hand is the table's, and its level is that of some exact value which is stored as it (Coherent) |
| AccountInv | serially a revocation saw every sanction that still stands and none that was revoked, although some may lapse while it is open (Others, OthersLeft) |
| AnalyticsInv | an accepted event is in the ledger of seen ids until its day expires, and by then it is too old to be taken again, since MaxAge < Retention (Accepted); what is stored was accepted (RawWasAccepted) and a finished day keeps what it received (ClosedCount), and a rebuild reaches no expired day |
| OutreachInv | what is delivered of a campaign grows by what a send announces, and a send to somebody writes the count that a later send to nobody leaves alone (SentAsAnnounced, LastAppends); serially the campaign of the open send was not announced yet (SendsFirst) |
| MemberInv | serially a period with days left is active and lasts as long as it and the older ones are owed (OwedIsCovered); before the first refund none lasts longer (NoneGiven) |
| SeedInv | what a run of seed_pages has found stays true until it uses it: a title found without a row has none, and what was reviewed is never pending again (TitlesSoFar); each stage leaves what the next ones take for granted (StagesSoFar) |
| DemoInv | as long as nobody used the accounts, what is kept was written by runs like the first (SeededAlike, RunIsAlike), so each finds its own rows; an event is received no earlier than its day begins, counted from the first run, and no later than now (EventsAreRecent): runs within Slack days look back as far, and the aggregates and the reset recompute its day |
| AuthInv | the code that is out is never a used one and new codes have new numbers (CodesOnce), a family has one good token and none once it is over (TokensOnce), and what the one open request found is still so (Rests) |

The counts of AnalyticsInv and the sums of OutreachInv and MemberInv are over sets of
any size. `SumFunction` folds a set in an order that CHOOSE picks; that a sum takes
its elements in any order, and follows a change of one of them, is proved by
induction over finite sets (SubsetInduction, SumTakesAny, SumSame, SumAppends).

Assumptions of the parts. A trust event's worth is an integer (of hundredths) and an unnamed dedup_key
is no key (TrustAssumption); users, campaigns and events are finite sets
(OutreachAssumption, AnalyticsAssumption), as rows are; MaxAge < Retention and
Rebuildable < Retention, as configured; not all of the seeded titles are left
pending (SeedingAssumption: 17 of 20 are published), without which the shelf would
stay empty; a reset reaches at least as far back as the days that are seeded
(DemoAssumption: 61 days before today against at most 60 days of events).

`RankingsProofs` holds the lemmas behind ListsHold: nothing of Rankings moves, so what
is to be shown holds of every input, for pages of any length, any cuts and any log.

* ByScoreSorts: the activity with k - 1 better ones is the k-th, by induction on the
  number of better ones, so a sort loses nothing and goes down.
* DiversifiedIsWhole: after every round the done and the pool are the list taken apart
  (SoFar): the pool keeps its order, what is done of a category is better than what is
  left of it, and a third of one category was placed only when the pool had no other.
* AppendedIsRight: what is claimed is on a shelf, what is on a shelf other than "ranked"
  is claimed, and each shelf was disjoint from what was claimed when it was taken from
  what is left (ShelvesSoFar, ShelvedWell). "more" takes what nobody claimed, so fewer
  than two (MinimumCount) are left out, or the cut was reached. What is full passes none of
  the filters but those of "following" and "ranked".
* ReorderedSorts, ShelvesAreRight: Ahead is a strict order of the shelves (AheadIsAnOrder),
  so counting who is ahead puts each shelf at one place: none is lost, and a page begins
  with "following", goes on from the strongest to the weakest and ends with "ranked" and
  "more". What was said of the shelves as appended then holds of the page.
* FeaturedIsBest: with something bookable, the first of a diversified list is the first
  of the sorted one; without, what is ranked is empty.
* FunnelIsGreedy: taking the earliest time for each step reaches a step whenever some
  choice of times does, and no earlier choice ends before it.

RankingsAssumption asks of the constants that the bounds and times are natural numbers,
that "more" may hold the two items that make a shelf (12 in the code) and that the
score grows with the id, which is what an id stands for.

TypeCorrect, NothingIsLost and SettledStaysSettled state TypeOK, DoneIsNotified and
SettledForGood, StaffTypes StaffTypeOK. No run lists these by themselves: the runs
check stronger or broader formulas (the refinement of Delivery,
GivenUpAfterMaxAttempts, WalletSound, BackofficeTypeOK). TLC agreed with each of these,
and with the inductive invariants, on small instances before they were proved.

Induction. The library's induction theorems take an operator as a parameter and
cannot be used here. Where a proof needs induction, the set of counterexamples has a
least number (LeastNat, from the well-foundedness of `<` on the naturals) or a least
subset (SubsetInduction): both are stated for a set instead
of a predicate.

Only model-checked: the liveness properties (EveryEventSettles,
DueOrdersAreClosed), which are beyond the prover, and the formulas that runs expect to
be violated. That the serial properties
fail where requests overlap is shown by the runs that expect a violation and by the
observations above.

## 7. Plan

Done: Wallet, Commerce, Memberships; Outbox with Delivery; ActivityRoster; Booking,
Companions; Contacts, Groups, Clubs, Guilds, Matching, Transfers with Escrow;
Accounts, Sessions, Staff, TrustScore; Content, Media, Outreach; Analytics, Rankings;
Seeding, DemoData; People and Backoffice; the theorems of section 6, which state every
safety property that the runs show.

Components to add: buddy intents and invites (they expire and are answered),
taxonomies and the editing of shelves, journeys and safety check-ins.

## 8. Not modelled

* Discover cards, the leaderboard, lists, histories and the metrics endpoints: they
  read and keep nothing.
* Announcements, taxonomies, app configuration, feature flags, tags, settings, photos
  in a profile, follows apart from the seeded ones: an operation writes one row of one
  user or one admin, and no other row depends on it.
* Buddy intents and invites, journeys, safety check-ins, dating mode: they have a
  lifecycle of their own; see section 7.
* The audit log and message events are only written. Notifications that are written
  by the outbox and by campaigns are modelled, being delivered to a phone is not.
* Rate limits in Redis, except those that a component reads for its own decisions
  (SMS codes, the day's likes).
* The HTTP layer, the format and signature of tokens, the SMS, push and IM providers
  (stubs in this repository), object storage beyond what exists and what does not.
* Deployment and migrations. Unique constraints, foreign keys and cascades are taken
  from `models/entities.py` as it stands, under PostgreSQL at READ COMMITTED.
