------------------------------- MODULE DemoData -------------------------------
(***************************************************************************)
(* src/scripts/seed_demo_data.py, which writes demo data through the       *)
(* models: stage by stage, a transaction each, every row under an id made  *)
(* of its name and left alone when the id is there; and its reset, which   *)
(* deletes by the prefix of those ids.  It is killed and run again at any  *)
(* point, days later too, while the demo accounts are in use.              *)
(*                                                                         *)
(* Of the rows of a stage the model keeps what somebody else writes or     *)
(* what a later run writes again: one account's wallet, a row that is      *)
(* unique without its id (a follow), a like and its counter, the slots of  *)
(* a companion and the booking of one, an image, the analytics events.     *)
(* The other rows are "kept".  An image without a row does no harm and is  *)
(* left out.  All runs have the same arguments, and the clock does not go  *)
(* back.  Time is in fifths of a UTC day.                                  *)
(***************************************************************************)
EXTENDS Integers, FiniteSets

CONSTANTS
  EventDays,    \* --analytics-days
  Slack,        \* days past those that are searched for an event: 2
  RecountDays,  \* days before today that the reset recomputes: 61
  LastDemoDay       \* named bound

ASSUME DemoAssumption ==
  /\ EventDays \in Nat \ {0} /\ Slack \in Nat
  /\ RecountDays \in Nat /\ EventDays <= RecountDays /\ LastDemoDay \in Nat

VARIABLES
  now,      \* the day, in UTC
  run,      \* the stage a run is in, its time of day, whether it is a reset or both
  kept,     \* stages committed since the last reset
  image,    \* the file of a seeded image is there
  purse,    \* one demo account's wallet_accounts row and the sum of its ledger
  follow,   \* a seeded follow: "none", "seeded", or "app" under another id
  like,     \* a seeded like: "none" or "seeded"
  likeCount, \* like_count of its post
  slot,     \* slots of one companion, in order
  booked,   \* the slot of the seeded booking, or 0
  copies,   \* copies[o]: when the rows of an event of o days before its run were received
  counted,  \* days, in Shanghai, whose aggregates count seeded events
  first,    \* the first run since the last reset (history)
  touched,     \* since then: an account was used, or a run was not like the first (history)
  cut       \* a reset was killed half way or came too late (history)

rowVars == <<kept, image, purse, follow, like, likeCount, slot, booked, copies, counted>>
demoVars == <<now, run, rowVars, first, touched, cut>>

Ages == 0 .. (EventDays - 1)
Slots == 1 .. 3
NoPurse == [exists |-> FALSE, balance |-> 0, ledger |-> 0]
NoRun == [day |-> -1, evening |-> FALSE]

DemoInit ==
  /\ now = 0 /\ run = [stage |-> "off", evening |-> FALSE, seeds |-> FALSE]
  /\ kept = {} /\ image = FALSE /\ purse = NoPurse
  /\ follow = "none" /\ like = "none" /\ likeCount = 0
  /\ slot = [i \in Slots |-> "none"] /\ booked = 0
  /\ copies = [o \in Ages |-> {}] /\ counted = {}
  /\ first = NoRun /\ touched = FALSE /\ cut = FALSE

\* amain: the order of the stages, each of them a transaction.
Follows == [unlink |-> "clear", users |-> "trust", trust |-> "social", social |-> "activities",
            activities |-> "posts", posts |-> "clubs", clubs |-> "companions",
            companions |-> "commerce", commerce |-> "ops", ops |-> "events",
            events |-> "aggregates", aggregates |-> "done"]
\* NOW: a run is in the morning or in the evening of its day.
Moment == 5 * now + (IF run.evening THEN 3 ELSE 1)

\* The date in Shanghai, eight hours ahead: an evening run is in its next day.
ShanghaiDay(t) == (t + 2) \div 5
Today == ShanghaiDay(Moment)

AtRest == run.stage \in {"off", "done", "cleared"}
Enters(stage) == run' = [run EXCEPT !.stage = stage]

\* stage: its rows are flushed and committed.
Commits(name) ==
  /\ run.stage = name /\ Enters(Follows[name])
  /\ kept' = kept \cup {name}
  /\ UNCHANGED <<now, cut>>

\* --reset, --reseed or neither.
StartDemo(evening, resets, seeds) ==
  /\ AtRest /\ (resets \/ seeds) /\ (run.evening => evening)
  /\ run' = [stage |-> IF resets THEN "unlink" ELSE "users", evening |-> evening, seeds |-> seeds]
  /\ UNCHANGED <<now, rowVars, first, touched, cut>>

\* Only a reset leaves something behind that the next run does not make up for.
KillDemo ==
  /\ ~AtRest /\ Enters("off")
  /\ cut' = (cut \/ run.stage \in {"clear", "recount"})
  /\ UNCHANGED <<now, rowVars, first, touched>>

DayPasses ==
  /\ AtRest /\ now < LastDemoDay /\ now' = now + 1
  /\ run' = [run EXCEPT !.evening = FALSE]
  /\ UNCHANGED <<rowVars, first, touched, cut>>
-----------------------------------------------------------------------------
\* seed_users writes the image again whether or not its row is there.
SeedUsers ==
  /\ Commits("users") /\ image' = TRUE
  /\ IF first = NoRun
     THEN first' = [day |-> now, evening |-> run.evening] /\ UNCHANGED touched
     ELSE /\ touched' = (touched \/ run.evening # first.evening \/ now - first.day > Slack)
          /\ UNCHANGED first
  /\ UNCHANGED <<purse, follow, like, likeCount, slot, booked, copies, counted>>

SeedTrust ==
  /\ Commits("trust")
  /\ UNCHANGED <<image, purse, follow, like, likeCount, slot, booked, copies, counted, first, touched>>

\* A row of the app for the same two users is in the way of the seeded one, and the
\* run dies.
SeedSocial ==
  /\ Commits("social") /\ follow # "app" /\ follow' = "seeded"
  /\ UNCHANGED <<image, purse, like, likeCount, slot, booked, copies, counted, first, touched>>

SeedActivities ==
  /\ Commits("activities")
  /\ UNCHANGED <<image, purse, follow, like, likeCount, slot, booked, copies, counted, first, touched>>

\* The counter is a column of the post and comes with it; a like that was taken back
\* comes again without it (one given anew is in the way, like a follow).
SeedPosts ==
  /\ Commits("posts") /\ like' = "seeded"
  /\ likeCount' = IF "posts" \in kept THEN likeCount ELSE 1
  /\ UNCHANGED <<image, purse, follow, slot, booked, copies, counted, first, touched>>

SeedClubsGuilds ==
  /\ Commits("clubs")
  /\ UNCHANGED <<image, purse, follow, like, likeCount, slot, booked, copies, counted, first, touched>>

\* Hours of the day that are over get no slot and are not in the run's list.
Listed == IF run.evening THEN {2, 3} ELSE {1, 2}

SeedCompanions ==
  /\ Commits("companions")
  /\ slot' = [i \in Slots |-> IF i \in Listed /\ slot[i] = "none" THEN "open" ELSE slot[i]]
  /\ UNCHANGED <<image, purse, follow, like, likeCount, booked, copies, counted, first, touched>>

\* A plausible slip: the account is written whatever is there.
PurseRewritten == [exists |-> TRUE, balance |-> 3, ledger |-> purse.ledger + 3]

\* put of the ledger rows (3 in all, the welcome credit among them) and then of the
\* account, which may be there already.
PurseSeeded ==
  IF "commerce" \in kept THEN purse
  ELSE [exists |-> TRUE, balance |-> IF purse.exists THEN purse.balance ELSE 3,
        ledger |-> purse.ledger + 3]

\* The booking takes the first slot of the run's list; the slot is marked at every run.
SeedCommerce ==
  LET slotOf == CHOOSE i \in Listed : \A j \in Listed : i <= j IN
  /\ Commits("commerce") /\ purse' = PurseSeeded
  /\ booked' = IF "commerce" \in kept THEN booked ELSE slotOf
  /\ slot' = [slot EXCEPT ![slotOf] = "booked"]
  /\ UNCHANGED <<image, follow, like, likeCount, copies, counted, first, touched>>

SeedOps ==
  /\ Commits("ops")
  /\ UNCHANGED <<image, purse, follow, like, likeCount, slot, booked, copies, counted, first, touched>>

\* When the event of o days before the run is received: at an hour of its day that is
\* drawn, or just before the run where that is still to come.
ReceivedAt(o, hour) ==
  LET t == 5 * (now - o) + hour IN IF t > Moment THEN Moment - 1 ELSE t

\* A plausible slip: the days of the events are searched and no more.
FoundInDays(o) == \E t \in copies[o] : t >= Moment - 5 * EventDays

\* Rows of the event that the run finds: it looks Slack days past the events' own, but
\* from its own time of day on.
Found(o) == \E t \in copies[o] : t >= Moment - 5 * (EventDays + Slack)

\* seed_analytics up to its commit: of each day one event, early or late.
SeedEvents ==
  /\ Commits("events")
  /\ \E hour \in [Ages -> {0, 4}] :
       copies' = [o \in Ages |-> IF Found(o) THEN copies[o]
                                ELSE copies[o] \cup {ReceivedAt(o, hour[o])}]
  /\ UNCHANGED <<image, purse, follow, like, likeCount, slot, booked, counted, first, touched>>

DaysWithEvents == {ShanghaiDay(t) : t \in UNION {copies[o] : o \in Ages}}

\* rebuild_day of today and so many days before.
Rebuilt(days) ==
  LET window == (Today - days) .. Today IN
  counted' = (counted \ window) \cup (DaysWithEvents \cap window)

SeedAggregates ==
  /\ Commits("aggregates") /\ Rebuilt(EventDays)
  /\ UNCHANGED <<image, purse, follow, like, likeCount, slot, booked, copies, first, touched>>
-----------------------------------------------------------------------------
\* reset_seed: the files go first.
UnlinkImages ==
  /\ run.stage = "unlink" /\ Enters("clear") /\ image' = FALSE
  /\ UNCHANGED <<now, kept, purse, follow, like, likeCount, slot, booked, copies, counted,
                 first, touched, cut>>

AfterReset == IF run.seeds THEN "users" ELSE "cleared"

\* A plausible slip: the aggregates are left to the nightly job.
AfterClearAnyway == AfterReset

\* The aggregates are recomputed only if there were events.
AfterClear == IF DaysWithEvents = {} THEN AfterReset ELSE "recount"

\* One transaction deletes all rows, those of the app that hang on the accounts too.
ClearRows ==
  /\ run.stage = "clear" /\ Enters(AfterClear)
  /\ kept' = {} /\ purse' = NoPurse /\ follow' = "none" /\ like' = "none" /\ likeCount' = 0
  /\ slot' = [i \in Slots |-> "none"] /\ booked' = 0 /\ copies' = [o \in Ages |-> {}]
  /\ first' = NoRun /\ touched' = FALSE
  /\ cut' = (cut \/ (first # NoRun /\ Today - first.day > RecountDays - EventDays + 1))
  /\ UNCHANGED <<now, image, counted>>

Recount ==
  /\ run.stage = "recount" /\ Enters(AfterReset) /\ Rebuilt(RecountDays)
  /\ UNCHANGED <<now, kept, image, purse, follow, like, likeCount, slot, booked, copies,
                 first, touched, cut>>
-----------------------------------------------------------------------------
\* Named bound: the demo accounts are used once between two resets.
Use == "users" \in kept /\ ~touched /\ touched' = TRUE

\* A demo account at work: it opens its wallet, follows or not, likes or not; and
\* somebody books one of the slots.
OpenPurse ==
  /\ Use /\ ~purse.exists
  /\ purse' = [exists |-> TRUE, balance |-> 1, ledger |-> purse.ledger + 1]
  /\ UNCHANGED <<now, run, kept, image, follow, like, likeCount, slot, booked, copies, counted,
                 first, cut>>

TurnFollow ==
  /\ Use /\ follow' \in {"none", "app"} \ {follow}
  /\ UNCHANGED <<now, run, kept, image, purse, like, likeCount, slot, booked, copies, counted,
                 first, cut>>

TakeBackLike ==
  /\ Use /\ like = "seeded" /\ like' = "none" /\ likeCount' = likeCount - 1
  /\ UNCHANGED <<now, run, kept, image, purse, follow, slot, booked, copies, counted, first, cut>>

TakeSlot(i) ==
  /\ Use /\ slot[i] = "open" /\ slot' = [slot EXCEPT ![i] = "taken"]
  /\ UNCHANGED <<now, run, kept, image, purse, follow, like, likeCount, booked, copies, counted,
                 first, cut>>

DemoNext ==
  \/ \E evening, resets, seeds \in BOOLEAN : StartDemo(evening, resets, seeds)
  \/ KillDemo \/ DayPasses
  \/ SeedUsers \/ SeedTrust \/ SeedSocial \/ SeedActivities \/ SeedPosts \/ SeedClubsGuilds
  \/ SeedCompanions \/ SeedCommerce \/ SeedOps \/ SeedEvents \/ SeedAggregates
  \/ UnlinkImages \/ ClearRows \/ Recount
  \/ OpenPurse \/ TurnFollow \/ TakeBackLike \/ \E i \in Slots : TakeSlot(i)
-----------------------------------------------------------------------------
DemoTypeOK ==
  /\ now \in 0 .. LastDemoDay
  /\ run.stage \in DOMAIN Follows \cup {"off", "clear", "recount", "done", "cleared"}
  /\ kept \subseteq DOMAIN Follows
  /\ follow \in {"none", "seeded", "app"} /\ like \in {"none", "seeded"}
  /\ slot \in [Slots -> {"none", "open", "booked", "taken"}] /\ booked \in 0 .. 3

\* The script's "idempotent" and docs/SEED_DATA.md (skipped when there, reset deletes
\* its own and recomputes the dashboards).  While nobody uses the demo accounts and
\* runs come at one time of day within Slack days, what was killed and repeated is as
\* if it had run once: the balance is the sum of the ledger, the counter is the
\* rows, the slot marked is the one booked, an event has one row.  A run that ends has
\* every stage, a reset that ends has left no row; and unless a reset was killed half
\* way or came late, no dashboard counts events that are gone and no image row is
\* without its file.
DemoDataRepeats ==
  /\ ~touched => /\ purse.balance = purse.ledger
              /\ likeCount = (IF like = "none" THEN 0 ELSE 1)
              /\ \A i \in Slots : slot[i] = "booked" <=> booked = i
              /\ \A o \in Ages : Cardinality(copies[o]) <= 1
  /\ run.stage = "done" => kept = DOMAIN Follows \ {"unlink"}
  /\ run.stage = "cleared" => /\ kept = {} /\ ~purse.exists /\ follow = "none" /\ like = "none"
                              /\ \A i \in Slots : slot[i] = "none"
                              /\ DaysWithEvents = {}
  /\ ~cut => /\ run.stage # "recount" => counted \subseteq DaysWithEvents
             /\ "users" \in kept /\ run.stage # "clear" => image
=============================================================================
