------------------------------- MODULE Rankings -------------------------------
(***************************************************************************)
(* What is computed from lists without keeping anything: the shelves of    *)
(* the browse page (src/app/modules/recommend/shelf_builder.py and         *)
(* activity_scorer.py) and the ordered funnel of                           *)
(* src/app/modules/analytics/aggregate.py.  A behaviour is one input.      *)
(*                                                                         *)
(* An activity is [id, cat, joined, is], "is" being "open", "almost" full, *)
(* "full" or "past"; it is better the higher its id, which stands for its  *)
(* score and the tie-breaks after it (score_activity only adds; the        *)
(* weights of its eight parts are left out, what they add up to is Score). *)
(* Of the rails that differ in their predicate only (soon, tonight,        *)
(* weekend, the interests) "filling" is kept, of nearby and free "nearby", *)
(* of the categories one each.                                             *)
(***************************************************************************)
EXTENDS Integers, SequencesExt

CONSTANTS
  MaxActs,    \* named bound: activities of all kinds on a page
  MaxCrowd,   \* named bound: bookable activities on a page
  RailLimit,  \* RAIL_LIMIT, RANKED_LIMIT and the other cuts but that of "more"
  MoreLimit,  \* the cut of "more"
  Score,      \* what score_activity gives each id
  Steps,      \* steps of a funnel
  Times       \* named bound: when its events happen

MinimumCount == 2

ASSUME RankingsAssumption ==
  /\ {MaxActs, MaxCrowd, RailLimit, MoreLimit, Steps} \subseteq Nat /\ Times \subseteq Nat
  /\ MoreLimit >= MinimumCount /\ MaxActs <= MaxCrowd
  /\ Score \in [1..MaxCrowd -> Int]
  /\ \A i, j \in 1..MaxCrowd : i < j => Score[i] < Score[j]

VARIABLES
  acts,  \* the activities in the order the query gives them
  log    \* one actor's events of a day, as <<step, time>>

rankingVars == <<acts, log>>

Kinds4 == {"open", "almost", "full", "past"}
Categories == {"food", "sport"}

\* Pages of n activities of every kind, the query's order being any.
PagesOf(n) ==
  {[i \in 1..n |-> [id |-> p[i], cat |-> k[i][1], joined |-> k[i][2], is |-> k[i][3]]] :
     p \in Bijection(1..n, 1..n), k \in [1..n -> Categories \X BOOLEAN \X Kinds4]}

\* Pages of n bookable ones, the best first or last.
Crowds(n) ==
  {[i \in 1..n |-> [id |-> p[i], cat |-> k[i], joined |-> FALSE, is |-> "open"]] :
     p \in {[i \in 1..n |-> i], [i \in 1..n |-> n + 1 - i]}, k \in [1..n -> Categories]}

RankingsInit ==
  \/ acts \in PagesOf(MaxActs) \cup Crowds(MaxCrowd) /\ log = {}
  \/ acts = <<>> /\ log \in SUBSET ((1..Steps) \X Times)

\* has_available_spots and not is_past
Bookable(a) == a.is \in {"open", "almost"}
Upcoming(a) == a.is # "past"

\* Those of the page that are in S, in the query's order.
Those(S) ==
  LET f[i \in 0..Len(acts)] == IF i = 0 THEN <<>>
                               ELSE IF acts[i] \in S THEN Append(f[i - 1], acts[i]) ELSE f[i - 1]
  IN f[Len(acts)]

Cut(s, n) == SubSeq(s, 1, IF Len(s) < n THEN Len(s) ELSE n)

\* sort by score, best first: at place k stands who has k - 1 better ones.
Better(S, a) == {b \in S : b.id > a.id}
ByScore(S) ==
  [k \in 1..Cardinality(S) |-> CHOOSE a \in S : Cardinality(Better(S, a)) = k - 1]

\* A plausible slip: only the last one is compared, against the whole pool.
NextOfAny(done, pool) == IF Len(done) >= 2 /\ Len(pool) > 1 THEN 2 ELSE 1

\* diversify: from the third on, when the last two are of one category the first
\* of another is taken if there is one.
NextOf(done, pool) ==
  LET n == Len(done)
      other == {i \in DOMAIN pool : pool[i].cat # done[n].cat} IN
  IF n >= 2 /\ done[n].cat = done[n - 1].cat /\ other # {}
  THEN CHOOSE i \in other : \A j \in other : i <= j
  ELSE 1

Diversified(s) ==
  LET f[k \in 0..Len(s)] ==
        IF k = 0 THEN [done |-> <<>>, pool |-> s]
        ELSE LET st == f[k - 1]  i == NextOf(st.done, st.pool) IN
             [done |-> Append(st.done, st.pool[i]), pool |-> RemoveAt(st.pool, i)]
  IN f[Len(s)].done

\* ranked: what is over is left out, what is full unless include_full is asked for.
Rankable(S, without, full) ==
  {a \in S : a.id \notin without /\ IF full THEN Upcoming(a) ELSE Bookable(a)}

Ranked(S, without, n, full) == Diversified(Cut(ByScore(Rankable(S, without, full)), n))

Ids(s) == {a.id : a \in Range(s)}

\* A plausible slip: what is on a shelf is not remembered.
ShelvedUnclaimed(st, name, s, claim) ==
  IF Len(s) < MinimumCount THEN st
  ELSE [st EXCEPT !.shelves = Append(@, [name |-> name, items |-> s])]

\* append of build_shelves: too short a shelf is dropped, a shelf claims its items.
Shelved(st, name, s, claim) ==
  IF Len(s) < MinimumCount THEN st
  ELSE [shelves |-> Append(st.shelves, [name |-> name, items |-> s]),
        claimed |-> st.claimed \cup (IF claim THEN Ids(s) ELSE {})]

\* build_shelves before the last reordering.
Appended ==
  LET upcoming == {a \in Range(acts) : Upcoming(a)}
      bookable == {a \in Range(acts) : Bookable(a)}
      OfCat(c) == {a \in bookable : a.cat = c}
      sh1 == Shelved([shelves |-> <<>>, claimed |-> {}], "following",
                     Cut(Those({a \in upcoming : a.joined}), RailLimit), TRUE)
      sh2 == Shelved(sh1, "filling",
                     Cut(Those({a \in bookable : a.is = "almost"}), RailLimit), TRUE)
      sh3 == Shelved(sh2, "nearby", Cut(Those(bookable), RailLimit), TRUE)
      sh4 == Shelved(sh3, "forYou", Ranked(bookable, sh3.claimed, RailLimit, FALSE), TRUE)
      sh5 == Shelved(sh4, "food", Cut(ByScore(OfCat("food")), RailLimit), TRUE)
      sh6 == Shelved(sh5, "sport", Cut(ByScore(OfCat("sport")), RailLimit), TRUE)
      sh7 == Shelved(sh6, "ranked", Ranked(upcoming, sh6.claimed, RailLimit, TRUE), FALSE)
      sh8 == Shelved(sh7, "more", Ranked(bookable, sh7.claimed, MoreLimit, FALSE), TRUE)
  IN sh8.shelves

\* strength, six times: the mean score of the first three items, or of the two there
\* are, and a bonus for "filling".
Strength(shelf) ==
  LET s == [i \in DOMAIN shelf.items |-> Score[shelf.items[i].id]] IN
  (IF Len(shelf.items) = 2 THEN 3 * (s[1] + s[2]) ELSE 2 * (s[1] + s[2] + s[3]))
    + (IF shelf.name = "filling" THEN 6 * 14 ELSE 0)

\* The head, the middle and the tail of a page.
Block(shelf) == CASE shelf.name = "following" -> 0 [] shelf.name = "ranked" -> 2
                  [] shelf.name = "more" -> 3 [] OTHER -> 1

\* Shelf i comes before shelf j: the middle is sorted by strength, what is as strong
\* and the rest stay in their order.
Ahead(S, i, j) ==
  \/ Block(S[i]) < Block(S[j])
  \/ /\ Block(S[i]) = Block(S[j])
     /\ IF Block(S[i]) # 1 \/ Strength(S[i]) = Strength(S[j]) THEN i < j
        ELSE Strength(S[i]) > Strength(S[j])

\* _reorder_for_engagement: at place k stands who has k - 1 ahead of it.
Reordered(S) ==
  [k \in DOMAIN S |-> S[CHOOSE i \in DOMAIN S :
                          Cardinality({j \in DOMAIN S : Ahead(S, j, i)}) = k - 1]]

Shelves == Reordered(Appended)

\* pick_featured: of those that can be booked, if there are any, else of those that
\* are not over; but what ranked leaves out is nobody's.
Featured ==
  LET bookable == {a \in Range(acts) : Bookable(a)}
      pool == IF bookable # {} THEN bookable ELSE {a \in Range(acts) : Upcoming(a)} IN
  Cut(Ranked(pool, {}, 5, FALSE), 1)

\* funnel_sql for one actor: when step i was first done at or after step i-1 was,
\* or -1.
Earliest(T) == IF T = {} THEN -1 ELSE CHOOSE t \in T : \A u \in T : t <= u

\* A plausible slip: the order of the steps is not looked at.
AfterAny(reached, at) == at

After(reached, at) == {t \in at : t >= reached}

FunnelTimes ==
  LET f[i \in 1..Steps] ==
        LET at == {x[2] : x \in {y \in log : y[1] = i}} IN
        IF i = 1 THEN Earliest(at)
        ELSE IF f[i - 1] = -1 THEN -1 ELSE Earliest(After(f[i - 1], at))
  IN f
-----------------------------------------------------------------------------
\* diversify keeps every activity, keeps the order within a category, and puts
\* three of one category in a row only when no other is left.
DiversifiedWhole ==
  LET s == ByScore(Range(acts))  d == Diversified(s) IN
  /\ Len(d) = Len(acts) /\ Range(d) = Range(acts)
  /\ \A i, j \in DOMAIN d : i < j /\ d[i].cat = d[j].cat => d[i].id > d[j].id
  /\ \A i \in 3..Len(d) : d[i].cat = d[i - 1].cat /\ d[i].cat = d[i - 2].cat
                          => \A j \in i..Len(d) : d[j].cat = d[i].cat

\* build_shelves: nothing that is over is on any shelf, nothing full but where it is
\* joined or ranked; what "forYou" offers is on none of the rails, what "ranked" and
\* "more" offer is on no other shelf but each other; fewer than two bookable
\* activities stay off every shelf, unless "more" is full; "following" comes first,
\* "ranked" and "more" last, the rest the strongest first.  pick_featured picks the
\* best that can be booked, and nothing if none can.
ShelvesShowTheRest ==
  LET S == Shelves
      On(names) == UNION {Ids(S[i].items) : i \in {k \in DOMAIN S : S[k].name \in names}}
      middle == {"filling", "nearby", "forYou", "food", "sport"}
      bookable == {a \in Range(acts) : Bookable(a)}
      shown == On({"following", "ranked", "more"} \cup middle) IN
  /\ \A i \in DOMAIN S : \A a \in Range(S[i].items) :
       Upcoming(a) /\ (a.is = "full" => S[i].name \in {"following", "ranked"})
  /\ On({"forYou"}) \cap On({"following", "filling", "nearby"}) = {}
  /\ On({"ranked", "more"}) \cap On({"following"} \cup middle) = {}
  /\ \/ Cardinality({a \in bookable : a.id \notin shown}) < MinimumCount
     \/ \E i \in DOMAIN S : S[i].name = "more" /\ Len(S[i].items) = MoreLimit
  /\ \A i, j \in DOMAIN S : i < j =>
       \/ S[i].name = "following" /\ S[j].name # "following"
       \/ S[i].name \in middle /\ S[j].name \in middle /\ Strength(S[i]) >= Strength(S[j])
       \/ S[i].name \in middle /\ S[j].name \in {"ranked", "more"}
       \/ S[i].name = "ranked" /\ S[j].name = "more"
  /\ \A a \in Range(Featured) : a \in bookable /\ \A b \in bookable : a.id >= b.id
  /\ Featured = <<>> <=> bookable = {}

\* aggregate.py's "each step counts actors whose first matching event is at/after
\* their previous step": an actor is counted for a step exactly if some of their
\* events do all the steps up to it in order, so that counts never rise.
FunnelIsOrdered ==
  \A i \in 1..Steps :
    FunnelTimes[i] # -1 <=>
      \E t \in [1..i -> Times] : /\ \A j \in 1..i : <<j, t[j]>> \in log
                                 /\ \A j \in 1..(i - 1) : t[j] <= t[j + 1]

RankingsAsMeant == DiversifiedWhole /\ ShelvesShowTheRest /\ FunnelIsOrdered
=============================================================================
