------------------------------ MODULE RateBook ------------------------------
(***************************************************************************)
(* Book.Materialize (internal/rates): the snapshot of all interest-rate    *)
(* series, from the lists of observations the sources published.           *)
(*                                                                         *)
(* A level is an integer; what is no number at all is one beyond MaxLevel. *)
(* A date is an instant, DayLength of them to a calendar day.  Every       *)
(* adapter stamps its own name on its observations, so a source's          *)
(* observations are those it published.  Labels are left out.              *)
(***************************************************************************)
EXTENDS Integers, SequencesExt

CONSTANTS
  Source,     \* the names of the sources
  Rank,       \* Rank[s]: SourceRank, the authority of s
  Series,     \* the canonical ids an observation may carry
  DayLength,  \* instants to a day
  MaxLevel    \* the largest level that is published

Observation == [date : Nat, value : Int, series : Series \cup {""}]

ASSUME RateBookAssumption ==
  /\ IsFiniteSet(Source)
  /\ Rank \in [Source -> 0..4]
  /\ "" \notin Series
  /\ DayLength \in Nat \ {0}
  /\ MaxLevel \in Nat

\* A mutant of UsableLevel: only the upper end of the band is looked at.
NotTooHigh(v) == v <= MaxLevel

UsableLevel(v) == -MaxLevel <= v /\ v <= MaxLevel

\* The observations of one source's list that go into series id.
Admitted(list, id) ==
  LET kept[n \in 0..Len(list)] ==
        IF n = 0 THEN <<>>
        ELSE IF list[n].series = id /\ UsableLevel(list[n].value)
             THEN Append(kept[n - 1], list[n])
             ELSE kept[n - 1]
  IN  kept[Len(list)]

Ids(book) == {id \in Series : \E s \in Source : Admitted(book[s], id) # <<>>}

Contributors(book, id) == {s \in Source : Admitted(book[s], id) # <<>>}

\* A mutant of Newest: of observations with one date the last one stays.
NewestLast(list) ==
  list[CHOOSE i \in DOMAIN list : \A j \in DOMAIN list :
         /\ list[j].date <= list[i].date
         /\ list[j].date = list[i].date => j <= i]

\* A source's latest observation, the first of those with the latest date.
Newest(list) ==
  list[CHOOSE i \in DOMAIN list : \A j \in DOMAIN list :
         /\ list[j].date <= list[i].date
         /\ list[j].date = list[i].date => i <= j]

\* A mutant of Heads: the fresher observation wins whoever published it.
HeadsFresher(head, s, o) == o.date > head.date

\* The test that makes source s, with newest observation o, the headline.
Heads(head, s, o) ==
  \/ Rank[s] > head.rank
  \/ Rank[s] = head.rank /\ o.date > head.date

\* The headline source of series id when the loop over the sources' map takes
\* them in this order: of the first n, the last one that headed those before it.
Headline(book, id, order) ==
  LET head[n \in 0..Len(order)] ==
        IF n = 0 THEN [rank |-> -1, date |-> -1, source |-> "none"]
        ELSE LET s == order[n]
                 before == head[n - 1]
                 newest == Newest(Admitted(book[s], id))
             IN IF s \in Contributors(book, id) /\ Heads(before, s, newest)
                THEN [rank |-> Rank[s], date |-> newest.date, source |-> s]
                ELSE before
  IN head[Len(order)].source

Day(date) == date \div DayLength

\* dedupeByDate's observation for a day: an observation replaces the kept one of its
\* day only when it is later.
Kept(list, day) ==
  LET ofDay == {i \in DOMAIN list : Day(list[i].date) = day} IN
  list[CHOOSE i \in ofDay : \A j \in ofDay :
         list[j].date < list[i].date \/ (list[j].date = list[i].date /\ i <= j)]

\* One point per day; sorted by date, the points are a set here.
DedupeByDate(list) ==
  {[date |-> Kept(list, day).date, value |-> Kept(list, day).value] :
     day \in {Day(list[i].date) : i \in DOMAIN list}}

\* One entry of the snapshot, with source h as its headline.
View(book, id, h) ==
  LET newest == Newest(Admitted(book[h], id)) IN
  [source  |-> h,
   value   |-> newest.value,
   date    |-> newest.date,
   latest  |-> [s \in Contributors(book, id) |-> Newest(Admitted(book[s], id))],
   history |-> DedupeByDate(Admitted(book[h], id))]

\* Go gives no order to the map of a series' sources.
Orders == SetToSeqs(Source)

\* The snapshots Materialize may answer with.
Materialize(book) ==
  LET chosen == {<<id, Headline(book, id, order)>> : id \in Ids(book), order \in Orders}
      picks == {h \in [Ids(book) -> Source] : \A id \in Ids(book) : <<id, h[id]>> \in chosen}
  IN {[id \in Ids(book) |-> View(book, id, h[id])] : h \in picks}
=============================================================================
